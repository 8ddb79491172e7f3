--------------------------- MODULE BrowserSession ---------------------------
(***************************************************************************)
(* The session of one user in one browser: the tabs of apps/web, each with *)
(* its AuthProvider (store/auth.tsx) and API client (lib/api.ts), the      *)
(* cookie they share, and the gateway's answers to them.                   *)
(*                                                                         *)
(* The gateway is reduced to what module Sessions shows of it: a live      *)
(* token is exchanged once; any other one that was issued ends all         *)
(* sessions.  A request carries the cookie of the moment it is sent, and   *)
(* its answer sets the cookie when it arrives.                             *)
(***************************************************************************)
EXTENDS Naturals

CONSTANTS
    Tabs,
    Callers,    \* what asks for a refresh in a tab: its timer, and queries
                \* that were answered 401
    MaxTokens,  \* bound: refresh tokens issued
    Signs,      \* what the user does, some of {"signin", "signout"}
    Faults      \* bound: faults that occur, some of {"lost", "reload"}

BoundAssumption ==
    /\ MaxTokens \in Nat \ {0}
    /\ Callers \cap {"none", "mount", "signin", "signout"} = {}

VARIABLES
    cookie,  \* the refresh token in the browser's cookie, 0 for none
    live,    \* the tokens the gateway takes
    issued,  \* how many it has issued
    page,    \* what each tab shows
    access,  \* whether its module-scoped access token is set
    promise, \* its refreshPromise: the caller that sent it, or "none"
    flight   \* its requests, by what sent them

vars == <<cookie, live, issued, page, access, promise, flight>>
server == <<live, issued>>

None == "none"
Kinds == {"mount", "signin", "signout"} \cup Callers
Idle == [at |-> None, token |-> 0]

TypeOK ==
    /\ cookie \in 0..MaxTokens
    /\ issued \in 1..MaxTokens
    /\ live \subseteq 1..issued
    /\ page \in [Tabs -> {"closed", "loading", "in", "out"}]
    /\ access \in [Tabs -> BOOLEAN]
    /\ promise \in [Tabs -> Callers \cup {None}]
    /\ flight \in [Tabs -> [Kinds ->
           [at : {None, "sent", "ok", "failed", "lost"},
            token : 0..MaxTokens]]]
    /\ \A t \in Tabs, c \in Callers : flight[t][c] # Idle => promise[t] = c

\* The browser is opened with the cookie of an earlier visit.
Init ==
    /\ cookie = 1 /\ live = {1} /\ issued = 1
    /\ page = [t \in Tabs |-> "closed"]
    /\ access = [t \in Tabs |-> FALSE]
    /\ promise = [t \in Tabs |-> None]
    /\ flight = [t \in Tabs |-> [k \in Kinds |-> Idle]]
-----------------------------------------------------------------------------
(* Requests *)

Put(t, k, at, token) ==
    flight' = [flight EXCEPT ![t][k] = [at |-> at, token |-> token]]
Send(t, k) == Put(t, k, "sent", cookie)
\* The answer has been dealt with.
Close(t, k) == flight' = [flight EXCEPT ![t][k] = Idle]
At(t, k, at) == flight[t][k].at = at

\* POST /auth/refresh at the gateway.
ServeRefresh(t, k) ==
    LET card == flight[t][k].token IN
    /\ k \in {"mount"} \cup Callers /\ At(t, k, "sent")
    /\ \/ /\ card \in live /\ issued < MaxTokens
          /\ issued' = issued + 1
          /\ live' = (live \ {card}) \cup {issued'}
          /\ Put(t, k, "ok", issued')
       \/ /\ card \notin live
          /\ live' = IF card = 0 THEN live ELSE {}
          /\ Put(t, k, "failed", card)
          /\ UNCHANGED issued
    /\ UNCHANGED <<cookie, page, access, promise>>

ServeSign(t) ==
    /\ \/ /\ At(t, "signin", "sent") /\ issued < MaxTokens
          /\ issued' = issued + 1
          /\ live' = live \cup {issued'}
          /\ Put(t, "signin", "ok", issued')
       \/ /\ At(t, "signin", "sent")
          /\ Put(t, "signin", "failed", 0)
          /\ UNCHANGED server
       \/ /\ At(t, "signout", "sent")
          /\ live' = live \ {flight[t]["signout"].token}
          /\ Put(t, "signout", "ok", 0)
          /\ UNCHANGED issued
    /\ UNCHANGED <<cookie, page, access, promise>>

\* The request, or its answer, does not get through: fetch rejects, and no
\* cookie is set.
Lose(t, k) ==
    /\ "lost" \in Faults
    /\ At(t, k, "sent") \/ At(t, k, "ok")
    /\ Put(t, k, "lost", 0)
    /\ UNCHANGED <<cookie, server, page, access, promise>>

\* What became of a request: it was answered, or fetch rejected.
Refused(t, k) == At(t, k, "failed") \/ At(t, k, "lost")
Settled(t, k) == At(t, k, "ok") \/ Refused(t, k)

\* The cookie an answer sets: a new one, or, on reuse and sign-out, none.
SetCookie(t, k) ==
    cookie' = CASE At(t, k, "ok") -> flight[t][k].token
                [] At(t, k, "failed") /\ flight[t][k].token # 0 -> 0
                [] OTHER -> cookie
-----------------------------------------------------------------------------
(* The page *)

Show(t, p) == page' = [page EXCEPT ![t] = p]
Token(t, b) == access' = [access EXCEPT ![t] = b]

\* The effect of AuthProvider: a refresh of its own, past refreshPromise.
Mount(t) ==
    /\ page[t] = "closed"
    /\ Show(t, "loading")
    /\ Send(t, "mount")
    /\ UNCHANGED <<cookie, server, access, promise>>

\* finally: the page is shown whatever the answer was.
HydrateSettles(t) == Settled(t, "mount")

Hydrated(t) ==
    /\ HydrateSettles(t)
    /\ SetCookie(t, "mount")
    /\ Show(t, IF At(t, "mount", "ok") THEN "in" ELSE "out")
    /\ Token(t, At(t, "mount", "ok"))
    /\ Close(t, "mount")
    /\ UNCHANGED <<server, promise>>

EveryCallerSends(t, c) == flight[t][c] = Idle
\* refreshAccessToken: who finds a promise waits for that one.
NoRefreshYet(t, c) == promise[t] = None /\ flight[t][c] = Idle

StartRefresh(t, c) ==
    /\ page[t] = "in"
    /\ NoRefreshYet(t, c)
    /\ promise' = [promise EXCEPT ![t] = c]
    /\ Send(t, c)
    /\ UNCHANGED <<cookie, server, page, access>>

\* A new access token, or onAuthLost, which clears the session.
Refreshed(t, c) ==
    /\ Settled(t, c)
    /\ SetCookie(t, c)
    /\ promise' = [promise EXCEPT ![t] = None]
    /\ Token(t, At(t, c, "ok"))
    /\ IF At(t, c, "ok") THEN UNCHANGED page ELSE Show(t, "out")
    /\ Close(t, c)
    /\ UNCHANGED server

SignIn(t) ==
    /\ "signin" \in Signs
    /\ page[t] = "out" /\ flight[t]["signin"] = Idle
    /\ Send(t, "signin")
    /\ UNCHANGED <<cookie, server, page, access, promise>>

SignedIn(t) ==
    /\ Settled(t, "signin")
    /\ SetCookie(t, "signin")
    /\ IF At(t, "signin", "ok") THEN Show(t, "in") /\ Token(t, TRUE)
                                ELSE UNCHANGED <<page, access>>
    /\ Close(t, "signin")
    /\ UNCHANGED <<server, promise>>

SignOut(t) ==
    /\ "signout" \in Signs
    /\ page[t] = "in" /\ flight[t]["signout"] = Idle
    /\ Send(t, "signout")
    /\ UNCHANGED <<cookie, server, page, access, promise>>

\* clearSession, whether the request succeeded or not.
SignedOut(t) ==
    /\ Settled(t, "signout")
    /\ SetCookie(t, "signout")
    /\ Show(t, "out")
    /\ Token(t, FALSE)
    /\ Close(t, "signout")
    /\ UNCHANGED <<server, promise>>

\* The page is reloaded; its requests are aborted, some of them served.
Reload(t) ==
    /\ "reload" \in Faults
    /\ page[t] \in {"in", "out"}
    /\ Show(t, "closed")
    /\ Token(t, FALSE)
    /\ promise' = [promise EXCEPT ![t] = None]
    /\ flight' = [flight EXCEPT ![t] = [k \in Kinds |-> Idle]]
    /\ UNCHANGED <<cookie, server>>

Answer(t) ==
    \/ Hydrated(t) \/ SignedIn(t) \/ SignedOut(t)
    \/ \E c \in Callers : Refreshed(t, c)
Gateway(t) == ServeSign(t) \/ \E k \in Kinds : ServeRefresh(t, k)
User(t) ==
    \/ Mount(t) \/ SignIn(t) \/ SignOut(t) \/ Reload(t)
    \/ \E c \in Callers : StartRefresh(t, c)

Next ==
    \E t \in Tabs :
        \/ User(t) \/ Gateway(t) \/ Answer(t)
        \/ \E k \in Kinds : Lose(t, k)

Spec == Init /\ [][Next]_vars
-----------------------------------------------------------------------------
(* Properties *)

\* A user of one tab is not signed out by the page's own requests: those that
\* are answered 401 together, and the timer, share one refresh, so none of
\* them presents a cookie that another has used up.
NotThrownOut ==
    \A t \in Tabs : page[t] = "in" =>
        /\ live # {}
        /\ \A c \in Callers : ~At(t, c, "failed")

\* The page does not stay in its loading state, whatever becomes of the
\* refresh it is opened with.  (To be reached again and again.)
AtRest == \A t \in Tabs : page[t] # "loading"
=============================================================================
