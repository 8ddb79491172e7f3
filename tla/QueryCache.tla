----------------------------- MODULE QueryCache -----------------------------
(***************************************************************************)
(* The query cache of one tab of apps/web (hooks/queries.ts) and whose     *)
(* data is in it, while users sign in and out (store/auth.tsx).  A query   *)
(* key names no user.  The views are those of pages that stay open: each   *)
(* is fetched when a user is there, and again when a mutation that has     *)
(* succeeded invalidates its key, or is given the answer of the mutation.  *)
(*                                                                         *)
(* The version of a view counts the writes to what it shows.  Answers that *)
(* are lost, and views that are unmounted meanwhile, are left out.         *)
(***************************************************************************)
EXTENDS Naturals

CONSTANTS
    Users,
    Keys,
    WriteThrough,   \* the keys whose mutations answer with the view: the cart
    Hooks,          \* the mutations of a key
    OtherTab,       \* whether another tab may sign in
    MaxVersion      \* bound: writes to what a key shows to a user

QueryCacheAssumption ==
    /\ WriteThrough \subseteq Keys /\ OtherTab \in BOOLEAN
    /\ MaxVersion \in Nat /\ "none" \notin Users

VARIABLES
    user,    \* the user of AuthContext
    token,   \* whose access token the client sends
    cookie,  \* whose refresh token the browser has
    server,  \* the version of each user's data
    cache,   \* what is shown for a key
    query,   \* the fetch of a key
    write,   \* the mutations
    own      \* for the property: the version of the last write of this session
             \* that was answered

vars == <<user, token, cookie, server, cache, query, write, own>>

None == "none"
Empty == [owner |-> None, version |-> 0]
Idle == [at |-> "idle", owner |-> None, version |-> 0, old |-> FALSE]
Sent(u) == [at |-> "sent", owner |-> u, version |-> 0, old |-> FALSE]

Data == [owner : Users \cup {None}, version : 0..MaxVersion]
Request == [at : {"idle", "sent", "served"}, old : BOOLEAN,
            owner : Users \cup {None}, version : 0..MaxVersion]

TypeOK ==
    /\ {user, token, cookie} \subseteq Users \cup {None}
    /\ token # None <=> user # None
    /\ server \in [Users -> [Keys -> 0..MaxVersion]]
    /\ cache \in [Keys -> Data]
    /\ query \in [Keys -> Request]
    /\ write \in [Keys -> [Hooks -> Request]]
    /\ own \in [Keys -> 0..MaxVersion]

Init ==
    /\ user = None /\ token = None /\ cookie = None
    /\ server = [u \in Users |-> [k \in Keys |-> 0]]
    /\ cache = [k \in Keys |-> Empty]
    /\ query = [k \in Keys |-> Idle]
    /\ write = [k \in Keys |-> [h \in Hooks |-> Idle]]
    /\ own = [k \in Keys |-> 0]
-----------------------------------------------------------------------------
(* The session *)

\* applySession, and invalidateQueries: every view is fetched again.
SignIn(u) ==
    /\ user = None
    /\ user' = u /\ token' = u /\ cookie' = u
    /\ query' = [k \in Keys |-> Sent(u)]
    /\ UNCHANGED <<server, cache, write, own>>

\* clearSession.  Clearing the cache drops the queries that are in flight; a
\* mutation goes on.
Left(r) == IF r = Idle THEN r ELSE [r EXCEPT !.old = TRUE]
Keep(c) == c
Cleared(c) == [k \in Keys |-> Empty]

SignOut ==
    /\ user # None
    /\ user' = None /\ token' = None /\ cookie' = None
    /\ cache' = Cleared(cache)
    /\ query' = [k \in Keys |-> Idle]
    /\ write' = [k \in Keys |-> [h \in Hooks |-> Left(write[k][h])]]
    /\ own' = [k \in Keys |-> 0]
    /\ UNCHANGED server

\* The timer: the token is that of whoever the cookie is now.
Refresh ==
    /\ user # None /\ cookie # None
    /\ token' = cookie
    /\ UNCHANGED <<user, cookie, server, cache, query, write, own>>

OtherSignIn(u) ==
    /\ OtherTab
    /\ cookie' = u
    /\ UNCHANGED <<user, token, server, cache, query, write, own>>
-----------------------------------------------------------------------------
(* Queries *)

\* By "Try again", or on reconnecting.
Refetch(k) ==
    /\ user # None /\ query[k] = Idle
    /\ query' = [query EXCEPT ![k] = Sent(token)]
    /\ UNCHANGED <<user, token, cookie, server, cache, write, own>>

Served(r, k) ==
    [r EXCEPT !.at = "served", !.version = server'[r.owner][k]]

ServeQuery(k) ==
    /\ query[k].at = "sent"
    /\ UNCHANGED server
    /\ query' = [query EXCEPT ![k] = Served(@, k)]
    /\ UNCHANGED <<user, token, cookie, cache, write, own>>

Shown(r) == [owner |-> r.owner, version |-> r.version]

QueryAnswered(k) ==
    /\ query[k].at = "served"
    /\ cache' = [cache EXCEPT ![k] = Shown(query[k])]
    /\ query' = [query EXCEPT ![k] = Idle]
    /\ UNCHANGED <<user, token, cookie, server, write, own>>
-----------------------------------------------------------------------------
(* Mutations *)

\* A page shows its forms and buttons when its data has been loaded; what is
\* put into the cart needs no cart.
Loaded(k) == k \in WriteThrough \/ cache[k].owner # None

Mutate(k, h) ==
    /\ user # None /\ Loaded(k)
    /\ write[k][h] = Idle
    /\ write' = [write EXCEPT ![k][h] = Sent(token)]
    /\ UNCHANGED <<user, token, cookie, server, cache, query, own>>

ServeWrite(k, h) ==
    LET u == write[k][h].owner IN
    /\ write[k][h].at = "sent"
    /\ server[u][k] < MaxVersion
    /\ server' = [server EXCEPT ![u][k] = @ + 1]
    /\ write' = [write EXCEPT ![k][h] = Served(@, k)]
    /\ UNCHANGED <<user, token, cookie, cache, query, own>>

\* invalidateQueries: a view that is shown is fetched anew.  The fetch that is
\* in flight is cancelled, unless it is the first.
Joined(k) == IF query[k] = Idle THEN Sent(token) ELSE query[k]

Invalidated(k) ==
    IF cache[k].owner # None THEN Sent(token) ELSE Joined(k)

\* onSuccess of useMutation, whatever became of the page or the session.
WriteAnswered(k, h) ==
    /\ write[k][h].at = "served"
    /\ write' = [write EXCEPT ![k][h] = Idle]
    /\ IF k \in WriteThrough
       THEN /\ cache' = [cache EXCEPT ![k] = Shown(write[k][h])]
            /\ UNCHANGED query
       ELSE /\ query' = IF user # None
                        THEN [query EXCEPT ![k] = Invalidated(k)] ELSE query
            /\ UNCHANGED cache
    /\ IF write[k][h].old THEN UNCHANGED own
       ELSE own' = [own EXCEPT ![k] = IF @ > write[k][h].version THEN @
                                      ELSE write[k][h].version]
    /\ UNCHANGED <<user, token, cookie, server>>

Next ==
    \/ SignOut \/ Refresh
    \/ \E u \in Users : SignIn(u) \/ OtherSignIn(u)
    \/ \E k \in Keys : \/ Refetch(k) \/ ServeQuery(k) \/ QueryAnswered(k)
                       \/ \E h \in Hooks : \/ Mutate(k, h)
                                           \/ ServeWrite(k, h)
                                           \/ WriteAnswered(k, h)
Spec == Init /\ [][Next]_vars
-----------------------------------------------------------------------------
(* Properties *)

\* The views that no mutation writes into the cache.  Of the cart less is true:
\* a mutation that is answered late puts its cart there, whosever it is.
Fetched == Keys \ WriteThrough

\* "The next user must not see the last one's data": what a user is shown is
\* the user's own.
NotAnothers ==
    \A k \in Fetched : user # None => cache[k].owner \in {None, user}

\* And nothing of a user stays behind.
NothingLeft == user = None => \A k \in Fetched : cache[k] = Empty

\* Once a view is not being fetched it shows all that has been written in this
\* session, also what was written while it was fetched.
ReadsItsWrites ==
    \A k \in Fetched : query[k] = Idle => cache[k].version >= own[k]
=============================================================================
