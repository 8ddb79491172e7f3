------------------------------ MODULE Sessions ------------------------------
(***************************************************************************)
(* The refresh tokens of one user: sign-in, rotating refresh, sign-out and *)
(* sign-out everywhere in apps/api-gateway, and the two operations of      *)
(* services/account that end sessions, as transactions that lock the row   *)
(* of the user and the rows of tokens.  Tokens of different users share    *)
(* nothing.  A token is named by the request it is issued to; access       *)
(* tokens, which nobody stores, are left out.                              *)
(***************************************************************************)
CONSTANTS
    First,      \* a session that exists at first
    SignIns, Refreshes, SignOuts,
    SignOutAlls,
    Passwords,  \* PUT /account/password
    Deletes,    \* DELETE /account
    Faults      \* bound: faults that occur, {} or {"crash"}

Issued == {First} \cup SignIns \cup Refreshes
Txs == SignIns \cup Refreshes \cup SignOuts \cup SignOutAlls
           \cup Passwords \cup Deletes

\* A request is one of them.
ASSUME NamesAssumption ==
    /\ {"none", "user"} \cap (Issued \cup Txs) = {}
    /\ First \notin Txs
    /\ SignIns \cap (Refreshes \cup SignOuts) = {}
    /\ Refreshes \cap SignOuts = {}
    /\ (SignIns \cup Refreshes \cup SignOuts)
           \cap (SignOutAlls \cup Passwords \cup Deletes) = {}
    /\ SignOutAlls \cap (Passwords \cup Deletes) = {}
    /\ Passwords \cap Deletes = {}

VARIABLES
    token,     \* each refresh token: "none" before it is issued
    successor, \* refresh_tokens.replaced_by
    root,      \* the sign-in a token goes back to
    password,  \* how often the password was changed
    active,    \* users.is_active
    pc,        \* where each request is
    card,      \* the token it presents
    proof,     \* the password a sign-in was checked against
    locks,     \* rows locked
    todo       \* tokens its UPDATE has matched and not come to

INSTANCE RowLocks

tokens == <<token, successor, root>>
user == <<password, active>>
vars == <<tokens, user, pc, card, proof, locks, todo>>

None == "none"

TypeOK ==
    /\ token \in [Issued -> {None, "live", "revoked"}]
    /\ successor \in [Issued -> Refreshes \cup {None}]
    /\ root \in [Issued -> {First, None} \cup SignIns]
    /\ password \in [Passwords -> BOOLEAN]
    /\ active \in BOOLEAN
    /\ pc \in [Txs -> {"idle", "begun", "issue", "issued", "select", "mark",
                       "commit", "ended", "aborted"}]
    /\ card \in [Txs -> Issued \cup {None}]
    /\ proof \in [SignIns -> SUBSET Passwords]
    /\ locks \in [Txs -> SUBSET ((Issued \cup {"user"}) \X Modes)]
    /\ todo \in [Txs -> SUBSET Issued]

Init ==
    /\ token = [i \in Issued |-> IF i = First THEN "live" ELSE None]
    /\ successor = [i \in Issued |-> None]
    /\ root = [i \in Issued |-> IF i = First THEN First ELSE None]
    /\ password = [p \in Passwords |-> FALSE]
    /\ active = TRUE
    /\ pc = [t \in Txs |-> "idle"]
    /\ card = [t \in Txs |-> None]
    /\ proof = [s \in SignIns |-> {}]
    /\ locks = [t \in Txs |-> {}]
    /\ todo = [t \in Txs |-> {}]
-----------------------------------------------------------------------------
Goto(t, l) == pc' = [pc EXCEPT ![t] = l]
\* COMMIT or ROLLBACK.
End(t, l) ==
    /\ Goto(t, l)
    /\ locks' = [locks EXCEPT ![t] = {}]
    /\ todo' = [todo EXCEPT ![t] = {}]

Live == {i \in Issued : token[i] = "live"}
Exists == {i \in Issued : token[i] # None}
Changes == {p \in Passwords : password[p]}

\* A refresh or a sign-out comes with a cookie that was set at some time.
Begin(t) ==
    /\ pc[t] = "idle"
    /\ IF t \in Refreshes \cup SignOuts
       THEN \E i \in Exists : card' = [card EXCEPT ![t] = i]
       ELSE UNCHANGED card
    /\ Goto(t, "begun")
    /\ UNCHANGED <<tokens, user, proof, locks, todo>>
-----------------------------------------------------------------------------
(* signIn *)

\* The user is read and the password compared before the transaction.
SignInCheck(t) ==
    /\ t \in SignIns /\ pc[t] = "begun"
    /\ IF active
       THEN Goto(t, "issue") /\ proof' = [proof EXCEPT ![t] = Changes]
       ELSE Goto(t, "ended") /\ UNCHANGED proof
    /\ UNCHANGED <<tokens, user, card, locks, todo>>

\* UPDATE users SET last_login_at, then issueSession.
SignInIssue(t) ==
    /\ t \in SignIns /\ pc[t] = "issue"
    /\ Lock(t, "user", "no key update")
    /\ Goto(t, "issued")
    /\ UNCHANGED <<tokens, user, card, proof, todo>>

SignInCommit(t) ==
    /\ t \in SignIns /\ pc[t] = "issued"
    /\ token' = [token EXCEPT ![t] = "live"]
    /\ root' = [root EXCEPT ![t] = t]
    /\ End(t, "ended")
    /\ UNCHANGED <<successor, user, card, proof>>
-----------------------------------------------------------------------------
(* refresh *)

Unlocked(t) == UNCHANGED locks
SelectForUpdate(t) == Lock(t, card[t], "update")

UserIsActive == active

Rotated(i) == successor[i] # None \/ token[i] = "revoked"

\* SELECT ... FOR UPDATE OF rt.  A token that was used or revoked is reported
\* for reuse, which ends the transaction; one that has expired, or whose user
\* is not active, is refused.
RefreshSelect(t) ==
    /\ t \in Refreshes /\ pc[t] = "begun"
    /\ CanLock(t, card[t], "update")
    /\ \/ Rotated(card[t]) /\ Goto(t, "select") /\ UNCHANGED <<locks, todo>>
       \/ /\ ~Rotated(card[t]) /\ UserIsActive
          /\ SelectForUpdate(t)
          /\ Goto(t, "issue") /\ UNCHANGED todo
       \/ ~Rotated(card[t]) /\ End(t, "ended")
    /\ UNCHANGED <<tokens, user, card, proof>>

\* The foreign key of refresh_tokens locks the user.
RefreshIssue(t) ==
    /\ t \in Refreshes /\ pc[t] = "issue"
    /\ Lock(t, "user", "key share")
    /\ Goto(t, "issued")
    /\ UNCHANGED <<tokens, user, card, proof, todo>>

RootOf(t) == root[card[t]]

RefreshCommit(t) ==
    /\ t \in Refreshes /\ pc[t] = "issued"
    /\ token' = [token EXCEPT ![t] = "live", ![card[t]] = "revoked"]
    /\ successor' = [successor EXCEPT ![card[t]] = t]
    /\ root' = [root EXCEPT ![t] = RootOf(t)]
    /\ End(t, "ended")
    /\ UNCHANGED <<user, card, proof>>
-----------------------------------------------------------------------------
(* Revoking sessions *)

\* signOut: an UPDATE of one row.
SignOut(t) ==
    /\ t \in SignOuts /\ pc[t] = "begun"
    /\ CanLock(t, card[t], "no key update")
    /\ token' = [token EXCEPT ![card[t]] = "revoked"]
    /\ End(t, "ended")
    /\ UNCHANGED <<successor, root, user, card, proof>>

\* changePassword and deleteUser lock the user first; the password may not
\* match, and an account with open orders is not deleted.
PlainUpdateMode(t) == "no key update"
UserLockMode(t) == "update"

AccountLock(t) ==
    /\ t \in Passwords \cup Deletes /\ pc[t] = "begun"
    /\ CanLock(t, "user", UserLockMode(t))
    /\ \/ /\ active
          /\ Lock(t, "user", UserLockMode(t))
          /\ Goto(t, "select") /\ UNCHANGED todo
       \/ End(t, "ended")
    /\ UNCHANGED <<tokens, user, card, proof>>

Selects(t) == \/ t \in SignOutAlls /\ pc[t] = "begun"
              \/ pc[t] = "select"

Revocable(t) == IF t \in Deletes THEN Exists ELSE Live

\* UPDATE refresh_tokens ... WHERE user_id: the statement sees the tokens that
\* are committed when it starts.
RevokeSelect(t) ==
    /\ Selects(t)
    /\ todo' = [todo EXCEPT ![t] = Revocable(t)]
    /\ Goto(t, "mark")
    /\ UNCHANGED <<tokens, user, card, proof, locks>>

\* It locks them one by one, and checks again what it had to wait for.
RevokeMark(t) ==
    /\ pc[t] = "mark"
    /\ \/ \E i \in todo[t] :
            /\ CanLock(t, i, "no key update")
            /\ IF i \in Live THEN Lock(t, i, "no key update")
                             ELSE UNCHANGED locks
            /\ todo' = [todo EXCEPT ![t] = @ \ {i}]
            /\ UNCHANGED pc
       \/ todo[t] = {} /\ Goto(t, "commit") /\ UNCHANGED <<locks, todo>>
    /\ UNCHANGED <<tokens, user, card, proof>>

RevokeCommit(t) ==
    /\ pc[t] = "commit"
    /\ token' = [i \in Issued |-> IF <<i, "no key update">> \in locks[t]
                                  THEN "revoked" ELSE token[i]]
    /\ password' = [p \in Passwords |-> password[p] \/ p = t]
    /\ active' = (active /\ t \notin Deletes)
    /\ End(t, "ended")
    /\ UNCHANGED <<successor, root, card, proof>>

\* The gateway dies between the two steps of a detected reuse.
Crash(t) ==
    /\ "crash" \in Faults
    /\ t \in Refreshes /\ pc[t] = "select"
    /\ End(t, "aborted")
    /\ UNCHANGED <<tokens, user, card, proof>>
-----------------------------------------------------------------------------
\* The locks that the next statement of a request needs, one of them next.
Wants(t) ==
    CASE pc[t] = "begun" /\ t \in Refreshes -> {<<card[t], "update">>}
      [] pc[t] = "begun" /\ t \in SignOuts -> {<<card[t], "no key update">>}
      [] pc[t] = "begun" /\ t \in Passwords \cup Deletes ->
             {<<"user", UserLockMode(t)>>}
      [] pc[t] = "issue" ->
             {<<"user", IF t \in SignIns THEN "no key update"
                                         ELSE "key share">>}
      [] pc[t] = "mark" -> todo[t] \X {"no key update"}
      [] OTHER -> {}

NeverWaits(t) == FALSE
Waits(t) == Wants(t) # {} /\ \A l \in Wants(t) : ~CanLock(t, l[1], l[2])

\* statement_timeout, or the database's deadlock detection.
WaitFails(t) ==
    /\ Waits(t)
    /\ End(t, "aborted")
    /\ UNCHANGED <<tokens, user, card, proof>>

Step(t) ==
    \/ SignInCheck(t) \/ SignInIssue(t) \/ SignInCommit(t)
    \/ RefreshSelect(t) \/ RefreshIssue(t) \/ RefreshCommit(t)
    \/ SignOut(t) \/ AccountLock(t)
    \/ RevokeSelect(t) \/ RevokeMark(t) \/ RevokeCommit(t)

Next == \E t \in Txs : Begin(t) \/ Step(t) \/ WaitFails(t) \/ Crash(t)

Spec == Init /\ [][Next]_vars
-----------------------------------------------------------------------------
(* Properties *)

\* However often a cookie is presented, and by however many requests at once,
\* one session has one live token: a token is exchanged once.
OneLivePerSession ==
    \A i, j \in Live : root[i] = root[j] => i = j

\* When a password change commits, every session is over, those that were
\* being refreshed meanwhile included (the lock on the user and the foreign
\* key of the new token exclude each other); a user who was deleted is not
\* issued a token by a refresh, although refresh does not lock the user it
\* reads; and a revoked token stays revoked and keeps its successor.
RevocationHolds ==
    /\ password' # password => Live' = {}
    /\ \A r \in Refreshes : token[r] = None /\ token'[r] = "live" => active
    /\ \A i \in Issued :
           /\ token[i] = "revoked" => token'[i] = "revoked"
           /\ successor[i] # None => successor'[i] = successor[i]

\* Whatever the requests, and in whatever order their statements come.
RevokedForGood == [][RevocationHolds]_vars

\* Every request ends, although a refresh holds its token and waits for the
\* user, and a password change the other way round: time and again none is
\* under way.
AtRest == \A t \in Txs : pc[t] \in {"idle", "ended", "aborted"}

\* signOutAll "revokes every session for the current user".
SignOutAllIsComplete ==
    [][\A t \in SignOutAlls :
           (pc[t] = "commit" /\ pc'[t] = "ended") => Live' = {}]_vars
=============================================================================
