------------------------------ MODULE Accounts ------------------------------
(***************************************************************************)
(* Who has which email and username: sign-up in apps/api-gateway, profile  *)
(* changes and deletion in services/account, as transactions that look for *)
(* a clash, hash a password, and then write.  A value is locked while a    *)
(* transaction that has written or overwritten it is open, as its entry in *)
(* the unique index is.  An account is named by the sign-up it is made by. *)
(***************************************************************************)
CONSTANTS
    Members,    \* accounts that exist at first
    SignUps, Updates, Deletes,  \* requests
    Emails, Names,
    First,      \* what each member has at first
    Faults      \* whether processes die

Accounts == Members \cup SignUps
Writes == SignUps \cup Updates
Txs == Writes \cup Deletes
Identities == [email : Emails, name : Names]

\* The kinds of names are apart, and the users there are at first are rows that
\* the unique indexes have let in.
AccountsAssumption ==
    /\ First \in [Members -> Identities] /\ Faults \in BOOLEAN
    /\ "none" \notin Emails \cup Names /\ Emails \cap Names = {}
    /\ (Emails \cup Names) \cap (Members \cup SignUps) = {}
    /\ SignUps \cap (Members \cup Updates \cup Deletes) = {}
    /\ Updates \cap Deletes = {}
    /\ \A a, b \in Members : a # b => /\ First[a].email # First[b].email
                                     /\ First[a].name # First[b].name

VARIABLES
    owns,   \* email and username of each account, "none" without one
    pc,     \* where each request is, or how it was answered
    who,    \* the account it is about
    wants,  \* what it asks for, "none" for a field left out
    locks   \* rows and values that are locked

INSTANCE RowLocks

vars == <<owns, pc, who, wants, locks>>

None == "none"
Nobody == [email |-> None, name |-> None]
Answers == {"done", "email taken", "name taken", "conflict", "not found",
            "lost"}

TypeOK ==
    /\ owns \in [Accounts -> Identities \cup {Nobody}]
    /\ pc \in [Txs -> Answers \cup {"idle", "begun", "check", "write", "name",
                                    "email", "commit"}]
    /\ who \in [Txs -> Accounts \cup {None}]
    /\ wants \in [Txs -> [email : Emails \cup {None},
                          name : Names \cup {None}]]
    /\ locks \in [Txs -> SUBSET ((Emails \cup Names \cup Accounts) \X Modes)]

Init ==
    /\ owns = [a \in Accounts |-> IF a \in Members THEN First[a] ELSE Nobody]
    /\ pc = [t \in Txs |-> "idle"]
    /\ who = [t \in Txs |-> None]
    /\ wants = [t \in Txs |-> Nobody]
    /\ locks = [t \in Txs |-> {}]
-----------------------------------------------------------------------------
Goto(t, l) == pc' = [pc EXCEPT ![t] = l]
\* COMMIT or ROLLBACK, and the answer.
End(t, l) == Goto(t, l) /\ locks' = [locks EXCEPT ![t] = {}]

Ended(t) == pc[t] \in Answers
Active(a) == owns[a] # Nobody
Others(t) == Accounts \ {who[t]}
HasEmail(t) == \E a \in Others(t) : owns[a].email = wants[t].email
HasName(t) == \E a \in Others(t) : owns[a].name = wants[t].name
EmailTaken(t) == wants[t].email # None /\ HasEmail(t)
NameTaken(t) == wants[t].name # None /\ HasName(t)

Begin(t) ==
    /\ pc[t] = "idle"
    /\ \/ /\ t \in SignUps /\ who' = [who EXCEPT ![t] = t]
          /\ \E w \in Identities : wants' = [wants EXCEPT ![t] = w]
          /\ Goto(t, "check")
       \/ /\ t \in Updates /\ Goto(t, "begun")
          /\ \E a \in {b \in Accounts : Active(b)} :
                 who' = [who EXCEPT ![t] = a]
          /\ \E w \in [email : Emails \cup {None}, name : Names \cup {None}] :
                 w # Nobody /\ wants' = [wants EXCEPT ![t] = w]
       \/ /\ t \in Deletes /\ Goto(t, "begun")
          /\ \E a \in {b \in Accounts : Active(b)} :
                 who' = [who EXCEPT ![t] = a]
          /\ UNCHANGED wants
    /\ UNCHANGED <<owns, locks>>

SelectPlain(t) == UNCHANGED locks
SelectUser(t) == Lock(t, who[t], "update")

\* updateUser and deleteUser lock the user; one that was deleted is not found.
\* A deletion may be refused, for the password or for open orders.
Select(t) ==
    /\ pc[t] = "begun" /\ CanLock(t, who[t], "update")
    /\ \/ /\ Active(who[t]) /\ SelectUser(t)
          /\ Goto(t, IF t \in Deletes THEN "write" ELSE "check")
       \/ (t \in Deletes \/ ~Active(who[t])) /\ End(t, "not found")
    /\ UNCHANGED <<owns, who, wants>>

\* The clash that is looked for first: emails before usernames.
Check(t) ==
    /\ pc[t] = "check"
    /\ \/ EmailTaken(t) /\ End(t, "email taken")
       \/ ~EmailTaken(t) /\ NameTaken(t) /\ End(t, "name taken")
       \/ ~EmailTaken(t) /\ ~NameTaken(t) /\ Goto(t, "write")
          /\ UNCHANGED locks
    /\ UNCHANGED <<owns, who, wants>>

Overwritten(t) == {owns[who[t]].email, owns[who[t]].name} \ {None}

\* INSERT or UPDATE: the old row first, then its entries in the indexes.
Write(t) ==
    /\ pc[t] = "write"
    /\ locks' = [locks EXCEPT
                     ![t] = @ \cup (Overwritten(t) \X {"update"})]
    /\ Goto(t, IF t \in Deletes THEN "commit" ELSE "name")
    /\ UNCHANGED <<owns, who, wants>>

\* 23505.  A sign-up says which of the two it was.
Violation(t, field) ==
    IF t \in SignUps THEN field ELSE "conflict"

\* An entry that an open transaction has written is waited for.
Settled(t, v) == CanLock(t, v, "update")

Insert(t, v, taken, field, next) ==
    /\ IF v = None THEN Goto(t, next) /\ UNCHANGED locks
       ELSE /\ Settled(t, v)
            /\ IF taken THEN End(t, Violation(t, field))
               ELSE /\ Goto(t, next)
                    /\ locks' = [locks EXCEPT ![t] = @ \cup {<<v, "update">>}]
    /\ UNCHANGED <<owns, who, wants>>

InsertName(t) ==
    /\ pc[t] = "name"
    /\ Insert(t, wants[t].name, NameTaken(t), "name taken", "email")

InsertEmail(t) ==
    /\ pc[t] = "email"
    /\ Insert(t, wants[t].email, EmailTaken(t), "email taken", "commit")

\* Fields that are left out keep their value.
Patched(o, w) == [email |-> IF w.email = None THEN o.email ELSE w.email,
                  name |-> IF w.name = None THEN o.name ELSE w.name]

Commit(t) ==
    /\ pc[t] = "commit"
    /\ owns' = [owns EXCEPT ![who[t]] =
                    IF t \in Deletes THEN Nobody ELSE Patched(@, wants[t])]
    /\ End(t, "done")
    /\ UNCHANGED <<who, wants>>

\* PostgreSQL ends a wait that is part of a cycle, or that has taken too long.
WaitEnds(t) ==
    \/ pc[t] = "begun" /\ ~CanLock(t, who[t], "update")
    \/ pc[t] = "name" /\ ~CanLock(t, wants[t].name, "update")
    \/ pc[t] = "email" /\ ~CanLock(t, wants[t].email, "update")

WaitFails(t) ==
    /\ WaitEnds(t) /\ \E answer \in {"conflict", "lost"} : End(t, answer)
    /\ UNCHANGED <<owns, who, wants>>

Crash(t) ==
    /\ Faults /\ pc[t] # "idle" /\ ~Ended(t) /\ End(t, "lost")
    /\ UNCHANGED <<owns, who, wants>>

Step(t) == \/ Select(t) \/ Check(t) \/ Write(t) \/ InsertName(t)
           \/ InsertEmail(t) \/ Commit(t) \/ WaitFails(t)
Next == \E t \in Txs : Begin(t) \/ Step(t) \/ Crash(t)
Spec == Init /\ [][Next]_vars
-----------------------------------------------------------------------------
(* Properties *)

\* "The unique indexes still backstop the race between check and insert": no
\* two accounts have the same email, or the same username.
OneOwner ==
    \A a, b \in Accounts : a # b /\ Active(a) /\ Active(b) =>
        owns[a].email # owns[b].email /\ owns[a].name # owns[b].name

\* "Anonymise the identity instead of destroying it": an account that was
\* deleted does not get an identity again, whatever was under way for it.
DeletedStaysAnonymous ==
    \A d \in Deletes : pc[d] = "done" => ~Active(who[d])

\* Whatever is under way at the same time, names and addresses have one owner.
IdentitiesAreOwned == TypeOK /\ OneOwner /\ DeletedStaysAnonymous

\* Requests that wait for each other's values are answered all the same: time
\* and again none is under way.
AtRest == \A t \in Txs : pc[t] = "idle" \/ Ended(t)
=============================================================================
