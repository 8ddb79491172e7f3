------------------------------ MODULE Addresses ------------------------------
(***************************************************************************)
(* The address book of one user in services/account: the four operations   *)
(* of addressController.js that write, statement by statement, with row    *)
(* locks, the snapshot of each statement and the unique index that allows  *)
(* one default.  An address has a number that no other one has.            *)
(***************************************************************************)
EXTENDS Naturals, FiniteSets

CONSTANTS
    Txs,        \* requests
    Operations, \* what they do
    MAX_ADDRESSES_PER_USER,
    MaxOpen,    \* bound: requests at the same time
    MaxRows     \* bound: addresses at the same time

BookAssumption ==
    /\ Operations \subseteq {"create", "createDefault", "unset", "setDefault",
                             "delete"}
    /\ {MAX_ADDRESSES_PER_USER, MaxOpen} \subseteq Nat
    /\ MaxRows \in Nat \ {0}

VARIABLES
    row,    \* the committed rows
    draft,  \* what each transaction has written
    at,     \* where each request is
    op,     \* what it does, and to which address
    count,  \* the addresses createAddress has counted
    found,  \* the rows its UPDATE has matched
    locks

INSTANCE RowLocks

vars == <<row, draft, at, op, count, found, locks>>

Ids == 1..MaxRows
Written == {"kept", "none", "plain", "default"}
Kept == [i \in Ids |-> "kept"]

TypeOK ==
    /\ row \in [Ids -> {"none", "plain", "default"}]
    /\ draft \in [Txs -> [Ids -> Written]]
    /\ at \in [Txs -> {"idle", "begun", "clear", "cleared", "write",
                       "promote", "promoted", "commit", "done", "refused",
                       "illegal", "aborted"}]
    /\ op \in [Txs -> [does : Operations \cup {"none"}, id : Ids]]
    /\ count \in [Txs -> Nat]
    /\ found \in [Txs -> SUBSET Ids]
    \* the index, on what is committed
    /\ Cardinality({i \in Ids : row[i] = "default"}) <= 1

Init ==
    /\ row = [i \in Ids |-> "none"]
    /\ draft = [t \in Txs |-> Kept]
    /\ at = [t \in Txs |-> "idle"]
    /\ op = [t \in Txs |-> [does |-> "none", id |-> 1]]
    /\ count = [t \in Txs |-> 0]
    /\ found = [t \in Txs |-> {}]
    /\ locks = [t \in Txs |-> {}]
-----------------------------------------------------------------------------
(* Rows and statements *)

\* What a transaction sees: its own writes, and what is committed.
Sees(t, i) == IF draft[t][i] # "kept" THEN draft[t][i] ELSE row[i]
Book(t) == {i \in Ids : Sees(t, i) # "none"}
Used == {i \in Ids : \/ row[i] # "none"
                     \/ \E t \in Txs : draft[t][i] # "kept" \/ i \in found[t]}

Goto(t, l) == at' = [at EXCEPT ![t] = l]
Write(t, i, v) == draft' = [draft EXCEPT ![t][i] = v]
LockRow(t, i) == Lock(t, i, "update")

\* The end of a transaction that has written nothing or is rolled back.
Abort(t, l) ==
    /\ Goto(t, l)
    /\ draft' = [draft EXCEPT ![t] = Kept]
    /\ found' = [found EXCEPT ![t] = {}]
    /\ locks' = [locks EXCEPT ![t] = {}]
    /\ UNCHANGED <<row, op, count>>

\* addresses_one_default_per_user: a new default waits for other transactions
\* that have written or replaced one, and is refused next to a committed one.
IndexWaits(t, i) ==
    \E u \in Txs \ {t} : \E j \in Ids \ {i} :
        /\ draft[u][j] # "kept"
        /\ "default" \in {draft[u][j], row[j]}
NeverRefuses(t, i) == FALSE
IndexRefuses(t, i) ==
    \E j \in Ids \ {i} : draft[t][j] = "kept" /\ row[j] = "default"

WriteDefault(t, i) ==
    /\ ~IndexWaits(t, i)
    /\ IF IndexRefuses(t, i)
       THEN Abort(t, "illegal")
       ELSE /\ Write(t, i, "default")
            /\ Goto(t, "commit")
            /\ LockRow(t, i)
            /\ UNCHANGED <<row, op, count, found>>
-----------------------------------------------------------------------------
(* The transactions *)

Open == {t \in Txs : at[t] \notin {"idle", "done", "refused", "illegal",
                                   "aborted"}}

\* A request is for an address that there is, or was.
Begin(t) ==
    /\ at[t] = "idle" /\ Cardinality(Open) < MaxOpen
    /\ \E o \in Operations, i \in Ids :
           /\ IF o \in {"create", "createDefault"} THEN i = 1 ELSE i \in Used
           /\ op' = [op EXCEPT ![t] = [does |-> o, id |-> i]]
    /\ Goto(t, "begun")
    /\ UNCHANGED <<row, draft, count, found, locks>>

Creates(t) == op[t].does \in {"create", "createDefault"}

\* "The first address a user saves becomes their default automatically."
ShouldBeDefault(t, n) == op[t].does = "createDefault" \/ n = 0

LimitReached(n) == n >= MAX_ADDRESSES_PER_USER

CountAddresses(t) ==
    /\ Creates(t) /\ at[t] = "begun"
    /\ count' = [count EXCEPT ![t] = Cardinality(Book(t))]
    /\ Goto(t, IF LimitReached(count'[t]) THEN "refused"
               ELSE IF ShouldBeDefault(t, count'[t]) THEN "clear" ELSE "write")
    /\ UNCHANGED <<row, draft, op, found, locks>>

\* updateAddress and setDefaultAddress lock the address.
SelectOwned(t) ==
    LET i == op[t].id IN
    /\ op[t].does \in {"unset", "setDefault"} /\ at[t] = "begun"
    /\ CanLock(t, i, "update")
    /\ IF row[i] = "none" THEN Goto(t, "refused") /\ UNCHANGED locks
       ELSE /\ LockRow(t, i)
            /\ Goto(t, IF op[t].does = "unset" THEN "write" ELSE "clear")
    /\ UNCHANGED <<row, draft, op, count, found>>

Defaults(t) == {i \in Ids : Sees(t, i) = "default"}

\* clearDefault: the UPDATE matches the default that is committed when it
\* starts ...
ClearSelect(t) ==
    /\ at[t] = "clear"
    /\ found' = [found EXCEPT ![t] = Defaults(t)]
    /\ Goto(t, "cleared")
    /\ UNCHANGED <<row, draft, op, count, locks>>

\* ... and looks at it again when it has its lock.
ClearDefault(t) ==
    /\ at[t] = "cleared"
    /\ \A i \in found[t] : CanLock(t, i, "update")
    /\ draft' = [draft EXCEPT ![t] = [i \in Ids |->
           IF i \in found[t] /\ Sees(t, i) = "default" THEN "plain" ELSE @[i]]]
    /\ locks' = [locks EXCEPT ![t] = @ \cup found[t] \X {"update"}]
    /\ found' = [found EXCEPT ![t] = {}]
    /\ Goto(t, "write")
    /\ UNCHANGED <<row, op, count>>

Insert(t) ==
    /\ Creates(t) /\ at[t] = "write" /\ Used # Ids
    /\ LET i == CHOOSE j \in Ids \ Used : TRUE IN
       IF ShouldBeDefault(t, count[t])
       THEN WriteDefault(t, i)
       ELSE /\ Write(t, i, "plain")
            /\ Goto(t, "commit")
            /\ UNCHANGED <<row, op, count, found, locks>>

\* A PATCH with is_default true does what setDefaultAddress does.
UpdateRow(t) ==
    /\ at[t] = "write"
    /\ \/ /\ op[t].does = "setDefault"
          /\ WriteDefault(t, op[t].id)
       \/ /\ op[t].does = "unset"
          /\ Write(t, op[t].id, "plain")
          /\ Goto(t, "commit")
          /\ UNCHANGED <<row, op, count, found, locks>>

NeverPromotes(t, i) == FALSE
Promotes(t, i) == row[i] = "default"

DeleteRow(t) ==
    LET i == op[t].id IN
    /\ op[t].does = "delete" /\ at[t] = "begun"
    /\ CanLock(t, i, "update")
    /\ IF row[i] = "none" THEN Abort(t, "refused")
       ELSE /\ LockRow(t, i)
            /\ Write(t, i, "none")
            /\ Goto(t, IF Promotes(t, i) THEN "promote" ELSE "commit")
            /\ UNCHANGED <<row, op, count, found>>

\* Which was created last, the numbers do not tell.
MostRecent(rest) == IF rest = {} THEN {{}} ELSE {{i} : i \in rest}

\* The most recent address that is left ...
PromoteSelect(t) ==
    /\ at[t] = "promote"
    /\ \E S \in MostRecent(Book(t)) : found' = [found EXCEPT ![t] = S]
    /\ Goto(t, "promoted")
    /\ UNCHANGED <<row, draft, op, count, locks>>

\* ... becomes the default, if it still is there when its lock is.
Promote(t) ==
    /\ at[t] = "promoted"
    /\ \/ /\ \A i \in found[t] : Sees(t, i) = "none" /\ CanLock(t, i, "update")
          /\ found' = [found EXCEPT ![t] = {}]
          /\ Goto(t, "commit")
          /\ UNCHANGED <<row, draft, op, count, locks>>
       \/ \E i \in found[t] :
              /\ Sees(t, i) # "none" /\ CanLock(t, i, "update")
              /\ WriteDefault(t, i)

Commit(t) ==
    /\ at[t] = "commit"
    /\ row' = [i \in Ids |-> Sees(t, i)]
    /\ draft' = [draft EXCEPT ![t] = Kept]
    /\ found' = [found EXCEPT ![t] = {}]
    /\ locks' = [locks EXCEPT ![t] = {}]
    /\ Goto(t, "done")
    /\ UNCHANGED <<op, count>>

\* A deadlock is detected, or a wait is timed out.
WaitFails(t) ==
    /\ \/ /\ at[t] = "begun" /\ ~Creates(t)
          /\ ~CanLock(t, op[t].id, "update")
       \/ /\ at[t] \in {"cleared", "promoted"}
          /\ \E i \in found[t] : ~CanLock(t, i, "update")
       \/ /\ at[t] = "write"
          /\ \E i \in Ids : IndexWaits(t, i)
    /\ Abort(t, "aborted")

Step(t) ==
    \/ CountAddresses(t) \/ SelectOwned(t) \/ ClearSelect(t)
    \/ ClearDefault(t) \/ Insert(t) \/ UpdateRow(t) \/ DeleteRow(t)
    \/ PromoteSelect(t) \/ Promote(t) \/ Commit(t)

Next == \E t \in Txs : Begin(t) \/ Step(t) \/ WaitFails(t)
Spec == Init /\ [][Next]_vars
-----------------------------------------------------------------------------
(* Properties *)

Saved == {i \in Ids : row[i] # "none"}

\* "The user always has a default to check out with": one of the addresses is
\* the default whenever there is any.
HasDefault == Saved # {} => \E i \in Saved : row[i] = "default"

\* "You can save at most" so many addresses.
WithinLimit == Cardinality(Saved) <= MAX_ADDRESSES_PER_USER

\* "Clearing first keeps the swap legal": no request runs into the index.
SwapIsLegal == \A t \in Txs : at[t] # "illegal"

\* What requests may do at once: add addresses, and choose the default.  An
\* address that is no longer the default leaves the user without one.
OnlyAdds == \A t \in Txs : op[t].does \notin {"unset", "delete"}
NoneUnset == \A t \in Txs : op[t].does # "unset"
OneAtATime == \A t, u \in Open : t = u

\* What holds when one request follows another.
BookIsLegal == TypeOK /\ HasDefault /\ WithinLimit /\ SwapIsLegal
=============================================================================
