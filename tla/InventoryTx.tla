---------------------------- MODULE InventoryTx ----------------------------
(***************************************************************************)
(* The transactions of services/inventory, statement by statement: which   *)
(* rows they lock and in which order, what they have read by then, and     *)
(* what they write at COMMIT.  Inventory has each of them as one action;   *)
(* that this is right is what the refinement below says.  The sweeper's    *)
(* release is a release.                                                   *)
(***************************************************************************)
EXTENDS Integers, FiniteSets

CONSTANTS
    N,          \* products, in the order of their ids
    Reserves,   \* requests, each named as the reservation it makes
    Commits, Releases, Adjusts, Restocks,
    InitialStock,
    MaxQty,     \* bound: largest quantity of an item
    MaxCorrection   \* bound: largest sum of adjustments or restocks

Ids == 1..N
Txs == Reserves \cup Commits \cup Releases \cup Adjusts \cup Restocks

\* A request is of one kind.
OneKind ==
    /\ Reserves \cap (Commits \cup Releases \cup Adjusts \cup Restocks) = {}
    /\ Commits \cap (Releases \cup Adjusts \cup Restocks) = {}
    /\ Releases \cap (Adjusts \cup Restocks) = {}
    /\ Adjusts \cap Restocks = {}

InventoryTxAssumption ==
    /\ OneKind
    /\ N \in Nat /\ MaxQty \in Nat \ {0}
    /\ InitialStock \in [Ids -> Nat] /\ IsFiniteSet(Txs)
    /\ MaxCorrection \in Nat
    /\ Cardinality(Adjusts) * MaxQty <= MaxCorrection
    /\ Cardinality(Restocks) * MaxQty <= MaxCorrection
    /\ Reserves \cap Ids = {}

VARIABLES
    available, reserved, status, items, ledger, enqueued,   \* as committed
    pc,     \* where each transaction is
    target, \* the reservation it is about
    qty,    \* the quantities it is about
    todo,   \* products whose rows it has not locked
    view,   \* the rows of inventory as it has read them
    locks

INSTANCE RowLocks

stock == <<available, reserved, status, items, ledger, enqueued>>
vars == <<stock, pc, target, qty, todo, view, locks>>

None == [p \in Ids |-> 0]
Amounts == [Ids -> 0..MaxQty] \ {None}
ItemsOf(q) == {p \in Ids : q[p] > 0}
Row(p) == [available |-> available[p], reserved |-> reserved[p]]

TypeOK ==
    /\ available \in [Ids -> Nat] /\ reserved \in [Ids -> Nat]
    /\ status \in [Reserves -> {"none", "held", "committed", "released"}]
    /\ pc \in [Txs -> {"idle", "reservation", "rows", "ended"}]
    /\ target \in [Txs -> Reserves \cup {"none"}]
    /\ qty \in [Txs -> [Ids -> -MaxQty..MaxQty]]
    /\ todo \in [Txs -> SUBSET Ids]
    /\ locks \in [Txs -> SUBSET ((Ids \cup Reserves) \X Modes)]

Init ==
    /\ available = InitialStock /\ reserved = None
    /\ status = [r \in Reserves |-> "none"]
    /\ items = [r \in Reserves |-> None]
    /\ ledger = [k \in {"reserve", "commit", "released", "expired", "adjust",
                        "restock"} |-> None]
    /\ enqueued = {}
    /\ pc = [t \in Txs |-> "idle"]
    /\ target = [t \in Txs |-> "none"]
    /\ qty = [t \in Txs |-> None]
    /\ todo = [t \in Txs |-> {}]
    /\ view = [t \in Txs |-> [p \in Ids |-> Row(p)]]
    /\ locks = [t \in Txs |-> {}]
-----------------------------------------------------------------------------
\* The rows that are to be locked for the quantities q.
Start(t, q) ==
    /\ qty' = [qty EXCEPT ![t] = q]
    /\ todo' = [todo EXCEPT ![t] = {p \in Ids : q[p] # 0}]
    /\ pc' = [pc EXCEPT ![t] = "rows"]

End(t) ==
    /\ pc' = [pc EXCEPT ![t] = "ended"]
    /\ locks' = [locks EXCEPT ![t] = {}]

Rollback(t) == End(t) /\ UNCHANGED <<stock, target, qty, todo, view>>

\* The body of a request.
Begin(t) ==
    /\ pc[t] = "idle"
    /\ \/ /\ t \in Reserves /\ \E q \in Amounts : Start(t, q)
          /\ UNCHANGED target
       \/ /\ t \in Restocks /\ \E q \in Amounts : Start(t, q)
          /\ UNCHANGED target
       \/ /\ t \in Adjusts
          /\ \E p \in Ids, d \in {-MaxQty, MaxQty} :
                 Start(t, [None EXCEPT ![p] = d])
          /\ UNCHANGED target
       \/ /\ t \in Commits \cup Releases
          /\ \E r \in Reserves : target' = [target EXCEPT ![t] = r]
          /\ pc' = [pc EXCEPT ![t] = "reservation"]
          /\ UNCHANGED <<qty, todo>>
    /\ UNCHANGED <<stock, view, locks>>

\* SELECT ... FROM inventory_reservations ... FOR UPDATE, then its items.
LockReservation(t) == Lock(t, target[t], "update")

SelectReservation(t) ==
    /\ pc[t] = "reservation" /\ CanLock(t, target[t], "update")
    /\ \/ /\ status[target[t]] = "held"
          /\ LockReservation(t) /\ Start(t, items[target[t]])
          /\ UNCHANGED <<stock, target, view>>
       \/ status[target[t]] # "held" /\ Rollback(t)

\* Rows are locked in the order of the product ids.
NextRow(t, p) == p \in todo[t] /\ \A q \in todo[t] : p <= q

ReadRow(t, p) == UNCHANGED locks
LockRow(t, p) == Lock(t, p, "update")

\* SELECT ... FOR UPDATE or UPDATE: what it had to wait for it reads again.
Access(t, p) ==
    /\ pc[t] = "rows" /\ NextRow(t, p)
    /\ CanLock(t, p, "update")
    /\ LockRow(t, p)
    /\ view' = [view EXCEPT ![t][p] = Row(p)]
    /\ todo' = [todo EXCEPT ![t] = @ \ {p}]
    /\ UNCHANGED <<stock, pc, target, qty>>

Ready(t) == pc[t] = "rows" /\ todo[t] = {}

\* The new value of a column, from what was read; other rows keep theirs.
Updated(t, column, f) ==
    [p \in Ids |->
        IF qty[t][p] = 0 THEN column[p] ELSE f[p]]
Shelf(t) == [p \in Ids |-> view[t][p].available]
Held(t) == [p \in Ids |-> view[t][p].reserved]
Plus(f, g) == [p \in Ids |-> f[p] + g[p]]
Minus(f, g) == [p \in Ids |-> f[p] - g[p]]
Post(reason, delta) == ledger' = [ledger EXCEPT ![reason] = Plus(@, delta)]
Written(t) == End(t) /\ UNCHANGED <<target, qty, todo, view>>

Enough(t) == \A p \in Ids : Shelf(t)[p] >= qty[t][p]

Reserve(t) ==
    /\ t \in Reserves /\ Ready(t)
    /\ IF Enough(t)
       THEN /\ available' = Updated(t, available, Minus(Shelf(t), qty[t]))
            /\ reserved' = Updated(t, reserved, Plus(Held(t), qty[t]))
            /\ status' = [status EXCEPT ![t] = "held"]
            /\ items' = [items EXCEPT ![t] = qty[t]]
            /\ Post("reserve", Minus(None, qty[t]))
            /\ enqueued' = ItemsOf(qty[t])
            /\ Written(t)
       ELSE Rollback(t)

Commit(t) ==
    /\ t \in Commits /\ Ready(t)
    /\ reserved' = Updated(t, reserved, Minus(Held(t), qty[t]))
    /\ status' = [status EXCEPT ![target[t]] = "committed"]
    /\ enqueued' = {}
    /\ UNCHANGED <<available, items, ledger>> /\ Written(t)

Release(t) ==
    /\ t \in Releases /\ Ready(t)
    /\ available' = Updated(t, available, Plus(Shelf(t), qty[t]))
    /\ reserved' = Updated(t, reserved, [p \in Ids |->
           IF Held(t)[p] >= qty[t][p] THEN Held(t)[p] - qty[t][p] ELSE 0])
    /\ status' = [status EXCEPT ![target[t]] = "released"]
    /\ Post("released", qty[t])
    /\ enqueued' = ItemsOf(qty[t])
    /\ UNCHANGED items /\ Written(t)

Adjust(t) ==
    /\ t \in Adjusts /\ Ready(t)
    /\ LET next == Plus(Shelf(t), qty[t]) IN
       IF \A p \in Ids : qty[t][p] # 0 => next[p] >= 0
       THEN /\ available' = Updated(t, available, next)
            /\ Post("adjust", qty[t])
            /\ enqueued' = {p \in Ids : qty[t][p] # 0
                                /\ (Shelf(t)[p] = 0) # (next[p] = 0)}
            /\ UNCHANGED <<reserved, status, items>> /\ Written(t)
       ELSE Rollback(t)

Restock(t) ==
    /\ t \in Restocks /\ Ready(t)
    /\ available' = Updated(t, available, Plus(Shelf(t), qty[t]))
    /\ Post("restock", qty[t])
    /\ enqueued' = {p \in ItemsOf(qty[t]) : Shelf(t)[p] = 0}
    /\ UNCHANGED <<reserved, status, items>> /\ Written(t)

\* A statement fails, or the process dies.
Fail(t) == pc[t] \in {"reservation", "rows"} /\ Rollback(t)

Step(t) ==
    \/ SelectReservation(t)
    \/ \E p \in Ids : Access(t, p)
    \/ Reserve(t) \/ Commit(t) \/ Release(t) \/ Adjust(t) \/ Restock(t)
Next == \E t \in Txs : Begin(t) \/ Step(t) \/ Fail(t)
Spec == Init /\ [][Next]_vars
-----------------------------------------------------------------------------
(* Properties *)

\* What anybody can read is what the operations would leave if they ran one
\* after the other, each at once: "the claim the row-level locking exists to
\* make".
OneAtATime == INSTANCE Inventory WITH
    Products <- Ids, Stocked <- Ids, Reservations <- Reserves,
    Sweeps <- {}, SweepLimit <- 1, overdue <- {}, sweep <- [w \in {} |-> {}]
SerialStep == OneAtATime!Next \/ UNCHANGED stock

\* No transaction waits for ever, without a timeout: time and again none is
\* under way.
AtRest == \A t \in Txs : pc[t] \in {"idle", "ended"}
=============================================================================
