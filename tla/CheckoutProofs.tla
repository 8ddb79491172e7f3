--------------------------- MODULE CheckoutProofs ---------------------------
(***************************************************************************)
(* Proofs about Checkout, for any attempts, keys, carts and bounds.        *)
(***************************************************************************)
EXTENDS Checkout, FiniteSetTheorems, TLAPS

Stock == INSTANCE InventoryProofs WITH Reservations <- Attempts

-----------------------------------------------------------------------------
(* Checkout implements Inventory: every step either leaves the inventory    *)
(* alone or is one of its steps.                                            *)

LEMMA ItemsAreRequests ==
    ASSUME NEW a \in Attempts
    PROVE  Items(a) \in Inventory!Requests
BY KeyAssumption, CartAssumption DEF Items

LEMMA SagaLeavesInventory ==
    ASSUME NEW a \in Attempts, Saga(a) \/ Crash(a)
    PROVE  UNCHANGED inventoryVars
BY DEF Saga, Begin, Peek, Gather, Reserved, InsertOrder, Charged,
       MarkOrderFailed, Released, Committed, Confirm, Settle, Complete, Abort,
       Crash

LEMMA ChargeLeavesInventory ==
    ASSUME NEW a \in Attempts, ChargeStep(a) \/ ChargeDies(a)
    PROVE  UNCHANGED inventoryVars
BY DEF ChargeStep, ChargeReceive, ChargeLookup, ChargeCheck, ChargeInsert,
       Authorize, RecordCapture, RecordDecline, ChargeDies, chargeUnchanged

LEMMA InventorySteps == [Next]_vars => [Inventory!Next]_(Inventory!vars)
<1> SUFFICES ASSUME [Next]_vars, ~UNCHANGED inventoryVars
             PROVE  Inventory!Next
  BY DEF inventoryVars, Inventory!vars
<1>1. ASSUME NEW a \in Attempts, Serve(a)
      PROVE  Inventory!Next
  <2>1. CASE ServeReserve(a)
    BY <2>1, ItemsAreRequests DEF ServeReserve, Inventory!Next
  <2>2. CASE ServeCommit(a)
    BY <2>2 DEF ServeCommit, Inventory!Next
  <2>3. CASE ServeRelease(a)
    BY <2>3 DEF ServeRelease, Inventory!Next
  <2> QED
    BY <1>1, <2>1, <2>2, <2>3, ChargeLeavesInventory
       DEF Serve, ServeShip, ServeClear
<1>2. ASSUME NEW a \in Attempts, ServeRestock(a)
      PROVE  Inventory!Next
  BY <1>2, ItemsAreRequests DEF ServeRestock, Inventory!Next
<1>3. CASE InventoryStep
  BY <1>3 DEF InventoryStep, Inventory!Next
<1>4. ASSUME NEW a \in Attempts, CancelOrder(a)
      PROVE  FALSE
  BY <1>4 DEF CancelOrder
<1>5. ASSUME NEW k \in Keys, LoseEntry(k)
      PROVE  FALSE
  BY <1>5 DEF LoseEntry
<1>6. CASE UNCHANGED vars
  BY <1>6 DEF vars, inventoryVars
<1> QED
  BY <1>1, <1>2, <1>3, <1>4, <1>5, <1>6, SagaLeavesInventory DEF Next

\* Whatever the saga, its timeouts, crashes and the cancellations do to the
\* stock tables, they do by operations of the inventory service: that is how
\* Checkout is written, and what lets the theorems about Inventory be used.
LEMMA CheckoutUsesInventory == Spec => Inventory!Spec
<1>1. Init => Inventory!Init
  BY DEF Init
<1> QED
  BY <1>1, InventorySteps, PTL DEF Spec, Inventory!Spec
-----------------------------------------------------------------------------
(* What is proved of Inventory holds of the stock tables here.  The two     *)
(* instances of Inventory, in Checkout and in the proofs, are the same.     *)

LEMMA StockAssumptions ==
    /\ Stock!StockedAssumption
    /\ Stock!InitialStockAssumption
    /\ Stock!ReservationsAssumption
    /\ Stock!BoundsAssumption
BY StockAssumption, BoundsAssumption, AttemptsAssumption
   DEF IsFiniteSet, Stock!IsFiniteSet

LEMMA SameInit == Inventory!Init <=> Stock!Init
BY DEF Inventory!Init, Stock!Init, Inventory!NoItems, Stock!NoItems,
       Inventory!Reasons, Stock!Reasons

LEMMA SameTypeOK == Inventory!TypeOK <=> Stock!TypeOK
BY DEF Inventory!TypeOK, Stock!TypeOK, Inventory!Statuses, Stock!Statuses,
       Inventory!Reasons, Stock!Reasons, Inventory!Quantities,
       Stock!Quantities

LEMMA SameNext ==
    [Inventory!Next]_(Inventory!vars) <=> [Stock!Next]_(Stock!vars)
BY DEF Inventory!vars, Stock!vars, Inventory!stockVars, Stock!stockVars,
       Inventory!Next, Stock!Next, Inventory!Requests, Stock!Requests,
       Inventory!Quantities, Stock!Quantities, Inventory!NoItems,
       Stock!NoItems, Inventory!Plus, Stock!Plus, Inventory!Minus,
       Stock!Minus, Inventory!Post, Stock!Post, Inventory!ItemsOf,
       Stock!ItemsOf, Inventory!One, Stock!One,
       Inventory!Reserve, Stock!Reserve, Inventory!CanReserve,
       Stock!CanReserve, Inventory!ReserveReindex, Stock!ReserveReindex,
       Inventory!Commit, Stock!Commit, Inventory!CanCommit, Stock!CanCommit,
       Inventory!CommitDelta, Stock!CommitDelta,
       Inventory!Release, Stock!Release, Inventory!Free, Stock!Free,
       Inventory!CanRelease, Stock!CanRelease,
       Inventory!ReservedAfterRelease, Stock!ReservedAfterRelease,
       Inventory!AdjustStock, Stock!AdjustStock, Inventory!AdjustReindex,
       Stock!AdjustReindex, Inventory!Restock, Stock!Restock,
       Inventory!Restocked, Stock!Restocked, Inventory!Expire, Stock!Expire,
       Inventory!Sweeper, Stock!Sweeper, Inventory!SweepSelect,
       Stock!SweepSelect, Inventory!SweepLoop, Stock!SweepLoop,
       Inventory!SweepCrash, Stock!SweepCrash, Inventory!SweepRelease,
       Stock!SweepRelease, Inventory!SweepSkip, Stock!SweepSkip,
       Inventory!Passed, Stock!Passed, Inventory!Sweepable, Stock!Sweepable,
       Inventory!Cardinality, Stock!Cardinality

LEMMA SameStock ==
    Stock!ReservedMatchesHeld /\ Stock!StockConserved
        => Inventory!ReservedMatchesHeld /\ Inventory!StockConserved
BY DEF Inventory!ReservedMatchesHeld, Stock!ReservedMatchesHeld,
       Inventory!StockConserved, Stock!StockConserved, Inventory!Units,
       Stock!Units, Inventory!Cardinality, Stock!Cardinality

\* The stock columns are exact while orders are placed, fail, crash, expire and
\* are cancelled: reserved is what the checkouts hold, and nothing is lost.
THEOREM CheckoutKeepsStock ==
    Spec => [](Inventory!ReservedMatchesHeld /\ Inventory!StockConserved)
<1>1. Spec => Stock!Spec
  BY CheckoutUsesInventory, SameInit, SameNext, PTL
     DEF Inventory!Spec, Stock!Spec
<1>2. Stock!Spec => [](Stock!ReservedMatchesHeld /\ Stock!StockConserved)
  BY Stock!StockCorrect, StockAssumptions
<1> QED
  BY <1>1, <1>2, SameStock, PTL
-----------------------------------------------------------------------------
(* Type correctness *)

LEMMA InitTypeOK == Init => TypeOK
<1> SUFFICES ASSUME Init PROVE TypeOK
  OBVIOUS
<1>1. Inventory!TypeOK
  BY SameInit, SameTypeOK, Stock!InitTypeOK, StockAssumptions DEF Init
<1> QED
  BY <1>1, CancelsAssumption DEF Init, TypeOK, OrderStatuses

LEMMA StockTypeOK == TypeOK /\ [Next]_vars => Inventory!TypeOK'
<1>1. Stock!TypeOK /\ [Stock!Next]_(Stock!vars) => Stock!TypeOK'
  BY Stock!NextTypeOK, StockAssumptions
<1>2. Inventory!TypeOK' <=> Stock!TypeOK'
  BY DEF Inventory!TypeOK, Stock!TypeOK, Inventory!Statuses, Stock!Statuses,
         Inventory!Reasons, Stock!Reasons, Inventory!Quantities,
         Stock!Quantities
<1> QED
  BY <1>1, <1>2, SameTypeOK, SameNext, InventorySteps DEF TypeOK

LEMMA SagaTypeOK ==
    ASSUME TypeOK, Inventory!TypeOK', NEW a \in Attempts, Saga(a) \/ Crash(a)
    PROVE  TypeOK'
<1> USE DEF Goto, SendAndWait, Call, Waiting, Active, Ended, OrderStatuses,
            sagaVars, redisVars, tableVars, cancelVars
<1>1. KeyOf[a] \in Keys
  BY KeyAssumption
<1>2. CASE Begin(a)
  BY <1>1, <1>2 DEF Begin, TypeOK
<1>3. CASE Peek(a)
  BY <1>1, <1>3 DEF Peek, TypeOK
<1>4. CASE Gather(a)
  BY <1>4 DEF Gather, TypeOK
<1>5. CASE Reserved(a)
  BY <1>5 DEF Reserved, TypeOK
<1>6. CASE InsertOrder(a)
  BY <1>6 DEF InsertOrder, TypeOK
<1>7. CASE Charged(a)
  BY <1>7 DEF Charged, TypeOK
<1>8. CASE MarkOrderFailed(a)
  BY <1>8 DEF MarkOrderFailed, TypeOK
<1>9. CASE Released(a)
  BY <1>9 DEF Released, TypeOK
<1>10. CASE Committed(a)
  BY <1>10 DEF Committed, CommitError, TypeOK
<1>11. CASE Confirm(a)
  BY <1>11 DEF Confirm, MarkProcessing, TypeOK
<1>12. CASE Settle(a)
  BY <1>12 DEF Settle, TypeOK
<1>13. CASE Complete(a)
  BY <1>1, <1>13 DEF Complete, StoreResult, TypeOK
<1>14. CASE Abort(a)
  BY <1>1, <1>14 DEF Abort, TypeOK
<1>15. CASE Crash(a)
  BY <1>15 DEF Crash, TypeOK
<1> QED
  BY <1>2, <1>3, <1>4, <1>5, <1>6, <1>7, <1>8, <1>9, <1>10, <1>11, <1>12,
     <1>13, <1>14, <1>15 DEF Saga

LEMMA ServeTypeOK ==
    ASSUME TypeOK, Inventory!TypeOK', NEW a \in Attempts, Serve(a)
    PROVE  TypeOK'
<1> USE DEF Receive, Answer, Call, Waiting, ChargeGoto, ChargeFails, Charging,
            OrderStatuses, sagaVars, redisVars, tableVars, cancelVars,
            chargeUnchanged
<1>1. KeyOf[a] \in Keys
  BY KeyAssumption
<1>2. CASE ServeReserve(a)
  BY <1>2 DEF ServeReserve, TypeOK
<1>3. CASE ServeCommit(a)
  BY <1>3 DEF ServeCommit, TypeOK
<1>4. CASE ServeRelease(a)
  BY <1>4 DEF ServeRelease, TypeOK
<1>5. CASE ServeShip(a)
  BY <1>5 DEF ServeShip, TypeOK
<1>6. CASE ServeClear(a)
  BY <1>1, <1>6 DEF ServeClear, TypeOK
<1>7. CASE ChargeReceive(a)
  BY <1>7 DEF ChargeReceive, TypeOK
<1>8. CASE ChargeLookup(a)
  BY <1>8 DEF ChargeLookup, TypeOK
<1>9. CASE ChargeCheck(a)
  BY <1>9 DEF ChargeCheck, TypeOK
<1>10. CASE ChargeInsert(a)
  BY <1>10 DEF ChargeInsert, TypeOK
<1>11. CASE Authorize(a)
  BY <1>11 DEF Authorize, TypeOK
<1>12. CASE RecordCapture(a)
  BY <1>12 DEF RecordCapture, MarkPaid, TypeOK
<1>13. CASE RecordDecline(a)
  BY <1>13 DEF RecordDecline, TypeOK
<1>14. CASE ChargeDies(a)
  BY <1>14 DEF ChargeDies, TypeOK
<1> QED
  BY <1>2, <1>3, <1>4, <1>5, <1>6, <1>7, <1>8, <1>9, <1>10, <1>11, <1>12,
     <1>13, <1>14 DEF Serve, ChargeStep

LEMMA NextTypeOK == TypeOK /\ [Next]_vars => TypeOK'
<1> SUFFICES ASSUME TypeOK, [Next]_vars PROVE TypeOK'
  OBVIOUS
<1>1. Inventory!TypeOK'
  BY StockTypeOK
<1>2. ASSUME NEW a \in Attempts, CancelOrder(a)
      PROVE  TypeOK'
  BY <1>1, <1>2, CancelsAssumption
     DEF CancelOrder, TypeOK, OrderStatuses, sagaVars, redisVars
<1>3. ASSUME NEW a \in Attempts, ServeRestock(a)
      PROVE  TypeOK'
  BY <1>1, <1>3
     DEF ServeRestock, TypeOK, sagaVars, redisVars, tableVars
<1>4. ASSUME NEW k \in Keys, LoseEntry(k)
      PROVE  TypeOK'
  BY <1>1, <1>4 DEF LoseEntry, TypeOK, sagaVars, tableVars, cancelVars
<1>5. CASE InventoryStep
  BY <1>1, <1>5
     DEF InventoryStep, TypeOK, sagaVars, redisVars, tableVars, cancelVars
<1>6. CASE UNCHANGED vars
  BY <1>1, <1>6
     DEF vars, TypeOK, sagaVars, redisVars, tableVars, cancelVars
<1> QED
  BY <1>1, <1>2, <1>3, <1>4, <1>5, <1>6, SagaTypeOK, ServeTypeOK DEF Next

\* The tables, the saga and the requests in flight keep their types.
THEOREM CheckoutTypeCorrect == Spec => []TypeOK
  BY InitTypeOK, NextTypeOK, PTL DEF Spec
-----------------------------------------------------------------------------
(* What the services and the cancellations do to the saga and the orders    *)

LEMMA OthersOnOrders ==
    ASSUME TypeOK, [Next]_vars, \A a \in Attempts : ~Saga(a) /\ ~Crash(a)
    PROVE  /\ UNCHANGED <<pc, response, result>>
           /\ \A b \in Attempts :
                 \/ order'[b] = order[b]
                 \/ /\ order[b] \notin {None, "failed"}
                    /\ order'[b] \in {"paid", "cancelled"}
<1> USE DEF sagaVars, redisVars, tableVars, chargeUnchanged
<1>1. ASSUME NEW a \in Attempts, RecordCapture(a)
      PROVE  /\ UNCHANGED <<pc, response, result>>
             /\ order' = MarkPaid(a)
  BY <1>1 DEF RecordCapture
<1>2. ASSUME NEW a \in Attempts, Serve(a), ~RecordCapture(a)
      PROVE  UNCHANGED <<pc, response, result, order>>
  BY <1>2 DEF Serve, ServeReserve, ServeCommit, ServeRelease, ServeShip,
       ServeClear, ChargeStep, ChargeReceive, ChargeLookup, ChargeCheck,
       ChargeInsert, Authorize, RecordDecline, ChargeDies
<1>3. ASSUME NEW a \in Attempts, CancelOrder(a)
      PROVE  /\ UNCHANGED <<pc, response, result>>
             /\ \/ order' = order
                \/ Cancellable(a) /\ order' = [order EXCEPT ![a] = "cancelled"]
  BY <1>3 DEF CancelOrder
<1>4. ASSUME \/ \E a \in Attempts : ServeRestock(a)
             \/ \E k \in Keys : LoseEntry(k)
             \/ InventoryStep
             \/ UNCHANGED vars
      PROVE  UNCHANGED <<pc, response, result, order>>
  BY <1>4 DEF ServeRestock, LoseEntry, InventoryStep, vars
<1>5. order \in [Attempts -> OrderStatuses]
  BY DEF TypeOK
<1> QED
  BY <1>1, <1>2, <1>3, <1>4, <1>5
     DEF Next, MarkPaid, Cancellable, None
-----------------------------------------------------------------------------
(* One order per key *)

HasOrder(a) == order[a] # None

\* The unique index keeps orders of one key apart; answers, stored or given,
\* name an order of their key.
OneOrder ==
    /\ \A a, b \in Attempts :
          KeyOf[a] = KeyOf[b] /\ HasOrder(a) /\ HasOrder(b) => a = b
    /\ \A a \in Attempts :
          pc[a] \in {"charge", "commit", "fail", "confirm", "settle",
                     "complete"} => HasOrder(a)
    /\ \A a \in Attempts :
          response[a] # None => /\ HasOrder(response[a])
                                /\ KeyOf[response[a]] = KeyOf[a]
    /\ \A k \in Keys :
          result[k] # None => HasOrder(result[k]) /\ KeyOf[result[k]] = k

LEMMA SagaOneOrder ==
    ASSUME TypeOK, OneOrder, NEW a \in Attempts, Saga(a) \/ Crash(a)
    PROVE  OneOrder'
<1> USE DEF Goto, SendAndWait, OneOrder, HasOrder, TypeOK, redisVars, tableVars
<1>1. KeyOf[a] \in Keys
  BY KeyAssumption
<1>2. CASE Begin(a)
  BY <1>2 DEF Begin
<1>3. CASE Peek(a)
  BY <1>1, <1>3 DEF Peek
<1>4. CASE Gather(a)
  BY <1>4 DEF Gather
<1>5. CASE Reserved(a)
  BY <1>5 DEF Reserved
<1>6. CASE InsertOrder(a)
  BY <1>6 DEF InsertOrder, KeyUnused, SameKey, None, OrderStatuses
<1>7. CASE Charged(a)
  BY <1>7 DEF Charged, ChargeSucceeded, Succeeds, Fails
<1>8. CASE MarkOrderFailed(a)
  BY <1>8 DEF MarkOrderFailed, None, OrderStatuses
<1>9. CASE Released(a)
  BY <1>9 DEF Released
<1>10. CASE Committed(a)
  BY <1>10 DEF Committed, CommitError, Succeeds, Fails
<1>11. CASE Confirm(a)
  BY <1>11 DEF Confirm, MarkProcessing, None, OrderStatuses
<1>12. CASE Settle(a)
  BY <1>12 DEF Settle
<1>13. CASE Complete(a)
  BY <1>1, <1>13 DEF Complete, StoreResult
<1>14. CASE Abort(a)
  BY <1>14 DEF Abort
<1>15. CASE Crash(a)
  BY <1>15 DEF Crash
<1> QED
  BY <1>2, <1>3, <1>4, <1>5, <1>6, <1>7, <1>8, <1>9, <1>10, <1>11, <1>12,
     <1>13, <1>14, <1>15 DEF Saga

LEMMA NextOneOrder == TypeOK /\ OneOrder /\ [Next]_vars => OneOrder'
<1> SUFFICES ASSUME TypeOK, OneOrder, [Next]_vars PROVE OneOrder'
  OBVIOUS
<1>1. CASE \E a \in Attempts : Saga(a) \/ Crash(a)
  BY <1>1, SagaOneOrder
<1>2. CASE \A a \in Attempts : ~Saga(a) /\ ~Crash(a)
  <2>1. /\ UNCHANGED <<pc, response, result>>
        /\ \A b \in Attempts : HasOrder(b)' <=> HasOrder(b)
    BY <1>2, OthersOnOrders DEF HasOrder, None
  <2>2. /\ \A b \in Attempts : response[b] \in Attempts \cup {None}
        /\ \A k \in Keys : result[k] \in Attempts \cup {None}
    BY DEF TypeOK
  <2> QED
    BY <2>1, <2>2 DEF OneOrder
<1> QED
  BY <1>1, <1>2

\* A retried request never names a second order, whatever happens to the Redis
\* entry between two steps: the unique index on orders suffices.
THEOREM CheckoutSameOrder == Spec => []SameKeySameOrder
<1>1. Init => OneOrder
  BY DEF Init, OneOrder, HasOrder, None
<1>2. TypeOK /\ OneOrder => SameKeySameOrder
  BY DEF TypeOK, OneOrder, SameKeySameOrder
<1> QED
  BY <1>1, <1>2, NextOneOrder, CheckoutTypeCorrect, PTL DEF Spec
-----------------------------------------------------------------------------
(* A failed order stays failed *)

\* Only a saga that is on its way out leaves its order failed.
FailedInv ==
    \A a \in Attempts :
        order[a] = "failed"
            => pc[a] \in {"release", "abort", "failed", "crashed"}

LEMMA SagaFailed ==
    ASSUME TypeOK, OneOrder, FailedInv,
           NEW a \in Attempts, Saga(a) \/ Crash(a)
    PROVE  /\ FailedInv'
           /\ \A b \in Attempts : order[b] = "failed" => order'[b] = "failed"
<1> USE DEF Goto, SendAndWait, FailedInv, TypeOK, tableVars, None
<1>1. CASE InsertOrder(a)
  BY <1>1 DEF InsertOrder, KeyUnused, SameKey
<1>2. CASE MarkOrderFailed(a)
  BY <1>2 DEF MarkOrderFailed
<1>3. CASE Confirm(a)
  BY <1>3 DEF Confirm, MarkProcessing
<1>4. CASE \/ Begin(a) \/ Peek(a) \/ Gather(a) \/ Reserved(a) \/ Charged(a)
           \/ Released(a) \/ Committed(a) \/ Settle(a) \/ Complete(a)
           \/ Abort(a) \/ Crash(a)
  BY <1>4
     DEF Begin, Peek, Gather, Reserved, Charged, ChargeSucceeded, Released,
         Committed, CommitError, Settle, Complete, Abort, Crash, Succeeds,
         Fails
<1> QED
  BY <1>1, <1>2, <1>3, <1>4 DEF Saga

LEMMA NextFailed ==
    ASSUME TypeOK, OneOrder, FailedInv, [Next]_vars
    PROVE  /\ FailedInv'
           /\ \A b \in Attempts : order[b] = "failed" => order'[b] = "failed"
<1>1. CASE \E a \in Attempts : Saga(a) \/ Crash(a)
  BY <1>1, SagaFailed
<1>2. CASE \A a \in Attempts : ~Saga(a) /\ ~Crash(a)
  BY <1>2, OthersOnOrders DEF FailedInv
<1> QED
  BY <1>1, <1>2

\* Nothing that happens after the saga gave an order up, a late capture
\* included, takes the order out of "failed".
THEOREM CheckoutFailedFinal == Spec => FailedStaysFailed
<1>1. Init => OneOrder /\ FailedInv
  BY DEF Init, OneOrder, HasOrder, FailedInv, None
<1>2. TypeOK /\ OneOrder /\ FailedInv /\ [Next]_vars => (OneOrder /\ FailedInv)'
  BY NextOneOrder, NextFailed
<1>3. TypeOK /\ OneOrder /\ FailedInv /\ [Next]_vars
        => [\A a \in Attempts :
               order[a] = "failed" => order'[a] = "failed"]_vars
  BY NextFailed
<1> QED
  BY <1>1, <1>2, <1>3, CheckoutTypeCorrect, PTL DEF Spec, FailedStaysFailed
-----------------------------------------------------------------------------
(* What may happen to a hold                                                *)

LEMMA StatusSteps ==
    ASSUME TypeOK, [Next]_vars, NEW a \in Attempts
    PROVE  \/ status'[a] = status[a]
           \/ status'[a] \in {"held", "expired"}
           \/ status'[a] = "committed" /\ Call("commit", a) \in calls
           \/ status'[a] = "released" /\ Call("release", a) \in calls
<1>1. status \in [Attempts -> Inventory!Statuses]
  BY DEF TypeOK, Inventory!TypeOK
<1> USE DEF Inventory!Statuses
<1>2. ASSUME NEW b \in Attempts, ServeReserve(b), status' # status
      PROVE  status' = [status EXCEPT ![b] = "held"]
  BY <1>2 DEF ServeReserve, Inventory!Reserve, inventoryVars
<1>3. ASSUME NEW b \in Attempts, ServeCommit(b), status' # status
      PROVE  /\ status' = [status EXCEPT ![b] = "committed"]
             /\ Call("commit", b) \in calls
  BY <1>3 DEF ServeCommit, Receive, Inventory!Commit, inventoryVars
<1>4. ASSUME NEW b \in Attempts, ServeRelease(b), status' # status
      PROVE  /\ status' = [status EXCEPT ![b] = "released"]
             /\ Call("release", b) \in calls
  BY <1>4 DEF ServeRelease, Receive, Inventory!Release,
              Inventory!Free, inventoryVars
<1>5. ASSUME NEW b \in Attempts, Serve(b), status' # status,
             ~ServeReserve(b), ~ServeCommit(b), ~ServeRelease(b)
      PROVE  FALSE
  BY <1>5, ChargeLeavesInventory
     DEF Serve, ServeShip, ServeClear, inventoryVars
<1>6. ASSUME InventoryStep, status' # status
      PROVE  \E b \in Attempts : status' = [status EXCEPT ![b] = "expired"]
  <2>1. ASSUME NEW w \in Sweeps, Inventory!Sweeper(w), status' # status
        PROVE  \E b \in Attempts : status' = [status EXCEPT ![b] = "expired"]
    BY <2>1 DEF Inventory!Sweeper, Inventory!SweepSelect, Inventory!SweepLoop,
         Inventory!SweepCrash, Inventory!SweepRelease, Inventory!SweepSkip,
         Inventory!Free, Inventory!stockVars, TypeOK, Inventory!TypeOK
  <2> QED
    BY <1>6, <2>1 DEF InventoryStep, Inventory!Expire, Inventory!stockVars
<1>7. ASSUME \/ \E b \in Attempts : CancelOrder(b) \/ ServeRestock(b)
             \/ \E k \in Keys : LoseEntry(k)
             \/ UNCHANGED vars
      PROVE  status' = status
  BY <1>7 DEF CancelOrder, ServeRestock, LoseEntry, vars, inventoryVars,
       Inventory!Restock
<1> QED
  BY <1>1, <1>2, <1>3, <1>4, <1>5, <1>6, <1>7, SagaLeavesInventory
     DEF Next, inventoryVars
-----------------------------------------------------------------------------
(* What a saga leaves alone                                                 *)

LEMMA CallsDiffer ==
    ASSUME NEW a, NEW b, NEW o1, NEW o2
    PROVE  Call(o1, a) = Call(o2, b) <=> o1 = o2 /\ a = b
BY DEF Call

\* A step of one attempt touches only its own control state, order and calls.
LEMMA SagaIsOwn ==
    ASSUME TypeOK, NEW a \in Attempts, Saga(a) \/ Crash(a)
    PROVE  /\ UNCHANGED <<payment, shipment, charge, status>>
           /\ \A b \in Attempts \ {a} :
                 /\ pc'[b] = pc[b]
                 /\ reply'[b] = reply[b]
                 /\ response'[b] = response[b]
                 /\ order'[b] = order[b]
                 /\ \A o : Call(o, b) \in calls' <=> Call(o, b) \in calls
<1>1. UNCHANGED <<payment, shipment, charge, status>>
  BY SagaLeavesInventory
     DEF inventoryVars, Saga, Begin, Peek, Gather, Reserved, InsertOrder,
         Charged, MarkOrderFailed, Released, Committed, Confirm, Settle,
         Complete, Abort, Crash, tableVars
<1> SUFFICES ASSUME NEW b \in Attempts \ {a}
             PROVE  /\ pc'[b] = pc[b]
                    /\ reply'[b] = reply[b]
                    /\ response'[b] = response[b]
                    /\ order'[b] = order[b]
                    /\ \A o : Call(o, b) \in calls' <=> Call(o, b) \in calls
  BY <1>1
<1>2. /\ pc \in [Attempts -> {"idle"} \cup Active \cup Ended]
      /\ reply \in [Attempts -> {None, "ok", "error"}]
      /\ response \in [Attempts -> Attempts \cup {None}]
      /\ order \in [Attempts -> OrderStatuses]
  BY DEF TypeOK
<1> USE <1>2, CallsDiffer DEF Goto, SendAndWait, tableVars
<1>3. CASE Begin(a) \/ Peek(a)
  BY <1>3 DEF Begin, Peek
<1>4. CASE Gather(a) \/ Reserved(a)
  BY <1>4 DEF Gather, Reserved
<1>5. CASE InsertOrder(a)
  BY <1>5 DEF InsertOrder
<1>6. CASE Charged(a)
  BY <1>6 DEF Charged
<1>7. CASE MarkOrderFailed(a) \/ Released(a)
  BY <1>7 DEF MarkOrderFailed, Released
<1>8. CASE Committed(a)
  BY <1>8 DEF Committed, CommitError
<1>9. CASE Confirm(a)
  BY <1>9 DEF Confirm, MarkProcessing
<1>10. CASE Settle(a) \/ Complete(a) \/ Abort(a) \/ Crash(a)
  BY <1>10 DEF Settle, Complete, Abort, Crash
<1> QED
  BY <1>3, <1>4, <1>5, <1>6, <1>7, <1>8, <1>9, <1>10 DEF Saga
-----------------------------------------------------------------------------
(* What is released belongs to an unconfirmed order                         *)

Unfulfilled(a) ==
    /\ order[a] # "processing"
    /\ shipment[a] = None
    /\ Call("ship", a) \notin calls

Releasing(a) ==
    \/ pc[a] = "release"
    \/ Call("release", a) \in calls
    \/ status[a] = "released"

\* Until it has committed, the saga has not confirmed the order; a release, at
\* any point of its way, comes from a saga that gave up before that.
ReleasedInvOf(a) ==
    /\ pc[a] \in {"idle", "peek", "gather", "reserve", "insert", "charge",
                  "fail"}
          => Unfulfilled(a) /\ ~Releasing(a)
    /\ Releasing(a) => /\ pc[a] \in {"release", "abort", "failed", "crashed"}
                       /\ Unfulfilled(a)

ReleasedInv == \A a \in Attempts : ReleasedInvOf(a)

LEMMA OthersOnCalls ==
    ASSUME TypeOK, [Next]_vars, \A a \in Attempts : ~Saga(a) /\ ~Crash(a)
    PROVE  /\ calls' \subseteq calls
           /\ \A b \in Attempts :
                 shipment[b] = None
                     => shipment'[b] = None \/ Call("ship", b) \in calls
<1> USE DEF Receive, tableVars
<1>1. shipment \in [Attempts -> {None, "label_created", "cancelled"}]
  BY DEF TypeOK
<1>2. ASSUME NEW a \in Attempts, ServeShip(a)
      PROVE  /\ calls' \subseteq calls
             /\ Call("ship", a) \in calls
             /\ \A b \in Attempts \ {a} : shipment'[b] = shipment[b]
  BY <1>1, <1>2 DEF ServeShip
<1>3. ASSUME NEW a \in Attempts, Serve(a), ~ServeShip(a)
      PROVE  calls' \subseteq calls /\ shipment' = shipment
  BY <1>3
     DEF Serve, ServeReserve, ServeCommit, ServeRelease, ServeClear,
         ChargeStep, ChargeReceive, ChargeLookup, ChargeCheck, ChargeInsert,
         Authorize, RecordCapture, RecordDecline, ChargeDies, chargeUnchanged
<1>4. ASSUME NEW a \in Attempts, CancelOrder(a)
      PROVE  /\ calls' = calls
             /\ \A b \in Attempts : shipment[b] = None => shipment'[b] = None
  BY <1>1, <1>4 DEF CancelOrder, None
<1>5. ASSUME \/ \E a \in Attempts : ServeRestock(a)
             \/ \E k \in Keys : LoseEntry(k)
             \/ InventoryStep
             \/ UNCHANGED vars
      PROVE  UNCHANGED <<calls, shipment>>
  BY <1>5 DEF ServeRestock, LoseEntry, InventoryStep, vars
<1> QED
  BY <1>2, <1>3, <1>4, <1>5 DEF Next

LEMMA SagaReleased ==
    ASSUME TypeOK, ReleasedInv, NEW a \in Attempts, Saga(a) \/ Crash(a)
    PROVE  ReleasedInv'
<1>1. ASSUME NEW b \in Attempts \ {a}
      PROVE  ReleasedInvOf(b)'
  BY <1>1, SagaIsOwn DEF ReleasedInv, ReleasedInvOf, Unfulfilled, Releasing
<1> SUFFICES ReleasedInvOf(a)'
  BY <1>1 DEF ReleasedInv
<1>2. /\ pc \in [Attempts -> {"idle"} \cup Active \cup Ended]
      /\ order \in [Attempts -> OrderStatuses]
      /\ UNCHANGED <<shipment, status>>
      /\ ReleasedInvOf(a)
  BY SagaIsOwn DEF TypeOK, ReleasedInv
<1> USE <1>2, CallsDiffer
        DEF Goto, SendAndWait, ReleasedInvOf, Unfulfilled, Releasing, tableVars
<1>3. CASE InsertOrder(a)
  BY <1>3 DEF InsertOrder
<1>4. CASE Charged(a)
  BY <1>4 DEF Charged, ChargeSucceeded, Succeeds, Fails
<1>5. CASE MarkOrderFailed(a)
  BY <1>5 DEF MarkOrderFailed
<1>6. CASE Released(a)
  BY <1>6 DEF Released, Fails
<1>7. CASE Committed(a)
  BY <1>7 DEF Committed, CommitError, Succeeds, Fails
<1>8. CASE Confirm(a)
  BY <1>8 DEF Confirm, MarkProcessing
<1>9. CASE Begin(a) \/ Peek(a)
  BY <1>9 DEF Begin, Peek
<1>10. CASE Gather(a) \/ Reserved(a)
  BY <1>10 DEF Gather, Reserved, Succeeds, Fails
<1>11. CASE Settle(a) \/ Complete(a) \/ Abort(a)
  BY <1>11 DEF Settle, Complete, Abort
<1>12. CASE Crash(a)
  BY <1>12 DEF Crash, Active, Waiting
<1> QED
  BY <1>3, <1>4, <1>5, <1>6, <1>7, <1>8, <1>9, <1>10, <1>11, <1>12 DEF Saga

LEMMA NextReleased == TypeOK /\ ReleasedInv /\ [Next]_vars => ReleasedInv'
<1> SUFFICES ASSUME TypeOK, ReleasedInv, [Next]_vars PROVE ReleasedInv'
  OBVIOUS
<1>1. CASE \E a \in Attempts : Saga(a) \/ Crash(a)
  BY <1>1, SagaReleased
<1>2. CASE \A a \in Attempts : ~Saga(a) /\ ~Crash(a)
  <2> SUFFICES ASSUME NEW a \in Attempts
               PROVE  /\ pc'[a] = pc[a]
                      /\ Unfulfilled(a) => Unfulfilled(a)'
                      /\ Releasing(a)' => Releasing(a)
    BY DEF ReleasedInv, ReleasedInvOf
  <2>1. pc' = pc
    BY <1>2, OthersOnOrders
  <2>2. Unfulfilled(a) => Unfulfilled(a)'
    BY <1>2, OthersOnOrders, OthersOnCalls DEF Unfulfilled, Call
  <2>3. Releasing(a)' => Releasing(a)
    BY <1>2, <2>1, OthersOnCalls, StatusSteps DEF Releasing, Call
  <2> QED
    BY <2>1, <2>2, <2>3
<1> QED
  BY <1>1, <1>2

\* The stock of an order that is confirmed or shipped is never given back by
\* the saga, however its timeouts cross with late answers.
THEOREM CheckoutKeepsFulfilledStock == Spec => []FulfilledIsNotReleased
<1>1. Init => ReleasedInv
  BY DEF Init, Inventory!Init, ReleasedInv, ReleasedInvOf, Unfulfilled,
         Releasing, None, Call
<1>2. ReleasedInv => FulfilledIsNotReleased
  BY DEF ReleasedInv, ReleasedInvOf, FulfilledIsNotReleased, Unfulfilled,
         Releasing
<1> QED
  BY <1>1, <1>2, NextReleased, CheckoutTypeCorrect, PTL DEF Spec
-----------------------------------------------------------------------------
(* No stock, parcel or success without captured money                       *)

Captured(a) == payment[a] = "captured"

\* Where the charge of an attempt is, and what the payment row says then.  A
\* charge runs once: its request exists only before its handler starts.
ChargeInvOf(a) ==
    /\ pc[a] \in {"idle", "peek", "gather", "reserve", "insert"}
          => charge[a] = None /\ Call("charge", a) \notin calls
    /\ Call("charge", a) \in calls => charge[a] = None
    /\ charge[a] \in {None, "lookup", "check", "insert"} => payment[a] = None
    /\ charge[a] \in {"authorize", "approved", "declined"}
          => payment[a] = "pending"
    /\ pc[a] = "charge" /\ reply[a] = "ok" => Captured(a)

ChargeInv == \A a \in Attempts : ChargeInvOf(a)

\* What depends on captured money: the saga past the charge, the requests it
\* sends then, and what these and the saga leave behind.
Fulfilling(a) ==
    \/ pc[a] \in {"commit", "confirm", "settle", "complete"}
    \/ Call("commit", a) \in calls
    \/ Call("ship", a) \in calls
    \/ status[a] = "committed"
    \/ shipment[a] # None

PaidInv ==
    /\ \A a \in Attempts : Fulfilling(a) => Captured(a)
    /\ \A a \in Attempts : response[a] # None => Captured(response[a])
    /\ \A k \in Keys : result[k] # None => Captured(result[k])

LEMMA SagaPaid ==
    ASSUME TypeOK, ChargeInv, PaidInv, NEW a \in Attempts, Saga(a) \/ Crash(a)
    PROVE  ChargeInv' /\ PaidInv'
<1>1. \A b \in Attempts : Captured(b)' <=> Captured(b)
  BY SagaIsOwn DEF Captured
<1>2. ASSUME NEW b \in Attempts \ {a}
      PROVE  ChargeInvOf(b)' /\ (Fulfilling(b) <=> Fulfilling(b)')
  BY <1>1, <1>2, SagaIsOwn DEF ChargeInv, ChargeInvOf, Fulfilling
<1> SUFFICES /\ ChargeInvOf(a)'
             /\ Fulfilling(a)' => Captured(a)
             /\ response'[a] \notin {None, response[a]}
                    => Captured(response'[a])
             /\ \A k \in Keys :
                   result'[k] \notin {None, result[k]} => Captured(result'[k])
  <2>1. /\ \A b \in Attempts : response'[b] # None => Captured(response'[b])
        /\ \A k \in Keys : result'[k] # None => Captured(result'[k])
    BY SagaIsOwn DEF PaidInv
  <2>2. UNCHANGED payment
    BY SagaIsOwn
  <2> QED
    BY <1>1, <1>2, <2>1, <2>2 DEF ChargeInv, PaidInv, Captured
<1>3. /\ pc \in [Attempts -> {"idle"} \cup Active \cup Ended]
      /\ reply \in [Attempts -> {None, "ok", "error"}]
      /\ response \in [Attempts -> Attempts \cup {None}]
      /\ result \in [Keys -> Attempts \cup {None}]
      /\ KeyOf[a] \in Keys
      /\ UNCHANGED <<payment, shipment, charge, status>>
      /\ ChargeInvOf(a)
      /\ Fulfilling(a) => Captured(a)
      /\ result[KeyOf[a]] # None => Captured(result[KeyOf[a]])
  BY SagaIsOwn, KeyAssumption DEF TypeOK, ChargeInv, PaidInv
<1> USE <1>3, CallsDiffer
        DEF Goto, SendAndWait, ChargeInvOf, Fulfilling, Captured, tableVars
<1>4. CASE Begin(a) \/ Abort(a) \/ Gather(a) \/ Reserved(a)
  BY <1>4 DEF Begin, Abort, Gather, Reserved, Succeeds, Fails, redisVars
<1>5. CASE Peek(a)
  BY <1>5 DEF Peek, redisVars
<1>6. CASE InsertOrder(a)
  BY <1>6 DEF InsertOrder, redisVars, None
<1>7. CASE Charged(a)
  BY <1>7 DEF Charged, ChargeSucceeded, Succeeds, Fails, redisVars
<1>8. CASE MarkOrderFailed(a) \/ Released(a)
  BY <1>8 DEF MarkOrderFailed, Released, Fails, redisVars
<1>9. CASE Committed(a)
  BY <1>9 DEF Committed, CommitError, Succeeds, Fails, redisVars
<1>10. CASE Confirm(a) \/ Settle(a)
  BY <1>10 DEF Confirm, MarkProcessing, Settle, redisVars
<1>11. CASE Complete(a)
  BY <1>11 DEF Complete, StoreResult, redisVars
<1>12. CASE Crash(a)
  BY <1>12 DEF Crash, redisVars
<1> QED
  BY <1>4, <1>5, <1>6, <1>7, <1>8, <1>9, <1>10, <1>11, <1>12 DEF Saga

LEMMA ChargeStepPaid ==
    ASSUME TypeOK, ChargeInv, NEW a \in Attempts, ChargeStep(a) \/ ChargeDies(a)
    PROVE  ChargeInv' /\ \A b \in Attempts : Captured(b) => Captured(b)'
<1>1. /\ charge \in [Attempts -> {None, "done"} \cup Charging]
      /\ payment \in [Attempts -> {None, "pending", "captured", "failed"}]
      /\ reply \in [Attempts -> {None, "ok", "error"}]
      /\ ChargeInvOf(a)
  BY DEF TypeOK, ChargeInv
<1>2. pc' = pc
  BY DEF ChargeStep, ChargeReceive, ChargeLookup, ChargeCheck, ChargeInsert,
         Authorize, RecordCapture, RecordDecline, ChargeDies, chargeUnchanged
<1> USE <1>1, <1>2, CallsDiffer DEF ChargeGoto, ChargeFails, Answer
<1>3. /\ \A b \in Attempts \ {a} :
            /\ charge'[b] = charge[b]
            /\ payment'[b] = payment[b]
            /\ reply'[b] = reply[b]
            /\ Call("charge", b) \in calls' <=> Call("charge", b) \in calls
      /\ ChargeInvOf(a)' /\ (Captured(a) => Captured(a)')
  <2> USE DEF ChargeInvOf, Captured
  <2>1. CASE ChargeReceive(a)
    BY <2>1 DEF ChargeReceive, Receive, None
  <2>2. CASE ChargeLookup(a)
    BY <2>2 DEF ChargeLookup, None
  <2>3. CASE ChargeCheck(a)
    BY <2>3 DEF ChargeCheck, None
  <2>4. CASE ChargeInsert(a)
    BY <2>4 DEF ChargeInsert, None
  <2>5. CASE Authorize(a)
    BY <2>5 DEF Authorize, None
  <2>6. CASE RecordCapture(a)
    BY <2>6 DEF RecordCapture, None
  <2>7. CASE RecordDecline(a)
    BY <2>7 DEF RecordDecline, None
  <2>8. CASE ChargeDies(a)
    BY <2>8 DEF ChargeDies, Charging, None
  <2> QED
    BY <2>1, <2>2, <2>3, <2>4, <2>5, <2>6, <2>7, <2>8 DEF ChargeStep
<1> QED
  BY <1>3 DEF ChargeInv, ChargeInvOf, Captured

LEMMA OthersPaid ==
    ASSUME TypeOK, ChargeInv, [Next]_vars,
           \A a \in Attempts : ~Saga(a) /\ ~Crash(a)
    PROVE  ChargeInv' /\ \A b \in Attempts : Captured(b) => Captured(b)'
<1>1. CASE \E a \in Attempts : ChargeStep(a) \/ ChargeDies(a)
  BY <1>1, ChargeStepPaid
<1>2. CASE \A a \in Attempts : ~ChargeStep(a) /\ ~ChargeDies(a)
  <2>1. pc' = pc /\ calls' \subseteq calls
    BY OthersOnOrders, OthersOnCalls
  <2>2. /\ UNCHANGED <<charge, payment>>
        /\ \A b \in Attempts : pc[b] = "charge" => reply'[b] = reply[b]
    <3>1. reply \in [Attempts -> {None, "ok", "error"}]
      BY DEF TypeOK
    <3>2. ASSUME NEW a \in Attempts, Serve(a)
          PROVE  /\ UNCHANGED <<charge, payment>>
                 /\ \A b \in Attempts : pc[b] = "charge" => reply'[b] = reply[b]
      BY <1>2, <3>1, <3>2
         DEF Serve, ServeReserve, ServeCommit, ServeRelease, ServeShip,
             ServeClear, Answer, tableVars, sagaVars
    <3>3. ASSUME \/ \E a \in Attempts : CancelOrder(a) \/ ServeRestock(a)
                 \/ \E k \in Keys : LoseEntry(k)
                 \/ InventoryStep
                 \/ UNCHANGED vars
          PROVE  UNCHANGED <<charge, payment, reply>>
      BY <3>3 DEF CancelOrder, ServeRestock, LoseEntry, InventoryStep, vars,
                  sagaVars, tableVars
    <3> QED
      BY <3>2, <3>3 DEF Next
  <2> QED
    BY <2>1, <2>2 DEF ChargeInv, ChargeInvOf, Captured
<1> QED
  BY <1>1, <1>2

LEMMA NextPaid ==
    TypeOK /\ ChargeInv /\ PaidInv /\ [Next]_vars => ChargeInv' /\ PaidInv'
<1> SUFFICES ASSUME TypeOK, ChargeInv, PaidInv, [Next]_vars
             PROVE  ChargeInv' /\ PaidInv'
  OBVIOUS
<1>1. CASE \E a \in Attempts : Saga(a) \/ Crash(a)
  BY <1>1, SagaPaid
<1>2. CASE \A a \in Attempts : ~Saga(a) /\ ~Crash(a)
  <2>1. ChargeInv' /\ \A b \in Attempts : Captured(b) => Captured(b)'
    BY <1>2, OthersPaid
  <2>2. UNCHANGED <<pc, response, result>>
    BY <1>2, OthersOnOrders
  <2>3. ASSUME NEW a \in Attempts, Fulfilling(a)'
        PROVE  Fulfilling(a)
    BY <1>2, <2>2, <2>3, OthersOnCalls, StatusSteps DEF Fulfilling, Call
  <2>4. /\ \A a \in Attempts : response[a] \in Attempts \cup {None}
        /\ \A k \in Keys : result[k] \in Attempts \cup {None}
    BY DEF TypeOK
  <2> QED
    BY <2>1, <2>2, <2>3, <2>4 DEF PaidInv
<1> QED
  BY <1>1, <1>2

\* Stock is consumed, a parcel labelled and the customer told of success only
\* after the money of that order is captured, whatever times out or dies.
THEOREM CheckoutPaid == Spec => [](ConsumedIsPaid /\ SuccessIsPaid)
<1>1. Init => ChargeInv /\ PaidInv
  BY DEF Init, Inventory!Init, ChargeInv, ChargeInvOf, PaidInv, Fulfilling,
         Captured, None
<1>2. PaidInv => ConsumedIsPaid /\ SuccessIsPaid
  BY DEF PaidInv, Fulfilling, Captured, ConsumedIsPaid, SuccessIsPaid
<1> QED
  BY <1>1, <1>2, NextPaid, CheckoutTypeCorrect, PTL DEF Spec

\* No customer is told that an order went through, and no parcel gets a label,
\* unless that order's payment is captured.
THEOREM CheckoutSuccessPaid == Spec => []SuccessIsPaid
<1> QED
  BY CheckoutPaid, PTL

-----------------------------------------------------------------------------
(* Confirmed orders fit the stock                                           *)

\* An order has its reservation, which never goes back to "none", and a
\* reservation holds what the cart held.
HasStock(a) == status[a] # "none"

Advanced(a) ==
    \/ pc[a] \in {"insert", "charge", "commit", "confirm", "settle", "complete",
                  "fail"}
    \/ pc[a] = "reserve" /\ reply[a] = "ok"
    \/ HasOrder(a)

HoldInv ==
    \A a \in Attempts : /\ Advanced(a) => HasStock(a)
                        /\ HasStock(a) => items[a] = Items(a)

LEMMA SagaHold ==
    ASSUME TypeOK, HoldInv, NEW a \in Attempts, Saga(a) \/ Crash(a)
    PROVE  HoldInv'
<1>1. UNCHANGED <<status, items>>
  BY SagaLeavesInventory DEF inventoryVars
<1>2. ASSUME NEW b \in Attempts \ {a}
      PROVE  Advanced(b) <=> Advanced(b)'
  BY <1>2, SagaIsOwn DEF Advanced, HasOrder
<1> SUFFICES Advanced(a)' => HasStock(a)
  BY <1>1, <1>2 DEF HoldInv, HasStock, Items
<1>3. /\ pc \in [Attempts -> {"idle"} \cup Active \cup Ended]
      /\ reply \in [Attempts -> {None, "ok", "error"}]
      /\ order \in [Attempts -> OrderStatuses]
      /\ Advanced(a) => HasStock(a)
  BY DEF TypeOK, HoldInv
<1> USE <1>3 DEF Goto, SendAndWait, Advanced, HasOrder, tableVars
<1>4. CASE Begin(a) \/ Peek(a)
  BY <1>4 DEF Begin, Peek
<1>5. CASE Gather(a)
  BY <1>5 DEF Gather, None
<1>6. CASE Reserved(a)
  BY <1>6 DEF Reserved, Succeeds, Fails
<1>7. CASE InsertOrder(a)
  BY <1>7 DEF InsertOrder
<1>8. CASE Charged(a)
  BY <1>8 DEF Charged, ChargeSucceeded, Succeeds, Fails
<1>9. CASE MarkOrderFailed(a)
  BY <1>9 DEF MarkOrderFailed
<1>10. CASE Released(a)
  BY <1>10 DEF Released, Fails
<1>11. CASE Committed(a)
  BY <1>11 DEF Committed, CommitError, Succeeds, Fails
<1>12. CASE Confirm(a)
  BY <1>12 DEF Confirm, MarkProcessing
<1>13. CASE Settle(a) \/ Complete(a) \/ Abort(a)
  BY <1>13 DEF Settle, Complete, Abort
<1>14. CASE Crash(a)
  BY <1>14 DEF Crash
<1> QED
  BY <1>4, <1>5, <1>6, <1>7, <1>8, <1>9, <1>10, <1>11, <1>12, <1>13, <1>14
     DEF Saga

\* Only a reservation call creates a reservation, with the items of the cart.
LEMMA ItemsSteps ==
    ASSUME TypeOK, [Next]_vars, NEW a \in Attempts
    PROVE  /\ HasStock(a) => HasStock(a)'
           /\ \/ items'[a] = items[a] /\ (HasStock(a)' => HasStock(a))
              \/ items'[a] = Items(a)
<1>1. /\ status \in [Attempts -> Inventory!Statuses]
      /\ items \in [Attempts -> Inventory!Quantities]
  BY DEF TypeOK, Inventory!TypeOK
<1>2. HasStock(a) => HasStock(a)'
  BY StatusSteps DEF HasStock
<1>3. ASSUME NEW b \in Attempts, Inventory!Reserve(b, Items(b))
      PROVE  /\ items' = [items EXCEPT ![b] = Items(b)]
             /\ status' = [status EXCEPT ![b] = "held"]
  BY <1>3 DEF Inventory!Reserve
<1>4. ASSUME NEW b \in Attempts, ServeReserve(b)
      PROVE  Inventory!Reserve(b, Items(b)) \/ UNCHANGED <<status, items>>
  BY <1>4 DEF ServeReserve, inventoryVars
<1>5. ASSUME NEW b \in Attempts, ServeCommit(b) \/ ServeRelease(b)
      PROVE  items' = items /\ (HasStock(a)' => HasStock(a))
  BY <1>1, <1>5
     DEF ServeCommit, Inventory!Commit, Inventory!CanCommit, ServeRelease,
         Inventory!Release, Inventory!Free, Inventory!CanRelease,
         inventoryVars, HasStock
<1>6. ASSUME NEW b \in Attempts, Serve(b),
             ~ServeReserve(b), ~ServeCommit(b), ~ServeRelease(b)
      PROVE  UNCHANGED <<status, items>>
  BY <1>6, ChargeLeavesInventory
     DEF Serve, ServeShip, ServeClear, inventoryVars
<1>7. ASSUME InventoryStep
      PROVE  items' = items /\ (HasStock(a)' => HasStock(a))
  <2>1. ASSUME NEW w \in Sweeps, Inventory!Sweeper(w)
        PROVE  items' = items /\ (HasStock(a)' => HasStock(a))
    BY <1>1, <2>1
       DEF Inventory!Sweeper, Inventory!SweepSelect, Inventory!SweepLoop,
           Inventory!SweepCrash, Inventory!SweepRelease, Inventory!SweepSkip,
           Inventory!Free, Inventory!CanRelease, Inventory!stockVars, HasStock
  <2> QED
    BY <1>7, <2>1
       DEF InventoryStep, Inventory!Expire, Inventory!stockVars, HasStock
<1>8. ASSUME \/ \E b \in Attempts : CancelOrder(b) \/ ServeRestock(b)
             \/ \E k \in Keys : LoseEntry(k)
             \/ UNCHANGED vars
      PROVE  UNCHANGED <<status, items>>
  BY <1>8 DEF CancelOrder, ServeRestock, LoseEntry, vars, inventoryVars,
       Inventory!Restock
<1> QED
  BY <1>1, <1>2, <1>3, <1>4, <1>5, <1>6, <1>7, <1>8, SagaLeavesInventory
     DEF Next, inventoryVars, HasStock

\* The answer "ok" to a reservation call comes with the reservation.
LEMMA OthersAdvanced ==
    ASSUME TypeOK, [Next]_vars, \A a \in Attempts : ~Saga(a) /\ ~Crash(a),
           NEW a \in Attempts, Advanced(a)'
    PROVE  Advanced(a) \/ HasStock(a)'
<1>1. pc' = pc /\ (HasOrder(a)' => HasOrder(a))
  BY OthersOnOrders DEF HasOrder, None
<1> SUFFICES ASSUME pc[a] = "reserve", reply'[a] # reply[a]
             PROVE  reply'[a] # "ok" \/ HasStock(a)'
  BY <1>1 DEF Advanced
<1>2. /\ status \in [Attempts -> Inventory!Statuses]
      /\ reply \in [Attempts -> {None, "ok", "error"}]
  BY DEF TypeOK, Inventory!TypeOK
<1> USE DEF Answer, sagaVars
<1>3. ASSUME NEW b \in Attempts, ServeReserve(b)
      PROVE  reply'[a] # "ok" \/ HasStock(a)'
  BY <1>2, <1>3 DEF ServeReserve, Inventory!Reserve, HasStock
<1>4. ASSUME NEW b \in Attempts, ChargeStep(b) \/ ChargeDies(b)
      PROVE  FALSE
  BY <1>2, <1>4
     DEF ChargeStep, ChargeReceive, ChargeLookup, ChargeCheck, ChargeInsert,
         Authorize, RecordCapture, RecordDecline, ChargeDies, ChargeFails
<1>5. ASSUME NEW b \in Attempts, Serve(b), ~ServeReserve(b)
      PROVE  FALSE
  BY <1>2, <1>4, <1>5
     DEF Serve, ServeCommit, ServeRelease, ServeShip, ServeClear
<1>6. ASSUME \/ \E b \in Attempts : CancelOrder(b) \/ ServeRestock(b)
             \/ \E k \in Keys : LoseEntry(k)
             \/ InventoryStep
             \/ UNCHANGED vars
      PROVE  FALSE
  BY <1>6 DEF CancelOrder, ServeRestock, LoseEntry, InventoryStep, vars
<1> QED
  BY <1>3, <1>5, <1>6 DEF Next

LEMMA NextHold == TypeOK /\ HoldInv /\ [Next]_vars => HoldInv'
<1> SUFFICES ASSUME TypeOK, HoldInv, [Next]_vars PROVE HoldInv'
  OBVIOUS
<1>1. CASE \E a \in Attempts : Saga(a) \/ Crash(a)
  BY <1>1, SagaHold
<1>2. CASE \A a \in Attempts : ~Saga(a) /\ ~Crash(a)
  <2> SUFFICES ASSUME NEW a \in Attempts
               PROVE  /\ Advanced(a)' => HasStock(a)'
                      /\ HasStock(a)' => items'[a] = Items(a)
    BY DEF HoldInv, Items
  <2>1. Advanced(a)' => HasStock(a)'
    BY <1>2, OthersAdvanced, ItemsSteps DEF HoldInv
  <2>2. HasStock(a)' => items'[a] = Items(a)
    BY ItemsSteps DEF HoldInv
  <2> QED
    BY <2>1, <2>2
<1> QED
  BY <1>1, <1>2

LEMMA SoldFits ==
    TypeOK /\ HoldInv /\ ReleasedInv /\ Inventory!StockConserved
        => SoldWithinStock
<1> SUFFICES ASSUME TypeOK, HoldInv, ReleasedInv, Inventory!StockConserved,
                    NEW p \in Products
             PROVE  Cardinality(Sold({a \in Confirmed : status[a] # "expired"},
                                     p)) <= Supply(p)
  BY DEF SoldWithinStock
<1> DEFINE sold == Sold({a \in Confirmed : status[a] # "expired"}, p)
           units == Inventory!Units({"held", "committed"}, p)
<1>1. sold \subseteq units
  <2>1. \A a \in Attempts : order[a] = "processing" /\ status[a] # "expired"
            => status[a] \in {"held", "committed"} /\ items[a] = Items(a)
    BY DEF HoldInv, Advanced, HasOrder, HasStock, ReleasedInv, ReleasedInvOf,
           Releasing, Unfulfilled, TypeOK, Inventory!TypeOK,
           Inventory!Statuses, None
  <2> QED
    BY <2>1 DEF Sold, Confirmed, Inventory!Units
<1>2. IsFiniteSet(units)
  <2>1. IsFiniteSet(1..MaxQty)
    BY FS_Interval, BoundsAssumption
  <2>2. IsFiniteSet(Attempts \X (1..MaxQty))
    BY <2>1, FS_Product, AttemptsAssumption
  <2> QED
    BY <2>2, FS_Subset DEF Inventory!Units
<1>3. /\ Cardinality(sold) <= Cardinality(units)
      /\ Cardinality(sold) \in Nat
      /\ Cardinality(units) \in Nat
  BY <1>1, <1>2, FS_Subset, FS_CardinalityType
<1>4. available[p] \in Nat /\ available[p] + Cardinality(units) = Supply(p)
  BY DEF Inventory!StockConserved, Supply, Cardinality, Inventory!Cardinality,
         TypeOK, Inventory!TypeOK
<1> QED
  BY <1>3, <1>4

\* However many customers check out at once, the orders confirmed on a hold
\* that was still theirs are never for more units than were brought in.
THEOREM CheckoutSellsWithinStock == Spec => []SoldWithinStock
<1>1. Init => HoldInv /\ ReleasedInv
  BY DEF Init, Inventory!Init, HoldInv, HasStock, Advanced, HasOrder,
         ReleasedInv, ReleasedInvOf, Unfulfilled, Releasing, None, Call
<1> QED
  BY <1>1, NextHold, NextReleased, SoldFits, CheckoutTypeCorrect,
     CheckoutKeepsStock, PTL DEF Spec
=============================================================================
