---------------------------- MODULE OrdersProofs ----------------------------
(***************************************************************************)
(* Proofs about what an order costs its customer and the stock: the        *)
(* charges and refunds of Payment, the transactions of InventoryTx and the *)
(* store of Idempotency, for any requests, products, keys and faults; and  *)
(* about MCOrders, which puts them side by side.                           *)
(***************************************************************************)
EXTENDS MCOrders, FiniteSetTheorems, TLAPS

-----------------------------------------------------------------------------
(* Charges and refunds (Payment) *)

\* Payment, Totals and row locks as StorePartsProofs has them; its other parts
\* are not there.
Own == INSTANCE StorePartsProofs WITH
    Products <- {"hat", "coat"}, Prices <- {50, 2500}, MaxStock <- 2,
    ServiceLevels <- {"standard"}, TAX_RATE <- 19, TiesDown <- {<<50, 29>>},
    FREE_SHIPPING_THRESHOLD_CENTS <- 5000, FLAT_SHIPPING_CENTS <- 499,
    lines <- x1, price <- x2, stock <- x3, seen <- x4, level <- x5,
    placed <- x6, Txs <- Tx!Txs, locks <- locks,
    Requests <- {}, MaxFaults <- {}, Stock <- {}, Operations <- {},
    MAX_ADDRESSES_PER_USER <- {}, MaxOpen <- {}, MaxRows <- {}, Ratings <- {},
    Buyers <- {}, REQUIRE_VERIFIED_PURCHASE <- {}, Crashes <- {},
    MaxVotes <- {}, Baskets <- {}, Shoppers <- {}, MIN_CO_OCCURRENCES <- {},
    AFFINITY_PER_PRODUCT <- {}, RECOMMENDATIONS_PER_USER <- {}, Limits <- {},
    Fragile <- {}, Cancels <- {}, Stocks <- {}, Dies <- {}, MaxOrders <- {},
    MaxFails <- {}, Catalogues <- {}, Searches <- {}, Toggles <- {},
    WINDOW <- {}, at <- part, faults <- part, request <- part, page <- part,
    available <- part, outbox <- part, indexed <- part, orders <- part,
    cart <- part, row <- part, draft <- part, place <- part, op <- part,
    count <- part, found <- part, review <- part, rating <- part,
    rowOf <- part, productOf <- part, req <- part, inStock <- part,
    viewed <- part, running <- part, next <- part, affinity <- part,
    recs <- part, fails <- part, products <- part, up <- part, toggles <- part,
    Indexed <- {}, Replicas <- {}, Admins <- {}, Live <- {}, BatchSize <- {},
    MAX_ATTEMPTS <- {}, MaxChanges <- {}, version <- part, queue <- part,
    indices <- part, docs <- part, alias <- part, drain <- part, build <- part,
    Kinds <- {}, MAX_QUANTITY_PER_ITEM <- {}, MAX_LINE_ITEMS <- {},
    MaxSales <- {}, active <- part, sales <- part, shown <- part

\* The row locks are those of StorePartsProofs, which has the facts about them.
LEMMA SameLocks ==
    /\ \A m, n : Tx!Conflict(m, n) <=> Own!Book!Conflict(m, n)
    /\ \A t, id, m : /\ Tx!CanLock(t, id, m) <=> Own!Book!CanLock(t, id, m)
                     /\ Tx!Lock(t, id, m) <=> Own!Book!Lock(t, id, m)
    /\ Tx!LocksExclude <=> Own!Book!LocksExclude
    /\ Tx!LocksExclude' <=> Own!Book!LocksExclude'
BY DEF Tx!Conflict, Tx!CanLock, Tx!Lock, Tx!LocksExclude, Own!Book!Conflict,
    Own!Book!CanLock, Own!Book!Lock, Own!Book!LocksExclude

LEMMA ConflictFacts ==
    /\ \A m : Tx!Conflict("update", m) /\ Tx!Conflict(m, "update")
    /\ Tx!Conflict("no key update", "no key update")
    /\ \A m, n : Tx!Conflict(m, n) <=> Tx!Conflict(n, m)
BY SameLocks, Own!ConflictFacts

LEMMA LockKeepsExclusion ==
    ASSUME NEW S, locks \in [Tx!Txs -> S], Tx!LocksExclude,
           NEW t \in Tx!Txs, NEW id, NEW mode, Tx!Lock(t, id, mode)
    PROVE  Tx!LocksExclude'
<1>1. Own!Book!LocksExclude /\ Own!Book!Lock(t, id, mode)
  BY SameLocks
<1>2. Own!Book!LocksExclude'
  BY <1>1, Own!LockKeepsExclusion
<1> QED
  BY <1>2, SameLocks

LEMMA ReleaseKeepsExclusion ==
    ASSUME NEW S, locks \in [Tx!Txs -> S], Tx!LocksExclude, NEW t \in Tx!Txs,
           locks' = [locks EXCEPT ![t] = {}]
    PROVE  Tx!LocksExclude'
<1>1. Own!Book!LocksExclude
  BY SameLocks
<1>2. Own!Book!LocksExclude'
  BY <1>1, Own!ReleaseKeepsExclusion
<1> QED
  BY <1>2, SameLocks

LEMMA HoldersExclude ==
    ASSUME Tx!LocksExclude, NEW t \in Tx!Txs, NEW u \in Tx!Txs, NEW id,
           NEW m, NEW n, <<id, m>> \in locks[t], <<id, n>> \in locks[u],
           Tx!Conflict(m, n)
    PROVE  t = u
BY SameLocks, Own!HoldersExclude

\* Requests with an outdated amount and by another user.
Strays == INSTANCE StorePartsProofs WITH
    KeyOf <- [r \in Charges |-> IF r = q2 THEN k2 ELSE k1],
    UserOf <- [r \in Charges |-> IF r = q3 THEN u2 ELSE u1],
    AmountOf <- [r \in Charges |-> IF r = q2 THEN 2 ELSE 1], Faults <- {"db"},
    pc <- x1, answer <- x2, payment <- x3, order <- x4, taken <- x5,
    returned <- x6, refund <- x7, target <- x8, holder <- x9,
    Requests <- {}, MaxFaults <- {}, Products <- {}, Stock <- {}, Prices <- {},
    Txs <- {}, Operations <- {}, MAX_ADDRESSES_PER_USER <- {}, MaxOpen <- {},
    MaxRows <- {}, MaxStock <- {}, ServiceLevels <- {}, TAX_RATE <- {},
    TiesDown <- {},
    FREE_SHIPPING_THRESHOLD_CENTS <- {}, FLAT_SHIPPING_CENTS <- {},
    Ratings <- {}, Buyers <- {}, REQUIRE_VERIFIED_PURCHASE <- {},
    Crashes <- {}, MaxVotes <- {}, Baskets <- {}, Shoppers <- {},
    MIN_CO_OCCURRENCES <- {}, AFFINITY_PER_PRODUCT <- {},
    RECOMMENDATIONS_PER_USER <- {}, Limits <- {}, Fragile <- {}, Cancels <- {},
    Stocks <- {}, Dies <- {}, MaxOrders <- {}, MaxFails <- {},
    Catalogues <- {}, Searches <- {}, Toggles <- {}, WINDOW <- {}, at <- part,
    faults <- part, request <- part, page <- part, available <- part,
    outbox <- part, indexed <- part, seen <- part, orders <- part,
    cart <- part, price <- part, row <- part, draft <- part, place <- part,
    op <- part, count <- part, found <- part, locks <- part, lines <- part,
    stock <- part, level <- part, placed <- part, review <- part,
    rating <- part, rowOf <- part, productOf <- part, req <- part,
    inStock <- part, viewed <- part, running <- part, next <- part,
    affinity <- part, recs <- part, fails <- part, products <- part,
    up <- part, toggles <- part, Indexed <- {}, Replicas <- {}, Admins <- {},
    Live <- {}, BatchSize <- {}, MAX_ATTEMPTS <- {}, MaxChanges <- {},
    version <- part, queue <- part, indices <- part, docs <- part,
    alias <- part, drain <- part, build <- part, Kinds <- {},
    MAX_QUANTITY_PER_ITEM <- {}, MAX_LINE_ITEMS <- {}, MaxSales <- {},
    active <- part, sales <- part, shown <- part

LEMMA SameCharges ==
    /\ Init <=> Own!Pay!Init
    /\ Next <=> Own!Pay!Next
    /\ UNCHANGED vars <=> UNCHANGED Own!Pay!vars
<1>1. Init <=> Own!Pay!Init
  BY DEF Init, Own!Pay!Init, None, Own!Pay!None, NoAnswer, Own!Pay!NoAnswer
<1>2. Next <=> Own!Pay!Next
  BY DEF chargeVars, Own!Pay!chargeVars, tables, Own!Pay!tables, provider,
      Own!Pay!provider, refundVars, Own!Pay!refundVars, vars, Own!Pay!vars,
      None, Own!Pay!None, Active, Own!Pay!Active, Outcomes, Own!Pay!Outcomes,
      Answers, Own!Pay!Answers, NoAnswer, Own!Pay!NoAnswer, Rows, Own!Pay!Rows,
      Goto, Own!Pay!Goto, Reply, Own!Pay!Reply, SamePayment,
      Own!Pay!SamePayment, Arrive, Own!Pay!Arrive, Lookup, Own!Pay!Lookup,
      Chargeable, Own!Pay!Chargeable, Check, Own!Pay!Check, RowAllowed,
      Own!Pay!RowAllowed, Insert, Own!Pay!Insert, Authorize, Own!Pay!Authorize,
      OutcomeOf, Own!Pay!OutcomeOf, OrderAfter, Own!Pay!OrderAfter,
      WriteOutcome, Own!Pay!WriteOutcome, RowIsFree, Own!Pay!RowIsFree,
      CanSettle, Own!Pay!CanSettle, Settle, Own!Pay!Settle, ChargeCrash,
      Own!Pay!ChargeCrash, LockRow, Own!Pay!LockRow, Refundable,
      Own!Pay!Refundable, RefundBegin, Own!Pay!RefundBegin, ProviderRefund,
      Own!Pay!ProviderRefund, Release, Own!Pay!Release, MayCommit,
      Own!Pay!MayCommit, WriteRefund, Own!Pay!WriteRefund, RefundCommit,
      Own!Pay!RefundCommit, RefundCrash, Own!Pay!RefundCrash,
      ALLOWED_TRANSITIONS, Own!Pay!ALLOWED_TRANSITIONS, SagaWrites,
      Own!Pay!SagaWrites, CarrierReports, Own!Pay!CarrierReports,
      OtherService, Own!Pay!OtherService, Charge,
      Own!Pay!Charge, Refund, Own!Pay!Refund, Next, Own!Pay!Next
<1>3. UNCHANGED vars <=> UNCHANGED Own!Pay!vars
  BY DEF vars, Own!Pay!vars, chargeVars, Own!Pay!chargeVars, tables,
      Own!Pay!tables, provider, Own!Pay!provider, refundVars,
      Own!Pay!refundVars
<1> QED
  BY <1>1, <1>2, <1>3

LEMMA SameSpec == Spec <=> Own!Pay!Spec
<1>1. [Next]_vars <=> [Own!Pay!Next]_(Own!Pay!vars)
  BY SameCharges
<1> QED
  BY <1>1, SameCharges, PTL DEF Spec, Own!Pay!Spec

LEMMA SameBooks ==
    /\ BooksAgree <=> Own!Pay!BooksAgree
    /\ ChargedAsOrdered <=> Own!Pay!ChargedAsOrdered
    /\ RefundedOnce <=> Own!Pay!RefundedOnce
BY DEF TypeOK, Own!Pay!TypeOK, Statuses, Own!Pay!Statuses, TakenLeavesRow,
    Own!Pay!TakenLeavesRow, RowsMatchProvider, Own!Pay!RowsMatchProvider,
    WaitingOrderIsUnpaid, Own!Pay!WaitingOrderIsUnpaid, OneOutcomePerKey,
    Own!Pay!OneOutcomePerKey,
    BooksAgree, Own!Pay!BooksAgree, None, Own!Pay!None, Outcomes,
    Own!Pay!Outcomes, Answers, Own!Pay!Answers, NoAnswer, Own!Pay!NoAnswer,
    Active, Own!Pay!Active, ChargedAsOrdered, Own!Pay!ChargedAsOrdered,
    RefundedOnce, Own!Pay!RefundedOnce

LEMMA ChargesAreTheirs == Own!ChargesAreLegal
BY RequestAssumption, NamesAssumption
   DEF Own!ChargesAreLegal, Own!Pay!RequestAssumption, Own!Pay!NamesAssumption

\* The payments table, the provider's books and what the clients were told
\* agree, whichever requests race, retry and crash: no money is taken twice
\* under a key or without a row, no order goes on waiting for a payment that it
\* has, whatever an administrator, the saga or a carrier writes to it, and no
\* client hears of a key that it was captured when another hears that it was
\* declined.
THEOREM PaymentBooksAgree == Spec => []BooksAgree
<1>1. Own!Pay!Spec => []Own!Pay!BooksAgree
  BY ChargesAreTheirs, Own!BooksAgreed
<1>2. Own!Pay!BooksAgree => BooksAgree
  BY SameBooks
<1> QED
  BY <1>1, <1>2, SameSpec, PTL

\* Every status, answer and handler stays in its range.
THEOREM PaymentTypeCorrect == Spec => []TypeOK
<1>1. BooksAgree => TypeOK
  BY DEF BooksAgree
<1> QED
  BY <1>1, PaymentBooksAgree, PTL

\* A charge that is taken is the owner's, and for the total of the order,
\* although the order is read before the row is inserted and not locked.
THEOREM PaymentChargesAsOrdered == Spec => []ChargedAsOrdered
<1>1. Own!Pay!Spec => []Own!Pay!ChargedAsOrdered
  BY ChargesAreTheirs, Own!ChargingAsOrdered
<1>2. Own!Pay!ChargedAsOrdered => ChargedAsOrdered
  BY SameBooks
<1> QED
  BY <1>1, <1>2, SameSpec, PTL

\* However many administrators refund a payment at once, the provider is asked
\* to give its money back once, unless the transaction of one that had asked
\* has failed: its process died, or the database did not commit.
THEOREM PaymentRefundsOnce == Spec => []RefundedOnce
<1>1. Own!Pay!Spec => []Own!Pay!RefundedOnce
  BY ChargesAreTheirs, Own!RefundingOnce
<1>2. Own!Pay!RefundedOnce => RefundedOnce
  BY SameBooks
<1> QED
  BY <1>1, <1>2, SameSpec, PTL

LEMMA SameKeyedCharge ==
    /\ KeyedCharge!Init <=> Own!Pay!KeyedCharge!Init
    /\ KeyedCharge!Next <=> Own!Pay!KeyedCharge!Next
    /\ UNCHANGED KeyedCharge!vars <=> UNCHANGED Own!Pay!KeyedCharge!vars
BY DEF KeyedCharge!Init, Own!Pay!KeyedCharge!Init, KeyedCharge!Next,
    Own!Pay!KeyedCharge!Next, KeyedCharge!Attempt, Own!Pay!KeyedCharge!Attempt,
    KeyedCharge!Decide, Own!Pay!KeyedCharge!Decide, KeyedCharge!Return,
    Own!Pay!KeyedCharge!Return, KeyedCharge!vars, Own!Pay!KeyedCharge!vars,
    MadeBy, Own!Pay!MadeBy, OutcomeOfKey, Own!Pay!OutcomeOfKey, Rows,
    Own!Pay!Rows, None, Own!Pay!None

\* The payment service implements a machine that has one payment for a key and
\* decides it once: whatever races, crashes and is refunded meanwhile, each
\* step creates, decides or refunds the payment of one key, or shows nothing.
THEOREM PaymentImplementsKeyedCharge == Spec => ImplementsKeyedCharge
<1>1. Own!Pay!Spec => Own!Pay!KeyedCharge!Spec
  BY ChargesAreTheirs, Own!ChargingImplementsKeyedCharge
     DEF Own!Pay!ImplementsKeyedCharge
<1>2. [Own!Pay!KeyedCharge!Next]_(Own!Pay!KeyedCharge!vars)
          => [KeyedCharge!Next]_(KeyedCharge!vars)
  BY SameKeyedCharge
<1> QED
  BY <1>1, <1>2, SameSpec, SameKeyedCharge, PTL
     DEF ImplementsKeyedCharge, KeyedCharge!Spec, Own!Pay!KeyedCharge!Spec

-----------------------------------------------------------------------------
(* Transactions (InventoryTx) *)

Stock == INSTANCE InventoryProofs WITH
    Products <- Tx!Ids, Stocked <- Tx!Ids, Reservations <- Reserves,
    status <- standing,
    Sweeps <- {}, SweepLimit <- 1, overdue <- {}, sweep <- [w \in {} |-> {}]

\* What is locked is as it was read.
RowsAreAsRead ==
    \A t \in Tx!Txs : step[t] = "rows" =>
        \A p \in Tx!Ids : qty[t][p] # 0 /\ p \notin todo[t] =>
            view[t][p] = Tx!Row(p) /\ <<p, "update">> \in locks[t]

\* A commit or release holds a reservation that can be resolved.
ReservationHeld ==
    \A t \in Commits \cup Releases :
        /\ step[t] \in {"reservation", "rows"} => aim[t] \in Reserves
        /\ step[t] = "rows" =>
                 /\ standing[aim[t]] = "held" /\ qty[t] = items[aim[t]]
                 /\ <<aim[t], "update">> \in locks[t]

\* The quantities of an adjustment: of one product, up or down.
Corrections ==
    {q \in [Tx!Ids -> -MaxQty..MaxQty] :
        \E p \in Tx!Ids, d \in {-MaxQty, MaxQty} :
            q = [Tx!None EXCEPT ![p] = d]}

\* A reservation is made once, of a request's items.
RequestsAreLegal ==
    /\ \A t \in Tx!Txs : step[t] = "reservation" => t \in Commits \cup Releases
    /\ \A t \in Reserves : step[t] # "ended" => standing[t] = "none"
    /\ \A t \in Reserves \cup Restocks : step[t] = "rows" =>
           qty[t] \in Tx!Amounts
    /\ \A t \in Adjusts : step[t] = "rows" => qty[t] \in Corrections

\* Corrections stay within the bound: each of them has moved the ledger by
\* MaxQty at most.
Ended(S) == Cardinality({t \in S : step[t] = "ended"})
CorrectionsBounded ==
    \A p \in Tx!Ids :
        /\ ledger["adjust"][p] <= MaxQty * Ended(Adjusts)
        /\ -ledger["adjust"][p] <= MaxQty * Ended(Adjusts)
        /\ ledger["restock"][p] <= MaxQty * Ended(Restocks)

ViewType == view \in [Tx!Txs -> [Tx!Ids -> [available : Nat, reserved : Nat]]]

TxInv ==
    /\ Tx!TypeOK /\ ViewType
    /\ Stock!StockInv
    /\ Tx!LocksExclude
    /\ RowsAreAsRead
    /\ ReservationHeld
    /\ RequestsAreLegal
    /\ CorrectionsBounded

-----------------------------------------------------------------------------
(* What the definitions say *)

\* FiniteSets is the same for every instance.
LEMMA TxCounts ==
    \A S : /\ Tx!IsFiniteSet(S) <=> IsFiniteSet(S)
           /\ Tx!Cardinality(S) = Cardinality(S)
BY DEF Tx!IsFiniteSet, IsFiniteSet, Tx!Cardinality, Cardinality

LEMMA FiniteTxs ==
    ASSUME Tx!InventoryTxAssumption
    PROVE  /\ IsFiniteSet(Tx!Txs)
           /\ MaxQty \in Nat /\ MaxCorrection \in Nat
           /\ Cardinality(Adjusts) * MaxQty <= MaxCorrection
           /\ Cardinality(Restocks) * MaxQty <= MaxCorrection
BY TxCounts DEF Tx!InventoryTxAssumption

LEMMA StockAssumptions ==
    ASSUME Tx!InventoryTxAssumption
    PROVE  /\ Stock!StockedAssumption
           /\ Stock!InitialStockAssumption
           /\ Stock!ReservationsAssumption
           /\ Stock!BoundsAssumption
<1>1. IsFiniteSet(Reserves)
  BY FS_Subset, FiniteTxs DEF Tx!Txs
<1>2. IsFiniteSet(Reserves) <=> Stock!IsFiniteSet(Reserves)
  BY DEF IsFiniteSet, Stock!IsFiniteSet
<1> QED
  BY <1>1, <1>2
     DEF Tx!InventoryTxAssumption, Stock!StockedAssumption,
         Stock!InitialStockAssumption, Stock!ReservationsAssumption,
         Stock!BoundsAssumption

LEMMA Kinds ==
    ASSUME Tx!InventoryTxAssumption, NEW t \in Tx!Txs
    PROVE  /\ t \in Reserves =>
                  t \notin Commits \cup Releases \cup Adjusts \cup Restocks
           /\ t \in Commits => t \notin Releases \cup Adjusts \cup Restocks
           /\ t \in Releases => t \notin Adjusts \cup Restocks
           /\ t \in Adjusts => t \notin Restocks
BY DEF Tx!InventoryTxAssumption, Tx!OneKind

LEMMA AmountsAreRequests ==
    ASSUME Tx!InventoryTxAssumption
    PROVE  /\ Tx!Amounts = Stock!Requests
           /\ Tx!None = Stock!NoItems
           /\ \A q \in Tx!Amounts : /\ q \in [Tx!Ids -> -MaxQty..MaxQty]
                                    /\ \A p \in Tx!Ids : q[p] \in Nat
BY DEF Tx!Amounts, Tx!None, Stock!Requests, Stock!NoItems, Stock!Quantities,
       Tx!InventoryTxAssumption

LEMMA CorrectionsAre ==
    ASSUME Tx!InventoryTxAssumption
    PROVE  \A q : q \in Corrections <=>
               \E p \in Tx!Ids, d \in {-MaxQty, MaxQty} :
                   q = [Tx!None EXCEPT ![p] = d]
<1>1. ASSUME NEW p \in Tx!Ids, NEW d \in {-MaxQty, MaxQty}
      PROVE  [Tx!None EXCEPT ![p] = d] \in [Tx!Ids -> -MaxQty..MaxQty]
  BY DEF Tx!None, Tx!InventoryTxAssumption
<1> QED
  BY <1>1, Zenon DEF Corrections

LEMMA Numbers ==
    ASSUME Tx!InventoryTxAssumption, TxInv
    PROVE  /\ \A p \in Tx!Ids : available[p] \in Nat /\ reserved[p] \in Nat
           /\ \A t \in Tx!Txs, p \in Tx!Ids :
                  /\ qty[t][p] \in -MaxQty..MaxQty /\ qty[t][p] \in Int
                  /\ view[t][p].available \in Nat
                  /\ view[t][p].reserved \in Nat
           /\ \A r \in Reserves :
                  /\ items[r] \in [Tx!Ids -> 0..MaxQty]
                  /\ items[r] \in [Tx!Ids -> -MaxQty..MaxQty]
           /\ MaxQty \in Nat \ {0}
           /\ \A k \in Stock!Reasons : ledger[k] \in [Tx!Ids -> Int]
BY DEF TxInv, Tx!TypeOK, ViewType, Stock!StockInv, Stock!TypeOK,
       Stock!Quantities, Tx!InventoryTxAssumption

\* When a transaction writes, what it read is what is there.
LEMMA ReadIsCurrent ==
    ASSUME Tx!InventoryTxAssumption, TxInv, NEW t \in Tx!Txs, Tx!Ready(t),
           NEW p \in Tx!Ids, qty[t][p] # 0
    PROVE  /\ Tx!Shelf(t)[p] = available[p] /\ Tx!Held(t)[p] = reserved[p]
           /\ <<p, "update">> \in locks[t]
<1>1. view[t][p] = Tx!Row(p) /\ <<p, "update">> \in locks[t]
  BY DEF TxInv, RowsAreAsRead, Tx!Ready
<1>2. Tx!Row(p).available = available[p] /\ Tx!Row(p).reserved = reserved[p]
  BY DEF Tx!Row
<1> QED
  BY <1>1, <1>2 DEF Tx!Shelf, Tx!Held

\* An UPDATE of the locked rows is one of all the rows at once.
LEMMA UpdatedIsCurrent ==
    ASSUME Tx!InventoryTxAssumption, TxInv, NEW t \in Tx!Txs, Tx!Ready(t)
    PROVE  /\ Tx!Updated(t, available, Tx!Plus(Tx!Shelf(t), qty[t]))
                = Stock!Plus(available, qty[t])
           /\ Tx!Updated(t, available, Tx!Minus(Tx!Shelf(t), qty[t]))
                = Stock!Minus(available, qty[t])
           /\ Tx!Updated(t, reserved, Tx!Plus(Tx!Held(t), qty[t]))
                = Stock!Plus(reserved, qty[t])
           /\ Tx!Updated(t, reserved, Tx!Minus(Tx!Held(t), qty[t]))
                = Stock!Minus(reserved, qty[t])
<1>1. \A p \in Tx!Ids :
          /\ qty[t][p] \in Int /\ available[p] \in Nat /\ reserved[p] \in Nat
          /\ qty[t][p] # 0 => /\ Tx!Shelf(t)[p] = available[p]
                              /\ Tx!Held(t)[p] = reserved[p]
  BY ReadIsCurrent, Numbers
<1>2. \A p \in Tx!Ids : qty[t][p] = 0 =>
          /\ available[p] + qty[t][p] = available[p]
          /\ available[p] - qty[t][p] = available[p]
          /\ reserved[p] + qty[t][p] = reserved[p]
          /\ reserved[p] - qty[t][p] = reserved[p]
  BY <1>1
<1> QED
  BY <1>1, <1>2 DEF Tx!Updated, Tx!Plus, Tx!Minus, Stock!Plus, Stock!Minus

LEMMA PostIsPost ==
    ASSUME NEW k, NEW d, Tx!Post(k, d)
    PROVE  ledger' = Stock!Post(k, d)
BY DEF Tx!Post, Tx!Plus, Stock!Post, Stock!Plus

-----------------------------------------------------------------------------
(* The transactions are the operations of Inventory *)

LEMMA ReserveIsSerial ==
    ASSUME Tx!InventoryTxAssumption, TxInv, NEW t \in Reserves, Tx!Reserve(t),
           Tx!Enough(t)
    PROVE  Stock!Reserve(t, qty[t]) /\ qty[t] \in Stock!Requests
<1>1. t \in Tx!Txs /\ Tx!Ready(t) /\ step[t] = "rows"
  BY DEF Tx!Reserve, Tx!Ready, Tx!Txs
<1>2. qty[t] \in Tx!Amounts /\ standing[t] = "none"
  BY <1>1 DEF TxInv, RequestsAreLegal
<1>3. Stock!CanReserve(qty[t])
  <2>1. \A p \in Tx!Ids : qty[t][p] \in Nat
    BY <1>2, AmountsAreRequests
  <2>2. ASSUME NEW p \in Tx!Ids, qty[t][p] > 0
        PROVE  Tx!Shelf(t)[p] = available[p]
    <3>1. qty[t][p] # 0
      BY <2>1, <2>2
    <3> QED
      BY <1>1, <3>1, ReadIsCurrent
  <2> QED
    BY <2>2 DEF Stock!CanReserve, Stock!ItemsOf, Tx!Enough
<1>4. /\ available' = Stock!Minus(available, qty[t])
      /\ reserved' = Stock!Plus(reserved, qty[t])
  BY <1>1, UpdatedIsCurrent DEF Tx!Reserve
<1>5. Tx!Minus(Tx!None, qty[t]) = Stock!Minus(Stock!NoItems, qty[t])
  BY AmountsAreRequests DEF Tx!Minus, Stock!Minus
<1>6. ledger' = Stock!Post("reserve", Stock!Minus(Stock!NoItems, qty[t]))
  BY <1>5, PostIsPost DEF Tx!Reserve
<1>7. enqueued' = Stock!ReserveReindex(qty[t])
  BY DEF Tx!Reserve, Tx!ItemsOf, Stock!ReserveReindex, Stock!ItemsOf
<1> QED
  BY <1>2, <1>3, <1>4, <1>6, <1>7, AmountsAreRequests
     DEF Tx!Reserve, Stock!Reserve

LEMMA CommitIsSerial ==
    ASSUME Tx!InventoryTxAssumption, TxInv, NEW t \in Commits, Tx!Commit(t)
    PROVE  aim[t] \in Reserves /\ Stock!Commit(aim[t])
<1>1. t \in Tx!Txs /\ Tx!Ready(t) /\ step[t] = "rows"
  BY DEF Tx!Commit, Tx!Ready, Tx!Txs
<1>2. /\ aim[t] \in Reserves /\ standing[aim[t]] = "held"
      /\ qty[t] = items[aim[t]]
  BY <1>1 DEF TxInv, ReservationHeld
<1>3. \A p \in Tx!Ids : reserved[p] >= items[aim[t]][p]
  <2>1. Stock!StockInv
    BY DEF TxInv
  <2>2. \A p \in Tx!Ids : items[aim[t]][p] <= reserved[p]
    BY <1>2, <2>1, StockAssumptions, Stock!HeldIsReserved
  <2> QED
    BY <1>2, <2>2, Numbers
<1>4. reserved' = Stock!Minus(reserved, items[aim[t]])
  BY <1>1, <1>2, UpdatedIsCurrent DEF Tx!Commit
<1>5. ledger' = Stock!Post("commit", Stock!CommitDelta(aim[t]))
  <2>1. ledger \in [Stock!Reasons -> [Tx!Ids -> Int]]
    BY DEF TxInv, Stock!StockInv, Stock!TypeOK
  <2>2. \A f \in [Tx!Ids -> Int] : Stock!Plus(f, Stock!NoItems) = f
    BY DEF Stock!Plus, Stock!NoItems
  <2>3. "commit" \in Stock!Reasons
    BY DEF Stock!Reasons
  <2> QED
    BY <2>1, <2>2, <2>3 DEF Tx!Commit, Stock!Post, Stock!CommitDelta
<1> QED
  BY <1>2, <1>3, <1>4, <1>5 DEF Tx!Commit, Stock!Commit, Stock!CanCommit

LEMMA ReleaseIsSerial ==
    ASSUME Tx!InventoryTxAssumption, TxInv, NEW t \in Releases, Tx!Release(t)
    PROVE  aim[t] \in Reserves /\ Stock!Release(aim[t])
<1>1. t \in Tx!Txs /\ Tx!Ready(t) /\ step[t] = "rows"
  BY DEF Tx!Release, Tx!Ready, Tx!Txs
<1>2. /\ aim[t] \in Reserves /\ standing[aim[t]] = "held"
      /\ qty[t] = items[aim[t]]
  BY <1>1 DEF TxInv, ReservationHeld
<1>3. available' = Stock!Plus(available, items[aim[t]])
  BY <1>1, <1>2, UpdatedIsCurrent DEF Tx!Release
<1>4. reserved' = Stock!ReservedAfterRelease(aim[t])
  <2>1. \A p \in Tx!Ids : /\ qty[t][p] \in Int /\ reserved[p] \in Nat
                          /\ qty[t][p] # 0 => Tx!Held(t)[p] = reserved[p]
                          /\ qty[t][p] = items[aim[t]][p]
    BY <1>1, <1>2, ReadIsCurrent, Numbers
  <2>2. \A p \in Tx!Ids : qty[t][p] = 0 =>
            reserved[p] >= qty[t][p] /\ reserved[p] - qty[t][p] = reserved[p]
    BY <2>1
  <2> QED
    BY <2>1, <2>2 DEF Tx!Release, Tx!Updated, Stock!ReservedAfterRelease
<1>5. ledger' = Stock!Post("released", items[aim[t]])
  BY <1>2, PostIsPost DEF Tx!Release
<1>6. enqueued' = Stock!ItemsOf(items[aim[t]])
  BY <1>2 DEF Tx!Release, Tx!ItemsOf, Stock!ItemsOf
<1> QED
  BY <1>2, <1>3, <1>4, <1>5, <1>6
     DEF Tx!Release, Stock!Release, Stock!Free, Stock!CanRelease

\* A finite set of transactions of which one ends.
LEMMA OneMoreEnded ==
    ASSUME NEW S \in SUBSET Tx!Txs, IsFiniteSet(S), NEW t \in S,
           step \in [Tx!Txs -> {"idle", "reservation", "rows", "ended"}],
           step[t] # "ended", step' = [step EXCEPT ![t] = "ended"]
    PROVE  /\ Ended(S) \in Nat /\ Cardinality(S) \in Nat
           /\ Ended(S)' = Ended(S) + 1
           /\ Ended(S) + 1 <= Cardinality(S)
<1> DEFINE E == {u \in S : step[u] = "ended"}
<1>1. {u \in S : step'[u] = "ended"} = E \cup {t} /\ t \notin E
  OBVIOUS
<1>2. E \cup {t} \subseteq S
  OBVIOUS
<1>3. IsFiniteSet(E)
  BY FS_Subset
<1>4. Cardinality(E) \in Nat /\ Cardinality(E \cup {t}) = Cardinality(E) + 1
  <2> HIDE DEF E
  <2> QED
    BY <1>1, <1>3, FS_AddElement, FS_CardinalityType
<1>5. Cardinality(S) \in Nat /\ Cardinality(E \cup {t}) <= Cardinality(S)
  BY <1>2, FS_Subset, FS_CardinalityType
<1>6. Ended(S) = Cardinality(E) /\ Ended(S)' = Cardinality(E \cup {t})
  BY <1>1 DEF Ended
<1> QED
  BY <1>4, <1>5, <1>6

LEMMA AsManyEnded ==
    ASSUME NEW S \in SUBSET Tx!Txs, IsFiniteSet(S), NEW t \in Tx!Txs, NEW l,
           step \in [Tx!Txs -> {"idle", "reservation", "rows", "ended"}],
           step[t] # "ended", step' = [step EXCEPT ![t] = l]
    PROVE  Ended(S) \in Nat /\ Ended(S)' \in Nat /\ Ended(S) <= Ended(S)'
<1> DEFINE E == {u \in S : step[u] = "ended"}
           F == {u \in S : step'[u] = "ended"}
<1>1. E \subseteq F
  OBVIOUS
<1>2. IsFiniteSet(F)
  BY FS_Subset
<1>3. /\ Cardinality(E) \in Nat /\ Cardinality(F) \in Nat
      /\ Cardinality(E) <= Cardinality(F)
  BY <1>1, <1>2, FS_Subset, FS_CardinalityType
<1> QED
  BY <1>3 DEF Ended

LEMMA Products ==
    ASSUME NEW m \in Nat, NEW n \in Nat, NEW k \in Nat
    PROVE  /\ m * n \in Nat /\ m * k = k * m
           /\ n <= k => m * n <= m * k
           /\ m * (n + 1) = m * n + m
<1>1. n <= k => m * n <= m * k
  <2> SUFFICES ASSUME n <= k PROVE m * n <= m * k
    OBVIOUS
  <2>1. k - n \in Nat /\ m * (k - n) \in Nat
    OBVIOUS
  <2>2. m * k = m * n + m * (k - n)
    OBVIOUS
  <2> QED
    BY <2>1, <2>2
<1> QED
  BY <1>1

LEMMA FiniteRequests ==
    ASSUME Tx!InventoryTxAssumption
    PROVE  /\ IsFiniteSet(Adjusts) /\ Adjusts \subseteq Tx!Txs
           /\ IsFiniteSet(Restocks) /\ Restocks \subseteq Tx!Txs
<1>1. Adjusts \subseteq Tx!Txs /\ Restocks \subseteq Tx!Txs
  BY DEF Tx!Txs
<1> QED
  BY <1>1, FS_Subset, FiniteTxs

\* There is room for one more correction.
LEMMA RoomToAdjust ==
    ASSUME Tx!InventoryTxAssumption, TxInv, NEW t \in Adjusts, Tx!Ready(t),
           Tx!End(t),
           NEW p \in Tx!Ids, NEW d \in Int, d <= MaxQty, -d <= MaxQty
    PROVE  /\ ledger["adjust"][p] + d \in -MaxCorrection..MaxCorrection
           /\ ledger["adjust"][p] + d <= MaxQty * Ended(Adjusts)'
           /\ -(ledger["adjust"][p] + d) <= MaxQty * Ended(Adjusts)'
<1>1. /\ Ended(Adjusts) \in Nat /\ Cardinality(Adjusts) \in Nat
      /\ Ended(Adjusts)' = Ended(Adjusts) + 1
      /\ Ended(Adjusts) + 1 <= Cardinality(Adjusts)
  BY FiniteRequests, OneMoreEnded DEF TxInv, Tx!TypeOK, Tx!Ready, Tx!End
<1> DEFINE n == Ended(Adjusts)
           k == Cardinality(Adjusts)
           a == ledger["adjust"][p]
<1>2. /\ MaxQty \in Nat /\ MaxCorrection \in Nat
      /\ k * MaxQty <= MaxCorrection
  BY FiniteTxs
<1>3. a \in Int
  BY Numbers DEF Stock!Reasons
<1>4. a <= MaxQty * n /\ -a <= MaxQty * n
  BY DEF TxInv, CorrectionsBounded
<1>5. Ended(Adjusts)' = n + 1 /\ n \in Nat /\ k \in Nat /\ n + 1 <= k
  BY <1>1
<1> HIDE DEF n, k, a
<1>6. /\ MaxQty * n \in Nat /\ MaxQty * (n + 1) = MaxQty * n + MaxQty
      /\ MaxQty * (n + 1) <= MaxQty * k /\ MaxQty * k = k * MaxQty
      /\ MaxQty * k \in Nat
  BY <1>2, <1>5, Products
<1>7. a + d <= MaxQty * (n + 1) /\ -(a + d) <= MaxQty * (n + 1)
  BY <1>2, <1>3, <1>4, <1>6
<1>8. a + d \in -MaxCorrection..MaxCorrection
  BY <1>2, <1>3, <1>6, <1>7
<1> QED
  BY <1>5, <1>7, <1>8 DEF a

LEMMA RoomToRestock ==
    ASSUME Tx!InventoryTxAssumption, TxInv, NEW t \in Restocks, Tx!Ready(t),
           Tx!End(t),
           NEW p \in Tx!Ids, NEW d \in Int, d <= MaxQty
    PROVE  /\ ledger["restock"][p] + d <= MaxCorrection
           /\ ledger["restock"][p] + d <= MaxQty * Ended(Restocks)'
<1>1. /\ Ended(Restocks) \in Nat /\ Cardinality(Restocks) \in Nat
      /\ Ended(Restocks)' = Ended(Restocks) + 1
      /\ Ended(Restocks) + 1 <= Cardinality(Restocks)
  BY FiniteRequests, OneMoreEnded DEF TxInv, Tx!TypeOK, Tx!Ready, Tx!End
<1> DEFINE n == Ended(Restocks)
           k == Cardinality(Restocks)
           a == ledger["restock"][p]
<1>2. /\ MaxQty \in Nat /\ MaxCorrection \in Nat
      /\ k * MaxQty <= MaxCorrection
  BY FiniteTxs
<1>3. a \in Int
  BY Numbers DEF Stock!Reasons
<1>4. a <= MaxQty * n
  BY DEF TxInv, CorrectionsBounded
<1>5. Ended(Restocks)' = n + 1 /\ n \in Nat /\ k \in Nat /\ n + 1 <= k
  BY <1>1
<1> HIDE DEF n, k, a
<1>6. /\ MaxQty * n \in Nat /\ MaxQty * (n + 1) = MaxQty * n + MaxQty
      /\ MaxQty * (n + 1) <= MaxQty * k /\ MaxQty * k = k * MaxQty
      /\ MaxQty * k \in Nat
  BY <1>2, <1>5, Products
<1>7. a + d <= MaxQty * (n + 1)
  BY <1>2, <1>3, <1>4, <1>6
<1>8. a + d <= MaxCorrection
  BY <1>2, <1>3, <1>6, <1>7
<1> QED
  BY <1>5, <1>7, <1>8 DEF a

LEMMA AdjustIsSerial ==
    ASSUME Tx!InventoryTxAssumption, TxInv, NEW t \in Adjusts, Tx!Adjust(t),
           \A p \in Tx!Ids : qty[t][p] # 0 =>
               Tx!Plus(Tx!Shelf(t), qty[t])[p] >= 0
    PROVE  \E p \in Tx!Ids, d \in -MaxCorrection..MaxCorrection :
               d # 0 /\ Stock!AdjustStock(p, d)
<1>1. t \in Tx!Txs /\ Tx!Ready(t) /\ step[t] = "rows" /\ Tx!End(t)
  BY DEF Tx!Adjust, Tx!Ready, Tx!Txs, Tx!Written, Tx!Rollback
<1>2. PICK q \in Tx!Ids, d \in {-MaxQty, MaxQty} :
          qty[t] = [Tx!None EXCEPT ![q] = d]
  BY <1>1 DEF TxInv, RequestsAreLegal, Corrections
<1>3. d \in Int /\ d # 0 /\ d <= MaxQty /\ -d <= MaxQty
  BY DEF Tx!InventoryTxAssumption
<1>4. /\ qty[t] = Stock!One(q, d) /\ qty[t][q] = d
      /\ \A p \in Tx!Ids : p # q => qty[t][p] = 0
  BY <1>2, AmountsAreRequests DEF Stock!One, Tx!None
<1>5. Tx!Shelf(t)[q] = available[q] /\ available[q] \in Nat
  BY <1>1, <1>3, <1>4, ReadIsCurrent, Numbers
<1>6. Tx!Plus(Tx!Shelf(t), qty[t])[q] = available[q] + d /\
          available[q] + d >= 0
  BY <1>3, <1>4, <1>5 DEF Tx!Plus
<1>7. available' = [available EXCEPT ![q] = available[q] + d]
  <2>1. available' = Stock!Plus(available, qty[t])
    BY <1>1, UpdatedIsCurrent DEF Tx!Adjust
  <2>2. \A p \in Tx!Ids : available[p] + 0 = available[p]
    BY Numbers
  <2>3. available \in [Tx!Ids -> Nat]
    BY DEF TxInv, Tx!TypeOK
  <2> QED
    BY <1>4, <2>1, <2>2, <2>3 DEF Stock!Plus
<1>8. ledger["adjust"][q] + d \in -MaxCorrection..MaxCorrection
  BY <1>1, <1>3, RoomToAdjust
<1>9. d \in -MaxCorrection..MaxCorrection
  <2>1. Cardinality(Adjusts) \in Nat /\ Cardinality(Adjusts) >= 1
    <3>1. /\ Ended(Adjusts) \in Nat /\ Cardinality(Adjusts) \in Nat
          /\ Ended(Adjusts) + 1 <= Cardinality(Adjusts)
      BY <1>1, FiniteRequests, OneMoreEnded
      DEF TxInv, Tx!TypeOK, Tx!Ready, Tx!End
    <3> QED
      BY <3>1
  <2>2. /\ MaxQty \in Nat /\ MaxCorrection \in Nat
        /\ Cardinality(Adjusts) * MaxQty <= MaxCorrection
    BY FiniteTxs
  <2>3. MaxQty <= MaxCorrection
    <3> DEFINE k == Cardinality(Adjusts)
    <3>1. MaxQty * 1 <= MaxQty * k /\ MaxQty * k = k * MaxQty
      BY <2>1, <2>2, Products
    <3> QED
      BY <2>1, <2>2, <3>1
  <2> QED
    BY <1>3, <2>2, <2>3
<1>10. ledger' = Stock!Post("adjust", Stock!One(q, d))
  BY <1>4, PostIsPost DEF Tx!Adjust
<1>11. enqueued' = Stock!AdjustReindex(q, available[q] + d)
  <2>1. enqueued' = {p \in Tx!Ids : qty[t][p] # 0 /\
                        (Tx!Shelf(t)[p] = 0)
                            # (Tx!Plus(Tx!Shelf(t), qty[t])[p] = 0)}
    BY DEF Tx!Adjust
  <2> QED
    BY <1>3, <1>4, <1>5, <1>6, <2>1 DEF Stock!AdjustReindex
<1>12. Stock!AdjustStock(q, d)
  BY <1>6, <1>7, <1>8, <1>10, <1>11 DEF Tx!Adjust, Stock!AdjustStock
<1> QED
  BY <1>3, <1>9, <1>12

LEMMA RestockIsSerial ==
    ASSUME Tx!InventoryTxAssumption, TxInv, NEW t \in Restocks, Tx!Restock(t)
    PROVE  qty[t] \in Stock!Requests /\ Stock!Restock(qty[t])
<1>1. t \in Tx!Txs /\ Tx!Ready(t) /\ step[t] = "rows" /\ Tx!End(t)
  BY DEF Tx!Restock, Tx!Ready, Tx!Txs, Tx!Written
<1>2. qty[t] \in Tx!Amounts
  BY <1>1 DEF TxInv, RequestsAreLegal
<1>3. \A p \in Tx!Ids : qty[t][p] \in 0..MaxQty /\ available[p] \in Nat
  BY <1>2, Numbers DEF Tx!Amounts
<1>4. \A p \in Tx!Ids : ledger["restock"][p] + qty[t][p] <= MaxCorrection
  <2>1. MaxQty \in Nat
    BY DEF Tx!InventoryTxAssumption
  <2>2. \A p \in Tx!Ids : qty[t][p] \in Int /\ qty[t][p] <= MaxQty
    BY <1>3, <2>1
  <2> QED
    BY <1>1, <2>2, RoomToRestock
<1>5. available' = [p \in Tx!Ids |-> available[p] + qty[t][p]]
  BY <1>1, UpdatedIsCurrent DEF Tx!Restock, Stock!Plus
<1>6. ledger' = Stock!Post("restock", Stock!Restocked(qty[t]))
  <2>1. Stock!Restocked(qty[t]) = qty[t]
    BY <1>2 DEF Stock!Restocked, Tx!Amounts
  <2> QED
    BY <2>1, PostIsPost DEF Tx!Restock
<1>7. enqueued' = {p \in Stock!ItemsOf(qty[t]) \cap Tx!Ids :
                      available'[p] = qty[t][p]}
  <2>1. ASSUME NEW p \in Tx!Ids, qty[t][p] > 0
        PROVE  Tx!Shelf(t)[p] = 0 <=> available'[p] = qty[t][p]
    <3>1. qty[t][p] # 0
      BY <1>3, <2>1
    <3>2. Tx!Shelf(t)[p] = available[p]
      BY <1>1, <3>1, ReadIsCurrent
    <3> QED
      BY <1>3, <1>5, <3>2
  <2>2. enqueued' = {p \in Tx!ItemsOf(qty[t]) : Tx!Shelf(t)[p] = 0}
    BY DEF Tx!Restock
  <2> QED
    BY <2>1, <2>2 DEF Tx!ItemsOf, Stock!ItemsOf
<1> QED
  BY <1>2, <1>4, <1>5, <1>6, <1>7, AmountsAreRequests
     DEF Tx!Restock, Stock!Restock

-----------------------------------------------------------------------------
(* Every step is one of them, or changes nothing *)

\* OneAtATime and Stock are the same instance of Inventory, the second with
\* the theorems about it.
LEMMA SameSteps ==
    /\ \A r \in Reserves, req \in Stock!Requests :
           Stock!Reserve(r, req) => Tx!OneAtATime!Next
    /\ \A r \in Reserves : Stock!Commit(r) => Tx!OneAtATime!Next
    /\ \A r \in Reserves : Stock!Release(r) => Tx!OneAtATime!Next
    /\ \A req \in Stock!Requests : Stock!Restock(req) => Tx!OneAtATime!Next
    /\ \A p \in Tx!Ids, d \in -MaxCorrection..MaxCorrection :
           d # 0 /\ Stock!AdjustStock(p, d) => Tx!OneAtATime!Next
<1> USE DEF Tx!OneAtATime!NoItems, Stock!NoItems, Tx!OneAtATime!Quantities,
            Stock!Quantities, Tx!OneAtATime!Requests, Stock!Requests,
            Tx!OneAtATime!Plus, Stock!Plus, Tx!OneAtATime!Minus, Stock!Minus,
            Tx!OneAtATime!Post, Stock!Post, Tx!OneAtATime!ItemsOf,
            Stock!ItemsOf
<1>1. ASSUME NEW r \in Reserves, NEW req \in Stock!Requests,
             Stock!Reserve(r, req)
      PROVE  Tx!OneAtATime!Next
  <2>1. req \in Tx!OneAtATime!Requests /\ Tx!OneAtATime!Reserve(r, req)
    BY <1>1
       DEF Tx!OneAtATime!Reserve, Stock!Reserve, Tx!OneAtATime!CanReserve,
           Stock!CanReserve, Tx!OneAtATime!ReserveReindex, Stock!ReserveReindex
  <2> QED
    BY <2>1 DEF Tx!OneAtATime!Next
<1>2. ASSUME NEW r \in Reserves, Stock!Commit(r)
      PROVE  Tx!OneAtATime!Next
  <2>1. Tx!OneAtATime!Commit(r)
    BY <1>2
       DEF Tx!OneAtATime!Commit, Stock!Commit, Tx!OneAtATime!CanCommit,
           Stock!CanCommit, Tx!OneAtATime!CommitDelta, Stock!CommitDelta
  <2> QED
    BY <2>1 DEF Tx!OneAtATime!Next
<1>3. ASSUME NEW r \in Reserves, Stock!Release(r)
      PROVE  Tx!OneAtATime!Next
  <2>1. Tx!OneAtATime!Release(r)
    BY <1>3
       DEF Tx!OneAtATime!Release, Stock!Release, Tx!OneAtATime!Free,
           Stock!Free,
           Tx!OneAtATime!CanRelease, Stock!CanRelease,
           Tx!OneAtATime!ReservedAfterRelease, Stock!ReservedAfterRelease
  <2> QED
    BY <2>1 DEF Tx!OneAtATime!Next
<1>4. ASSUME NEW req \in Stock!Requests, Stock!Restock(req)
      PROVE  Tx!OneAtATime!Next
  <2>1. req \in Tx!OneAtATime!Requests /\ Tx!OneAtATime!Restock(req)
    BY <1>4 DEF Tx!OneAtATime!Restock, Stock!Restock, Tx!OneAtATime!Restocked,
                Stock!Restocked
  <2> QED
    BY <2>1 DEF Tx!OneAtATime!Next
<1>5. ASSUME NEW p \in Tx!Ids, NEW d \in -MaxCorrection..MaxCorrection,
             d # 0 /\ Stock!AdjustStock(p, d)
      PROVE  Tx!OneAtATime!Next
  <2>1. Tx!OneAtATime!AdjustStock(p, d)
    BY <1>5
       DEF Tx!OneAtATime!AdjustStock, Stock!AdjustStock, Tx!OneAtATime!One,
           Stock!One, Tx!OneAtATime!AdjustReindex, Stock!AdjustReindex
  <2> QED
    BY <1>5, <2>1 DEF Tx!OneAtATime!Next
<1> QED
  BY <1>1, <1>2, <1>3, <1>4, <1>5

\* The steps that write the stock.
Writes(t) ==
    \/ Tx!Reserve(t) /\ Tx!Enough(t)
    \/ Tx!Commit(t)
    \/ Tx!Release(t)
    \/ /\ Tx!Adjust(t)
       /\ \A p \in Tx!Ids : qty[t][p] # 0 =>
              Tx!Plus(Tx!Shelf(t), qty[t])[p] >= 0
    \/ Tx!Restock(t)

\* The steps that do not.
Prepares(t) ==
    \/ Tx!Begin(t) \/ Tx!SelectReservation(t) \/
           \E p \in Tx!Ids : Tx!Access(t, p)
    \/ step[t] \in {"reservation", "rows"} /\ Tx!Rollback(t)

LEMMA StepCases ==
    ASSUME NEW t \in Tx!Txs, Tx!Begin(t) \/ Tx!Step(t) \/ Tx!Fail(t)
    PROVE  Writes(t) \/ Prepares(t)
<1>1. CASE Tx!Reserve(t) \/ Tx!Adjust(t)
  BY <1>1 DEF Tx!Reserve, Tx!Adjust, Writes, Prepares, Tx!Ready
<1> QED
  BY <1>1 DEF Tx!Step, Tx!Fail, Writes, Prepares

LEMMA WritesAreSerial ==
    ASSUME Tx!InventoryTxAssumption, TxInv, NEW t \in Tx!Txs, Writes(t)
    PROVE  Tx!OneAtATime!Next /\ Stock!Next
<1>1. CASE Tx!Reserve(t) /\ Tx!Enough(t)
  <2>1. t \in Reserves
    BY <1>1 DEF Tx!Reserve
  <2> QED
    BY <1>1, <2>1, ReserveIsSerial, SameSteps DEF Stock!Next
<1>2. CASE Tx!Commit(t)
  <2>1. t \in Commits
    BY <1>2 DEF Tx!Commit
  <2> QED
    BY <1>2, <2>1, CommitIsSerial, SameSteps DEF Stock!Next
<1>3. CASE Tx!Release(t)
  <2>1. t \in Releases
    BY <1>3 DEF Tx!Release
  <2> QED
    BY <1>3, <2>1, ReleaseIsSerial, SameSteps DEF Stock!Next
<1>4. CASE /\ Tx!Adjust(t)
           /\ \A p \in Tx!Ids : qty[t][p] # 0 =>
                  Tx!Plus(Tx!Shelf(t), qty[t])[p] >= 0
  <2>1. t \in Adjusts
    BY <1>4 DEF Tx!Adjust
  <2> QED
    BY <1>4, <2>1, AdjustIsSerial, SameSteps DEF Stock!Next
<1>5. CASE Tx!Restock(t)
  <2>1. t \in Restocks
    BY <1>5 DEF Tx!Restock
  <2> QED
    BY <1>5, <2>1, RestockIsSerial, SameSteps DEF Stock!Next
<1> QED
  BY <1>1, <1>2, <1>3, <1>4, <1>5 DEF Writes

LEMMA PreparesNothing ==
    ASSUME NEW t \in Tx!Txs, Prepares(t)
    PROVE  UNCHANGED Tx!stock
BY DEF Prepares, Tx!Begin, Tx!SelectReservation, Tx!Access, Tx!Rollback

-----------------------------------------------------------------------------
(* The invariant *)

LEMMA InitTxInv == Tx!InventoryTxAssumption /\ Tx!Init => TxInv
<1> SUFFICES ASSUME Tx!InventoryTxAssumption, Tx!Init PROVE TxInv
  OBVIOUS
<1>1. Stock!Init
  BY AmountsAreRequests DEF Tx!Init, Stock!Init, Stock!Reasons
<1>2. Stock!StockInv
  BY <1>1, StockAssumptions, Stock!InitStockInv
<1>3. Tx!None \in [Tx!Ids -> -MaxQty..MaxQty] /\ Tx!None \in [Tx!Ids -> Nat]
  BY DEF Tx!None, Tx!InventoryTxAssumption
<1>4. Tx!TypeOK /\ ViewType
  <2>1. InitialStock \in [Tx!Ids -> Nat]
    BY DEF Tx!InventoryTxAssumption
  <2> QED
    BY <1>3, <2>1 DEF Tx!Init, Tx!TypeOK, ViewType, Tx!Row
<1>5. Tx!LocksExclude
  BY DEF Tx!Init, Tx!LocksExclude
<1>6. RowsAreAsRead /\ ReservationHeld /\ RequestsAreLegal
  <2>1. \A t \in Tx!Txs : step[t] = "idle"
    BY DEF Tx!Init
  <2> QED
    BY <2>1
    DEF Tx!Init, RowsAreAsRead, ReservationHeld, RequestsAreLegal, Tx!Txs
<1>7. CorrectionsBounded
  <2>1. /\ {t \in Adjusts : step[t] = "ended"} = {}
        /\ {t \in Restocks : step[t] = "ended"} = {}
    BY DEF Tx!Init, Tx!Txs
  <2>2. Ended(Adjusts) = 0 /\ Ended(Restocks) = 0
    BY <2>1, FS_EmptySet DEF Ended
  <2>3. MaxQty \in Nat /\ MaxQty * 0 = 0
    BY DEF Tx!InventoryTxAssumption
  <2> QED
    BY <2>2, <2>3 DEF Tx!Init, CorrectionsBounded, Tx!None
<1> QED
  BY <1>2, <1>4, <1>5, <1>6, <1>7 DEF TxInv

LEMMA StockStep ==
    ASSUME Tx!InventoryTxAssumption, Stock!StockInv,
           Stock!Next \/ UNCHANGED Tx!stock
    PROVE  Stock!StockInv'
BY StockAssumptions, Stock!NextStockInv DEF Tx!stock, Stock!vars

\* The bound on corrections is kept by what moves no correction.
LEMMA BoundKept ==
    ASSUME Tx!InventoryTxAssumption, TxInv, NEW S \in SUBSET Tx!Txs,
           IsFiniteSet(S),
           NEW t \in Tx!Txs, NEW l, step[t] # "ended",
           step' = [step EXCEPT ![t] = l],
           NEW a \in Int
    PROVE  a <= MaxQty * Ended(S) => a <= MaxQty * Ended(S)'
<1>1. Ended(S) \in Nat /\ Ended(S)' \in Nat /\ Ended(S) <= Ended(S)'
  BY AsManyEnded DEF TxInv, Tx!TypeOK
<1>2. MaxQty \in Nat
  BY DEF Tx!InventoryTxAssumption
<1> DEFINE n == Ended(S)
           k == Ended(S)'
<1> HIDE DEF n, k
<1>3. n \in Nat /\ k \in Nat /\ n <= k
  BY <1>1 DEF n, k
<1>4. MaxQty * n \in Nat /\ MaxQty * k \in Nat /\ MaxQty * n <= MaxQty * k
  BY <1>2, <1>3, Products
<1>5. a <= MaxQty * n => a <= MaxQty * k
  BY <1>4
<1> QED
  BY <1>5 DEF n, k

LEMMA CorrectionsStand ==
    ASSUME Tx!InventoryTxAssumption, TxInv,
           NEW t \in Tx!Txs, NEW l, step[t] # "ended",
           step' = [step EXCEPT ![t] = l],
           NEW k \in {"adjust", "restock"}, ledger'[k] = ledger[k]
    PROVE  \A p \in Tx!Ids :
               /\ k = "adjust" =>
                      /\ ledger'[k][p] <= MaxQty * Ended(Adjusts)'
                      /\ -ledger'[k][p] <= MaxQty * Ended(Adjusts)'
               /\ k = "restock" =>
                      ledger'[k][p] <= MaxQty * Ended(Restocks)'
<1> TAKE p \in Tx!Ids
<1>1. ledger[k][p] \in Int /\ -ledger[k][p] \in Int
  BY Numbers DEF Stock!Reasons
<1>2. /\ k = "adjust" =>
             /\ ledger[k][p] <= MaxQty * Ended(Adjusts)
             /\ -ledger[k][p] <= MaxQty * Ended(Adjusts)
      /\ k = "restock" => ledger[k][p] <= MaxQty * Ended(Restocks)
  BY DEF TxInv, CorrectionsBounded
<1> QED
  BY <1>1, <1>2, BoundKept, FiniteRequests

LEMMA WritesCorrections ==
    ASSUME Tx!InventoryTxAssumption, TxInv, NEW t \in Tx!Txs, Writes(t)
    PROVE  CorrectionsBounded'
<1>1. step' = [step EXCEPT ![t] = "ended"] /\ Tx!End(t) /\ Tx!Ready(t) /\
          step[t] = "rows"
  BY 
  DEF Writes, Tx!Reserve, Tx!Commit, Tx!Release, Tx!Adjust, Tx!Restock,
      Tx!Rollback, Tx!Written,
         Tx!End, Tx!Ready
<1>2. /\ ledger \in [Stock!Reasons -> [Tx!Ids -> Int]]
      /\ "adjust" \in Stock!Reasons /\ "restock" \in Stock!Reasons
  BY DEF TxInv, Stock!StockInv, Stock!TypeOK, Stock!Reasons
<1>3. CASE Tx!Adjust(t) /\ Tx!Post("adjust", qty[t])
  <2>1. t \in Adjusts
    BY <1>3 DEF Tx!Adjust
  <2>2. PICK q \in Tx!Ids, d \in {-MaxQty, MaxQty} :
            qty[t] = [Tx!None EXCEPT ![q] = d]
    <3>1. qty[t] \in Corrections
      BY <1>1, <2>1 DEF TxInv, RequestsAreLegal
    <3> QED
      BY <3>1, CorrectionsAre, Zenon
  <2>3. \A p \in Tx!Ids : /\ qty[t][p] \in Int
                          /\ qty[t][p] <= MaxQty /\ -qty[t][p] <= MaxQty
    BY <2>2 DEF Tx!None, Tx!InventoryTxAssumption
  <2>4. /\ ledger'["restock"] = ledger["restock"]
        /\ \A p \in Tx!Ids :
               ledger'["adjust"][p] = ledger["adjust"][p] + qty[t][p]
    BY <1>2, <1>3 DEF Tx!Post, Tx!Plus
  <2>5. \A p \in Tx!Ids :
            ledger'["restock"][p] <= MaxQty * Ended(Restocks)'
    BY <1>1, <2>4, CorrectionsStand
  <2>6. \A p \in Tx!Ids :
            /\ ledger["adjust"][p] + qty[t][p] <= MaxQty * Ended(Adjusts)'
            /\ -(ledger["adjust"][p] + qty[t][p]) <= MaxQty * Ended(Adjusts)'
    BY <1>1, <2>1, <2>3, RoomToAdjust
  <2> QED
    BY <2>4, <2>5, <2>6 DEF CorrectionsBounded
<1>4. CASE Tx!Restock(t)
  <2>1. t \in Restocks
    BY <1>4 DEF Tx!Restock
  <2>2. qty[t] \in Tx!Amounts
    BY <1>1, <2>1 DEF TxInv, RequestsAreLegal
  <2>3. \A p \in Tx!Ids : qty[t][p] \in Int /\ qty[t][p] <= MaxQty
    BY <2>2 DEF Tx!Amounts, Tx!InventoryTxAssumption
  <2>4. /\ ledger'["adjust"] = ledger["adjust"]
        /\ \A p \in Tx!Ids :
               ledger'["restock"][p] = ledger["restock"][p] + qty[t][p]
    BY <1>2, <1>4 DEF Tx!Restock, Tx!Post, Tx!Plus
  <2>5. \A p \in Tx!Ids :
            /\ ledger'["adjust"][p] <= MaxQty * Ended(Adjusts)'
            /\ -ledger'["adjust"][p] <= MaxQty * Ended(Adjusts)'
    BY <1>1, <2>4, CorrectionsStand
  <2>6. \A p \in Tx!Ids :
            ledger["restock"][p] + qty[t][p] <= MaxQty * Ended(Restocks)'
    BY <1>1, <2>1, <2>3, RoomToRestock
  <2> QED
    BY <2>4, <2>5, <2>6 DEF CorrectionsBounded
<1>5. CASE /\ ledger'["adjust"] = ledger["adjust"]
           /\ ledger'["restock"] = ledger["restock"]
  BY <1>1, <1>5, CorrectionsStand DEF CorrectionsBounded
<1>6. CASE Tx!Reserve(t) /\ Tx!Enough(t)
  <2>1. Tx!Post("reserve", Tx!Minus(Tx!None, qty[t]))
    BY <1>6 DEF Tx!Reserve
  <2> QED
    BY <1>2, <1>5, <2>1 DEF Tx!Post
<1>7. CASE Tx!Commit(t)
  BY <1>5, <1>7 DEF Tx!Commit
<1>8. CASE Tx!Release(t)
  <2>1. Tx!Post("released", qty[t])
    BY <1>8 DEF Tx!Release
  <2> QED
    BY <1>2, <1>5, <2>1 DEF Tx!Post
<1>9. ASSUME Tx!Adjust(t),
             \A p \in Tx!Ids : qty[t][p] # 0 =>
                 Tx!Plus(Tx!Shelf(t), qty[t])[p] >= 0
      PROVE  Tx!Post("adjust", qty[t])
  BY <1>9 DEF Tx!Adjust
<1> QED
  BY <1>3, <1>4, <1>6, <1>7, <1>8, <1>9 DEF Writes

LEMMA PreparesCorrections ==
    ASSUME Tx!InventoryTxAssumption, TxInv, NEW t \in Tx!Txs, Prepares(t)
    PROVE  CorrectionsBounded'
<1>1. ledger' = ledger
  BY PreparesNothing DEF Tx!stock
<1>2. CASE step' = step
  BY <1>1, <1>2 DEF TxInv, CorrectionsBounded, Ended
<1>3. CASE \E l : step[t] # "ended" /\ step' = [step EXCEPT ![t] = l]
  BY <1>1, <1>3, CorrectionsStand DEF CorrectionsBounded
<1> QED
  BY <1>2, <1>3
     DEF Prepares, Tx!Begin, Tx!Start, Tx!SelectReservation, Tx!Access,
         Tx!Rollback, Tx!End

LEMMA WritesTypeOK ==
    ASSUME Tx!InventoryTxAssumption, TxInv, NEW t \in Tx!Txs, Writes(t),
           Stock!StockInv'
    PROVE  Tx!TypeOK' /\ ViewType'
<1>1. /\ step' = [step EXCEPT ![t] = "ended"]
      /\ locks' = [locks EXCEPT ![t] = {}]
      /\ UNCHANGED <<aim, qty, todo, view>>
  BY 
  DEF Writes, Tx!Reserve, Tx!Commit, Tx!Release, Tx!Adjust, Tx!Restock,
      Tx!Rollback, Tx!Written,
         Tx!End
<1>2. available' \in [Tx!Ids -> Nat] /\ reserved' \in [Tx!Ids -> Nat]
  BY DEF Stock!StockInv, Stock!TypeOK
<1>3. \/ standing' = standing
      \/ standing' = [standing EXCEPT ![t] = "held"]
      \/ \E r, k : /\ k \in {"committed", "released"}
                   /\ standing' = [standing EXCEPT ![r] = k]
  BY DEF Writes, Tx!Reserve, Tx!Commit, Tx!Release, Tx!Adjust, Tx!Restock
<1>4. standing' \in [Reserves -> {"none", "held", "committed", "released"}]
  BY <1>3 DEF TxInv, Tx!TypeOK
<1> QED
  BY <1>1, <1>2, <1>4 DEF TxInv, Tx!TypeOK, ViewType

LEMMA LockType ==
    ASSUME locks \in [Tx!Txs -> SUBSET ((Tx!Ids \cup Reserves) \X Tx!Modes)],
           NEW t \in Tx!Txs, NEW row \in Tx!Ids \cup Reserves,
           Tx!Lock(t, row, "update")
    PROVE  locks' \in [Tx!Txs -> SUBSET ((Tx!Ids \cup Reserves) \X Tx!Modes)]
<1>1. <<row, "update">> \in (Tx!Ids \cup Reserves) \X Tx!Modes
  BY DEF Tx!Modes
<1>2. locks[t] \cup {<<row, "update">>}
          \in SUBSET ((Tx!Ids \cup Reserves) \X Tx!Modes)
  BY <1>1
<1> QED
  BY <1>2 DEF Tx!Lock

LEMMA PreparesTypeOK ==
    ASSUME Tx!InventoryTxAssumption, TxInv, NEW t \in Tx!Txs, Prepares(t)
    PROVE  Tx!TypeOK' /\ ViewType'
<1> USE DEF TxInv, Tx!TypeOK, ViewType
<1>1. UNCHANGED Tx!stock
  BY PreparesNothing
<1>2. CASE Tx!Begin(t)
  <2>1. ASSUME NEW p \in Tx!Ids, NEW d \in {-MaxQty, MaxQty}
        PROVE  [Tx!None EXCEPT ![p] = d] \in [Tx!Ids -> -MaxQty..MaxQty]
    BY DEF Tx!None, Tx!InventoryTxAssumption
  <2>2. /\ \/ \E q \in [Tx!Ids -> -MaxQty..MaxQty] : Tx!Start(t, q) /\
                  UNCHANGED aim
           \/ /\ \E r \in Reserves : aim' = [aim EXCEPT ![t] = r]
              /\ step' = [step EXCEPT ![t] = "reservation"]
              /\ UNCHANGED <<qty, todo>>
        /\ UNCHANGED <<view, locks>>
    BY <1>2, <2>1, AmountsAreRequests DEF Tx!Begin
  <2>3. CASE \E q \in [Tx!Ids -> -MaxQty..MaxQty] : Tx!Start(t, q) /\
                 UNCHANGED aim
    <3>1. PICK q \in [Tx!Ids -> -MaxQty..MaxQty] : Tx!Start(t, q) /\
              UNCHANGED aim
      BY <2>3
    <3>2. {p \in Tx!Ids : q[p] # 0} \in SUBSET Tx!Ids
      OBVIOUS
    <3> QED
      BY <1>1, <2>2, <3>1, <3>2 DEF Tx!Start, Tx!stock
  <2>4. CASE /\ \E r \in Reserves : aim' = [aim EXCEPT ![t] = r]
             /\ step' = [step EXCEPT ![t] = "reservation"]
             /\ UNCHANGED <<qty, todo>>
    BY <1>1, <2>2, <2>4 DEF Tx!stock
  <2> QED
    BY <2>2, <2>3, <2>4
<1>3. CASE Tx!SelectReservation(t) /\ Tx!LockReservation(t) /\
               Tx!Start(t, items[aim[t]])
           /\ UNCHANGED <<aim, view>>
  <2>1. step[t] = "reservation"
    BY <1>3 DEF Tx!SelectReservation
  <2>2. aim[t] \in Reserves
    BY <2>1 DEF RequestsAreLegal, ReservationHeld
  <2>3. items[aim[t]] \in [Tx!Ids -> -MaxQty..MaxQty]
    BY <2>2, Numbers
  <2>4. locks' \in [Tx!Txs -> SUBSET ((Tx!Ids \cup Reserves) \X Tx!Modes)]
    BY <1>3, <2>2, LockType DEF Tx!LockReservation
  <2> QED
    BY <1>1, <1>3, <2>3, <2>4 DEF Tx!Start, Tx!stock
<1>4. CASE \E p \in Tx!Ids : Tx!Access(t, p)
  <2>1. PICK p \in Tx!Ids : Tx!Access(t, p)
    BY <1>4
  <2>2. locks' \in [Tx!Txs -> SUBSET ((Tx!Ids \cup Reserves) \X Tx!Modes)]
    BY <2>1, LockType DEF Tx!Access, Tx!LockRow
  <2>3. Tx!Row(p) \in [available : Nat, reserved : Nat]
    BY DEF Tx!Row
  <2> QED
    BY <1>1, <2>1, <2>2, <2>3 DEF Tx!Access, Tx!stock
<1>5. CASE Tx!Rollback(t)
  BY <1>1, <1>5 DEF Tx!Rollback, Tx!End, Tx!stock
<1> QED
  BY <1>2, <1>3, <1>4, <1>5 DEF Prepares, Tx!SelectReservation

\* What a write does to the rows and the reservations of the others.
LEMMA WritesFrame ==
    ASSUME Tx!InventoryTxAssumption, TxInv, NEW t \in Tx!Txs, Writes(t)
    PROVE  /\ \A p \in Tx!Ids : qty[t][p] = 0 => Tx!Row(p)' = Tx!Row(p)
           /\ \A r \in Reserves :
                  \/ standing'[r] = standing[r] /\ items'[r] = items[r]
                  \/ r = t /\ standing[r] = "none"
                  \/ standing[r] = "held" /\ <<r, "update">> \in locks[t]
<1>2. /\ \/ available' = available
         \/ \E f : available' = Tx!Updated(t, available, f)
      /\ \/ reserved' = reserved
         \/ \E f : reserved' = Tx!Updated(t, reserved, f)
  BY DEF Writes, Tx!Reserve, Tx!Commit, Tx!Release, Tx!Adjust, Tx!Restock
<1>3. \A p \in Tx!Ids : qty[t][p] = 0 => available'[p] = available[p]
                                        /\ reserved'[p] = reserved[p]
  BY <1>2 DEF Tx!Updated
<1>4. ASSUME NEW r \in Reserves
      PROVE  \/ standing'[r] = standing[r] /\ items'[r] = items[r]
             \/ r = t /\ standing[r] = "none"
             \/ standing[r] = "held" /\ <<r, "update">> \in locks[t]
  <2>1. Tx!Ready(t)
    BY DEF Writes, Tx!Reserve, Tx!Commit, Tx!Release, Tx!Adjust, Tx!Restock
  <2>2. CASE Tx!Reserve(t) /\ Tx!Enough(t)
    <3>1. t \in Reserves /\ standing[t] = "none"
      BY <2>1, <2>2 DEF Tx!Reserve, TxInv, RequestsAreLegal, Tx!Ready
    <3>2. r # t => standing'[r] = standing[r] /\ items'[r] = items[r]
      BY <2>2 DEF Tx!Reserve, TxInv, Tx!TypeOK, Stock!StockInv, Stock!TypeOK
    <3> QED
      BY <3>1, <3>2
  <2>3. CASE Tx!Commit(t) \/ Tx!Release(t)
    <3>1. /\ t \in Commits \cup Releases /\ aim[t] \in Reserves
          /\ standing[aim[t]] = "held" /\ <<aim[t], "update">> \in locks[t]
      BY <2>1, <2>3 DEF Tx!Commit, Tx!Release, TxInv, ReservationHeld, Tx!Ready
    <3>2. items' = items
      BY <2>3 DEF Tx!Commit, Tx!Release
    <3>3. r # aim[t] => standing'[r] = standing[r]
      BY <2>3 DEF Tx!Commit, Tx!Release, TxInv, Tx!TypeOK
    <3> QED
      BY <3>1, <3>2, <3>3
  <2>4. CASE UNCHANGED <<standing, items>>
    BY <2>4
  <2> QED
    BY <2>2, <2>3, <2>4 DEF Writes, Tx!Adjust, Tx!Restock
<1> QED
  BY <1>3, <1>4 DEF Tx!Row

LEMMA WritesKeepReads ==
    ASSUME Tx!InventoryTxAssumption, TxInv, NEW t \in Tx!Txs, Writes(t)
    PROVE  /\ Tx!LocksExclude' /\ RowsAreAsRead'
           /\ ReservationHeld' /\ RequestsAreLegal'
<1> USE DEF TxInv, Tx!TypeOK
<1>1. /\ step' = [step EXCEPT ![t] = "ended"]
      /\ locks' = [locks EXCEPT ![t] = {}]
      /\ UNCHANGED <<aim, qty, todo, view>> /\ Tx!Ready(t)
  BY 
  DEF Writes, Tx!Reserve, Tx!Commit, Tx!Release, Tx!Adjust, Tx!Restock,
      Tx!Rollback, Tx!Written,
         Tx!End
<1>2. Tx!LocksExclude'
  BY <1>1, ReleaseKeepsExclusion
<1>3. \A u \in Tx!Txs : step'[u] # "ended" =>
          u # t /\ step'[u] = step[u] /\ locks'[u] = locks[u]
  BY <1>1
<1>4. \A row : \A u \in Tx!Txs : <<row, "update">> \in locks[u] /\ u # t =>
          <<row, "update">> \notin locks[t]
  BY HoldersExclude, ConflictFacts
<1>5. RowsAreAsRead'
  <2> SUFFICES ASSUME NEW u \in Tx!Txs, step'[u] = "rows", NEW p \in Tx!Ids,
                      qty[u][p] # 0, p \notin todo[u]
               PROVE  view[u][p] = Tx!Row(p)' /\ <<p, "update">> \in locks'[u]
    BY <1>1 DEF RowsAreAsRead
  <2>1. /\ u # t /\ locks'[u] = locks[u]
        /\ view[u][p] = Tx!Row(p) /\ <<p, "update">> \in locks[u]
    BY <1>3 DEF RowsAreAsRead
  <2>2. qty[t][p] = 0
    BY <1>1, <1>4, <2>1, ReadIsCurrent
  <2> QED
    BY <2>1, <2>2, WritesFrame
<1>6. ReservationHeld'
  <2> SUFFICES ASSUME NEW u \in Commits \cup Releases,
                      step'[u] \in {"reservation", "rows"}
               PROVE  /\ aim[u] \in Reserves
                      /\ step'[u] = "rows" =>
                               /\ standing'[aim[u]] = "held"
                               /\ qty[u] = items'[aim[u]]
                               /\ <<aim[u], "update">> \in locks'[u]
    BY <1>1 DEF ReservationHeld
  <2>1. u \in Tx!Txs
    BY DEF Tx!Txs
  <2>2. u # t /\ step'[u] = step[u] /\ locks'[u] = locks[u]
    BY <1>3, <2>1
  <2>3. /\ aim[u] \in Reserves
        /\ step[u] = "rows" => /\ standing[aim[u]] = "held"
                               /\ qty[u] = items[aim[u]]
                               /\ <<aim[u], "update">> \in locks[u]
    BY <2>2 DEF ReservationHeld
  <2>4. step[u] = "rows" => /\ standing'[aim[u]] = standing[aim[u]]
                           /\ items'[aim[u]] = items[aim[u]]
    BY <1>4, <2>1, <2>2, <2>3, WritesFrame
  <2> QED
    BY <2>2, <2>3, <2>4
<1>7. RequestsAreLegal'
  <2>1. \A u \in Tx!Txs : step'[u] # "ended" => u # t /\ step'[u] = step[u]
    BY <1>3
  <2>2. \A u \in Reserves : step'[u] # "ended" => standing'[u] = "none"
    <3> SUFFICES ASSUME NEW u \in Reserves, step'[u] # "ended"
                 PROVE  standing'[u] = "none"
      OBVIOUS
    <3>1. u \in Tx!Txs
      BY DEF Tx!Txs
    <3>2. u # t /\ standing[u] = "none"
      BY <2>1, <3>1 DEF RequestsAreLegal
    <3> QED
      BY <3>2, WritesFrame
  <2>3. Reserves \cup Restocks \cup Adjusts \subseteq Tx!Txs
    BY DEF Tx!Txs
  <2>4. \A u \in Tx!Txs : step'[u] = "reservation" =>
            u \in Commits \cup Releases
    BY <2>1 DEF RequestsAreLegal
  <2>5. \A u \in Reserves \cup Restocks : step'[u] = "rows" =>
            qty[u] \in Tx!Amounts
    BY <2>1, <2>3 DEF RequestsAreLegal
  <2>7. \A u \in Adjusts : step'[u] = "rows" => qty[u] \in Corrections
    BY <2>1, <2>3 DEF RequestsAreLegal
  <2> QED
    BY <1>1, <2>2, <2>4, <2>5, <2>7 DEF RequestsAreLegal
<1> QED
  BY <1>2, <1>5, <1>6, <1>7

LEMMA PreparesKeepReads ==
    ASSUME Tx!InventoryTxAssumption, TxInv, NEW t \in Tx!Txs, Prepares(t)
    PROVE  /\ Tx!LocksExclude' /\ RowsAreAsRead'
           /\ ReservationHeld' /\ RequestsAreLegal'
<1> USE DEF TxInv, Tx!TypeOK
<1>1. UNCHANGED Tx!stock /\ \A p \in Tx!Ids : Tx!Row(p)' = Tx!Row(p)
  BY PreparesNothing DEF Tx!Row, Tx!stock
<1>2. CASE Tx!Begin(t)
  <2> USE <1>2
  <2>1. Tx!LocksExclude'
    BY DEF Tx!Begin, Tx!LocksExclude
  <2>2. RowsAreAsRead'
    <3>1. /\ step[t] = "idle" /\ UNCHANGED <<view, locks>>
          /\ \/ step' = [step EXCEPT ![t] = "reservation"] /\
                    UNCHANGED <<qty, todo>>
             \/ \E q : Tx!Start(t, q)
      BY DEF Tx!Begin
    <3>2. CASE step' = [step EXCEPT ![t] = "reservation"] /\
                   UNCHANGED <<qty, todo>>
      <4>1. \A u \in Tx!Txs : step'[u] = "rows" => step[u] = "rows"
        BY <3>2
      <4> QED
        BY <1>1, <3>1, <3>2, <4>1 DEF RowsAreAsRead
    <3>3. CASE \E q : Tx!Start(t, q)
      <4>1. PICK q : Tx!Start(t, q)
        BY <3>3
      <4>2. /\ qty'[t] = q /\ todo'[t] = {p \in Tx!Ids : q[p] # 0}
            /\ \A u \in Tx!Txs : u # t =>
                   /\ qty'[u] = qty[u] /\ todo'[u] = todo[u]
                                          /\ step'[u] = step[u]
        BY <4>1 DEF Tx!Start
      <4>3. \A p \in Tx!Ids : ~(qty'[t][p] # 0 /\ p \notin todo'[t])
        BY <4>2
      <4> QED
        BY <1>1, <3>1, <4>2, <4>3 DEF RowsAreAsRead
    <3> QED
      BY <3>1, <3>2, <3>3
  <2>3. ReservationHeld'
    <3> SUFFICES ASSUME NEW u \in Commits \cup Releases,
                        step'[u] \in {"reservation", "rows"}
                 PROVE  /\ aim'[u] \in Reserves
                        /\ step'[u] = "rows" =>
                                 /\ standing'[aim'[u]] = "held"
                                 /\ qty'[u] = items'[aim'[u]]
                                 /\ <<aim'[u], "update">> \in locks'[u]
      BY DEF ReservationHeld
    <3>1. u \in Tx!Txs
      BY DEF Tx!Txs
    <3>2. CASE u = t
      <4>1. u \notin Reserves /\ u \notin Restocks /\ u \notin Adjusts
        BY <3>1, Kinds
      <4>2. /\ \E r \in Reserves : aim' = [aim EXCEPT ![t] = r]
            /\ step' = [step EXCEPT ![t] = "reservation"]
        BY <3>2, <4>1 DEF Tx!Begin
      <4>3. aim'[t] \in Reserves /\ step'[t] = "reservation"
        BY <4>2
      <4> QED
        BY <3>2, <4>3
    <3>3. CASE u # t
      <4>1. /\ aim'[u] = aim[u] /\ qty'[u] = qty[u] /\ step'[u] = step[u]
            /\ locks' = locks
        BY <3>1, <3>3 DEF Tx!Begin, Tx!Start
      <4> QED
        BY <1>1, <4>1 DEF ReservationHeld, Tx!stock
    <3> QED
      BY <3>2, <3>3
  <2>4. RequestsAreLegal'
    <3>1. \A u \in Tx!Txs : u # t => step'[u] = step[u] /\ qty'[u] = qty[u]
      BY DEF Tx!Begin, Tx!Start
    <3>2. Reserves \cup Restocks \cup Adjusts \subseteq Tx!Txs
      BY DEF Tx!Txs
    <3>3. step[t] = "idle" /\ standing' = standing
      BY <1>1 DEF Tx!Begin, Tx!stock
    <3>4. /\ step'[t] = "reservation" => t \in Commits \cup Releases
          /\ t \in Reserves \cup Restocks /\ step'[t] = "rows" =>
                 qty'[t] \in Tx!Amounts
          /\ t \in Adjusts /\ step'[t] = "rows" => qty'[t] \in Corrections
      <4>1. t \in Tx!Txs
        OBVIOUS
      <4>2. CASE t \in Reserves \cup Restocks /\
                     \E q \in Tx!Amounts : Tx!Start(t, q)
        BY <4>2, Kinds DEF Tx!Start
      <4>3. CASE t \in Adjusts /\ \E q \in Corrections : Tx!Start(t, q)
        BY <4>3, Kinds DEF Tx!Start
      <4>4. CASE /\ t \in Commits \cup Releases
                 /\ step' = [step EXCEPT ![t] = "reservation"]
        BY <4>4, Kinds
      <4>5. \A p \in Tx!Ids, d \in {-MaxQty, MaxQty} :
                [Tx!None EXCEPT ![p] = d] \in Corrections
        BY CorrectionsAre, Zenon
      <4> QED
        BY <4>2, <4>3, <4>4, <4>5 DEF Tx!Begin
    <3>5. \A u \in Reserves : step'[u] # "ended" => standing'[u] = "none"
      BY <3>1, <3>2, <3>3 DEF RequestsAreLegal
    <3>6. \A u \in Tx!Txs : step'[u] = "reservation" =>
              u \in Commits \cup Releases
      BY <3>1, <3>4 DEF RequestsAreLegal
    <3>7. \A u \in Reserves \cup Restocks : step'[u] = "rows" =>
              qty'[u] \in Tx!Amounts
      BY <3>1, <3>2, <3>4 DEF RequestsAreLegal
    <3>8. \A u \in Adjusts : step'[u] = "rows" => qty'[u] \in Corrections
      <4> SUFFICES ASSUME NEW u \in Adjusts, step'[u] = "rows"
                   PROVE  qty'[u] \in Corrections
        OBVIOUS
      <4>1. CASE u = t
        BY <3>4, <4>1
      <4>2. CASE u # t
        <5>1. step[u] = "rows" /\ qty'[u] = qty[u]
          BY <3>1, <3>2, <4>2
        <5> QED
          BY <5>1 DEF RequestsAreLegal
      <4> QED
        BY <4>1, <4>2
    <3> QED
      BY <3>5, <3>6, <3>7, <3>8 DEF RequestsAreLegal
  <2> QED
    BY <2>1, <2>2, <2>3, <2>4
<1>3. CASE /\ Tx!SelectReservation(t) /\ standing[aim[t]] = "held"
           /\ Tx!LockReservation(t) /\ Tx!Start(t, items[aim[t]])
           /\ UNCHANGED <<Tx!stock, aim, view>>
  <2> USE <1>3
  <2>1. Tx!LocksExclude'
    BY LockKeepsExclusion DEF Tx!LockReservation
  <2>2. /\ step[t] = "reservation" /\ aim[t] \in Reserves
        /\ t \in Commits \cup Releases
    BY DEF Tx!SelectReservation, RequestsAreLegal, ReservationHeld
  <2>3. /\ qty'[t] = items[aim[t]]
        /\ todo'[t] = {p \in Tx!Ids : items[aim[t]][p] # 0}
        /\ \A u \in Tx!Txs : u # t => /\ qty'[u] = qty[u] /\ todo'[u] = todo[u]
                                      /\ step'[u] = step[u]
                                      /\ locks'[u] = locks[u]
        /\ <<aim[t], "update">> \in locks'[t]
    BY DEF Tx!Start, Tx!LockReservation, Tx!Lock
  <2>4. RowsAreAsRead'
    <3>1. \A p \in Tx!Ids : ~(qty'[t][p] # 0 /\ p \notin todo'[t])
      BY <2>3
    <3> QED
      BY <1>1, <2>3, <3>1 DEF RowsAreAsRead
  <2>5. ReservationHeld'
    <3> SUFFICES ASSUME NEW u \in Commits \cup Releases,
                        step'[u] \in {"reservation", "rows"}
                 PROVE  /\ aim[u] \in Reserves
                        /\ step'[u] = "rows" =>
                                 /\ standing[aim[u]] = "held"
                                 /\ qty'[u] = items[aim[u]]
                                 /\ <<aim[u], "update">> \in locks'[u]
      BY DEF ReservationHeld, Tx!stock
    <3>1. u \in Tx!Txs
      BY DEF Tx!Txs
    <3>2. CASE u = t
      BY <2>2, <2>3, <3>2
    <3>3. CASE u # t
      BY <2>3, <3>1, <3>3 DEF ReservationHeld
    <3> QED
      BY <3>2, <3>3
  <2>6. RequestsAreLegal'
    <3>1. t \notin Reserves \cup Restocks /\ t \notin Adjusts
      BY <2>2, Kinds
    <3>2. \A u \in Tx!Txs : u # t => step'[u] = step[u] /\ qty'[u] = qty[u]
      BY <2>3
    <3>3. Reserves \cup Restocks \cup Adjusts \subseteq Tx!Txs
      BY DEF Tx!Txs
    <3>4. \A u \in Tx!Txs : step'[u] = "reservation" =>
              u \in Commits \cup Releases
      BY <2>2, <3>2 DEF RequestsAreLegal
    <3>5. \A u \in Reserves : step'[u] # "ended" => standing'[u] = "none"
      BY <3>1, <3>2, <3>3 DEF RequestsAreLegal, Tx!stock
    <3>6. \A u \in Reserves \cup Restocks : step'[u] = "rows" =>
              qty'[u] \in Tx!Amounts
      BY <3>1, <3>2, <3>3 DEF RequestsAreLegal
    <3>7. \A u \in Adjusts : step'[u] = "rows" => qty'[u] \in Corrections
      BY <3>1, <3>2, <3>3 DEF RequestsAreLegal
    <3> QED
      BY <3>4, <3>5, <3>6, <3>7 DEF RequestsAreLegal
  <2> QED
    BY <2>1, <2>4, <2>5, <2>6
<1>4. CASE \E p \in Tx!Ids : Tx!Access(t, p)
  <2>1. PICK p \in Tx!Ids : Tx!Access(t, p)
    BY <1>4
  <2>2. Tx!LocksExclude'
    BY <2>1, LockKeepsExclusion DEF Tx!Access, Tx!LockRow
  <2>3. /\ UNCHANGED <<step, aim, qty>> /\ step[t] = "rows"
        /\ view'[t][p] = Tx!Row(p) /\ <<p, "update">> \in locks'[t]
        /\ \A q \in Tx!Ids : q # p => view'[t][q] = view[t][q]
        /\ todo'[t] = todo[t] \ {p}
        /\ \A u \in Tx!Txs : u # t => view'[u] = view[u] /\ todo'[u] = todo[u]
        /\ \A u \in Tx!Txs : locks[u] \subseteq locks'[u]
    BY <2>1 DEF Tx!Access, Tx!LockRow, Tx!Lock, ViewType
  <2>4. RowsAreAsRead'
    <3> SUFFICES ASSUME NEW u \in Tx!Txs, step[u] = "rows", NEW q \in Tx!Ids,
                        qty[u][q] # 0, q \notin todo'[u]
                 PROVE  view'[u][q] = Tx!Row(q) /\
                            <<q, "update">> \in locks'[u]
      BY <1>1, <2>3 DEF RowsAreAsRead
    <3>1. CASE u = t /\ q = p
      BY <2>3, <3>1
    <3>2. CASE u # t \/ q # p
      <4>1. q \notin todo[u] /\ view'[u][q] = view[u][q]
        BY <2>3, <3>2
      <4> QED
        BY <2>3, <4>1 DEF RowsAreAsRead
    <3> QED
      BY <3>1, <3>2
  <2>5. Commits \cup Releases \subseteq Tx!Txs
    BY DEF Tx!Txs
  <2>6. ReservationHeld'
    BY <1>1, <2>3, <2>5 DEF ReservationHeld, Tx!stock
  <2>7. RequestsAreLegal'
    BY <1>1, <2>3 DEF RequestsAreLegal, Tx!stock
  <2> QED
    BY <2>2, <2>4, <2>6, <2>7
<1>5. CASE step[t] \in {"reservation", "rows"} /\ Tx!Rollback(t)
  <2> USE <1>5
  <2>1. Tx!LocksExclude'
    BY ReleaseKeepsExclusion DEF Tx!Rollback, Tx!End
  <2>2. \A u \in Tx!Txs : step'[u] # "ended" =>
            step'[u] = step[u] /\ locks'[u] = locks[u]
    BY DEF Tx!Rollback, Tx!End
  <2>3. UNCHANGED <<aim, qty, todo, view>>
    BY DEF Tx!Rollback
  <2>4. Commits \cup Releases \cup Reserves \cup Restocks \cup Adjusts
            \subseteq Tx!Txs
    BY DEF Tx!Txs
  <2>5. RowsAreAsRead'
    BY <1>1, <2>2, <2>3 DEF RowsAreAsRead
  <2>6. ReservationHeld'
    <3> SUFFICES ASSUME NEW u \in Commits \cup Releases,
                        step'[u] \in {"reservation", "rows"}
                 PROVE  /\ aim[u] \in Reserves
                        /\ step'[u] = "rows" =>
                                 /\ standing[aim[u]] = "held"
                                 /\ qty[u] = items[aim[u]]
                                 /\ <<aim[u], "update">> \in locks'[u]
      BY <1>1, <2>3 DEF ReservationHeld, Tx!stock
    <3>1. step'[u] = step[u] /\ locks'[u] = locks[u]
      BY <2>2, <2>4
    <3> QED
      BY <3>1 DEF ReservationHeld
  <2>7. RequestsAreLegal'
    <3>1. \A u \in Tx!Txs : step'[u] = "reservation" =>
              u \in Commits \cup Releases
      BY <2>2 DEF RequestsAreLegal
    <3>2. \A u \in Reserves : step'[u] # "ended" => standing'[u] = "none"
      BY <1>1, <2>2, <2>4 DEF RequestsAreLegal, Tx!stock
    <3>3. \A u \in Reserves \cup Restocks : step'[u] = "rows" =>
              qty[u] \in Tx!Amounts
      BY <2>2, <2>4 DEF RequestsAreLegal
    <3>4. \A u \in Adjusts : step'[u] = "rows" => qty[u] \in Corrections
      BY <2>2, <2>4 DEF RequestsAreLegal
    <3> QED
      BY <2>3, <3>1, <3>2, <3>3, <3>4 DEF RequestsAreLegal
  <2> QED
    BY <2>1, <2>5, <2>6, <2>7
<1>6. Tx!SelectReservation(t) => step[t] = "reservation"
  BY DEF Tx!SelectReservation
<1> QED
  BY <1>2, <1>3, <1>4, <1>5, <1>6 DEF Prepares, Tx!SelectReservation

LEMMA NextTxInv ==
    Tx!InventoryTxAssumption /\ TxInv /\ [Tx!Next]_(Tx!vars) => TxInv'
<1> SUFFICES ASSUME Tx!InventoryTxAssumption, TxInv, [Tx!Next]_(Tx!vars)
             PROVE  TxInv'
  OBVIOUS
<1>1. ASSUME NEW t \in Tx!Txs, Writes(t) PROVE TxInv'
  <2>1. Stock!StockInv'
    BY <1>1, WritesAreSerial, StockStep DEF TxInv
  <2> QED
    BY <1>1, <2>1, WritesTypeOK, WritesKeepReads, WritesCorrections DEF TxInv
<1>2. ASSUME NEW t \in Tx!Txs, Prepares(t) PROVE TxInv'
  <2>1. Stock!StockInv'
    BY <1>2, PreparesNothing, StockStep DEF TxInv
  <2> QED
    BY <1>2, <2>1, PreparesTypeOK, PreparesKeepReads, PreparesCorrections
       DEF TxInv
<1>3. CASE UNCHANGED Tx!vars
  <2>1. UNCHANGED Tx!stock /\ UNCHANGED <<step, aim, qty, todo, view, locks>>
    BY <1>3 DEF Tx!vars
  <2>2. Stock!StockInv'
    BY <2>1, StockStep DEF TxInv
  <2>3. Tx!TypeOK' /\ ViewType' /\ Tx!LocksExclude' /\ RowsAreAsRead'
    BY <2>1
    DEF TxInv, Tx!TypeOK, ViewType, Tx!LocksExclude, RowsAreAsRead, Tx!Row,
        Tx!stock
  <2>4. ReservationHeld' /\ RequestsAreLegal' /\ CorrectionsBounded'
    BY <2>1 DEF TxInv, ReservationHeld, RequestsAreLegal, CorrectionsBounded,
                Ended, Tx!stock
  <2> QED
    BY <2>2, <2>3, <2>4 DEF TxInv
<1> QED
  BY <1>1, <1>2, <1>3, StepCases DEF Tx!Next

LEMMA NextIsSerial ==
    Tx!InventoryTxAssumption /\ TxInv /\ [Tx!Next]_(Tx!vars)
        => Tx!SerialStep /\ [Stock!Next]_(Stock!vars)
<1> SUFFICES ASSUME Tx!InventoryTxAssumption, TxInv, [Tx!Next]_(Tx!vars)
             PROVE  Tx!SerialStep /\ [Stock!Next]_(Stock!vars)
  OBVIOUS
<1>1. UNCHANGED Tx!stock => UNCHANGED Stock!vars
  BY DEF Tx!stock, Stock!vars
<1>2. ASSUME NEW t \in Tx!Txs, Writes(t)
      PROVE  Tx!OneAtATime!Next /\ Stock!Next
  BY <1>2, WritesAreSerial
<1>3. ASSUME NEW t \in Tx!Txs, Prepares(t)
      PROVE  UNCHANGED Tx!stock
  BY <1>3, PreparesNothing
<1>4. UNCHANGED Tx!vars => UNCHANGED Tx!stock
  BY DEF Tx!vars
<1> QED
  BY <1>1, <1>2, <1>3, <1>4, StepCases DEF Tx!Next, Tx!SerialStep

-----------------------------------------------------------------------------
(* The theorems *)

LEMMA TxInvHolds ==
    ASSUME Tx!InventoryTxAssumption
    PROVE  Tx!Spec => []TxInv
<1>1. Tx!Init => TxInv
  BY InitTxInv
<1>2. TxInv /\ [Tx!Next]_(Tx!vars) => TxInv'
  BY NextTxInv
<1> QED
  BY <1>1, <1>2, PTL DEF Tx!Spec

\* Every variable keeps its type: no count falls below zero, whichever
\* transactions overlap and wherever they stop.
THEOREM InventoryTxTypeCorrect ==
    ASSUME Tx!InventoryTxAssumption
    PROVE  Tx!Spec => []Tx!TypeOK
<1>1. TxInv => Tx!TypeOK
  BY DEF TxInv
<1> QED
  BY <1>1, TxInvHolds, PTL

\* What a transaction has read it still finds when it writes: no update of
\* another one is lost, and a reservation it resolves is still held.
THEOREM NoLostUpdate ==
    ASSUME Tx!InventoryTxAssumption
    PROVE  Tx!Spec => [](RowsAreAsRead /\ ReservationHeld)
<1>1. TxInv => RowsAreAsRead /\ ReservationHeld
  BY DEF TxInv
<1> QED
  BY <1>1, TxInvHolds, PTL

\* Every step of the transactions is an operation of Inventory, whole, or
\* changes nothing that can be read.
THEOREM InventoryTxSerial ==
    ASSUME Tx!InventoryTxAssumption
    PROVE  Tx!Spec => [][Tx!SerialStep]_(Tx!vars)
<1>1. TxInv /\ [Tx!Next]_(Tx!vars) => [Tx!SerialStep]_(Tx!vars)
  BY NextIsSerial
<1> QED
  BY <1>1, TxInvHolds, PTL DEF Tx!Spec

\* The statements of reserve, commit, release, adjustStock and restock, under
\* the row locks they take, implement the atomic operations of Inventory.
THEOREM InventoryTxImplementsInventory ==
    ASSUME Tx!InventoryTxAssumption
    PROVE  Tx!Spec => Tx!OneAtATime!Spec
<1>1. Tx!Init => Tx!OneAtATime!Init
  BY 
  DEF Tx!Init, Tx!OneAtATime!Init, Tx!OneAtATime!Reasons,
      Tx!OneAtATime!NoItems, Tx!None
<1>2. UNCHANGED Tx!stock => UNCHANGED Tx!OneAtATime!vars
  BY DEF Tx!stock, Tx!OneAtATime!vars
<1>3. TxInv /\ [Tx!Next]_(Tx!vars)
        => [Tx!OneAtATime!Next]_(Tx!OneAtATime!vars)
  BY <1>2, NextIsSerial DEF Tx!SerialStep
<1> QED
  BY <1>1, <1>3, TxInvHolds, PTL DEF Tx!Spec, Tx!OneAtATime!Spec

LEMMA StockSpec ==
    ASSUME Tx!InventoryTxAssumption
    PROVE  Tx!Spec => Stock!Spec
<1>1. Tx!Init => Stock!Init
  BY AmountsAreRequests DEF Tx!Init, Stock!Init, Stock!Reasons
<1>2. TxInv /\ [Tx!Next]_(Tx!vars) => [Stock!Next]_(Stock!vars)
  BY NextIsSerial
<1> QED
  BY <1>1, <1>2, TxInvHolds, PTL DEF Tx!Spec, Stock!Spec

\* So what is proved of the operations of Inventory holds of their statements:
\* the counters are exact, the ledger explains them, the first outcome of a
\* reservation stands, and a product that sells out is queued for the index.
THEOREM InventoryTxKeepsStock ==
    ASSUME Tx!InventoryTxAssumption
    PROVE  Tx!Spec => /\ []Stock!ReservedMatchesHeld
                      /\ []Stock!StockConserved
                      /\ []Stock!LedgerExplainsAvailable
                      /\ Stock!ResolvedOnce
                      /\ Stock!FacetChangeIsQueued
<1>1. Tx!Spec => Stock!Spec
  BY StockSpec
<1>2. Stock!Spec => [](Stock!ReservedMatchesHeld /\ Stock!StockConserved)
  BY Stock!StockCorrect, StockAssumptions
<1>3. Stock!Spec => []Stock!LedgerExplainsAvailable
  BY Stock!LedgerCorrect, StockAssumptions
<1>4. Stock!Spec => Stock!ResolvedOnce
  BY Stock!OutcomeFinal, StockAssumptions
<1>5. Stock!Spec => Stock!FacetChangeIsQueued
  BY Stock!FacetCorrect, StockAssumptions
<1> QED
  BY <1>1, <1>2, <1>3, <1>4, <1>5, PTL

-----------------------------------------------------------------------------
(* Retries under a key (Idempotency) *)

\* Who is not at work: before its claim, after somebody else's, or dead.
Aside(c) == at[c] \in {"idle", "claim", "get", "answered", "dead"}

\* Until a claim is given up or lapses the entry tells of the one attempt: so
\* long as there is none nobody has found one, and from then on all callers
\* but one stay aside.
EntryTells ==
    ~lost =>
        /\ entry.state = "absent" =>
               /\ done = {}
               /\ \A c \in Claimants : at[c] \in {"idle", "claim", "dead"}
        /\ entry.state # "absent" =>
               \E w \in Claimants :
                   /\ done \subseteq {w}
                   /\ \A c \in Claimants \ {w} : Aside(c)

\* Every request has a body, and only who has worked stores a result, which is
\* one for the body of its request.
Worked ==
    /\ \A c \in Claimants :
           /\ at[c] # "idle" => body[c] \in Bodies
           /\ at[c] = "idle" => told[c] = "none" /\ c \notin done
           /\ at[c] = "complete" => c \in done
    /\ done \subseteq Claimants
    /\ entry.state = "done" => body[entry.result] = entry.body
    /\ Store!AnswersAreTrue

-----------------------------------------------------------------------------
(* Types and answers, whatever fails *)

LEMMA EntryFacts ==
    /\ Store!Absent \in Store!Entries /\ Store!Absent.state = "absent"
    /\ \A b \in Bodies :
           Store!InFlight(b) \in Store!Entries /\
               Store!InFlight(b).state = "in flight"
    /\ \A b \in Bodies, c \in Claimants :
           /\ Store!Done(b, c) \in Store!Entries
           /\ Store!Done(b, c).state = "done"
           /\ Store!Done(b, c).result = c
           /\ Store!Done(b, c).body = b
    /\ \A e \in Store!Entries :
           /\ e.state \in {"absent", "in flight", "done"}
           /\ e.state = "absent" => e = Store!Absent
           /\ e.state = "done" => e.result \in Claimants
<1>1. /\ Store!Absent.state = "absent"
      /\ \A b : Store!InFlight(b).state = "in flight"
      /\ \A b, c : /\ Store!Done(b, c).state = "done"
                   /\ Store!Done(b, c).result = c
                   /\ Store!Done(b, c).body = b
  BY DEF Store!Absent, Store!InFlight, Store!Done
<1>2. /\ Store!Absent \in Store!Entries
      /\ \A b \in Bodies : Store!InFlight(b) \in Store!Entries
      /\ \A b \in Bodies, c \in Claimants : Store!Done(b, c) \in Store!Entries
  BY DEF Store!Entries
<1>3. ASSUME NEW e \in Store!Entries
      PROVE  \/ e = Store!Absent
             \/ \E b \in Bodies : e = Store!InFlight(b)
             \/ \E b \in Bodies, c \in Claimants : e = Store!Done(b, c)
  BY DEF Store!Entries
<1>4. ASSUME NEW e \in Store!Entries
      PROVE  /\ e.state \in {"absent", "in flight", "done"}
             /\ e.state = "absent" => e = Store!Absent
             /\ e.state = "done" => e.result \in Claimants
  <2>1. CASE e = Store!Absent
    <3>1. e.state = "absent"
      BY <1>1, <2>1
    <3> QED
      BY <2>1, <3>1
  <2>2. CASE \E b \in Bodies : e = Store!InFlight(b)
    <3>1. e.state = "in flight"
      BY <1>1, <2>2
    <3> QED
      BY <3>1
  <2>3. CASE \E b \in Bodies, c \in Claimants : e = Store!Done(b, c)
    <3>1. PICK b \in Bodies, c \in Claimants : e = Store!Done(b, c)
      BY <2>3
    <3>2. e.state = "done" /\ e.result = c
      BY <1>1, <3>1
    <3> QED
      BY <3>2
  <2> QED
    BY <1>3, <2>1, <2>2, <2>3
<1> QED
  BY <1>1, <1>2, <1>4, Zenon

LEMMA EntryGotoType ==
    ASSUME Store!TypeOK, NEW c \in Claimants, NEW l, Store!Goto(c, l),
           l \in {"claim", "get", "work", "complete", "abort", "answered",
                  "dead"}
    PROVE  /\ at' \in [Claimants -> {"idle", "claim", "get", "work",
                                     "complete", "abort", "answered", "dead"}]
           /\ at'[c] = l
           /\ \A d \in Claimants : d # c => at'[d] = at[d]
BY DEF Store!Goto, Store!TypeOK

LEMMA AnswerType ==
    ASSUME Store!TypeOK, NEW c \in Claimants, NEW a, Store!Answer(c, a),
           a \in {"none", "created", "replayed", "conflict", "other body",
                  "failed"}
    PROVE  /\ told' \in [Claimants -> {"none", "created", "replayed",
                                       "conflict", "other body", "failed"}]
           /\ told'[c] = a
           /\ \A d \in Claimants : d # c => told'[d] = told[d]
BY DEF Store!Answer, Store!TypeOK

\* What is to show of a step of one caller: the columns keep their types, the
\* other callers are left alone, and what the caller and the key are told is
\* of work that was done.
TypesStay ==
    /\ at' \in [Claimants -> {"idle", "claim", "get", "work", "complete",
                              "abort", "answered", "dead"}]
    /\ body' \in [Claimants -> Bodies \cup {Store!Nobody}]
    /\ told' \in [Claimants -> {"none", "created", "replayed", "conflict",
                                "other body", "failed"}]
    /\ entry' \in Store!Entries
    /\ lost' \in BOOLEAN

OthersStay(c) ==
    /\ \A d \in Claimants : d # c => /\ at'[d] = at[d]
                                     /\ body'[d] = body[d]
                                     /\ told'[d] = told[d]
    /\ done \subseteq done' /\ done' \subseteq done \cup {c}
    /\ c \in done => body'[c] = body[c]

ToldOfWork(c) ==
    /\ at'[c] # "idle" /\ body'[c] \in Bodies
    /\ at'[c] = "complete" => c \in done'
    /\ told'[c] = "created" => c \in done'
    /\ told'[c] = "replayed" => \E d \in done' : body'[d] = body'[c]

KeyTold ==
    entry'.state = "done" => /\ entry'.result \in done'
                             /\ body'[entry'.result] = entry'.body

LEMMA OneCallerStep ==
    ASSUME Store!TypeOK, Worked, NEW c \in Claimants,
           TypesStay, OthersStay(c), ToldOfWork(c), KeyTold
    PROVE  Store!TypeOK' /\ Worked'
<1>1. Store!TypeOK'
  BY DEF Store!TypeOK, TypesStay, KeyTold
<1>2. done' \subseteq Claimants
  BY DEF Worked, OthersStay
<1>3. \A d \in done : body'[d] = body[d]
  BY DEF Worked, OthersStay
<1>4. ASSUME NEW d \in Claimants
      PROVE  /\ at'[d] # "idle" => body'[d] \in Bodies
             /\ at'[d] = "idle" => told'[d] = "none" /\ d \notin done'
             /\ at'[d] = "complete" => d \in done'
             /\ told'[d] = "created" => d \in done'
             /\ told'[d] = "replayed" => \E e \in done' : body'[e] = body'[d]
  <2>1. CASE d = c
    BY <2>1 DEF ToldOfWork
  <2>2. CASE d # c
    <3>1. at'[d] = at[d] /\ body'[d] = body[d] /\ told'[d] = told[d]
      BY <2>2 DEF OthersStay
    <3>2. done \subseteq done' /\ (d \in done' <=> d \in done)
      BY <2>2 DEF OthersStay
    <3>3. told[d] = "replayed" => \E e \in done : body[e] = body[d]
      BY DEF Worked, Store!AnswersAreTrue
    <3>4. told'[d] = "replayed" => \E e \in done' : body'[e] = body'[d]
      BY <1>3, <3>1, <3>2, <3>3
    <3>5. told[d] = "created" => d \in done
      BY DEF Worked, Store!AnswersAreTrue
    <3>6. /\ at[d] # "idle" => body[d] \in Bodies
          /\ at[d] = "idle" => told[d] = "none" /\ d \notin done
          /\ at[d] = "complete" => d \in done
      BY DEF Worked
    <3> QED
      BY <3>1, <3>2, <3>4, <3>5, <3>6
  <2> QED
    BY <2>1, <2>2
<1>5. Store!AnswersAreTrue'
  BY <1>4 DEF Store!AnswersAreTrue
<1> QED
  BY <1>1, <1>2, <1>4, <1>5 DEF Worked, KeyTold

LEMMA TypeStep ==
    ASSUME Store!TypeOK, Worked, [Store!Next]_(Store!vars)
    PROVE  Store!TypeOK' /\ Worked'
<1>1. /\ at \in [Claimants -> {"idle", "claim", "get", "work", "complete",
                               "abort", "answered", "dead"}]
      /\ body \in [Claimants -> Bodies \cup {Store!Nobody}]
      /\ told \in [Claimants -> {"none", "created", "replayed", "conflict",
                                 "other body", "failed"}]
      /\ entry \in Store!Entries /\ lost \in BOOLEAN
      /\ entry.state = "done" => entry.result \in done
  BY DEF Store!TypeOK
<1>2. /\ done \subseteq Claimants
      /\ entry.state = "done" => body[entry.result] = entry.body
      /\ \A c \in Claimants :
             /\ at[c] # "idle" => body[c] \in Bodies
             /\ at[c] = "idle" => told[c] = "none" /\ c \notin done
             /\ at[c] = "complete" => c \in done
             /\ told[c] = "created" => c \in done
             /\ told[c] = "replayed" => \E d \in done : body[d] = body[c]
  BY DEF Worked, Store!AnswersAreTrue
<1>3. ASSUME NEW c \in Claimants, Store!Request(c)
      PROVE  Store!TypeOK' /\ Worked'
  <2>1. /\ body' \in [Claimants -> Bodies \cup {Store!Nobody}]
        /\ body'[c] \in Bodies
        /\ \A d \in Claimants : d # c => body'[d] = body[d]
    BY <1>1, <1>3 DEF Store!Request
  <2>2. /\ UNCHANGED <<entry, told, done, lost>> /\ Store!Goto(c, "claim")
        /\ at[c] = "idle"
    BY <1>3 DEF Store!Request
  <2>3. told[c] = "none" /\ c \notin done
    BY <1>2, <2>2
  <2>4. entry'.state = "done" => /\ entry'.result \in done'
                                 /\ body'[entry'.result] = entry'.body
    <3> SUFFICES ASSUME entry.state = "done"
                 PROVE  /\ entry.result \in done
                        /\ body'[entry.result] = entry.body
      BY <2>2
    <3>1. entry.result \in done /\ entry.result # c
      BY <1>1, <2>3
    <3> QED
      BY <1>2, <2>1, <3>1
  <2>5. TypesStay
    BY <1>1, <2>1, <2>2, EntryGotoType DEF TypesStay
  <2>6. OthersStay(c)
    BY <2>1, <2>2, <2>3, EntryGotoType DEF OthersStay
  <2>7. ToldOfWork(c)
    BY <2>1, <2>2, <2>3, EntryGotoType DEF ToldOfWork
  <2>8. KeyTold
    BY <2>4 DEF KeyTold
  <2> QED
    BY <2>5, <2>6, <2>7, <2>8, OneCallerStep
<1>4. ASSUME NEW c \in Claimants, Store!SetNX(c)
      PROVE  Store!TypeOK' /\ Worked'
  <2>1. /\ at[c] = "claim" /\ UNCHANGED <<body, told, done, lost>>
        /\ \/ entry' = Store!InFlight(body[c]) /\ Store!Goto(c, "work")
           \/ entry' = entry /\ Store!Goto(c, "get")
    BY <1>4 DEF Store!SetNX
  <2>2. body[c] \in Bodies
    BY <1>2, <2>1
  <2>3. /\ entry' \in Store!Entries
        /\ entry' = entry \/ entry'.state # "done"
    BY <1>1, <2>1, <2>2, EntryFacts
  <2>4. /\ at' \in [Claimants -> {"idle", "claim", "get", "work", "complete",
                                  "abort", "answered", "dead"}]
        /\ at'[c] # "idle" /\ at'[c] # "complete"
        /\ \A d \in Claimants : d # c => at'[d] = at[d]
    BY <2>1, EntryGotoType
  <2>5. TypesStay
    BY <1>1, <2>1, <2>3, <2>4 DEF TypesStay
  <2>6. OthersStay(c)
    BY <2>1, <2>4 DEF OthersStay
  <2>7. ToldOfWork(c)
    BY <1>2, <2>1, <2>2, <2>4 DEF ToldOfWork
  <2>8. KeyTold
    BY <1>1, <1>2, <2>1, <2>3 DEF KeyTold
  <2> QED
    BY <2>5, <2>6, <2>7, <2>8, OneCallerStep
<1>5. ASSUME NEW c \in Claimants, Store!Get(c)
      PROVE  Store!TypeOK' /\ Worked'
  <2>1. UNCHANGED <<entry, body, done, lost>> /\ at[c] = "get"
    BY <1>5 DEF Store!Get
  <2>2. body[c] \in Bodies
    BY <1>2, <2>1
  <2>3. CASE Store!Goto(c, "work") /\ told' = told
    <3>1. TypesStay
      BY <1>1, <2>1, <2>3, EntryGotoType DEF TypesStay
    <3>2. OthersStay(c)
      BY <2>1, <2>3, EntryGotoType DEF OthersStay
    <3>3. ToldOfWork(c)
      BY <1>2, <2>1, <2>2, <2>3, EntryGotoType DEF ToldOfWork
    <3>4. KeyTold
      BY <1>1, <1>2, <2>1 DEF KeyTold
    <3> QED
      BY <3>1, <3>2, <3>3, <3>4, OneCallerStep
  <2>4. CASE entry # Store!Absent /\ Store!Goto(c, "answered")
    <3>1. entry.state \in {"in flight", "done"}
      BY <1>1, <2>4, EntryFacts
    <3>2. \/ ~Store!SameBody(c) /\ Store!Answer(c, "other body")
          \/ entry.state = "in flight" /\ Store!Answer(c, "conflict")
          \/ /\ entry.state = "done" /\ Store!SameBody(c)
             /\ Store!Answer(c, "replayed")
      BY <1>5, <2>4, <3>1 DEF Store!Get, Store!Answer
    <3>3. PICK a \in {"other body", "conflict", "replayed"} :
              /\ Store!Answer(c, a)
              /\ a = "replayed" => entry.state = "done" /\ entry.body = body[c]
      BY <3>2 DEF Store!SameBody
    <3>4. /\ told' \in [Claimants -> {"none", "created", "replayed",
                                      "conflict", "other body", "failed"}]
          /\ told'[c] = a
          /\ \A d \in Claimants : d # c => told'[d] = told[d]
      BY <3>3, AnswerType
    <3>5. told'[c] = "replayed" => \E d \in done' : body'[d] = body'[c]
      BY <1>1, <1>2, <2>1, <3>3, <3>4
    <3>6. TypesStay
      BY <1>1, <2>1, <2>4, <3>4, EntryGotoType DEF TypesStay
    <3>7. OthersStay(c)
      BY <2>1, <2>4, <3>4, EntryGotoType DEF OthersStay
    <3>8. ToldOfWork(c)
      <4>1. at'[c] = "answered" /\ body'[c] \in Bodies
        BY <2>1, <2>2, <2>4, EntryGotoType
      <4>2. told'[c] # "created"
        BY <3>4
      <4> QED
        BY <3>5, <4>1, <4>2 DEF ToldOfWork
    <3>9. KeyTold
      BY <1>1, <1>2, <2>1 DEF KeyTold
    <3> QED
      BY <3>6, <3>7, <3>8, <3>9, OneCallerStep
  <2> QED
    BY <1>5, <2>3, <2>4 DEF Store!Get
<1>6. ASSUME NEW c \in Claimants, Store!Work(c)
      PROVE  Store!TypeOK' /\ Worked'
  <2>1. UNCHANGED <<entry, body, told, lost>> /\ at[c] = "work"
    BY <1>6 DEF Store!Work
  <2>2. body[c] \in Bodies
    BY <1>2, <2>1
  <2>3. CASE Store!Goto(c, "complete") /\ done' = done \cup {c}
    <3>1. TypesStay
      BY <1>1, <2>1, <2>3, EntryGotoType DEF TypesStay
    <3>2. OthersStay(c)
      BY <2>1, <2>3, EntryGotoType DEF OthersStay
    <3>3. ToldOfWork(c)
      BY <1>2, <2>1, <2>2, <2>3, EntryGotoType DEF ToldOfWork
    <3>4. KeyTold
      BY <1>1, <1>2, <2>1, <2>3 DEF KeyTold
    <3> QED
      BY <3>1, <3>2, <3>3, <3>4, OneCallerStep
  <2>4. CASE Store!Goto(c, "abort") /\ done' = done
    <3>1. TypesStay
      BY <1>1, <2>1, <2>4, EntryGotoType DEF TypesStay
    <3>2. OthersStay(c)
      BY <2>1, <2>4, EntryGotoType DEF OthersStay
    <3>3. ToldOfWork(c)
      BY <1>2, <2>1, <2>2, <2>4, EntryGotoType DEF ToldOfWork
    <3>4. KeyTold
      BY <1>1, <1>2, <2>1, <2>4 DEF KeyTold
    <3> QED
      BY <3>1, <3>2, <3>3, <3>4, OneCallerStep
  <2> QED
    BY <1>6, <2>3, <2>4 DEF Store!Work
<1>7. ASSUME NEW c \in Claimants, Store!Complete(c)
      PROVE  Store!TypeOK' /\ Worked'
  <2>1. /\ UNCHANGED <<body, done, lost>> /\ at[c] = "complete"
        /\ entry' = entry \/ entry' = Store!Done(body[c], c)
    BY <1>7 DEF Store!Complete
  <2>2. body[c] \in Bodies /\ c \in done
    BY <1>2, <2>1
  <2>3. /\ entry' \in Store!Entries
        /\ entry'.state = "done" => /\ entry'.result \in done'
                                    /\ body'[entry'.result] = entry'.body
    <3>1. CASE entry' = entry
      BY <1>1, <1>2, <2>1, <3>1
    <3>2. CASE entry' = Store!Done(body[c], c)
      <4>1. /\ entry' \in Store!Entries
            /\ entry'.result = c /\ entry'.body = body[c]
        BY <2>2, <3>2, EntryFacts
      <4> QED
        BY <2>1, <2>2, <4>1
    <3> QED
      BY <2>1, <3>1, <3>2
  <2>4. CASE Store!Goto(c, "answered") /\ Store!Answer(c, "created")
    <3>1. TypesStay
      BY <1>1, <2>1, <2>3, <2>4, EntryGotoType, AnswerType DEF TypesStay
    <3>2. OthersStay(c)
      BY <2>1, <2>4, EntryGotoType, AnswerType DEF OthersStay
    <3>3. ToldOfWork(c)
      <4>1. at'[c] = "answered" /\ body'[c] \in Bodies /\ c \in done'
        BY <2>1, <2>2, <2>4, EntryGotoType
      <4>2. told'[c] = "created"
        BY <2>4, AnswerType
      <4> QED
        BY <4>1, <4>2 DEF ToldOfWork
    <3>4. KeyTold
      BY <2>3 DEF KeyTold
    <3> QED
      BY <3>1, <3>2, <3>3, <3>4, OneCallerStep
  <2>5. CASE Store!Goto(c, "abort") /\ told' = told
    <3>1. TypesStay
      BY <1>1, <2>1, <2>3, <2>5, EntryGotoType DEF TypesStay
    <3>2. OthersStay(c)
      BY <2>1, <2>5, EntryGotoType DEF OthersStay
    <3>3. ToldOfWork(c)
      BY <1>2, <2>1, <2>2, <2>5, EntryGotoType DEF ToldOfWork
    <3>4. KeyTold
      BY <2>3 DEF KeyTold
    <3> QED
      BY <3>1, <3>2, <3>3, <3>4, OneCallerStep
  <2> QED
    BY <1>7, <2>4, <2>5 DEF Store!Complete
<1>8. ASSUME NEW c \in Claimants, Store!Abort(c)
      PROVE  Store!TypeOK' /\ Worked'
  <2>1. /\ Store!Goto(c, "answered") /\ Store!Answer(c, "failed")
        /\ UNCHANGED <<body, done>> /\ at[c] = "abort"
        /\ \/ entry' = entry /\ lost' = lost
           \/ entry' = Store!Absent /\ lost' = TRUE
    BY <1>8 DEF Store!Abort
  <2>2. body[c] \in Bodies
    BY <1>2, <2>1
  <2>3. /\ entry' \in Store!Entries /\ lost' \in BOOLEAN
        /\ entry' = entry \/ entry'.state # "done"
    BY <1>1, <2>1, EntryFacts
  <2>4. TypesStay
    BY <1>1, <2>1, <2>3, EntryGotoType, AnswerType DEF TypesStay
  <2>5. OthersStay(c)
    BY <2>1, EntryGotoType, AnswerType DEF OthersStay
  <2>6. ToldOfWork(c)
    <3>1. at'[c] = "answered" /\ body'[c] \in Bodies
      BY <2>1, <2>2, EntryGotoType
    <3>2. told'[c] = "failed"
      BY <2>1, AnswerType
    <3> QED
      BY <3>1, <3>2 DEF ToldOfWork
  <2>7. KeyTold
    BY <1>1, <1>2, <2>1, <2>3 DEF KeyTold
  <2> QED
    BY <2>4, <2>5, <2>6, <2>7, OneCallerStep
<1>9. ASSUME NEW c \in Claimants, Store!Crash(c)
      PROVE  Store!TypeOK' /\ Worked'
  <2>1. /\ Store!Goto(c, "dead") /\ at[c] # "idle"
        /\ UNCHANGED <<entry, body, told, done, lost>>
    BY <1>9 DEF Store!Crash
  <2>2. body[c] \in Bodies
    BY <1>2, <2>1
  <2>3. TypesStay
    BY <1>1, <2>1, EntryGotoType DEF TypesStay
  <2>4. OthersStay(c)
    BY <2>1, EntryGotoType DEF OthersStay
  <2>5. ToldOfWork(c)
    BY <1>2, <2>1, <2>2, EntryGotoType DEF ToldOfWork
  <2>6. KeyTold
    BY <1>1, <1>2, <2>1 DEF KeyTold
  <2> QED
    BY <2>3, <2>4, <2>5, <2>6, OneCallerStep
<1>10. CASE Store!Expire
  <2>1. /\ UNCHANGED <<at, body, told, done>>
        /\ entry' = Store!Absent /\ lost' = TRUE
    BY <1>10 DEF Store!Expire
  <2>2. entry' \in Store!Entries /\ entry'.state # "done" /\ lost' \in BOOLEAN
    BY <2>1, EntryFacts
  <2>3. Store!TypeOK'
    BY <1>1, <2>1, <2>2 DEF Store!TypeOK
  <2>4. Store!AnswersAreTrue'
    BY <1>2, <2>1 DEF Store!AnswersAreTrue
  <2> QED
    BY <1>2, <2>1, <2>2, <2>3, <2>4 DEF Worked
<1>11. CASE UNCHANGED Store!vars
  <2>1. UNCHANGED <<entry, at, body, told, done, lost>>
    BY <1>11 DEF Store!vars
  <2>2. Store!TypeOK'
    BY <1>1, <2>1 DEF Store!TypeOK
  <2>3. Store!AnswersAreTrue'
    BY <1>2, <2>1 DEF Store!AnswersAreTrue
  <2> QED
    BY <1>2, <2>1, <2>2, <2>3 DEF Worked
<1>12. CASE \E c \in Claimants : Store!Request(c) \/ Store!Step(c)
                                     \/ Store!Crash(c)
  BY <1>3, <1>4, <1>5, <1>6, <1>7, <1>8, <1>9, <1>12 DEF Store!Step
<1> QED
  BY <1>10, <1>11, <1>12 DEF Store!Next

LEMMA EntryInitTypeOK == Store!Init => Store!TypeOK /\ Worked
<1> SUFFICES ASSUME Store!Init
             PROVE  Store!TypeOK /\ Worked
  OBVIOUS
<1>1. /\ at = [c \in Claimants |-> "idle"] /\ done = {} /\ lost = FALSE
      /\ body = [c \in Claimants |-> Store!Nobody]
      /\ told = [c \in Claimants |-> "none"]
      /\ entry = Store!Absent
  BY DEF Store!Init
<1>2. entry \in Store!Entries /\ entry.state = "absent"
  BY <1>1, EntryFacts
<1>3. /\ at \in [Claimants -> {"idle", "claim", "get", "work", "complete",
                               "abort", "answered", "dead"}]
      /\ body \in [Claimants -> Bodies \cup {Store!Nobody}]
      /\ told \in [Claimants -> {"none", "created", "replayed", "conflict",
                                 "other body", "failed"}]
      /\ lost \in BOOLEAN
  BY <1>1
<1>4. \A c \in Claimants : at[c] = "idle" /\ told[c] = "none" /\ c \notin done
  BY <1>1
<1>5. done \subseteq Claimants
  BY <1>1
<1> QED
  BY <1>2, <1>3, <1>4, <1>5
  DEF Store!TypeOK, Worked, Store!AnswersAreTrue

-----------------------------------------------------------------------------
(* Once for a key *)

LEMMA InitEntry == Store!Init => EntryTells
<1> SUFFICES ASSUME Store!Init
             PROVE  EntryTells
  OBVIOUS
<1>1. /\ done = {} /\ \A c \in Claimants : at[c] = "idle"
      /\ entry = Store!Absent
  BY DEF Store!Init
<1>2. entry.state = "absent"
  BY <1>1, EntryFacts
<1> QED
  BY <1>1, <1>2 DEF EntryTells

LEMMA EntryStep ==
    ASSUME Store!TypeOK, Worked, EntryTells, [Store!Next]_(Store!vars)
    PROVE  EntryTells'
<1>0. SUFFICES ASSUME ~lost'
               PROVE  EntryTells'
  BY DEF EntryTells
<1>1. ASSUME NEW c \in Claimants, Store!Request(c)
      PROVE  EntryTells'
  <2>1. /\ at[c] = "idle" /\ at'[c] = "claim"
        /\ \A d \in Claimants : d # c => at'[d] = at[d]
        /\ UNCHANGED <<entry, done, lost>>
    BY <1>1, EntryGotoType DEF Store!Request
  <2> QED
    BY <2>1 DEF EntryTells, Aside
<1>2. ASSUME NEW c \in Claimants, Store!SetNX(c)
      PROVE  EntryTells'
  <2>1. /\ at[c] = "claim" /\ UNCHANGED <<done, lost>> /\ body[c] \in Bodies
    BY <1>2 DEF Store!SetNX, Worked
  <2>2. CASE entry.state = "absent"
    <3>1. entry' = Store!InFlight(body[c]) /\ Store!Goto(c, "work")
      BY <1>2, <2>2 DEF Store!SetNX, Store!Claims
    <3>2. /\ entry'.state = "in flight" /\ at'[c] = "work"
          /\ \A d \in Claimants : d # c => at'[d] = at[d]
      BY <2>1, <3>1, EntryFacts, EntryGotoType
    <3> QED
      BY <1>0, <2>1, <2>2, <3>2 DEF EntryTells, Aside
  <2>3. CASE entry.state # "absent"
    <3>1. /\ entry' = entry /\ at'[c] = "get"
          /\ \A d \in Claimants : d # c => at'[d] = at[d]
      BY <1>2, <2>3, EntryGotoType DEF Store!SetNX, Store!Claims
    <3> QED
      BY <2>1, <2>3, <3>1 DEF EntryTells, Aside
  <2> QED
    BY <2>2, <2>3
<1>3. ASSUME NEW c \in Claimants, Store!Get(c)
      PROVE  EntryTells'
  <2>1. at[c] = "get" /\ UNCHANGED <<entry, done, lost>>
    BY <1>3 DEF Store!Get
  <2>2. entry.state # "absent" /\ entry # Store!Absent
    BY <1>0, <2>1, EntryFacts DEF EntryTells
  <2>3. /\ at'[c] = "answered"
        /\ \A d \in Claimants : d # c => at'[d] = at[d]
    BY <1>3, <2>2, EntryGotoType DEF Store!Get
  <2> QED
    BY <2>1, <2>2, <2>3 DEF EntryTells, Aside
<1>4. ASSUME NEW c \in Claimants,
             Store!Work(c) \/ Store!Complete(c) \/ Store!Abort(c)
      PROVE  EntryTells'
  <2>1. /\ at[c] \in {"work", "complete", "abort"} /\ lost' = lost
        /\ done' \subseteq done \cup {c}
        /\ \E l \in {"complete", "abort", "answered"} : Store!Goto(c, l)
    BY <1>0, <1>4 DEF Store!Work, Store!Complete, Store!Abort
  <2>2. \A d \in Claimants : d # c => at'[d] = at[d]
    BY <2>1, EntryGotoType
  <2>3. entry.state # "absent"
    BY <1>0, <2>1 DEF EntryTells
  <2>4. entry'.state # "absent"
    <3>1. CASE entry' = entry
      BY <2>3, <3>1
    <3>2. CASE Store!Complete(c) /\ entry' = Store!Done(body[c], c)
      <4>1. body[c] \in Bodies
        BY <2>1 DEF Worked
      <4>2. entry'.state = "done"
        BY <3>2, <4>1, EntryFacts
      <4> QED
        BY <4>2
    <3> QED
      BY <1>0, <1>4, <3>1, <3>2 DEF Store!Work, Store!Complete, Store!Abort
  <2>5. done \subseteq {c} /\ \A d \in Claimants \ {c} : Aside(d)
    BY <1>0, <2>1, <2>3 DEF EntryTells, Aside
  <2> QED
    BY <2>1, <2>2, <2>4, <2>5 DEF EntryTells, Aside
<1>5. ASSUME NEW c \in Claimants, Store!Crash(c)
      PROVE  EntryTells'
  <2>1. /\ at'[c] = "dead" /\ UNCHANGED <<entry, done, lost>>
        /\ \A d \in Claimants : d # c => at'[d] = at[d]
    BY <1>5, EntryGotoType DEF Store!Crash
  <2> QED
    BY <2>1 DEF EntryTells, Aside
<1>6. CASE Store!Expire
  BY <1>0, <1>6 DEF Store!Expire
<1>7. CASE UNCHANGED Store!vars
  BY <1>7 DEF Store!vars, EntryTells, Aside
<1> QED
  BY <1>1, <1>2, <1>3, <1>4, <1>5, <1>6, <1>7 DEF Store!Next, Store!Step

\* At most one caller works, and at most one has, until a claim is lost.
LEMMA EntryMeansOnce ==
    ASSUME Store!TypeOK, Worked, EntryTells
    PROVE  Store!OneForAKey
<1>1. /\ Cardinality({}) = 0 /\ \A x : Cardinality({x}) = 1
      /\ \A S : Store!Cardinality(S) = Cardinality(S)
  BY FS_EmptySet, FS_Singleton DEF Store!Cardinality, Cardinality
<1>2. ASSUME ~lost
      PROVE  /\ done = {} \/ \E w \in Claimants : done = {w}
             /\ \/ Store!Working = {}
                \/ \E w \in Claimants : Store!Working = {w}
  <2>1. CASE entry.state = "absent"
    BY <1>2, <2>1 DEF EntryTells, Store!Working
  <2>2. CASE entry.state # "absent"
    <3>1. PICK w \in Claimants : /\ done \subseteq {w}
                                 /\ \A c \in Claimants \ {w} : Aside(c)
      BY <1>2, <2>2 DEF EntryTells
    <3>2. Store!Working \subseteq {w}
      BY <3>1 DEF Store!Working, Aside
    <3> QED
      BY <3>1, <3>2
  <2> QED
    BY <2>1, <2>2
<1>3. ASSUME NEW S, S = {} \/ \E w \in Claimants : S = {w}
      PROVE  Store!Cardinality(S) <= 1
  <2>1. Store!Cardinality(S) = 0 \/ Store!Cardinality(S) = 1
    BY <1>1, <1>3, Zenon
  <2> QED
    BY <2>1
<1> QED
  BY <1>2, <1>3
  DEF Worked, Store!OneForAKey, Store!OneAtATime, Store!OnlyOnce

-----------------------------------------------------------------------------
(* Theorems *)

\* "A client retrying a checkout after a timeout must not be charged twice":
\* however many requests come with one key, wherever they meet on their way
\* through claim, work and complete, and whichever of their processes die, one
\* is worked on, and once, until a claim is given up because its work failed,
\* or lapses.  What a request is told of a result is true even after that: it
\* is one of work that was done, for the body that was sent.
THEOREM IdempotencyOnce == Store!Spec => []Store!OneForAKey
<1>1. Store!Init => Store!TypeOK /\ Worked /\ EntryTells
  BY EntryInitTypeOK, InitEntry
<1>2. Store!TypeOK /\ Worked /\ EntryTells /\ [Store!Next]_(Store!vars)
          => Store!TypeOK' /\ Worked' /\ EntryTells'
  BY TypeStep, EntryStep
<1>3. Store!TypeOK /\ Worked /\ EntryTells => Store!OneForAKey
  BY EntryMeansOnce
<1> QED
  BY <1>1, <1>2, <1>3, PTL DEF Store!Spec

-----------------------------------------------------------------------------
(* Side by side (MCOrders) *)

\* The component that runs is the one that began, and it takes its own steps.
LEMMA TxAlone ==
    /\ MCInit /\ part = "inventoryTx" => Tx!Init
    /\ [MCNext]_state =>
           part' = part /\ (part = "inventoryTx" => [Tx!Next]_(Tx!vars))
<1>1. MCInit /\ part = "inventoryTx" => Tx!Init
  BY DEF MCInit
<1>2. MCNext => part' = part /\ (part = "inventoryTx" => Tx!Next)
  BY DEF MCNext
<1>3. UNCHANGED state => part' = part /\ UNCHANGED txVars
  BY DEF state
<1>4. UNCHANGED txVars => UNCHANGED Tx!vars
  BY DEF txVars, Tx!vars, Tx!stock
<1> QED
  BY <1>1, <1>2, <1>3, <1>4

LEMMA StoreAlone ==
    /\ MCInit /\ part = "idempotency" => Store!Init
    /\ [MCNext]_state =>
           part' = part /\ (part = "idempotency" => [Store!Next]_(Store!vars))
<1>1. MCInit /\ part = "idempotency" => Store!Init
  BY DEF MCInit
<1>2. MCNext => part' = part /\ (part = "idempotency" => Store!Next)
  BY DEF MCNext
<1>3. UNCHANGED state => part' = part /\ UNCHANGED storeVars
  BY DEF state
<1>4. UNCHANGED storeVars => UNCHANGED Store!vars
  BY DEF storeVars, Store!vars
<1> QED
  BY <1>1, <1>2, <1>3, <1>4

\* What the run "orders" checks of Idempotency on three requests, with work
\* that fails, claims that lapse and processes that die.
THEOREM StoreIsOneForAKey == MCSpec => []OneForAKey
<1> DEFINE Inv == part = "idempotency" =>
                      Store!TypeOK /\ Worked /\ EntryTells
<1>1. MCInit => Inv
  BY StoreAlone, EntryInitTypeOK, InitEntry
<1>2. Inv /\ [MCNext]_state => Inv'
  <2> SUFFICES ASSUME Inv, [MCNext]_state, part' = "idempotency"
               PROVE  Store!TypeOK' /\ Worked' /\ EntryTells'
    OBVIOUS
  <2>1. part = "idempotency" /\ [Store!Next]_(Store!vars)
    BY StoreAlone
  <2> QED
    BY <2>1, TypeStep, EntryStep
<1>3. Inv => OneForAKey
  BY EntryMeansOnce DEF OneForAKey
<1> QED
  BY <1>1, <1>2, <1>3, PTL DEF MCSpec

\* What the run "orders" checks of InventoryTx on five transactions.
THEOREM TxIsSerializable == MCSpec => Serializable
<1> DEFINE Inv == part = "inventoryTx" => TxInv
           Serial == part = "inventoryTx" => Tx!SerialStep
<1>1. MCInit => Inv
  BY TxAlone, InitTxInv, TxAssumption
<1>2. ASSUME Inv, [MCNext]_state
      PROVE  Inv' /\ Serial
  <2>1. CASE part = "inventoryTx"
    <3>1. part' = part /\ [Tx!Next]_(Tx!vars) /\ TxInv
      BY <1>2, <2>1, TxAlone
    <3>2. TxInv' /\ Tx!SerialStep
      BY <3>1, NextTxInv, NextIsSerial, TxAssumption
    <3> QED
      BY <3>1, <3>2
  <2>2. CASE part # "inventoryTx"
    BY <1>2, <2>2, TxAlone
  <2> QED
    BY <2>1, <2>2
<1>3. Inv /\ [MCNext]_state => Inv' /\ [Serial]_state
  BY <1>2
<1> QED
  BY <1>1, <1>3, PTL DEF MCSpec, Serializable

LEMMA PartStays == [MCNext]_state => part' = part
BY DEF MCNext, state

\* The part "wrong" of the run is a Payment of its own.
LEMMA SameStrays ==
    /\ Wrong!Init <=> Strays!Pay!Init
    /\ Wrong!Next <=> Strays!Pay!Next
    /\ Wrong!ChargedAsOrdered <=> Strays!Pay!ChargedAsOrdered
    /\ Wrong!RefundedOnce <=> Strays!Pay!RefundedOnce
<1>1. Wrong!Init <=> Strays!Pay!Init
  BY DEF Wrong!Init, Strays!Pay!Init, Wrong!None, Strays!Pay!None,
      Wrong!NoAnswer, Strays!Pay!NoAnswer
<1>2. Wrong!Next <=> Strays!Pay!Next
  BY DEF Wrong!chargeVars, Strays!Pay!chargeVars, Wrong!tables,
      Strays!Pay!tables, Wrong!provider, Strays!Pay!provider, Wrong!refundVars,
      Strays!Pay!refundVars, Wrong!vars, Strays!Pay!vars, Wrong!None,
      Strays!Pay!None, Wrong!Active, Strays!Pay!Active, Wrong!Outcomes,
      Strays!Pay!Outcomes, Wrong!Answers, Strays!Pay!Answers, Wrong!NoAnswer,
      Strays!Pay!NoAnswer, Wrong!Rows, Strays!Pay!Rows, Wrong!Goto,
      Strays!Pay!Goto, Wrong!Reply, Strays!Pay!Reply, Wrong!SamePayment,
      Strays!Pay!SamePayment, Wrong!Arrive, Strays!Pay!Arrive, Wrong!Lookup,
      Strays!Pay!Lookup, Wrong!Chargeable, Strays!Pay!Chargeable, Wrong!Check,
      Strays!Pay!Check, Wrong!RowAllowed, Strays!Pay!RowAllowed, Wrong!Insert,
      Strays!Pay!Insert, Wrong!Authorize, Strays!Pay!Authorize,
      Wrong!OutcomeOf, Strays!Pay!OutcomeOf, Wrong!OrderAfter,
      Strays!Pay!OrderAfter, Wrong!WriteOutcome, Strays!Pay!WriteOutcome,
      Wrong!RowIsFree, Strays!Pay!RowIsFree, Wrong!CanSettle,
      Strays!Pay!CanSettle, Wrong!Settle, Strays!Pay!Settle, Wrong!ChargeCrash,
      Strays!Pay!ChargeCrash, Wrong!LockRow, Strays!Pay!LockRow,
      Wrong!Refundable, Strays!Pay!Refundable, Wrong!RefundBegin,
      Strays!Pay!RefundBegin, Wrong!ProviderRefund, Strays!Pay!ProviderRefund,
      Wrong!Release, Strays!Pay!Release, Wrong!MayCommit, Strays!Pay!MayCommit,
      Wrong!WriteRefund, Strays!Pay!WriteRefund, Wrong!RefundCommit,
      Strays!Pay!RefundCommit, Wrong!RefundCrash, Strays!Pay!RefundCrash,
      Wrong!ALLOWED_TRANSITIONS, Strays!Pay!ALLOWED_TRANSITIONS,
      Wrong!SagaWrites, Strays!Pay!SagaWrites, Wrong!CarrierReports,
      Strays!Pay!CarrierReports, Wrong!OtherService, Strays!Pay!OtherService,
      Wrong!Charge, Strays!Pay!Charge, Wrong!Refund, Strays!Pay!Refund,
      Wrong!Next, Strays!Pay!Next
<1>3. /\ Wrong!ChargedAsOrdered <=> Strays!Pay!ChargedAsOrdered
      /\ Wrong!RefundedOnce <=> Strays!Pay!RefundedOnce
  BY DEF Wrong!ChargedAsOrdered, Strays!Pay!ChargedAsOrdered,
      Wrong!RefundedOnce, Strays!Pay!RefundedOnce
<1> QED
  BY <1>1, <1>2, <1>3

\* What the run "orders" checks of requests with an outdated amount, requests
\* by another user, and two administrators.
THEOREM StraysAreHarmless == MCSpec => []TakenAndReturnedAsOwed
<1> DEFINE Runs == part = "wrong"
<1>1. MCInit /\ Runs => Strays!Pay!Init
  BY SameStrays DEF MCInit
<1>2. ASSUME [MCNext]_state, Runs
      PROVE  Runs' /\ [Strays!Pay!Next]_(Strays!Pay!vars)
  <2>1. CASE MCNext
    <3>1. Wrong!Next
      BY <1>2, <2>1 DEF MCNext
    <3> QED
      BY <1>2, <3>1, SameStrays, PartStays
  <2>2. CASE UNCHANGED state
    <3>1. UNCHANGED Strays!Pay!vars
      BY <2>2 DEF state, others, Strays!Pay!vars, Strays!Pay!chargeVars,
         Strays!Pay!tables, Strays!Pay!provider, Strays!Pay!refundVars
    <3> QED
      BY <1>2, <3>1, PartStays
  <2> QED
    BY <1>2, <2>1, <2>2
<1>3. [MCNext]_state /\ ~Runs => ~Runs'
  BY PartStays
<1>4. Strays!ChargesAreLegal
  BY WrongHolds, NamesAssumption
     DEF Strays!ChargesAreLegal, Strays!Pay!RequestAssumption,
         Strays!Pay!NamesAssumption, Wrong!RequestAssumption
<1>5. Strays!Pay!Spec => []Strays!Pay!ChargedAsOrdered
  BY <1>4, Strays!ChargingAsOrdered
<1>6. Strays!Pay!Spec => []Strays!Pay!RefundedOnce
  BY <1>4, Strays!RefundingOnce
<1>7. /\ Strays!Pay!ChargedAsOrdered /\ Strays!Pay!RefundedOnce
             => TakenAndReturnedAsOwed
      /\ ~Runs => TakenAndReturnedAsOwed
  BY SameStrays DEF TakenAndReturnedAsOwed
<1> QED
  BY <1>1, <1>2, <1>3, <1>5, <1>6, <1>7, PTL DEF MCSpec, Strays!Pay!Spec

\* The part "totals" of the run is the one that StorePartsProofs is about.
LEMMA SameTotals ==
    /\ Totals!Init <=> Own!Totals!Init
    /\ Totals!Next <=> Own!Totals!Next
    /\ Totals!TypeOK <=> Own!Totals!TypeOK
    /\ Totals!ChargedAsSeen <=> Own!Totals!ChargedAsSeen
    /\ Totals!ExactToTheCent <=> Own!Totals!ExactToTheCent
    /\ Totals!OneTruth <=> Own!Totals!OneTruth
    /\ Totals!TotalsAssumption <=> Own!Totals!TotalsAssumption
<1>1. Totals!Init <=> Own!Totals!Init
  BY DEF Totals!Init, Own!Totals!Init, Totals!Empty, Own!Totals!Empty,
      Totals!NoTotals, Own!Totals!NoTotals, Totals!NoOrder, Own!Totals!NoOrder,
      Totals!SumFunction, Totals!SumFunctionOnSet, Totals!FoldFunctionOnSet,
      Totals!MapThenFoldSet, Own!Totals!SumFunction,
      Own!Totals!SumFunctionOnSet, Own!Totals!FoldFunctionOnSet,
      Own!Totals!MapThenFoldSet
<1>2. Totals!Next <=> Own!Totals!Next
  BY DEF Totals!vars, Own!Totals!vars, Totals!Empty, Own!Totals!Empty,
      Totals!NoTotals, Own!Totals!NoTotals, Totals!NoOrder, Own!Totals!NoOrder,
      Totals!CalculateTax, Own!Totals!CalculateTax, Totals!CalculateShipping,
      Own!Totals!CalculateShipping, Totals!Subtotal, Own!Totals!Subtotal,
      Totals!CalculateTotals, Own!Totals!CalculateTotals, Totals!Available,
      Own!Totals!Available, Totals!Items, Own!Totals!Items, Totals!Unavailable,
      Own!Totals!Unavailable, Totals!CheckoutTotals, Own!Totals!CheckoutTotals,
      Totals!SetLine, Own!Totals!SetLine, Totals!Choose, Own!Totals!Choose,
      Totals!Preview, Own!Totals!Preview, Totals!PriceChanged,
      Own!Totals!PriceChanged, Totals!Place, Own!Totals!Place, Totals!Reprice,
      Own!Totals!Reprice, Totals!Restock, Own!Totals!Restock, Totals!Next,
      Own!Totals!Next, Totals!SumFunction, Totals!SumFunctionOnSet,
      Totals!FoldFunctionOnSet, Totals!MapThenFoldSet, Own!Totals!SumFunction,
      Own!Totals!SumFunctionOnSet, Own!Totals!FoldFunctionOnSet,
      Own!Totals!MapThenFoldSet
<1>3. /\ Totals!TypeOK <=> Own!Totals!TypeOK
      /\ Totals!ChargedAsSeen <=> Own!Totals!ChargedAsSeen
      /\ Totals!ExactToTheCent <=> Own!Totals!ExactToTheCent
  BY DEF Totals!TypeOK, Own!Totals!TypeOK, Totals!ChargedAsSeen,
      Own!Totals!ChargedAsSeen, Totals!ExactToTheCent,
      Own!Totals!ExactToTheCent, Totals!Empty, Own!Totals!Empty,
      Totals!NoTotals, Own!Totals!NoTotals, Totals!NoOrder, Own!Totals!NoOrder,
      Totals!SumFunction, Totals!SumFunctionOnSet, Totals!FoldFunctionOnSet,
      Totals!MapThenFoldSet, Own!Totals!SumFunction,
      Own!Totals!SumFunctionOnSet, Own!Totals!FoldFunctionOnSet,
      Own!Totals!MapThenFoldSet
<1>4. Totals!OneTruth <=> Own!Totals!OneTruth
  BY DEF Totals!OneTruth, Own!Totals!OneTruth, Totals!Default,
      Own!Totals!Default, Totals!CartTotals, Own!Totals!CartTotals,
      Totals!CheckoutTotals, Own!Totals!CheckoutTotals, Totals!Quote,
      Own!Totals!Quote, Totals!Items, Own!Totals!Items, Totals!Available,
      Own!Totals!Available, Totals!CalculateTotals, Own!Totals!CalculateTotals,
      Totals!CalculateTax, Own!Totals!CalculateTax, Totals!CalculateShipping,
      Own!Totals!CalculateShipping, Totals!Subtotal, Own!Totals!Subtotal,
      Totals!Empty, Own!Totals!Empty, Totals!NoTotals, Own!Totals!NoTotals,
      Totals!NoOrder, Own!Totals!NoOrder, Totals!SumFunction,
      Totals!SumFunctionOnSet, Totals!FoldFunctionOnSet, Totals!MapThenFoldSet,
      Own!Totals!SumFunction, Own!Totals!SumFunctionOnSet,
      Own!Totals!FoldFunctionOnSet, Own!Totals!MapThenFoldSet
<1>5. Totals!TotalsAssumption <=> Own!Totals!TotalsAssumption
  BY DEF Totals!TotalsAssumption, Own!Totals!TotalsAssumption,
      Totals!SumFunction, Totals!SumFunctionOnSet, Totals!FoldFunctionOnSet,
      Totals!MapThenFoldSet, Own!Totals!SumFunction,
      Own!Totals!SumFunctionOnSet, Own!Totals!FoldFunctionOnSet,
      Own!Totals!MapThenFoldSet
<1> QED
  BY <1>1, <1>2, <1>3, <1>4, <1>5

\* What the run "orders" checks of a cart of two products.
THEOREM OrderStaysAsSeen == MCSpec => []OrderIsAsSeen
<1> DEFINE Runs == part = "totals"
<1>1. MCInit /\ Runs => Own!Totals!Init
  BY SameTotals DEF MCInit
<1>2. ASSUME [MCNext]_state, Runs
      PROVE  Runs' /\ [Own!Totals!Next]_(Own!Totals!vars)
  <2>1. CASE MCNext
    <3>1. Totals!Next
      BY <1>2, <2>1 DEF MCNext
    <3> QED
      BY <1>2, <3>1, SameTotals, PartStays
  <2>2. CASE UNCHANGED state
    <3>1. UNCHANGED Own!Totals!vars
      BY <2>2 DEF state, others, Own!Totals!vars
    <3> QED
      BY <1>2, <3>1, PartStays
  <2> QED
    BY <1>2, <2>1, <2>2
<1>3. [MCNext]_state /\ ~Runs => ~Runs'
  BY PartStays
<1>4. /\ Own!Totals!TotalsAssumption
      /\ Own!IsFiniteSet({"hat", "coat"}) /\ 0 \notin {50, 2500}
  <2>1. IsFiniteSet({"hat"} \cup {"coat"})
    BY FS_Singleton, FS_Union
  <2>2. {"hat", "coat"} = {"hat"} \cup {"coat"}
    OBVIOUS
  <2>3. \A S : Own!IsFiniteSet(S) <=> IsFiniteSet(S)
    BY DEF Own!IsFiniteSet, IsFiniteSet
  <2> QED
    BY <2>1, <2>2, <2>3, TotalsHolds, SameTotals
<1>5. /\ Own!Totals!Spec =>
             [](Own!Totals!TypeOK /\ Own!Totals!ChargedAsSeen
                /\ Own!Totals!ExactToTheCent)
      /\ Own!Totals!Spec => []Own!Totals!OneTruth
  BY <1>4, Own!OrderedAsSeen
<1>6. /\ Own!Totals!TypeOK /\ Own!Totals!ChargedAsSeen
             /\ Own!Totals!ExactToTheCent /\ Own!Totals!OneTruth
             => OrderIsAsSeen
      /\ ~Runs => OrderIsAsSeen
  BY SameTotals DEF OrderIsAsSeen, Totals!OrderIsAsSeen
<1> QED
  BY <1>1, <1>2, <1>3, <1>5, <1>6, PTL DEF MCSpec, Own!Totals!Spec
=============================================================================
