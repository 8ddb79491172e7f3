-------------------------- MODULE FulfilmentProofs --------------------------
(***************************************************************************)
(* Proofs about Fulfilment, for any cancellations, transitions, shipments, *)
(* reports of carriers and refunds of an order.  Each kind of transaction  *)
(* decides on rows it has read, and holds what excludes the others from    *)
(* changing them until it commits; LocksExclude is in RowLocks.  And about *)
(* MCShop: what StorePartsProofs shows of the reviews, the recommendations *)
(* and the search holds of the run.                                        *)
(***************************************************************************)
EXTENDS MCShop, FiniteSetTheorems, TLAPS

-----------------------------------------------------------------------------
\* The parts of StorePartsProofs that are parts of MCShop, with the constants
\* they have there; the other parts are not there.
Reviewing == {"create", "update", "delete", "helpful", "moderate"}

First == INSTANCE StorePartsProofs WITH
    Products <- {p1, p2, p3}, Baskets <- {{p1, p2}, {p2, p3}},
    Shoppers <- {u1}, MIN_CO_OCCURRENCES <- 2, AFFINITY_PER_PRODUCT <- 1,
    RECOMMENDATIONS_PER_USER <- 1, Limits <- {1}, Fragile <- Shelves!Statements,
    Cancels <- FALSE, Stocks <- FALSE, Dies <- TRUE, MaxOrders <- 3,
    MaxFails <- 2, orders <- x1, inStock <- x2, viewed <- x3, running <- x4,
    at <- x5, row <- x6, next <- x7, draft <- x8, affinity <- x9, recs <- x10,
    fails <- x11, Users <- {u1, u2, u3}, Requests <- ReviewCalls,
    Ratings <- {2, 5}, Operations <- Reviewing, Buyers <- {u1, u2},
    REQUIRE_VERIFIED_PURCHASE <- TRUE, Crashes <- FALSE, MaxOpen <- 1,
    MaxVotes <- 1, review <- x1, rating <- x2, rowOf <- x3, productOf <- x4,
    req <- x5, outbox <- x6, indexed <- x7, Catalogues <- Catalogues,
    Searches <- Filterings, Toggles <- 0, WINDOW <- 100, products <- x1,
    request <- x2, up <- x3, page <- x4, seen <- x5, answer <- x6,
    toggles <- x7, Indexed <- {p1, p2}, Replicas <- {r1}, Live <- "new",
    BatchSize <- 2, MAX_ATTEMPTS <- 3, MaxChanges <- 3, MaxFaults <- 2,
    version <- x1, queue <- x2, indices <- x3, docs <- x4, alias <- x5,
    drain <- x6, build <- x7, faults <- x8,
    Admins <- {}, Keys <- {}, Faults <- {}, Stock <- {}, Prices <- {},
    MAX_ADDRESSES_PER_USER <- {}, MaxRows <- {}, MaxStock <- {},
    ServiceLevels <- {}, TAX_RATE <- {}, TiesDown <- {},
    FREE_SHIPPING_THRESHOLD_CENTS <- {},
    FLAT_SHIPPING_CENTS <- {}, holder <- part, available <- part,
    payment <- part, cart <- part, price <- part, place <- part, op <- part,
    count <- part, found <- part, lines <- part, stock <- part, level <- part,
    order <- part, Charges <- {}, Refunds <- {}, Orders <- {}, KeyOf <- {},
    OrderOf <- {}, UserOf <- {}, AmountOf <- {}, OwnerOf <- {}, TotalOf <- {},
    placed <- part, pc <- part, taken <- part, returned <- part,
    refund <- part, target <- part, Kinds <- {}, MAX_QUANTITY_PER_ITEM <- {},
    MAX_LINE_ITEMS <- {}, MaxSales <- {}, active <- part, sales <- part,
    shown <- part

Second == INSTANCE StorePartsProofs WITH
    Products <- {p1, p2, p3}, Baskets <- {{p1, p2}, {p2, p3}},
    Shoppers <- {u1}, MIN_CO_OCCURRENCES <- 1, AFFINITY_PER_PRODUCT <- 2,
    RECOMMENDATIONS_PER_USER <- 2, Limits <- {1, 2, 5}, Cancels <- TRUE,
    Stocks <- TRUE, Dies <- FALSE, MaxOrders <- 2, MaxFails <- 0, orders <- x1,
    inStock <- x2, viewed <- x3, running <- x4, at <- x5, row <- x6,
    next <- x7, draft <- x8, affinity <- x9, recs <- x10, fails <- x11,
    Users <- {u1, u2}, Requests <- ReviewCalls, Ratings <- {5},
    Operations <- Reviewing, Buyers <- {u1},
    REQUIRE_VERIFIED_PURCHASE <- FALSE, Crashes <- TRUE, MaxOpen <- 2,
    MaxVotes <- 1, review <- x1, rating <- x2, rowOf <- x3, productOf <- x4,
    req <- x5, outbox <- x6, indexed <- x7, Catalogues <- Shelf,
    Searches <- Listings, Toggles <- 2, WINDOW <- 100, products <- x1,
    request <- x2, up <- x3, page <- x4, seen <- x5, answer <- x6,
    toggles <- x7, Indexed <- {p1}, Replicas <- {r1, r2}, Admins <- {a1},
    Live <- "old", BatchSize <- 2, MAX_ATTEMPTS <- 2, MaxChanges <- 1,
    MaxFaults <- 2, version <- x1, queue <- x2, indices <- x3, docs <- x4,
    alias <- x5, drain <- x6, build <- x7, faults <- x8,
    Fragile <- {}, Keys <- {}, Faults <- {}, Stock <- {}, Prices <- {},
    Txs <- {}, MAX_ADDRESSES_PER_USER <- {}, MaxRows <- {}, MaxStock <- {},
    ServiceLevels <- {}, TAX_RATE <- {}, TiesDown <- {},
    FREE_SHIPPING_THRESHOLD_CENTS <- {},
    FLAT_SHIPPING_CENTS <- {}, holder <- part, available <- part,
    payment <- part, cart <- part, price <- part, place <- part, op <- part,
    count <- part, found <- part, locks <- part, lines <- part, stock <- part,
    level <- part, order <- part, Charges <- {}, Refunds <- {}, Orders <- {},
    KeyOf <- {}, OrderOf <- {}, UserOf <- {}, AmountOf <- {}, OwnerOf <- {},
    TotalOf <- {}, placed <- part, pc <- part, taken <- part, returned <- part,
    refund <- part, target <- part, Kinds <- {}, MAX_QUANTITY_PER_ITEM <- {},
    MAX_LINE_ITEMS <- {}, MaxSales <- {}, active <- part, sales <- part,
    shown <- part

\* The row locks are those of StorePartsProofs, which has the facts about them.
LEMMA SameLocks ==
    /\ \A m, n : Conflict(m, n) <=> First!Book!Conflict(m, n)
    /\ \A t, id, m : /\ CanLock(t, id, m) <=> First!Book!CanLock(t, id, m)
                     /\ Lock(t, id, m) <=> First!Book!Lock(t, id, m)
    /\ LocksExclude <=> First!Book!LocksExclude
    /\ LocksExclude' <=> First!Book!LocksExclude'
BY DEF Conflict, CanLock, Lock, LocksExclude, First!Book!Conflict,
    First!Book!CanLock, First!Book!Lock, First!Book!LocksExclude

LEMMA ConflictFacts ==
    /\ \A m : Conflict("update", m) /\ Conflict(m, "update")
    /\ Conflict("no key update", "no key update")
    /\ \A m, n : Conflict(m, n) <=> Conflict(n, m)
BY SameLocks, First!ConflictFacts

LEMMA LockKeepsExclusion ==
    ASSUME NEW S, locks \in [Txs -> S], LocksExclude,
           NEW t \in Txs, NEW id, NEW mode, Lock(t, id, mode)
    PROVE  LocksExclude'
<1>1. First!Book!LocksExclude /\ First!Book!Lock(t, id, mode)
  BY SameLocks
<1>2. First!Book!LocksExclude'
  BY <1>1, First!LockKeepsExclusion
<1> QED
  BY <1>2, SameLocks

LEMMA ReleaseKeepsExclusion ==
    ASSUME NEW S, locks \in [Txs -> S], LocksExclude, NEW t \in Txs,
           locks' = [locks EXCEPT ![t] = {}]
    PROVE  LocksExclude'
<1>1. First!Book!LocksExclude
  BY SameLocks
<1>2. First!Book!LocksExclude'
  BY <1>1, First!ReleaseKeepsExclusion
<1> QED
  BY <1>2, SameLocks

LEMMA HoldersExclude ==
    ASSUME LocksExclude, NEW t \in Txs, NEW u \in Txs, NEW id, NEW m, NEW n,
           <<id, m>> \in locks[t], <<id, n>> \in locks[u], Conflict(m, n)
    PROVE  t = u
BY SameLocks, First!HoldersExclude

-----------------------------------------------------------------------------
\* cancelOrder holds the order, which can be cancelled, and of the shipments
\* those its UPDATE has found labelled.
CancelHolds ==
    \A t \in Cancels :
        /\ pc[t] \in {"write", "commit"} =>
               /\ <<"order", "update">> \in locks[t]
               /\ "cancelled" \in ALLOWED_TRANSITIONS[order]
        /\ pc[t] = "commit" => todo[t] = {}
        /\ \A n \in Creates :
               <<n, "no key update">> \in locks[t] => n \in Labelled

\* updateStatus holds the order, which may move to the status asked for.
TransitionHolds ==
    \A t \in Transitions :
        pc[t] = "commit" => /\ <<"order", "update">> \in locks[t]
                            /\ Legal(order, asked[t].status)

\* createShipment has no row before it commits, and shares the order before.
CreateHolds ==
    \A t \in Creates :
        /\ pc[t] # "ended" => shipment[t] = None
        /\ pc[t] = "commit" => <<"order", "key share">> \in locks[t]

\* updateShipmentStatus is about a shipment there is, and holds it; it writes
\* an order that it has found open and holds.
UpdateHolds ==
    \A t \in Updates :
        /\ pc[t] # "idle" => /\ asked[t].row \in Creates
                             /\ asked[t].status \in Reported
                             /\ shipment[asked[t].row] # None
        /\ pc[t] \in {"write", "commit"} =>
               <<asked[t].row, "update">> \in locks[t]
        /\ <<"order", "no key update">> \in locks[t] =>
               /\ pc[t] = "commit"
               /\ Open(order) /\ OrderStatusFor(asked[t].status) # None

\* refundPayment holds the order.
RefundHolds ==
    \A t \in Refunds :
        pc[t] = "commit" => <<"order", "no key update">> \in locks[t]

FulfilmentInv ==
    /\ TypeOK
    /\ LocksExclude
    /\ CancelHolds
    /\ TransitionHolds
    /\ CreateHolds
    /\ UpdateHolds
    /\ RefundHolds

\* A cancellation under way reaches every label there is: none is added, but
\* by the report of a carrier.
LabelsReached ==
    \A t \in Cancels :
        pc[t] \in {"write", "commit"} =>
            \A n \in Labelled :
                \/ n \in todo[t] \/ <<n, "no key update">> \in locks[t]
                \/ Reports(n, shipment[n])

-----------------------------------------------------------------------------
(* What the definitions say *)

LEMMA TransitionFacts ==
    /\ \A s \in Statuses : ALLOWED_TRANSITIONS[s] \subseteq Statuses
    /\ ALLOWED_TRANSITIONS["cancelled"] = {}
    /\ ALLOWED_TRANSITIONS["refunded"] = {}
BY DEF ALLOWED_TRANSITIONS, Statuses

LEMMA OrderStatusFacts ==
    \A s : OrderStatusFor(s) # None => OrderStatusFor(s) \in Statuses
BY DEF OrderStatusFor, Statuses, None

LEMMA KindsAreDisjoint ==
    ASSUME NamesAssumption
    PROVE  /\ "order" \notin Creates /\ None \notin Creates
           /\ \A t \in Cancels : /\ t \notin Transitions /\ t \notin Creates
                                 /\ t \notin Updates /\ t \notin Refunds
           /\ \A t \in Transitions : /\ t \notin Creates /\ t \notin Updates
                                     /\ t \notin Refunds
           /\ \A t \in Creates : t \notin Updates /\ t \notin Refunds
           /\ \A t \in Updates : t \notin Refunds
BY DEF NamesAssumption, None

\* Statements lock one row, COMMIT and ROLLBACK release what is locked.
LEMMA LockEffect ==
    ASSUME TypeOK, NEW t \in Txs, NEW row, NEW mode, Lock(t, row, mode)
    PROVE  locks'[t] = locks[t] \cup {<<row, mode>>}
BY DEF Lock, TypeOK

LEMMA GotoEffect ==
    ASSUME TypeOK, NEW t \in Txs, NEW l, Goto(t, l)
    PROVE  pc'[t] = l
BY DEF Goto, TypeOK

LEMMA EndEffect ==
    ASSUME TypeOK, NEW t \in Txs, NEW l, End(t, l)
    PROVE  pc'[t] = l /\ locks'[t] = {} /\ todo'[t] = {}
BY DEF End, Goto, TypeOK

\* One transaction moves, and the others stay where they are.
LEMMA OthersStay ==
    ASSUME TypeOK, NEW t \in Txs, Begin(t) \/ Step(t) \/ WaitFails(t),
           NEW u \in Txs, u # t
    PROVE  /\ pc'[u] = pc[u] /\ locks'[u] = locks[u]
           /\ todo'[u] = todo[u] /\ asked'[u] = asked[u]
<1>1. pc' = pc \/ \E l : Goto(t, l) \/ End(t, l)
  BY DEF Begin, Step, CancelLock, CancelLabel, CancelCommit, TransitionLock,
         TransitionCommit, CreateLook, CreateInsert, CreateCommit, UpdateLock,
         UpdateOrder, UpdateCommit, RefundLock, RefundCommit, WaitFails
<1>2. \/ locks' = locks
      \/ \E row, mode : Lock(t, row, mode)
      \/ \E l : End(t, l)
  BY DEF Begin, Step, CancelLock, CancelLabel, CancelCommit, TransitionLock,
         TransitionCommit, CreateLook, CreateInsert, LockForeignKey,
         CreateCommit, UpdateLock, UpdateOrder, UpdateCommit, RefundLock,
         RefundCommit, WaitFails
<1>3. \/ todo' = todo
      \/ \E S : todo' = [todo EXCEPT ![t] = S]
      \/ \E l : End(t, l)
  BY DEF Begin, Step, CancelLock, CancelLabel, CancelCommit, TransitionLock,
         TransitionCommit, CreateLook, CreateInsert, CreateCommit, UpdateLock,
         UpdateOrder, UpdateCommit, RefundLock, RefundCommit, WaitFails
<1>4. asked' = asked \/ \E i : asked' = [asked EXCEPT ![t] = i]
  BY DEF Begin, Step, CancelLock, CancelLabel, CancelCommit, TransitionLock,
         TransitionCommit, CreateLook, CreateInsert, CreateCommit, UpdateLock,
         UpdateOrder, UpdateCommit, RefundLock, RefundCommit, WaitFails
<1> QED
  BY <1>1, <1>2, <1>3, <1>4 DEF Goto, End, Lock, TypeOK

\* Only COMMIT writes the tables.
LEMMA Writers ==
    ASSUME NEW t \in Txs, Begin(t) \/ Step(t) \/ WaitFails(t)
    PROVE  \/ UNCHANGED <<order, shipment>>
           \/ CancelCommit(t) \/ TransitionCommit(t) \/ CreateCommit(t)
           \/ UpdateCommit(t) \/ RefundCommit(t)
BY DEF Begin, Step, CancelLock, CancelLabel, TransitionLock, CreateLook,
       CreateInsert, UpdateLock, UpdateOrder, RefundLock, WaitFails

-----------------------------------------------------------------------------
(* Locks *)

LEMMA LocksStep ==
    ASSUME TypeOK, LocksExclude, NEW t \in Txs,
           Begin(t) \/ Step(t) \/ WaitFails(t)
    PROVE  LocksExclude'
<1>1. \/ locks' = locks
      \/ \E row, mode : Lock(t, row, mode)
      \/ \E l : End(t, l)
  BY DEF Begin, Step, CancelLock, CancelLabel, CancelCommit, TransitionLock,
         TransitionCommit, CreateLook, CreateInsert, LockForeignKey,
         CreateCommit, UpdateLock, UpdateOrder, UpdateCommit, RefundLock,
         RefundCommit, WaitFails
<1>2. CASE locks' = locks
  BY <1>2 DEF LocksExclude
<1>3. CASE \E row, mode : Lock(t, row, mode)
  BY <1>3, LockKeepsExclusion DEF TypeOK
<1>4. CASE \E l : End(t, l)
  BY <1>4, ReleaseKeepsExclusion DEF TypeOK, End
<1> QED
  BY <1>1, <1>2, <1>3, <1>4

\* Who writes the order holds it against everybody who does.
LEMMA OrderIsHeld ==
    ASSUME FulfilmentInv, NEW t \in Txs,
           Begin(t) \/ Step(t) \/ WaitFails(t), order' # order
    PROVE  \/ <<"order", "update">> \in locks[t]
           \/ <<"order", "no key update">> \in locks[t]
<1>1. CASE CancelCommit(t)
  BY <1>1 DEF CancelCommit, FulfilmentInv, CancelHolds
<1>2. CASE TransitionCommit(t)
  BY <1>2 DEF TransitionCommit, FulfilmentInv, TransitionHolds
<1>3. CASE UpdateCommit(t)
  BY <1>3 DEF UpdateCommit
<1>4. CASE RefundCommit(t)
  BY <1>4 DEF RefundCommit, FulfilmentInv, RefundHolds
<1> QED
  BY <1>1, <1>2, <1>3, <1>4, Writers DEF CreateCommit

\* Who changes a shipment that is there holds it.
LEMMA ShipmentIsHeld ==
    ASSUME FulfilmentInv, StatusAssumption, NEW t \in Txs,
           Begin(t) \/ Step(t) \/ WaitFails(t),
           NEW n \in Creates, shipment'[n] # shipment[n]
    PROVE  /\ shipment'[n] # None
           /\ \/ t = n /\ CreateCommit(t) /\ shipment[n] = None
              \/ /\ shipment[n] # None
                 /\ CancelCommit(t) /\ <<n, "no key update">> \in locks[t]
              \/ /\ shipment[n] # None
                 /\ UpdateCommit(t) /\ asked[t].row = n
                 /\ <<n, "update">> \in locks[t]
<1>1. TypeOK /\ CancelHolds /\ CreateHolds /\ UpdateHolds
  BY DEF FulfilmentInv
<1>2. CASE CancelCommit(t)
  <2>1. <<n, "no key update">> \in locks[t] /\ shipment'[n] = "cancelled"
    BY <1>2 DEF CancelCommit
  <2>2. n \in Labelled
    BY <1>1, <1>2, <2>1 DEF CancelCommit, CancelHolds
  <2> QED
    BY <1>2, <2>1, <2>2 DEF Labelled, None
<1>3. CASE CreateCommit(t)
  <2>1. shipment' = [shipment EXCEPT ![t] = "label_created"] /\ t \in Creates
    BY <1>3 DEF CreateCommit
  <2>2. t = n /\ shipment'[n] = "label_created"
    BY <1>1, <2>1 DEF TypeOK
  <2>3. shipment[t] = None
    BY <1>1, <1>3 DEF CreateCommit, CreateHolds
  <2> QED
    BY <1>3, <2>2, <2>3 DEF None
<1>4. CASE UpdateCommit(t)
  <2>1. /\ t \in Updates /\ pc[t] = "commit"
        /\ shipment' = [shipment EXCEPT ![asked[t].row] = asked[t].status]
    BY <1>4 DEF UpdateCommit
  <2>2. asked[t].row = n /\ shipment'[n] = asked[t].status
    BY <1>1, <2>1 DEF TypeOK
  <2>3. /\ asked[t].status \in Reported /\ shipment[n] # None
        /\ <<n, "update">> \in locks[t]
    BY <1>1, <2>1, <2>2 DEF UpdateHolds
  <2>4. None \notin Reported
    BY DEF StatusAssumption, ShipmentStatuses, None
  <2> QED
    BY <1>4, <2>2, <2>3, <2>4
<1> QED
  BY <1>2, <1>3, <1>4, Writers DEF TransitionCommit, RefundCommit

-----------------------------------------------------------------------------
(* Type correctness *)

LEMMA InitFulfilment ==
    ASSUME StatusAssumption, Init
    PROVE  FulfilmentInv
<1>1. TypeOK
  BY DEF Init, TypeOK, StatusAssumption, Requests
<1>2. \A t \in Txs : pc[t] = "idle" /\ locks[t] = {}
  BY DEF Init
<1>3. \A n \in Creates : shipment[n] = None
  BY DEF Init
<1>4. /\ LocksExclude /\ CancelHolds /\ TransitionHolds /\ CreateHolds
      /\ UpdateHolds /\ RefundHolds
  BY <1>2, <1>3 DEF LocksExclude, CancelHolds, TransitionHolds, CreateHolds,
                    UpdateHolds, RefundHolds, Txs
<1> QED
  BY <1>1, <1>4 DEF FulfilmentInv

LEMMA GotoType ==
    ASSUME TypeOK, NEW t \in Txs, NEW l, Goto(t, l),
           l \in {"idle", "begun", "write", "commit", "ended", "aborted"}
    PROVE  pc' \in [Txs -> {"idle", "begun", "write", "commit", "ended",
                            "aborted"}]
BY DEF Goto, TypeOK

LEMMA LockType ==
    ASSUME TypeOK, NEW t \in Txs, NEW row \in Creates \cup {"order"},
           NEW mode \in Modes, Lock(t, row, mode)
    PROVE  locks' \in [Txs -> SUBSET ((Creates \cup {"order"}) \X Modes)]
BY DEF Lock, TypeOK

LEMMA EndType ==
    ASSUME TypeOK, NEW t \in Txs, NEW l \in {"ended", "aborted"}, End(t, l)
    PROVE  /\ pc' \in [Txs -> {"idle", "begun", "write", "commit", "ended",
                               "aborted"}]
           /\ locks' \in [Txs -> SUBSET ((Creates \cup {"order"}) \X Modes)]
           /\ todo' \in [Txs -> SUBSET Creates]
BY DEF End, Goto, TypeOK

LEMMA TypeStep ==
    ASSUME FulfilmentInv, StatusAssumption, NEW t \in Txs,
           Begin(t) \/ Step(t) \/ WaitFails(t)
    PROVE  TypeOK'
<1>1. TypeOK /\ TransitionHolds /\ UpdateHolds
  BY DEF FulfilmentInv
<1>2. CASE Begin(t)
  <2>1. asked' \in [Txs -> Requests]
    BY <1>1, <1>2 DEF Begin, TypeOK, Requests, StatusAssumption
  <2> QED
    BY <1>1, <1>2, <2>1, GotoType DEF Begin, TypeOK
<1>3. CASE CancelLock(t)
  <2>1. UNCHANGED <<order, shipment, asked>>
    BY <1>3 DEF CancelLock
  <2>2. CASE /\ Lock(t, "order", "update") /\ Goto(t, "write")
             /\ todo' = [todo EXCEPT ![t] = Labelled]
    <3>1. todo' \in [Txs -> SUBSET Creates]
      BY <1>1, <2>2 DEF TypeOK, Labelled
    <3> QED
      BY <1>1, <2>1, <2>2, <3>1, GotoType, LockType DEF TypeOK, Modes
  <2>3. CASE End(t, "ended")
    BY <1>1, <2>1, <2>3, EndType DEF TypeOK
  <2> QED
    BY <1>3, <2>2, <2>3 DEF CancelLock
<1>4. CASE CancelLabel(t)
  <2>1. UNCHANGED <<order, shipment, asked>>
    BY <1>4 DEF CancelLabel
  <2>2. ASSUME NEW n \in todo[t],
               Lock(t, n, "no key update") \/ UNCHANGED locks,
               todo' = [todo EXCEPT ![t] = @ \ {n}], UNCHANGED pc
        PROVE  TypeOK'
    <3>1. n \in Creates
      BY <1>1 DEF TypeOK
    <3>2. locks' \in [Txs -> SUBSET ((Creates \cup {"order"}) \X Modes)]
      BY <1>1, <2>2, <3>1, LockType DEF Modes, TypeOK
    <3>3. todo' \in [Txs -> SUBSET Creates]
      BY <1>1, <2>2 DEF TypeOK
    <3> QED
      BY <1>1, <2>1, <2>2, <3>2, <3>3 DEF TypeOK
  <2>3. CASE Goto(t, "commit") /\ UNCHANGED <<locks, todo>>
    BY <1>1, <2>1, <2>3, GotoType DEF TypeOK
  <2> QED
    BY <1>4, <2>2, <2>3 DEF CancelLabel
<1>5. CASE CancelCommit(t)
  <2>1. order' \in Statuses
    BY <1>5 DEF CancelCommit, Statuses
  <2>2. shipment' \in [Creates -> ShipmentStatuses \cup {None}]
    BY <1>1, <1>5 DEF CancelCommit, TypeOK, ShipmentStatuses
  <2> QED
    BY <1>1, <1>5, <2>1, <2>2, EndType DEF CancelCommit, TypeOK
<1>6. CASE TransitionLock(t)
  <2>1. UNCHANGED <<order, shipment, asked>>
    BY <1>6 DEF TransitionLock
  <2>2. CASE /\ Lock(t, "order", "update") /\ Goto(t, "commit")
             /\ UNCHANGED todo
    BY <1>1, <2>1, <2>2, GotoType, LockType DEF TypeOK, Modes
  <2>3. CASE End(t, "ended")
    BY <1>1, <2>1, <2>3, EndType DEF TypeOK
  <2> QED
    BY <1>6, <2>2, <2>3 DEF TransitionLock
<1>7. CASE TransitionCommit(t)
  <2>1. order' \in Statuses
    BY <1>1, <1>7, TransitionFacts
       DEF TransitionCommit, TransitionHolds, Legal, TypeOK
  <2> QED
    BY <1>1, <1>7, <2>1, EndType DEF TransitionCommit, TypeOK
<1>8. CASE CreateLook(t)
  BY <1>1, <1>8, GotoType, EndType DEF CreateLook, TypeOK
<1>9. CASE CreateInsert(t)
  BY <1>1, <1>9, GotoType, LockType
     DEF CreateInsert, LockForeignKey, TypeOK, Modes
<1>10. CASE CreateCommit(t)
  <2>1. shipment' \in [Creates -> ShipmentStatuses \cup {None}]
    BY <1>1, <1>10 DEF CreateCommit, TypeOK, ShipmentStatuses
  <2> QED
    BY <1>1, <1>10, <2>1, EndType DEF CreateCommit, TypeOK
<1>11. CASE UpdateLock(t)
  <2>1. UNCHANGED <<order, shipment, asked>> /\ asked[t].row \in Creates
    BY <1>1, <1>11 DEF UpdateLock, UpdateHolds
  <2>2. CASE /\ Lock(t, asked[t].row, "update") /\ Goto(t, "write")
             /\ UNCHANGED todo
    BY <1>1, <2>1, <2>2, GotoType, LockType DEF TypeOK, Modes
  <2>3. CASE End(t, "ended")
    BY <1>1, <2>1, <2>3, EndType DEF TypeOK
  <2> QED
    BY <1>11, <2>2, <2>3 DEF UpdateLock
<1>12. CASE UpdateOrder(t)
  <2>1. \/ UNCHANGED locks
        \/ Lock(t, "order", "no key update") \/ Lock(t, "order", "key share")
    BY <1>12 DEF UpdateOrder
  <2>2. locks' \in [Txs -> SUBSET ((Creates \cup {"order"}) \X Modes)]
    BY <1>1, <2>1, LockType DEF TypeOK, Modes
  <2> QED
    BY <1>1, <1>12, <2>2, GotoType DEF UpdateOrder, TypeOK
<1>13. CASE UpdateCommit(t)
  <2>1. order' \in Statuses
    BY <1>1, <1>13, OrderStatusFacts DEF UpdateCommit, UpdateHolds, TypeOK
  <2>2. shipment' \in [Creates -> ShipmentStatuses \cup {None}]
    BY <1>1, <1>13
       DEF UpdateCommit, UpdateHolds, StatusAssumption, TypeOK
  <2> QED
    BY <1>1, <1>13, <2>1, <2>2, EndType DEF UpdateCommit, TypeOK
<1>14. CASE RefundLock(t)
  BY <1>1, <1>14, GotoType, LockType DEF RefundLock, TypeOK, Modes
<1>15. CASE RefundCommit(t)
  BY <1>1, <1>15, EndType DEF RefundCommit, TypeOK, Statuses
<1>16. CASE WaitFails(t)
  BY <1>1, <1>16, EndType DEF WaitFails, TypeOK
<1> QED
  BY <1>2, <1>3, <1>4, <1>5, <1>6, <1>7, <1>8, <1>9, <1>10, <1>11, <1>12,
     <1>13, <1>14, <1>15, <1>16 DEF Step

-----------------------------------------------------------------------------
(* Each kind of transaction keeps what it has decided on *)

LEMMA CancelHoldsStep ==
    ASSUME FulfilmentInv, NamesAssumption, StatusAssumption, NEW t \in Txs,
           Begin(t) \/ Step(t) \/ WaitFails(t)
    PROVE  CancelHolds'
<1>1. TypeOK /\ LocksExclude /\ CancelHolds
  BY DEF FulfilmentInv
<1> SUFFICES ASSUME NEW u \in Cancels
             PROVE  /\ pc'[u] \in {"write", "commit"} =>
                           /\ <<"order", "update">> \in locks'[u]
                           /\ "cancelled" \in ALLOWED_TRANSITIONS[order']
                    /\ pc'[u] = "commit" => todo'[u] = {}
                    /\ \A n \in Creates :
                           <<n, "no key update">> \in locks'[u] =>
                               n \in Labelled'
  BY DEF CancelHolds
<1>2. u \in Txs
  BY DEF Txs
<1>3. CASE u # t
  <2>1. /\ pc'[u] = pc[u] /\ locks'[u] = locks[u] /\ todo'[u] = todo[u]
    BY <1>1, <1>2, <1>3, OthersStay
  <2>2. pc[u] \in {"write", "commit"} => order' = order
    BY <1>1, <1>2, <1>3, OrderIsHeld, HoldersExclude, ConflictFacts
       DEF CancelHolds
  <2>3. ASSUME NEW n \in Creates, <<n, "no key update">> \in locks[u]
        PROVE  n \in Labelled'
    <3>1. n \in Labelled /\ shipment[n] # None
      BY <1>1, <2>3 DEF CancelHolds, Labelled, None
    <3>2. <<n, "no key update">> \notin locks[t]
      BY <1>1, <1>2, <1>3, <2>3, HoldersExclude, ConflictFacts
    <3>3. <<n, "update">> \notin locks[t]
      BY <1>1, <1>2, <1>3, <2>3, HoldersExclude, ConflictFacts
    <3>4. shipment'[n] = shipment[n]
      BY <3>1, <3>2, <3>3, ShipmentIsHeld
    <3> QED
      BY <3>1, <3>4 DEF Labelled
  <2> QED
    BY <1>1, <2>1, <2>2, <2>3 DEF CancelHolds
<1>4. CASE u = t
  <2>1. CASE CancelLock(t)
    <3>1. CASE End(t, "ended")
      <4>1. pc'[t] = "ended" /\ locks'[t] = {}
        BY <1>1, <3>1, EndEffect
      <4> QED
        BY <1>4, <4>1
    <3>2. CASE /\ "cancelled" \in ALLOWED_TRANSITIONS[order]
               /\ Lock(t, "order", "update") /\ Goto(t, "write")
      <4>1. locks'[t] = locks[t] \cup {<<"order", "update">>}
        BY <1>1, <3>2, LockEffect
      <4>2. \A n \in Creates : <<n, "no key update">> \in locks'[t] =>
                                   <<n, "no key update">> \in locks[t]
        BY <4>1
      <4>3. order' = order /\ shipment' = shipment /\ pc'[t] = "write"
        BY <1>1, <2>1, <3>2, GotoEffect DEF CancelLock
      <4> QED
        BY <1>1, <1>4, <3>2, <4>1, <4>2, <4>3 DEF CancelHolds, Labelled
    <3> QED
      BY <2>1, <3>1, <3>2 DEF CancelLock
  <2>2. CASE CancelLabel(t)
    <3>1. order' = order /\ shipment' = shipment /\ pc[t] = "write"
      BY <2>2 DEF CancelLabel
    <3>2. ASSUME NEW n, Lock(t, n, "no key update"), n \in Labelled, pc' = pc
          PROVE  /\ <<"order", "update">> \in locks'[t] /\ pc'[t] = "write"
                 /\ \A m \in Creates : <<m, "no key update">> \in locks'[t] =>
                                           m \in Labelled'
      <4>1. locks'[t] = locks[t] \cup {<<n, "no key update">>}
        BY <1>1, <3>2, LockEffect
      <4> QED
        BY <1>1, <1>4, <3>1, <3>2, <4>1 DEF CancelHolds, Labelled
    <3>3. CASE \E n \in todo[t] : /\ StillLabelled(n)
                                  /\ Lock(t, n, "no key update")
                                  /\ pc' = pc
      BY <1>1, <1>4, <3>1, <3>2, <3>3 DEF CancelHolds, StillLabelled
    <3>4. CASE locks' = locks /\ pc' = pc
      BY <1>1, <1>4, <3>1, <3>4 DEF CancelHolds, Labelled
    <3>5. CASE todo[t] = {} /\ Goto(t, "commit") /\ UNCHANGED <<locks, todo>>
      BY <1>1, <1>4, <3>1, <3>5 DEF CancelHolds, Labelled
    <3> QED
      BY <2>2, <3>3, <3>4, <3>5 DEF CancelLabel
  <2>3. CASE CancelCommit(t) \/ WaitFails(t)
    <3>1. pc'[t] \in {"ended", "aborted"} /\ locks'[t] = {}
      BY <1>1, <2>3, EndEffect DEF CancelCommit, WaitFails
    <3> QED
      BY <1>4, <3>1
  <2>4. CASE Begin(t)
    <3>1. /\ pc'[t] = "begun" /\ locks' = locks
          /\ UNCHANGED <<order, shipment>>
      BY <1>1, <2>4, GotoEffect DEF Begin
    <3> QED
      BY <1>1, <1>4, <3>1 DEF CancelHolds, Labelled
  <2> QED
    BY <1>4, <2>1, <2>2, <2>3, <2>4, KindsAreDisjoint
       DEF Step, TransitionLock, TransitionCommit, CreateLook, CreateInsert,
           CreateCommit, UpdateLock, UpdateOrder, UpdateCommit, RefundLock,
           RefundCommit
<1> QED
  BY <1>3, <1>4

LEMMA TransitionHoldsStep ==
    ASSUME FulfilmentInv, NamesAssumption, NEW t \in Txs,
           Begin(t) \/ Step(t) \/ WaitFails(t)
    PROVE  TransitionHolds'
<1>1. TypeOK /\ LocksExclude /\ TransitionHolds
  BY DEF FulfilmentInv
<1> SUFFICES ASSUME NEW u \in Transitions, pc'[u] = "commit"
             PROVE  /\ <<"order", "update">> \in locks'[u]
                    /\ Legal(order', asked'[u].status)
  BY DEF TransitionHolds, Legal
<1>2. u \in Txs
  BY DEF Txs
<1>3. CASE u # t
  <2>1. /\ pc'[u] = pc[u] /\ locks'[u] = locks[u] /\ asked'[u] = asked[u]
    BY <1>1, <1>2, <1>3, OthersStay
  <2>2. /\ <<"order", "update">> \in locks[u]
        /\ Legal(order, asked[u].status)
    BY <1>1, <2>1 DEF TransitionHolds
  <2>3. order' = order
    BY <1>1, <1>2, <1>3, <2>2, OrderIsHeld, HoldersExclude, ConflictFacts
  <2> QED
    BY <2>1, <2>2, <2>3
<1>4. CASE u = t
  <2>1. ASSUME End(t, "ended") \/ End(t, "aborted") \/ Goto(t, "begun")
        PROVE  FALSE
    BY <1>1, <1>4, <2>1, EndEffect, GotoEffect
  <2>2. TransitionLock(t)
    BY <1>4, <2>1, KindsAreDisjoint
       DEF Begin, Step, CancelLock, CancelLabel, CancelCommit,
           TransitionCommit, CreateLook, CreateInsert, CreateCommit,
           UpdateLock, UpdateOrder, UpdateCommit, RefundLock, RefundCommit,
           WaitFails
  <2>3. /\ Legal(order, asked[t].status) /\ Lock(t, "order", "update")
        /\ order' = order /\ asked' = asked
    BY <2>1, <2>2 DEF TransitionLock
  <2>4. <<"order", "update">> \in locks'[t]
    BY <1>1, <2>3, LockEffect
  <2> QED
    BY <1>4, <2>3, <2>4
<1> QED
  BY <1>3, <1>4

LEMMA CreateHoldsStep ==
    ASSUME FulfilmentInv, NamesAssumption, StatusAssumption, NEW t \in Txs,
           Begin(t) \/ Step(t) \/ WaitFails(t)
    PROVE  CreateHolds'
<1>1. TypeOK /\ CreateHolds
  BY DEF FulfilmentInv
<1> SUFFICES ASSUME NEW u \in Creates
             PROVE  /\ pc'[u] # "ended" => shipment'[u] = None
                    /\ pc'[u] = "commit" =>
                           <<"order", "key share">> \in locks'[u]
  BY DEF CreateHolds
<1>2. u \in Txs
  BY DEF Txs
<1>3. CASE u # t
  <2>1. pc'[u] = pc[u] /\ locks'[u] = locks[u]
    BY <1>1, <1>2, <1>3, OthersStay
  <2>2. shipment[u] = None => shipment'[u] = None
    BY <1>3, ShipmentIsHeld
  <2> QED
    BY <1>1, <2>1, <2>2 DEF CreateHolds
<1>4. CASE u = t
  <2>1. CASE CreateCommit(t)
    <3>1. pc'[t] = "ended"
      BY <1>1, <2>1, EndEffect DEF CreateCommit
    <3> QED
      BY <1>4, <3>1
  <2>2. CASE CreateInsert(t)
    <3>1. Lock(t, "order", "key share") /\ pc[t] = "write"
          /\ shipment' = shipment
      BY <2>2 DEF CreateInsert, LockForeignKey
    <3>2. locks'[t] = locks[t] \cup {<<"order", "key share">>}
      BY <1>1, <3>1, LockEffect
    <3> QED
      BY <1>1, <1>4, <3>1, <3>2 DEF CreateHolds
  <2>3. CASE Begin(t) \/ CreateLook(t) \/ WaitFails(t)
    <3>1. pc[t] # "ended" /\ shipment' = shipment
      BY <2>3 DEF Begin, CreateLook, WaitFails, Waits, Wants
    <3>2. pc'[t] # "commit"
      BY <1>1, <2>3, GotoEffect, EndEffect DEF Begin, CreateLook, WaitFails
    <3> QED
      BY <1>1, <1>4, <3>1, <3>2 DEF CreateHolds
  <2> QED
    BY <1>4, <2>1, <2>2, <2>3, KindsAreDisjoint
       DEF Step, CancelLock, CancelLabel, CancelCommit, TransitionLock,
           TransitionCommit, UpdateLock, UpdateOrder, UpdateCommit,
           RefundLock, RefundCommit
<1> QED
  BY <1>3, <1>4

LEMMA UpdateHoldsStep ==
    ASSUME FulfilmentInv, NamesAssumption, StatusAssumption, NEW t \in Txs,
           Begin(t) \/ Step(t) \/ WaitFails(t)
    PROVE  UpdateHolds'
<1>1. TypeOK /\ LocksExclude /\ UpdateHolds
  BY DEF FulfilmentInv
<1> SUFFICES ASSUME NEW u \in Updates
             PROVE  /\ pc'[u] # "idle" =>
                           /\ asked'[u].row \in Creates
                           /\ asked'[u].status \in Reported
                           /\ shipment'[asked'[u].row] # None
                    /\ pc'[u] \in {"write", "commit"} =>
                           <<asked'[u].row, "update">> \in locks'[u]
                    /\ <<"order", "no key update">> \in locks'[u] =>
                           /\ pc'[u] = "commit"
                           /\ Open(order')
                           /\ OrderStatusFor(asked'[u].status) # None
  BY DEF UpdateHolds, Open
<1>2. u \in Txs
  BY DEF Txs
<1>3. \A n \in Creates : shipment[n] # None => shipment'[n] # None
  BY ShipmentIsHeld
<1>4. CASE u # t
  <2>1. /\ pc'[u] = pc[u] /\ locks'[u] = locks[u] /\ asked'[u] = asked[u]
    BY <1>1, <1>2, <1>4, OthersStay
  <2>2. <<"order", "no key update">> \in locks[u] => order' = order
    BY <1>1, <1>2, <1>4, OrderIsHeld, HoldersExclude, ConflictFacts
  <2> QED
    BY <1>1, <1>3, <2>1, <2>2 DEF UpdateHolds
<1>5. CASE u = t
  <2>1. CASE Begin(t)
    <3>1. PICK n \in Creates, s \in Reported :
              /\ shipment[n] # None
              /\ asked' = [asked EXCEPT ![t] = [row |-> n, status |-> s]]
      BY <1>5, <2>1, KindsAreDisjoint DEF Begin
    <3>2. asked'[t] = [row |-> n, status |-> s]
      BY <1>1, <3>1 DEF TypeOK
    <3>3. /\ pc'[t] = "begun" /\ pc[t] = "idle"
          /\ locks' = locks /\ shipment' = shipment
      BY <1>1, <2>1, GotoEffect DEF Begin
    <3>4. <<"order", "no key update">> \notin locks'[t]
      BY <1>1, <1>5, <3>3 DEF UpdateHolds
    <3>5. asked'[u].row = n /\ asked'[u].status = s
      BY <1>5, <3>2
    <3>6. shipment'[asked'[u].row] # None
      BY <3>1, <3>3, <3>5
    <3> QED
      BY <1>5, <3>3, <3>4, <3>5, <3>6
  <2>2. CASE UpdateLock(t)
    <3>1. /\ pc[t] = "begun" /\ asked' = asked /\ shipment' = shipment
          /\ asked[t].row \in Creates
      BY <1>1, <1>5, <2>2 DEF UpdateLock, UpdateHolds
    <3>2. CASE End(t, "ended")
      <4>1. pc'[t] = "ended" /\ locks'[t] = {}
        BY <1>1, <3>2, EndEffect
      <4> QED
        BY <1>1, <1>5, <3>1, <4>1 DEF UpdateHolds
    <3>3. CASE Lock(t, asked[t].row, "update") /\ Goto(t, "write")
      <4>1. locks'[t] = locks[t] \cup {<<asked[t].row, "update">>}
        BY <1>1, <3>3, LockEffect
      <4>2. pc'[t] = "write"
        BY <1>1, <3>3, GotoEffect
      <4>3. <<"order", "no key update">> \notin locks'[t]
        BY <1>1, <1>5, <3>1, <4>1 DEF UpdateHolds
      <4> QED
        BY <1>1, <1>5, <3>1, <4>1, <4>2, <4>3 DEF UpdateHolds
    <3> QED
      BY <2>2, <3>2, <3>3 DEF UpdateLock
  <2>3. CASE UpdateOrder(t)
    <3>1. /\ pc[t] = "write" /\ asked' = asked /\ shipment' = shipment
          /\ order' = order
      BY <2>3 DEF UpdateOrder
    <3>2. pc'[t] = "commit"
      BY <1>1, <2>3, GotoEffect DEF UpdateOrder
    <3>3. /\ locks[t] \subseteq locks'[t]
          /\ <<"order", "no key update">> \in locks'[t] =>
                 \/ <<"order", "no key update">> \in locks[t]
                 \/ Open(order) /\ OrderStatusFor(asked[t].status) # None
      <4>1. CASE locks' = locks
        BY <4>1
      <4>2. CASE /\ OrderStatusFor(asked[t].status) # None
                 /\ Open(order) /\ Lock(t, "order", "no key update")
        BY <1>1, <4>2, LockEffect
      <4>3. CASE Lock(t, "order", "key share")
        <5>1. locks'[t] = locks[t] \cup {<<"order", "key share">>}
          BY <1>1, <4>3, LockEffect
        <5> QED
          BY <5>1
      <4> QED
        BY <2>3, <4>1, <4>2, <4>3 DEF UpdateOrder
    <3> QED
      BY <1>1, <1>5, <3>1, <3>2, <3>3 DEF UpdateHolds
  <2>4. CASE UpdateCommit(t) \/ WaitFails(t)
    <3>1. pc'[t] \in {"ended", "aborted"} /\ locks'[t] = {}
      BY <1>1, <2>4, EndEffect DEF UpdateCommit, WaitFails
    <3>2. pc[t] # "idle" /\ asked' = asked
      BY <2>4 DEF UpdateCommit, WaitFails, Waits, Wants
    <3> QED
      BY <1>1, <1>3, <1>5, <3>1, <3>2 DEF UpdateHolds
  <2> QED
    BY <1>5, <2>1, <2>2, <2>3, <2>4, KindsAreDisjoint
       DEF Step, CancelLock, CancelLabel, CancelCommit, TransitionLock,
           TransitionCommit, CreateLook, CreateInsert, CreateCommit,
           RefundLock, RefundCommit
<1> QED
  BY <1>4, <1>5

LEMMA RefundHoldsStep ==
    ASSUME FulfilmentInv, NamesAssumption, NEW t \in Txs,
           Begin(t) \/ Step(t) \/ WaitFails(t)
    PROVE  RefundHolds'
<1>1. TypeOK /\ RefundHolds
  BY DEF FulfilmentInv
<1> SUFFICES ASSUME NEW u \in Refunds, pc'[u] = "commit"
             PROVE  <<"order", "no key update">> \in locks'[u]
  BY DEF RefundHolds
<1>2. u \in Txs
  BY DEF Txs
<1>3. CASE u # t
  BY <1>1, <1>2, <1>3, OthersStay DEF RefundHolds
<1>4. CASE u = t
  <2>1. ASSUME End(t, "ended") \/ End(t, "aborted") \/ Goto(t, "begun")
        PROVE  FALSE
    BY <1>1, <1>4, <2>1, EndEffect, GotoEffect
  <2>2. RefundLock(t)
    BY <1>4, <2>1, KindsAreDisjoint
       DEF Begin, Step, CancelLock, CancelLabel, CancelCommit,
           TransitionLock, TransitionCommit, CreateLook, CreateInsert,
           CreateCommit, UpdateLock, UpdateOrder, UpdateCommit, RefundCommit,
           WaitFails
  <2>3. locks'[t] = locks[t] \cup {<<"order", "no key update">>}
    BY <1>1, <2>2, LockEffect DEF RefundLock
  <2> QED
    BY <1>4, <2>3
<1> QED
  BY <1>3, <1>4

LEMMA FulfilmentStep ==
    ASSUME FulfilmentInv, NamesAssumption, StatusAssumption, [Next]_vars
    PROVE  FulfilmentInv'
<1>1. CASE UNCHANGED vars
  BY <1>1 DEF vars, FulfilmentInv, TypeOK, LocksExclude, CancelHolds, Labelled,
              TransitionHolds, CreateHolds, UpdateHolds, RefundHolds
<1>2. ASSUME NEW t \in Txs, Begin(t) \/ Step(t) \/ WaitFails(t)
      PROVE  FulfilmentInv'
  <2>1. TypeOK' /\ LocksExclude'
    BY <1>2, TypeStep, LocksStep DEF FulfilmentInv
  <2> QED
    BY <1>2, <2>1, CancelHoldsStep, TransitionHoldsStep, CreateHoldsStep,
       UpdateHoldsStep, RefundHoldsStep DEF FulfilmentInv
<1> QED
  BY <1>1, <1>2 DEF Next

-----------------------------------------------------------------------------
(* What a cancellation finds *)

\* A report that has ended is not taken back.
LEMMA ReportsStay ==
    ASSUME TypeOK, NamesAssumption, [Next]_vars, NEW n, NEW s, Reports(n, s)
    PROVE  Reports(n, s)'
<1>1. PICK u \in Updates :
          pc[u] = "ended" /\ asked[u].row = n /\ asked[u].status = s
  BY DEF Reports
<1>2. u \in Txs
  BY DEF Txs
<1>3. pc'[u] = pc[u] /\ asked'[u] = asked[u]
  <2>1. CASE UNCHANGED vars
    BY <2>1 DEF vars
  <2>2. ASSUME NEW t \in Txs, t # u, Begin(t) \/ Step(t) \/ WaitFails(t)
        PROVE  pc'[u] = pc[u] /\ asked'[u] = asked[u]
    BY <1>2, <2>2, OthersStay
  <2>3. ~(Begin(u) \/ Step(u) \/ WaitFails(u))
    BY <1>1, KindsAreDisjoint
       DEF Begin, Step, CancelLock, CancelLabel, CancelCommit, TransitionLock,
           TransitionCommit, CreateLook, CreateInsert, CreateCommit,
           UpdateLock, UpdateOrder, UpdateCommit, RefundLock, RefundCommit,
           WaitFails, Waits, Wants
  <2> QED
    BY <2>1, <2>2, <2>3 DEF Next
<1> QED
  BY <1>1, <1>3 DEF Reports

\* While a cancellation has the order, no shipment is inserted: the labels it
\* has seen are all there are, but for those that a carrier brings back.
LEMMA LabelsReachedStep ==
    ASSUME FulfilmentInv, LabelsReached, NamesAssumption, StatusAssumption,
           [Next]_vars
    PROVE  LabelsReached'
<1>1. /\ TypeOK /\ LocksExclude /\ CancelHolds /\ CreateHolds /\ UpdateHolds
  BY DEF FulfilmentInv
<1> DEFINE Reached(u, n) == \/ n \in todo[u]
                            \/ <<n, "no key update">> \in locks[u]
                            \/ Reports(n, shipment[n])
<1> SUFFICES ASSUME NEW u \in Cancels, pc'[u] \in {"write", "commit"},
                    NEW n \in Labelled'
             PROVE  Reached(u, n)'
  BY DEF LabelsReached
<1>2. /\ u \in Txs /\ n \in Creates
      /\ shipment'[n] \in {"pending", "label_created"}
  BY DEF Txs, Labelled
<1>3. CASE UNCHANGED vars
  BY <1>3 DEF vars, LabelsReached, Labelled, Reports
<1>4. ASSUME NEW t \in Txs, t # u, Begin(t) \/ Step(t) \/ WaitFails(t)
      PROVE  Reached(u, n)'
  <2>1. /\ pc'[u] = pc[u] /\ locks'[u] = locks[u] /\ todo'[u] = todo[u]
    BY <1>1, <1>2, <1>4, OthersStay
  <2>2. <<"order", "update">> \in locks[u]
    BY <1>1, <2>1 DEF CancelHolds
  <2>3. ~CreateCommit(t)
    <3>1. <<"order", "key share">> \notin locks[t]
      BY <1>1, <1>2, <1>4, <2>2, HoldersExclude, ConflictFacts
    <3> QED
      BY <1>1, <3>1 DEF CreateCommit, CreateHolds
  <2>4. CASE UpdateCommit(t) /\ asked[t].row = n
    <3>1. /\ t \in Updates
          /\ shipment' = [shipment EXCEPT ![n] = asked[t].status]
          /\ asked' = asked /\ pc'[t] = "ended"
      BY <1>1, <1>4, <2>4, EndEffect DEF UpdateCommit
    <3>2. shipment'[n] = asked[t].status
      BY <1>1, <1>2, <3>1 DEF TypeOK
    <3> QED
      BY <2>4, <3>1, <3>2 DEF Reports
  <2>5. CASE ~(UpdateCommit(t) /\ asked[t].row = n)
    <3>1. shipment'[n] = shipment[n]
      <4>1. CASE CancelCommit(t)
        BY <1>2, <4>1 DEF CancelCommit
      <4> QED
        BY <1>2, <1>4, <2>3, <2>5, <4>1, ShipmentIsHeld
    <3>2. n \in Labelled
      BY <1>2, <3>1 DEF Labelled
    <3>3. Reached(u, n)
      BY <2>1, <3>2 DEF LabelsReached
    <3>4. ASSUME Reports(n, shipment[n])
          PROVE  Reports(n, shipment[n])'
      <4>1. \E w \in Updates : /\ pc'[w] = "ended" /\ asked'[w].row = n
                               /\ asked'[w].status = shipment[n]
        BY <1>1, <3>4, ReportsStay DEF Reports
      <4> QED
        BY <3>1, <4>1 DEF Reports
    <3> QED
      BY <2>1, <3>3, <3>4
  <2> QED
    BY <2>4, <2>5
<1>5. ASSUME Begin(u) \/ Step(u) \/ WaitFails(u)
      PROVE  Reached(u, n)'
  <2>1. ASSUME End(u, "ended") \/ End(u, "aborted") \/ Goto(u, "begun")
        PROVE  FALSE
    BY <1>1, <1>2, <2>1, EndEffect, GotoEffect
  <2>2. CancelLock(u) \/ CancelLabel(u)
    BY <1>5, <2>1, KindsAreDisjoint
       DEF Begin, Step, CancelCommit, TransitionLock, TransitionCommit,
           CreateLook, CreateInsert, CreateCommit, UpdateLock, UpdateOrder,
           UpdateCommit, RefundLock, RefundCommit, WaitFails
  <2>3. shipment' = shipment /\ n \in Labelled
    BY <2>2 DEF CancelLock, CancelLabel, Labelled
  <2>4. CASE CancelLock(u)
    <3>1. todo' = [todo EXCEPT ![u] = Labelled]
      BY <2>1, <2>4 DEF CancelLock
    <3> QED
      BY <1>1, <1>2, <2>3, <3>1 DEF TypeOK
  <2>5. CASE CancelLabel(u)
    <3>1. Reached(u, n)
      BY <2>3, <2>5 DEF CancelLabel, LabelsReached
    <3>2. ASSUME Reports(n, shipment[n])
          PROVE  Reports(n, shipment[n])'
      BY <1>1, <2>3, <3>2, ReportsStay DEF Reports
    <3>3. CASE todo' = todo /\ locks' = locks
      BY <3>1, <3>2, <3>3
    <3>4. ASSUME NEW m \in todo[u],
                 IF StillLabelled(m) THEN Lock(u, m, "no key update")
                                     ELSE UNCHANGED locks,
                 todo' = [todo EXCEPT ![u] = @ \ {m}]
          PROVE  Reached(u, n)'
      <4>1. todo'[u] = todo[u] \ {m}
        BY <1>1, <1>2, <3>4 DEF TypeOK
      <4>2. CASE ~StillLabelled(m)
        BY <2>3, <3>1, <3>2, <3>4, <4>1, <4>2 DEF StillLabelled
      <4>3. CASE StillLabelled(m)
        <5>1. locks'[u] = locks[u] \cup {<<m, "no key update">>}
          BY <1>1, <1>2, <3>4, <4>3, LockEffect
        <5> QED
          BY <3>1, <3>2, <4>1, <5>1
      <4> QED
        BY <4>2, <4>3
    <3> QED
      BY <2>5, <3>3, <3>4 DEF CancelLabel
  <2> QED
    BY <2>2, <2>4, <2>5
<1> QED
  BY <1>3, <1>4, <1>5 DEF Next

LEMMA ClosedStep ==
    ASSUME FulfilmentInv, NamesAssumption, [Next]_vars
    PROVE  ClosedStaysClosed
<1>1. CASE UNCHANGED vars
  BY <1>1 DEF vars, ClosedStaysClosed
<1>2. ASSUME NEW t \in Txs, CancelCommit(t)
      PROVE  order \notin {"cancelled", "refunded"}
  BY <1>2, TransitionFacts DEF CancelCommit, FulfilmentInv, CancelHolds
<1>3. ASSUME NEW t \in Txs, TransitionCommit(t)
      PROVE  order \notin {"cancelled", "refunded"}
  BY <1>3, TransitionFacts
     DEF TransitionCommit, FulfilmentInv, TransitionHolds, Legal
<1>4. ASSUME NEW t \in Txs, UpdateCommit(t)
      PROVE  order' = order \/ order \notin {"cancelled", "refunded"}
  BY <1>4 DEF UpdateCommit, FulfilmentInv, UpdateHolds, Open
<1>5. ASSUME NEW t \in Txs, Begin(t) \/ Step(t) \/ WaitFails(t)
      PROVE  ClosedStaysClosed
  BY <1>2, <1>3, <1>4, <1>5, Writers
     DEF CreateCommit, RefundCommit, ClosedStaysClosed
<1> QED
  BY <1>1, <1>5 DEF Next

\* The step in which a cancellation ends well is its COMMIT.
LEMMA CancellingCommits ==
    ASSUME FulfilmentInv, NamesAssumption, [Next]_vars, Cancelling
    PROVE  \E t \in Cancels : CancelCommit(t)
<1>1. TypeOK
  BY DEF FulfilmentInv
<1>2. PICK t \in Cancels : pc[t] = "commit" /\ pc'[t] = "ended"
  BY DEF Cancelling
<1>3. t \in Txs
  BY DEF Txs
<1>4. PICK u \in Txs : Begin(u) \/ Step(u) \/ WaitFails(u)
  BY <1>2 DEF Next, vars
<1>5. u = t
  BY <1>1, <1>2, <1>3, <1>4, OthersStay
<1> QED
  BY <1>2, <1>4, <1>5, KindsAreDisjoint
     DEF Begin, Step, CancelLock, CancelLabel, TransitionLock,
         TransitionCommit, CreateLook, CreateInsert, CreateCommit, UpdateLock,
         UpdateOrder, UpdateCommit, RefundLock, RefundCommit, WaitFails,
         Waits, Wants

LEMMA ParcelsStep ==
    ASSUME FulfilmentInv, NamesAssumption, [Next]_vars
    PROVE  CancelSparesParcels
<1> SUFFICES ASSUME Cancelling, NEW n \in Creates,
                    shipment[n] \notin {"pending", "label_created"}
             PROVE  shipment'[n] = shipment[n]
  BY DEF CancelSparesParcels
<1>1. PICK t \in Cancels : CancelCommit(t)
  BY CancellingCommits
<1>2. <<n, "no key update">> \notin locks[t]
  BY DEF FulfilmentInv, CancelHolds, Labelled
<1> QED
  BY <1>1, <1>2 DEF CancelCommit

LEMMA LabelsStep ==
    ASSUME FulfilmentInv, LabelsReached, NamesAssumption, [Next]_vars
    PROVE  NoLabelWhenCancelled
<1> SUFFICES ASSUME Cancelling, NEW n \in Creates,
                    shipment'[n] \in {"pending", "label_created"}
             PROVE  Reports(n, shipment'[n])
  BY DEF NoLabelWhenCancelled
<1>1. PICK t \in Cancels : CancelCommit(t)
  BY CancellingCommits
<1>2. n \in Labelled => \/ <<n, "no key update">> \in locks[t]
                        \/ Reports(n, shipment[n])
  BY <1>1 DEF CancelCommit, FulfilmentInv, CancelHolds, LabelsReached
<1>3. <<n, "no key update">> \notin locks[t] /\ shipment'[n] = shipment[n]
  BY <1>1 DEF CancelCommit
<1> QED
  BY <1>2, <1>3 DEF Labelled

-----------------------------------------------------------------------------
(* Theorems *)

\* The types, the locks and what each transaction under way has decided on
\* hold together, for any transactions of the five kinds.
THEOREM FulfilmentCorrect ==
    ASSUME NamesAssumption, StatusAssumption
    PROVE  Spec => []FulfilmentInv
<1>1. Init => FulfilmentInv
  BY InitFulfilment
<1>2. FulfilmentInv /\ [Next]_vars => FulfilmentInv'
  BY FulfilmentStep
<1> QED
  BY <1>1, <1>2, PTL DEF Spec

\* cancelOrder, updateStatus, createShipment, updateShipmentStatus and
\* refundPayment keep the types of orders, shipments and locks.
THEOREM FulfilmentTypeCorrect ==
    ASSUME NamesAssumption, StatusAssumption
    PROVE  Spec => []TypeOK
<1>1. FulfilmentInv => TypeOK
  BY DEF FulfilmentInv
<1> QED
  BY <1>1, FulfilmentCorrect, PTL

\* Whatever status carriers report and administrators ask for, a cancelled
\* order is at most refunded, a refunded one stays so, and a cancellation
\* leaves the parcels alone that have no label any more.
THEOREM CancelledStaysCancelled ==
    ASSUME NamesAssumption, StatusAssumption
    PROVE  Spec => [][ClosedStaysClosed /\ CancelSparesParcels]_vars
<1>1. FulfilmentInv /\ [Next]_vars =>
          [ClosedStaysClosed /\ CancelSparesParcels]_vars
  BY ClosedStep, ParcelsStep
<1> QED
  BY <1>1, FulfilmentCorrect, PTL DEF Spec

\* A cancellation that commits leaves no good label behind either that a
\* carrier has not reported, although createShipment looks at the order
\* without locking it: the foreign key of the row that it inserts locks it.
THEOREM FulfilmentCancelIsFinal ==
    ASSUME NamesAssumption, StatusAssumption
    PROVE  Spec => CancelIsFinal
<1>1. Init => LabelsReached
  BY DEF Init, LabelsReached, Txs
<1>2. FulfilmentInv /\ LabelsReached /\ [Next]_vars => LabelsReached'
  BY LabelsReachedStep
<1>3. FulfilmentInv /\ LabelsReached /\ [Next]_vars =>
          [/\ ClosedStaysClosed
           /\ NoLabelWhenCancelled
           /\ CancelSparesParcels]_vars
  BY ClosedStep, ParcelsStep, LabelsStep
<1> QED
  BY <1>1, <1>2, <1>3, FulfilmentCorrect, PTL DEF Spec, CancelIsFinal

-----------------------------------------------------------------------------
(* Side by side (MCShop) *)

\* The part that runs is the one that began.
LEMMA PartStays == [MCNext]_state => part' = part
BY DEF MCNext, Unused, state

\* Each part of the run is the one that StorePartsProofs is about.
LEMMA SameRun ==
    /\ Run!Init <=> First!Generation!Init
    /\ Run!Next <=> First!Generation!Next
    /\ Run!SkipIsTrue <=> First!Generation!SkipIsTrue
    /\ Run!RowIsSettled <=> First!Generation!RowIsSettled
    /\ Run!NeverEmptied <=> First!Generation!NeverEmptied
    /\ Run!RunAssumption <=> First!Generation!RunAssumption
BY DEF Run!RunAssumption, First!Generation!RunAssumption, Run!Statements,
    First!Generation!Statements, Run!Init,
    First!Generation!Init, Run!Paid, First!Generation!Paid, Run!Purchased,
    First!Generation!Purchased, Run!Together, First!Generation!Together,
    Run!OrderCount, First!Generation!OrderCount, Run!Scores,
    First!Generation!Scores, Run!Take, First!Generation!Take, Run!Related,
    First!Generation!Related, Run!Ranked, First!Generation!Ranked,
    Run!AffinityNext, First!Generation!AffinityNext, Run!EverythingRelated,
    First!Generation!EverythingRelated, Run!Recommendable,
    First!Generation!Recommendable, Run!RecsNext, First!Generation!RecsNext,
    Run!Goto, First!Generation!Goto, Run!Start, First!Generation!Start,
    Run!InsertRun, First!Generation!InsertRun, Run!Compute,
    First!Generation!Compute, Run!Isolated, First!Generation!Isolated,
    Run!Delete, First!Generation!Delete, Run!Insert, First!Generation!Insert,
    Run!Commit, First!Generation!Commit, Run!ClearsFlag,
    First!Generation!ClearsFlag, Run!Complete, First!Generation!Complete,
    Run!Catches, First!Generation!Catches, Run!Throws, First!Generation!Throws,
    Run!Fail, First!Generation!Fail, Run!Crash, First!Generation!Crash,
    Run!Run, First!Generation!Run, Run!Batch, First!Generation!Batch,
    Run!Order, First!Generation!Order, Run!View, First!Generation!View,
    Run!CancelOrder, First!Generation!CancelOrder, Run!SellOut,
    First!Generation!SellOut, Run!Next, First!Generation!Next, Run!SkipIsTrue,
    First!Generation!SkipIsTrue, Run!RowIsSettled,
    First!Generation!RowIsSettled, Run!NeverEmptied,
    First!Generation!NeverEmptied, Run!Cardinality,
    First!Generation!Cardinality, Run!IsFiniteSet,
    First!Generation!IsFiniteSet, Run!kSubset, First!Generation!kSubset

LEMMA SameShelves ==
    /\ Shelves!Init <=> Second!Generation!Init
    /\ Shelves!Next <=> Second!Generation!Next
    /\ Shelves!ShelfPopulated <=> Second!Generation!ShelfPopulated
    /\ Shelves!RunAssumption <=> Second!Generation!RunAssumption
BY DEF Shelves!RunAssumption, Second!Generation!RunAssumption,
    Shelves!Statements, Second!Generation!Statements, Shelves!Init,
    Second!Generation!Init, Shelves!Paid, Second!Generation!Paid,
    Shelves!Purchased, Second!Generation!Purchased, Shelves!Together,
    Second!Generation!Together, Shelves!OrderCount,
    Second!Generation!OrderCount, Shelves!Scores, Second!Generation!Scores,
    Shelves!Take, Second!Generation!Take, Shelves!Related,
    Second!Generation!Related, Shelves!Ranked, Second!Generation!Ranked,
    Shelves!AffinityNext, Second!Generation!AffinityNext,
    Shelves!EverythingRelated, Second!Generation!EverythingRelated,
    Shelves!Recommendable, Second!Generation!Recommendable, Shelves!RecsNext,
    Second!Generation!RecsNext, Shelves!Goto, Second!Generation!Goto,
    Shelves!Start, Second!Generation!Start, Shelves!InsertRun,
    Second!Generation!InsertRun, Shelves!Compute, Second!Generation!Compute,
    Shelves!Isolated, Second!Generation!Isolated, Shelves!Delete,
    Second!Generation!Delete, Shelves!Insert, Second!Generation!Insert,
    Shelves!Commit, Second!Generation!Commit, Shelves!ClearsFlag,
    Second!Generation!ClearsFlag, Shelves!Complete, Second!Generation!Complete,
    Shelves!Catches, Second!Generation!Catches, Shelves!Throws,
    Second!Generation!Throws, Shelves!Fail, Second!Generation!Fail,
    Shelves!Crash, Second!Generation!Crash, Shelves!Run, Second!Generation!Run,
    Shelves!Batch, Second!Generation!Batch, Shelves!Order,
    Second!Generation!Order, Shelves!View, Second!Generation!View,
    Shelves!CancelOrder, Second!Generation!CancelOrder, Shelves!SellOut,
    Second!Generation!SellOut, Shelves!Next, Second!Generation!Next,
    Shelves!AFew, Second!Generation!AFew, Shelves!Popular,
    Second!Generation!Popular, Shelves!ForMe, Second!Generation!ForMe,
    Shelves!LastResort, Second!Generation!LastResort, Shelves!RelatedShelf,
    Second!Generation!RelatedShelf, Shelves!ShelfPopulated,
    Second!Generation!ShelfPopulated, Shelves!Cardinality,
    Second!Generation!Cardinality, Shelves!IsFiniteSet,
    Second!Generation!IsFiniteSet, Shelves!kSubset, Second!Generation!kSubset

LEMMA SameReviews ==
    /\ Reviews!Init <=> First!Rollup!Init
    /\ Reviews!Next <=> First!Rollup!Next
    /\ Reviews!NeverDrifts <=> First!Rollup!NeverDrifts
    /\ Reviews!SearchReflects <=> First!Rollup!SearchReflects
    /\ Reviews!ReviewAssumption <=> First!Rollup!ReviewAssumption
BY DEF Reviews!ReviewAssumption, First!Rollup!ReviewAssumption, Reviews!None,
    First!Rollup!None, Reviews!NoReview, First!Rollup!NoReview,
    Reviews!Published, First!Rollup!Published, Reviews!Ended,
    First!Rollup!Ended, Reviews!Idle, First!Rollup!Idle, Reviews!Init,
    First!Rollup!Init, Reviews!Put, First!Rollup!Put, Reviews!Goto,
    First!Rollup!Goto, Reviews!Open, First!Rollup!Open, Reviews!MayReview,
    First!Rollup!MayReview, Reviews!Begin, First!Rollup!Begin, Reviews!NewRows,
    First!Rollup!NewRows, Reviews!LockRow, First!Rollup!LockRow,
    Reviews!Aggregate, First!Rollup!Aggregate, Reviews!Trigger,
    First!Rollup!Trigger, Reviews!LockProduct, First!Rollup!LockProduct,
    Reviews!Freed, First!Rollup!Freed, Reviews!WritesOutbox,
    First!Rollup!WritesOutbox, Reviews!Commit, First!Rollup!Commit,
    Reviews!Notify, First!Rollup!Notify, Reviews!Crash, First!Rollup!Crash,
    Reviews!Drain, First!Rollup!Drain, Reviews!Step, First!Rollup!Step,
    Reviews!Next, First!Rollup!Next, Reviews!Histogram, First!Rollup!Histogram,
    Reviews!Total, First!Rollup!Total, Reviews!Stars, First!Rollup!Stars,
    Reviews!Rounded, First!Rollup!Rounded, Reviews!IsTie, First!Rollup!IsTie,
    Reviews!Average, First!Rollup!Average, Reviews!RatingCount,
    First!Rollup!RatingCount, Reviews!RatingAvg, First!Rollup!RatingAvg,
    Reviews!NeverDrifts, First!Rollup!NeverDrifts, Reviews!SearchReflects,
    First!Rollup!SearchReflects, Reviews!Cardinality, First!Rollup!Cardinality,
    Reviews!IsFiniteSet, First!Rollup!IsFiniteSet, Reviews!SumFunction,
    First!Rollup!SumFunction, Reviews!SumFunctionOnSet,
    First!Rollup!SumFunctionOnSet, Reviews!FoldFunctionOnSet,
    First!Rollup!FoldFunctionOnSet, Reviews!MapThenFoldSet,
    First!Rollup!MapThenFoldSet, Reviewing

LEMMA SameVotes ==
    /\ Votes!Init <=> Second!Rollup!Init
    /\ Votes!Next <=> Second!Rollup!Next
    /\ Votes!HiddenStays <=> Second!Rollup!HiddenStays
    /\ Votes!ReviewAssumption <=> Second!Rollup!ReviewAssumption
BY DEF Votes!ReviewAssumption, Second!Rollup!ReviewAssumption, Votes!None,
    Second!Rollup!None, Votes!NoReview, Second!Rollup!NoReview,
    Votes!Published, Second!Rollup!Published, Votes!Ended, Second!Rollup!Ended,
    Votes!Idle, Second!Rollup!Idle, Votes!Init, Second!Rollup!Init, Votes!Put,
    Second!Rollup!Put, Votes!Goto, Second!Rollup!Goto, Votes!Open,
    Second!Rollup!Open, Votes!MayReview, Second!Rollup!MayReview, Votes!Begin,
    Second!Rollup!Begin, Votes!NewRows, Second!Rollup!NewRows, Votes!LockRow,
    Second!Rollup!LockRow, Votes!Aggregate, Second!Rollup!Aggregate,
    Votes!Trigger, Second!Rollup!Trigger, Votes!LockProduct,
    Second!Rollup!LockProduct, Votes!Freed, Second!Rollup!Freed,
    Votes!WritesOutbox, Second!Rollup!WritesOutbox, Votes!Commit,
    Second!Rollup!Commit, Votes!Notify, Second!Rollup!Notify, Votes!Crash,
    Second!Rollup!Crash, Votes!Drain, Second!Rollup!Drain, Votes!Step,
    Second!Rollup!Step, Votes!Next, Second!Rollup!Next, Votes!HiddenStays,
    Second!Rollup!HiddenStays, Votes!Cardinality, Second!Rollup!Cardinality,
    Votes!IsFiniteSet, Second!Rollup!IsFiniteSet, Votes!SumFunction,
    Second!Rollup!SumFunction, Votes!SumFunctionOnSet,
    Second!Rollup!SumFunctionOnSet, Votes!FoldFunctionOnSet,
    Second!Rollup!FoldFunctionOnSet, Votes!MapThenFoldSet,
    Second!Rollup!MapThenFoldSet, Reviewing

LEMMA SameFilters ==
    /\ Filters!Init <=> First!Query!Init
    /\ Filters!Next <=> First!Query!Next
    /\ Filters!DegradesTheSame <=> First!Query!DegradesTheSame
    /\ Filters!NothingChosen <=> First!Query!NothingChosen
    /\ Filters!SearchAssumption <=> First!Query!SearchAssumption
BY DEF Filters!Bodies, First!Query!Bodies, Filters!SearchAssumption,
    First!Query!SearchAssumption, Filters!NoAnswer, First!Query!NoAnswer,
    Filters!Init, First!Query!Init, Filters!HasValue, First!Query!HasValue,
    Filters!Folded, First!Query!Folded, Filters!AtLeast, First!Query!AtLeast,
    Filters!AtMost, First!Query!AtMost, Filters!InRange, First!Query!InRange,
    Filters!StockAsked, First!Query!StockAsked, Filters!BuildQuery,
    First!Query!BuildQuery, Filters!Conditions, First!Query!Conditions,
    Filters!Matches, First!Query!Matches, Filters!Before, First!Query!Before,
    Filters!Sorted, First!Query!Sorted, Filters!From, First!Query!From,
    Filters!PageOf, First!Query!PageOf, Filters!HasNext, First!Query!HasNext,
    Filters!Search, First!Query!Search, Filters!Toggle, First!Query!Toggle,
    Filters!Next, First!Query!Next, Filters!Stored, First!Query!Stored,
    Filters!DegradesTheSame, First!Query!DegradesTheSame,
    Filters!NothingChosen, First!Query!NothingChosen, Filters!Cardinality,
    First!Query!Cardinality, Filters!IsFiniteSet, First!Query!IsFiniteSet,
    Filters!SetToSeqs, First!Query!SetToSeqs, Filters!SetToAllKPermutations,
    First!Query!SetToAllKPermutations, Filters!ToSet, First!Query!ToSet,
    Filters!IsInjective, First!Query!IsInjective

LEMMA SamePages ==
    /\ Pages!Init <=> Second!Query!Init
    /\ Pages!Next <=> Second!Query!Next
    /\ Pages!EachOnOnePage <=> Second!Query!EachOnOnePage
    /\ Pages!SearchAssumption <=> Second!Query!SearchAssumption
BY DEF Pages!Bodies, Second!Query!Bodies, Pages!SearchAssumption,
    Second!Query!SearchAssumption, Pages!NoAnswer, Second!Query!NoAnswer,
    Pages!Init, Second!Query!Init, Pages!HasValue, Second!Query!HasValue,
    Pages!Folded, Second!Query!Folded, Pages!AtLeast, Second!Query!AtLeast,
    Pages!AtMost, Second!Query!AtMost, Pages!InRange, Second!Query!InRange,
    Pages!StockAsked, Second!Query!StockAsked, Pages!BuildQuery,
    Second!Query!BuildQuery, Pages!Conditions, Second!Query!Conditions,
    Pages!Matches, Second!Query!Matches, Pages!Before, Second!Query!Before,
    Pages!Sorted, Second!Query!Sorted, Pages!From, Second!Query!From,
    Pages!PageOf, Second!Query!PageOf, Pages!HasNext, Second!Query!HasNext,
    Pages!Search, Second!Query!Search, Pages!Toggle, Second!Query!Toggle,
    Pages!Next, Second!Query!Next, Pages!EachOnOnePage,
    Second!Query!EachOnOnePage, Pages!Cardinality, Second!Query!Cardinality,
    Pages!IsFiniteSet, Second!Query!IsFiniteSet, Pages!SetToSeqs,
    Second!Query!SetToSeqs, Pages!SetToAllKPermutations,
    Second!Query!SetToAllKPermutations, Pages!ToSet, Second!Query!ToSet,
    Pages!IsInjective, Second!Query!IsInjective

LEMMA SameIndex ==
    /\ SearchIndex!Init <=> First!Index!Init
    /\ SearchIndex!Next <=> First!Index!Next
    /\ SearchIndex!CaughtUp <=> First!Index!CaughtUp
    /\ SearchIndex!IndexAssumption <=> First!Index!IndexAssumption
BY DEF SearchIndex!IndexAssumption, First!Index!IndexAssumption,
    SearchIndex!NoDoc, First!Index!NoDoc, SearchIndex!Versions,
    First!Index!Versions, SearchIndex!Documents, First!Index!Documents,
    SearchIndex!Empty, First!Index!Empty, SearchIndex!Builders,
    First!Index!Builders, SearchIndex!NoDrain, First!Index!NoDrain,
    SearchIndex!Rest, First!Index!Rest, SearchIndex!Init, First!Index!Init,
    SearchIndex!Enqueue, First!Index!Enqueue, SearchIndex!elastic,
    First!Index!elastic, SearchIndex!NeverWas, First!Index!NeverWas,
    SearchIndex!Upsert, First!Index!Upsert, SearchIndex!HardDelete,
    First!Index!HardDelete, SearchIndex!catalogue, First!Index!catalogue,
    SearchIndex!Up, First!Index!Up, SearchIndex!Pending, First!Index!Pending,
    SearchIndex!ProductsOf, First!Index!ProductsOf, SearchIndex!Free,
    First!Index!Free, SearchIndex!Batch, First!Index!Batch,
    SearchIndex!SelectPending, First!Index!SelectPending,
    SearchIndex!LoadDocuments, First!Index!LoadDocuments, SearchIndex!InBulk,
    First!Index!InBulk, SearchIndex!Bulk, First!Index!Bulk,
    SearchIndex!Succeeded, First!Index!Succeeded, SearchIndex!MarkProcessed,
    First!Index!MarkProcessed, SearchIndex!DrainFails, First!Index!DrainFails,
    SearchIndex!Scan, First!Index!Scan, SearchIndex!Target, First!Index!Target,
    SearchIndex!ReadPage, First!Index!ReadPage, SearchIndex!WritePage,
    First!Index!WritePage, SearchIndex!AdminReindex, First!Index!AdminReindex,
    SearchIndex!AdminDone, First!Index!AdminDone, SearchIndex!Boot,
    First!Index!Boot, SearchIndex!CreatesIndex, First!Index!CreatesIndex,
    SearchIndex!Create, First!Index!Create, SearchIndex!Delete,
    First!Index!Delete, SearchIndex!BuildFails, First!Index!BuildFails,
    SearchIndex!SwapAlias, First!Index!SwapAlias, SearchIndex!DeletePrevious,
    First!Index!DeletePrevious, SearchIndex!Crash, First!Index!Crash,
    SearchIndex!Drain, First!Index!Drain, SearchIndex!Ensure,
    First!Index!Ensure, SearchIndex!Reindex, First!Index!Reindex,
    SearchIndex!Next, First!Index!Next, SearchIndex!Matches,
    First!Index!Matches, SearchIndex!Quiet, First!Index!Quiet,
    SearchIndex!CaughtUp, First!Index!CaughtUp, SearchIndex!Cardinality,
    First!Index!Cardinality, SearchIndex!IsFiniteSet, First!Index!IsFiniteSet

LEMMA SameRebuild ==
    /\ Rebuild!Init <=> Second!Index!Init
    /\ Rebuild!Next <=> Second!Index!Next
    /\ Rebuild!ServesCatalogue <=> Second!Index!ServesCatalogue
    /\ Rebuild!IndexAssumption <=> Second!Index!IndexAssumption
BY DEF Rebuild!IndexAssumption, Second!Index!IndexAssumption, Rebuild!NoDoc,
    Second!Index!NoDoc, Rebuild!Versions, Second!Index!Versions,
    Rebuild!Documents, Second!Index!Documents, Rebuild!Empty,
    Second!Index!Empty, Rebuild!Builders, Second!Index!Builders,
    Rebuild!NoDrain, Second!Index!NoDrain, Rebuild!Rest, Second!Index!Rest,
    Rebuild!Init, Second!Index!Init, Rebuild!Enqueue, Second!Index!Enqueue,
    Rebuild!elastic, Second!Index!elastic, Rebuild!NeverWas,
    Second!Index!NeverWas, Rebuild!Upsert, Second!Index!Upsert,
    Rebuild!HardDelete, Second!Index!HardDelete, Rebuild!catalogue,
    Second!Index!catalogue, Rebuild!Up, Second!Index!Up, Rebuild!Pending,
    Second!Index!Pending, Rebuild!ProductsOf, Second!Index!ProductsOf,
    Rebuild!Free, Second!Index!Free, Rebuild!Batch, Second!Index!Batch,
    Rebuild!SelectPending, Second!Index!SelectPending, Rebuild!LoadDocuments,
    Second!Index!LoadDocuments, Rebuild!InBulk, Second!Index!InBulk,
    Rebuild!Bulk, Second!Index!Bulk, Rebuild!Succeeded, Second!Index!Succeeded,
    Rebuild!MarkProcessed, Second!Index!MarkProcessed, Rebuild!DrainFails,
    Second!Index!DrainFails, Rebuild!Scan, Second!Index!Scan, Rebuild!Target,
    Second!Index!Target, Rebuild!ReadPage, Second!Index!ReadPage,
    Rebuild!WritePage, Second!Index!WritePage, Rebuild!AdminReindex,
    Second!Index!AdminReindex, Rebuild!AdminDone, Second!Index!AdminDone,
    Rebuild!Boot, Second!Index!Boot, Rebuild!CreatesIndex,
    Second!Index!CreatesIndex, Rebuild!Create, Second!Index!Create,
    Rebuild!Delete, Second!Index!Delete, Rebuild!BuildFails,
    Second!Index!BuildFails, Rebuild!SwapAlias, Second!Index!SwapAlias,
    Rebuild!DeletePrevious, Second!Index!DeletePrevious, Rebuild!Crash,
    Second!Index!Crash, Rebuild!Drain, Second!Index!Drain, Rebuild!Ensure,
    Second!Index!Ensure, Rebuild!Reindex, Second!Index!Reindex, Rebuild!Next,
    Second!Index!Next, Rebuild!ServesCatalogue, Second!Index!ServesCatalogue,
    Rebuild!Cardinality, Second!Index!Cardinality, Rebuild!IsFiniteSet,
    Second!Index!IsFiniteSet

LEMMA SmallSets ==
    /\ Second!IsFiniteSet({p1, p2, p3}) /\ First!IsFiniteSet({p1, p2, p3})
    /\ First!IsFiniteSet(ReviewCalls) /\ First!IsFiniteSet({u1, u2, u3})
<1>1. \A a, b, c : IsFiniteSet({a, b, c})
  <2> SUFFICES ASSUME NEW a, NEW b, NEW c
               PROVE  IsFiniteSet({a, b, c})
    OBVIOUS
  <2>1. IsFiniteSet({a} \cup {b})
    BY FS_Singleton, FS_Union
  <2>2. IsFiniteSet(({a} \cup {b}) \cup {c})
    BY <2>1, FS_Singleton, FS_Union
  <2>3. {a, b, c} = ({a} \cup {b}) \cup {c}
    OBVIOUS
  <2> QED
    BY <2>2, <2>3
<1>2. \A S : /\ First!IsFiniteSet(S) <=> IsFiniteSet(S)
             /\ Second!IsFiniteSet(S) <=> IsFiniteSet(S)
  BY DEF First!IsFiniteSet, Second!IsFiniteSet, IsFiniteSet
<1> QED
  BY <1>1, <1>2 DEF ReviewCalls

\* Whatever fails, the flag and the row of a run tell what has become of it.
LEMMA RunAlone ==
    MCSpec => [](part = "run" => Run!SkipIsTrue /\ Run!RowIsSettled)
<1> DEFINE Runs == part = "run"
<1>1. MCInit /\ Runs => First!Generation!Init
  BY SameRun DEF MCInit
<1>2. ASSUME [MCNext]_state, Runs
      PROVE  Runs' /\ [First!Generation!Next]_(First!Generation!vars)
  <2>1. CASE MCNext
    <3>1. Run!Next
      BY <1>2, <2>1 DEF MCNext
    <3> QED
      BY <1>2, <3>1, SameRun, PartStays
  <2>2. CASE UNCHANGED state
    <3>1. UNCHANGED First!Generation!vars
      BY <2>2 DEF state, First!Generation!vars
    <3> QED
      BY <1>2, <3>1, PartStays
  <2> QED
    BY <1>2, <2>1, <2>2
<1>3. [MCNext]_state /\ ~Runs => ~Runs'
  BY PartStays
<1>4. First!Generation!RunAssumption
  BY RunHolds, SameRun
<1>5. First!Generation!Spec =>
        [](First!Generation!SkipIsTrue /\ First!Generation!RowIsSettled)
  BY <1>4, First!RunIsOver
<1>6. First!Generation!SkipIsTrue /\ First!Generation!RowIsSettled =>
        Run!SkipIsTrue /\ Run!RowIsSettled
  BY SameRun
<1> QED
  BY <1>1, <1>2, <1>3, <1>5, <1>6, PTL DEF MCSpec, First!Generation!Spec

\* What the runs leave fills the shelves.
LEMMA ShelvesAlone ==
    MCSpec => [](part = "shelves" => Shelves!ShelfPopulated)
<1> DEFINE Runs == part = "shelves"
<1>1. MCInit /\ Runs => Second!Generation!Init
  BY SameShelves DEF MCInit
<1>2. ASSUME [MCNext]_state, Runs
      PROVE  Runs' /\ [Second!Generation!Next]_(Second!Generation!vars)
  <2>1. CASE MCNext
    <3>1. Shelves!Next
      BY <1>2, <2>1 DEF MCNext
    <3> QED
      BY <1>2, <3>1, SameShelves, PartStays
  <2>2. CASE UNCHANGED state
    <3>1. UNCHANGED Second!Generation!vars
      BY <2>2 DEF state, Second!Generation!vars
    <3> QED
      BY <1>2, <3>1, PartStays
  <2> QED
    BY <1>2, <2>1, <2>2
<1>3. [MCNext]_state /\ ~Runs => ~Runs'
  BY PartStays
<1>4. Second!Generation!RunAssumption
  BY ShelvesHolds, SameShelves
<1>5. Second!Generation!Spec => []Second!Generation!ShelfPopulated
  BY <1>4, SmallSets, Second!ShelvesPopulated
<1>6. Second!Generation!ShelfPopulated => Shelves!ShelfPopulated
  BY SameShelves
<1> QED
  BY <1>1, <1>2, <1>3, <1>5, <1>6, PTL DEF MCSpec, Second!Generation!Spec

\* One request after the other keeps the rating true.
LEMMA ReviewsAlone ==
    MCSpec =>
        [](part = "reviews" => Reviews!NeverDrifts /\ Reviews!SearchReflects)
<1> DEFINE Runs == part = "reviews"
<1>1. MCInit /\ Runs => First!Rollup!Init
  BY SameReviews DEF MCInit
<1>2. ASSUME [MCNext]_state, Runs
      PROVE  Runs' /\ [First!Rollup!Next]_(First!Rollup!vars)
  <2>1. CASE MCNext
    <3>1. Reviews!Next
      BY <1>2, <2>1 DEF MCNext
    <3> QED
      BY <1>2, <3>1, SameReviews, PartStays
  <2>2. CASE UNCHANGED state
    <3>1. UNCHANGED First!Rollup!vars
      BY <2>2 DEF state, First!Rollup!vars
    <3> QED
      BY <1>2, <3>1, PartStays
  <2> QED
    BY <1>2, <2>1, <2>2
<1>3. [MCNext]_state /\ ~Runs => ~Runs'
  BY PartStays
<1>4. First!Rollup!ReviewAssumption
  BY ReviewsHolds, SameReviews
<1>5. First!Rollup!Spec =>
        [](First!Rollup!NeverDrifts /\ First!Rollup!SearchReflects)
  BY <1>4, SmallSets, First!RatingIsTheirs
<1>6. First!Rollup!NeverDrifts /\ First!Rollup!SearchReflects =>
        Reviews!NeverDrifts /\ Reviews!SearchReflects
  BY SameReviews
<1> QED
  BY <1>1, <1>2, <1>3, <1>5, <1>6, PTL DEF MCSpec, First!Rollup!Spec

\* The related products are never taken away.
LEMMA RunActs ==
    MCSpec => [][part = "run" => Run!NeverEmptied]_state
<1> DEFINE Runs == part = "run"
<1>1. MCInit /\ Runs => First!Generation!Init
  BY SameRun DEF MCInit
<1>2. ASSUME [MCNext]_state, Runs
      PROVE  Runs' /\ [First!Generation!Next]_(First!Generation!vars)
  <2>1. CASE MCNext
    <3>1. Run!Next
      BY <1>2, <2>1 DEF MCNext
    <3> QED
      BY <1>2, <3>1, SameRun, PartStays
  <2>2. CASE UNCHANGED state
    <3>1. UNCHANGED First!Generation!vars
      BY <2>2 DEF state, First!Generation!vars
    <3> QED
      BY <1>2, <3>1, PartStays
  <2> QED
    BY <1>2, <2>1, <2>2
<1>3. [MCNext]_state /\ ~Runs => ~Runs'
  BY PartStays
<1>4. First!Generation!RunAssumption
  BY RunHolds, SameRun
<1>5. First!Generation!Spec =>
        [][First!Generation!NeverEmptied]_(First!Generation!vars)
  BY <1>4, SmallSets, First!RelatedNeverEmptied
<1>6. [First!Generation!NeverEmptied]_(First!Generation!vars) =>
        [Run!NeverEmptied]_state
  <2>1. First!Generation!NeverEmptied => Run!NeverEmptied
    BY SameRun
  <2>2. UNCHANGED First!Generation!vars => Run!NeverEmptied
    BY DEF First!Generation!vars, Run!NeverEmptied
  <2> QED
    BY <2>1, <2>2
<1>7. ~Runs => [Runs => Run!NeverEmptied]_state
  OBVIOUS
<1> QED
  BY <1>1, <1>2, <1>3, <1>5, <1>6, <1>7, PTL DEF MCSpec, First!Generation!Spec

\* Votes do not put back what a moderator took down.
LEMMA VotesAct ==
    MCSpec => [][part = "votes" => Votes!HiddenStays]_state
<1> DEFINE Runs == part = "votes"
<1>1. MCInit /\ Runs => Second!Rollup!Init
  BY SameVotes DEF MCInit
<1>2. ASSUME [MCNext]_state, Runs
      PROVE  Runs' /\ [Second!Rollup!Next]_(Second!Rollup!vars)
  <2>1. CASE MCNext
    <3>1. Votes!Next
      BY <1>2, <2>1 DEF MCNext
    <3> QED
      BY <1>2, <3>1, SameVotes, PartStays
  <2>2. CASE UNCHANGED state
    <3>1. UNCHANGED Second!Rollup!vars
      BY <2>2 DEF state, Second!Rollup!vars
    <3> QED
      BY <1>2, <3>1, PartStays
  <2> QED
    BY <1>2, <2>1, <2>2
<1>3. [MCNext]_state /\ ~Runs => ~Runs'
  BY PartStays
<1>4. Second!Rollup!ReviewAssumption
  BY VotesHolds, SameVotes
<1>5. Second!Rollup!Spec => [][Second!Rollup!HiddenStays]_(Second!Rollup!vars)
  BY <1>4, Second!HiddenStaysSo
<1>6. [Second!Rollup!HiddenStays]_(Second!Rollup!vars) =>
        [Votes!HiddenStays]_state
  <2>1. Second!Rollup!HiddenStays => Votes!HiddenStays
    BY SameVotes
  <2>2. UNCHANGED Second!Rollup!vars => Votes!HiddenStays
    BY DEF Second!Rollup!vars, Votes!HiddenStays
  <2> QED
    BY <2>1, <2>2
<1>7. ~Runs => [Runs => Votes!HiddenStays]_state
  OBVIOUS
<1> QED
  BY <1>1, <1>2, <1>3, <1>5, <1>6, <1>7, PTL DEF MCSpec, Second!Rollup!Spec

\* Both searches find the same.
LEMMA FiltersAlone ==
    MCSpec =>
        [](part = "filters" =>
               Filters!DegradesTheSame /\ Filters!NothingChosen)
<1> DEFINE Runs == part = "filters"
<1>1. MCInit /\ Runs => First!Query!Init
  BY SameFilters DEF MCInit
<1>2. ASSUME [MCNext]_state, Runs
      PROVE  Runs' /\ [First!Query!Next]_(First!Query!vars)
  <2>1. CASE MCNext
    <3>1. Filters!Next
      BY <1>2, <2>1 DEF MCNext
    <3> QED
      BY <1>2, <3>1, SameFilters, PartStays
  <2>2. CASE UNCHANGED state
    <3>1. UNCHANGED First!Query!vars
      BY <2>2 DEF state, First!Query!vars
    <3> QED
      BY <1>2, <3>1, PartStays
  <2> QED
    BY <1>2, <2>1, <2>2
<1>3. [MCNext]_state /\ ~Runs => ~Runs'
  BY PartStays
<1>4. /\ First!Query!SearchAssumption
      /\ \A c \in Catalogues : \A p \in c :
             First!Query!Folded(p.category) = p.category
  <2>1. \A c \in Catalogues : \A p \in c : p.category \in {"Apparel", "Mugs"}
    BY DEF Catalogues, Item
  <2> QED
    BY <2>1, FiltersHolds, SameFilters DEF First!Query!Folded
<1>5. First!Query!Spec =>
        [](First!Query!DegradesTheSame /\ First!Query!NothingChosen)
  BY <1>4, First!FallbackFindsTheSame
<1>6. First!Query!DegradesTheSame /\ First!Query!NothingChosen =>
        Filters!DegradesTheSame /\ Filters!NothingChosen
  BY SameFilters
<1> QED
  BY <1>1, <1>2, <1>3, <1>5, <1>6, PTL DEF MCSpec, First!Query!Spec

\* The products of the shelf are told apart by any sorting of the listings, and
\* all of them are found by both searches.
Sortings == {"newest", "price_asc", "price_desc", "rating", "relevance"}

LEMMA ShelfIsSorted ==
    ASSUME x1 \in Shelf, x2 \in Listings
    PROVE  Second!Unambiguous
<1>1. \E lo \in {0, 20}, n \in 1..3, o \in Sortings :
          x2 = Query(FALSE, NoFacet, lo, 0, FALSE, o, n)
  BY DEF Listings, Sortings, Query, NoFacet
<1>2. PICK lo, z, o : /\ o \in Sortings
                      /\ x2 = Query(FALSE, NoFacet, lo, 0, FALSE, o, z)
  BY <1>1
<1>3. /\ x2.q = FALSE /\ x2.category.sent = FALSE /\ x2.min = lo
      /\ x2.max = 0 /\ x2.inStock = FALSE /\ x2.minRating = 0
      /\ x2.sort \in Sortings
  BY <1>2 DEF Query, NoFacet
<1>4. PICK m \in 0..4 :
          x1 = {Item(i, "Apparel", 10 * i, TRUE, TRUE) : i \in 1..m}
  BY DEF Shelf
<1>5. \A p \in x1 : \E i \in Nat :
          /\ p = Item(i, "Apparel", 10 * i, TRUE, TRUE)
          /\ p.isActive /\ p.price = 10 * i /\ p.rating = i
          /\ p.ratingCount = i /\ p.createdAt = i
  BY <1>4 DEF Item
<1>6. Second!Query!BuildQuery(x2) = Second!Query!Conditions(x2)
  BY <1>3 DEF Second!Query!BuildQuery, Second!Query!Conditions,
       Second!Query!HasValue, Second!Query!StockAsked, Second!Query!InRange
<1>7. ASSUME NEW p \in x1
      PROVE  ~Second!Query!Before(p, p)
  <2>1. PICK i \in Nat : /\ p.price = 10 * i /\ p.rating = i
                         /\ p.ratingCount = i /\ p.createdAt = i
    BY <1>5
  <2>2. CASE x2.sort = "price_asc"
    BY <2>1, <2>2 DEF Second!Query!Before
  <2>3. CASE x2.sort = "price_desc"
    BY <2>1, <2>3 DEF Second!Query!Before
  <2>4. CASE x2.sort = "rating"
    BY <2>1, <2>4 DEF Second!Query!Before
  <2>5. CASE x2.sort = "newest"
    BY <2>1, <2>5 DEF Second!Query!Before
  <2>6. CASE x2.sort = "relevance"
    BY <2>1, <2>6 DEF Second!Query!Before
  <2> QED
    BY <1>3, <2>2, <2>3, <2>4, <2>5, <2>6 DEF Sortings
<1>8. ASSUME NEW p \in x1, NEW q \in x1, p # q
      PROVE  Second!Query!Before(p, q) <=> ~Second!Query!Before(q, p)
  <2>1. PICK i \in Nat : /\ p = Item(i, "Apparel", 10 * i, TRUE, TRUE)
                         /\ p.price = 10 * i /\ p.rating = i
                         /\ p.createdAt = i
    BY <1>5
  <2>2. PICK j \in Nat : /\ q = Item(j, "Apparel", 10 * j, TRUE, TRUE)
                         /\ q.price = 10 * j /\ q.rating = j
                         /\ q.createdAt = j
    BY <1>5
  <2>3. i # j
    BY <1>8, <2>1, <2>2
  <2>4. /\ p.price = 10 * i /\ p.rating = i /\ p.createdAt = i
        /\ q.price = 10 * j /\ q.rating = j /\ q.createdAt = j
    BY <2>1, <2>2
  <2>5. CASE x2.sort = "price_asc"
    BY <1>3, <2>3, <2>4, <2>5 DEF Second!Query!Before
  <2>6. CASE x2.sort = "price_desc"
    BY <1>3, <2>3, <2>4, <2>6 DEF Second!Query!Before
  <2>7. CASE x2.sort = "rating"
    BY <1>3, <2>3, <2>4, <2>7 DEF Second!Query!Before
  <2>8. CASE x2.sort = "newest"
    BY <1>3, <2>3, <2>4, <2>8 DEF Second!Query!Before
  <2>9. CASE x2.sort = "relevance"
    BY <1>3, <2>3, <2>4, <2>9 DEF Second!Query!Before
  <2> QED
    BY <1>3, <2>5, <2>6, <2>7, <2>8, <2>9 DEF Sortings
<1>9. Second!Query!Conditions(x2) \subseteq x1
  BY DEF Second!Query!Conditions
<1> QED
  BY <1>6, <1>7, <1>8, <1>9 DEF Second!Unambiguous, Second!TellsApart

\* The pages of a listing show all of it, each product once.
LEMMA PagesAlone ==
    MCSpec => [](part = "pages" => Pages!EachOnOnePage)
<1> DEFINE Runs == part = "pages"
           Shown == x1 \in Shelf /\ x2 \in Listings
<1>1. MCInit /\ Runs => Second!Query!Init
  BY SamePages DEF MCInit
<1>2. ASSUME [MCNext]_state, Runs
      PROVE  Runs' /\ [Second!Query!Next]_(Second!Query!vars)
  <2>1. CASE MCNext
    <3>1. Pages!Next
      BY <1>2, <2>1 DEF MCNext
    <3> QED
      BY <1>2, <3>1, SamePages, PartStays
  <2>2. CASE UNCHANGED state
    <3>1. UNCHANGED Second!Query!vars
      BY <2>2 DEF state, Second!Query!vars
    <3> QED
      BY <1>2, <3>1, PartStays
  <2> QED
    BY <1>2, <2>1, <2>2
<1>3. [MCNext]_state /\ ~Runs => ~Runs'
  BY PartStays
<1>4. /\ MCInit /\ Runs => Shown
      /\ [Second!Query!Next]_(Second!Query!vars) /\ Shown => Shown'
  <2>1. MCInit /\ Runs => Shown
    BY SamePages DEF MCInit, Second!Query!Init
  <2>2. [Second!Query!Next]_(Second!Query!vars) /\ Shown => Shown'
    BY DEF Second!Query!Next, Second!Query!Search, Second!Query!Toggle,
           Second!Query!vars
  <2> QED
    BY <2>1, <2>2
<1>5. Second!Query!Spec => [](Second!Unambiguous => Second!Query!EachOnOnePage)
  BY PagesHolds, SamePages, Second!PagesShowAll
<1>6. Shown => Second!Unambiguous
  BY ShelfIsSorted
<1>7. Second!Query!EachOnOnePage => Pages!EachOnOnePage
  BY SamePages
<1> QED
  BY <1>1, <1>2, <1>3, <1>4, <1>5, <1>6, <1>7, PTL
  DEF MCSpec, Second!Query!Spec

\* One worker brings the index up to date.
LEMMA IndexAlone ==
    MCSpec => [](part = "searchIndex" => SearchIndex!CaughtUp)
<1> DEFINE Runs == part = "searchIndex"
<1>1. MCInit /\ Runs => First!Index!Init
  BY SameIndex DEF MCInit
<1>2. ASSUME [MCNext]_state, Runs
      PROVE  Runs' /\ [First!Index!Next]_(First!Index!vars)
  <2>1. CASE MCNext
    <3>1. SearchIndex!Next
      BY <1>2, <2>1 DEF MCNext
    <3> QED
      BY <1>2, <3>1, SameIndex, PartStays
  <2>2. CASE UNCHANGED state
    <3>1. UNCHANGED First!Index!vars
      BY <2>2 DEF state, First!Index!vars
    <3> QED
      BY <1>2, <3>1, PartStays
  <2> QED
    BY <1>2, <2>1, <2>2
<1>3. [MCNext]_state /\ ~Runs => ~Runs'
  BY PartStays
<1>4. First!Index!IndexAssumption
  BY IndexHolds, SameIndex
<1>5. First!Index!Spec => []First!Index!CaughtUp
  <2>1. First!OneWorker
    BY DEF First!OneWorker
  <2> QED
    BY <1>4, <2>1, First!AlwaysCatchesUp
<1>6. First!Index!CaughtUp => SearchIndex!CaughtUp
  BY SameIndex
<1> QED
  BY <1>1, <1>2, <1>3, <1>5, <1>6, PTL DEF MCSpec, First!Index!Spec

\* Replicas that boot and an administrator leave the customers an index.
LEMMA RebuildAlone ==
    MCSpec => [](part = "rebuild" => Rebuild!ServesCatalogue)
<1> DEFINE Runs == part = "rebuild"
<1>1. MCInit /\ Runs => Second!Index!Init
  BY SameRebuild DEF MCInit
<1>2. ASSUME [MCNext]_state, Runs
      PROVE  Runs' /\ [Second!Index!Next]_(Second!Index!vars)
  <2>1. CASE MCNext
    <3>1. Rebuild!Next
      BY <1>2, <2>1 DEF MCNext
    <3> QED
      BY <1>2, <3>1, SameRebuild, PartStays
  <2>2. CASE UNCHANGED state
    <3>1. UNCHANGED Second!Index!vars
      BY <2>2 DEF state, Second!Index!vars
    <3> QED
      BY <1>2, <3>1, PartStays
  <2> QED
    BY <1>2, <2>1, <2>2
<1>3. [MCNext]_state /\ ~Runs => ~Runs'
  BY PartStays
<1>4. Second!Index!IndexAssumption
  BY RebuildHolds, SameRebuild
<1>5. Second!Index!Spec => []Second!Index!ServesCatalogue
  BY <1>4, Second!AlwaysServes
<1>6. Second!Index!ServesCatalogue => Rebuild!ServesCatalogue
  BY SameRebuild
<1> QED
  BY <1>1, <1>2, <1>3, <1>5, <1>6, PTL DEF MCSpec, Second!Index!Spec

\* The copy in the index: it holds what the catalogue holds once it is quiet,
\* and customers are never shown one that is half-filled.
THEOREM IndexStaysSound == MCSpec => []IndexIsSound
<1>1. /\ part = "searchIndex" => SearchIndex!CaughtUp
      /\ part = "rebuild" => Rebuild!ServesCatalogue
      <=> IndexIsSound
  BY DEF IndexIsSound
<1> QED
  BY <1>1, IndexAlone, RebuildAlone, PTL

\* "The rollup can never drift from the source rows", while one request after
\* the other changes reviews, and search comes to hold the same rating: of the
\* run that checks it.
THEOREM RatingStaysReflected == MCSpec => []RatingIsReflected
<1>1. RatingIsReflected <=>
          (part = "reviews" => Reviews!NeverDrifts /\ Reviews!SearchReflects)
  BY DEF RatingIsReflected
<1> QED
  BY <1>1, ReviewsAlone, PTL

\* However its statements fail, a run of the generator gives back the flag and
\* settles its row; what it leaves fills the shelves.
THEOREM RunStaysSettled == MCSpec => []RunIsSettled
<1>1. /\ part = "run" => Run!SkipIsTrue /\ Run!RowIsSettled
      /\ part = "shelves" => Shelves!ShelfPopulated
      <=> RunIsSettled
  BY DEF RunIsSettled
<1> QED
  BY <1>1, RunAlone, ShelvesAlone, PTL

\* A fallback that finds what the search would have found, and pages that show
\* all of it once.
THEOREM SearchAlwaysAnswers == MCSpec => []SearchAnswers
<1>1. /\ part = "filters" => Filters!DegradesTheSame /\ Filters!NothingChosen
      /\ part = "pages" => Pages!EachOnOnePage
      <=> SearchAnswers
  BY DEF SearchAnswers
<1> QED
  BY <1>1, FiltersAlone, PagesAlone, PTL

\* Concurrent requests do not put back a review that was taken down, and a run
\* does not take away for a moment what it is about to replace.
THEOREM NothingComesBack == MCSpec => StaysAsItWas
<1> DEFINE Hidden == part = "votes" => Votes!HiddenStays
           Kept == part = "run" => Run!NeverEmptied
           Both == /\ part = "votes" => Votes!HiddenStays
                   /\ part = "run" => Run!NeverEmptied
<1>1. [Hidden]_state /\ [Kept]_state => [Both]_state
  OBVIOUS
<1>2. MCSpec => [][Hidden]_state /\ [][Kept]_state
  BY VotesAct, RunActs
<1>3. MCSpec => [][Both]_state
  BY <1>1, <1>2, PTL
<1> QED
  BY <1>3, PTL DEF StaysAsItWas

=============================================================================
