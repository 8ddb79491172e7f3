---------------------------- MODULE Fulfilment ----------------------------
(***************************************************************************)
(* What happens to an order after the checkout: cancelOrder and            *)
(* updateStatus of services/order-status, createShipment and               *)
(* updateShipmentStatus of services/shipping and refundPayment of          *)
(* services/payment, as database transactions that lock rows.              *)
(*                                                                         *)
(* There is one order: transactions of different orders share no row.  A   *)
(* shipment is named by the transaction that inserts it.  A statement that *)
(* needs a lock another transaction holds waits; writes show at COMMIT.    *)
(* Foreign keys count: a row that refers to the order share-locks it.      *)
(***************************************************************************)
CONSTANTS
    Cancels,      \* POST /orders/:orderId/cancel
    Transitions,  \* PATCH /orders/:orderId/status, by an administrator
    Creates,      \* POST /shipments
    Updates,      \* PATCH /shipments/:shipmentId/status, by a carrier
    Refunds,      \* POST /payments/:paymentId/refund
    Reported,     \* the statuses that carriers report
    Initially     \* the statuses the order may have at first

Statuses == {"pending_payment", "paid", "processing", "shipped", "delivered",
             "cancelled", "refunded", "failed"}
ShipmentStatuses == {"pending", "label_created", "in_transit",
                     "out_for_delivery", "delivered", "returned", "cancelled"}

StatusAssumption ==
    Reported \subseteq ShipmentStatuses /\ Initially \subseteq Statuses
\* A request is one of them.
NamesAssumption ==
    /\ {"none", "order"} \cap Creates = {}
    /\ Cancels \cap (Transitions \cup Creates \cup Updates \cup Refunds) = {}
    /\ Transitions \cap (Creates \cup Updates \cup Refunds) = {}
    /\ Creates \cap (Updates \cup Refunds) = {}
    /\ Updates \cap Refunds = {}

VARIABLES
    order,     \* orders.status
    shipment,  \* shipments.status, "none" without the row
    pc,        \* where each transaction is
    locks,     \* the locks it holds
    asked,     \* the row and the status it is called with
    todo       \* rows that its UPDATE has matched and not come to

vars == <<order, shipment, pc, locks, asked, todo>>

Txs == Cancels \cup Transitions \cup Creates \cup Updates \cup Refunds
INSTANCE RowLocks

None == "none"
Requests == [row : Creates \cup {"order", None},
             status : Statuses \cup ShipmentStatuses \cup {None}]

TypeOK ==
    /\ order \in Statuses
    /\ shipment \in [Creates -> ShipmentStatuses \cup {None}]
    /\ pc \in [Txs -> {"idle", "begun", "write", "commit", "ended",
                       "aborted"}]
    /\ locks \in [Txs -> SUBSET ((Creates \cup {"order"}) \X Modes)]
    /\ asked \in [Txs -> Requests]
    /\ todo \in [Txs -> SUBSET Creates]

Init ==
    /\ order \in Initially
    /\ shipment = [n \in Creates |-> None]
    /\ pc = [t \in Txs |-> "idle"]
    /\ locks = [t \in Txs |-> {}]
    /\ asked = [t \in Txs |-> [row |-> None, status |-> None]]
    /\ todo = [t \in Txs |-> {}]
-----------------------------------------------------------------------------
(* Transactions *)

Goto(t, l) == pc' = [pc EXCEPT ![t] = l]
\* COMMIT or ROLLBACK.
End(t, l) ==
    /\ Goto(t, l)
    /\ locks' = [locks EXCEPT ![t] = {}]
    /\ todo' = [todo EXCEPT ![t] = {}]

Begin(t) ==
    /\ pc[t] = "idle"
    /\ \/ t \in Cancels \cup Creates \cup Refunds /\ UNCHANGED asked
       \/ /\ t \in Transitions
          /\ \E s \in Statuses :
                 asked' = [asked EXCEPT ![t] = [row |-> "order", status |-> s]]
       \/ /\ t \in Updates
          /\ \E n \in Creates, s \in Reported :
              /\ shipment[n] # None
              /\ asked' = [asked EXCEPT ![t] = [row |-> n, status |-> s]]
    /\ Goto(t, "begun")
    /\ UNCHANGED <<order, shipment, locks, todo>>
-----------------------------------------------------------------------------
(* services/order-status *)

ALLOWED_TRANSITIONS ==
    [s \in Statuses |->
        CASE s = "pending_payment" -> {"paid", "cancelled", "failed"}
          [] s = "paid"            -> {"processing", "cancelled", "refunded"}
          [] s = "processing"      -> {"shipped", "cancelled", "refunded"}
          [] s = "shipped"         -> {"delivered", "refunded"}
          [] s = "delivered"       -> {"refunded"}
          [] OTHER                 -> {}]

Labelled == {n \in Creates : shipment[n] \in {"pending", "label_created"}}

\* SELECT the order FOR UPDATE.  A cancelled order is returned, one that can
\* not be cancelled, or not by this user any more, is refused.
CancelLock(t) ==
    /\ t \in Cancels /\ pc[t] = "begun"
    /\ CanLock(t, "order", "update")
    /\ \/ /\ "cancelled" \in ALLOWED_TRANSITIONS[order]
          /\ Lock(t, "order", "update")
          /\ Goto(t, "write")
          /\ todo' = [todo EXCEPT ![t] = Labelled]
       \/ End(t, "ended")
    /\ UNCHANGED <<order, shipment, asked>>

\* The WHERE clause, evaluated again on the row a wait has ended for.
StillLabelled(n) == n \in Labelled

\* UPDATE shipments: the matching rows are locked one after the other.
CancelLabel(t) ==
    /\ t \in Cancels /\ pc[t] = "write"
    /\ \/ \E n \in todo[t] :
            /\ CanLock(t, n, "no key update")
            /\ IF StillLabelled(n) THEN Lock(t, n, "no key update")
                                   ELSE UNCHANGED locks
            /\ todo' = [todo EXCEPT ![t] = @ \ {n}]
            /\ UNCHANGED pc
       \/ todo[t] = {} /\ Goto(t, "commit") /\ UNCHANGED <<locks, todo>>
    /\ UNCHANGED <<order, shipment, asked>>

CancelCommit(t) ==
    /\ t \in Cancels /\ pc[t] = "commit"
    /\ order' = "cancelled"
    /\ shipment' = [n \in Creates |->
                       IF <<n, "no key update">> \in locks[t]
                       THEN "cancelled" ELSE shipment[n]]
    /\ End(t, "ended")
    /\ UNCHANGED asked

Legal(s, next) == next \in ALLOWED_TRANSITIONS[s]

TransitionLock(t) ==
    /\ t \in Transitions /\ pc[t] = "begun"
    /\ CanLock(t, "order", "update")
    /\ IF Legal(order, asked[t].status)
       THEN Lock(t, "order", "update") /\ Goto(t, "commit") /\ UNCHANGED todo
       ELSE End(t, "ended")
    /\ UNCHANGED <<order, shipment, asked>>

TransitionCommit(t) ==
    /\ t \in Transitions /\ pc[t] = "commit"
    /\ order' = asked[t].status
    /\ End(t, "ended")
    /\ UNCHANGED <<shipment, asked>>
-----------------------------------------------------------------------------
(* services/shipping *)

Live == {n \in Creates : shipment[n] \notin {None, "cancelled"}}

\* Two SELECTs, of the order and of a shipment that is not cancelled; neither
\* locks anything, and the status of the order does not matter.
CreateLook(t) ==
    /\ t \in Creates /\ pc[t] = "begun"
    /\ IF Live = {} THEN Goto(t, "write") /\ UNCHANGED <<locks, todo>>
                    ELSE End(t, "ended")
    /\ UNCHANGED <<order, shipment, asked>>

LockNothing(t) == UNCHANGED locks
\* The foreign key of shipments locks the order.
LockForeignKey(t) == Lock(t, "order", "key share")

CreateInsert(t) ==
    /\ t \in Creates /\ pc[t] = "write"
    /\ LockForeignKey(t)
    /\ Goto(t, "commit")
    /\ UNCHANGED <<order, shipment, asked, todo>>

CreateCommit(t) ==
    /\ t \in Creates /\ pc[t] = "commit"
    /\ shipment' = [shipment EXCEPT ![t] = "label_created"]
    /\ End(t, "ended")
    /\ UNCHANGED <<order, asked>>

UpdateLock(t) ==
    /\ t \in Updates /\ pc[t] = "begun"
    /\ CanLock(t, asked[t].row, "update")
    /\ IF shipment[asked[t].row] # asked[t].status
       THEN /\ Lock(t, asked[t].row, "update")
            /\ Goto(t, "write") /\ UNCHANGED todo
       ELSE End(t, "ended")
    /\ UNCHANGED <<order, shipment, asked>>

\* The order status that goes with a shipment status, if there is one.
OrderStatusFor(s) ==
    CASE s = "in_transit" -> "shipped"
      [] s = "delivered"  -> "delivered"
      [] OTHER            -> None

Open(s) == s \notin {"cancelled", "refunded"}

\* UPDATE orders, if it matches, and the INSERT of an order event, whose
\* foreign key locks the order in any case.
UpdateOrder(t) ==
    /\ t \in Updates /\ pc[t] = "write"
    /\ IF OrderStatusFor(asked[t].status) = None THEN UNCHANGED locks
       ELSE Lock(t, "order",
                 IF Open(order) THEN "no key update" ELSE "key share")
    /\ Goto(t, "commit")
    /\ UNCHANGED <<order, shipment, asked, todo>>

UpdateCommit(t) ==
    /\ t \in Updates /\ pc[t] = "commit"
    /\ shipment' = [shipment EXCEPT ![asked[t].row] = asked[t].status]
    /\ order' = IF <<"order", "no key update">> \in locks[t]
                THEN OrderStatusFor(asked[t].status) ELSE order
    /\ End(t, "ended")
    /\ UNCHANGED asked
-----------------------------------------------------------------------------
(* refundPayment, of a captured payment, from where it has its own row *)

RefundLock(t) ==
    /\ t \in Refunds /\ pc[t] = "begun"
    /\ Lock(t, "order", "no key update")
    /\ Goto(t, "commit")
    /\ UNCHANGED <<order, shipment, asked, todo>>

RefundCommit(t) ==
    /\ t \in Refunds /\ pc[t] = "commit"
    /\ order' = "refunded"
    /\ End(t, "ended")
    /\ UNCHANGED <<shipment, asked>>
-----------------------------------------------------------------------------
\* The locks that the next statement of a transaction needs, one of them next.
Wants(t) ==
    CASE pc[t] = "begun" /\ t \in Cancels \cup Transitions ->
             {<<"order", "update">>}
      [] pc[t] = "begun" /\ t \in Updates -> {<<asked[t].row, "update">>}
      [] pc[t] = "begun" /\ t \in Refunds -> {<<"order", "no key update">>}
      [] pc[t] = "write" /\ t \in Cancels -> todo[t] \X {"no key update"}
      [] pc[t] = "write" /\ t \in Creates -> {<<"order", "key share">>}
      [] pc[t] = "write" /\ t \in Updates
             /\ OrderStatusFor(asked[t].status) # None ->
             {<<"order", IF Open(order) THEN "no key update"
                                        ELSE "key share">>}
      [] OTHER -> {}

NeverWaits(t) == FALSE
Waits(t) == Wants(t) # {} /\ \A l \in Wants(t) : ~CanLock(t, l[1], l[2])

\* A statement that waits is ended by statement_timeout, or by the database
\* when it sees a deadlock; the transaction rolls back and is not retried.
WaitFails(t) ==
    /\ Waits(t)
    /\ End(t, "aborted")
    /\ UNCHANGED <<order, shipment, asked>>

Step(t) ==
    \/ CancelLock(t) \/ CancelLabel(t) \/ CancelCommit(t)
    \/ TransitionLock(t) \/ TransitionCommit(t)
    \/ CreateLook(t) \/ CreateInsert(t) \/ CreateCommit(t)
    \/ UpdateLock(t) \/ UpdateOrder(t) \/ UpdateCommit(t)
    \/ RefundLock(t) \/ RefundCommit(t)

Next == \E t \in Txs : Begin(t) \/ Step(t) \/ WaitFails(t)

Spec == Init /\ [][Next]_vars
-----------------------------------------------------------------------------
(* Properties *)

\* Whatever carriers report, administrators ask for or customers repeat, a
\* cancelled order is not revived, except to be refunded; refunded is final.
ClosedStaysClosed ==
    /\ order = "cancelled" => order' \in {"cancelled", "refunded"}
    /\ order = "refunded" => order' = "refunded"

Cancelling == \E t \in Cancels : pc[t] = "commit" /\ pc'[t] = "ended"

\* A carrier has said so: the schema of the request has every status.
Reports(n, s) ==
    \E t \in Updates :
        pc[t] = "ended" /\ asked[t].row = n /\ asked[t].status = s

\* When a cancellation commits, no parcel of the order has a label that is
\* still good, although shipments are created at the same time, unless its
\* carrier has reported it as such.
NoLabelWhenCancelled ==
    Cancelling =>
        \A n \in Creates :
            shipment'[n] \in {"pending", "label_created"} =>
                Reports(n, shipment'[n])

\* A cancellation does not take a parcel back that is on its way, or has been.
CancelSparesParcels ==
    Cancelling =>
        \A n \in Creates :
            shipment[n] \notin {"pending", "label_created"} =>
                shipment'[n] = shipment[n]

\* Nothing that cancels, ships, delivers or refunds an order at the same time
\* undoes how it ended, and only a carrier's word leaves a good label behind.
CancelIsFinal ==
    [][ClosedStaysClosed /\ NoLabelWhenCancelled /\ CancelSparesParcels]_vars

\* Every transaction ends: cancelOrder locks the order and then shipments,
\* updateShipmentStatus a shipment and then the order, and may deadlock.  Time
\* and again none is under way.
AtRest == \A t \in Txs : pc[t] \in {"idle", "ended", "aborted"}
=============================================================================
