------------------------------ MODULE Checkout ------------------------------
(***************************************************************************)
(* Placing and cancelling an order: the checkout saga of services/         *)
(* place-order with the calls it makes to inventory, payment, shipping and *)
(* cart, the charge handler of services/payment, and the cancellation of   *)
(* services/order-status.                                                  *)
(*                                                                         *)
(* An attempt is one POST /orders, handled by one execution of the saga.   *)
(* Orders, reservations and payments are named by the attempt that creates *)
(* them: an attempt creates at most one of each.  A call to another        *)
(* service is a request in `calls' that the callee may execute at any      *)
(* later time, or never; the saga goes on with the reply, or, when its     *)
(* client times out, as after an error.  A POST is sent once, so a request *)
(* is not duplicated.  Any process may die between two steps.  The rows of *)
(* order_events, which nothing decides on, are left out.                   *)
(***************************************************************************)
EXTENDS Integers, FiniteSets

CONSTANTS
    Products, Stocked, Sweeps, InitialStock, MaxQty, MaxCorrection, SweepLimit,
    Attempts,    \* POST /orders requests
    Keys,        \* (user, Idempotency-Key) pairs
    KeyOf,       \* the key each attempt carries; one body per key
    ItemsOfKey,  \* what the cart of the key's user holds
    MaxCancels,  \* bound: cancel requests per order
    Faults       \* bound: the faults that occur, some of {"crash", "redis"}

ASSUME StockAssumption == /\ Stocked \subseteq Products
                          /\ InitialStock \in [Products -> Nat]
ASSUME BoundsAssumption == /\ MaxQty \in Nat
                           /\ MaxCorrection \in Nat
                           /\ SweepLimit \in Nat \ {0}
ASSUME AttemptsAssumption == IsFiniteSet(Attempts)
ASSUME KeyAssumption == KeyOf \in [Attempts -> Keys]
ASSUME CancelsAssumption == MaxCancels \in Nat

VARIABLES
    (* inventory *)
    available, reserved, status, items, overdue, ledger, enqueued, sweep,
    (* place-order *)
    pc,        \* where each attempt is
    reply,     \* answer to the call the attempt waits for, "none" before it
    claim,     \* Redis: the idempotency entry of each key
    result,    \* Redis: the order stored in a "done" entry
    response,  \* the order an attempt answered its client with
    (* the orders, payments and shipments tables, the carts *)
    order, payment, shipment, cart,
    (* in flight *)
    calls,     \* requests sent and not executed
    charge,    \* where the charge handler of each attempt's order is
    (* order-status *)
    cancels,   \* cancel requests served
    restocks,  \* restock calls sent and not executed
    restocked  \* order_cancelled rows of the ledger that name the order

inventoryVars ==
    <<available, reserved, status, items, overdue, ledger, enqueued, sweep>>
sagaVars == <<pc, reply, response>>
redisVars == <<claim, result>>
tableVars == <<order, payment, shipment, cart>>
cancelVars == <<cancels, restocks, restocked>>
vars == <<inventoryVars, sagaVars, redisVars, tableVars, calls, charge,
          cancelVars>>

Inventory == INSTANCE Inventory WITH Reservations <- Attempts

ASSUME CartAssumption == ItemsOfKey \in [Keys -> Inventory!Requests]

None == "none"
Items(a) == ItemsOfKey[KeyOf[a]]
OnlyItself(a) == {a}
SameKey(a) == {b \in Attempts : KeyOf[b] = KeyOf[a]}

Waiting == {"reserve", "charge", "commit", "release"}
Active == Waiting \cup
    {"peek", "gather", "insert", "fail", "confirm", "settle", "complete",
     "abort"}
Ended == {"answered", "refused", "failed", "crashed"}
OrderStatuses == {None, "pending_payment", "paid", "processing", "cancelled",
                  "failed"}
Charging == {"lookup", "check", "insert", "authorize", "approved", "declined"}

TypeOK ==
    /\ Inventory!TypeOK
    /\ pc \in [Attempts -> {"idle"} \cup Active \cup Ended]
    /\ reply \in [Attempts -> {None, "ok", "error"}]
    /\ claim \in [Keys -> {"free", "in_flight", "done"}]
    /\ result \in [Keys -> Attempts \cup {None}]
    /\ response \in [Attempts -> Attempts \cup {None}]
    /\ order \in [Attempts -> OrderStatuses]
    /\ payment \in [Attempts -> {None, "pending", "captured", "failed"}]
    /\ shipment \in [Attempts -> {None, "label_created", "cancelled"}]
    /\ cart \in [Keys -> {"filled", "empty"}]
    /\ calls \subseteq [op : Waiting \cup {"ship", "clear"}, for : Attempts]
    /\ charge \in [Attempts -> {None, "done"} \cup Charging]
    /\ cancels \in [Attempts -> 0..MaxCancels]
    /\ restocks \in [Attempts -> Nat]
    /\ restocked \in [Attempts -> Nat]

Init ==
    /\ Inventory!Init
    /\ pc = [a \in Attempts |-> "idle"]
    /\ reply = [a \in Attempts |-> None]
    /\ claim = [k \in Keys |-> "free"]
    /\ result = [k \in Keys |-> None]
    /\ response = [a \in Attempts |-> None]
    /\ order = [a \in Attempts |-> None]
    /\ payment = [a \in Attempts |-> None]
    /\ shipment = [a \in Attempts |-> None]
    /\ cart = [k \in Keys |-> "filled"]
    /\ calls = {}
    /\ charge = [a \in Attempts |-> None]
    /\ cancels = [a \in Attempts |-> 0]
    /\ restocks = [a \in Attempts |-> 0]
    /\ restocked = [a \in Attempts |-> 0]
-----------------------------------------------------------------------------
(* Calls *)

Call(op, a) == [op |-> op, for |-> a]
Goto(a, l) == pc' = [pc EXCEPT ![a] = l]

\* The attempt sends a request and waits for its reply.
SendAndWait(a, op) ==
    /\ calls' = calls \cup {Call(op, a)}
    /\ Goto(a, op)
    /\ reply' = [reply EXCEPT ![a] = None]

\* The callee takes a request.
Receive(op, a) ==
    /\ Call(op, a) \in calls
    /\ calls' = calls \ {Call(op, a)}

\* The callee answers; an answer nobody waits for any more is dropped.
Answer(op, a, res) ==
    reply' = IF pc[a] = op THEN [reply EXCEPT ![a] = res] ELSE reply

\* What the saga sees: the reply, or an error when its client gives up.
Succeeds(a, op) == pc[a] = op /\ reply[a] = "ok"
FailsOnReply(a, op) == pc[a] = op /\ reply[a] = "error"
Fails(a, op) == pc[a] = op
-----------------------------------------------------------------------------
(* The controller and its idempotency store *)

\* SET NX: the first of the attempts with a key gets the claim.  When the
\* answer of Redis is lost the request fails, and the claim stays.
Begin(a) ==
    /\ pc[a] = "idle"
    /\ \/ /\ claim[KeyOf[a]] = "free"
          /\ claim' = [claim EXCEPT ![KeyOf[a]] = "in_flight"]
          /\ Goto(a, "gather") \/ Goto(a, "refused")
       \/ /\ claim[KeyOf[a]] # "free"
          /\ Goto(a, "peek")
          /\ UNCHANGED claim
    /\ UNCHANGED <<inventoryVars, reply, response, result, tableVars,
                   calls, charge, cancelVars>>

\* GET: an entry that has gone in the meantime lets the attempt work without
\* a claim; one in flight, or a Redis error, refuses it.
Peek(a) ==
    LET k == KeyOf[a] IN
    /\ pc[a] = "peek"
    /\ \/ claim[k] = "free" /\ Goto(a, "gather") /\ UNCHANGED response
       \/ Goto(a, "refused") /\ UNCHANGED response
       \/ /\ claim[k] = "done"
          /\ Goto(a, "answered")
          /\ response' = [response EXCEPT ![a] = result[k]]
    /\ UNCHANGED <<inventoryVars, reply, redisVars, tableVars, calls,
                   charge, cancelVars>>

StoreResult(a) ==
    /\ claim' = [claim EXCEPT ![KeyOf[a]] = "done"]
    /\ result' = [result EXCEPT ![KeyOf[a]] = a]

\* complete() and the 201, or a Redis error before or after the SET.
Complete(a) ==
    /\ pc[a] = "complete"
    /\ \/ /\ StoreResult(a)
          /\ Goto(a, "answered")
          /\ response' = [response EXCEPT ![a] = a]
       \/ /\ StoreResult(a) \/ UNCHANGED redisVars
          /\ Goto(a, "abort")
          /\ UNCHANGED response
    /\ UNCHANGED <<inventoryVars, reply, tableVars, calls, charge,
                   cancelVars>>

\* DEL, whoever the entry belongs to, or a Redis error; then the rethrow.
Abort(a) ==
    /\ pc[a] = "abort"
    /\ Goto(a, "failed")
    /\ \/ claim' = [claim EXCEPT ![KeyOf[a]] = "free"]
       \/ UNCHANGED claim
    /\ UNCHANGED <<inventoryVars, reply, response, result, tableVars,
                   calls, charge, cancelVars>>

\* The entry reaches its TTL, is evicted, or Redis is flushed.
LoseEntry(k) ==
    /\ "redis" \in Faults
    /\ claim[k] # "free"
    /\ claim' = [claim EXCEPT ![k] = "free"]
    /\ UNCHANGED <<inventoryVars, sagaVars, result, tableVars, calls, charge,
                   cancelVars>>
-----------------------------------------------------------------------------
(* placeOrder *)

\* 1. Cart and address are loaded and priced: an error, an empty cart or
\* another total ends the attempt.  2. Otherwise stock is reserved.
Gather(a) ==
    /\ pc[a] = "gather"
    /\ \/ cart[KeyOf[a]] = "filled" /\ SendAndWait(a, "reserve")
       \/ Goto(a, "abort") /\ UNCHANGED <<calls, reply>>
    /\ UNCHANGED <<inventoryVars, response, redisVars, tableVars,
                   charge, cancelVars>>

Reserved(a) ==
    /\ \/ Succeeds(a, "reserve") /\ Goto(a, "insert")
       \/ Fails(a, "reserve") /\ Goto(a, "abort")
    /\ UNCHANGED <<inventoryVars, reply, response, redisVars,
                   tableVars, calls, charge, cancelVars>>

\* The unique index on (user_id, idempotency_key).
KeyUnused(a) == \A b \in SameKey(a) : order[b] = None

\* 3. The order is inserted and the charge is sent.  A conflict on the key or
\* a database error, which may follow the COMMIT, releases the reservation.
InsertOrder(a) ==
    /\ pc[a] = "insert"
    /\ \/ /\ KeyUnused(a)
          /\ order' = [order EXCEPT ![a] = "pending_payment"]
          /\ SendAndWait(a, "charge") \/ SendAndWait(a, "release")
       \/ SendAndWait(a, "release") /\ UNCHANGED order
    /\ UNCHANGED <<inventoryVars, response, redisVars, payment,
                   shipment, cart, charge, cancelVars>>

ChargeFailureIgnored(a) == Fails(a, "charge")
ChargeSucceeded(a) == Succeeds(a, "charge")

\* 4. and 5.  The hold is committed once the charge has succeeded.
Charged(a) ==
    /\ \/ ChargeSucceeded(a) /\ SendAndWait(a, "commit")
       \/ Fails(a, "charge") /\ Goto(a, "fail") /\ UNCHANGED <<calls, reply>>
    /\ UNCHANGED <<inventoryVars, response, redisVars, tableVars,
                   charge, cancelVars>>

\* markOrderFailed, whose own errors are swallowed, and the compensating
\* release.
MarkOrderFailed(a) ==
    /\ pc[a] = "fail"
    /\ \/ /\ order[a] = "pending_payment"
          /\ order' = [order EXCEPT ![a] = "failed"]
       \/ UNCHANGED order
    /\ SendAndWait(a, "release")
    /\ UNCHANGED <<inventoryVars, response, redisVars, payment,
                   shipment, cart, charge, cancelVars>>

\* releaseReservation swallows its errors: the sweeper will reclaim the stock.
Released(a) ==
    /\ Fails(a, "release")
    /\ Goto(a, "abort")
    /\ UNCHANGED <<inventoryVars, reply, response, redisVars,
                   tableVars, calls, charge, cancelVars>>

CommitErrorReleases(a) ==
    calls' = calls \cup {Call("release", a)} /\ Goto(a, "confirm")
\* Money is captured: a failed commit does not fail the checkout.  It leaves
\* an order event, which no code reads.
CommitError(a) == UNCHANGED calls /\ Goto(a, "confirm")

Committed(a) ==
    /\ \/ Succeeds(a, "commit") /\ Goto(a, "confirm") /\ UNCHANGED calls
       \/ Fails(a, "commit") /\ CommitError(a)
    /\ UNCHANGED <<inventoryVars, reply, response, redisVars,
                   tableVars, charge, cancelVars>>

MarkProcessing(a) == order' = [order EXCEPT ![a] = "processing"]

\* UPDATE orders SET status = 'processing', whatever the status is; then the
\* shipment and the cart are called in parallel.  A database error before or
\* after the COMMIT reaches the outer catch, where reservationId is null.
Confirm(a) ==
    /\ pc[a] = "confirm"
    /\ \/ /\ MarkProcessing(a)
          /\ calls' = calls \cup {Call("ship", a), Call("clear", a)}
          /\ Goto(a, "settle")
       \/ /\ MarkProcessing(a) \/ UNCHANGED order
          /\ Goto(a, "abort")
          /\ UNCHANGED calls
    /\ UNCHANGED <<inventoryVars, reply, response, redisVars, payment,
                   shipment, cart, charge, cancelVars>>

\* Both calls have settled, each with its reply or a timeout.
Settle(a) ==
    /\ pc[a] = "settle"
    /\ Goto(a, "complete")
    /\ UNCHANGED <<inventoryVars, reply, response, redisVars,
                   tableVars, calls, charge, cancelVars>>

Saga(a) ==
    \/ Begin(a) \/ Peek(a) \/ Gather(a) \/ Reserved(a) \/ InsertOrder(a)
    \/ Charged(a) \/ MarkOrderFailed(a) \/ Released(a) \/ Committed(a)
    \/ Confirm(a) \/ Settle(a) \/ Complete(a) \/ Abort(a)

\* The place-order process dies.
Crash(a) ==
    /\ "crash" \in Faults
    /\ pc[a] \in Active
    /\ Goto(a, "crashed")
    /\ UNCHANGED <<inventoryVars, reply, response, redisVars,
                   tableVars, calls, charge, cancelVars>>
-----------------------------------------------------------------------------
(* The called services *)

ServeReserve(a) ==
    /\ Receive("reserve", a)
    /\ \/ Inventory!Reserve(a, Items(a)) /\ Answer("reserve", a, "ok")
       \/ /\ ~Inventory!CanReserve(Items(a))
          /\ Answer("reserve", a, "error")
          /\ UNCHANGED inventoryVars
    /\ UNCHANGED <<pc, response, redisVars, tableVars, charge,
                   cancelVars>>

\* Idempotent when committed already; 404 or 409 otherwise.
ServeCommit(a) ==
    /\ Receive("commit", a)
    /\ \/ Inventory!Commit(a) /\ Answer("commit", a, "ok")
       \/ /\ status[a] # "held"
          /\ Answer("commit", a,
                    IF status[a] = "committed" THEN "ok" ELSE "error")
          /\ UNCHANGED inventoryVars
    /\ UNCHANGED <<pc, response, redisVars, tableVars, charge,
                   cancelVars>>

ServeRelease(a) ==
    /\ Receive("release", a)
    /\ \/ Inventory!Release(a)
       \/ status[a] # "held" /\ UNCHANGED inventoryVars
    /\ Answer("release", a, "ok")
    /\ UNCHANGED <<pc, response, redisVars, tableVars, charge,
                   cancelVars>>

\* createShipment: one that is not cancelled is returned as it is.
ServeShip(a) ==
    /\ Receive("ship", a)
    /\ shipment' = [shipment EXCEPT ![a] = "label_created"]
    /\ UNCHANGED <<inventoryVars, sagaVars, redisVars, order, payment, cart,
                   charge, cancelVars>>

ServeClear(a) ==
    /\ Receive("clear", a)
    /\ cart' = [cart EXCEPT ![KeyOf[a]] = "empty"]
    /\ UNCHANGED <<inventoryVars, sagaVars, redisVars, order, payment,
                   shipment, charge, cancelVars>>
-----------------------------------------------------------------------------
(* services/payment: charge, one action per query or provider call *)

ChargeGoto(a, l) == charge' = [charge EXCEPT ![a] = l]
ChargeFails(a) == ChargeGoto(a, "done") /\ Answer("charge", a, "error")
PaymentKeyUsed(a) == \E b \in SameKey(a) : payment[b] # None
chargeUnchanged == <<inventoryVars, pc, response, redisVars, shipment,
                     cart, cancelVars>>

ChargeReceive(a) ==
    /\ Receive("charge", a)
    /\ ChargeGoto(a, "lookup")
    /\ UNCHANGED <<chargeUnchanged, reply, order, payment>>

\* A payment under this key is replayed if it is for this order.
ChargeLookup(a) ==
    /\ charge[a] = "lookup"
    /\ \/ ~PaymentKeyUsed(a) /\ ChargeGoto(a, "check") /\ UNCHANGED reply
       \/ /\ payment[a] # None
          /\ ChargeGoto(a, "done")
          /\ Answer("charge", a, "ok")
       \/ PaymentKeyUsed(a) /\ payment[a] = None /\ ChargeFails(a)
    /\ UNCHANGED <<chargeUnchanged, calls, order, payment>>

Payable(a) == order[a] = "pending_payment"

\* The order is read without a lock.
ChargeCheck(a) ==
    /\ charge[a] = "check"
    /\ \/ Payable(a) /\ ChargeGoto(a, "insert") /\ UNCHANGED reply
       \/ ~Payable(a) /\ ChargeFails(a)
    /\ UNCHANGED <<chargeUnchanged, calls, order, payment>>

\* The unique index on payments.idempotency_key.
ChargeInsert(a) ==
    /\ charge[a] = "insert"
    /\ \/ /\ ~PaymentKeyUsed(a)
          /\ payment' = [payment EXCEPT ![a] = "pending"]
          /\ ChargeGoto(a, "authorize")
          /\ UNCHANGED reply
       \/ PaymentKeyUsed(a) /\ ChargeFails(a) /\ UNCHANGED payment
    /\ UNCHANGED <<chargeUnchanged, calls, order>>

\* authorizeAndCapture: the provider takes the money, or declines.
Authorize(a) ==
    /\ charge[a] = "authorize"
    /\ ChargeGoto(a, "approved") \/ ChargeGoto(a, "declined")
    /\ UNCHANGED <<chargeUnchanged, reply, calls, order, payment>>

MarkPaidAlways(a) == [order EXCEPT ![a] = "paid"]
\* UPDATE orders SET status = 'paid' WHERE ... status = 'pending_payment'
MarkPaid(a) ==
    [order EXCEPT ![a] = IF @ = "pending_payment" THEN "paid" ELSE @]

RecordCapture(a) ==
    /\ charge[a] = "approved"
    /\ payment' = [payment EXCEPT ![a] = "captured"]
    /\ order' = MarkPaid(a)
    /\ ChargeGoto(a, "done")
    /\ Answer("charge", a, "ok")
    /\ UNCHANGED <<chargeUnchanged, calls>>

\* A declined charge is answered with 402 and leaves the order pending.
RecordDecline(a) ==
    /\ charge[a] = "declined"
    /\ payment' = [payment EXCEPT ![a] = "failed"]
    /\ ChargeFails(a)
    /\ UNCHANGED <<chargeUnchanged, calls, order>>

\* The payment process dies, or a query fails: no more writes, and an error
\* or nothing for the caller.
ChargeDies(a) ==
    /\ "crash" \in Faults
    /\ charge[a] \in Charging
    /\ ChargeFails(a)
    /\ UNCHANGED <<chargeUnchanged, calls, order, payment>>

ChargeStep(a) ==
    \/ ChargeReceive(a) \/ ChargeLookup(a) \/ ChargeCheck(a) \/ ChargeInsert(a)
    \/ Authorize(a) \/ RecordCapture(a) \/ RecordDecline(a)
-----------------------------------------------------------------------------
(* services/order-status: cancelOrder *)

Cancellable(o) == order[o] \in {"pending_payment", "paid", "processing"}

\* The transaction, for a customer or an admin, and the restock call that is
\* sent after it.  For an order that is cancelled already the transaction
\* changes nothing, and the call is sent all the same.
CancelOrder(o) ==
    /\ cancels[o] < MaxCancels
    /\ Cancellable(o) \/ order[o] = "cancelled"
    /\ cancels' = [cancels EXCEPT ![o] = @ + 1]
    /\ IF Cancellable(o)
       THEN /\ order' = [order EXCEPT ![o] = "cancelled"]
            /\ shipment' = [shipment EXCEPT ![o] =
                               IF @ = "label_created" THEN "cancelled" ELSE @]
       ELSE UNCHANGED <<order, shipment>>
    /\ restocks' = [restocks EXCEPT ![o] = @ + 1]
    /\ UNCHANGED <<inventoryVars, sagaVars, redisVars, payment, cart, calls,
                   charge, restocked>>

ServeRestock(o) ==
    /\ restocks[o] > 0
    /\ Inventory!Restock(Items(o))
    /\ restocks' = [restocks EXCEPT ![o] = @ - 1]
    /\ restocked' = [restocked EXCEPT ![o] = @ + 1]
    /\ UNCHANGED <<sagaVars, redisVars, tableVars, calls, charge, cancels>>

\* Inventory's clock and sweeper.
InventoryStep ==
    /\ \/ \E a \in Attempts : Inventory!Expire(a)
       \/ \E w \in Sweeps : Inventory!Sweeper(w)
    /\ UNCHANGED <<sagaVars, redisVars, tableVars, calls, charge, cancelVars>>
-----------------------------------------------------------------------------
Serve(a) ==
    \/ ServeReserve(a) \/ ServeCommit(a) \/ ServeRelease(a) \/ ServeShip(a)
    \/ ServeClear(a) \/ ChargeStep(a) \/ ChargeDies(a)

Next ==
    \/ \E a \in Attempts : \/ Saga(a) \/ Crash(a) \/ Serve(a)
                           \/ CancelOrder(a) \/ ServeRestock(a)
    \/ \E k \in Keys : LoseEntry(k)
    \/ InventoryStep

Spec == Init /\ [][Next]_vars

\* A live place-order process goes on with its attempt: every call it waits
\* for has a timeout.  Nothing is assumed of the called services.
FairSpec == Spec /\ \A a \in Attempts : WF_vars(pc[a] # "idle" /\ Saga(a))
-----------------------------------------------------------------------------
(* Properties *)

\* "A retried request returns the original order instead of creating a second
\* one": all the successful answers to one key name one order, even when the
\* Redis entry is lost at the worst moment.
SameKeySameOrder ==
    \A a, b \in Attempts :
        /\ KeyOf[a] = KeyOf[b]
        /\ response[a] # None
        /\ response[b] # None
        => response[a] = response[b]

\* "Stock is only permanently consumed once money is definitely captured".
ConsumedIsPaid ==
    \A a \in Attempts : status[a] = "committed" => payment[a] = "captured"

\* The customer is told of success, and a parcel is labelled, only for an
\* order whose payment is captured.
SuccessIsPaid ==
    \A a \in Attempts :
        /\ response[a] # None => payment[response[a]] = "captured"
        /\ shipment[a] # None => payment[a] = "captured"

\* The saga never gives back the stock of an order it goes on to fulfil: what
\* it releases belongs to an order that stays unconfirmed.
FulfilledIsNotReleased ==
    \A a \in Attempts :
        shipment[a] # None \/ order[a] = "processing" => status[a] # "released"

Sold(S, p) ==
    {x \in Attempts \X (1..MaxQty) : x[1] \in S /\ x[2] <= Items(x[1])[p]}
Confirmed == {a \in Attempts : order[a] = "processing"}
Supply(p) == InitialStock[p] + ledger["adjust"][p] + ledger["restock"][p]

\* Simultaneous checkouts alone never sell more than there is: the confirmed
\* orders fit the stock, unless a hold expired before it was committed.
SoldWithinStock ==
    \A p \in Products :
        Cardinality(Sold({a \in Confirmed : status[a] # "expired"}, p))
            <= Supply(p)

\* An order that the checkout marked failed stays failed, also when the
\* payment service answers, or records a capture, after the saga gave up.
FailedStaysFailed ==
    [][\A a \in Attempts : order[a] = "failed" => order'[a] = "failed"]_vars

\* Every attempt comes to an end, although any called service may never
\* answer, and any cleanup may fail.
AttemptsEnd ==
    \A a \in Attempts : pc[a] \in Active ~> pc[a] \in Ended
-----------------------------------------------------------------------------
(* What a comment of the repository says, and the code does not keep *)

\* checkoutSaga.js: "money is only taken once stock is definitely held".
CaptureFindsStockHeld ==
    [][\A a \in Attempts :
          payment[a] = "pending" /\ payment'[a] = "captured"
              => status[a] = "held"]_vars

=============================================================================
