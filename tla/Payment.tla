------------------------------ MODULE Payment ------------------------------
(***************************************************************************)
(* services/payment: charging an order under an Idempotency-Key, and       *)
(* refunding a payment, with the provider's own books beside the           *)
(* payments table.  Clients are arbitrary: any request may come with any   *)
(* key, for any order.  A row of payments is named by the request that     *)
(* inserts it.  What other services write to an order is OtherService.     *)
(***************************************************************************)
EXTENDS Integers

CONSTANTS
    Charges,  \* POST /payments/charges
    Refunds,   \* POST /payments/:paymentId/refund
    Keys, Orders, Users,
    KeyOf, OrderOf, UserOf, AmountOf,  \* what a charge request carries
    OwnerOf, TotalOf,                  \* columns of orders
    Faults     \* bound: faults that occur, some of {"crash", "db"}

ASSUME RequestAssumption ==
    /\ KeyOf \in [Charges -> Keys]
    /\ OrderOf \in [Charges -> Orders]
    /\ UserOf \in [Charges -> Users]
    /\ AmountOf \in [Charges -> Nat]
ASSUME OrderAssumption ==
    /\ OwnerOf \in [Orders -> Users]
    /\ TotalOf \in [Orders -> Nat]
ASSUME NamesAssumption == "none" \notin Charges \cup Refunds

VARIABLES
    pc,       \* where each charge handler is
    answer,   \* what each charge request was answered
    payment,  \* payments.status of the row a request inserted
    order,    \* orders.status
    taken,    \* the provider's books: requests it captured money for
    returned, \* and how often it gave the money back
    refund,   \* where each refund handler is
    target,   \* the payment it refunds
    holder    \* the refund transaction that holds a row FOR UPDATE

chargeVars == <<pc, answer>>
tables == <<payment, order>>
provider == <<taken, returned>>
refundVars == <<refund, target, holder>>
vars == <<chargeVars, tables, provider, refundVars>>

None == "none"
Active == {"lookup", "check", "insert", "authorize", "approved", "declined"}
Outcomes == {"pending", "captured", "failed", "refunded"}
Statuses == {"pending_payment", "paid", "processing", "shipped", "delivered",
             "cancelled", "failed", "refunded"}
\* The statuses of an answer; one that does not carry a payment names none.
Answers == [code : {200, 201, 402}, payment : Outcomes]
               \cup [code : {404, 409, 500}, payment : {None}]
NoAnswer == [code |-> 0, payment |-> None]

TypeOK ==
    /\ pc \in [Charges -> {"idle", "answered", "crashed"} \cup Active]
    /\ answer \in [Charges -> Answers \cup {NoAnswer}]
    /\ payment \in [Charges -> Outcomes \cup {None}]
    /\ order \in [Orders -> Statuses]
    /\ taken \subseteq Charges
    /\ returned \in [Charges -> Nat]
    /\ refund \in [Refunds -> {"idle", "calling", "commit", "ended", "failed"}]
    /\ target \in [Refunds -> Charges \cup {None}]
    /\ holder \in [Charges -> Refunds \cup {None}]

Init ==
    /\ pc = [r \in Charges |-> "idle"]
    /\ answer = [r \in Charges |-> NoAnswer]
    /\ payment = [r \in Charges |-> None]
    /\ order = [o \in Orders |-> "pending_payment"]
    /\ taken = {}
    /\ returned = [r \in Charges |-> 0]
    /\ refund = [f \in Refunds |-> "idle"]
    /\ target = [f \in Refunds |-> None]
    /\ holder = [r \in Charges |-> None]
-----------------------------------------------------------------------------
(* charge *)

Rows(k) == {q \in Charges : KeyOf[q] = k /\ payment[q] # None}
Goto(r, l) == pc' = [pc EXCEPT ![r] = l] /\ UNCHANGED answer
Reply(r, code, status) ==
    /\ pc' = [pc EXCEPT ![r] = "answered"]
    /\ answer' = [answer EXCEPT ![r] = [code |-> code, payment |-> status]]

SamePayment(q, r) == UserOf[q] = UserOf[r] /\ OrderOf[q] = OrderOf[r]

Arrive(r) ==
    /\ pc[r] = "idle"
    /\ Goto(r, "lookup")
    /\ UNCHANGED <<tables, provider, refundVars>>

\* A key that has a payment is answered with it, whatever its status is now,
\* if it is the caller's and for this order.
Lookup(r) ==
    /\ pc[r] = "lookup"
    /\ IF Rows(KeyOf[r]) = {}
       THEN Goto(r, "check")
       ELSE \E q \in Rows(KeyOf[r]) :
                IF SamePayment(q, r) THEN Reply(r, 200, payment[q])
                                     ELSE Reply(r, 409, None)
    /\ UNCHANGED <<tables, provider, refundVars>>

AmountUnchecked(r) == order[OrderOf[r]] = "pending_payment"
Chargeable(r) ==
    /\ order[OrderOf[r]] = "pending_payment"
    /\ AmountOf[r] = TotalOf[OrderOf[r]]

\* One SELECT of the order; nothing is locked.
Check(r) ==
    /\ pc[r] = "check"
    /\ IF OwnerOf[OrderOf[r]] # UserOf[r] THEN Reply(r, 404, None)
       ELSE IF Chargeable(r) THEN Goto(r, "insert") ELSE Reply(r, 409, None)
    /\ UNCHANGED <<tables, provider, refundVars>>

\* The unique index on payments.idempotency_key.
KeyNotUnique(r) == TRUE
RowAllowed(r) == Rows(KeyOf[r]) = {}

Insert(r) ==
    /\ pc[r] = "insert"
    /\ IF RowAllowed(r)
       THEN /\ payment' = [payment EXCEPT ![r] = "pending"]
            /\ \/ Goto(r, "authorize")
               \/ "db" \in Faults /\ Reply(r, 500, None)
       ELSE Reply(r, 409, None) /\ UNCHANGED payment
    /\ UNCHANGED <<order, provider, refundVars>>

\* The provider decides, and keeps its own record.
Authorize(r) ==
    /\ pc[r] = "authorize"
    /\ \/ taken' = taken \cup {r} /\ Goto(r, "approved")
       \/ Goto(r, "declined") /\ UNCHANGED taken
    /\ UNCHANGED <<tables, returned, refundVars>>

OutcomeOf(r) == IF pc[r] = "approved" THEN "captured" ELSE "failed"
\* The order is marked paid if it is still waiting for it.
OrderAfter(r) ==
    IF OutcomeOf(r) = "captured" /\ order[OrderOf[r]] = "pending_payment"
    THEN "paid" ELSE order[OrderOf[r]]

WriteOutcome(r) ==
    /\ payment' = [payment EXCEPT ![r] = OutcomeOf(r)]
    /\ order' = [order EXCEPT ![OrderOf[r]] = OrderAfter(r)]

RowIsFree(r) == holder[r] = None
CanSettle(r) == pc[r] \in {"approved", "declined"} /\ RowIsFree(r)

\* The transaction that records the outcome; its COMMIT may fail, or succeed
\* and lose its answer.
Settle(r) ==
    /\ CanSettle(r)
    /\ \/ /\ WriteOutcome(r)
          /\ Reply(r, IF OutcomeOf(r) = "captured" THEN 201 ELSE 402,
                   OutcomeOf(r))
       \/ /\ "db" \in Faults
          /\ WriteOutcome(r) \/ UNCHANGED tables
          /\ Reply(r, 500, None)
    /\ UNCHANGED <<provider, refundVars>>

\* The process dies while it works on the request.
ChargeCrash(r) ==
    /\ "crash" \in Faults
    /\ pc[r] \in Active
    /\ Goto(r, "crashed")
    /\ UNCHANGED <<tables, provider, refundVars>>
-----------------------------------------------------------------------------
(* refundPayment, one transaction that locks its row first *)

LockRow(f, r) ==
    /\ refund' = [refund EXCEPT ![f] = "calling"]
    /\ target' = [target EXCEPT ![f] = r]
    /\ holder' = [holder EXCEPT ![r] = f]

RefundableOnce(r) == payment[r] # "refunded"
Refundable(r) == payment[r] = "captured"

\* SELECT ... FOR UPDATE.  A payment that is refunded already is returned, one
\* that is not captured is refused; either way the transaction ends.
RefundBegin(f) ==
    /\ refund[f] = "idle"
    /\ \E r \in Charges :
        /\ payment[r] # None
        /\ RowIsFree(r)
        /\ IF Refundable(r)
           THEN LockRow(f, r)
           ELSE refund' = [refund EXCEPT ![f] = "ended"]
                /\ UNCHANGED <<target, holder>>
    /\ UNCHANGED <<chargeVars, tables, provider>>

ProviderRefund(f) ==
    /\ refund[f] = "calling"
    /\ refund' = [refund EXCEPT ![f] = "commit"]
    /\ returned' = [returned EXCEPT ![target[f]] = @ + 1]
    /\ UNCHANGED <<chargeVars, tables, taken, target, holder>>

Release(f, how) ==
    /\ refund' = [refund EXCEPT ![f] = how]
    /\ holder' = [holder EXCEPT ![target[f]] = None]
    /\ UNCHANGED target

\* Both rows are written, whatever the status of the order is.
WriteRefund(f) ==
    /\ payment' = [payment EXCEPT ![target[f]] = "refunded"]
    /\ order' = [order EXCEPT ![OrderOf[target[f]]] = "refunded"]

MayCommit(f) == refund[f] = "commit"

\* Its statements and its COMMIT may fail too, or succeed and lose the answer.
RefundCommit(f) ==
    /\ MayCommit(f)
    /\ \/ WriteRefund(f) /\ Release(f, "ended")
       \/ /\ "db" \in Faults
          /\ WriteRefund(f) \/ UNCHANGED tables
          /\ Release(f, "failed")
    /\ UNCHANGED <<chargeVars, provider>>

\* The process or its connection dies; the database rolls back.
RefundCrash(f) ==
    /\ "crash" \in Faults
    /\ refund[f] \in {"calling", "commit"}
    /\ Release(f, "failed")
    /\ UNCHANGED <<chargeVars, tables, provider>>
-----------------------------------------------------------------------------
(* What else is written to an order, all of it by one UPDATE *)

\* order-status: an administrator moves an order along this table, and a
\* cancellation follows it too.
ALLOWED_TRANSITIONS ==
    [pending_payment |-> {"paid", "cancelled", "failed"},
     paid |-> {"processing", "cancelled", "refunded"},
     processing |-> {"shipped", "cancelled", "refunded"},
     shipped |-> {"delivered", "refunded"},
     delivered |-> {"refunded"},
     cancelled |-> {}, refunded |-> {}, failed |-> {}]

\* place-order, when its charge has failed, or was answered with a payment: it
\* does not look at the status of the order then.
SagaWrites(o) ==
    \/ order[o] = "pending_payment" /\ order' = [order EXCEPT ![o] = "failed"]
    \/ /\ \E r \in Charges : OrderOf[r] = o /\ answer[r].code \in {200, 201}
       /\ order' = [order EXCEPT ![o] = "processing"]

\* shipping follows the reports of the carriers.
CarrierReports(o) ==
    /\ order[o] \notin {"cancelled", "refunded"}
    /\ \E s \in {"shipped", "delivered"} :
           order' = [order EXCEPT ![o] = s]

OtherService(o) ==
    /\ \/ \E s \in ALLOWED_TRANSITIONS[order[o]] :
              order' = [order EXCEPT ![o] = s]
       \/ SagaWrites(o)
       \/ CarrierReports(o)
    /\ UNCHANGED <<chargeVars, payment, provider, refundVars>>

Charge(r) ==
    \/ Arrive(r) \/ Lookup(r) \/ Check(r) \/ Insert(r) \/ Authorize(r)
    \/ Settle(r)
Refund(f) == RefundBegin(f) \/ ProviderRefund(f) \/ RefundCommit(f)

Next ==
    \/ \E r \in Charges : Charge(r) \/ ChargeCrash(r)
    \/ \E f \in Refunds : Refund(f) \/ RefundCrash(f)
    \/ \E o \in Orders : OtherService(o)

\* A handler that has started is run to its end by the event loop of its
\* process, and the database serves the queries it sends.
Task(t) ==
    \/ t \in Charges /\ pc[t] # "idle" /\ Charge(t)
    \/ t \in Refunds /\ refund[t] # "idle" /\ Refund(t)

Spec == Init /\ [][Next]_vars
-----------------------------------------------------------------------------
(* Properties *)

\* The provider never takes money that the table knows nothing of: a process
\* that dies in the call leaves a row behind, and the key is burned, so that
\* no second request under it reaches the provider.
TakenLeavesRow ==
    \A r \in taken :
        /\ payment[r] # None
        /\ \A q \in taken : KeyOf[q] = KeyOf[r] => q = r

\* A row says captured or refunded only of money that was taken, and refunded
\* only of money that went back.
RowsMatchProvider ==
    \A r \in Charges :
        /\ payment[r] \in {"captured", "refunded"} => r \in taken
        /\ payment[r] = "failed" => r \notin taken
        /\ payment[r] = "refunded" => returned[r] > 0
        /\ returned[r] > 0 => r \in taken

\* Money is taken from the owner of the order, and in the amount it costs.
ChargedAsOrdered ==
    \A r \in taken : /\ UserOf[r] = OwnerOf[OrderOf[r]]
                     /\ AmountOf[r] = TotalOf[OrderOf[r]]

\* Whatever else is written to an order: while it waits for its payment it has
\* no captured one, so that a charge that is checked after a capture, under any
\* key, is refused.
WaitingOrderIsUnpaid ==
    \A r \in Charges :
        payment[r] \in {"captured", "refunded"} =>
            order[OrderOf[r]] # "pending_payment"

\* Clients that use one key never hear that it was captured and that it was
\* declined, however their requests and the refunds interleave.
OneOutcomePerKey ==
    \A q, r \in Charges :
        KeyOf[q] = KeyOf[r] =>
            ~(/\ answer[q].payment \in {"captured", "refunded"}
              /\ answer[r].payment = "failed")

\* However many administrators refund one payment, the provider is asked a
\* second time only if a transaction that had asked before has failed.
RefundedOnce ==
    \A r \in Charges :
        returned[r] > 1 =>
            \E f \in Refunds : target[f] = r /\ refund[f] = "failed"

MadeBy == [k \in Keys |-> IF Rows(k) = {} THEN None
                          ELSE CHOOSE r \in Rows(k) : TRUE]
OutcomeOfKey == [k \in Keys |-> IF MadeBy[k] = None THEN None
                                ELSE payment[MadeBy[k]]]

\* The row of a key and its outcome are those of the abstract machine.
KeyedCharge == INSTANCE KeyedCharge WITH by <- MadeBy, outcome <- OutcomeOfKey
ImplementsKeyedCharge == KeyedCharge!Spec

\* What the table, the provider and the clients know of each other.
BooksAgree ==
    /\ TypeOK
    /\ TakenLeavesRow
    /\ RowsMatchProvider
    /\ WaitingOrderIsUnpaid
    /\ OneOutcomePerKey

\* While no process dies and the database commits, a payment does not stay
\* pending: this holds again and again.
Decided == \A r \in Charges : payment[r] # "pending"
=============================================================================
