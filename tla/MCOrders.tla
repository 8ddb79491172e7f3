------------------------------ MODULE MCOrders ------------------------------
(* What an order costs, takes from stock, and is paid, once for a key:      *)
(* Payment, InventoryTx, Idempotency and Totals on small instances, side by *)
(* side.  Here they share no state, so of each behaviour one component is   *)
(* all.                                                                     *)
EXTENDS Payment, TLC

CONSTANTS
    q1, q2, q3, k1, k2, o1, u1, u2,
    \* of InventoryTx
    N, Reserves, Commits, Releases, Adjusts, Restocks, InitialStock, MaxQty,
    MaxCorrection,
    \* of Idempotency
    Claimants, Bodies, Fails, Expires, Crashes

VARIABLES
    part,   \* the component that runs
    \* of InventoryTx
    available, reserved, standing, items, ledger, enqueued, step, aim, qty,
    todo, view, locks,
    \* of Idempotency
    entry, at, body, told, done, lost,
    \* of Wrong and Totals, one after the other
    x1, x2, x3, x4, x5, x6, x7, x8, x9

\* q1 and q2 are a charge and its retry; q3 charges the order under a key of
\* its own.
MCKeyOf == [r \in Charges |-> IF r = q3 THEN k2 ELSE k1]
MCOrderOf == [r \in Charges |-> o1]
MCUserOf == [r \in Charges |-> u1]
MCAmountOf == [r \in Charges |-> 1]
MCOwnerOf == [o \in Orders |-> u1]
MCTotalOf == [o \in Orders |-> 1]
MCInitialStock == <<2, 1>>

Symmetry == Permutations(Refunds)

Wrong == INSTANCE Payment WITH
    KeyOf <- [r \in Charges |-> IF r = q2 THEN k2 ELSE k1],
    UserOf <- [r \in Charges |-> IF r = q3 THEN u2 ELSE u1],
    AmountOf <- [r \in Charges |-> IF r = q2 THEN 2 ELSE 1], Faults <- {"db"},
    pc <- x1, answer <- x2, payment <- x3, order <- x4, taken <- x5,
    returned <- x6, refund <- x7, target <- x8, holder <- x9

Tx == INSTANCE InventoryTx WITH
    status <- standing, pc <- step, target <- aim

Store == INSTANCE Idempotency WITH
    Callers <- Claimants, answer <- told

Totals == INSTANCE Totals WITH
    Products <- {"hat", "coat"}, Prices <- {50, 2500}, MaxStock <- 2,
    ServiceLevels <- {"standard"}, TAX_RATE <- 19,
    FREE_SHIPPING_THRESHOLD_CENTS <- 5000, FLAT_SHIPPING_CENTS <- 499,
    TiesDown <- {<<50, 29>>},
    lines <- x1, price <- x2, stock <- x3, seen <- x4, level <- x5, order <- x6

ASSUME TxAssumption == Tx!InventoryTxAssumption
ASSUME StoreAssumption == Store!IdempotencyAssumption
ASSUME TotalsHolds == Totals!TotalsAssumption
ASSUME WrongHolds == Wrong!RequestAssumption

txVars == <<available, reserved, standing, items, ledger, enqueued, step, aim,
            qty, todo, view, locks>>
storeVars == <<entry, at, body, told, done, lost>>
others == <<x1, x2, x3, x4, x5, x6, x7, x8, x9>>

\* What a component that does not run has no use for.
Idle == "idle"
NoTx ==
    /\ available = Idle /\ reserved = Idle /\ standing = Idle
    /\ items = Idle /\ ledger = Idle /\ enqueued = Idle /\ step = Idle
    /\ aim = Idle /\ qty = Idle /\ todo = Idle /\ view = Idle /\ locks = Idle
NoStore ==
    /\ entry = Idle /\ at = Idle /\ body = Idle /\ told = Idle
    /\ done = Idle /\ lost = Idle
Idle7 == x7 = Idle /\ x8 = Idle /\ x9 = Idle
Idle1 ==
    /\ x1 = Idle /\ x2 = Idle /\ x3 = Idle /\ x4 = Idle /\ x5 = Idle
    /\ x6 = Idle /\ Idle7

\* Those of Payment are its own.
MCInit ==
    \/ part = "payment" /\ Init /\ NoTx /\ NoStore /\ Idle1
    \/ part = "wrong" /\ Wrong!Init /\ Init /\ NoTx /\ NoStore
    \/ part = "inventoryTx" /\ Tx!Init /\ Init /\ NoStore /\ Idle1
    \/ part = "idempotency" /\ Store!Init /\ Init /\ NoTx /\ Idle1
    \/ part = "totals" /\ Totals!Init /\ Init /\ NoTx /\ NoStore /\ Idle7

MCNext ==
    \/ /\ part = "payment" /\ Next
       /\ UNCHANGED <<part, txVars, storeVars, others>>
    \/ /\ part = "wrong" /\ Wrong!Next
       /\ UNCHANGED <<part, vars, txVars, storeVars>>
    \/ /\ part = "inventoryTx" /\ Tx!Next
       /\ UNCHANGED <<part, vars, storeVars, others>>
    \/ /\ part = "idempotency" /\ Store!Next
       /\ UNCHANGED <<part, vars, txVars, others>>
    \/ /\ part = "totals" /\ Totals!Next
       /\ UNCHANGED <<part, vars, txVars, storeVars, x7, x8, x9>>

state == <<part, vars, txVars, storeVars, others>>
MCSpec == MCInit /\ [][MCNext]_state
-----------------------------------------------------------------------------
(* Properties *)

\* Of requests with an outdated amount and by another user too, money is taken
\* from the owner of an order, in the amount it costs; and however many
\* administrators refund it, it goes back once unless a transaction fails.
TakenAndReturnedAsOwed ==
    part = "wrong" => Wrong!ChargedAsOrdered /\ Wrong!RefundedOnce

\* Transactions that lock rows one by one leave what the operations of
\* Inventory would leave, each at once.
Serializable ==
    [][part = "inventoryTx" => Tx!SerialStep]_state

\* "A client retrying a checkout after a timeout must not be charged twice":
\* of the requests with one key one is worked on, and once, until a claim is
\* given up or lapses; and what they are answered is true then too.
OneForAKey == part = "idempotency" => Store!OneForAKey

\* "The customer can never be charged a total they did not see", nor one that
\* the cart, the checkout and the quote do not agree on to the cent, wherever
\* half a cent is rounded to.
OrderIsAsSeen == part = "totals" => Totals!OrderIsAsSeen
=============================================================================
