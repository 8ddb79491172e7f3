------------------------------- MODULE Totals -------------------------------
(***************************************************************************)
(* What an order costs: shared/money.js, the cart that applies it to live  *)
(* prices and stock, the preview and the re-pricing of place-order, and    *)
(* the quote of shipping.  One customer's cart, while the catalogue        *)
(* changes.                                                                *)
(***************************************************************************)
EXTENDS Integers, Functions

CONSTANTS
    Products, Prices, MaxStock,
    ServiceLevels,
    \* place-order's configuration, the rate in hundredths
    TAX_RATE, FREE_SHIPPING_THRESHOLD_CENTS, FLAT_SHIPPING_CENTS,
    TiesDown    \* amounts and rates, <<50, 29>> for one, whose product ends in
                \* half a cent, and is a little less as a float

TotalsAssumption ==
    /\ Prices \subseteq Nat
    /\ ServiceLevels \subseteq {"standard", "express", "overnight"}
    /\ TAX_RATE \in 0..100
    /\ {MaxStock, FREE_SHIPPING_THRESHOLD_CENTS, FLAT_SHIPPING_CENTS}
           \subseteq Nat

VARIABLES
    lines,      \* the cart as it is stored: quantities
    price, stock,
    seen,       \* the preview the customer looks at
    level,      \* the delivery speed that is chosen
    order       \* the order that was placed

vars == <<lines, price, stock, seen, level, order>>

Empty == [p \in Products |-> 0]
NoTotals == [subtotal |-> -1, shipping |-> 0, tax |-> 0, total |-> 0]
NoOrder == [items |-> Empty, totals |-> NoTotals, shown |-> NoTotals,
            level |-> "standard"]

\* The amounts are whole cents, and an order has what was in stock.
TypeOK ==
    /\ lines \in [Products -> 0..MaxStock]
    /\ price \in [Products -> Prices]
    /\ stock \in [Products -> 0..MaxStock]
    /\ level \in ServiceLevels
    /\ order # NoOrder =>
           /\ order.totals \in [subtotal : Nat, shipping : Nat, tax : Nat,
                                total : Nat]
           /\ order.items \in [Products -> 0..MaxStock]

Init ==
    /\ lines = Empty
    /\ price \in [Products -> Prices]
    /\ stock = [p \in Products |-> MaxStock]
    /\ seen = NoTotals
    /\ level \in ServiceLevels
    /\ order = NoOrder
-----------------------------------------------------------------------------
(* money.js *)

\* Math.round of the product of two floats, for amounts so small that it is
\* wrong by less than a hundredth of a cent: it can be on the wrong side of a
\* half, as 50 * 0.29 is, but of nothing else.
CalculateTax(cents, rate) ==
    IF (cents * rate) % 100 = 50 /\ <<cents, rate>> \in TiesDown
    THEN (cents * rate) \div 100
    ELSE (2 * cents * rate + 100) \div 200

CalculateShipping(cents, threshold, flat) ==
    IF cents > 0 /\ cents < threshold THEN flat ELSE 0

Subtotal(items, prices) ==
    SumFunction([p \in Products |-> prices[p] * items[p]])

CalculateTotals(items, prices, rate, threshold, flat) ==
    LET sub == Subtotal(items, prices)
        ship == CalculateShipping(sub, threshold, flat)
        tax == CalculateTax(sub, rate)
    IN  [subtotal |-> sub, shipping |-> ship, tax |-> tax,
         total |-> sub + ship + tax]
-----------------------------------------------------------------------------
(* The cart, the checkout and the quote *)

\* getCart: what is in stock of what was put in.
Available(p) == IF lines[p] < stock[p] THEN lines[p] ELSE stock[p]
Items == [p \in Products |-> Available(p)]
Unavailable == {p \in Products : lines[p] > 0 /\ stock[p] = 0}

CartTotals == CalculateTotals(Items, price, 19, 5000, 499)
CheckoutTotals ==
    CalculateTotals(Items, price, TAX_RATE, FREE_SHIPPING_THRESHOLD_CENTS,
                    FLAT_SHIPPING_CENTS)

\* quote prices the speeds on their own.
Quote(speed, sub) ==
    CASE speed = "standard"  -> IF sub >= 5000 THEN 0 ELSE 499
      [] speed = "express"   -> 999
      [] speed = "overnight" -> 1999

SetLine ==
    /\ \E p \in Products, n \in 0..MaxStock : lines' = [lines EXCEPT ![p] = n]
    /\ UNCHANGED <<price, stock, seen, level, order>>

Choose ==
    /\ level' \in ServiceLevels
    /\ UNCHANGED <<lines, price, stock, seen, order>>

Preview ==
    /\ Items # Empty
    /\ seen' = CheckoutTotals
    /\ UNCHANGED <<lines, price, stock, level, order>>

NeverRefuses(expected, actual) == FALSE
PriceChanged(expected, actual) == expected # actual

\* The page needs totals to submit.
Place ==
    /\ order = NoOrder /\ seen # NoTotals
    /\ Items # Empty /\ Unavailable = {}
    /\ ~PriceChanged(seen.total, CheckoutTotals.total)
    /\ order' = [items |-> Items, totals |-> CheckoutTotals, shown |-> seen,
                 level |-> level]
    /\ UNCHANGED <<lines, price, stock, seen, level>>

\* An administrator, other customers.
Reprice ==
    /\ \E p \in Products, c \in Prices : price' = [price EXCEPT ![p] = c]
    /\ UNCHANGED <<lines, stock, seen, level, order>>

Restock ==
    /\ \E p \in Products, n \in 0..MaxStock : stock' = [stock EXCEPT ![p] = n]
    /\ UNCHANGED <<lines, price, seen, level, order>>

Next == SetLine \/ Choose \/ Preview \/ Place \/ Reprice \/ Restock
Spec == Init /\ [][Next]_vars
-----------------------------------------------------------------------------
(* Properties *)

\* "The customer can never be charged a total they did not see", whatever the
\* catalogue does between the preview and the order.
ChargedAsSeen == order # NoOrder => order.totals.total = order.shown.total

\* "Exactly equal to its parts", and no line or rounding is off by a cent: the
\* tax of the order is the exact one to half a cent, either way.
ExactToTheCent ==
    order # NoOrder =>
        LET t == order.totals IN
        /\ t.total = t.subtotal + t.shipping + t.tax
        /\ 2 * (t.subtotal * TAX_RATE - 100 * t.tax) \in -100..100

\* "Single source of truth for order totals; used by cart, checkout and
\* orders": with the configuration that is the default, the cart, the checkout
\* and the quote of standard delivery say the same.
Default == TAX_RATE = 19 /\ FREE_SHIPPING_THRESHOLD_CENTS = 5000
               /\ FLAT_SHIPPING_CENTS = 499
OneTruth ==
    Default =>
        /\ CartTotals = CheckoutTotals
        /\ order # NoOrder /\ order.level = "standard" =>
               order.totals.shipping = Quote("standard", order.totals.subtotal)

\* Nothing is charged that the customer did not see, or that is not exact to
\* half a cent.
OrderIsAsSeen == TypeOK /\ ChargedAsSeen /\ ExactToTheCent /\ OneTruth
=============================================================================
