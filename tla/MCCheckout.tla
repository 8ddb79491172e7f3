----------------------------- MODULE MCCheckout -----------------------------
(* Small instances of Checkout: one product, two attempts. *)
EXTENDS Checkout, TLC

CONSTANTS p1, a1, a2, k1, k2

MCInitialStock == [p \in Products |-> 1]
MCStockForBoth == [p \in Products |-> 2]
MCItemsOfKey == [k \in Keys |-> [p \in Products |-> 1]]

\* A client that submits the same checkout twice.
MCOneKey == [a \in Attempts |-> k1]

\* Two customers after the last unit.
MCTwoKeys == [a \in Attempts |-> IF a = a1 THEN k1 ELSE k2]

\* Both attempts carry k1, or the customers change places with their keys.
Symmetry == Permutations(Attempts)
SymmetryTwoKeys ==
    {[x \in {a1, a2, k1, k2} |-> x],
     [x \in {a1, a2, k1, k2} |->
        CASE x = a1 -> a2 [] x = a2 -> a1 [] x = k1 -> k2 [] OTHER -> k1]}
=============================================================================
