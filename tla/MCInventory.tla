---------------------------- MODULE MCInventory ----------------------------
(* Small instances of Inventory. *)
EXTENDS Inventory, TLC

CONSTANTS p1, p2, p3

\* p3 is a product without an inventory row.
MCStocked == Products \ {p3}
MCInitialStock ==
    [p \in Products |-> CASE p = p1 -> 2 [] p = p2 -> 1 [] OTHER -> 0]

Symmetry == Permutations(Reservations) \cup Permutations(Sweeps)
=============================================================================
