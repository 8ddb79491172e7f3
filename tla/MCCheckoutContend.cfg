CONSTANTS
    p1 = p1
    a1 = a1
    a2 = a2
    k1 = k1
    k2 = k2
    Products = {p1}
    Stocked = {p1}
    Sweeps = {w1}
    Attempts = {a1, a2}
    Keys = {k1, k2}
    KeyOf <- MCTwoKeys
    ItemsOfKey <- MCItemsOfKey
    InitialStock <- MCInitialStock
    MaxQty = 1
    MaxCorrection = 1
    MaxCancels = 0
    Faults = {}
    SweepLimit = 1
SPECIFICATION Spec
SYMMETRY SymmetryTwoKeys
INVARIANTS
    SoldWithinStock
\* Every attempt ends, and the instance has finitely many.
CHECK_DEADLOCK FALSE
