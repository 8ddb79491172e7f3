CONSTANTS
    p1 = p1
    a1 = a1
    a2 = a2
    k1 = k1
    k2 = k2
    Products = {p1}
    Stocked = {p1}
    Sweeps = {}
    Attempts = {a1, a2}
    Keys = {k1}
    KeyOf <- MCOneKey
    ItemsOfKey <- MCItemsOfKey
    InitialStock <- MCInitialStock
    MaxQty = 1
    MaxCorrection = 2
    MaxCancels = 2
    Faults = {"crash", "redis"}
    SweepLimit = 1
SPECIFICATION Spec
SYMMETRY Symmetry
INVARIANTS
    FulfilledIsNotReleased
PROPERTIES
    FailedStaysFailed
\* Every attempt ends, and the instance has finitely many.
CHECK_DEADLOCK FALSE
