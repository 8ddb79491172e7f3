CONSTANTS
    t1 = t1
    t2 = t2
    t3 = t3
    t4 = t4
    t5 = t5
    Products = {p1}
    Reservations = {t1, t2}
    Sweeps = {t3}
    Stocked = {p1}
    InitialStock <- MCInitialStock
    MaxQty = 1
    MaxCorrection = 0
    SweepLimit = 1
SPECIFICATION MCFairSpec
INVARIANTS
    WellTyped
PROPERTIES
    HoldsEnd
    ShopSettles
\* What the instances ask for is answered, and their processes end.
CHECK_DEADLOCK FALSE
