CONSTANTS
    p1 = p1
    p2 = p2
    p3 = p3
    Products = {p1, p2, p3}
    Reservations = {r1, r2}
    Sweeps = {w1, w2}
    Stocked <- MCStocked
    InitialStock <- MCInitialStock
    MaxQty = 2
    MaxCorrection = 1
    SweepLimit = 1
SPECIFICATION Spec
SYMMETRY Symmetry
INVARIANTS
    TypeOK
    ReservedMatchesHeld
    StockConserved
    LedgerExplainsAvailable
PROPERTIES
    ResolvedOnce
    FacetChangeIsQueued
\* The finitely many reservations and corrections of the instance run out.
CHECK_DEADLOCK FALSE
