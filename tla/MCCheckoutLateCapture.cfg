CONSTANTS
    p1 = p1
    a1 = a1
    a2 = a2
    k1 = k1
    k2 = k2
    Products = {p1}
    Stocked = {p1}
    Sweeps = {}
    Attempts = {a1}
    Keys = {k1}
    KeyOf <- MCOneKey
    ItemsOfKey <- MCItemsOfKey
    InitialStock <- MCInitialStock
    MaxQty = 1
    MaxCorrection = 0
    MaxCancels = 0
    Faults = {}
    SweepLimit = 1
SPECIFICATION Spec
PROPERTIES
    CaptureFindsStockHeld
\* Every attempt ends, and the instance has finitely many.
CHECK_DEADLOCK FALSE
