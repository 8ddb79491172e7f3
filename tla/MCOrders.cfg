CONSTANTS
    q1 = q1
    q2 = q2
    q3 = q3
    k1 = k1
    k2 = k2
    o1 = o1
    u1 = u1
    u2 = u2
    Keys = {k1, k2}
    Users = {u1, u2}
    Charges = {q1, q2, q3}
    Orders = {o1}
    Refunds = {f1, f2}
    KeyOf <- MCKeyOf
    OrderOf <- MCOrderOf
    UserOf <- MCUserOf
    AmountOf <- MCAmountOf
    OwnerOf <- MCOwnerOf
    TotalOf <- MCTotalOf
    Faults = {"crash", "db"}
    N = 2
    Reserves = {r1}
    Commits = {c1}
    Releases = {l1}
    Adjusts = {a1}
    Restocks = {b1}
    InitialStock <- MCInitialStock
    MaxQty = 1
    MaxCorrection = 1
    Claimants = {"c1", "c2", "c3"}
    Bodies = {"b1", "b2"}
    Fails = TRUE
    Expires = TRUE
    Crashes = TRUE
SPECIFICATION MCSpec
SYMMETRY Symmetry
INVARIANTS
    BooksAgree
    TakenAndReturnedAsOwed
    OneForAKey
    OrderIsAsSeen
PROPERTIES
    ImplementsKeyedCharge
    Serializable
\* The finitely many requests of the instances end.
CHECK_DEADLOCK FALSE
