CONSTANTS
    e1 = e1
    n1 = n1
    Members = {ann}
    SignUps = {s1}
    Updates = {u1, u2}
    Deletes = {d1}
    Emails = {e1, e2}
    Names = {n1, n2}
    First <- MCFirst
    Faults = TRUE
    t1 = t1
    t2 = t2
    t3 = t3
    t4 = t4
SPECIFICATION MCSpec
SYMMETRY Symmetry
INVARIANTS
    IdentitiesAreOwned
    BookIsLegal
PROPERTIES
    CartKeepsItsLines
\* The finitely many requests of the instances end.
CHECK_DEADLOCK FALSE
