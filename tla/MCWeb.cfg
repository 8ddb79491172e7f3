CONSTANTS
    v1 = v1
    v2 = v2
    q1 = q1
    q2 = q2
    q3 = q3
    First = first
    SignIns = {s1}
    Refreshes = {v1, v2}
    SignOuts = {o1}
    SignOutAlls = {a1}
    Passwords = {p1}
    Deletes = {d1}
    Faults = {"crash"}
SPECIFICATION MCSpec
SYMMETRY Symmetry
INVARIANTS
    OneLivePerSession
    RetriesAreSafe
    NotThrownOut
    ShowsOwnData
    DatabaseIsWhole
    DrainsFirst
PROPERTIES
    RevokedForGood
    RepeatedAsAsked
\* What the instances ask for is answered, and their processes end.
CHECK_DEADLOCK FALSE
