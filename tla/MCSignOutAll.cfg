CONSTANTS
    First = first
    SignIns = {}
    Refreshes = {r1, r2}
    SignOuts = {}
    SignOutAlls = {a1}
    Passwords = {}
    Deletes = {}
    Faults = {}
SPECIFICATION Spec
PROPERTIES
    SignOutAllIsComplete
\* The finitely many requests of the instance end.
CHECK_DEADLOCK FALSE
