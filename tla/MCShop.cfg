CONSTANTS
    p1 = p1
    p2 = p2
    p3 = p3
    r1 = r1
    r2 = r2
    a1 = a1
    u1 = u1
    u2 = u2
    u3 = u3
    q1 = q1
    q2 = q2
    q3 = q3
    Cancels = {c1}
    Transitions = {a1}
    Creates = {n1, n2}
    Updates = {c2}
    Refunds = {f1}
    Reported = {"label_created", "in_transit", "out_for_delivery", "delivered",
                "cancelled"}
    Initially = {"processing"}
SPECIFICATION MCSpec
SYMMETRY Symmetry
INVARIANTS
    IndexIsSound
    SearchAnswers
    RatingIsReflected
    RunIsSettled
PROPERTIES
    CancelIsFinal
    StaysAsItWas
\* No more happens when the bounds are reached.
CHECK_DEADLOCK FALSE
