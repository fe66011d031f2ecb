SPECIFICATION Spec
CONSTANTS
    Sessions = {s1}
    s1 = s1
    Actions = {a1, a2, a3}
    a1 = a1
    a2 = a2
    a3 = a3
    Cands = {c1}
    c1 = c1
    Viewers = {v1}
    v1 = v1
    NoAction = NoAction
    NoSession = NoSession
    Slots = 1
    MayLeave = FALSE
    MayCrash = FALSE
    DbMayFail = FALSE
    TailMayFail = FALSE
PROPERTY InFlightIsRejected
SYMMETRY Symmetry
CHECK_DEADLOCK FALSE
