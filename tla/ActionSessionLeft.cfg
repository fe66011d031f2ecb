SPECIFICATION FairSpec
CONSTANTS
    Sessions = {s1}
    s1 = s1
    Actions = {a1}
    a1 = a1
    Cands = {c1}
    c1 = c1
    Viewers = {v1}
    v1 = v1
    NoAction = NoAction
    NoSession = NoSession
    Slots = 1
    MayLeave = TRUE
    MayCrash = FALSE
    DbMayFail = FALSE
    TailMayFail = FALSE
PROPERTY PendingActionSettles
CHECK_DEADLOCK FALSE
