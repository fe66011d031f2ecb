SPECIFICATION Spec
CONSTANTS
    Sessions = {s1}
    s1 = s1
    Actions = {a1, a2}
    a1 = a1
    a2 = a2
    Cands = {c1}
    c1 = c1
    Viewers = {v1}
    v1 = v1
    NoAction = NoAction
    NoSession = NoSession
    Slots = 1
    MayLeave = TRUE
    MayCrash = TRUE
    DbMayFail = TRUE
    TailMayFail = TRUE
INVARIANT StepIsTrue
PROPERTY SecondActionOnlyWhenOvertaken
PROPERTY FinalIsFinal
SYMMETRY Symmetry
CHECK_DEADLOCK FALSE
