SPECIFICATION FairSpec
CONSTANTS
    Sessions = {s1}
    s1 = s1
    Actions = {a1}
    a1 = a1
    Cands = {c1, c2, c3}
    c1 = c1
    c2 = c2
    c3 = c3
    Viewers = {v1}
    v1 = v1
    NoAction = NoAction
    NoSession = NoSession
    Slots = 2
    MayLeave = FALSE
    MayCrash = FALSE
    DbMayFail = FALSE
    TailMayFail = TRUE
INVARIANT EveryResultIsRecorded
INVARIANT StatusMatchesOutcomes
INVARIANT MergeStartsAfterCompletion
PROPERTY PendingActionSettles
PROPERTY AuthorizedSessionMovesOn
PROPERTY SoleViewerIsReleased
PROPERTY FinishedActionIsMerged
CHECK_DEADLOCK FALSE
