CONSTANTS
    Runs = {r1, r2}
    Prs = {p1}
    MaxSha = 2
    WaitCap = 1
    StaleSlack = 0
    Grace = 1
    MaxClock = 2
SPECIFICATION FairSpec
INVARIANTS
    CompletedRunIsSettled
    RowsTellTheTruth
    MergeInvariant
PROPERTIES
    MergedWasVerified
    SettledIsFinal
    KeepsPromise
    TaskCompletesRun
    WatchedRunCompletes
CHECK_DEADLOCK FALSE
