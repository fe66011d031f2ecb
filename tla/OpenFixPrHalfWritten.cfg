SPECIFICATION Spec
CONSTANTS
    Openers = {o1, o2}
    o1 = o1
    o2 = o2
    Fixes = {x1}
    x1 = x1
    DirectFixes = {x1}
    MaxMain = 0
    MayClose = FALSE
INVARIANT PullHoldsTheFix
CHECK_DEADLOCK FALSE
