SPECIFICATION Spec
CONSTANTS
    Openers = {o1, o2, o3}
    o1 = o1
    o2 = o2
    o3 = o3
    Fixes = {x1, x2}
    x2 = x2
    x1 = x1
    DirectFixes = {x1}
    MaxMain = 1
    MayClose = TRUE
SYMMETRY Symmetry
INVARIANT WrittenPrIsComplete
INVARIANT FilesFromOneClone
INVARIANT OnePullPerFix
PROPERTY ActsAtOnce
CHECK_DEADLOCK FALSE
