SPECIFICATION Spec
CONSTANTS
    Installations = {mine, theirs}
    Owned = {mine}
    Workers = {w1, w2}
    Tabs = {t1, t2}
    Paths = {plan}
    DefaultPath = scan
    None = None
    Lifetime = 3
    Skew = 1
    Delay = 1
    MaxTime = 2
    MaxStarts = 2
SYMMETRY
    MCSymmetry
INVARIANTS
    BoundIsOwned
    LandsWhereItStarted
    TokenOutlivesItsUse
PROPERTY
    FreshTokenIsKept
CHECK_DEADLOCK FALSE
