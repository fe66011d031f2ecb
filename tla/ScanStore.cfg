SPECIFICATION Spec
CONSTANTS
    Targets <- MCTargets
    Uploaded <- MCUploaded
    Reports = {r1, r2}
    Slots = {s1, s2}
    Limit = 2
    MaxScans = 3
    MaxChanges = 2
    None = None
SYMMETRY
    MCSymmetry
INVARIANTS
    ReportStaysReachable
    ActsOnSelectedRepo
    ScansStayWithinLimit
CHECK_DEADLOCK FALSE
