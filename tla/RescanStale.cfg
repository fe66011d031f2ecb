SPECIFICATION Spec
CONSTANTS
    Packages = {1, 2}
    Versions <- MCVersions
    Installs = {1, 2, 3}
    Lockfiles <- MCLockfiles
    Advisories = {1, 2, 3}
    About <- MCAbout
    Fixed <- MCFixed
    Affected <- MCAffected
    Packuments <- MCPackuments
    Overrides = {TRUE, FALSE}
    FirstWorlds <- MCFirstWorlds
    MaxMoves = 2
    NoDep = NoDep
    NoVersion = NoVersion
    Unavailable = Unavailable
    nobody = nobody
    NoIds = {nobody}
INVARIANT MergesWhatWasRated
CHECK_DEADLOCK FALSE
