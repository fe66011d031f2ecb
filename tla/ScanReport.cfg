SPECIFICATION Spec
CONSTANTS
    Packages = {1, 3, 4}
    Root = 2
    Versions <- MCVersions
    Installs = {1, 2, 3, 4}
    Key <- MCKey
    Lockfiles = {}
    Advisories = {1, 2, 3, 4, 5}
    About <- MCAbout
    Fixed <- MCFixed
    Affected <- MCAffected
    Packuments = {}
    Overrides = {}
    FirstWorlds = {}
    Worlds <- MCWorlds
    MaxMoves = 0
    NoDep = NoDep
    NoVersion = NoVersion
    Unavailable = Unavailable
    NoIds = NoIds
INVARIANTS
    BalanceHolds
    PageAccountsForFindings
    PageAgreesWithCounts
    RouteIsInGraph
    DepthIsOfAWay
CHECK_DEADLOCK FALSE
