SPECIFICATION ProxySpec
CONSTANTS
    c1 = c1
    c2 = c2
    k1 = k1
    k2 = k2
    k3 = k3
    t1 = t1
    t2 = t2
    d1 = d1
    d2 = d2
    Unknown = Unknown
    NoChild = NoChild
    Calls <- MCCalls
    Tools = {t1, t2}
    ToolOf <- TwoTools
    Defs = {d1, d2}
    Children <- MCChildren
    BufferLimit = 2
    MaxSwaps = 3
    MaxVersions = 2
    DefsOf <- MCDefsOf
    Snapshots <- MCSnapshots
    MaxBackoff = 1
    MaxFailures = 1
    MaxCrashes = 1
    MaxToolChanges = 1
    MaxRefusals = 1
    s1 = s1
    r1 = r1
    r2 = r2
    none = none
    Clients = {s1}
    Requests = {r1, r2}
    ToolNames = {t1, t2}
    Shapes = {d1, d2}
    NotServed = none
    NoClient = NoClient
    ToolSets <- OneOrBoth
    MaxReconciles = 4
    top = top
    package = package
    left = left
    right = right
    Folders = {top, package, left, right}
    Root = top
    Inside <- ThreeBelow
    NoFolder = NoFolder
    Chmod = Chmod
    QueueLimit = 2
    WatchLimit = 3
SYMMETRY Indistinct
CHECK_DEADLOCK FALSE
INVARIANTS
    InflightExact
    ResolvedOnce
    ReleasedOnItsDefinition
    InSync
    NoOrphans
    RecoveryPending
    NeverBlind
    NothingMissed
PROPERTIES
    UsesRouter
    RelistSuffices
