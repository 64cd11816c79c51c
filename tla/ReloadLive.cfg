SPECIFICATION LiveSpec
CONSTANTS
    c1 = c1
    c2 = c2
    k1 = k1
    k2 = k2
    k3 = k3
    t1 = t1
    t2 = t2
    d1 = d1
    d2 = d2
    Unknown = Unknown
    NoChild = NoChild
    Calls <- OneCall
    Tools = {t1}
    ToolOf <- SameTool
    Defs = {d1, d2}
    Children <- TwoChildren
    BufferLimit = 1
    MaxSwaps = 3
    MaxVersions = 2
    DefsOf <- MCDefsOf
    Snapshots <- MCSnapshots
    MaxBackoff = 1
    MaxFailures = 1
    MaxCrashes = 1
    MaxToolChanges = 1
    MaxRefusals = 1
CHECK_DEADLOCK FALSE
PROPERTIES
    ServesLatest
    ParkedResolved
    Stops
