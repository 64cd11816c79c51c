SPECIFICATION PairSpec
CONSTANTS
    s1 = s1
    s2 = s2
    i1 = i1
    n1 = n1
    spare = spare
    Sandboxes = {s1, s2}
    Instances = {i1}
    Snapshots = {n1}
    VMs <- AllNames
    InstanceVM <- PlainName
    SnapshotVM <- SnapshotName
    RestoreVM <- RestoreName
    SpareVMs <- Spares
    NoVM = NoVM
    NoRecord = NoRecord
    NoInstance = NoInstance
    Nobody = Nobody
    MaxGuests = 1
    OpsOf <- Everything
    MaxFailures = 1
    MaxCrashes = 1
    Names = {n1}
    NoBox = NoBox
    NoName = NoName
    Calls = {c1, c2}
    Sessions = {w1, w2, w3}
    NoSession = NoSession
    Ids = {i1}
    NoImage = NoImage
    Capacity = 1
    Retention = 2
    QueueSize = 1
    MaxTime = 2
SYMMETRY Symmetry
INVARIANTS NothingStray TwoAtMost FirstBootPinned SessionsHeld
PROPERTIES SnapshotsSurvive CopiedCold
