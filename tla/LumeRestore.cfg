SPECIFICATION Spec
CONSTANTS
    s1 = s1
    s2 = s2
    i1 = i1
    n1 = n1
    spare = spare
    Sandboxes = {s1}
    Instances = {i1}
    Snapshots = {n1}
    VMs <- AllNames
    InstanceVM <- PlainName
    SnapshotVM <- SnapshotName
    RestoreVM <- RestoreName
    SpareVMs <- Spares
    NoVM = NoVM
    NoRecord = NoRecord
    NoInstance = NoInstance
    Nobody = Nobody
    MaxGuests = 1
    OpsOf <- NoDestroy
    MaxFailures = 1
    MaxCrashes = 0
PROPERTY RestoreRecreates
