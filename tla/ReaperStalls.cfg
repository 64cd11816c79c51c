SPECIFICATION ServerSpec
CONSTANTS
    g1 = g1
    g2 = g2
    g3 = g3
    k1 = k1
    k2 = k2
    l1 = l1
    l2 = l2
    l3 = l3
    Callers <- GateCallers
    Keys <- GateKeys
    Locks <- GateLocks
    NoKey = NoKey
    NoLock = NoLock
    router = router
    windows = windows
    fedora = fedora
    d1 = d1
    d2 = d2
    d3 = d3
    f1 = f1
    f2 = f2
    Releases = {1, 2, 3}
    CatalogOf <- ServerCatalogs
    Aliases = {router, windows, fedora}
    Digests = {d1, d2, d3}
    Fingerprints = {f1, f2}
    ContentOf <- ServerContent
    Broken = {f2}
    Upstream = Upstream
    NoDigest = NoDigest
    NoImage = NoImage
    NoRelease = NoRelease
    MaxFaults = 2
    MaxImports = 2
    guest1 = guest1
    restored = restored
    again = again
    snap1 = snap1
    image1 = image1
    c1 = c1
    GuestNames = {guest1}
    Copies = {restored}
    Snaps = {snap1}
    LocalImages = {image1}
    Creators = {c1}
    NoName = NoName
    NoSnap = NoSnap
    NoDisk = NoDisk
    MaxDisk = 1
    MaxFailures = 1
    Limit = 1
    MaxOutput = 2
    box1 = box1
    b1 = b1
    b2 = b2
    BoxNames = {box1}
    Clients = {b1, b2}
    Scanner = Scanner
    NoOwner = NoOwner
PROPERTY
    ExpiredEmptied
