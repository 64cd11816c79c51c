SPECIFICATION ClusterSpec
CONSTANTS
    Boxes = {b1, b2}
    Nets = {default, n1}
    DefaultNet = default
    Physical = {p1, p2}
    Members = 2
    NoBox = NoBox
    NoNet = NoNet
    NoName = NoName
    MaxFailures = 1
    Projects = {o1, o2}
    Networks = {default, n1}
    Main = default
    Baseline = baseline
    RuleIDs = {r1, r2}
    Ports = {x1, x2}
    Targets = {t1, t2}
    Addresses = {1, 2}
    NoThing = NoThing
    MaxAsked = 5
    MaxFaults = 1
SYMMETRY Symmetry
INVARIANTS
    OwnedIsReserved
    PendingClaimed
    OnOwnNetwork
    Screened
    OneForward
    AnsweredForKept
    NothingInherited
