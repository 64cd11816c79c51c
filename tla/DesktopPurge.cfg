SPECIFICATION DesktopSpec
CONSTANTS
    Names = {n1}
    NoBox = NoBox
    NoName = NoName
    Calls = {c1, c2}
    Sessions = {w1, w2, w3}
    NoSession = NoSession
    Ids = {i1, i2}
    NoImage = NoImage
    Capacity = 1
    Retention = 1
    QueueSize = 1
    MaxTime = 2
INVARIANT DeletedUnserved
