SPECIFICATION RouterSpec
CONSTANTS
    BoxNames = {n1}
    Clients = {b1}
    Scanner = Scanner
    NoOwner = NoOwner
PROPERTY
    ReapedWhenAvailable
