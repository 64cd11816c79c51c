SPECIFICATION LiveSpec
CONSTANTS
    r1 = r1
    r2 = r2
    n1 = n1
    n2 = n2
    g1 = g1
    op1 = op1
    op2 = op2
    agent = agent
    Requests <- OneRequest
    Reaper = Reaper
    Names <- OneName
    NoName = NoName
    Guests <- OneGuest
    NoGuest = NoGuest
    Subjects <- AllSubjects
    Nobody = Nobody
    PinIdentities <- AllOperators
    TTLs <- AllLifetimes
    DefaultTTL = 1
    MaxTTL = 1
    NoBox = NoBox
    NoCall = NoCall
    MaxTime = 2
    MaxFailures = 1
    MaxCrashes = 1
INVARIANTS DecidesOnCurrentState
PROPERTIES OnlyExpiredUnpinnedRemoved CondemnedOnlyShrinks ExpiredIsReaped CallsReturn
