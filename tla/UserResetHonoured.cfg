SPECIFICATION FairSpec
CONSTANTS
    c1 = c1
    Conns = {c1}
    NoConn = NoConn
    MaxFaults = 0
    MaxLosses = 0
PROPERTIES
    UserResetHonoured
