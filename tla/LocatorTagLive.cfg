SPECIFICATION FairSpec
CONSTANTS
    c1 = c1
    Conns = {c1}
    NoConn = NoConn
    MaxFaults = 1
    MaxLosses = 2
PROPERTIES
    OrphanKeyResolved
    ManualRequestEnds
    ErasureCompletes
