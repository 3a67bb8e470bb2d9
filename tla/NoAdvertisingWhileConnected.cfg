SPECIFICATION Spec
CONSTANTS
    c1 = c1
    c2 = c2
    Conns = {c1, c2}
    NoConn = NoConn
    MaxFaults = 0
    MaxLosses = 0
INVARIANTS
    NoAdvertisingWhileConnected
