SPECIFICATION Spec
CONSTANTS
    c1 = c1
    c2 = c2
    Conns = {c1, c2}
    NoConn = NoConn
    MaxFaults = 1
    MaxLosses = 1
SYMMETRY Symmetry
INVARIANTS
    TypeOK
    MismatchGuarded
    CopiesAgree
    ModeMatchesRequests
    AdvertisingMatchesMode
    EnableFlagTracksStack
    DiscoverableInterval
    IdentifyingInfoProtected
PROPERTIES
    SuspendedAddressStable
    ImplementsOwnership
