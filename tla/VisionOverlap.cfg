SPECIFICATION Spec
CONSTANTS
    c1 = c1
    c2 = c2
    c3 = c3
    Conns = {c1, c2}
    NoConn = NoConn
    Identities = {"vision", "other"}
    PeerCommands = {"PROVIDE_PASSWORD", "WRONG_PASSWORD", "SET_REAL_TIME_CLOCK",
        "SET_ADV_PERIOD", "RESTART_DEVICE", "PUT_DEVICE_IN_OTA_DFU_MODE"}
    Periods = {100, 5001}
    EnergySaving = TRUE
    MaxFaults = 1
SYMMETRY Symmetry
INVARIANTS
    TypeOK
    IntervalNotLost
    NoDanglingConn
    DfuBounded
    FlagFresh
