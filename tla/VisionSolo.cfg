SPECIFICATION FairSpec
CONSTANTS
    c1 = c1
    c2 = c2
    c3 = c3
    Conns = {c1, c2}
    NoConn = NoConn
    Identities = {"vision"}
    PeerCommands = {"PROVIDE_PASSWORD", "WRONG_PASSWORD", "SET_REAL_TIME_CLOCK",
        "SET_ADV_PERIOD", "SET_ENERGY_SAVE_TIME", "RESTART_DEVICE",
        "PUT_DEVICE_IN_OTA_DFU_MODE", "READ", "INVALID"}
    Periods = {100, 5000, 5001}
    EnergySaving = FALSE
    MaxFaults = 0
INVARIANTS
    SessionTimed
    NeverSilent
    CommandOfItsSession
PROPERTIES
    FrameComesBack
