CONSTANTS
    MaxChunks = 4
    MaxFaults = 2
SPECIFICATION FairSpec
CHECK_DEADLOCK FALSE
INVARIANTS
    UartConsistent
PROPERTIES
    AtMostOnce
    UartSwitchedOff
