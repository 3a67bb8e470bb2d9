SPECIFICATION FairSpec
CONSTANTS
    FullCapacity = 1000
    Consumption = 3
    Capacities = {0, 11, 45, 1000}
    Voltages = {1790, 2899, 3390, 3600}
    MaxHours = 8
    MaxFaults = 2
INVARIANTS
    BatteryConsistent
    HealthyCellAnnounced
    FrameCurrent
PROPERTIES
    FmdnCatchesUp
