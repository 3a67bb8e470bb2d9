SPECIFICATION FairSpec
CONSTANTS
    Settings = {"s1", "s2"}
    CounterValues = 4
    MaxReadFaults = 1
    MaxWriteFaults = 2
    MaxPowerLosses = 2
INVARIANTS
    RecordsConsistent
PROPERTIES
    SettingsKept
    CounterNeverGoesBack
    BootCompletes
