CONSTANTS
    MinuteSeconds = 2
    DayMinutes = 6
    EpochRange = 64
    LongRange = 128
    SupervisorPeriod = 2
    Disabled = 9
    Epochs = {0, 15, 60}
    TimeZones <- MCTimeZones
    Minutes = {1, 4, 5, 7, 9}
    Outages = {0, 1}
    MaxSeconds = 7
    MaxResets = 2
    MaxCommands = 2
SPECIFICATION Spec
CHECK_DEADLOCK FALSE
INVARIANTS
    TypeOK
    WindowAsDrawn
    EcoFollowsWindow
    ClockKept
