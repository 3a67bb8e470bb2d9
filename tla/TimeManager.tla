----------------------------- MODULE TimeManager -----------------------------
(***************************************************************************)
(* The clock and the energy-saving window: vision_time_manager.c.          *)
(*                                                                         *)
(* The clock is an epoch that a phone or the production tool sends, plus   *)
(* the uptime since then.  A supervisor saves it every 60 s in RAM that a   *)
(* reset keeps, and switches the Vision frame off and on at the borders of  *)
(* the window (what becomes of the frame is in module VisionService).       *)
(*                                                                         *)
(* Time passes in seconds.  Everything here runs on the system workqueue,   *)
(* so that a call is one step; the supervisor runs when it is due.          *)
(***************************************************************************)
EXTENDS Integers

CONSTANTS
    MinuteSeconds,     \* 60
    DayMinutes,        \* 1440
    EpochRange,        \* 2^32, the range of uint32_t
    LongRange,         \* 2^64, the range of uint64_t
    SupervisorPeriod,  \* 60
    Disabled,          \* 0xFFFF
    Epochs,            \* what a peer sends as the time
    TimeZones,         \* ... and as the time zone, in minutes
    Minutes,           \* borders of the window that a peer sends, any uint16_t
    Outages,           \* how long a reset can take, in seconds
    MaxSeconds,        \* bound on the time that passes
    MaxResets,         \* bound on resets
    MaxCommands        \* bound on commands

DaySeconds == MinuteSeconds * DayMinutes

ASSUME TimeAssumption ==
    /\ {MinuteSeconds, DayMinutes, SupervisorPeriod, EpochRange} \subseteq Nat \ {0}
    /\ LongRange \in Nat
    /\ Disabled \in Nat /\ Disabled >= DayMinutes
    /\ Epochs \subseteq 0..(EpochRange - 1)
    /\ TimeZones \subseteq Int
    /\ \A zone \in TimeZones : EpochRange + zone * MinuteSeconds <= LongRange
    /\ Minutes \subseteq 0..Disabled
    /\ Outages \subseteq Nat
    /\ {MaxSeconds, MaxResets, MaxCommands} \subseteq Nat

VARIABLES
    clock,     \* s64_BaseUtcEpoch, uptime since s64_BaseUptimeTicks,
               \* bool_IsTimeSynchronized
    retained,  \* static_retained_time: its marker and its epoch
    config,    \* s16_TimeZoneOffset and energy_save_para of gst_ConfigData
    due,       \* seconds until time_supervisor_work
    Advtflag,  \* static of the supervisor: the frame was stopped
    count,     \* bounded: seconds, resets and commands so far
    hist       \* history: the true time, resets since the clock was set, and how
               \* long Advtflag has differed from the window

vars == <<clock, retained, config, due, Advtflag, count, hist>>

TypeOK ==
    /\ clock \in [base : Nat, elapsed : Nat, bool_IsTimeSynchronized : BOOLEAN]
    /\ retained \in [u32_MagicMarker : BOOLEAN,
                     u32_LastSavedUtcEpoch : 0..(EpochRange - 1)]
    /\ config \in [s16_TimeZoneOffset : TimeZones, u16_StartMinutes : Minutes,
                   u16_EndMinutes : Minutes]
    /\ due \in 0..SupervisorPeriod
    /\ Advtflag \in BOOLEAN
    /\ count \in [seconds : 0..MaxSeconds, resets : 0..MaxResets,
                  commands : 0..MaxCommands]
    /\ hist \in [time : Nat, resets : Nat, differs : Nat]

-----------------------------------------------------------------------------
(***************************************************************************)
(* The functions of the module, of a clock c and a configuration g.        *)
(***************************************************************************)

\* Mutant: the cast to uint32_t is missing.
Bug_epoch_not_cut(c) ==
    IF c.bool_IsTimeSynchronized THEN c.base + c.elapsed ELSE 0

app_time_get_utc_epoch(c) ==
    IF c.bool_IsTimeSynchronized THEN (c.base + c.elapsed) % EpochRange ELSE 0

\* int64_t modulo an unsigned long: a negative time is taken modulo 2^64 first.
UnsignedRemainder(x, n) == (x % LongRange) % n

LocalTime(c, g) == app_time_get_utc_epoch(c) + g.s16_TimeZoneOffset * MinuteSeconds

app_time_get_local_minutes_of_day(c, g) ==
    IF app_time_get_utc_epoch(c) = 0 THEN 0
    ELSE UnsignedRemainder(LocalTime(c, g), DaySeconds) \div MinuteSeconds

\* Mutant: a window across midnight is taken for an empty one.
Bug_no_midnight(c, g) ==
    /\ c.bool_IsTimeSynchronized
    /\ Disabled \notin {g.u16_StartMinutes, g.u16_EndMinutes}
    /\ app_time_get_local_minutes_of_day(c, g) >= g.u16_StartMinutes
    /\ app_time_get_local_minutes_of_day(c, g) < g.u16_EndMinutes

app_time_is_within_energy_saving_window(c, g) ==
    LET current == app_time_get_local_minutes_of_day(c, g)
        start == g.u16_StartMinutes
        end == g.u16_EndMinutes
    IN  /\ c.bool_IsTimeSynchronized
        /\ start # Disabled /\ end # Disabled
        /\ IF start < end THEN current >= start /\ current < end
                          ELSE current >= start \/ current < end

Within == app_time_is_within_energy_saving_window(clock, config)

-----------------------------------------------------------------------------
(***************************************************************************)
(* Actions.                                                                *)
(***************************************************************************)

\* A change of the clock, the window or Advtflag: the two begin to differ or
\* come together.
Note(t, resets, differs) ==
    hist' = [time |-> t, resets |-> resets,
             differs |-> IF Advtflag' = app_time_is_within_energy_saving_window(clock', config')
                         THEN 0 ELSE differs]

Command ==
    /\ count.commands < MaxCommands
    /\ count' = [count EXCEPT !.commands = @ + 1]
    /\ UNCHANGED <<due, Advtflag>>

\* SET_REAL_TIME_CLOCK and TOOL_SET_CLOCK_CMD: the time zone, and
\* app_time_sync_set_utc.
app_time_sync_set_utc(epoch, zone) ==
    /\ Command
    /\ clock' = [base |-> epoch, elapsed |-> 0, bool_IsTimeSynchronized |-> TRUE]
    /\ retained' = [u32_MagicMarker |-> TRUE, u32_LastSavedUtcEpoch |-> epoch]
    /\ config' = [config EXCEPT !.s16_TimeZoneOffset = zone]
    /\ Note(epoch, 0, hist.differs)

\* SET_ENERGY_SAVE_TIME, which does not check that the borders are minutes of a
\* day.
SetEnergySaveTime(start, end) ==
    /\ Command
    /\ config' = [config EXCEPT !.u16_StartMinutes = start, !.u16_EndMinutes = end]
    /\ UNCHANGED <<clock, retained>>
    /\ Note(hist.time, hist.resets, hist.differs)

\* Mutant: the clock is not saved.
Bug_not_saved ==
    /\ due = 0
    /\ due' = SupervisorPeriod
    /\ Advtflag' = Within
    /\ UNCHANGED <<clock, retained, config, count>>
    /\ Note(hist.time, hist.resets, hist.differs)

\* Mutant: the end of the window is not noticed.
Bug_never_leaves ==
    /\ due = 0
    /\ due' = SupervisorPeriod
    /\ Advtflag' = (Advtflag \/ Within)
    /\ UNCHANGED <<clock, retained, config, count>>
    /\ Note(hist.time, hist.resets, hist.differs)

time_supervisor_work_handler ==
    /\ due = 0
    /\ due' = SupervisorPeriod
    /\ IF clock.bool_IsTimeSynchronized
       THEN /\ retained' = [u32_MagicMarker |-> TRUE,
                            u32_LastSavedUtcEpoch |-> app_time_get_utc_epoch(clock)]
            /\ Advtflag' = Within
       ELSE UNCHANGED <<retained, Advtflag>>
    /\ UNCHANGED <<clock, config, count>>
    /\ Note(hist.time, hist.resets, hist.differs)

Second ==
    /\ due > 0
    /\ count.seconds < MaxSeconds
    /\ due' = due - 1
    /\ clock' = [clock EXCEPT !.elapsed = @ + 1]
    /\ count' = [count EXCEPT !.seconds = @ + 1]
    /\ UNCHANGED <<retained, config, Advtflag>>
    /\ Note(hist.time + 1, hist.resets, hist.differs + 1)

\* app_time_activities_init after a reset that kept the retained RAM, or after a
\* loss of power.  The outage is estimated as 1 s.
app_time_manager_boot_recover(outage, kept) ==
    /\ count.resets < MaxResets
    /\ count.seconds + outage <= MaxSeconds
    /\ count' = [count EXCEPT !.resets = @ + 1, !.seconds = @ + outage]
    /\ IF kept
       THEN UNCHANGED retained
       ELSE retained' = [u32_MagicMarker |-> FALSE, u32_LastSavedUtcEpoch |-> 0]
    /\ clock' = IF retained'.u32_MagicMarker
                THEN [base |-> retained.u32_LastSavedUtcEpoch + 1, elapsed |-> 0,
                      bool_IsTimeSynchronized |-> TRUE]
                ELSE [base |-> 0, elapsed |-> 0, bool_IsTimeSynchronized |-> FALSE]
    /\ due' = 0
    /\ Advtflag' = FALSE
    /\ UNCHANGED config
    /\ Note(hist.time + outage, hist.resets + 1, 0)

Init ==
    /\ clock = [base |-> 0, elapsed |-> 0, bool_IsTimeSynchronized |-> FALSE]
    /\ retained = [u32_MagicMarker |-> FALSE, u32_LastSavedUtcEpoch |-> 0]
    /\ config \in [s16_TimeZoneOffset : TimeZones, u16_StartMinutes : Minutes,
                   u16_EndMinutes : Minutes]
    /\ due = 0
    /\ Advtflag = FALSE
    /\ count = [seconds |-> 0, resets |-> 0, commands |-> 0]
    /\ hist = [time |-> 0, resets |-> 0, differs |-> 0]

Next ==
    \/ \E epoch \in Epochs, zone \in TimeZones : app_time_sync_set_utc(epoch, zone)
    \/ \E start, end \in Minutes : SetEnergySaveTime(start, end)
    \/ time_supervisor_work_handler
    \/ Second
    \/ \E outage \in Outages, kept \in BOOLEAN : app_time_manager_boot_recover(outage, kept)

Spec == Init /\ [][Next]_vars

-----------------------------------------------------------------------------
(***************************************************************************)
(* What holds.                                                             *)
(***************************************************************************)

\* The comparison of the code agrees, for a local time from 1970 on and a clock
\* that does not read 0, with the window drawn on a 24-hour dial: from the start
\* clockwise to before the end, equal borders meaning the whole day.  Both borders
\* must be minutes of a day: nothing checks them when they are stored, and a
\* larger one is on no dial.
WindowAsDrawn ==
    LET minute == (LocalTime(clock, config) \div MinuteSeconds) % DayMinutes
        start == config.u16_StartMinutes
        end == config.u16_EndMinutes
    IN  /\ app_time_get_utc_epoch(clock) # 0
        /\ LocalTime(clock, config) >= 0
        /\ {start, end} \subseteq 0..(DayMinutes - 1)
        => (Within <=> \/ start = end
                       \/ (minute - start) % DayMinutes < (end - start) % DayMinutes)

\* The frame is switched within one period after a border of the window is
\* passed, the clock set or the window changed, and over resets.
EcoFollowsWindow == hist.differs <= SupervisorPeriod

\* Each reset costs the clock at most one period and the outage, and wins it at
\* most the estimated second, however resets, saves and outages follow each
\* other; wrong clocks switch the frame at the wrong hour.
ClockKept ==
    clock.bool_IsTimeSynchronized /\ hist.time < EpochRange - hist.resets =>
        LET error == app_time_get_utc_epoch(clock) - hist.time
        IN  /\ error <= hist.resets
            /\ \A longest \in Outages :
                   (\A o \in Outages : o <= longest) =>
                       error >= 0 - hist.resets * (SupervisorPeriod + longest)

-----------------------------------------------------------------------------
(***************************************************************************)
(* What a comment says and the code refutes.                               *)
(***************************************************************************)

\* "Returns the localized count of minutes elapsed since midnight (0 to 1439)."
\* (app_vision_time_manager.h): of a clock that is set.
MinutesSinceMidnight ==
    clock.bool_IsTimeSynchronized =>
        app_time_get_local_minutes_of_day(clock, config)
            = (LocalTime(clock, config) \div MinuteSeconds) % DayMinutes

=============================================================================
