------------------------- MODULE TimeManagerProofs -------------------------
(***************************************************************************)
(* Proofs about TimeManager: for every length of the minute, the day and   *)
(* the period, every width of the integers, and any number of resets,      *)
(* commands and seconds.                                                   *)
(***************************************************************************)
EXTENDS TimeManager, TLAPS

-----------------------------------------------------------------------------
(***************************************************************************)
(* The inductive invariant.                                                *)
(***************************************************************************)

\* What the clock counts before it is cut to 32 bits.
Raw == clock.base + clock.elapsed

Saved == retained.u32_LastSavedUtcEpoch

\* The time can be told: no clock, right or wrong, has come to the end of its range.
InRange == hist.time < EpochRange - hist.resets

\* While the flag and the window differ, the supervisor comes closer; and a clock that
\* is not set leaves the frame on.
SwitchInv ==
    /\ hist.differs + due <= SupervisorPeriod
    /\ ~clock.bool_IsTimeSynchronized => ~Advtflag

\* The clock is set exactly when the retained RAM holds a time, which is at most as old
\* as the supervisor's period.
SavedInv ==
    /\ retained.u32_MagicMarker = clock.bool_IsTimeSynchronized
    /\ clock.bool_IsTimeSynchronized /\ InRange =>
          Saved <= Raw /\ Raw - Saved + due <= SupervisorPeriod

\* ClockKept, of what the clock counts.
ErrorInv ==
    clock.bool_IsTimeSynchronized /\ InRange =>
        /\ Raw - hist.time <= hist.resets
        /\ \A longest \in Outages :
              (\A o \in Outages : o <= longest) =>
                  Raw - hist.time >= 0 - hist.resets * (SupervisorPeriod + longest)

Inv == TypeOK /\ SwitchInv /\ SavedInv /\ ErrorInv

ClockType == [base : Nat, elapsed : Nat, bool_IsTimeSynchronized : BOOLEAN]
RetainedType == [u32_MagicMarker : BOOLEAN, u32_LastSavedUtcEpoch : 0..(EpochRange - 1)]
ConfigType == [s16_TimeZoneOffset : TimeZones, u16_StartMinutes : Minutes,
               u16_EndMinutes : Minutes]
CountType == [seconds : 0..MaxSeconds, resets : 0..MaxResets, commands : 0..MaxCommands]
HistType == [time : Nat, resets : Nat, differs : Nat]

-----------------------------------------------------------------------------
(***************************************************************************)
(* Arithmetic.                                                             *)
(***************************************************************************)

\* The assumption, constant by constant.
LEMMA Constants ==
    /\ MinuteSeconds \in Nat \ {0} /\ DayMinutes \in Nat \ {0}
    /\ SupervisorPeriod \in Nat \ {0} /\ EpochRange \in Nat \ {0}
    /\ LongRange \in Nat /\ Disabled \in Nat /\ Disabled >= DayMinutes
    /\ Epochs \subseteq 0..(EpochRange - 1) /\ TimeZones \subseteq Int
    /\ Outages \subseteq Nat
    /\ MaxSeconds \in Nat /\ MaxResets \in Nat /\ MaxCommands \in Nat
    /\ Minutes \subseteq 0..Disabled
    /\ \A zone \in TimeZones : EpochRange + zone * MinuteSeconds <= LongRange
BY TimeAssumption

\* Quotient and remainder.
LEMMA Division ==
    ASSUME NEW a \in Int, NEW b \in Nat \ {0}
    PROVE  a \div b \in Int /\ a % b \in 0..(b - 1) /\ a = b * (a \div b) + (a % b)
OBVIOUS

\* ... and nothing else.
LEMMA DivisionUnique ==
    ASSUME NEW b \in Nat \ {0}, NEW q \in Int, NEW r \in 0..(b - 1),
           NEW p \in Int, NEW s \in 0..(b - 1), b * q + r = b * p + s
    PROVE  q = p /\ r = s
<1>1. ASSUME NEW i \in Int, NEW j \in Int, NEW x \in 0..(b - 1), NEW y \in 0..(b - 1),
             b * i + x = b * j + y, i < j
      PROVE  FALSE
  <2>1. j - i \in Nat /\ j - i >= 1
    BY <1>1
  <2>2. \A d \in Nat : d >= 1 => b * d >= b
    OBVIOUS
  <2>3. b * (j - i) >= b
    BY <2>1, <2>2
  <2>4. b * (j - i) = b * j - b * i
    OBVIOUS
  <2>. QED  BY <1>1, <2>3, <2>4
<1>2. ~(q < p) /\ ~(p < q)
  BY <1>1
<1>3. q = p
  BY <1>2
<1>. QED  BY <1>3

\* So that whoever finds them knows them.
LEMMA DivisionFound ==
    ASSUME NEW a \in Int, NEW b \in Nat \ {0}, NEW p \in Int, NEW s \in 0..(b - 1),
           a = b * p + s
    PROVE  a \div b = p /\ a % b = s
<1>1. a \div b \in Int /\ a % b \in 0..(b - 1) /\ a = b * (a \div b) + (a % b)
  BY Division
<1>. QED  BY <1>1, DivisionUnique

\* A number below the modulus is its own remainder.
LEMMA SmallRemainder ==
    ASSUME NEW b \in Nat \ {0}, NEW a \in Nat, a < b
    PROVE  a % b = a
OBVIOUS

\* The minute of the day, from the second of the day or from the minutes since 1970.
LEMMA MinuteOfDay ==
    ASSUME NEW x \in Nat, NEW m \in Nat \ {0}, NEW d \in Nat \ {0}
    PROVE  /\ (x % (m * d)) \div m = (x \div m) % d
           /\ (x \div m) % d \in 0..(d - 1)
<1>. DEFINE n == m * d
            r == x % n
            q == x \div n
            c == r \div m
            s == r % m
<1>0. n \in Nat \ {0} /\ x \in Int
  OBVIOUS
<1>1. n = m * d
  OBVIOUS
<1>. HIDE DEF n
<1>2. q \in Int /\ r \in 0..(n - 1) /\ x = n * q + r
  BY <1>0, Division, Zenon
<1>. HIDE DEF r, q
<1>3. c \in Int /\ s \in 0..(m - 1) /\ r = m * c + s
  BY <1>2, Division
<1>. HIDE DEF c, s
<1>4. x = m * (d * q + c) + s
  <2>1. (m * d) * q = m * (d * q)
    BY <1>2
  <2>2. m * (d * q) + m * c = m * (d * q + c)
    BY <1>2, <1>3
  <2>. QED  BY <1>0, <1>1, <1>2, <1>3, <2>1, <2>2
<1>5. d * q + c \in Int
  BY <1>2, <1>3
<1>6. x \div m = d * q + c
  <2>1. s \in 0..(m - 1)
    BY <1>3
  <2>. QED  BY <1>0, <1>4, <1>5, <2>1, DivisionFound, Zenon
<1>7. c \in 0..(d - 1)
  <2>1. m * c < m * d /\ m * c > 0 - m
    BY <1>0, <1>1, <1>2, <1>3
  <2>2. ASSUME c >= d PROVE FALSE
    <3>1. c - d \in Nat
      BY <1>3, <2>2
    <3>2. \A k \in Nat : m * k >= 0
      OBVIOUS
    <3>3. m * (c - d) >= 0 /\ m * (c - d) = m * c - m * d
      BY <1>3, <3>1, <3>2
    <3>. QED  BY <1>3, <2>1, <3>3
  <2>3. ASSUME c < 0 PROVE FALSE
    <3>1. 0 - c \in Nat /\ 0 - c >= 1
      BY <1>3, <2>3
    <3>2. \A k \in Nat : k >= 1 => m * k >= m
      OBVIOUS
    <3>3. m * (0 - c) >= m /\ m * (0 - c) = 0 - m * c
      BY <1>3, <3>1, <3>2
    <3>. QED  BY <1>3, <2>1, <3>3
  <2>. QED  BY <1>3, <2>2, <2>3
<1>8. (x \div m) % d = c
  <2>. DEFINE y == x \div m
  <2>1. y = d * q + c /\ y \in Int
    BY <1>5, <1>6
  <2>. HIDE DEF y
  <2>2. q \in Int
    BY <1>2
  <2>3. y % d = c
    BY <1>7, <2>1, <2>2, DivisionFound, Zenon
  <2>. QED  BY <2>3 DEF y
<1>. QED  BY <1>7, <1>8 DEF c, r, n

\* The distance on the dial.
LEMMA Dial ==
    ASSUME NEW d \in Nat \ {0}, NEW a \in 0..(d - 1), NEW b \in 0..(d - 1)
    PROVE  (a - b) % d = IF a >= b THEN a - b ELSE a - b + d
<1>1. CASE a >= b
  BY <1>1, SmallRemainder
<1>2. CASE a < b
  <2>1. (a - b) \div d \in Int /\ (a - b) % d \in 0..(d - 1)
        /\ a - b = d * ((a - b) \div d) + ((a - b) % d)
    BY Division
  <2>2. a - b = d * (0 - 1) + (a - b + d) /\ a - b + d \in 0..(d - 1)
    BY <1>2
  <2>3. (a - b) % d = a - b + d
    BY <2>1, <2>2, DivisionUnique
  <2>. QED  BY <1>2, <2>3
<1>. QED  BY <1>1, <1>2

-----------------------------------------------------------------------------
(***************************************************************************)
(* The window.                                                             *)
(***************************************************************************)

\* The window of app_time_is_within_energy_saving_window is the one drawn on the
\* dial, for every clock and every configuration with borders on it.
LEMMA WindowDrawn == TypeOK => WindowAsDrawn
<1>. DEFINE epoch == app_time_get_utc_epoch(clock)
            x == LocalTime(clock, config)
            minute == (x \div MinuteSeconds) % DayMinutes
            start == config.u16_StartMinutes
            end == config.u16_EndMinutes
            current == app_time_get_local_minutes_of_day(clock, config)
<1>. SUFFICES ASSUME TypeOK, epoch # 0, x >= 0, {start, end} \subseteq 0..(DayMinutes - 1)
              PROVE  Within <=> \/ start = end
                                \/ (minute - start) % DayMinutes < (end - start) % DayMinutes
  BY DEF WindowAsDrawn
<1>1. clock \in ClockType /\ config \in ConfigType
  BY DEF TypeOK, ClockType, ConfigType
<1>2. /\ start \in 0..(DayMinutes - 1) /\ end \in 0..(DayMinutes - 1)
      /\ Disabled \notin {start, end}
  <2>1. start \in 0..(DayMinutes - 1) /\ end \in 0..(DayMinutes - 1)
    OBVIOUS
  <2>. QED  BY <2>1, Constants
<1>3. clock.bool_IsTimeSynchronized /\ epoch \in 0..(EpochRange - 1)
  <2>. DEFINE raw == clock.base + clock.elapsed
  <2>1. raw \in Int
    BY <1>1 DEF ClockType
  <2>2. clock.bool_IsTimeSynchronized /\ epoch = raw % EpochRange
    BY DEF app_time_get_utc_epoch
  <2>. HIDE DEF raw, epoch
  <2>. QED  BY <2>1, <2>2, Division, Constants
<1>4. x \in Nat /\ x < LongRange
  <2>. DEFINE z == config.s16_TimeZoneOffset * MinuteSeconds
  <2>1. z \in Int /\ EpochRange + z <= LongRange
    <3>1. config.s16_TimeZoneOffset \in TimeZones
      BY <1>1 DEF ConfigType
    <3>. DEFINE o == config.s16_TimeZoneOffset
    <3>2. o \in Int /\ MinuteSeconds \in Nat
      BY <3>1, Constants
    <3>3. EpochRange + o * MinuteSeconds <= LongRange
      BY <3>1, Constants, Zenon
    <3>. HIDE DEF o
    <3>4. o * MinuteSeconds \in Int
      BY <3>2
    <3>. QED  BY <3>3, <3>4 DEF o
  <2>2. x = epoch + z
    BY DEF LocalTime
  <2>. HIDE DEF epoch, x, z
  <2>. QED  BY <1>3, <2>1, <2>2, Constants
<1>5. current = minute /\ minute \in 0..(DayMinutes - 1)
  <2>1. current = ((x % LongRange) % (MinuteSeconds * DayMinutes)) \div MinuteSeconds
    BY DEF app_time_get_local_minutes_of_day, UnsignedRemainder, DaySeconds
  <2>. HIDE DEF x, current
  <2>2. x % LongRange = x
    BY <1>4, SmallRemainder, Constants
  <2>3. MinuteSeconds \in Nat \ {0} /\ DayMinutes \in Nat \ {0}
    BY Constants
  <2>4. (x % (MinuteSeconds * DayMinutes)) \div MinuteSeconds = minute
        /\ minute \in 0..(DayMinutes - 1)
    BY <1>4, <2>3, MinuteOfDay, Zenon
  <2>. QED  BY <2>1, <2>2, <2>4, Zenon
<1>6. Within <=> IF start < end THEN current >= start /\ current < end
                                ELSE current >= start \/ current < end
  BY <1>2, <1>3 DEF Within, app_time_is_within_energy_saving_window
<1>. HIDE DEF start, end, current, minute
<1>7. /\ (minute - start) % DayMinutes
           = IF minute >= start THEN minute - start ELSE minute - start + DayMinutes
      /\ (end - start) % DayMinutes
           = IF end >= start THEN end - start ELSE end - start + DayMinutes
  BY <1>2, <1>5, Dial, Constants
<1>. QED  BY <1>2, <1>5, <1>6, <1>7, Constants

-----------------------------------------------------------------------------
(***************************************************************************)
(* The invariant is inductive: one lemma per action.                       *)
(***************************************************************************)

\* TypeOK, with its record types named.
LEMMA Types ==
    TypeOK <=> /\ clock \in ClockType /\ retained \in RetainedType /\ config \in ConfigType
               /\ due \in 0..SupervisorPeriod /\ Advtflag \in BOOLEAN
               /\ count \in CountType /\ hist \in HistType
BY DEF TypeOK, ClockType, RetainedType, ConfigType, CountType, HistType

\* What Note records.
LEMMA NoteEffect ==
    ASSUME NEW t \in Nat, NEW resets \in Nat, NEW differs \in Nat, Note(t, resets, differs)
    PROVE  /\ hist' \in HistType /\ hist'.time = t /\ hist'.resets = resets
           /\ hist'.differs \in {0, differs}
           /\ (Advtflag' = app_time_is_within_energy_saving_window(clock', config'))
                => hist'.differs = 0
<1>. DEFINE same == Advtflag' = app_time_is_within_energy_saving_window(clock', config')
            d == IF same THEN 0 ELSE differs
<1>1. d \in Nat /\ d \in {0, differs} /\ (same => d = 0)
  OBVIOUS
<1>2. hist' = [time |-> t, resets |-> resets, differs |-> d]
  BY DEF Note
<1>. HIDE DEF d, same
<1>3. /\ hist' \in HistType /\ hist'.time = t /\ hist'.resets = resets
      /\ hist'.differs \in {0, differs} /\ (same => hist'.differs = 0)
  BY <1>1, <1>2 DEF HistType
<1>. QED  BY <1>3 DEF same

\* Command and boot: the bounded counters stay in their bounds.
LEMMA CommandEffect ==
    ASSUME TypeOK, Command
    PROVE  count' \in CountType /\ UNCHANGED <<due, Advtflag>>
<1>. DEFINE k == count.commands
<1>1. count \in CountType /\ k \in 0..MaxCommands /\ k < MaxCommands
  BY Types DEF Command, CountType
<1>2. k + 1 \in 0..MaxCommands
  BY <1>1, Constants
<1>. QED  BY <1>1, <1>2 DEF Command, CountType

\* Setting the clock starts the account of its errors anew.
LEMMA SetKeepsInv ==
    ASSUME Inv, NEW epoch \in Epochs, NEW zone \in TimeZones, app_time_sync_set_utc(epoch, zone)
    PROVE  Inv'
<1>1. TypeOK /\ hist.differs \in Nat /\ epoch \in 0..(EpochRange - 1) /\ epoch \in Nat
      /\ config \in ConfigType /\ due \in 0..SupervisorPeriod /\ Advtflag \in BOOLEAN
  BY Types, Constants DEF Inv, HistType
<1>2. count' \in CountType /\ UNCHANGED <<due, Advtflag>>
  BY <1>1, CommandEffect DEF app_time_sync_set_utc
<1>3. /\ clock' \in ClockType /\ clock'.base = epoch /\ clock'.elapsed = 0
      /\ clock'.bool_IsTimeSynchronized = TRUE
  BY <1>1 DEF app_time_sync_set_utc, ClockType
<1>4. retained' \in RetainedType /\ retained'.u32_MagicMarker = TRUE
      /\ retained'.u32_LastSavedUtcEpoch = epoch
  BY <1>1 DEF app_time_sync_set_utc, RetainedType
<1>5. config' \in ConfigType
  BY <1>1 DEF app_time_sync_set_utc, ConfigType
<1>6. /\ hist' \in HistType /\ hist'.time = epoch /\ hist'.resets = 0
      /\ hist'.differs \in {0, hist.differs}
  BY <1>1, NoteEffect DEF app_time_sync_set_utc
<1>7. TypeOK'
  BY <1>1, <1>2, <1>3, <1>4, <1>5, <1>6, Types
     DEF TypeOK, ClockType, RetainedType, ConfigType, CountType, HistType
<1>8. SwitchInv'
  <2>1. hist.differs + due <= SupervisorPeriod
    BY DEF Inv, SwitchInv
  <2>. QED  BY <1>1, <1>2, <1>3, <1>6, <2>1, Constants DEF SwitchInv
<1>9. SavedInv'
  <2>1. Raw' = epoch /\ Saved' = epoch
    BY <1>1, <1>3, <1>4 DEF Saved, Raw
  <2>2. Saved' <= Raw' /\ Raw' - Saved' + due' <= SupervisorPeriod
    BY <1>1, <1>2, <2>1, Constants
  <2>. QED  BY <1>3, <1>4, <2>2 DEF SavedInv
<1>10. ErrorInv'
  BY <1>1, <1>3, <1>6, Constants DEF ErrorInv, Raw
<1>. QED  BY <1>7, <1>8, <1>9, <1>10 DEF Inv

\* A new window does not touch the clock.
LEMMA WindowKeepsInv ==
    ASSUME Inv, NEW start \in Minutes, NEW end \in Minutes, SetEnergySaveTime(start, end)
    PROVE  Inv'
<1>1. TypeOK /\ hist \in HistType /\ hist.differs \in Nat /\ hist.time \in Nat
      /\ hist.resets \in Nat /\ config \in ConfigType /\ due \in 0..SupervisorPeriod
  BY Types, Constants DEF Inv, HistType
<1>2. count' \in CountType /\ UNCHANGED <<due, Advtflag, clock, retained>>
  BY <1>1, CommandEffect DEF SetEnergySaveTime
<1>3. config' \in ConfigType
  BY <1>1 DEF SetEnergySaveTime, ConfigType
<1>4. /\ hist' \in HistType /\ hist'.time = hist.time /\ hist'.resets = hist.resets
      /\ hist'.differs \in {0, hist.differs}
  BY <1>1, NoteEffect DEF SetEnergySaveTime
<1>5. TypeOK'
  BY <1>1, <1>2, <1>3, <1>4 DEF TypeOK, ConfigType, CountType, HistType
<1>6. SwitchInv'
  <2>1. hist.differs + due <= SupervisorPeriod /\ (~clock.bool_IsTimeSynchronized => ~Advtflag)
    BY DEF Inv, SwitchInv
  <2>. QED  BY <1>1, <1>2, <1>4, <2>1, Constants DEF SwitchInv
<1>7. SavedInv' /\ ErrorInv'
  BY <1>2, <1>4 DEF Inv, SavedInv, ErrorInv, InRange, Raw, Saved
<1>. QED  BY <1>5, <1>6, <1>7 DEF Inv

\* A clock in range has not wrapped.
LEMMA NotWrapped ==
    ASSUME Inv, clock.bool_IsTimeSynchronized, InRange
    PROVE  /\ Raw \in Nat /\ Raw < EpochRange
           /\ app_time_get_utc_epoch(clock) = Raw
<1>1. Raw \in Nat /\ hist.time \in Nat /\ hist.resets \in Nat
  BY Types DEF Inv, ClockType, HistType, Raw
<1>2. Raw - hist.time <= hist.resets /\ hist.time < EpochRange - hist.resets
  BY DEF Inv, ErrorInv, InRange
<1>3. Raw < EpochRange
  BY <1>1, <1>2, Constants
<1>4. Raw % EpochRange = Raw
  BY <1>1, <1>3, Constants, SmallRemainder
<1>. QED  BY <1>1, <1>3, <1>4 DEF app_time_get_utc_epoch, Raw

\* The supervisor saves the time and switches the frame.
LEMMA SupervisorKeepsInv ==
    ASSUME Inv, time_supervisor_work_handler
    PROVE  Inv'
<1>1. /\ TypeOK /\ hist \in HistType /\ hist.differs \in Nat /\ hist.time \in Nat
      /\ hist.resets \in Nat /\ clock \in ClockType /\ retained \in RetainedType
      /\ Advtflag \in BOOLEAN
  BY Types DEF Inv, HistType
<1>2. due' = SupervisorPeriod /\ UNCHANGED <<clock, config, count>>
  BY DEF time_supervisor_work_handler
<1>3. Within \in BOOLEAN /\ (~clock.bool_IsTimeSynchronized => Within = FALSE)
      /\ (Within' = Within)
  BY <1>2 DEF Within, app_time_is_within_energy_saving_window, app_time_get_local_minutes_of_day,
              app_time_get_utc_epoch, LocalTime
<1>4. Advtflag' = Within
  BY <1>1, <1>3 DEF time_supervisor_work_handler, Inv, SwitchInv
<1>5. /\ hist' \in HistType /\ hist'.time = hist.time /\ hist'.resets = hist.resets
      /\ hist'.differs = 0
  BY <1>1, <1>3, <1>4, NoteEffect DEF time_supervisor_work_handler, Within
<1>. DEFINE e == app_time_get_utc_epoch(clock)
<1>6. e \in 0..(EpochRange - 1)
  <2>. DEFINE raw == clock.base + clock.elapsed
  <2>1. raw \in Int
    BY <1>1 DEF ClockType
  <2>2. e = IF clock.bool_IsTimeSynchronized THEN raw % EpochRange ELSE 0
    BY DEF app_time_get_utc_epoch
  <2>. HIDE DEF raw, e
  <2>. QED  BY <2>1, <2>2, Division, Constants
<1>7. clock.bool_IsTimeSynchronized =>
         retained' = [u32_MagicMarker |-> TRUE, u32_LastSavedUtcEpoch |-> e]
  BY DEF time_supervisor_work_handler
<1>8. ~clock.bool_IsTimeSynchronized => UNCHANGED retained
  BY DEF time_supervisor_work_handler
<1>9. clock.bool_IsTimeSynchronized /\ InRange => e = Raw
  BY NotWrapped
<1>. HIDE DEF e
<1>10. retained' \in RetainedType
       /\ (clock.bool_IsTimeSynchronized =>
             retained'.u32_MagicMarker = TRUE /\ retained'.u32_LastSavedUtcEpoch = e)
  <2>1. CASE clock.bool_IsTimeSynchronized
    <3>1. retained' = [u32_MagicMarker |-> TRUE, u32_LastSavedUtcEpoch |-> e]
      BY <1>7, <2>1
    <3>. QED  BY <1>6, <3>1 DEF RetainedType
  <2>2. CASE ~clock.bool_IsTimeSynchronized
    BY <1>1, <1>8, <2>2
  <2>. QED  BY <2>1, <2>2
<1>11. TypeOK'
  BY <1>1, <1>2, <1>3, <1>4, <1>5, <1>10, Constants DEF TypeOK, RetainedType, HistType
<1>12. SwitchInv'
  BY <1>2, <1>3, <1>4, <1>5, Constants DEF SwitchInv
<1>13. Raw \in Nat /\ Raw' = Raw /\ (InRange' <=> InRange)
  BY <1>1, <1>2, <1>5 DEF Raw, ClockType, InRange
<1>14. SavedInv'
  <2>1. CASE clock.bool_IsTimeSynchronized
    <3>1. retained'.u32_MagicMarker = TRUE /\ (InRange => Saved' = Raw)
      BY <1>9, <1>10, <2>1 DEF Saved
    <3>2. InRange => Saved' <= Raw' /\ Raw' - Saved' + due' <= SupervisorPeriod
      <4>1. SupervisorPeriod \in Nat
        BY Constants
      <4>. QED  BY <1>2, <1>13, <3>1, <4>1
    <3>3. clock'.bool_IsTimeSynchronized = TRUE
      BY <1>1, <1>2, <2>1 DEF ClockType
    <3>. QED  BY <1>13, <3>1, <3>2, <3>3 DEF SavedInv
  <2>2. CASE ~clock.bool_IsTimeSynchronized
    BY <1>2, <1>8, <2>2 DEF SavedInv, Inv
  <2>. QED  BY <2>1, <2>2
<1>15. ErrorInv'
  BY <1>2, <1>5, <1>13 DEF Inv, ErrorInv
<1>. QED  BY <1>11, <1>12, <1>14, <1>15 DEF Inv

\* A second passes for the clock and for the world.
LEMMA SecondKeepsInv ==
    ASSUME Inv, Second
    PROVE  Inv'
<1>1. /\ TypeOK /\ hist \in HistType /\ hist.differs \in Nat /\ hist.time \in Nat
      /\ hist.resets \in Nat /\ clock \in ClockType /\ clock.base \in Nat
      /\ clock.elapsed \in Nat /\ due \in 0..SupervisorPeriod /\ retained \in RetainedType
      /\ Saved \in Nat /\ count \in CountType
  BY Types, Constants DEF Inv, HistType, ClockType, RetainedType, Saved
<1>2. due > 0 /\ due' = due - 1 /\ UNCHANGED <<retained, config, Advtflag>>
  BY DEF Second
<1>3. /\ clock' \in ClockType /\ clock'.base = clock.base /\ clock'.elapsed = clock.elapsed + 1
      /\ clock'.bool_IsTimeSynchronized = clock.bool_IsTimeSynchronized
  <2>. DEFINE e == clock.elapsed + 1
  <2>1. e \in Nat /\ clock' = [clock EXCEPT !.elapsed = e]
    BY <1>1 DEF Second
  <2>. HIDE DEF e
  <2>2. clock' \in ClockType /\ clock'.base = clock.base /\ clock'.elapsed = e
        /\ clock'.bool_IsTimeSynchronized = clock.bool_IsTimeSynchronized
    BY <1>1, <2>1 DEF ClockType
  <2>. QED  BY <2>2 DEF e
<1>4. count' \in CountType
  <2>. DEFINE k == count.seconds + 1
  <2>1. count.seconds \in 0..MaxSeconds /\ count.seconds < MaxSeconds
    BY <1>1 DEF CountType, Second
  <2>2. k \in 0..MaxSeconds /\ count' = [count EXCEPT !.seconds = k]
    BY <2>1, Constants DEF Second
  <2>. HIDE DEF k
  <2>. QED  BY <1>1, <2>2 DEF CountType
<1>5. /\ hist' \in HistType /\ hist'.time = hist.time + 1 /\ hist'.resets = hist.resets
      /\ hist'.differs \in {0, hist.differs + 1}
  <2>1. hist.time + 1 \in Nat /\ hist.differs + 1 \in Nat
    BY <1>1
  <2>. QED  BY <1>1, <2>1, NoteEffect DEF Second
<1>6. TypeOK'
  BY <1>1, <1>2, <1>3, <1>4, <1>5, Constants DEF TypeOK, ClockType, CountType, HistType
<1>7. SwitchInv'
  <2>1. hist.differs + due <= SupervisorPeriod /\ (~clock.bool_IsTimeSynchronized => ~Advtflag)
    BY DEF Inv, SwitchInv
  <2>. QED  BY <1>1, <1>2, <1>3, <1>5, <2>1, Constants DEF SwitchInv
<1>8. Raw \in Nat /\ Raw' = Raw + 1 /\ Saved' = Saved /\ (InRange' => InRange)
  BY <1>1, <1>2, <1>3, <1>5, Constants DEF Raw, Saved, InRange
<1>9. SavedInv'
  BY <1>1, <1>2, <1>3, <1>8, Constants DEF Inv, SavedInv
<1>10. ErrorInv'
  <2>1. Raw' - hist'.time = Raw - hist.time
    BY <1>1, <1>5, <1>8
  <2>. QED  BY <1>3, <1>5, <1>8, <2>1 DEF Inv, ErrorInv
<1>. QED  BY <1>6, <1>7, <1>9, <1>10 DEF Inv

\* A reset costs the clock what has passed since the last save, and the outage.
LEMMA BootKeepsInv ==
    ASSUME Inv, NEW outage \in Outages, NEW kept \in BOOLEAN,
           app_time_manager_boot_recover(outage, kept)
    PROVE  Inv'
<1>1. /\ TypeOK /\ hist \in HistType /\ hist.time \in Nat
      /\ hist.resets \in Nat /\ clock \in ClockType /\ Raw \in Nat
      /\ due \in 0..SupervisorPeriod /\ retained \in RetainedType
      /\ Saved \in Nat /\ count \in CountType /\ outage \in Nat
  BY Types, Constants DEF Inv, HistType, ClockType, RetainedType, Saved, Raw
<1>2. due' = 0 /\ Advtflag' = FALSE /\ UNCHANGED config
  BY DEF app_time_manager_boot_recover
<1>3. retained' \in RetainedType
      /\ (UNCHANGED retained \/ retained'.u32_MagicMarker = FALSE)
  <2>1. [u32_MagicMarker |-> FALSE, u32_LastSavedUtcEpoch |-> 0] \in RetainedType
    BY Constants DEF RetainedType
  <2>2. CASE kept
    BY <1>1, <2>2 DEF app_time_manager_boot_recover
  <2>3. CASE ~kept
    <3>1. retained' = [u32_MagicMarker |-> FALSE, u32_LastSavedUtcEpoch |-> 0]
      BY <2>3 DEF app_time_manager_boot_recover
    <3>. QED  BY <2>1, <3>1
  <2>. QED  BY <2>2, <2>3
<1>4. /\ clock' \in ClockType
      /\ clock'.bool_IsTimeSynchronized = retained'.u32_MagicMarker
      /\ retained'.u32_MagicMarker = TRUE => clock'.base = Saved + 1 /\ clock'.elapsed = 0
  <2>1. retained'.u32_MagicMarker \in BOOLEAN
    BY <1>3 DEF RetainedType
  <2>2. CASE retained'.u32_MagicMarker = TRUE
    <3>1. clock' = [base |-> Saved + 1, elapsed |-> 0, bool_IsTimeSynchronized |-> TRUE]
      BY <2>2 DEF app_time_manager_boot_recover, Saved
    <3>. DEFINE b == Saved + 1
    <3>2. b \in Nat
      BY <1>1
    <3>. HIDE DEF b
    <3>3. clock' \in ClockType /\ clock'.bool_IsTimeSynchronized = TRUE
          /\ clock'.base = b /\ clock'.elapsed = 0
      BY <3>1, <3>2 DEF ClockType, b
    <3>. QED  BY <2>2, <3>3 DEF b
  <2>3. CASE retained'.u32_MagicMarker = FALSE
    <3>1. clock' = [base |-> 0, elapsed |-> 0, bool_IsTimeSynchronized |-> FALSE]
      BY <2>3 DEF app_time_manager_boot_recover
    <3>. QED  BY <2>3, <3>1 DEF ClockType
  <2>. QED  BY <2>1, <2>2, <2>3
<1>5. count' \in CountType
  <2>. DEFINE k == count.resets + 1
              l == count.seconds + outage
  <2>1. /\ count.seconds \in 0..MaxSeconds /\ l <= MaxSeconds
        /\ count.resets \in 0..MaxResets /\ count.resets < MaxResets
    BY <1>1 DEF CountType, app_time_manager_boot_recover
  <2>2. k \in 0..MaxResets /\ l \in 0..MaxSeconds
    BY <1>1, <2>1, Constants
  <2>3. count' = [count EXCEPT !.resets = k, !.seconds = l]
    BY DEF app_time_manager_boot_recover
  <2>. HIDE DEF k, l
  <2>. QED  BY <1>1, <2>2, <2>3 DEF CountType
<1>6. /\ hist' \in HistType /\ hist'.time = hist.time + outage
      /\ hist'.resets = hist.resets + 1 /\ hist'.differs = 0
  <2>1. hist.time + outage \in Nat /\ hist.resets + 1 \in Nat
    BY <1>1
  <2>. QED  BY <2>1, NoteEffect DEF app_time_manager_boot_recover
<1>7. TypeOK'
  <2>1. due' \in 0..SupervisorPeriod
    BY <1>2, Constants
  <2>2. config' \in ConfigType /\ Advtflag' \in BOOLEAN
    BY <1>1, <1>2 DEF TypeOK, ConfigType
  <2>. QED  BY <1>3, <1>4, <1>5, <1>6, <2>1, <2>2
            DEF TypeOK, ClockType, RetainedType, ConfigType, CountType, HistType
<1>8. SwitchInv'
  BY <1>2, <1>6, Constants DEF SwitchInv
<1>9. InRange' => InRange
  BY <1>1, <1>6, Constants DEF InRange
<1>10. ASSUME clock'.bool_IsTimeSynchronized
       PROVE  /\ clock.bool_IsTimeSynchronized /\ Saved' = Saved /\ Raw' = Saved + 1
  <2>1. retained'.u32_MagicMarker = TRUE /\ UNCHANGED retained
    BY <1>3, <1>4, <1>10 DEF RetainedType
  <2>. QED  BY <1>1, <1>4, <2>1 DEF Inv, SavedInv, Saved, Raw
<1>11. SavedInv'
  BY <1>1, <1>2, <1>4, <1>10, Constants DEF SavedInv
<1>12. ErrorInv'
  <2>. SUFFICES ASSUME clock'.bool_IsTimeSynchronized, InRange'
                PROVE  /\ Raw' - hist'.time <= hist'.resets
                       /\ \A longest \in Outages :
                            (\A o \in Outages : o <= longest) =>
                               Raw' - hist'.time >= 0 - hist'.resets * (SupervisorPeriod + longest)
    BY DEF ErrorInv
  <2>1. Saved <= Raw /\ Raw - Saved + due <= SupervisorPeriod /\ Raw' = Saved + 1
    BY <1>9, <1>10 DEF Inv, SavedInv
  <2>2. Raw' - hist'.time <= hist'.resets
    <3>1. Raw - hist.time <= hist.resets
      BY <1>9, <1>10 DEF Inv, ErrorInv
    <3>. QED  BY <1>1, <1>6, <2>1, <3>1, Constants
  <2>3. ASSUME NEW longest \in Outages, \A o \in Outages : o <= longest
        PROVE  Raw' - hist'.time >= 0 - hist'.resets * (SupervisorPeriod + longest)
    <3>. DEFINE k == SupervisorPeriod + longest
                p == hist.resets * k
    <3>1. k \in Nat /\ outage <= longest /\ longest \in Nat
      BY <2>3, Constants
    <3>2. Raw - hist.time >= 0 - p
      BY <1>9, <1>10, <2>3 DEF Inv, ErrorInv
    <3>3. (hist.resets + 1) * k = p + k /\ p \in Nat
      <4>. HIDE DEF k
      <4>. QED  BY <1>1, <3>1
    <3>4. k = SupervisorPeriod + longest
      OBVIOUS
    <3>. HIDE DEF k, p
    <3>5. Raw' - hist'.time >= 0 - (p + k)
      BY <1>1, <1>6, <2>1, <3>1, <3>2, <3>3, <3>4, Constants
    <3>6. hist'.resets * k = p + k
      BY <1>6, <3>3
    <3>. QED  BY <3>5, <3>6 DEF k
  <2>. QED  BY <2>2, <2>3
<1>. QED  BY <1>7, <1>8, <1>11, <1>12 DEF Inv

-----------------------------------------------------------------------------
(***************************************************************************)
(* The theorems.                                                           *)
(***************************************************************************)

\* The invariant holds initially.
LEMMA InitInv == Init => Inv
<1>. SUFFICES ASSUME Init PROVE Inv
  OBVIOUS
<1>1. /\ clock = [base |-> 0, elapsed |-> 0, bool_IsTimeSynchronized |-> FALSE]
      /\ retained = [u32_MagicMarker |-> FALSE, u32_LastSavedUtcEpoch |-> 0]
      /\ config \in ConfigType /\ due = 0 /\ Advtflag = FALSE
      /\ count = [seconds |-> 0, resets |-> 0, commands |-> 0]
      /\ hist = [time |-> 0, resets |-> 0, differs |-> 0]
  BY DEF Init, ConfigType
<1>2. clock \in ClockType /\ retained \in RetainedType /\ count \in CountType /\ hist \in HistType
  BY <1>1, Constants DEF ClockType, RetainedType, CountType, HistType
<1>3. TypeOK
  <2>1. due \in 0..SupervisorPeriod
    BY <1>1, Constants
  <2>. QED  BY <1>1, <1>2, <2>1, Types
<1>. QED  BY <1>1, <1>3, Constants DEF Inv, SwitchInv, SavedInv, ErrorInv

\* Every step keeps the invariant.
LEMMA NextKeepsInv == Inv /\ [Next]_vars => Inv'
<1>. SUFFICES ASSUME Inv, [Next]_vars PROVE Inv'
  OBVIOUS
<1>1. CASE UNCHANGED vars
  BY <1>1 DEF vars, Inv, TypeOK, SwitchInv, SavedInv, ErrorInv, InRange, Raw, Saved
<1>. QED  BY <1>1, SetKeepsInv, WindowKeepsInv, SupervisorKeepsInv, SecondKeepsInv, BootKeepsInv
          DEF Next

\* The invariant holds in every behaviour.
LEMMA Invariance == Spec => []Inv
BY InitInv, NextKeepsInv, PTL DEF Spec

\* Every value the clock, the retained RAM, the window and the counters ever have is
\* one that their types in vision_time_manager.c can hold.
THEOREM TypeCorrect == Spec => []TypeOK
BY Invariance, PTL DEF Inv

\* app_time_is_within_energy_saving_window always agrees with the window drawn on the
\* dial, whatever the time zone and whether or not the window crosses midnight, if the
\* stored borders are minutes of a day; a peer may have stored any.
THEOREM WindowAlwaysAsDrawn == Spec => []WindowAsDrawn
BY TypeCorrect, WindowDrawn, PTL

\* The supervisor switches the frame within one period of whatever made it necessary,
\* also over resets and before the clock is set.
THEOREM EcoAlwaysFollows == Spec => []EcoFollowsWindow
<1>1. Inv => EcoFollowsWindow
  <2>. SUFFICES ASSUME Inv PROVE EcoFollowsWindow
    OBVIOUS
  <2>1. hist.differs \in Nat /\ due \in 0..SupervisorPeriod
        /\ hist.differs + due <= SupervisorPeriod
    BY Types DEF Inv, SwitchInv, HistType
  <2>. QED  BY <2>1, Constants DEF EcoFollowsWindow
<1>. QED  BY <1>1, Invariance, PTL

\* However many resets follow a setting of the clock, each of them costs it at most one
\* period of the supervisor and the outage, and wins it at most one second.
THEOREM ClockAlwaysKept == Spec => []ClockKept
<1>1. Inv => ClockKept
  <2>. SUFFICES ASSUME Inv, clock.bool_IsTimeSynchronized, InRange
                PROVE  LET error == app_time_get_utc_epoch(clock) - hist.time
                       IN  /\ error <= hist.resets
                           /\ \A longest \in Outages :
                                  (\A o \in Outages : o <= longest) =>
                                    error >= 0 - hist.resets * (SupervisorPeriod + longest)
    BY DEF ClockKept, InRange
  <2>1. app_time_get_utc_epoch(clock) = Raw
    BY NotWrapped
  <2>. QED  BY <2>1 DEF Inv, ErrorInv
<1>. QED  BY <1>1, Invariance, PTL

=============================================================================
