------------------------ MODULE VisionServiceProofs ------------------------
(***************************************************************************)
(* Proofs about VisionService: for any number of connection objects and    *)
(* failing calls, any commands and any values of SET_ADV_PERIOD; and, for  *)
(* peers that use the Vision identity alone, about their sessions.         *)
(***************************************************************************)
EXTENDS VisionService, SequenceTheorems, TLAPS

-----------------------------------------------------------------------------
(***************************************************************************)
(* The inductive invariants.                                               *)
(***************************************************************************)

Allowed == {ms \in Nat : PeriodAllowed(ms)}

\* Only an interval that PeriodAllowed accepts is ever configured or stored.
IntervalInv == cfg.interval \in Allowed /\ cfg.nvs \in Allowed

\* The worker holds a connection only while it drops it.
WorkerInv ==
    /\ worker.step = "dropping" => worker.target \in Conns
    /\ worker.step # "dropping" => worker.target = NoConn

\* A failed connection attempt counts as a fault.
MissedInv == faults = 0 => ~set.missed

Inv ==
    /\ TypeOK
    /\ IntervalInv
    /\ WorkerInv
    /\ MissedInv
    /\ NoDanglingConn
    /\ DfuBounded
    /\ FlagFresh
    /\ IntervalNotLost

\* Peers use the Vision identity alone and the supervisor never restarts the set.
Solo == Identities = {"vision"} /\ ~EnergySaving

\* The frame is never stopped by the supervisor.
AwakeInv == ~clock.inside /\ ~clock.Advtflag

\* There is at most one link, and none while the set is on the air; it is the current
\* connection, came through the Vision identity, and leaks no reference.
LoneLink ==
    /\ \A c \in Conns : link[c].state # "free" =>
          /\ svc.current_conn = c /\ svc.active_local_id = "vision"
          /\ link[c].id = "vision" /\ ~set.on_air
    /\ lost = {}

Down == svc.current_conn # NoConn /\ link[svc.current_conn].state = "down"

\* The workqueue: a command that has not been fetched, and behind it the callback of the
\* link, if it is down.
QueueInv ==
    /\ svc.write = "none" /\ ~Down => queue = <<>>
    /\ svc.write # "none" /\ ~Down => queue = <<"parse">>
    /\ svc.write = "none" /\ Down => queue = <<svc.current_conn>>
    /\ svc.write # "none" /\ Down => queue = <<"parse", svc.current_conn>>

\* Without failing calls the flag of vision_advt.c tells the truth.
FlagTrue == faults = 0 => (set.on_air <=> set.is_advertising)

SoloInv ==
    /\ AwakeInv
    /\ LoneLink
    /\ QueueInv
    /\ CommandOfItsSession
    /\ SessionTimed
    /\ FlagTrue
    /\ (\E c, d \in Conns : c # d) => NeverSilent

-----------------------------------------------------------------------------
(***************************************************************************)
(* The advertising set.                                                    *)
(***************************************************************************)

Intervals == Ticks(100)..Ticks(5000)

SetType == [on_air : BOOLEAN, is_advertising : BOOLEAN, interval_min : Intervals,
            missed : BOOLEAN]

\* SetState, with its range named.
LEMMA SetTypes == SetState = SetType
BY DEF SetState, SetType, Intervals

\* The set's flag does not say "stopped" of a set that is on the air, but for a failed
\* connection attempt.
Fresh(s) == s.missed \/ (s.on_air => s.is_advertising)

\* The ticks of an allowed interval.
LEMMA TicksAllowed ==
    /\ \A ms \in Allowed : Ticks(ms) \in Intervals
    /\ ble_adv_custom_init \in SetType /\ ble_adv_custom_init.missed = FALSE
<1>1. ASSUME NEW ms \in Nat, ms >= 100, ms <= 5000
      PROVE  Ticks(ms) \in Intervals
  BY <1>1 DEF Ticks, Intervals
<1>2. \A ms \in Allowed : Ticks(ms) \in Intervals
  BY <1>1 DEF Allowed, PeriodAllowed
<1>3. DefaultTicks \in Intervals
  BY DEF Intervals, DefaultTicks, Ticks
<1>. QED  BY <1>2, <1>3 DEF ble_adv_custom_init, SetType

\* The updates of a set that the operations are made of.
LEMMA SetAir ==
    ASSUME NEW s \in SetType, NEW b \in BOOLEAN
    PROVE  LET t == [s EXCEPT !.on_air = b]
           IN  /\ t \in SetType /\ t.on_air = b /\ t.is_advertising = s.is_advertising
               /\ t.interval_min = s.interval_min /\ t.missed = s.missed
BY DEF SetType

\* ... with the flag.
LEMMA SetBoth ==
    ASSUME NEW s \in SetType, NEW b \in BOOLEAN
    PROVE  LET t == [s EXCEPT !.on_air = b, !.is_advertising = b]
           IN  /\ t \in SetType /\ t.on_air = b /\ t.is_advertising = b
               /\ t.interval_min = s.interval_min /\ t.missed = s.missed
BY DEF SetType

\* ... and of its interval.
LEMMA SetInterval ==
    ASSUME NEW s \in SetType, NEW n \in Intervals
    PROVE  LET t == [s EXCEPT !.interval_min = n]
           IN  /\ t \in SetType /\ t.on_air = s.on_air /\ t.is_advertising = s.is_advertising
               /\ t.interval_min = n /\ t.missed = s.missed
BY DEF SetType

\* What a start, a stop and an update of the set can come to.
LEMMA StartOutcome ==
    ASSUME NEW s \in SetType, NEW room \in BOOLEAN, NEW o \in ble_adv_custom_start(s, room)
    PROVE  /\ o[1] \in SetType /\ o[2] \in {0, 1} /\ o[1].interval_min = s.interval_min
           /\ o[1].missed = s.missed
           /\ o[1] = s \/ (o[1].on_air = TRUE /\ o[1].is_advertising = TRUE)
           /\ room /\ o[2] = 0 => o[1].on_air \/ s.is_advertising
<1>1. CASE s.is_advertising \/ s.on_air \/ ~room
  <2>1. o = <<s, 0>>
    BY <1>1 DEF ble_adv_custom_start
  <2>. QED  BY <1>1, <2>1
<1>2. CASE ~(s.is_advertising \/ s.on_air \/ ~room)
  <2>. DEFINE t == [s EXCEPT !.on_air = TRUE, !.is_advertising = TRUE]
  <2>1. o = <<t, 0>> \/ o = <<s, 1>>
    BY <1>2 DEF ble_adv_custom_start
  <2>2. t \in SetType /\ t.on_air = TRUE /\ t.is_advertising = TRUE
        /\ t.interval_min = s.interval_min /\ t.missed = s.missed
    BY SetBoth
  <2>. HIDE DEF t
  <2>. QED  BY <2>1, <2>2
<1>. QED  BY <1>1, <1>2

\* A stop clears both flags of the set or leaves it alone.
LEMMA StopOutcome ==
    ASSUME NEW s \in SetType, NEW o \in ble_adv_custom_stop(s)
    PROVE  /\ o[1] \in SetType /\ o[2] \in {0, 1} /\ o[1].interval_min = s.interval_min
           /\ o[1].missed = s.missed
           /\ o[1] = s \/ (o[1].on_air = FALSE /\ o[1].is_advertising = FALSE)
<1>. DEFINE t == [s EXCEPT !.on_air = FALSE, !.is_advertising = FALSE]
<1>1. o = <<t, 0>> \/ o = <<s, 1>> \/ o = <<s, 0>>
  BY DEF ble_adv_custom_stop
<1>2. t \in SetType /\ t.on_air = FALSE /\ t.is_advertising = FALSE
      /\ t.interval_min = s.interval_min /\ t.missed = s.missed
  BY SetBoth
<1>. HIDE DEF t
<1>. QED  BY <1>1, <1>2

\* An update of the interval that succeeds sets it and has the set on the air if it was
\* meant to be.
LEMMA UpdateOutcome ==
    ASSUME NEW s \in SetType, NEW ms \in Allowed, Fresh(s),
           NEW o \in ble_adv_custom_update_interval(s, ms)
    PROVE  /\ o[1] \in SetType /\ o[2] \in {0, 1, 2} /\ Fresh(o[1])
           /\ o[1].missed = s.missed
           /\ o[2] = 0 /\ ~s.missed => /\ o[1].interval_min = Ticks(ms)
                                       /\ o[1].is_advertising = s.is_advertising
                                       /\ o[1].on_air = s.is_advertising
<1>. DEFINE n == Ticks(ms)
            new == [s EXCEPT !.interval_min = n]
<1>1. n \in Intervals
  BY TicksAllowed
<1>. HIDE DEF n
<1>2. new \in SetType /\ new.interval_min = n /\ new.on_air = s.on_air
      /\ new.is_advertising = s.is_advertising /\ new.missed = s.missed
  BY <1>1, SetInterval
<1>3. s.on_air \in BOOLEAN /\ s.is_advertising \in BOOLEAN
  BY DEF SetType
<1>4. CASE s.is_advertising
  <2>. DEFINE a == [new EXCEPT !.on_air = TRUE]
              b == [s EXCEPT !.on_air = TRUE]
              c == [s EXCEPT !.on_air = FALSE]
              d == [new EXCEPT !.on_air = FALSE, !.is_advertising = FALSE]
  <2>1. o \in {<<a, 0>>, <<s, 1>>, <<b, 1>>, <<c, 2>>, <<d, 1>>}
    BY <1>4 DEF ble_adv_custom_update_interval, UpdateRunning, n
  <2>. HIDE DEF new
  <2>2. /\ a \in SetType /\ a.interval_min = n /\ a.on_air = TRUE
        /\ a.is_advertising = s.is_advertising /\ a.missed = s.missed
    BY <1>2, SetAir
  <2>3. /\ b \in SetType /\ b.is_advertising = s.is_advertising /\ b.missed = s.missed
        /\ c \in SetType /\ c.on_air = FALSE /\ c.missed = s.missed
    BY SetAir
  <2>4. d \in SetType /\ d.on_air = FALSE /\ d.missed = s.missed
    BY <1>2, SetBoth
  <2>. HIDE DEF a, b, c, d
  <2>5. s.is_advertising = TRUE
    BY <1>3, <1>4
  <2>6. Fresh(a) /\ Fresh(b) /\ Fresh(c) /\ Fresh(d)
    BY <2>2, <2>3, <2>4, <2>5 DEF Fresh
  <2>7. CASE o = <<a, 0>>
    BY <2>2, <2>5, <2>6, <2>7 DEF n
  <2>8. CASE o \in {<<s, 1>>, <<b, 1>>, <<c, 2>>, <<d, 1>>}
    BY <2>3, <2>4, <2>6, <2>8
  <2>. QED  BY <2>1, <2>7, <2>8
<1>5. CASE ~s.is_advertising /\ s.on_air
  <2>1. s.missed = TRUE
    BY <1>5 DEF Fresh, SetType
  <2>2. o = <<s, 0>>
    BY <1>5 DEF ble_adv_custom_update_interval, UpdateIdle
  <2>. QED  BY <2>1, <2>2
<1>6. CASE ~s.is_advertising /\ ~s.on_air
  <2>1. s.on_air = FALSE
    BY <1>3, <1>6
  <2>2. o = <<new, 0>> \/ o = <<s, 1>>
    BY <1>6, <2>1 DEF ble_adv_custom_update_interval, UpdateIdle, n
  <2>. HIDE DEF new
  <2>. QED  BY <1>2, <1>3, <1>6, <2>1, <2>2 DEF Fresh, n
<1>. QED  BY <1>4, <1>5, <1>6

-----------------------------------------------------------------------------
(***************************************************************************)
(* What the actions do.                                                    *)
(***************************************************************************)

CfgType == [interval : Uint16, nvs : Uint16, changed : BOOLEAN]

\* TypeOK, with its ranges named.
LEMMA Types ==
    TypeOK <=> /\ set \in SetType /\ svc \in ServiceState /\ timer \in TimerState
               /\ worker \in WorkerState /\ queue \in Seq(Conns \union {"parse"})
               /\ link \in [Conns -> LinkState] /\ lost \subseteq Conns
               /\ cfg \in CfgType /\ clock \in ClockState /\ dfu_mode \in BOOLEAN
               /\ provisioned \in BOOLEAN /\ faults \in 0..MaxFaults
BY SetTypes DEF TypeOK, CfgType

\* The same of the next state.
LEMMA TypesNext ==
    TypeOK' <=> /\ set' \in SetType /\ svc' \in ServiceState /\ timer' \in TimerState
                /\ worker' \in WorkerState /\ queue' \in Seq(Conns \union {"parse"})
                /\ link' \in [Conns -> LinkState] /\ lost' \subseteq Conns
                /\ cfg' \in CfgType /\ clock' \in ClockState /\ dfu_mode' \in BOOLEAN
                /\ provisioned' \in BOOLEAN /\ faults' \in 0..MaxFaults
BY SetTypes DEF TypeOK, CfgType

\* Whether a connection object is left is a truth value, which the provers have to be told.
LEMMA Room01 == Room \in BOOLEAN
BY DEF Room

\* An operation on the set counts the calls that failed.
LEMMA TakenOutcome ==
    ASSUME NEW outcomes, TakeOutcome(outcomes), faults \in 0..MaxFaults,
           \A o \in outcomes : o[1] \in SetType /\ o[2] \in {0, 1, 2, 3}
    PROVE  \E o \in outcomes :
              /\ set' = o[1] /\ set' \in SetType
              /\ faults' \in 0..MaxFaults /\ faults <= faults'
              /\ faults' = 0 => faults = 0 /\ o[2] = 0
<1>1. PICK o \in outcomes : faults + o[2] <= MaxFaults /\ set' = o[1] /\ faults' = faults + o[2]
  BY DEF TakeOutcome
<1>2. o[1] \in SetType /\ o[2] \in {0, 1, 2, 3}
  BY <1>1
<1>3. MaxFaults \in Nat /\ faults \in Nat
  BY ServiceAssumption
<1>4. faults' \in 0..MaxFaults /\ faults <= faults' /\ (faults' = 0 => faults = 0 /\ o[2] = 0)
  BY <1>1, <1>2, <1>3
<1>. QED  BY <1>1, <1>2, <1>4

\* write_nvs_data changes the stored interval or nothing.
LEMMA StoredConfig ==
    ASSUME NEW c \in CfgType, c.interval \in Allowed, c.nvs \in Allowed,
           faults \in 0..MaxFaults, StoreConfig(c)
    PROVE  /\ cfg' \in CfgType /\ cfg'.interval = c.interval /\ cfg'.changed = c.changed
           /\ cfg'.nvs \in Allowed
           /\ faults' \in 0..MaxFaults /\ faults <= faults'
<1>1. MaxFaults \in Nat /\ faults \in Nat
  BY ServiceAssumption
<1>2. CASE cfg' = [c EXCEPT !.nvs = c.interval] /\ UNCHANGED faults
  <2>1. cfg' \in CfgType /\ cfg'.interval = c.interval /\ cfg'.changed = c.changed
        /\ cfg'.nvs = c.interval
    BY <1>2 DEF CfgType
  <2>. QED  BY <1>1, <1>2, <2>1
<1>3. CASE cfg' = c /\ faults < MaxFaults /\ faults' = faults + 1
  BY <1>1, <1>3
<1>. QED  BY <1>2, <1>3 DEF StoreConfig

\* What every command of ble_parse_and_reply_work_handler does.
Processed ==
    /\ svc' \in ServiceState /\ svc'.write = "none"
    /\ svc'.current_conn = svc.current_conn /\ svc'.active_local_id = svc.active_local_id
    /\ timer' \in TimerState /\ (timer.dfu => timer'.dfu)
    /\ worker' \in WorkerState /\ worker'.target = worker.target
    /\ worker'.step \in {"idle", "replied"}
    /\ cfg' \in CfgType /\ cfg'.interval \in Allowed /\ cfg'.nvs \in Allowed
    /\ \/ /\ svc'.bool_AdvtIntervalUpdated = svc.bool_AdvtIntervalUpdated
          /\ cfg'.interval = cfg.interval /\ cfg'.changed = cfg.changed
       \/ svc'.bool_AdvtIntervalUpdated = TRUE
    /\ clock' \in ClockState /\ clock'.Advtflag = clock.Advtflag
    /\ clock'.inside \in InsideWindow \union {clock.inside}
    /\ dfu_mode' \in BOOLEAN /\ (dfu_mode' => dfu_mode \/ timer'.dfu)
    /\ faults' \in 0..MaxFaults /\ faults <= faults'
    \* the session goes on under the inactivity timeout, or is to be dropped
    /\ \/ svc.current_conn = NoConn \/ worker'.step = "replied"
       \/ svc'.bool_UserAuthorization = TRUE /\ timer'.connection = TRUE

\* The summary above holds of every command.
LEMMA CommandEffect ==
    ASSUME Inv, ParseAndReply
    PROVE  Fetch /\ Processed
<1>1. /\ svc \in ServiceState /\ timer \in TimerState /\ worker \in WorkerState
      /\ cfg \in CfgType /\ clock \in ClockState /\ dfu_mode \in BOOLEAN
      /\ cfg.interval \in Allowed /\ cfg.nvs \in Allowed
      /\ faults \in 0..MaxFaults /\ faults <= faults
  <2>1. faults \in 0..MaxFaults
    BY Types DEF Inv
  <2>2. faults <= faults
    BY <2>1, ServiceAssumption
  <2>. QED  BY <2>1, <2>2, Types DEF Inv, IntervalInv
<1>2. InsideWindow \subseteq BOOLEAN
  BY DEF InsideWindow
<1>3. /\ Consumed \in ServiceState /\ Consumed.write = "none"
      /\ Consumed.current_conn = svc.current_conn
      /\ Consumed.active_local_id = svc.active_local_id
      /\ Consumed.bool_UserAuthorization = svc.bool_UserAuthorization
      /\ Consumed.bool_AdvtIntervalUpdated = svc.bool_AdvtIntervalUpdated
  BY <1>1 DEF Consumed, ServiceState
\* the updates that the commands are made of
<1>4. Postponed \in TimerState /\ Postponed.connection = TRUE /\ (timer.dfu => Postponed.dfu)
  BY <1>1 DEF Postponed, TimerState
<1>5. ASSUME NEW restart \in BOOLEAN, ReplyAndDrop(restart)
      PROVE  worker' \in WorkerState /\ worker'.target = worker.target /\ worker'.step = "replied"
  BY <1>1, <1>5 DEF ReplyAndDrop, WorkerState
<1>6. LET t == [timer EXCEPT !.connection = FALSE]
      IN  t \in TimerState /\ (timer.dfu => t.dfu)
  BY <1>1 DEF TimerState
<1>7. Fetch => WorkqueueFree
  BY DEF Fetch
<1>. HIDE DEF Consumed, Postponed
<1>11. CASE DiscardCommand
  <2>1. svc' = Consumed /\ UNCHANGED <<timer, worker, cfg, clock, dfu_mode, faults>>
    BY <1>11 DEF DiscardCommand, Consumed
  <2>2. Fetch /\ svc.current_conn = NoConn /\ worker.step = "idle"
    BY <1>11 DEF DiscardCommand, Fetch, WorkqueueFree
  <2>. QED  BY <1>1, <1>3, <2>1, <2>2 DEF Processed
<1>12. CASE PasswordMissing
  <2>1. /\ Fetch /\ svc' = Consumed /\ ReplyAndDrop(FALSE)
        /\ timer' = [timer EXCEPT !.authorisation = FALSE, !.connection = FALSE]
        /\ UNCHANGED <<cfg, clock, dfu_mode, faults>>
    BY <1>12 DEF PasswordMissing, Command
  <2>2. timer' \in TimerState /\ (timer.dfu => timer'.dfu)
    BY <1>1, <2>1 DEF TimerState
  <2>3. worker' \in WorkerState /\ worker'.target = worker.target /\ worker'.step = "replied"
    BY <1>5, <2>1
  <2>. QED  BY <1>1, <1>3, <2>1, <2>2, <2>3 DEF Processed
<1>13. CASE PasswordWrong \/ InvalidCommand \/ RestartDevice
  <2>1. /\ Fetch /\ svc' = Consumed /\ (ReplyAndDrop(FALSE) \/ ReplyAndDrop(TRUE))
        /\ timer' = [timer EXCEPT !.connection = FALSE]
        /\ UNCHANGED <<cfg, clock, dfu_mode, faults>>
    BY <1>13 DEF PasswordWrong, InvalidCommand, RestartDevice, Command
  <2>2. worker' \in WorkerState /\ worker'.target = worker.target /\ worker'.step = "replied"
    BY <1>5, <2>1
  <2>. QED  BY <1>1, <1>3, <1>6, <2>1, <2>2 DEF Processed
<1>14. CASE PasswordRight
  <2>1. /\ Fetch /\ svc' = [Consumed EXCEPT !.bool_UserAuthorization = TRUE]
        /\ timer' = [timer EXCEPT !.authorisation = FALSE, !.connection = TRUE]
        /\ worker.step = "idle"
        /\ UNCHANGED <<worker, cfg, clock, dfu_mode, faults>>
    BY <1>14 DEF PasswordRight, Command, Fetch, WorkqueueFree
  <2>2. timer' \in TimerState /\ (timer.dfu => timer'.dfu) /\ timer'.connection = TRUE
    BY <1>1, <2>1 DEF TimerState
  <2>3. /\ svc' \in ServiceState /\ svc'.write = "none"
        /\ svc'.current_conn = svc.current_conn /\ svc'.active_local_id = svc.active_local_id
        /\ svc'.bool_AdvtIntervalUpdated = svc.bool_AdvtIntervalUpdated
        /\ svc'.bool_UserAuthorization = TRUE
    BY <1>3, <2>1 DEF ServiceState
  <2>. QED  BY <1>1, <2>1, <2>2, <2>3 DEF Processed
<1>15. CASE SetRealTimeClock \/ SetEnergySaveTime
  <2>1. /\ Fetch /\ svc' = Consumed /\ timer' = Postponed /\ StoreConfig(cfg)
        /\ worker.step = "idle" /\ svc.bool_UserAuthorization = TRUE
        /\ UNCHANGED <<worker, dfu_mode>>
    BY <1>15 DEF SetRealTimeClock, SetEnergySaveTime, Command, Fetch, WorkqueueFree
  <2>2. PICK w \in InsideWindow :
           \/ clock' = [clock EXCEPT !.bool_IsTimeSynchronized = TRUE,
                                     !.retained = TRUE, !.inside = w]
           \/ clock' = [clock EXCEPT !.inside = w]
    BY <1>15 DEF SetRealTimeClock, SetEnergySaveTime
  <2>3. clock' \in ClockState /\ clock'.Advtflag = clock.Advtflag /\ clock'.inside = w
    <3>1. w \in BOOLEAN
      BY <1>2
    <3>. QED  BY <1>1, <2>2, <3>1 DEF ClockState
  <2>4. /\ cfg' \in CfgType /\ cfg'.interval = cfg.interval /\ cfg'.changed = cfg.changed
        /\ cfg'.nvs \in Allowed /\ faults' \in 0..MaxFaults /\ faults <= faults'
    BY <1>1, <2>1, StoredConfig
  <2>. QED  BY <1>1, <1>3, <1>4, <2>1, <2>3, <2>4 DEF Processed
<1>16. CASE SetAdvPeriod
  <2>1. /\ Fetch /\ worker.step = "idle" /\ svc.bool_UserAuthorization = TRUE
        /\ UNCHANGED <<clock, dfu_mode>>
    BY <1>16 DEF SetAdvPeriod, Command, Fetch, WorkqueueFree
  <2>2. PICK ms \in Periods :
        \/ /\ PeriodAllowed(ms)
           /\ svc' = [Consumed EXCEPT !.bool_AdvtIntervalUpdated = TRUE]
           /\ timer' = Postponed
           /\ StoreConfig([cfg EXCEPT !.interval = ms, !.changed = TRUE])
           /\ UNCHANGED worker
        \/ /\ ~PeriodAllowed(ms)
           /\ svc' = Consumed
           /\ timer' = [timer EXCEPT !.connection = FALSE]
           /\ ReplyAndDrop(FALSE)
           /\ UNCHANGED <<cfg, faults>>
    BY <1>16 DEF SetAdvPeriod
  <2>3. CASE PeriodAllowed(ms)
    <3>1. ms \in Uint16 /\ ms \in Nat
      BY ServiceAssumption DEF Uint16
    <3>2. ms \in Allowed
      BY <2>3, <3>1 DEF Allowed
    <3>. DEFINE c == [cfg EXCEPT !.interval = ms, !.changed = TRUE]
    <3>3. c \in CfgType /\ c.interval = ms /\ c.nvs = cfg.nvs
      BY <1>1, <3>1 DEF CfgType
    <3>4. /\ svc' = [Consumed EXCEPT !.bool_AdvtIntervalUpdated = TRUE]
          /\ timer' = Postponed /\ StoreConfig(c) /\ UNCHANGED worker
      BY <2>2, <2>3
    <3>. HIDE DEF c
    <3>5. /\ cfg' \in CfgType /\ cfg'.interval = ms
          /\ cfg'.nvs \in Allowed /\ faults' \in 0..MaxFaults /\ faults <= faults'
      BY <1>1, <3>2, <3>3, <3>4, StoredConfig
    <3>6. /\ svc' \in ServiceState /\ svc'.write = "none"
          /\ svc'.current_conn = svc.current_conn /\ svc'.active_local_id = svc.active_local_id
          /\ svc'.bool_AdvtIntervalUpdated = TRUE
          /\ svc'.bool_UserAuthorization = svc.bool_UserAuthorization
      BY <1>3, <3>4 DEF ServiceState
    <3>. QED  BY <1>1, <1>4, <2>1, <3>2, <3>4, <3>5, <3>6 DEF Processed
  <2>4. CASE ~PeriodAllowed(ms)
    <3>1. worker' \in WorkerState /\ worker'.target = worker.target /\ worker'.step = "replied"
      BY <1>5, <2>2, <2>4
    <3>. QED  BY <1>1, <1>3, <1>6, <2>1, <2>2, <2>4, <3>1 DEF Processed
  <2>. QED  BY <2>3, <2>4
<1>17. CASE EnterDfuMode
  <2>1. /\ Fetch /\ svc' = Consumed /\ timer' = [Postponed EXCEPT !.dfu = TRUE]
        /\ dfu_mode' = TRUE /\ worker.step = "idle" /\ svc.bool_UserAuthorization = TRUE
        /\ UNCHANGED <<worker, cfg, clock, faults>>
    BY <1>17 DEF EnterDfuMode, Command, Fetch, WorkqueueFree
  <2>2. timer' \in TimerState /\ timer'.dfu = TRUE /\ timer'.connection = TRUE
    BY <1>4, <2>1 DEF TimerState
  <2>. QED  BY <1>1, <1>3, <2>1, <2>2 DEF Processed
<1>18. CASE ReadCommand
  <2>1. /\ Fetch /\ svc' = Consumed /\ timer' = Postponed
        /\ worker.step = "idle" /\ svc.bool_UserAuthorization = TRUE
        /\ UNCHANGED <<worker, cfg, clock, dfu_mode, faults>>
    BY <1>18 DEF ReadCommand, Command, Fetch, WorkqueueFree
  <2>. QED  BY <1>1, <1>3, <1>4, <2>1 DEF Processed
<1>. QED  BY <1>11, <1>12, <1>13, <1>14, <1>15, <1>16, <1>17, <1>18 DEF ParseAndReply

\* The workqueue holds connections and the command worker.
LEMMA QueueTyped ==
    ASSUME queue \in Seq(Conns \union {"parse"})
    PROVE  /\ \A item \in Conns \union {"parse"} :
                 Submit(item) => queue' \in Seq(Conns \union {"parse"})
           /\ queue # <<>> => Tail(queue) \in Seq(Conns \union {"parse"})
BY DEF Submit

\* The connected callback of vision_advt.c.
LEMMA ConnectedSet ==
    ASSUME NEW s \in SetType, NEW b \in BOOLEAN, NEW err \in BOOLEAN
    PROVE  LET t == connected(s, b, err)
           IN  /\ t \in SetType /\ t.is_advertising = FALSE /\ t.interval_min = s.interval_min
               /\ b => t.on_air = FALSE
               /\ ~s.on_air => t.on_air = FALSE
               /\ t.missed = (s.missed \/ err)
<1>. DEFINE a == s.on_air /\ ~b
            m == s.missed \/ err
            t == [s EXCEPT !.is_advertising = FALSE, !.on_air = a, !.missed = m]
<1>1. a \in BOOLEAN /\ (b => a = FALSE) /\ (~s.on_air => a = FALSE) /\ m \in BOOLEAN
  BY DEF SetType
<1>2. connected(s, b, err) = t
  BY DEF connected
<1>. HIDE DEF a, m
<1>3. t \in SetType /\ t.is_advertising = FALSE /\ t.interval_min = s.interval_min /\ t.on_air = a
      /\ t.missed = m
  BY <1>1 DEF SetType
<1>. QED  BY <1>1, <1>2, <1>3 DEF m

\* A reset leaves a fresh state.
LEMMA BootEffect ==
    ASSUME Inv, NEW prov \in BOOLEAN, NEW ret \in BOOLEAN, Boot(prov, ret)
    PROVE  /\ set' \in SetType /\ Fresh(set') /\ set'.missed = FALSE
           /\ faults' \in 0..MaxFaults /\ faults <= faults'
           /\ faults' = 0 => (set'.on_air = prov /\ set'.is_advertising = prov)
<1>. DEFINE start == ble_adv_custom_start(ble_adv_custom_init, TRUE)
            idle == <<ble_adv_custom_init, 0>>
<1>1. PICK o \in IF prov THEN start ELSE {idle} :
        /\ faults + o[2] <= MaxFaults
        /\ set' = o[1]
        /\ faults' = faults + o[2]
  BY DEF Boot
<1>2. /\ ble_adv_custom_init \in SetType /\ ble_adv_custom_init.missed = FALSE
      /\ ble_adv_custom_init.on_air = FALSE /\ ble_adv_custom_init.is_advertising = FALSE
  BY TicksAllowed DEF ble_adv_custom_init
<1>3. /\ o[1] \in SetType /\ o[2] \in {0, 1} /\ Fresh(o[1]) /\ o[1].missed = FALSE
      /\ o[2] = 0 => (o[1].on_air = prov /\ o[1].is_advertising = prov)
  <2>. HIDE DEF start
  <2>1. CASE prov
    <3>1. o \in start
      BY <1>1, <2>1
    <3>2. /\ o[1] \in SetType /\ o[2] \in {0, 1} /\ o[1].missed = FALSE
          /\ o[1] = ble_adv_custom_init \/ (o[1].on_air = TRUE /\ o[1].is_advertising = TRUE)
          /\ o[2] = 0 => o[1].on_air \/ ble_adv_custom_init.is_advertising
      BY <1>2, <3>1, StartOutcome DEF start
    <3>. QED  BY <1>2, <2>1, <3>2 DEF Fresh
  <2>2. CASE ~prov
    <3>1. o[1] = ble_adv_custom_init /\ o[2] = 0
      BY <1>1, <2>2
    <3>2. prov = FALSE
      BY <2>2
    <3>. QED  BY <1>2, <3>1, <3>2 DEF Fresh
  <2>. QED  BY <2>1, <2>2
<1>4. faults \in 0..MaxFaults /\ MaxFaults \in Nat
  BY Types, ServiceAssumption DEF Inv
<1>5. faults' \in 0..MaxFaults /\ faults <= faults' /\ (faults' = 0 => o[2] = 0)
  BY <1>1, <1>3, <1>4
<1>. QED  BY <1>1, <1>3, <1>5

-----------------------------------------------------------------------------
(***************************************************************************)
(* Inv is inductive: one lemma per action.                                 *)
(***************************************************************************)

\* A reset.
LEMMA BootKeepsInv ==
    ASSUME Inv, NEW prov \in BOOLEAN, NEW ret \in BOOLEAN, Boot(prov, ret)
    PROVE  Inv'
<1>1. set' \in SetType /\ Fresh(set') /\ set'.missed = FALSE /\ faults' \in 0..MaxFaults
  BY BootEffect
<1>2. /\ svc' = ServiceBoot /\ timer' = TimerBoot /\ worker' = WorkerBoot
      /\ queue' = <<>> /\ link' = [c \in Conns |-> [state |-> "free", id |-> "other"]]
      /\ lost' = {} /\ cfg' = [cfg EXCEPT !.interval = cfg.nvs, !.changed = FALSE]
      /\ dfu_mode' = FALSE /\ provisioned' = prov
  BY DEF Boot
<1>3. PICK w \in InsideWindow :
        clock' = [bool_IsTimeSynchronized |-> ret, retained |-> ret,
                  inside |-> w, Advtflag |-> FALSE]
  BY DEF Boot
<1>4. clock' \in ClockState
  <2>1. w \in BOOLEAN
    BY DEF InsideWindow
  <2>. QED  BY <1>3, <2>1 DEF ClockState
<1>5. cfg \in CfgType /\ cfg.nvs \in Allowed
  BY Types DEF Inv, IntervalInv
<1>6. cfg' \in CfgType /\ cfg'.interval = cfg.nvs /\ cfg'.nvs = cfg.nvs /\ cfg'.changed = FALSE
  BY <1>2, <1>5 DEF CfgType
<1>7. /\ svc' \in ServiceState /\ svc'.current_conn = NoConn
      /\ worker' \in WorkerState /\ worker'.step = "idle" /\ worker'.target = NoConn
      /\ timer' \in TimerState
  BY <1>2 DEF ServiceBoot, ServiceState, WorkerBoot, WorkerState, TimerBoot, TimerState
<1>8. link' \in [Conns -> LinkState] /\ queue' \in Seq(Conns \union {"parse"})
  BY <1>2 DEF LinkState, LinkStates
<1>9. TypeOK'
  BY <1>1, <1>2, <1>4, <1>6, <1>7, <1>8, TypesNext
<1>10. IntervalInv' /\ WorkerInv' /\ NoDanglingConn' /\ DfuBounded' /\ IntervalNotLost'
  BY <1>2, <1>5, <1>6, <1>7 DEF IntervalInv, WorkerInv, NoDanglingConn, DfuBounded, IntervalNotLost
<1>11. FlagFresh' /\ MissedInv'
  BY <1>1 DEF FlagFresh, Fresh, MissedInv
<1>. QED  BY <1>9, <1>10, <1>11 DEF Inv

\* A command.
LEMMA CommandKeepsInv ==
    ASSUME Inv, ParseAndReply
    PROVE  Inv'
<1>1. Fetch /\ Processed
  BY CommandEffect
<1>2. UNCHANGED <<set, link, lost, provisioned>> /\ queue # <<>> /\ queue' = Tail(queue)
  BY <1>1 DEF Fetch
<1>3. TypeOK /\ faults \in 0..MaxFaults /\ queue \in Seq(Conns \union {"parse"})
      /\ set \in SetType /\ link \in [Conns -> LinkState] /\ lost \subseteq Conns
      /\ provisioned \in BOOLEAN
  BY Types DEF Inv
<1>4. queue' \in Seq(Conns \union {"parse"})
  BY <1>2, <1>3, QueueTyped
<1>5. TypeOK'
  BY <1>1, <1>2, <1>3, <1>4, TypesNext DEF Processed
<1>6. IntervalInv' /\ WorkerInv'
  BY <1>1 DEF Processed, IntervalInv, WorkerInv, Inv, Fetch, WorkqueueFree
<1>7. NoDanglingConn' /\ FlagFresh'
  BY <1>1, <1>2 DEF Processed, NoDanglingConn, FlagFresh, Inv
<1>8. DfuBounded'
  BY <1>1 DEF Processed, DfuBounded, Inv
<1>9. IntervalNotLost' /\ MissedInv'
  <2>0. MissedInv'
    BY <1>1, <1>2, <1>3, ServiceAssumption DEF Processed, MissedInv, Inv
  <2>. SUFFICES ASSUME faults' = 0, cfg'.changed
                PROVE  svc'.bool_AdvtIntervalUpdated \/ set'.interval_min = Ticks(cfg'.interval)
    BY <2>0 DEF IntervalNotLost
  <2>1. faults = 0
    BY <1>1, <1>3, ServiceAssumption DEF Processed
  <2>. QED  BY <1>1, <1>2, <2>1 DEF Processed, IntervalNotLost, Inv
<1>. QED  BY <1>5, <1>6, <1>7, <1>8, <1>9 DEF Inv

\* A connection.
LEMMA ConnectedKeepsInv ==
    ASSUME Inv, NEW c \in Conns, NEW id \in Identities, Connected(c, id)
    PROVE  Inv'
<1>1. TypeOK /\ set \in SetType /\ svc \in ServiceState /\ timer \in TimerState
      /\ link \in [Conns -> LinkState] /\ lost \subseteq Conns /\ worker \in WorkerState
      /\ id \in {"vision", "other"}
  BY Types, ServiceAssumption DEF Inv
<1>2. UNCHANGED <<worker, queue, cfg, clock, dfu_mode, provisioned, faults>>
  BY DEF Connected
<1>3. /\ link' \in [Conns -> LinkState] /\ link'[c].state = "up"
      /\ \A e \in Conns : e # c => link'[e] = link[e]
  BY <1>1 DEF Connected, LinkState, LinkStates
<1>4. /\ set' \in SetType /\ set'.interval_min = set.interval_min
      /\ id = "vision" => set'.on_air = FALSE
      /\ set'.missed = (set.missed \/ FALSE)
  <2>. DEFINE b == id = "vision"
  <2>1. b \in BOOLEAN /\ set' = connected(set, b, FALSE)
    BY DEF Connected
  <2>2. set' \in SetType /\ set'.interval_min = set.interval_min /\ (b => set'.on_air = FALSE)
        /\ set'.missed = (set.missed \/ FALSE)
    BY <1>1, <2>1, ConnectedSet
  <2>. QED  BY <2>2
<1>5. /\ svc' \in ServiceState /\ svc'.current_conn = c /\ svc'.active_local_id = id
      /\ svc'.bool_AdvtIntervalUpdated = svc.bool_AdvtIntervalUpdated
  <2>. DEFINE a == IF id = "vision" THEN FALSE ELSE svc.bool_UserAuthorization
  <2>1. a \in BOOLEAN
    BY <1>1 DEF ServiceState
  <2>2. svc' = [svc EXCEPT !.current_conn = c, !.active_local_id = id,
                           !.bool_UserAuthorization = a]
    BY DEF Connected
  <2>. HIDE DEF a
  <2>. QED  BY <1>1, <2>1, <2>2 DEF ServiceState
<1>6. timer' \in TimerState /\ timer'.dfu = timer.dfu
  <2>. DEFINE a == timer.authorisation \/ id = "vision"
  <2>1. a \in BOOLEAN
    OBVIOUS
  <2>2. timer' = [timer EXCEPT !.authorisation = a]
    BY DEF Connected
  <2>. HIDE DEF a
  <2>. QED  BY <1>1, <2>1, <2>2 DEF TimerState
<1>7. lost' \subseteq Conns
  <2>1. svc.current_conn \in Conns \union {NoConn}
    BY <1>1 DEF ServiceState
  <2>. QED  BY <1>1, <2>1 DEF Connected
<1>8. TypeOK'
  BY <1>1, <1>2, <1>3, <1>4, <1>5, <1>6, <1>7, Types, TypesNext
<1>9. IntervalInv' /\ WorkerInv'
  BY <1>2 DEF IntervalInv, WorkerInv, Inv
<1>10. NoDanglingConn'
  <2>1. worker.target \in Conns \union {NoConn}
    BY <1>1 DEF WorkerState
  <2>. QED  BY <1>2, <1>3, <1>5, <2>1 DEF NoDanglingConn, Inv
<1>11. DfuBounded'
  BY <1>2, <1>6 DEF DfuBounded, Inv
<1>12. FlagFresh' /\ MissedInv'
  BY <1>1, <1>2, <1>4, <1>5 DEF FlagFresh, MissedInv, Inv
<1>13. IntervalNotLost'
  BY <1>2, <1>4, <1>5 DEF IntervalNotLost, Inv
<1>. QED  BY <1>8, <1>9, <1>10, <1>11, <1>12, <1>13 DEF Inv

\* A failed connection attempt: the flag is cleared, and the fault is remembered.
LEMMA ConnectFailsKeepsInv ==
    ASSUME Inv, NEW id \in Identities, ConnectFails(id)
    PROVE  Inv'
<1>1. TypeOK /\ set \in SetType /\ faults \in 0..MaxFaults /\ MaxFaults \in Nat
  BY Types, ServiceAssumption DEF Inv
<1>2. /\ UNCHANGED <<svc, timer, worker, queue, link, lost, cfg, clock, dfu_mode, provisioned>>
      /\ faults < MaxFaults /\ faults' = faults + 1
  BY DEF ConnectFails
<1>3. set' \in SetType /\ set'.missed = TRUE
  <2>1. PICK b \in BOOLEAN : set' = connected(set, b, TRUE)
    BY DEF ConnectFails
  <2>. QED  BY <1>1, <2>1, ConnectedSet
<1>4. faults' \in 0..MaxFaults /\ faults' # 0
  BY <1>1, <1>2
<1>5. TypeOK'
  BY <1>1, <1>2, <1>3, <1>4, Types, TypesNext
<1>6. FlagFresh' /\ IntervalNotLost' /\ MissedInv'
  BY <1>3, <1>4 DEF FlagFresh, IntervalNotLost, MissedInv
<1>7. IntervalInv' /\ WorkerInv' /\ NoDanglingConn' /\ DfuBounded'
  BY <1>2 DEF Inv, IntervalInv, WorkerInv, NoDanglingConn, DfuBounded
<1>. QED  BY <1>5, <1>6, <1>7 DEF Inv

\* A step that leaves the set, the service, the links and the configuration alone.
Elsewhere == UNCHANGED <<set, svc, link, lost, cfg, provisioned, faults>>

\* Such a step keeps the invariant if it keeps what it says of the worker and DFU mode.
LEMMA ElsewhereKeepsInv ==
    ASSUME Inv, Elsewhere, timer' \in TimerState, worker' \in WorkerState, clock' \in ClockState,
           queue' \in Seq(Conns \union {"parse"}), dfu_mode' \in BOOLEAN, WorkerInv',
           worker'.target \in {NoConn, svc.current_conn, worker.target}, DfuBounded'
    PROVE  Inv'
<1>1. TypeOK'
  BY Types, TypesNext DEF Inv, Elsewhere
<1>2. IntervalInv' /\ FlagFresh' /\ IntervalNotLost' /\ MissedInv'
  BY DEF Inv, Elsewhere, IntervalInv, FlagFresh, IntervalNotLost, MissedInv
<1>3. NoDanglingConn'
  BY DEF Inv, Elsewhere, NoDanglingConn
<1>. QED  BY <1>1, <1>2, <1>3 DEF Inv

\* initiate_disconnect takes the current connection.
LEMMA InitiateEffect ==
    ASSUME Inv, NEW after \in {"idle", "restarting"}, InitiateDisconnect(after),
           worker.step # "dropping"
    PROVE  /\ worker' \in WorkerState /\ WorkerInv'
           /\ worker'.target \in {NoConn, svc.current_conn}
           /\ svc.current_conn = NoConn => worker'.step = after
           /\ svc.current_conn # NoConn =>
                 worker'.step = "dropping" /\ worker'.target = svc.current_conn
<1>1. /\ worker \in WorkerState /\ svc.current_conn \in Conns \union {NoConn}
      /\ worker.target = NoConn
  BY Types DEF Inv, ServiceState, WorkerInv
<1>2. CASE svc.current_conn = NoConn
  <2>1. worker' = [worker EXCEPT !.step = after]
    BY <1>2 DEF InitiateDisconnect
  <2>2. worker' \in WorkerState /\ worker'.step = after /\ worker'.target = NoConn
    BY <1>1, <2>1 DEF WorkerState
  <2>. QED  BY <1>2, <2>2 DEF WorkerInv
<1>3. CASE svc.current_conn # NoConn
  <2>. DEFINE t == svc.current_conn
  <2>1. worker' = [worker EXCEPT !.step = "dropping", !.target = t]
    BY <1>3 DEF InitiateDisconnect
  <2>2. t \in Conns
    BY <1>1, <1>3
  <2>. HIDE DEF t
  <2>3. worker' \in WorkerState /\ worker'.step = "dropping" /\ worker'.target = t
    BY <1>1, <2>1, <2>2 DEF WorkerState
  <2>. QED  BY <1>3, <2>2, <2>3 DEF WorkerInv, t
<1>. QED  BY <1>2, <1>3

\* The timeouts and the end of the sleep after the reply.
LEMMA TimeoutKeepsInv ==
    ASSUME Inv, \/ authorisation_timout_work_handler \/ connection_timout_work_handler
                \/ ReplySent
    PROVE  Inv'
<1>1. /\ timer \in TimerState /\ clock \in ClockState /\ dfu_mode \in BOOLEAN
      /\ queue \in Seq(Conns \union {"parse"})
  BY Types DEF Inv
<1>2. Elsewhere /\ UNCHANGED <<clock, dfu_mode, queue>>
  BY DEF authorisation_timout_work_handler, connection_timout_work_handler, ReplySent, Elsewhere
<1>3. PICK after \in {"idle", "restarting"} : InitiateDisconnect(after) /\ worker.step # "dropping"
  BY DEF authorisation_timout_work_handler, connection_timout_work_handler, ReplySent,
         WorkqueueFree
<1>4. timer' \in TimerState /\ timer'.dfu = timer.dfu
  <2>1. \/ timer' = timer \/ timer' = [timer EXCEPT !.authorisation = FALSE]
        \/ timer' = [timer EXCEPT !.connection = FALSE]
    BY DEF authorisation_timout_work_handler, connection_timout_work_handler, ReplySent
  <2>. QED  BY <1>1, <2>1 DEF TimerState
<1>5. DfuBounded'
  BY <1>2, <1>4 DEF DfuBounded, Inv
<1>. QED  BY <1>1, <1>2, <1>3, <1>4, <1>5, InitiateEffect, ElsewhereKeepsInv

\* The DFU mode's timeout, an SMP access, and the time of day.
LEMMA ModeKeepsInv ==
    ASSUME Inv, \/ dfu_mode_timeout_work_handle \/ TimePasses
                \/ \E c \in Conns : app_dfu_bt_gatt_operation_allow(c)
    PROVE  Inv'
<1>1. /\ timer \in TimerState /\ clock \in ClockState /\ dfu_mode \in BOOLEAN
      /\ queue \in Seq(Conns \union {"parse"}) /\ worker \in WorkerState
  BY Types DEF Inv
<1>2. Elsewhere /\ UNCHANGED <<queue, worker>>
  BY DEF dfu_mode_timeout_work_handle, TimePasses, app_dfu_bt_gatt_operation_allow, Elsewhere
<1>3. WorkerInv' /\ worker'.target = worker.target
  BY <1>2 DEF WorkerInv, Inv
<1>4. CASE dfu_mode_timeout_work_handle
  <2>1. timer' = [timer EXCEPT !.dfu = FALSE] /\ dfu_mode' = FALSE /\ UNCHANGED clock
    BY <1>4 DEF dfu_mode_timeout_work_handle
  <2>2. timer' \in TimerState /\ DfuBounded'
    BY <1>1, <2>1 DEF TimerState, DfuBounded
  <2>. QED  BY <1>1, <1>2, <1>3, <2>1, <2>2, ElsewhereKeepsInv
<1>5. CASE TimePasses
  <2>1. PICK w \in InsideWindow \ {clock.inside} : clock' = [clock EXCEPT !.inside = w]
    BY <1>5 DEF TimePasses
  <2>2. w \in BOOLEAN
    BY DEF InsideWindow
  <2>3. clock' \in ClockState
    BY <1>1, <2>1, <2>2 DEF ClockState
  <2>4. UNCHANGED <<timer, dfu_mode>>
    BY <1>5 DEF TimePasses
  <2>5. DfuBounded'
    BY <2>4 DEF DfuBounded, Inv
  <2>. QED  BY <1>1, <1>2, <1>3, <2>3, <2>4, <2>5, ElsewhereKeepsInv
<1>6. CASE \E c \in Conns : app_dfu_bt_gatt_operation_allow(c)
  <2>1. timer' = [timer EXCEPT !.dfu = TRUE] /\ UNCHANGED <<clock, dfu_mode>>
    BY <1>6 DEF app_dfu_bt_gatt_operation_allow
  <2>2. timer' \in TimerState /\ DfuBounded'
    BY <1>1, <2>1 DEF TimerState, DfuBounded
  <2>. QED  BY <1>1, <1>2, <1>3, <2>1, <2>2, ElsewhereKeepsInv
<1>. QED  BY <1>4, <1>5, <1>6

\* A command arrives.
LEMMA WriteKeepsInv ==
    ASSUME Inv, NEW c \in Conns, NEW cmd \in PeerCommands, write_incoming_char(c, cmd)
    PROVE  Inv'
<1>1. svc \in ServiceState /\ queue \in Seq(Conns \union {"parse"}) /\ cmd \in Commands
  BY Types, ServiceAssumption DEF Inv
<1>2. /\ UNCHANGED <<set, timer, worker, link, lost, cfg, clock, dfu_mode, provisioned, faults>>
      /\ svc' = [svc EXCEPT !.write = cmd] /\ Submit("parse")
  BY DEF write_incoming_char
<1>3. /\ svc' \in ServiceState /\ svc'.current_conn = svc.current_conn /\ svc'.write = cmd
      /\ svc'.active_local_id = svc.active_local_id
      /\ svc'.bool_AdvtIntervalUpdated = svc.bool_AdvtIntervalUpdated
  BY <1>1, <1>2 DEF ServiceState
<1>4. queue' \in Seq(Conns \union {"parse"})
  BY <1>1, <1>2, QueueTyped
<1>5. TypeOK'
  BY <1>2, <1>3, <1>4, Types, TypesNext DEF Inv
<1>. QED  BY <1>2, <1>3, <1>5
          DEF Inv, IntervalInv, WorkerInv, NoDanglingConn, DfuBounded, FlagFresh, IntervalNotLost,
              MissedInv

\* A link is lost, or dropped by the worker.
LEMMA LinkKeepsInv ==
    ASSUME Inv, (\E c \in Conns : LinkDown(c)) \/ DropLink
    PROVE  Inv'
<1>1. /\ link \in [Conns -> LinkState] /\ queue \in Seq(Conns \union {"parse"})
      /\ worker \in WorkerState /\ faults \in 0..MaxFaults /\ MaxFaults \in Nat
  BY Types, ServiceAssumption DEF Inv
<1>2. UNCHANGED <<set, svc, timer, lost, cfg, clock, dfu_mode, provisioned>>
  BY DEF LinkDown, DropLink
<1>3. DropLink => worker.target \in Conns
  BY DEF DropLink, Inv, WorkerInv
<1>4. PICK c \in Conns \union {NoConn} :
        \/ c \in Conns /\ link' = [link EXCEPT ![c].state = "down"] /\ Submit(c)
        \/ UNCHANGED <<link, queue>>
  BY <1>3 DEF LinkDown, DropLink
<1>5. /\ link' \in [Conns -> LinkState] /\ queue' \in Seq(Conns \union {"parse"})
      /\ \A e \in Conns : link'[e].state = link[e].state \/ link'[e].state = "down"
  <2>1. CASE UNCHANGED <<link, queue>>
    BY <1>1, <2>1
  <2>2. CASE c \in Conns /\ link' = [link EXCEPT ![c].state = "down"] /\ Submit(c)
    <3>1. /\ link' \in [Conns -> LinkState]
          /\ \A e \in Conns : link'[e].state = link[e].state \/ link'[e].state = "down"
      BY <1>1, <2>2 DEF LinkState, LinkStates
    <3>. QED  BY <1>1, <2>2, <3>1, QueueTyped
  <2>. QED  BY <1>4, <2>1, <2>2
<1>6. worker' \in WorkerState /\ WorkerInv' /\ worker'.target \in {NoConn, worker.target}
  <2>1. CASE DropLink
    <3>. DEFINE n == IF worker.restart THEN "restarting" ELSE "idle"
    <3>1. n \in {"restarting", "idle"} /\ worker' = [worker EXCEPT !.target = NoConn, !.step = n]
      BY <2>1 DEF DropLink
    <3>. HIDE DEF n
    <3>2. worker' \in WorkerState /\ worker'.step = n /\ worker'.target = NoConn
      BY <1>1, <3>1 DEF WorkerState
    <3>. QED  BY <3>1, <3>2 DEF WorkerInv
  <2>2. CASE UNCHANGED worker
    BY <1>1, <2>2 DEF WorkerInv, Inv
  <2>. QED  BY <2>1, <2>2 DEF LinkDown
<1>7. faults' \in 0..MaxFaults /\ (faults' = 0 => faults = 0)
  <2>1. faults' = faults \/ (faults < MaxFaults /\ faults' = faults + 1)
    BY DEF LinkDown, DropLink
  <2>. QED  BY <1>1, <2>1
<1>8. TypeOK'
  BY <1>2, <1>5, <1>6, <1>7, Types, TypesNext DEF Inv
<1>9. IntervalInv' /\ DfuBounded' /\ FlagFresh' /\ IntervalNotLost' /\ MissedInv'
  BY <1>2, <1>7 DEF Inv, IntervalInv, DfuBounded, FlagFresh, IntervalNotLost, MissedInv
<1>10. NoDanglingConn'
  <2>1. worker.target \in Conns \union {NoConn} /\ svc.current_conn \in Conns \union {NoConn}
    BY Types DEF Inv, WorkerState, ServiceState
  <2>. QED  BY <1>2, <1>5, <1>6, <2>1 DEF NoDanglingConn, Inv
<1>. QED  BY <1>6, <1>8, <1>9, <1>10 DEF Inv

\* The set is started or stopped, and nothing else happens to it.
LEMMA SwitchKeepsInv ==
    ASSUME Inv, \/ TakeOutcome(ble_adv_custom_start(set, Room)) \/ TakeOutcome(ble_adv_custom_stop(set)),
           UNCHANGED <<svc, timer, worker, queue, link, lost, cfg, dfu_mode>>,
           clock' \in ClockState, provisioned' \in BOOLEAN
    PROVE  Inv'
<1>1. set \in SetType /\ faults \in 0..MaxFaults /\ Room \in BOOLEAN
  BY Types, Room01 DEF Inv
<1>2. \A o \in ble_adv_custom_start(set, Room) \union ble_adv_custom_stop(set) :
        /\ o[1] \in SetType /\ o[2] \in {0, 1, 2, 3} /\ o[1].interval_min = set.interval_min
        /\ Fresh(set) => Fresh(o[1])
        /\ o[1].missed = set.missed
  <2>1. ASSUME NEW o \in ble_adv_custom_start(set, Room)
        PROVE  /\ o[1] \in SetType /\ o[2] \in {0, 1, 2, 3}
               /\ o[1].interval_min = set.interval_min /\ (Fresh(set) => Fresh(o[1]))
               /\ o[1].missed = set.missed
    <3>1. /\ o[1] \in SetType /\ o[2] \in {0, 1} /\ o[1].interval_min = set.interval_min
          /\ o[1].missed = set.missed
          /\ o[1] = set \/ (o[1].on_air = TRUE /\ o[1].is_advertising = TRUE)
      BY <1>1, StartOutcome
    <3>2. Fresh(set) => Fresh(o[1])
      BY <3>1 DEF Fresh
    <3>. QED  BY <3>1, <3>2
  <2>2. ASSUME NEW o \in ble_adv_custom_stop(set)
        PROVE  /\ o[1] \in SetType /\ o[2] \in {0, 1, 2, 3}
               /\ o[1].interval_min = set.interval_min /\ (Fresh(set) => Fresh(o[1]))
               /\ o[1].missed = set.missed
    <3>1. /\ o[1] \in SetType /\ o[2] \in {0, 1} /\ o[1].interval_min = set.interval_min
          /\ o[1].missed = set.missed
          /\ o[1] = set \/ (o[1].on_air = FALSE /\ o[1].is_advertising = FALSE)
      BY <1>1, StopOutcome
    <3>2. Fresh(set) => Fresh(o[1])
      BY <3>1 DEF Fresh
    <3>. QED  BY <3>1, <3>2
  <2>. QED  BY <2>1, <2>2
<1>3. /\ set' \in SetType /\ set'.interval_min = set.interval_min /\ (Fresh(set) => Fresh(set'))
      /\ set'.missed = set.missed
      /\ faults' \in 0..MaxFaults /\ (faults' = 0 => faults = 0)
  <2>1. PICK outcomes : /\ TakeOutcome(outcomes)
                        /\ outcomes \in {ble_adv_custom_start(set, Room), ble_adv_custom_stop(set)}
    OBVIOUS
  <2>2. \A o \in outcomes :
          /\ o[1] \in SetType /\ o[2] \in {0, 1, 2, 3} /\ o[1].interval_min = set.interval_min
          /\ Fresh(set) => Fresh(o[1])
          /\ o[1].missed = set.missed
    BY <1>2, <2>1
  <2>3. PICK o \in outcomes : /\ set' = o[1] /\ set' \in SetType
                              /\ faults' \in 0..MaxFaults /\ faults <= faults'
                              /\ faults' = 0 => faults = 0 /\ o[2] = 0
    BY <1>1, <2>1, <2>2, TakenOutcome
  <2>. QED  BY <2>2, <2>3
<1>4. TypeOK'
  BY <1>3, Types, TypesNext DEF Inv
<1>5. IntervalInv' /\ WorkerInv' /\ NoDanglingConn' /\ DfuBounded'
  BY DEF Inv, IntervalInv, WorkerInv, NoDanglingConn, DfuBounded
<1>6. FlagFresh' /\ IntervalNotLost' /\ MissedInv'
  BY <1>3 DEF Inv, FlagFresh, IntervalNotLost, Fresh, MissedInv
<1>. QED  BY <1>4, <1>5, <1>6 DEF Inv

\* FMDN provisioning starts the set, the supervisor stops and starts it.
LEMMA SupervisorKeepsInv ==
    ASSUME Inv, (\E c \in Conns : Provision(c)) \/ EnterWindow \/ LeaveWindow
    PROVE  Inv'
<1>1. /\ TakeOutcome(ble_adv_custom_start(set, Room)) \/ TakeOutcome(ble_adv_custom_stop(set))
      /\ UNCHANGED <<svc, timer, worker, queue, link, lost, cfg, dfu_mode>>
  BY DEF Provision, EnterWindow, LeaveWindow
<1>2. clock' \in ClockState /\ provisioned' \in BOOLEAN
  <2>1. clock \in ClockState /\ provisioned \in BOOLEAN
    BY Types DEF Inv
  <2>2. /\ clock' = clock \/ clock' = [clock EXCEPT !.Advtflag = TRUE]
           \/ clock' = [clock EXCEPT !.Advtflag = FALSE]
        /\ provisioned' = provisioned \/ provisioned' = TRUE
    BY DEF Provision, EnterWindow, LeaveWindow
  <2>. QED  BY <2>1, <2>2 DEF ClockState
<1>. QED  BY <1>1, <1>2, SwitchKeepsInv

\* What the end of a Vision session does to the set.
LEMMA RelaunchEffect ==
    ASSUME Inv, Fresh(set), NEW update \in BOOLEAN, TakeOutcome(RelaunchOutcomes(update))
    PROVE  /\ set' \in SetType /\ Fresh(set') /\ set'.missed = set.missed
           /\ faults' \in 0..MaxFaults /\ faults <= faults'
           /\ faults' = 0 =>
                /\ faults = 0
                /\ set'.interval_min = IF update THEN Ticks(cfg.interval) ELSE set.interval_min
                /\ Room /\ ~set.on_air /\ ~set.is_advertising => set'.on_air /\ set'.is_advertising
                /\ (set.on_air = set.is_advertising) => (set'.on_air = set'.is_advertising)
<1>. DEFINE first == IF update THEN ble_adv_custom_update_interval(set, cfg.interval)
                     ELSE {<<set, 0>>}
            Good(o) == /\ o[1] \in SetType /\ o[2] \in {0, 1, 2, 3} /\ Fresh(o[1])
                       /\ o[1].missed = set.missed
                       /\ o[2] = 0 /\ ~set.missed =>
                            /\ o[1].interval_min
                                  = IF update THEN Ticks(cfg.interval) ELSE set.interval_min
                            /\ Room /\ ~set.on_air /\ ~set.is_advertising =>
                                 o[1].on_air /\ o[1].is_advertising
                            /\ (set.on_air = set.is_advertising) =>
                                 (o[1].on_air = o[1].is_advertising)
<1>1. set \in SetType /\ faults \in 0..MaxFaults /\ Room \in BOOLEAN /\ cfg.interval \in Allowed
  BY Types, Room01 DEF Inv, IntervalInv
<1>2. ASSUME NEW u \in first
      PROVE  /\ u[1] \in SetType /\ u[2] \in {0, 1, 2} /\ Fresh(u[1])
             /\ u[1].missed = set.missed
             /\ u[2] = 0 /\ ~set.missed =>
                  /\ u[1].interval_min = IF update THEN Ticks(cfg.interval) ELSE set.interval_min
                  /\ ~set.on_air /\ ~set.is_advertising => ~u[1].is_advertising
                  /\ (set.on_air = set.is_advertising) => (u[1].on_air = u[1].is_advertising)
  <2>1. CASE update
    <3>1. u \in ble_adv_custom_update_interval(set, cfg.interval)
      BY <1>2, <2>1
    <3>2. /\ u[1] \in SetType /\ u[2] \in {0, 1, 2} /\ Fresh(u[1])
          /\ u[1].missed = set.missed
          /\ u[2] = 0 /\ ~set.missed => /\ u[1].interval_min = Ticks(cfg.interval)
                                        /\ u[1].is_advertising = set.is_advertising
                                        /\ u[1].on_air = set.is_advertising
      BY <1>1, <3>1, UpdateOutcome
    <3>. QED  BY <2>1, <3>2
  <2>2. CASE ~update
    <3>1. u[1] = set /\ u[2] = 0
      BY <1>2, <2>2
    <3>. QED  BY <1>1, <2>2, <3>1
  <2>. QED  BY <2>1, <2>2
<1>3. ASSUME NEW o \in RelaunchOutcomes(update)
      PROVE  Good(o)
  <2>1. PICK u \in first : \E v \in ble_adv_custom_start(u[1], Room) : o = <<v[1], u[2] + v[2]>>
    BY <1>3 DEF RelaunchOutcomes
  <2>2. PICK v \in ble_adv_custom_start(u[1], Room) : o = <<v[1], u[2] + v[2]>>
    BY <2>1
  <2>. HIDE DEF first
  <2>3. /\ u[1] \in SetType /\ u[2] \in {0, 1, 2} /\ Fresh(u[1])
        /\ u[1].missed = set.missed
        /\ u[2] = 0 /\ ~set.missed =>
             /\ u[1].interval_min = IF update THEN Ticks(cfg.interval) ELSE set.interval_min
             /\ ~set.on_air /\ ~set.is_advertising => ~u[1].is_advertising
             /\ (set.on_air = set.is_advertising) => (u[1].on_air = u[1].is_advertising)
    BY <1>2
  <2>4. /\ v[1] \in SetType /\ v[2] \in {0, 1} /\ v[1].interval_min = u[1].interval_min
        /\ v[1].missed = u[1].missed
        /\ v[1] = u[1] \/ (v[1].on_air = TRUE /\ v[1].is_advertising = TRUE)
        /\ Room /\ v[2] = 0 => v[1].on_air \/ u[1].is_advertising
    BY <1>1, <2>2, <2>3, StartOutcome
  <2>5. /\ o[1] = v[1] /\ o[2] \in {0, 1, 2, 3} /\ (o[2] = 0 => u[2] = 0 /\ v[2] = 0)
    BY <2>2, <2>3, <2>4
  <2>6. Fresh(v[1])
    BY <2>3, <2>4 DEF Fresh
  <2>7. ASSUME o[2] = 0, ~set.missed, Room, ~set.on_air, ~set.is_advertising
        PROVE  v[1].on_air /\ v[1].is_advertising
    BY <2>3, <2>4, <2>5, <2>6, <2>7 DEF Fresh
  <2>8. ASSUME o[2] = 0, ~set.missed, set.on_air = set.is_advertising
        PROVE  v[1].on_air = v[1].is_advertising
    <3>1. u[1].on_air = u[1].is_advertising
      BY <2>3, <2>5, <2>8
    <3>2. v[1] = u[1] \/ (v[1].on_air = TRUE /\ v[1].is_advertising = TRUE)
      BY <2>4
    <3>. QED  BY <3>1, <3>2, Zenon
  <2>. QED  BY <2>3, <2>4, <2>5, <2>6, <2>7, <2>8
<1>4. PICK o \in RelaunchOutcomes(update) :
        /\ set' = o[1] /\ set' \in SetType
        /\ faults' \in 0..MaxFaults /\ faults <= faults'
        /\ faults' = 0 => faults = 0 /\ o[2] = 0
  BY <1>1, <1>3, TakenOutcome
<1>5. faults = 0 => ~set.missed
  BY DEF Inv, MissedInv
<1>. QED  BY <1>3, <1>4, <1>5

\* The disconnected callback.
LEMMA DisconnectedKeepsInv ==
    ASSUME Inv, NEW c \in Conns, Disconnected(c)
    PROVE  Inv'
<1>1. /\ set \in SetType /\ svc \in ServiceState /\ timer \in TimerState
      /\ queue \in Seq(Conns \union {"parse"}) /\ link \in [Conns -> LinkState]
      /\ faults \in 0..MaxFaults
  BY Types DEF Inv
<1>2. /\ worker.step = "idle" /\ queue # <<>> /\ Head(queue) = c /\ queue' = Tail(queue)
      /\ UNCHANGED <<worker, lost, cfg, clock, dfu_mode, provisioned>>
  BY DEF Disconnected, WorkqueueFree
<1>3. queue' \in Seq(Conns \union {"parse"})
  BY <1>1, <1>2, QueueTyped
<1>4. /\ link' \in [Conns -> LinkState]
      /\ \A e \in Conns : e # c => link'[e] = link[e]
  BY <1>1 DEF Disconnected, LinkState, LinkStates
<1>. DEFINE n == IF svc.current_conn = c THEN NoConn ELSE svc.current_conn
<1>5. n \in Conns \union {NoConn} /\ n # c /\ n \in {NoConn, svc.current_conn}
  BY <1>1, ServiceAssumption DEF ServiceState
<1>6. /\ svc' \in ServiceState /\ svc'.current_conn = n
      /\ timer' \in TimerState /\ timer'.dfu = timer.dfu /\ set' \in SetType
      /\ faults' \in 0..MaxFaults /\ FlagFresh' /\ IntervalNotLost' /\ MissedInv'
  <2>1. CASE svc.active_local_id = "vision" /\ EndVisionSession
    <3>1. svc' = [svc EXCEPT !.active_local_id = "none", !.bool_AdvtIntervalUpdated = FALSE,
                             !.bool_UserAuthorization = FALSE, !.current_conn = n]
      BY <1>2, <2>1 DEF EndVisionSession
    <3>2. timer' = [timer EXCEPT !.authorisation = FALSE, !.connection = FALSE]
      BY <2>1 DEF EndVisionSession
    <3>3. timer' \in TimerState /\ timer'.dfu = timer.dfu
      BY <1>1, <3>2 DEF TimerState
    <3>. DEFINE update == svc.bool_AdvtIntervalUpdated
    <3>4. update \in BOOLEAN /\ Fresh(set) /\ TakeOutcome(RelaunchOutcomes(update))
      BY <1>1, <2>1 DEF ServiceState, Inv, FlagFresh, Fresh, EndVisionSession
    <3>. HIDE DEF update, n
    <3>5. /\ svc' \in ServiceState /\ svc'.current_conn = n
          /\ svc'.bool_AdvtIntervalUpdated = FALSE
      BY <1>1, <1>5, <3>1 DEF ServiceState
    <3>6. /\ set' \in SetType /\ Fresh(set') /\ set'.missed = set.missed
          /\ faults' \in 0..MaxFaults
          /\ faults' = 0 =>
               /\ faults = 0
               /\ set'.interval_min = IF update THEN Ticks(cfg.interval) ELSE set.interval_min
      BY <3>4, RelaunchEffect
    <3>7. FlagFresh' /\ MissedInv'
      BY <3>6 DEF FlagFresh, Fresh, MissedInv, Inv
    <3>8. IntervalNotLost'
      BY <1>2, <3>6 DEF IntervalNotLost, Inv, update
    <3>. QED  BY <3>3, <3>5, <3>6, <3>7, <3>8
  <2>2. CASE svc.active_local_id # "vision" /\ UNCHANGED <<set, timer, faults>>
             /\ svc' = [svc EXCEPT !.current_conn = n]
    <3>. HIDE DEF n
    <3>1. /\ svc' \in ServiceState /\ svc'.current_conn = n
          /\ svc'.active_local_id = svc.active_local_id
          /\ svc'.bool_AdvtIntervalUpdated = svc.bool_AdvtIntervalUpdated
      BY <1>1, <1>5, <2>2 DEF ServiceState
    <3>. QED  BY <1>1, <1>2, <2>2, <3>1 DEF FlagFresh, IntervalNotLost, MissedInv, Inv
  <2>. QED  BY <2>1, <2>2 DEF Disconnected
<1>. HIDE DEF n
<1>7. TypeOK'
  BY <1>2, <1>3, <1>4, <1>6, Types, TypesNext DEF Inv
<1>8. IntervalInv' /\ WorkerInv' /\ DfuBounded'
  BY <1>2, <1>6 DEF Inv, IntervalInv, WorkerInv, DfuBounded
<1>9. NoDanglingConn'
  <2>1. worker'.target = NoConn
    BY <1>2 DEF Inv, WorkerInv
  <2>. QED  BY <1>4, <1>5, <1>6, <2>1 DEF NoDanglingConn, Inv
<1>. QED  BY <1>6, <1>7, <1>8, <1>9 DEF Inv

\* The resets, as boots of a constant state.
Resets == PowerLoss \/ FactoryReset \/ SelfRestart

\* Every kind of reset is a boot, with the provisioning and the clock that survived.
LEMMA ResetBoots ==
    ASSUME Inv, Resets
    PROVE  \E prov, ret \in BOOLEAN : Boot(prov, ret) /\ (prov => provisioned)
<1>1. provisioned \in BOOLEAN /\ clock.retained \in BOOLEAN
  BY Types DEF Inv, ClockState
<1>2. CASE PowerLoss
  <2>1. Boot(provisioned, FALSE)
    BY <1>2 DEF PowerLoss
  <2>. QED  BY <1>1, <2>1 DEF Boot
<1>3. CASE FactoryReset
  <2>1. Boot(FALSE, clock.retained)
    BY <1>3 DEF FactoryReset
  <2>. QED  BY <1>1, <2>1 DEF Boot
<1>4. CASE SelfRestart
  <2>1. Boot(provisioned, clock.retained)
    BY <1>4 DEF SelfRestart
  <2>. QED  BY <1>1, <2>1 DEF Boot
<1>. QED  BY <1>2, <1>3, <1>4 DEF Resets

-----------------------------------------------------------------------------
(***************************************************************************)
(* What holds whoever connects.                                            *)
(***************************************************************************)

\* The first state.
LEMMA InitInv == Init => Inv
<1>. SUFFICES ASSUME Init PROVE Inv
  OBVIOUS
<1>1. /\ provisioned \in BOOLEAN /\ svc = ServiceBoot /\ timer = TimerBoot /\ worker = WorkerBoot
      /\ queue = <<>> /\ link = [c \in Conns |-> [state |-> "free", id |-> "other"]]
      /\ lost = {} /\ cfg = [interval |-> 2000, nvs |-> 2000, changed |-> FALSE]
      /\ clock = [bool_IsTimeSynchronized |-> FALSE, retained |-> FALSE,
                  inside |-> FALSE, Advtflag |-> FALSE]
      /\ dfu_mode = FALSE /\ faults = 0
  BY DEF Init
<1>2. set \in SetType /\ (set.on_air => set.is_advertising) /\ set.missed = FALSE
  <2>1. set = [ble_adv_custom_init EXCEPT !.on_air = provisioned, !.is_advertising = provisioned]
    BY DEF Init
  <2>. QED  BY <1>1, <2>1, TicksAllowed, SetBoth
<1>3. /\ svc \in ServiceState /\ timer \in TimerState /\ worker \in WorkerState
      /\ link \in [Conns -> LinkState] /\ clock \in ClockState
      /\ queue \in Seq(Conns \union {"parse"})
  BY <1>1 DEF ServiceBoot, ServiceState, WorkerBoot, WorkerState, TimerBoot, TimerState,
              LinkState, LinkStates, ClockState
<1>4. cfg \in CfgType /\ IntervalInv /\ cfg.changed = FALSE
  BY <1>1 DEF CfgType, Uint16, IntervalInv, Allowed, PeriodAllowed
<1>5. faults \in 0..MaxFaults
  BY <1>1, ServiceAssumption
<1>6. TypeOK
  BY <1>1, <1>2, <1>3, <1>4, <1>5, Types
<1>7. WorkerInv /\ NoDanglingConn /\ DfuBounded /\ FlagFresh /\ IntervalNotLost /\ MissedInv
  BY <1>1, <1>2, <1>4 DEF WorkerInv, NoDanglingConn, DfuBounded, FlagFresh, IntervalNotLost, MissedInv,
                          WorkerBoot, ServiceBoot
<1>. QED  BY <1>4, <1>6, <1>7 DEF Inv

\* Every step keeps the invariant.
LEMMA NextKeepsInv == Inv /\ [Next]_vars => Inv'
<1>. SUFFICES ASSUME Inv, [Next]_vars PROVE Inv'
  OBVIOUS
<1>1. CASE UNCHANGED vars
  BY <1>1 DEF vars, Inv, TypeOK, IntervalInv, WorkerInv, NoDanglingConn, DfuBounded, FlagFresh,
              IntervalNotLost, MissedInv
<1>2. CASE ReceiveThread
  BY <1>2, ConnectFailsKeepsInv, ConnectedKeepsInv, WriteKeepsInv, LinkKeepsInv, SupervisorKeepsInv, ModeKeepsInv
     DEF ReceiveThread
<1>3. CASE Resets
  BY <1>3, ResetBoots, BootKeepsInv
<1>4. CASE Workqueue
  BY <1>3, <1>4, CommandKeepsInv, TimeoutKeepsInv, LinkKeepsInv, ModeKeepsInv,
     DisconnectedKeepsInv, SupervisorKeepsInv DEF Workqueue, Resets
<1>5. CASE TimePasses
  BY <1>5, ModeKeepsInv
<1>. QED  BY <1>1, <1>2, <1>3, <1>4, <1>5 DEF Next, Resets

\* Inv holds in every reachable state.
LEMMA Invariance == Spec => []Inv
BY InitInv, NextKeepsInv, PTL DEF Spec

\* Whatever the peers and the stack do, the statics of vision_custom_services.c and
\* vision_advt.c, the workqueue and the configured interval keep their types.
THEOREM TypeCorrect == Spec => []TypeOK
BY Invariance, PTL DEF Inv

\* current_conn and the connection that initiate_disconnect holds while it sleeps never
\* name a freed connection object, for any number of objects and overlapping links.
THEOREM NeverDangling == Spec => []NoDanglingConn
BY Invariance, PTL DEF Inv

\* The DFU mode is never without its timeout.
THEOREM DfuAlwaysBounded == Spec => []DfuBounded
BY Invariance, PTL DEF Inv

\* Where the disconnected callback relies on is_advertising, it does not say "stopped" of a
\* set that is on the air, as long as no connection attempt has failed since the boot.
THEOREM FlagAlwaysFresh == Spec => []FlagFresh
BY Invariance, PTL DEF Inv

\* An accepted advertising interval reaches the set or is still marked as pending.
THEOREM IntervalNeverLost == Spec => []IntervalNotLost
BY Invariance, PTL DEF Inv

-----------------------------------------------------------------------------
(***************************************************************************)
(* What holds when peers use the Vision identity alone.                    *)
(***************************************************************************)

TwoConns == \E c, d \in Conns : c # d

\* A link that is not free is the current one; no other is.
LEMMA Alone ==
    ASSUME Inv, SoloInv
    PROVE  /\ \A c \in Conns : link[c].state # "free" => svc.current_conn = c
           /\ worker.step = "dropping" =>
                 worker.target \in Conns /\ worker.target = svc.current_conn
           /\ svc.current_conn \in Conns \union {NoConn} /\ NoConn \notin Conns
           /\ svc.current_conn # NoConn =>
                 svc.current_conn \in Conns /\ link[svc.current_conn].state # "free"
           /\ \A c \in Conns : link[c].state \in {"free", "up", "down"}
<1>1. \A c \in Conns : link[c].state # "free" => svc.current_conn = c
  BY DEF SoloInv, LoneLink
<1>2. svc.current_conn \in Conns \union {NoConn} /\ NoConn \notin Conns
  BY Types, ServiceAssumption DEF Inv, ServiceState
<1>3. \A c \in Conns : link[c].state \in {"free", "up", "down"}
  BY Types DEF Inv, LinkState, LinkStates
<1>4. worker.step = "dropping" => worker.target \in Conns
  BY DEF Inv, WorkerInv
<1>5. \A c \in {svc.current_conn, worker.target} \ {NoConn} : link[c].state # "free"
  BY DEF Inv, NoDanglingConn
<1>. QED  BY <1>1, <1>2, <1>3, <1>4, <1>5

\* A step that leaves the links, the session and the set alone.
LEMMA StillKeepsSolo ==
    ASSUME Inv, SoloInv, UNCHANGED <<set, svc, link, lost, queue, provisioned, faults>>,
           UNCHANGED clock, SessionTimed'
    PROVE  SoloInv'
<1>1. AwakeInv' /\ LoneLink' /\ CommandOfItsSession' /\ FlagTrue'
  BY DEF SoloInv, AwakeInv, LoneLink, CommandOfItsSession, FlagTrue
<1>2. Down' = Down
  BY DEF Down
<1>3. QueueInv'
  BY <1>2 DEF SoloInv, QueueInv
<1>4. TwoConns => NeverSilent'
  BY DEF SoloInv, NeverSilent, TwoConns
<1>. QED  BY <1>1, <1>3, <1>4 DEF SoloInv, TwoConns

\* A reset.
LEMMA BootKeepsSolo ==
    ASSUME Solo, Inv, SoloInv, NEW prov \in BOOLEAN, NEW ret \in BOOLEAN, Boot(prov, ret)
    PROVE  SoloInv'
<1>1. set' \in SetType /\ (faults' = 0 => (set'.on_air = prov /\ set'.is_advertising = prov))
  BY BootEffect
<1>2. /\ svc' = ServiceBoot /\ queue' = <<>> /\ lost' = {} /\ provisioned' = prov
      /\ link' = [c \in Conns |-> [state |-> "free", id |-> "other"]]
  BY DEF Boot
<1>3. \A c \in Conns : link'[c].state = "free"
  BY <1>2
<1>4. AwakeInv'
  <2>1. PICK w \in InsideWindow :
          clock' = [bool_IsTimeSynchronized |-> ret, retained |-> ret,
                    inside |-> w, Advtflag |-> FALSE]
    BY DEF Boot
  <2>2. w = FALSE
    BY DEF Solo, InsideWindow
  <2>. QED  BY <2>1, <2>2 DEF AwakeInv
<1>5. svc'.current_conn = NoConn /\ svc'.write = "none"
  BY <1>2 DEF ServiceBoot
<1>6. LoneLink' /\ QueueInv' /\ CommandOfItsSession' /\ SessionTimed'
  BY <1>2, <1>3, <1>5 DEF LoneLink, QueueInv, Down, CommandOfItsSession, SessionTimed
<1>7. FlagTrue' /\ NeverSilent'
  BY <1>1, <1>2 DEF FlagTrue, NeverSilent
<1>. QED  BY <1>4, <1>6, <1>7 DEF SoloInv

\* A command.
LEMMA CommandKeepsSolo ==
    ASSUME Solo, Inv, SoloInv, ParseAndReply
    PROVE  SoloInv'
<1>1. Fetch /\ Processed
  BY CommandEffect
<1>2. UNCHANGED <<set, link, lost, provisioned>> /\ queue # <<>> /\ queue' = Tail(queue)
      /\ Head(queue) = "parse" /\ svc.write # "none"
  BY <1>1 DEF Fetch
<1>3. AwakeInv'
  <2>1. InsideWindow = {FALSE}
    BY DEF Solo, InsideWindow
  <2>. QED  BY <1>1, <2>1 DEF Processed, SoloInv, AwakeInv
<1>4. LoneLink'
  BY <1>1, <1>2 DEF Processed, SoloInv, LoneLink
<1>5. QueueInv'
  <2>1. Down' = Down /\ svc'.write = "none" /\ svc'.current_conn = svc.current_conn
    BY <1>1, <1>2 DEF Down, Processed
  <2>2. CASE Down
    <3>1. queue = <<"parse", svc.current_conn>>
      BY <1>2, <2>2 DEF SoloInv, QueueInv
    <3>2. queue' = <<svc.current_conn>>
      BY <1>2, <3>1
    <3>. QED  BY <2>1, <2>2, <3>2 DEF QueueInv
  <2>3. CASE ~Down
    <3>1. queue = <<"parse">>
      BY <1>2, <2>3 DEF SoloInv, QueueInv
    <3>2. queue' = <<>>
      BY <1>2, <3>1
    <3>. QED  BY <2>1, <2>3, <3>2 DEF QueueInv
  <2>. QED  BY <2>2, <2>3
<1>6. CommandOfItsSession'
  BY <1>1 DEF Processed, CommandOfItsSession
<1>7. SessionTimed'
  <2>. SUFFICES ASSUME NEW c \in Conns, link'[c].state = "up"
                PROVE  \/ worker'.step # "idle"
                       \/ svc'.bool_UserAuthorization /\ timer'.connection
    BY DEF SessionTimed
  <2>1. svc.current_conn # NoConn
    BY <1>2, Alone
  <2>. QED  BY <1>1, <2>1 DEF Processed
<1>8. faults' = 0 => faults = 0
  BY <1>1, Types, ServiceAssumption DEF Processed, Inv
<1>9. FlagTrue' /\ (TwoConns => NeverSilent')
  BY <1>1, <1>2, <1>8 DEF Processed, SoloInv, FlagTrue, NeverSilent, TwoConns
<1>. QED  BY <1>3, <1>4, <1>5, <1>6, <1>7, <1>9 DEF SoloInv, TwoConns

\* A connection: the set was on the air, so that nobody was connected.
LEMMA ConnectedKeepsSolo ==
    ASSUME Solo, Inv, SoloInv, NEW c \in Conns, NEW id \in Identities, Connected(c, id)
    PROVE  SoloInv'
<1>1. /\ id = "vision" /\ set.on_air /\ set \in SetType /\ svc \in ServiceState
      /\ timer \in TimerState /\ link \in [Conns -> LinkState]
  BY Types DEF Solo, Connected, Inv
<1>2. UNCHANGED <<worker, queue, cfg, clock, dfu_mode, provisioned, faults>>
  BY DEF Connected
<1>3. svc.current_conn = NoConn /\ \A e \in Conns : link[e].state = "free"
  <2>1. \A e \in Conns : link[e].state = "free"
    BY <1>1 DEF SoloInv, LoneLink
  <2>. QED  BY <2>1, Alone
<1>4. svc.write = "none" /\ ~Down
  BY <1>3 DEF SoloInv, CommandOfItsSession, Down
<1>5. queue' = <<>>
  BY <1>2, <1>4 DEF SoloInv, QueueInv
<1>6. /\ link'[c].state = "up" /\ link'[c].id = "vision"
      /\ \A e \in Conns : e # c => link'[e].state = "free"
  <2>1. link' = [link EXCEPT ![c] = [state |-> "up", id |-> id]]
    BY DEF Connected
  <2>2. link'[c] = [state |-> "up", id |-> id] /\ \A e \in Conns : e # c => link'[e] = link[e]
    BY <1>1, <2>1
  <2>. QED  BY <1>1, <1>3, <2>2
<1>7. set'.on_air = FALSE /\ set'.is_advertising = FALSE
  <2>1. set' = connected(set, TRUE, FALSE)
    <3>1. (id = "vision") = TRUE
      BY <1>1
    <3>. QED  BY <3>1 DEF Connected
  <2>. QED  BY <1>1, <2>1, ConnectedSet
<1>8. /\ svc'.current_conn = c /\ svc'.active_local_id = "vision"
      /\ svc'.bool_UserAuthorization = FALSE /\ svc'.write = "none"
  <2>1. svc' = [svc EXCEPT !.current_conn = c, !.active_local_id = id,
                           !.bool_UserAuthorization = FALSE]
    BY <1>1 DEF Connected
  <2>. QED  BY <1>1, <1>4, <2>1 DEF ServiceState
<1>9. timer'.authorisation = TRUE
  <2>. DEFINE a == timer.authorisation \/ id = "vision"
  <2>1. a = TRUE /\ timer' = [timer EXCEPT !.authorisation = a]
    BY <1>1 DEF Connected
  <2>. HIDE DEF a
  <2>. QED  BY <1>1, <2>1 DEF TimerState
<1>10. lost' = {}
  BY <1>3 DEF Connected, SoloInv, LoneLink
<1>11. AwakeInv' /\ LoneLink'
  BY <1>2, <1>6, <1>7, <1>8, <1>10 DEF SoloInv, AwakeInv, LoneLink
<1>12. QueueInv' /\ CommandOfItsSession'
  BY <1>5, <1>6, <1>8 DEF QueueInv, Down, CommandOfItsSession
<1>13. SessionTimed'
  BY <1>8, <1>9 DEF SessionTimed
<1>14. FlagTrue' /\ NeverSilent'
  BY <1>6, <1>7 DEF FlagTrue, NeverSilent
<1>. QED  BY <1>11, <1>12, <1>13, <1>14 DEF SoloInv

\* A failed attempt: SoloInv says more only of runs without faults.
LEMMA ConnectFailsKeepsSolo ==
    ASSUME Solo, Inv, SoloInv, NEW id \in Identities, ConnectFails(id)
    PROVE  SoloInv'
<1>1. /\ UNCHANGED <<svc, timer, worker, queue, link, lost, cfg, clock, dfu_mode, provisioned>>
      /\ faults' = faults + 1
  BY DEF ConnectFails
<1>2. faults' # 0
  BY <1>1, Types, ServiceAssumption DEF Inv
<1>3. ~set.on_air => ~set'.on_air
  <2>1. PICK b \in BOOLEAN : set' = connected(set, b, TRUE)
    BY DEF ConnectFails
  <2>2. set \in SetType
    BY Types DEF Inv
  <2>. QED  BY <2>1, <2>2, ConnectedSet
<1>4. AwakeInv' /\ LoneLink' /\ CommandOfItsSession'
  BY <1>1, <1>3 DEF SoloInv, AwakeInv, LoneLink, CommandOfItsSession
<1>5. Down' = Down
  BY <1>1 DEF Down
<1>6. QueueInv'
  BY <1>1, <1>5 DEF SoloInv, QueueInv
<1>. QED  BY <1>2, <1>4, <1>6 DEF SoloInv, SessionTimed, FlagTrue, NeverSilent

\* A command arrives from the peer that is connected.
LEMMA WriteKeepsSolo ==
    ASSUME Solo, Inv, SoloInv, NEW c \in Conns, NEW cmd \in PeerCommands,
           write_incoming_char(c, cmd)
    PROVE  SoloInv'
<1>1. svc \in ServiceState /\ cmd # "none"
  BY Types, ServiceAssumption DEF Inv, Commands
<1>2. /\ UNCHANGED <<set, timer, worker, link, lost, cfg, clock, dfu_mode, provisioned, faults>>
      /\ svc' = [svc EXCEPT !.write = cmd] /\ Submit("parse") /\ link[c].state = "up"
  BY DEF write_incoming_char
<1>3. /\ svc'.current_conn = svc.current_conn /\ svc'.write = cmd
      /\ svc'.active_local_id = svc.active_local_id
      /\ svc'.bool_UserAuthorization = svc.bool_UserAuthorization
  BY <1>1, <1>2 DEF ServiceState
<1>4. svc.current_conn = c /\ c # NoConn /\ ~Down /\ ~Down'
  BY <1>2, <1>3, Alone DEF Down
<1>5. queue' = <<"parse">>
  <2>1. CASE svc.write = "none"
    <3>1. queue = <<>>
      BY <1>4, <2>1 DEF SoloInv, QueueInv
    <3>. QED  BY <1>2, <3>1 DEF Submit
  <2>2. CASE svc.write # "none"
    <3>1. queue = <<"parse">>
      BY <1>4, <2>2 DEF SoloInv, QueueInv
    <3>. QED  BY <1>2, <3>1 DEF Submit
  <2>. QED  BY <2>1, <2>2
<1>6. QueueInv' /\ CommandOfItsSession'
  BY <1>1, <1>3, <1>4, <1>5 DEF QueueInv, CommandOfItsSession
<1>7. AwakeInv' /\ LoneLink' /\ SessionTimed' /\ FlagTrue' /\ (TwoConns => NeverSilent')
  BY <1>2, <1>3
     DEF SoloInv, AwakeInv, LoneLink, SessionTimed, FlagTrue, NeverSilent, TwoConns
<1>. QED  BY <1>6, <1>7 DEF SoloInv, TwoConns

\* A queue of one item, and one more: the first stays in its place.
LEMMA AppendFirst ==
    ASSUME NEW S, NEW s \in Seq(S), NEW b \in S, Len(s) = 1
    PROVE  Append(s, b)[1] = s[1]
OBVIOUS

\* ... and the other comes behind it.
LEMMA AppendSecond ==
    ASSUME NEW S, NEW s \in Seq(S), NEW t \in Seq(S), NEW b \in S,
           Len(s) = 1, Len(t) = 2, t[1] = s[1], t[2] = b
    PROVE  Append(s, b) = t
<1>. DEFINE u == Append(s, b)
<1>0. u[1] = s[1]
  BY AppendFirst, Zenon
<1>1. u \in Seq(S) /\ Len(u) = Len(s) + 1 /\ u[Len(s) + 1] = b
  BY AppendProperties, Zenon
<1>2. Len(s) + 1 = 2
  OBVIOUS
<1>3. Len(u) = 2 /\ u[2] = b
  BY <1>1, <1>2, Zenon
<1>. HIDE DEF u
<1>4. \A i \in 1..Len(u) : u[i] = t[i]
  BY <1>0, <1>3
<1>5. u = t
  BY <1>1, <1>3, <1>4, SeqEqual
<1>. QED  BY <1>5 DEF u

\* The queue of both.
LEMMA AppendOne ==
    ASSUME NEW a, NEW b
    PROVE  Append(<<a>>, b) = <<a, b>>
<1>1. /\ <<a>> \in Seq({a, b}) /\ Len(<<a>>) = 1 /\ <<a>>[1] = a /\ b \in {a, b}
      /\ <<a, b>> \in Seq({a, b}) /\ Len(<<a, b>>) = 2
      /\ <<a, b>>[1] = a /\ <<a, b>>[2] = b
  OBVIOUS
<1>2. <<a, b>>[1] = <<a>>[1]
  BY <1>1
<1>. QED  BY <1>1, <1>2, AppendSecond

\* A link goes down: its callback is queued behind the command, if there is one.
LEMMA DownKeepsSolo ==
    ASSUME Solo, Inv, SoloInv, NEW c \in Conns, link[c].state = "up",
           link' = [link EXCEPT ![c].state = "down"], Submit(c),
           UNCHANGED <<set, svc, timer, lost, clock, provisioned, faults>>
    PROVE  SoloInv'
<1>1. link \in [Conns -> LinkState] /\ c # "parse"
  BY Types, ServiceAssumption DEF Inv
<1>2. /\ link'[c].state = "down" /\ link'[c].id = link[c].id
      /\ \A e \in Conns : e # c => link'[e] = link[e]
  BY <1>1 DEF LinkState
<1>3. svc.current_conn = c /\ c # NoConn /\ ~Down /\ Down'
  BY <1>2, Alone DEF Down
<1>4. queue' = IF svc.write # "none" THEN <<"parse", c>> ELSE <<c>>
  <2>1. CASE svc.write = "none"
    <3>1. queue = <<>>
      BY <1>3, <2>1 DEF SoloInv, QueueInv
    <3>. QED  BY <2>1, <3>1 DEF Submit
  <2>2. CASE svc.write # "none"
    <3>1. queue = <<"parse">>
      BY <1>3, <2>2 DEF SoloInv, QueueInv
    <3>2. Append(queue, c) = <<"parse", c>>
      BY <3>1, AppendOne, Zenon
    <3>3. ~\E k \in DOMAIN queue : queue[k] = c
      BY <1>1, <3>1
    <3>. QED  BY <2>2, <3>2, <3>3 DEF Submit
  <2>. QED  BY <2>1, <2>2
<1>5. QueueInv' /\ CommandOfItsSession'
  BY <1>3, <1>4 DEF QueueInv, CommandOfItsSession
<1>6. LoneLink'
  <2>1. \A e \in Conns : link'[e].state # "free" => link[e].state # "free" /\ link'[e].id = link[e].id
    BY <1>2
  <2>. QED  BY <2>1 DEF SoloInv, LoneLink
<1>7. SessionTimed'
  BY <1>2, <1>3, Alone DEF SessionTimed
<1>8. AwakeInv' /\ FlagTrue' /\ NeverSilent'
  BY <1>2 DEF SoloInv, AwakeInv, FlagTrue, NeverSilent
<1>. QED  BY <1>5, <1>6, <1>7, <1>8 DEF SoloInv

\* The worker drops the link.
LEMMA DropKeepsSolo ==
    ASSUME Solo, Inv, SoloInv, DropLink
    PROVE  SoloInv'
<1>. DEFINE t == worker.target
<1>1. t \in Conns /\ t = svc.current_conn
  BY Alone DEF DropLink
<1>2. UNCHANGED <<set, svc, timer, lost, cfg, clock, dfu_mode, provisioned>>
  BY DEF DropLink
<1>3. CASE link[t].state = "up" /\ UNCHANGED faults
           /\ link' = [link EXCEPT ![t].state = "down"] /\ Submit(t)
  <2>1. PICK c \in Conns : c = t
    BY <1>1
  <2>2. link' = [link EXCEPT ![c].state = "down"] /\ Submit(c) /\ link[c].state = "up"
    BY <1>3, <2>1 DEF Submit
  <2>. QED  BY <1>2, <1>3, <2>2, DownKeepsSolo
<1>4. CASE link[t].state # "up" /\ UNCHANGED <<link, queue, faults>>
  <2>1. SessionTimed'
    BY <1>1, <1>4, Alone DEF SessionTimed
  <2>. QED  BY <1>2, <1>4, <2>1, StillKeepsSolo
<1>5. CASE faults' = faults + 1 /\ UNCHANGED <<link, queue>>
  <2>1. faults' # 0
    BY <1>5, Types, ServiceAssumption DEF Inv
  <2>2. Down' = Down
    BY <1>2, <1>5 DEF Down
  <2>3. QueueInv'
    BY <1>2, <1>5, <2>2 DEF SoloInv, QueueInv
  <2>4. AwakeInv' /\ LoneLink' /\ CommandOfItsSession'
    BY <1>2, <1>5 DEF SoloInv, AwakeInv, LoneLink, CommandOfItsSession
  <2>. QED  BY <2>1, <2>3, <2>4 DEF SoloInv, SessionTimed, FlagTrue, NeverSilent
<1>. QED  BY <1>3, <1>4, <1>5 DEF DropLink

\* Timeouts: whoever is connected is dropped.
LEMMA TimeoutKeepsSolo ==
    ASSUME Solo, Inv, SoloInv, \/ authorisation_timout_work_handler
                               \/ connection_timout_work_handler \/ ReplySent
    PROVE  SoloInv'
<1>1. UNCHANGED <<set, svc, link, lost, queue, provisioned, faults, clock>>
  BY DEF authorisation_timout_work_handler, connection_timout_work_handler, ReplySent
<1>2. PICK after \in {"idle", "restarting"} : InitiateDisconnect(after) /\ worker.step # "dropping"
  BY DEF authorisation_timout_work_handler, connection_timout_work_handler, ReplySent,
         WorkqueueFree
<1>3. svc.current_conn # NoConn => worker'.step = "dropping"
  BY <1>2, InitiateEffect
<1>4. SessionTimed'
  <2>. SUFFICES ASSUME NEW c \in Conns, link'[c].state = "up" PROVE worker'.step # "idle"
    BY DEF SessionTimed
  <2>1. svc.current_conn # NoConn
    BY <1>1, Alone
  <2>. QED  BY <1>3, <2>1
<1>. QED  BY <1>1, <1>4, StillKeepsSolo

\* The DFU mode is no matter of the session; the time of day does not change the window.
LEMMA ModeKeepsSolo ==
    ASSUME Solo, Inv, SoloInv, \/ dfu_mode_timeout_work_handle
                               \/ \E c \in Conns : app_dfu_bt_gatt_operation_allow(c)
    PROVE  SoloInv'
<1>1. UNCHANGED <<set, svc, link, lost, queue, provisioned, faults, clock, worker>>
  BY DEF dfu_mode_timeout_work_handle, app_dfu_bt_gatt_operation_allow
<1>2. timer'.authorisation = timer.authorisation /\ timer'.connection = timer.connection
  <2>1. timer \in TimerState
    BY Types DEF Inv
  <2>2. timer' = [timer EXCEPT !.dfu = FALSE] \/ timer' = [timer EXCEPT !.dfu = TRUE]
    BY DEF dfu_mode_timeout_work_handle, app_dfu_bt_gatt_operation_allow
  <2>. QED  BY <2>1, <2>2 DEF TimerState
<1>3. SessionTimed'
  BY <1>1, <1>2 DEF SoloInv, SessionTimed
<1>. QED  BY <1>1, <1>3, StillKeepsSolo

\* The supervisor and the Fast Pair identity have nothing to do.
LEMMA NeverHappens ==
    ASSUME Solo, Inv, SoloInv
    PROVE  /\ ~TimePasses /\ ~EnterWindow /\ ~LeaveWindow
           /\ \A c \in Conns : ~Provision(c)
<1>1. InsideWindow = {FALSE} /\ clock.inside \in BOOLEAN
  BY Types DEF Solo, InsideWindow, Inv, ClockState
<1>2. clock.inside = FALSE
  BY <1>1 DEF SoloInv, AwakeInv
<1>3. ~TimePasses
  BY <1>1, <1>2 DEF TimePasses
<1>4. ~EnterWindow /\ ~LeaveWindow
  BY DEF SoloInv, AwakeInv, EnterWindow, LeaveWindow
<1>5. ASSUME NEW c \in Conns, Provision(c) PROVE FALSE
  <2>1. link[c].state = "up" /\ link[c].id = "other"
    BY <1>5 DEF Provision
  <2>. QED  BY <2>1 DEF SoloInv, LoneLink
<1>. QED  BY <1>3, <1>4, <1>5

\* The disconnected callback ends the session and launches the set again.
LEMMA DisconnectedKeepsSolo ==
    ASSUME Solo, Inv, SoloInv, NEW c \in Conns, Disconnected(c)
    PROVE  SoloInv'
<1>1. /\ set \in SetType /\ svc \in ServiceState /\ link \in [Conns -> LinkState]
      /\ c # "parse" /\ svc.bool_AdvtIntervalUpdated \in BOOLEAN
  BY Types, ServiceAssumption DEF Inv, ServiceState
<1>2. /\ queue # <<>> /\ Head(queue) = c /\ queue' = Tail(queue)
      /\ UNCHANGED <<worker, lost, cfg, clock, dfu_mode, provisioned>>
      /\ link' = [link EXCEPT ![c] = [state |-> "free", id |-> "other"]]
  BY DEF Disconnected
<1>3. Down /\ svc.write = "none" /\ queue = <<svc.current_conn>>
  <2>1. svc.write # "none" => Head(queue) = "parse"
    BY DEF SoloInv, QueueInv
  <2>2. svc.write = "none"
    BY <1>1, <1>2, <2>1
  <2>. QED  BY <1>2, <2>2 DEF SoloInv, QueueInv
<1>4. svc.current_conn = c /\ queue' = <<>> /\ link[c].state = "down"
  BY <1>2, <1>3 DEF Down
<1>5. svc.active_local_id = "vision" /\ ~set.on_air /\ lost = {}
  BY <1>4 DEF SoloInv, LoneLink
<1>6. EndVisionSession
  BY <1>5 DEF Disconnected
<1>7. \A e \in Conns : link'[e].state = "free"
  <2>1. link'[c] = [state |-> "free", id |-> "other"] /\ \A e \in Conns : e # c => link'[e] = link[e]
    BY <1>1, <1>2
  <2>2. \A e \in Conns : e # c => link[e].state = "free"
    BY <1>4, Alone
  <2>. QED  BY <2>1, <2>2
<1>8. svc'.current_conn = NoConn /\ svc'.write = "none"
  <2>1. svc' = [svc EXCEPT !.active_local_id = "none", !.bool_AdvtIntervalUpdated = FALSE,
                           !.bool_UserAuthorization = FALSE, !.current_conn = NoConn]
    BY <1>2, <1>4, <1>6 DEF EndVisionSession
  <2>. QED  BY <1>1, <1>3, <2>1 DEF ServiceState
<1>9. /\ set' \in SetType
      /\ faults' = 0 =>
           /\ faults = 0
           /\ Room /\ ~set.on_air /\ ~set.is_advertising => set'.on_air /\ set'.is_advertising
           /\ (set.on_air = set.is_advertising) => (set'.on_air = set'.is_advertising)
  <2>1. Fresh(set)
    BY <1>5 DEF Fresh
  <2>2. TakeOutcome(RelaunchOutcomes(svc.bool_AdvtIntervalUpdated))
    BY <1>6 DEF EndVisionSession
  <2>3. PICK update \in BOOLEAN : update = svc.bool_AdvtIntervalUpdated
    BY <1>1
  <2>4. TakeOutcome(RelaunchOutcomes(update))
    BY <2>2, <2>3 DEF TakeOutcome, RelaunchOutcomes
  <2>. QED  BY <2>1, <2>4, RelaunchEffect
<1>10. faults' = 0 => set.on_air = FALSE /\ set.is_advertising = FALSE
  <2>1. set.on_air \in BOOLEAN /\ set.is_advertising \in BOOLEAN
    BY <1>1 DEF SetType
  <2>. QED  BY <1>5, <1>9, <2>1 DEF SoloInv, FlagTrue
<1>11. AwakeInv' /\ LoneLink'
  BY <1>2, <1>5, <1>7 DEF SoloInv, AwakeInv, LoneLink
<1>12. QueueInv' /\ CommandOfItsSession' /\ SessionTimed'
  BY <1>4, <1>7, <1>8 DEF QueueInv, Down, CommandOfItsSession, SessionTimed
<1>13. FlagTrue'
  BY <1>9, <1>10 DEF FlagTrue
<1>14. TwoConns => NeverSilent'
  <2>. SUFFICES ASSUME TwoConns, faults' = 0 PROVE set'.on_air
    BY DEF NeverSilent
  <2>1. PICK e \in Conns : e # c
    BY DEF TwoConns
  <2>2. link[e].state = "free"
    BY <1>4, <2>1, Alone
  <2>3. Room
    BY <1>5, <2>1, <2>2 DEF Room, Usable
  <2>. QED  BY <1>9, <1>10, <2>3
<1>. QED  BY <1>11, <1>12, <1>13, <1>14 DEF SoloInv, TwoConns

\* The first state.
LEMMA InitSolo == Init => SoloInv
<1>. SUFFICES ASSUME Init PROVE SoloInv
  OBVIOUS
<1>1. /\ provisioned \in BOOLEAN /\ svc = ServiceBoot
      /\ queue = <<>> /\ lost = {}
      /\ clock = [bool_IsTimeSynchronized |-> FALSE, retained |-> FALSE,
                  inside |-> FALSE, Advtflag |-> FALSE]
  BY DEF Init
<1>2. set.on_air = provisioned /\ set.is_advertising = provisioned
  <2>1. set = [ble_adv_custom_init EXCEPT !.on_air = provisioned, !.is_advertising = provisioned]
    BY DEF Init
  <2>. QED  BY <1>1, <2>1, TicksAllowed, SetBoth
<1>3. \A c \in Conns : link[c].state = "free"
  BY DEF Init
<1>4. svc.current_conn = NoConn /\ svc.write = "none"
  BY <1>1 DEF ServiceBoot
<1>5. AwakeInv /\ LoneLink /\ QueueInv /\ CommandOfItsSession /\ SessionTimed
  BY <1>1, <1>3, <1>4
     DEF AwakeInv, LoneLink, QueueInv, Down, CommandOfItsSession, SessionTimed
<1>6. FlagTrue /\ NeverSilent
  BY <1>2 DEF FlagTrue, NeverSilent
<1>. QED  BY <1>5, <1>6 DEF SoloInv

\* Every step of peers that use the Vision identity alone keeps SoloInv.
LEMMA NextKeepsSolo ==
    ASSUME Solo
    PROVE  Inv /\ SoloInv /\ [Next]_vars => SoloInv'
<1>. SUFFICES ASSUME Inv, SoloInv, [Next]_vars PROVE SoloInv'
  OBVIOUS
<1>1. CASE UNCHANGED vars
  <2>1. SessionTimed'
    BY <1>1 DEF vars, SoloInv, SessionTimed
  <2>. QED  BY <1>1, <2>1, StillKeepsSolo DEF vars
<1>2. ASSUME NEW c \in Conns, LinkDown(c) PROVE SoloInv'
  BY <1>2, DownKeepsSolo DEF LinkDown
<1>3. CASE ReceiveThread
  BY <1>2, <1>3, ConnectedKeepsSolo, ConnectFailsKeepsSolo, WriteKeepsSolo, ModeKeepsSolo, NeverHappens
     DEF ReceiveThread
<1>4. CASE Resets
  BY <1>4, ResetBoots, BootKeepsSolo
<1>5. CASE Workqueue
  BY <1>4, <1>5, CommandKeepsSolo, TimeoutKeepsSolo, DropKeepsSolo, ModeKeepsSolo,
     DisconnectedKeepsSolo, NeverHappens DEF Workqueue, Resets
<1>6. CASE TimePasses
  BY <1>6, NeverHappens
<1>. QED  BY <1>1, <1>3, <1>4, <1>5, <1>6 DEF Next, Resets

\* SoloInv holds in every reachable state.
LEMMA SoloInvariance ==
    ASSUME Solo
    PROVE  Spec => []SoloInv
<1>1. Init => SoloInv
  BY InitSolo
<1>2. Inv /\ SoloInv /\ [Next]_vars => SoloInv'
  BY NextKeepsSolo
<1>. QED  BY <1>1, <1>2, Invariance, PTL DEF Spec

\* Peers that use the Vision identity alone are always under a timeout, or about to be
\* dropped: however connections, commands, the sleeps of the worker and the timeouts
\* interleave, and for any number of connection objects.
THEOREM SessionAlwaysTimed ==
    ASSUME Solo
    PROVE  Spec => []SessionTimed
BY SoloInvariance, PTL DEF SoloInv

\* Their commands never outlive the session they were written in.
THEOREM CommandStaysInSession ==
    ASSUME Solo
    PROVE  Spec => []CommandOfItsSession
BY SoloInvariance, PTL DEF SoloInv

\* With a second connection object (CONFIG_BT_MAX_CONN is more than 1) the frame of a
\* provisioned tag is on the air whenever nobody is connected and no call has failed.
THEOREM FrameNeverSilent ==
    ASSUME Solo, \E c, d \in Conns : c # d
    PROVE  Spec => []NeverSilent
<1>1. SoloInv => NeverSilent
  BY DEF SoloInv
<1>. QED  BY <1>1, SoloInvariance, PTL

=============================================================================
