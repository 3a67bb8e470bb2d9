------------------------------- MODULE Battery -------------------------------
(***************************************************************************)
(* The battery: vision_battery.c, the payload updates of vision_advt.c and  *)
(* the part of the NVS record that holds the remaining capacity.            *)
(*                                                                         *)
(* Two estimates are combined.  Below 3.4 V a table gives the percentage;   *)
(* above, it is the capacity that is left after a fixed consumption per     *)
(* hour has been subtracted, which is kept in RAM and stored whenever its   *)
(* percentage changes.  The percentage goes to the FMDN stack and, with the *)
(* voltage, into the Vision frame.  All handlers are items of the system    *)
(* workqueue and run one after the other; init_work_handle, which boots the *)
(* tag, is one of them.                                                    *)
(***************************************************************************)
EXTENDS Integers, Sequences, FiniteSetsExt

CONSTANTS
    FullCapacity,  \* FULL_BAT_CAPACITY_uAH
    Consumption,   \* AVG_DEEPSLEEP_CRNT_uAH, what an hour takes
    Capacities,    \* stored capacities a tag may start with
    Voltages,      \* what the ADC may measure, in mV
    MaxHours,      \* bound on runs of the hourly work
    MaxFaults      \* bound on failing calls

\* The range of the voltage in mV that updateAdvBatmV takes, uint16_t.
Uint16 == {n \in Nat : n <= 65535}

ASSUME BatteryAssumption ==
    /\ FullCapacity \in Nat \ {0}
    /\ Consumption \in Nat \ {0}
    /\ Capacities \subseteq 0..FullCapacity
    /\ Voltages \subseteq Uint16
    /\ {MaxHours, MaxFaults} \subseteq Nat

\* 2160000 uAh and 14 uAh: a percentage is a whole number of uAh, and lasts for an
\* hour at least.
ASSUME CapacityAssumption ==
    /\ FullCapacity % 100 = 0
    /\ Consumption * 100 <= FullCapacity

VARIABLES
    phase,   \* "off"; "failed", "stuck": init_work_handle gave up between
             \* app_battery_init and the creation of the advertising set, or after it
    queue,   \* works that init made due, oldest first
    bat,     \* statics of vision_battery.c and gst_DynamicData.f32_RemainingBatCap
    frame,   \* battery fields of active_svc_data and what the controller sends
    fmdn,    \* the level the FMDN stack has
    nvs,     \* the stored capacity
    hist     \* history: initial capacity, hours counted, last voltage, faults, and
             \* whether the record was ever taken for missing

vars == <<phase, queue, bat, frame, fmdn, nvs, hist>>

\* battery_level is the static of battery_level_set, 0xFF before the first call.
BatteryState == [
    f32_RemainingBatCap         : 0..FullCapacity,
    gu8_ActBasedBattPercent     : 0..100,
    gu8_LastActBasedBattPercent : 0..100,
    battery_charge              : 0..100,
    battery_level               : 0..100 \union {255},
    level_set_work              : BOOLEAN ]

\* BatPercentage and Bitfield3 of the payload.
Payload == [level : 0..100, field : {4 * k : k \in 0..15}]

Cleared == [level |-> 0, field |-> 0]

Works == {"activity", "poll"}

TypeOK ==
    /\ phase \in {"off", "failed", "stuck", "run"}
    /\ queue \in Seq(Works)
    /\ bat \in BatteryState
    /\ frame \in [ram : Payload, sent : Payload]
    /\ fmdn \in 0..100 \union {255}
    /\ nvs \in 0..FullCapacity
    /\ hist \in [start : 0..FullCapacity, hours : 0..MaxHours, mV : Uint16,
                 polled : BOOLEAN, misread : BOOLEAN, faults : 0..MaxFaults]

-----------------------------------------------------------------------------
(***************************************************************************)
(* The estimates.                                                          *)
(***************************************************************************)

\* gu16_voltTable is 2900, 2935 .. 3390 and gu8_pergTable 5, 10 .. 75.
VoltTable == [i \in 1..15 |-> 2865 + 35 * i]
PergTable == [i \in 1..15 |-> 5 * i]

\* The scan from the highest entry down.
gu8_Volt2PercentTable(mV) ==
    LET reached == {i \in 1..15 : mV >= VoltTable[i]}
    IN IF reached = {} THEN 0 ELSE PergTable[Max(reached)]

voltage_to_percent_convert(mV, act) ==
    IF mV < 3400 THEN gu8_Volt2PercentTable(mV) ELSE act

\* The capacities are whole numbers of uAh, which a float holds exactly.
ActPercent(cap) == (cap * 100) \div FullCapacity

\* The field of updateAdvBatmV: (((mV / 100) - 18) << 2) & 0x3C, four bits.
VoltageField(mV) == (((mV \div 100) - 18) % 16) * 4

-----------------------------------------------------------------------------
(***************************************************************************)
(* The payload.  Each operation gives its outcomes: the frame, and how many *)
(* calls failed.                                                           *)
(***************************************************************************)

\* Mutant: the controller is not told.
Bug_ram_only(f, new, exists) == {<<[f EXCEPT !.ram = new], 0>>}

\* updateAdvBatLevel and updateAdvBatmV: nothing is sent if the RAM copy is the
\* same already, nor before the set exists; a failing call is not repeated.
UpdatePayload(f, new, exists) ==
    IF f.ram = new THEN {<<f, 0>>}
    ELSE IF ~exists THEN {<<[f EXCEPT !.ram = new], 0>>}
    ELSE {<<[ram |-> new, sent |-> new], 0>>, <<[f EXCEPT !.ram = new], 1>>}

\* battery_measure: the voltage first, then the level.
MeasuredFrames(f, mV, charge, exists) ==
    UNION { { <<l[1], v[2] + l[2]>> :
                l \in UpdatePayload(v[1], [v[1].ram EXCEPT !.level = charge], exists) } :
            v \in UpdatePayload(f, [f.ram EXCEPT !.field = VoltageField(mV)], exists) }

-----------------------------------------------------------------------------
(***************************************************************************)
(* Boot.                                                                   *)
(***************************************************************************)

\* Mutant: the poll is launched first.
Bug_poll_first == <<"poll", "activity">>

\* The works app_battery_init launches without a delay.
Launched == <<"activity", "poll">>

\* Mutant: the percentage compared to is initialised to "unknown".
Bug_last_unknown == [
    f32_RemainingBatCap |-> 0, gu8_ActBasedBattPercent |-> 0,
    gu8_LastActBasedBattPercent |-> 100, battery_charge |-> 0,
    battery_level |-> 255, level_set_work |-> FALSE ]

\* RAM after a reset.
BatteryBoot == [
    f32_RemainingBatCap |-> 0, gu8_ActBasedBattPercent |-> 0,
    gu8_LastActBasedBattPercent |-> 0, battery_charge |-> 0,
    battery_level |-> 255, level_set_work |-> FALSE ]

\* What becomes of the dynamic record, and at how many failing calls: the boot
\* gives up before it; it is read; it is not, and the defaults are stored in its
\* place; nor can they be stored, and the boot gives up on them.  A new tag,
\* which has no record, is one that starts with the default capacity.
LoadOutcomes == {
    [cap |-> 0, nvs |-> nvs, loaded |-> FALSE, misread |-> FALSE, failed |-> 1],
    [cap |-> nvs, nvs |-> nvs, loaded |-> TRUE, misread |-> FALSE, failed |-> 0],
    [cap |-> FullCapacity, nvs |-> FullCapacity, loaded |-> TRUE, misread |-> TRUE,
     failed |-> 1],
    [cap |-> FullCapacity, nvs |-> nvs, loaded |-> FALSE, misread |-> TRUE, failed |-> 2] }

\* Where init_work_handle ends, and with which payload in RAM: ble_adv_custom_init
\* clears it and then creates the set.
Ends(done, loaded, measured) ==
    IF done THEN {<<"run", Cleared>>}
    ELSE {<<"failed", measured>>}
         \union (IF loaded THEN {"failed", "stuck"} \X {Cleared} ELSE {})

\* app_battery_init measures and sets the level before the stored data are
\* loaded and before the advertising set exists.  `done`: everything after
\* app_battery_init succeeds.
Boot(mV, done) ==
    LET charge == voltage_to_percent_convert(mV, BatteryBoot.gu8_ActBasedBattPercent)
        measured == [level |-> charge, field |-> VoltageField(mV)]
    IN /\ phase = "off"
       /\ queue' = Launched
       /\ fmdn' = charge
       /\ \E l \in LoadOutcomes : \E e \in Ends(done, l.loaded, measured) :
              LET faults == hist.faults + l.failed + (IF l.loaded /\ ~done THEN 1 ELSE 0)
              IN /\ done => l.loaded
                 /\ faults <= MaxFaults
                 /\ phase' = e[1]
                 /\ frame' = [ram |-> e[2], sent |-> Cleared]
                 /\ bat' = [BatteryBoot EXCEPT
                               !.battery_charge = charge, !.battery_level = charge,
                               !.f32_RemainingBatCap = l.cap]
                 /\ nvs' = l.nvs
                 /\ hist' = [hist EXCEPT !.mV = mV, !.polled = FALSE, !.faults = faults,
                                         !.misread = @ \/ l.misread]

\* A measurement or the level fails: the boot stops before any work exists.
BootFails ==
    /\ phase = "off"
    /\ hist.faults < MaxFaults
    /\ hist' = [hist EXCEPT !.faults = @ + 1]
    /\ UNCHANGED <<phase, queue, bat, frame, fmdn, nvs>>

\* A reset, a loss of power, or the panic of main after a boot that gave up.
Reset ==
    /\ phase # "off"
    /\ phase' = "off"
    /\ queue' = <<>>
    /\ bat' = BatteryBoot
    /\ frame' = [ram |-> Cleared, sent |-> Cleared]
    /\ fmdn' = 255
    /\ hist' = [hist EXCEPT !.polled = FALSE]
    /\ UNCHANGED nvs

-----------------------------------------------------------------------------
(***************************************************************************)
(* Work handlers.                                                          *)
(***************************************************************************)

\* The workqueue takes what init made due in order; later the works are delayed
\* and come in any order.
Run(work) ==
    /\ phase # "off"
    /\ queue # <<>> => Head(queue) = work
    /\ queue' = IF queue = <<>> THEN queue ELSE Tail(queue)
    /\ UNCHANGED phase

\* The capacity an hour later.
Discharged(cap) == IF cap < Consumption THEN 0 ELSE cap - Consumption

\* activity_battery_percentage_work_handler.  A failing write is not repeated
\* before the percentage changes again.
activity_battery_percentage_work_handler ==
    LET cap == Discharged(bat.f32_RemainingBatCap)
        percent == ActPercent(cap)
        changed == percent # bat.gu8_LastActBasedBattPercent
    IN /\ Run("activity")
       /\ hist.hours < MaxHours
       /\ bat' = [bat EXCEPT
                     !.f32_RemainingBatCap = cap,
                     !.gu8_ActBasedBattPercent = percent,
                     !.gu8_LastActBasedBattPercent = percent]
       /\ \E fault \in {0, 1} :
              /\ fault = 1 => changed /\ hist.faults < MaxFaults
              /\ nvs' = IF changed /\ fault = 0 THEN cap ELSE nvs
              /\ hist' = [hist EXCEPT !.hours = @ + 1, !.faults = @ + fault]
       /\ UNCHANGED <<frame, fmdn>>

\* battery_periodic_poll_handler with a measurement.
battery_periodic_poll_handler(mV) ==
    LET charge == voltage_to_percent_convert(mV, bat.gu8_ActBasedBattPercent)
    IN /\ Run("poll")
       /\ bat' = [bat EXCEPT !.battery_charge = charge, !.level_set_work = TRUE]
       /\ \E o \in MeasuredFrames(frame, mV, charge, phase \in {"stuck", "run"}) :
              /\ hist.faults + o[2] <= MaxFaults
              /\ frame' = o[1]
              /\ hist' = [hist EXCEPT !.mV = mV, !.polled = TRUE, !.faults = @ + o[2]]
       /\ UNCHANGED <<fmdn, nvs>>

\* The same when the ADC fails: the level is set from the old measurement.
PollFails ==
    /\ Run("poll")
    /\ hist.faults < MaxFaults
    /\ bat' = [bat EXCEPT !.level_set_work = TRUE]
    /\ hist' = [hist EXCEPT !.faults = @ + 1]
    /\ UNCHANGED <<frame, fmdn, nvs>>

\* Mutant: the level is remembered before the stack has accepted it.
Bug_remember_first ==
    /\ bat.level_set_work
    /\ queue = <<>>
    /\ bat' = [bat EXCEPT !.level_set_work = FALSE, !.battery_level = bat.battery_charge]
    /\ IF bat.battery_level = bat.battery_charge THEN UNCHANGED <<fmdn, hist>>
       ELSE \/ fmdn' = bat.battery_charge /\ UNCHANGED hist
            \/ /\ hist.faults < MaxFaults
               /\ hist' = [hist EXCEPT !.faults = @ + 1]
               /\ UNCHANGED fmdn
    /\ UNCHANGED <<phase, queue, frame, nvs>>

\* battery_level_set(false).
battery_level_set ==
    /\ bat.level_set_work
    /\ queue = <<>>
    /\ \/ /\ bat.battery_level = bat.battery_charge
          /\ bat' = [bat EXCEPT !.level_set_work = FALSE]
          /\ UNCHANGED <<fmdn, hist>>
       \/ /\ bat.battery_level # bat.battery_charge
          /\ bat' = [bat EXCEPT !.level_set_work = FALSE,
                                !.battery_level = bat.battery_charge]
          /\ fmdn' = bat.battery_charge
          /\ UNCHANGED hist
       \/ /\ bat.battery_level # bat.battery_charge
          /\ hist.faults < MaxFaults
          /\ hist' = [hist EXCEPT !.faults = @ + 1]
          /\ bat' = [bat EXCEPT !.level_set_work = FALSE]
          /\ UNCHANGED fmdn
    /\ UNCHANGED <<phase, queue, frame, nvs>>

-----------------------------------------------------------------------------
Init ==
    /\ phase = "off"
    /\ queue = <<>>
    /\ bat = BatteryBoot
    /\ frame = [ram |-> Cleared, sent |-> Cleared]
    /\ fmdn = 255
    /\ nvs \in Capacities
    /\ hist = [start |-> nvs, hours |-> 0, mV |-> 0, polled |-> FALSE, misread |-> FALSE,
               faults |-> 0]

Next ==
    \/ \E mV \in Voltages : \/ Boot(mV, TRUE)
                            \/ Boot(mV, FALSE)
                            \/ battery_periodic_poll_handler(mV)
    \/ BootFails
    \/ Reset
    \/ activity_battery_percentage_work_handler
    \/ PollFails
    \/ battery_level_set

Spec == Init /\ [][Next]_vars

\* The workqueue runs what is due.  Boots and resets need not happen.
FairSpec ==
    /\ Spec
    /\ WF_vars(activity_battery_percentage_work_handler)
    /\ WF_vars(\E mV \in Voltages : battery_periodic_poll_handler(mV))
    /\ WF_vars(battery_level_set)

-----------------------------------------------------------------------------
(***************************************************************************)
(* What holds.                                                             *)
(***************************************************************************)

OnePercent == FullCapacity \div 100

\* The record is written only when the percentage changes, and a reset continues
\* from it.  What a reset gives back to the cell is less than one percent and an
\* hour, and one percent more for each write that failed.
StoredCapacityClose ==
    phase = "run" =>
        /\ bat.f32_RemainingBatCap <= nvs
        /\ nvs - bat.f32_RemainingBatCap
               < (hist.faults + 1) * OnePercent + Consumption

\* The stored capacity falls by no more than the hours take, over any number of
\* resets, and rises only when the record was taken for missing.  The hourly work
\* also runs, and stores, after a boot that gave up: on the capacity of the
\* record, on the default one, or, if it gave up before, on a copy of 0, whose
\* percentage is the 0 it is compared to, so that it is not stored.
StoredCapacityHonest ==
    /\ hist.start - nvs <= hist.hours * Consumption
    /\ ~hist.misread => nvs <= hist.start

\* Once the first poll is through, a cell at 3.4 V or more is never announced with
\* less than its capacity says.  At boot gu8_ActBasedBattPercent is 0, and only
\* the order in which app_battery_init launches the works repairs it in time.
HealthyCellAnnounced ==
    hist.polled /\ hist.mV >= 3400 => bat.battery_charge >= ActPercent(bat.f32_RemainingBatCap)

\* Unless a call failed, the frame on the air carries the last measurement:
\* although the measurement of the boot is wiped by ble_adv_custom_init, the
\* comparison with the RAM copy never suppresses a change that was not sent.  The
\* voltage can be read back from its field where four bits suffice.
FrameCurrent ==
    phase = "run" /\ hist.polled /\ hist.faults = 0 =>
        /\ frame.sent.level = bat.battery_charge
        /\ 1800 <= hist.mV /\ hist.mV < 3400 => 18 + frame.sent.field \div 4 = hist.mV \div 100

\* battery_level, which suppresses setting the same level again, is the level the
\* FMDN stack has: a level it refused is not suppressed at the next poll.
FmdnLevelKept == phase # "off" => fmdn = bat.battery_level

\* Together: the copies of capacity and level in RAM, in flash and in the stack.
BatteryConsistent ==
    /\ TypeOK
    /\ StoredCapacityClose
    /\ StoredCapacityHonest
    /\ FmdnLevelKept

\* The level reaches the FMDN stack although calls may fail; a reset starts over.
FmdnCatchesUp ==
    (phase = "run" /\ fmdn # bat.battery_charge) ~>
        (fmdn = bat.battery_charge \/ phase # "run")

=============================================================================
