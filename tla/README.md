# Verification of the SmartTrack BLE locator tag

TLA+ models of the nRF52832 locator-tag firmware, TLC configurations that check
them on small instances, and TLAPS proofs for any size. Source paths below are
relative to the repository root (`src/main.c` is the application, `README.rst`
its documentation).

1. [The system](#1-the-system)
2. [Modules and how they correspond to the code](#2-modules-and-how-they-correspond-to-the-code)
3. [Runs](#3-runs)
4. [Bounds, symmetry and fairness](#4-bounds-symmetry-and-fairness)
5. [Proofs](#5-proofs)
6. [Findings](#6-findings)
7. [What is not modelled, and abstractions](#7-what-is-not-modelled-and-abstractions)
8. [Plan](#8-plan)

## 1. The system

The tag is a Google Fast Pair / Find My Device Network (FMDN) accessory with a
second, proprietary "Vision" identity: its own connectable advertising set and a
GATT command service. The configuration analysed is the release build of the SBT
board: assertions off, reset on fatal error, three connection objects, three
identities, no motion sensor.

Threads:

| thread | runs |
|---|---|
| system workqueue (priority -1, cooperative) | `init_work_handle`, button handler, all delayable works, the command worker, the supervisor, **the `disconnected` callbacks** |
| Bluetooth receive thread | `connected`, GATT reads and writes, Fast Pair and FMDN callbacks |
| UART interrupt | production commands |

Work items of the queue never overlap, but a work item that sleeps or makes a
blocking call (boot, factory reset, dropping a link) lets the receive thread in.
There is no lock between the two threads.

### Inventory

| component | state it keeps | operations | interacts with | correct when |
|---|---|---|---|---|
| Fast Pair advertising, `fp_adv.c` | trigger bitmap, mode, set, connection, address rotation and its suspension, copies of key and provisioning | request, enable/disable, restart work, suspension work, connection and Fast Pair callbacks | `main.c` (requests), stack | mode follows requests and key; what is on the air follows the mode; copies fresh; address stable while suspended; no long interval when discoverable |
| Application core, `main.c` | provisioning copies, enable flag, identification mode, manual request and its timeout, trigger of a scheduled reset, authentication bitmap | boot sequence, FMDN callbacks, button requests | all others | a key without provisioning is always under a reset; a timeout never erases an owner; identifying data closed to strangers |
| Factory reset, `factory_reset.c` | IDLE / PENDING / IN_PROGRESS, work item, user request | schedule, cancel, perform (nine calls, any may fail) | `main.c` callbacks, Fast Pair storage | survives power loss at any step; a reset that must happen is not called off |
| Vision advertising set, `vision_advt.c` | `is_advertising`, interval, frame payload | start, stop, interval and payload updates, connected callback | stack | the flag does not lie where it is relied on |
| Vision command service, `vision_custom_services.c` | current connection, identity of the last link, authorisation, pending command, two timeouts, pending interval | connection callbacks, write, worker, drop, restart | advertising set, NVS, time manager, DFU | every session timed and ended; frame comes back; no freed connection used; interval not lost |
| Time manager, `vision_time_manager.c` | clock, retained copy, supervisor flag | synchronise, supervisor every 60 s, recovery after a reset | advertising set | minute of the day and window right; frame switched in time; clock survives resets |
| DFU mode, `dfu.c` | mode, timeout | enter, SMP access, timeout | command service | never on without its timeout |
| Ring, `ring.c` | source, components, timeout | start, stop, timeout, unprovisioning | FMDN stack, UI | what rings is what the stack believes; it is heard, and it ends |
| UI, `ui/` | button, buzzer work, speaker, LEDs | button scan, beeps, state changes | `main.c`, `factory_reset.c`, `ring.c` | silent when nothing rings; presses are noticed |
| Battery and payload, `vision_battery.c`, `vision_advt.c` | remaining capacity, last levels, frame bytes | boot measurement, poll, hourly work, level work | frame, FMDN stack, storage | stored capacity close and honest; what is announced is what was measured |
| Storage and boot data, `vision_bootup.c`, `vision_nvs_storage.c` | three NVS records and their RAM copies | mount, verify and load, defaults, writes | nearly all | a running tag has valid records; RAM and flash agree, also after a crash between two writes |
| Production UART, `vision_production.c` | double buffer, slot for a received chunk, mutex, UART power | interrupt, message work, lifetime | storage, watchdog | a chunk is processed at most once; the UART is switched off |
| Watchdog, `vision_watchdog.c` | feeding work | feed | workqueue | a blocked workqueue is reset |
| Motion sensor | not built | - | - | - |

### What is hard here

* *Order of callbacks.* A disconnection queues a restart; the next peer connects
  before it runs. A link through one identity begins during a session through
  another, and the Vision service remembers only the last one.
* *State before and after a sleep.* The command worker sleeps 60 ms, the drop of
  a link another 20 ms; boot and reset are sequences of blocking calls.
* *Power loss and failing calls.* Between any two steps; a failing call inside a
  factory reset panics and restarts the chip in the middle of it.
* *Timeouts that race what they guard.* Provisioning timeout and provisioning;
  manual advertising request; authorisation and inactivity; DFU.
* *Interrupt against thread.* The UART interrupt writes the buffer that the
  workqueue copies, and locks a mutex on behalf of whichever thread it found.
* *Sleeps on the shared workqueue.* The beeps that confirm a button action hold up
  the button scan, the buzzer and every timeout.
* *Arithmetic at the border.* Unsigned remainder of a negative local time, a window
  across midnight, the cut to 32 bits, four bits for a voltage, a 16-bit counter.
* *Copies.* Key and provisioning are kept in flash, in `main.c` and in
  `fp_adv.c`; the advertising state in the stack and in `is_advertising`.

`PROJECT.json` lists each hazard at its line, with the properties that cover it
or the reason why none does.

## 2. Modules and how they correspond to the code

| module | role |
|---|---|
| `FpAdv` | the functions of `fp_adv.c` as operators on a record of its statics |
| `LocatorTag` | state machine of `main.c` + `factory_reset.c` over `FpAdv`, with boot, links, callbacks, buttons, works, reset steps and power loss |
| `MCLocatorTag` | instances for TLC |
| `LocatorTagProofs` | type correctness |
| `LocatorTagSafety` | inductive invariant, the safety theorems, the refinement of `Ownership`, what is on the air |
| `VisionAdvt` | the functions of `vision_advt.c`; an operation yields a set of outcomes, since stack calls fail |
| `VisionService` | state machine of `vision_custom_services.c`, the supervisor, the DFU mode |
| `MCVisionService` | instances for TLC |
| `Ownership` | abstract: what the tag promises about its owner |
| `LocatorTagOwnership` | the refinement mapping from `LocatorTag` |
| `Ring`, `MCRing` | `ring.c` with the buzzer and the button of the board |
| `Battery` | `vision_battery.c` and the payload updates of `vision_advt.c` |
| `Storage` | `vision_bootup.c`, `vision_nvs_storage.c` and every place that writes a record |
| `Production` | `vision_production.c`: interrupt, hand-over, power |
| `TimeManager`, `MCTimeManager` | `vision_time_manager.c`: clock and window in seconds |
| `VisionServiceProofs`, `RingProofs`, `BatteryProofs`, `StorageProofs`, `ProductionProofs`, `TimeManagerProofs` | inductive invariant and theorems of each module |

Fields and operators have the names of the C identifiers where TLA+ allows it.
Operators named `Bug_*`, each directly before the definition it distorts, are
plausible mistakes; every checked property is violated when one of them takes
the place of the definition.

**`LocatorTag`.** `adv`, `app`, `fr` are the statics of the three files; `fp` is
the Fast Pair subsystem, of which `key`, `provisioned` and `wiping` are in flash;
`link` gives each connection object a state, where `down` is a lost link whose
`disconnected` callback still waits for the workqueue. A function that runs
without blocking is one action with every call it makes. `init_work_handle` and
`factory_reset_perform` are split at their blocking calls (`boot`, `fr.step`),
because the receive thread runs in between and the power may go. `WorkqueueFree`
guards everything that is a work item. An action's parameter `res` is how the
stack answers its advertising command; each answer but `ok` counts against
`MaxFaults`. `ChipReset` is common to `sys_reboot`, `k_panic` and power loss:
all statics return to their initial values and flash stays.
`fmdn_advt_mode_change_handle` reads `err` uninitialised when neither call is
made; the model then allows both outcomes, and `EnableFlagTracksStack` shows
that this is never reached.

**`VisionService`.** `set` holds both the flag `is_advertising` and the truth
`on_air`; `svc`, `timer`, `dfu_mode`, `clock` are statics and armed timers;
`worker` says where the workqueue thread sleeps while it drops a link; `queue`
is the first-in-first-out workqueue as far as order matters (command worker and
`disconnected` callbacks); `lost` are connection objects whose reference was
overwritten. `Identities` distinguishes links through the Vision set from links
through the Fast Pair or FMDN sets ("other"); the latter are what `LocatorTag`
describes in detail. A connection attempt may fail (`ConnectFails`): `vision_advt.c`
clears its flag all the same, `vision_custom_services.c` returns at once; `missed`
remembers it until the next boot. `Boot` combines a chip reset with the initialisation that
follows. The password, replies and formats are abstracted to the classes of
commands the worker tells apart.

**`Ownership`.** Two variables: `stage` (unowned, claimed, owned, erasing) and
`deadline` (no reset to come, one that completing the claim calls off, one that
nothing but a restart stops). Each of its seven actions has one effect on one
of them or both; an owned tag is erased only under a certain deadline, and
provisioning calls off a timeout and nothing else. `LocatorTagOwnership` reads
`stage` off the flash and `deadline` off `factory_reset.c` and the trigger in
`main.c`. All other state of `LocatorTag` (copies, modes, links, boot and reset
steps) is hidden.

**`Ring`.** `ring` are the statics of `ring.c`, `stack` what the FMDN stack has
accepted, `ui` the ringing state, the buzzer work and the speaker, `btn` the
button with the difference between its pin and what the scan has seen, `beep` the
position of the workqueue in `speaker_beep_play`, which sleeps. An update that the
stack refuses keeps everything but the source, which was replaced before.

**`Battery`.** `bat` are the statics and the RAM copy of the capacity, `frame` the
payload in RAM and as the controller sends it, `fmdn` the level the FMDN stack
has, `nvs` the stored capacity, `queue` the works that the boot launched, in
order. The float capacity is a whole number of uAh. A boot can fail before any
work exists, or after, in which case the works run until `main` panics:
`LoadOutcomes` says what is then in RAM and flash (nothing loaded, the record, the
defaults, or the defaults in RAM only because writing them failed), and `phase`
whether the advertising set exists.

**`Storage`.** The content of a record is a setting, the defaults, blank or
corrupt; the dynamic record carries the boot counter as well. `phase` is the
position of the boot, `pending` the records that the running handler has
still to write, so that power can be lost between setting and writing. Init is
any content of the flash.

**`Production`.** A chunk is a number and a copy of it two halves, so that an
overwritten copy shows. `IsrLock` is what a Zephyr mutex does in an interrupt:
it is free, or belongs to the interrupted thread and is taken again, or belongs
to another thread, in which case the call fails and may leave the interrupted
thread queued. `wq` is the position of the workqueue, `blocked` when it waits
for a mutex that nobody will give back; then the watchdog resets the chip.

**`TimeManager`.** Time passes in seconds and the supervisor runs when it is due.
Widths, signedness and constants of the C code are parameters (`EpochRange`,
`LongRange`, `DayMinutes`, ...), so that a day of twelve seconds can be explored
exhaustively with all its borders. `hist` is the true time.

External parts, modelled from how the code uses them and marked so in the map:
the Fast Pair subsystem (an interrupted factory reset is completed by the next
`bt_fast_pair_enable`), link life cycle, `-EALREADY` and `-ENOMEM` of
`bt_le_ext_adv_start`, the refusal to delete or to reconfigure an active set,
`k_work_submit`.

## 3. Runs

| run | checks | shows |
|---|---|---|
| `LocatorTag` | 8 invariants, `SuspendedAddressStable`, `ImplementsOwnership` | safety of the whole life of a tag and its refinement of `Ownership`, with a failing call and a power loss anywhere |
| `LocatorTagLive` | `OrphanKeyResolved`, `ManualRequestEnds`, `ErasureCompletes` | a key without provisioning, a manual request and an erasure that has begun all come to an end |
| `VisionOverlap` | `TypeOK`, `IntervalNotLost`, `NoDanglingConn`, `DfuBounded`, `FlagFresh` | what the Vision service keeps although links of both identities overlap and the supervisor starts and stops the set |
| `VisionSolo` | `SessionTimed`, `NeverSilent`, `CommandOfItsSession`, `FrameComesBack` | while links do not overlap, every session is timed, ends, leaves no command behind and the frame on the air |
| `Ring` | `RingingConsistent`, `RingingEnds`, `RingingIsHeard` | ring module, stack, buzzer and speaker fit together in every order of events; ringing is heard and ends |
| `Battery` | `BatteryConsistent`, `HealthyCellAnnounced`, `FrameCurrent`, `FmdnCatchesUp` | estimates, store, frame and FMDN level over resets, failing calls and boots that fail |
| `Storage` | `RecordsConsistent`, `SettingsKept`, `CounterNeverGoesBack`, `BootCompletes` | the records from any content of the flash, over faults and power losses |
| `Production` | `UartConsistent`, `AtMostOnce`, `UartSwitchedOff` | hand-over and power of the UART, with interrupts anywhere |
| `TimeManager` | `TypeOK`, `WindowAsDrawn`, `EcoFollowsWindow`, `ClockKept` | arithmetic of the window, delay of the supervisor, drift of the clock |
| `NoAdvertisingWhileConnected` | violated | finding 1 |
| `UserResetHonoured` | violated | finding 2 |
| `VisionSilent` | `NeverSilent` violated | finding 3 |

The properties, in words:

* `MismatchGuarded`: key and provisioning of a running tag differ only while a
  reset is pending or in progress. It takes a key write, a power loss and a boot
  to break it.
* `ImplementsOwnership`: the tag as its owner sees it. It pins down the one
  variable `factory_reset_trigger` from both sides: provisioning must cancel the
  reset of the provisioning timeout and must not cancel the one that an
  unprovisioning has scheduled.
* `ErasureCompletes`: the panic in the middle of a reset, the interrupted recovery
  and the boot that gives up still end in a tag without owner.
* `CopiesAgree`, `ModeMatchesRequests`, `AdvertisingMatchesMode`: flash, both
  copies, the mode, and what is on the air fit together. `AdvertisingMatchesMode`
  is about executions without a failing command, because nothing retries one.
* `EnableFlagTracksStack`: excludes the uninitialised read (above).
* `DiscoverableInterval`: the interval is fixed when the set is created, the key
  may change later.
* `IdentifyingInfoProtected`: authentication does not survive on a connection
  object that the next peer uses.
* `SuspendedAddressStable`: no rotation of the address between the first key and
  the provisioning.
* `IntervalNotLost`: a new interval survives sessions of other peers and
  misattributed disconnections until the set has it.
* `NoDanglingConn`: neither `current_conn` nor the connection held over the
  20 ms sleep is a freed object.
* `FlagFresh`: where the `disconnected` callback relies on `is_advertising`, it
  does not say "stopped" of a set that is on the air. It speaks of the time until
  a connection attempt fails: that clears the flag (`vision_advt.c:63`) and leaves
  `active_local_id` as it is, so that the flag may be wrong until the next boot.
  `IntervalNotLost` is stated without such attempts for the same reason.
* `SessionTimed`, `FrameComesBack`, `DfuBounded`: no link and no DFU mode without
  a timeout; the frame comes back unless the peer sends commands for ever.
* `CommandOfItsSession`: a command is executed while the connection it came from is
  current, although the worker sleeps and the peer may leave at once.
* `RingingConsistent`: three copies of "it rings" (stack, `ring.c`, UI), one
  self-scheduling work and one speaker with two users agree, and unprovisioning
  ends the ringing, as nobody else could.
* `RingingIsHeard`: also of a tag whose stop at the timeout was refused, which
  rings on.
* `BatteryConsistent` has three parts besides the types. `StoredCapacityClose`: what a reset gives back to the cell is less than one
  percent and an hour, plus a percent for each failed write.
  `StoredCapacityHonest`: the stored capacity falls by no more than the hours take
  and rises only when the record was taken for missing, although the hourly work
  also runs after a boot that gave up. If that was before the record was loaded, it
  works on a capacity of 0, which does not reach the flash, because 0 % equals the
  last percentage of a fresh RAM; if it was because the defaults could not be
  written (`vision_bootup.c:237`), it stores a full cell less an hour.
  `FmdnLevelKept`: the level that suppresses setting
  the same one again is the one the stack has.
* `HealthyCellAnnounced`: the first level is computed before the capacity is known;
  the order of the launched works repairs it.
* `FrameCurrent`, `FmdnCatchesUp`: two places compare with the
  last value to save a call; neither comparison suppresses a change that was not
  delivered (the frame: unless a call failed).
* `RecordsConsistent`, `SettingsKept`: no order of faults and power losses lets a tag
  run on garbage; the settings in RAM and flash differ only while a handler has yet
  to write (capacity, boot counter and time of the dynamic record are written at
  their own times and are not compared);
  good settings are not lost as long as reads work.
* `CounterNeverGoesBack`: the counter travels in a record that others write.
* `UartConsistent`: `rx_swap_toggle` stays in step with the driver, and no UART is
  powered without something that will switch it off.
* `AtMostOnce`: no chunk is processed twice or after a later one. Losing one is
  possible and allowed: the tool sees no answer.
* `UartSwitchedOff`: it is switched off and the workqueue gets free again. An
  interrupt during the switching off may leave the mutex with a thread that never
  gives it back; the next answer then blocks the workqueue, and only the watchdog
  helps.
* `WindowAsDrawn`: the comparisons of the code against a window drawn on a dial, for
  borders within the day. `SET_ENERGY_SAVE_TIME` stores any `uint16_t` without a
  check (`vision_custom_services.c:336-337`), and the model admits them all: with a
  border past the day the code takes some window or none, which is no arc of the
  dial.
* `EcoFollowsWindow`: the flag of the supervisor lags at most one period behind
  the window, whatever changes the clock or the window.
* `ClockKept`: the error of the clock per reset is bounded by one period and the
  outage.

## 4. Bounds, symmetry and fairness

* `Conns`: two objects in the safety runs. Two are needed for a peer that
  connects before the callback of the previous one has run, for links that
  overlap, and for a reused object beside a live one; properties speak of single
  objects or pairs. The proofs lift the bound. In
  `VisionService` two objects also make the exhaustion of the pool by lost
  references reachable. `VisionSilent` has the three of the firmware
  (`CONFIG_BT_MAX_CONN`, `prj_release.conf:64`), so that its counterexample does not
  come from a lack of room.
* `MaxFaults`: failing calls and connection attempts; `MaxLosses`: power losses. One of each in
  `LocatorTag`, so that a failure in a reset and a power loss during the recovery
  combine; two losses in `LocatorTagLive`, so that the recovery is interrupted
  again. One in `VisionOverlap`: a rollback of an interval update that fails as well
  needs two, and the properties that could notice exclude failures. The liveness properties need them finite: a tag whose calls
  fail for ever gets nothing done. The proofs hold for every bound.
  Resets and power losses of `VisionService` are not bounded.
* `Periods` has both edges of the permitted range and the first value beyond the
  upper one; `VisionOverlap` leaves the middle value out to stay small.
* Connection objects are interchangeable, hence `SYMMETRY` in safety runs; runs
  with liveness properties do without.
* `PeerCommands` has every command in `VisionSolo`. `VisionOverlap` leaves out three
  whose effects on the state others have as well: a read (postpones the timeout
  like any command), an unknown one (like a second password) and the change of
  the window (like setting the clock, or time passing).
* `EnergySaving` is FALSE in `VisionSolo`, whose premise the supervisor would end:
  when it restarts the set under a link, links overlap.
* `Ring`: two components, two sources, three requests, two presses: a
  start over a start of the other source, and a press during the beeps of another.
* `Battery`: a cell of 1000 uAh with 3 uAh per hour has percentages that change
  every three or four hours; the voltages are below and above the range of the
  field, on the last entry of the table and above 3.4 V; the capacities include
  an empty cell and one that runs empty. Eight hours see two changes of the
  percentage and resets between them. Two faults are a record that cannot be read and
  defaults that cannot be written.
* `Storage`: a counter of four values wraps around; two writes fail, one read,
  two losses of power.
* `Production`: four chunks, for one in the slot, one being copied, one arriving
  and one after a restart.
* `TimeManager`: a day of six minutes of two seconds, an epoch range of 64 and
  `LongRange` 128, which like 2^64 is no multiple of the day: this is what makes
  the unsigned remainder wrong. Epochs at 0, in the middle and close to the
  overflow, time zones on both sides, windows within the day, across midnight,
  empty, disabled, and with a border past the end of the day.
* Deadlock is checked except in `Production` and `TimeManager`: a UART that is off
  has nothing to do, and the bound on seconds ends time.

Fairness. The workqueue thread is cooperative and every handler terminates, so
that an item which stays ready is run, and an armed timer falls due: weak
fairness on each work item and on the next step of boot and reset. Nothing is
assumed of peers, users, power or the time of day: they may act or not. Neither
fairness condition forces a peer to disconnect; `FrameComesBack` rests on the
timeouts alone. The boot of `Storage` and `LocatorTag` has the timeout of `main`,
which panics when the initialisation does not complete; in `Production` the
watchdog resets a workqueue that does not feed it. Both are what the code relies
on, and both are needed: `ErasureCompletes` and `BootCompletes` fail without the
panic (their mutants), `UartSwitchedOff` without the watchdog. In `Battery` neither
boots nor resets are assumed to happen.

## 5. Proofs

Every safety invariant and every action property that a passing run checks is
also a theorem, for all values of the constants that the named assumptions
allow; so is the refinement of `Ownership`. Each proof module has the same
layout: the inductive invariant `Inv` with its parts, lemmas about the model's
operators, one lemma per action (or group of actions), `Invariance` (`Spec => []Inv`), and the
theorems. TLC checks each `Inv` too, on the instances of section 4.

| module | theorem | property |
|---|---|---|
| `LocatorTagProofs` | `TypeCorrect` | `TypeOK` |
| `LocatorTagSafety` | `MismatchAlwaysGuarded` | `MismatchGuarded` |
| | `TimeoutNeverHitsOwner` | `TimeoutOnlyUnprovisioned`: the provisioning timeout never waits on a provisioned tag |
| | `CopiesAlwaysAgree` | `CopiesAgree` |
| | `ModeAlwaysMatches` | `ModeMatchesRequests` |
| | `ManualRequestBounded` | `ManualRequestTimesOut`: request, flag and armed timeout coincide |
| | `FlagAlwaysTracks` | `EnableFlagTracksStack` |
| | `InfoProtected` | `IdentifyingInfoProtected` |
| | `SetAlwaysExists` | `SetExists`: the asserted existence of the set, also in the middle of a reset |
| | `IntervalAlwaysShort` | `DiscoverableInterval` |
| | `AdvertisingAlwaysMatches` | `AdvertisingMatchesMode` |
| | `AddressStable` | `SuspendedAddressStable` (action property) |
| | `TagImplementsOwnership` | `ImplementsOwnership` (refinement) |
| `StorageProofs` | `RecordsAlwaysConsistent` | `RecordsConsistent` |
| | `SettingsAlwaysKept` | `SettingsKept` (action property) |
| | `CounterNeverBack` | `CounterNeverGoesBack` (action property) |
| `RingProofs` | `RingingAlwaysConsistent` | `RingingConsistent` |
| `ProductionProofs` | `UartAlwaysConsistent` | `UartConsistent` |
| | `ChunksAtMostOnce` | `AtMostOnce` (action property) |
| `BatteryProofs` | `BatteryAlwaysConsistent` | `BatteryConsistent` |
| | `HealthyCellAlwaysAnnounced` | `HealthyCellAnnounced` |
| | `FrameAlwaysCurrent` | `FrameCurrent` |
| `TimeManagerProofs` | `TypeCorrect` | `TypeOK` |
| | `WindowAlwaysAsDrawn` | `WindowAsDrawn` |
| | `EcoAlwaysFollows` | `EcoFollowsWindow` |
| | `ClockAlwaysKept` | `ClockKept` |
| `VisionServiceProofs` | `TypeCorrect` | `TypeOK` |
| | `NeverDangling` | `NoDanglingConn` |
| | `DfuAlwaysBounded` | `DfuBounded` |
| | `FlagAlwaysFresh` | `FlagFresh` |
| | `IntervalNeverLost` | `IntervalNotLost` |
| | `SessionAlwaysTimed` (under `Solo`) | `SessionTimed` |
| | `CommandStaysInSession` (under `Solo`) | `CommandOfItsSession` |
| | `FrameNeverSilent` (under `Solo`) | `NeverSilent` |

### Why the invariants have to be stronger

Hardly any of the properties is inductive.

**`LocatorTagSafety`.** `MismatchGuarded`, for instance, is kept by
a boot only if the state that `fmdn_provisioning_state_init` starts from is
known, and by a provisioning only if the scheduled reset is the one its trigger
names. `Inv` adds four groups of facts:

* `FlashInv`: only an unfinished erasure leaves a provisioning without a key, and
  the subsystem is not ready before it is finished. It carries the argument
  across power losses.
* `ResetInv`: state, work item and position in `factory_reset_perform` agree, and
  its two locals still describe the world when they are used.
* `AppInv`: what the copies in `main.c` say during boot and reset, where
  `CopiesAgree` does not speak; authentication bits only on authenticated or
  lost links.
* `AdvInv`: when `fp_adv.c` is enabled, what it knows, and the interval of a set
  that was created without a key.

The operators of `FpAdv` are handled by frame lemmas (`UpdateFrame`,
`ModeSetFrame`, ...: what a function changes and leaves alone). For what is on
the air, one relation between the state before and after a function
(`RadioStep`) holds of every function of `fp_adv.c` and of every composition of
them that an action makes; `AdvertisingAlwaysMatches` and `AddressStable` follow
from it. The refinement needs two facts more (`OwnInv`: a pending reset has its
work item, and a boot that stopped knows of no key that is not there); then each
group of actions is mapped to a step of the contract or to a stutter.

**`StorageProofs`.** `RecordDone(k)` says of each record what the boot has
established once it is through with it; `RecordsConsistent` is the conjunction
at the end. `RunningInv` bounds the distance between the counter in RAM and in
flash, on which `CounterNeverBack` rests.

**`RingProofs`.** `RingingConsistent` is inductive but for one fact: `btn_idx`,
which `app_ui_state_change_indicate` looks at, is never set. The ringing and the
buzzer stay together only because of that.

**`ProductionProofs`.** `BufferInv` says which buffers the driver may hold for
each value of `rx_swap_toggle`; `ChunkInv` orders the chunk that was processed
last, the one that was pulled and the one in the slot, for every position of the
workqueue, so that a copy torn by the interrupt is still newer than the last.

**`BatteryProofs`.** `PollInv` ties the percentage to the capacity and the order
of the launched works; `CloseInv` measures the distance to the stored capacity
from the last percentage that was compared, not from the capacity, since the
decision to write depends on the former. A write that fails adds a percent
because a percent lasts for an hour at least. `HonestInv` bounds the stored
capacity together with the one in RAM: a boot that loaded nothing has a capacity
and a last percentage of 0, so that its hourly work stores nothing; any other
capacity in RAM is no lower than the hours explain, and no higher than at first
unless the record was taken for missing.

**`TimeManagerProofs`.** `WindowAsDrawn` is arithmetic: it follows from the
types and lemmas on remainders alone. `EcoFollowsWindow` needs the time since the flag and the window
began to differ together with the time to the next run of the supervisor
(`SwitchInv`), `ClockKept` the age of the saved time (`SavedInv`).

**`VisionServiceProofs`.** `Inv` is about every behaviour, with overlapping
links; beyond the five properties it needs the range of the configured interval,
the worker's `target` (set exactly while it sleeps) and that a failed attempt is
counted (`MissedInv`), since the update of an interval works on the flag. `Solo` is the hypothesis of
the last three theorems: all links use the Vision identity and the supervisor
does not stop the frame, the premise of the run `VisionSolo`. Without it
`NeverSilent` is false: the run `VisionSilent` shows it (finding 3). `SoloInv`
then says that there is at most one link, that it is `current_conn`, that none
exists while the set is on the air, and exactly what the workqueue holds
(`QueueInv`): the command is always ahead of the `disconnected` callback of its
link, which is why it cannot outlive its session. `FrameNeverSilent` also assumes two
connection objects (the code configures three).

### Assumptions

They are those of the modules, evaluated by TLC on every run, and no stronger
than the code: sets of model values are disjoint from the values that mean
"none", bounds are natural numbers. The others say:

* `Storage`: the boot counter has at least two values (it has 16 bits).
* `TimeManager`: minute, day, period and epoch range are not zero, "disabled" lies
  outside of the day and is the largest value a border can have (0xFFFF of a
  `uint16_t`; no other value is excluded), and an epoch with a time zone added fits the width of the
  signed integer (32 and 64 bits in the code).
* `Battery`: a percent of the capacity is a whole number of uAh (2160000 is a
  multiple of 100) and lasts for an hour at least (14 uAh per hour), and voltages
  are `uint16_t`.
* `VisionService`: a period that a peer sends is a `uint16_t`.

### What stays with TLC

The liveness properties, since fairness and ENABLED are out of the prover's
reach: `OrphanKeyResolved`, `ManualRequestEnds`, `ErasureCompletes`,
`FrameComesBack`, `RingingIsHeard`, `RingingEnds`, `FmdnCatchesUp`,
`BootCompletes`, `UartSwitchedOff`. They are checked on the instances of section
4 only.

## 6. Findings

The first three have a run whose counterexample shows them; quotations and lines
are in `PROJECT.json`.

1. **Advertising over a connection** (`fp_adv.c:486`). The restart work does not
   look at `fp_conn`. When a peer connects between a disconnection and the
   restart it queued, the set is active over the live link. A factory reset that
   begins in this state cannot delete the set, panics and starts over; if peers
   keep doing so at every attempt it never completes, which is the exception in
   `OrphanKeyResolved`.
2. **The factory reset of the button is never performed**
   (`factory_reset.c:173`): it sets a variable in RAM that only a boot reads, and
   the boot clears it.
3. **A tag that stays silent** (`vision_custom_services.c:556`). The end of a
   Vision session is recognised by the identity of the *last* link. In the
   counterexample, which has three connection objects as the firmware does, the
   first peer connects through the Vision set, which ends its advertising. Its link
   goes down, and before the queued callback runs a second peer connects through
   the Fast Pair identity and goes down as well. Both callbacks find
   `active_local_id` at the other identity, and neither restarts the frame: no link
   is left, a connection object is free, and the tag is silent. `current_conn`
   was overwritten without dropping its reference (line 520), so the first object
   never returns to the pool.

For the following the modules define what a comment or an assertion says, and TLC
refutes it when the name is added to the configuration named; they are not part of
the regular runs.

| definition | module, configuration | the repository says | the code |
|---|---|---|---|
| `ExecutedUnprovisioned` | `MCLocatorTag`, `LocatorTag.cfg` | `__ASSERT_NO_MSG(!fmdn_provisioned)`, `main.c:171` | unprovision and provision again within the reset delay: the scheduled reset erases a provisioned tag, whose flag is still set |
| `ClockSyncAfterBoot` | `MCLocatorTag`, `LocatorTag.cfg` | "Beacon clock synchronization trigger, which occurs after the system bootup if the device is provisioned", `README.rst:119` | the request is commented out, `main.c:628` |
| `StopHalts` | `MCVisionService`, `VisionOverlap.cfg` | "Halts the active advertiser immediately.", `include/app_vision_advt.h:73` | a link through another identity clears `is_advertising`; `ble_adv_custom_stop` then reports success without a call (`vision_advt.c:214`) |
| `DropsClientSession` | `MCVisionService`, `VisionOverlap.cfg` | "Requests the link layer to cleanly isolate and drop the client session.", `include/app_vision_custom_services.h:119` | the authorisation timeout of a Vision link drops whatever link connected last (`vision_custom_services.c:482`) |
| `TimeoutSourceMatches` | `MCRing`, `Ring.cfg` | "The timeout source cannot differ from the last ring start operation that was accepted", and an assertion, `ring.c:214` | the source is replaced before the stack is asked (`ring.c:205`); if it refuses, the timeout of the accepted ringing finds another one |
| `AnyPressStopsRinging` | `MCRing`, `Ring.cfg` | "If ringing is active then always stop it on any button press.", `platform_SBT.c:318` | the confirming beeps sleep on the workqueue that scans the button (`platform_SBT.c:221`): a press during them is not seen |
| `PressedButtonCancels` | `MCRing`, `Ring.cfg` | "If there is any button action in progress, then send ringing stop request.", `platform_SBT.c:486` | depends on `btn_idx`, which nothing sets any more (`platform_SBT.c:315`) |
| `ValidRecordsExtracted` | `Storage`, `Storage.cfg` | "If valid data structures exist, they are extracted directly into global variables", `include/app_vision_bootup.h:39` | any negative result of a read is taken for a missing record (`vision_bootup.c:187`): defaults overwrite it in flash |
| `PulledWhole` | `Production`, `Production.cfg` | "Safely pull data from the shared storage buffer", `vision_production.c:234` | a mutex does not keep an interrupt out (`vision_production.c:80`): the buffer is overwritten while it is copied, and only the checksum protects the parser |
| `MinutesSinceMidnight` | `MCTimeManager`, `TimeManager.cfg` | "Returns the localized count of minutes elapsed since midnight (0 to 1439).", `include/app_vision_time_manager.h:23` | the remainder is unsigned (`vision_time_manager.c:97`): a negative local time, before the first local midnight of 1970, gives another minute |

Noticed without a run: the comment at `main.c:97-99` on the trigger that is set
by default, whose code is commented out (`main.c:645-646`); `README.rst:526`
gives the DFU mode five minutes, `dfu.c:23` two; the stored advertising interval
is loaded at boot and not applied to the set; SUCCESS is answered to the production
tool before the record is written; when suspending the UART fails, no timer is
left to try again; the rollback of an interval update sets `is_advertising`
although its restart may have failed; the supervisor starts the frame of
an unprovisioned tag at the end of a window; an attempt to connect through the Vision
set that fails after it has ended the advertising leaves the frame off the air, since
no `disconnected` callback follows (`vision_custom_services.c:513`); nothing checks the
borders of the energy-saving window (`vision_custom_services.c:336-337`).

## 7. What is not modelled, and abstractions

* *Time* is an order, not a measure (except in `TimeManager`): a timer fires at any
  moment after it was armed. Properties hold whatever the delays are; what depends on their lengths
  (the watchdog's period, the five minutes of suspension as such) is out of
  scope.
* *Contents*: the constant bytes of the frame, replies, passwords, the layout of
  production messages, log texts, LEDs and hold times are left out.
* The recovery mode and the DFU request of the button cannot be reached on this
  board: their cases are commented out.
* Motion detector: not built. Watchdog: only its effect on a blocked workqueue.
* What the FMDN stack does with a ringing when Fast Pair is disabled is not known
  from this repository: `Ring` has no factory reset.
* Float rounding: capacities are whole numbers far below 2^24, which a float holds.
* Blocking calls: most handlers make HCI calls that block, in which the receive
  thread may run. The models let it in where the code sleeps, and between the steps of
  boot, factory reset and the drop of a link; elsewhere a handler is one step.
* A second Account Key before `main.c` knows of the first is excluded by a guard of
  `AccountKeyWritten`. In a boot that goes on this is a matter of milliseconds, and a
  pairing does not fit. A boot that gives up lasts until `main` panics, 60 s at most
  (`main.c:42`), and its FMDN set may be on the air: a key written then would arm a
  provisioning timeout of five minutes (`main.c:48`), which never falls due.

## 8. Plan

Done: the ownership of the tag with its proofs (`FpAdv`, `LocatorTag`), the
command service, the abstract specification and its refinement, ringing, battery,
storage, production UART, time; a theorem for every safety property of every module.

Left, in order of importance:

1. The sequential arguments behind the liveness properties, as safety theorems: for
   example that each step of `factory_reset_perform` and of the boot brings the
   position forward unless a call fails, from which `ErasureCompletes` follows by
   fairness alone.
2. The composition of `LocatorTag` and `VisionService`, so that `Provision` and
   `FactoryReset` of the latter are the real ones of the former. Today they may
   happen at any time, which is sound for safety.
3. `SessionTimed` and `CommandOfItsSession` under hypotheses weaker than `Solo`: links
   of the other identity that do not overlap a Vision session.
