---------------------------- MODULE VisionService ----------------------------
(***************************************************************************)
(* The Vision frame and its command service: vision_custom_services.c on   *)
(* top of vision_advt.c (module VisionAdvt), with the energy-saving        *)
(* supervisor of vision_time_manager.c, the DFU mode of dfu.c and the three *)
(* places of main.c that start the frame.                                  *)
(*                                                                         *)
(* connected and the GATT callbacks run on the Bluetooth receive thread.   *)
(* The command worker, the timers, the supervisor and the disconnected     *)
(* callback run on the system workqueue, one after the other, and the      *)
(* worker sleeps twice before it drops a link: meanwhile the receive thread *)
(* goes on.  The workqueue is first in, first out, which orders the command *)
(* worker and the disconnected callbacks; a delayed item can fall due at    *)
(* any time.                                                               *)
(***************************************************************************)
EXTENDS VisionAdvt, Sequences, FiniteSets

CONSTANTS
    Conns,         \* connection objects, CONFIG_BT_MAX_CONN of them
    NoConn,        \* NULL
    Identities,    \* local identities that peers connect through
    PeerCommands,  \* commands that peers send
    Periods,       \* values of SET_ADV_PERIOD, in ms
    EnergySaving,  \* whether an energy-saving window is configured
    MaxFaults      \* bound on failing calls into the Bluetooth stack and the NVS,
                   \* and on failed connection attempts

\* Commands by what the worker does with them.  "READ" stands for every read,
\* "INVALID" for an unknown command or sub-command.
Commands == {"PROVIDE_PASSWORD", "WRONG_PASSWORD", "SET_REAL_TIME_CLOCK",
             "SET_ADV_PERIOD", "SET_ENERGY_SAVE_TIME", "RESTART_DEVICE",
             "PUT_DEVICE_IN_OTA_DFU_MODE", "READ", "INVALID"}

\* The range of mu16_AdvertismentInterval.
Uint16 == {n \in Nat : n <= 65535}

ASSUME ServiceAssumption ==
    /\ NoConn \notin Conns
    /\ "parse" \notin Conns
    /\ Identities \subseteq {"vision", "other"}
    /\ PeerCommands \subseteq Commands
    /\ Periods \subseteq Uint16
    /\ EnergySaving \in BOOLEAN
    /\ MaxFaults \in Nat

VARIABLES
    set,          \* the advertising set
    svc,          \* statics of vision_custom_services.c
    timer,        \* delayable works that are scheduled
    worker,       \* where the workqueue stands in the drop of a link
    queue,        \* items submitted to the workqueue, oldest first
    link,         \* the link on every connection object
    lost,         \* connection objects whose reference nobody will drop
    cfg,          \* gst_ConfigData.mu16_AdvertismentInterval and its NVS copy;
                  \* `changed` is history: a new interval was accepted since the boot
    clock,        \* vision_time_manager.c
    dfu_mode,     \* static of dfu.c
    provisioned,  \* the tag is FMDN-provisioned (LocatorTag)
    faults        \* failing calls and attempts so far

vars == <<set, svc, timer, worker, queue, link, lost, cfg, clock, dfu_mode,
          provisioned, faults>>

ServiceState == [
    write                    : Commands \union {"none"},   \* write_buffer
    current_conn             : Conns \union {NoConn},
    active_local_id          : {"none", "vision", "other"},
    bool_UserAuthorization   : BOOLEAN,
    bool_AdvtIntervalUpdated : BOOLEAN ]

ServiceBoot == [
    write |-> "none", current_conn |-> NoConn, active_local_id |-> "none",
    bool_UserAuthorization |-> FALSE, bool_AdvtIntervalUpdated |-> FALSE ]

TimerState == [authorisation : BOOLEAN, connection : BOOLEAN, dfu : BOOLEAN]

TimerBoot == [authorisation |-> FALSE, connection |-> FALSE, dfu |-> FALSE]

\* "replied": the answer is sent and the worker sleeps 60 ms; "dropping":
\* initiate_disconnect holds `target` and sleeps 20 ms; "restarting": the
\* worker is in app_graceful_self_restart.
WorkerState == [
    step    : {"idle", "replied", "dropping", "restarting"},
    target  : Conns \union {NoConn},
    restart : BOOLEAN ]

WorkerBoot == [step |-> "idle", target |-> NoConn, restart |-> FALSE]

\* "down" is a lost link whose disconnected callback is in the queue.
LinkStates == {"free", "up", "down"}

LinkState == [state : LinkStates, id : {"vision", "other"}]

\* `inside`: app_time_is_within_energy_saving_window() on a synchronised clock.
\* `retained` is the magic marker of the RAM block a warm reset keeps.
ClockState == [
    bool_IsTimeSynchronized : BOOLEAN,
    retained                : BOOLEAN,
    inside                  : BOOLEAN,
    Advtflag                : BOOLEAN ]

TypeOK ==
    /\ set \in SetState
    /\ svc \in ServiceState
    /\ timer \in TimerState
    /\ worker \in WorkerState
    /\ queue \in Seq(Conns \union {"parse"})
    /\ link \in [Conns -> LinkState]
    /\ lost \subseteq Conns
    /\ cfg \in [interval : Uint16, nvs : Uint16, changed : BOOLEAN]
    /\ clock \in ClockState
    /\ dfu_mode \in BOOLEAN
    /\ provisioned \in BOOLEAN
    /\ faults \in 0..MaxFaults

-----------------------------------------------------------------------------
(***************************************************************************)
(* The stack and the kernel (external).                                    *)
(***************************************************************************)

\* bt_conn_new() finds an object nobody holds a reference to.
Usable(c) == link[c].state = "free" /\ c \notin lost

\* A connectable set reserves an object when it starts.
Room == \E c \in Conns : Usable(c)

\* The set goes to one of the outcomes of an operation on it.
TakeOutcome(outcomes) ==
    \E o \in outcomes :
        /\ faults + o[2] <= MaxFaults
        /\ set' = o[1]
        /\ faults' = faults + o[2]

\* k_work_submit: an item that is already queued is not queued again.
Submit(item) ==
    queue' = IF \E k \in DOMAIN queue : queue[k] = item
             THEN queue ELSE Append(queue, item)

WorkqueueFree == worker.step = "idle"

InsideWindow == IF EnergySaving THEN BOOLEAN ELSE {FALSE}

\* A reset of the chip, and init_work_handle up to the watchdog.  The stored
\* interval is loaded; the set is created with the default one.
Boot(prov, ret) ==
    /\ \E o \in IF prov THEN ble_adv_custom_start(ble_adv_custom_init, TRUE)
                ELSE {<<ble_adv_custom_init, 0>>} :
           /\ faults + o[2] <= MaxFaults
           /\ set' = o[1]
           /\ faults' = faults + o[2]
    /\ svc' = ServiceBoot
    /\ timer' = TimerBoot
    /\ worker' = WorkerBoot
    /\ queue' = <<>>
    /\ link' = [c \in Conns |-> [state |-> "free", id |-> "other"]]
    /\ lost' = {}
    /\ cfg' = [cfg EXCEPT !.interval = cfg.nvs, !.changed = FALSE]
    /\ \E w \in InsideWindow :
           clock' = [bool_IsTimeSynchronized |-> ret, retained |-> ret,
                     inside |-> w, Advtflag |-> FALSE]
    /\ dfu_mode' = FALSE
    /\ provisioned' = prov

\* Retained RAM does not survive a loss of power.
PowerLoss == Boot(provisioned, FALSE)

\* Unprovisioning ends in a reset to factory settings (module LocatorTag).
FactoryReset == provisioned /\ Boot(FALSE, clock.retained)

-----------------------------------------------------------------------------
(***************************************************************************)
(* Bluetooth receive thread.                                               *)
(***************************************************************************)

\* The connected callbacks of vision_advt.c and vision_custom_services.c.  The
\* reference to an earlier connection is overwritten, not dropped.
Connected(c, id) ==
    /\ Usable(c)
    /\ id = "vision" => set.on_air
    /\ link' = [link EXCEPT ![c] = [state |-> "up", id |-> id]]
    /\ set' = connected(set, id = "vision", FALSE)
    /\ svc' = [svc EXCEPT
                  !.current_conn = c,
                  !.active_local_id = id,
                  !.bool_UserAuthorization = IF id = "vision" THEN FALSE ELSE @]
    /\ timer' = [timer EXCEPT !.authorisation = @ \/ id = "vision"]
    /\ lost' = lost \union ({svc.current_conn} \ {NoConn})
    /\ UNCHANGED <<worker, queue, cfg, clock, dfu_mode, provisioned, faults>>

\* The same callbacks with an error: vision_custom_services.c returns at once.
\* The set that the attempt came through may be off the air afterwards.
ConnectFails(id) ==
    /\ id = "vision" => set.on_air
    /\ faults < MaxFaults /\ faults' = faults + 1
    /\ \E ended \in {FALSE, id = "vision"} : set' = connected(set, ended, TRUE)
    /\ UNCHANGED <<svc, timer, worker, queue, link, lost, cfg, clock, dfu_mode,
                   provisioned>>

\* Mutant: a command that comes while the worker sleeps is not submitted.
Bug_busy_not_submitted(c, cmd) ==
    /\ link[c].state = "up"
    /\ svc' = [svc EXCEPT !.write = cmd]
    /\ IF WorkqueueFree THEN Submit("parse") ELSE UNCHANGED queue
    /\ UNCHANGED <<set, timer, worker, link, lost, cfg, clock, dfu_mode,
                   provisioned, faults>>

\* write_incoming_char, on any link: a newer command replaces one the worker
\* has not fetched yet.
write_incoming_char(c, cmd) ==
    /\ link[c].state = "up"
    /\ svc' = [svc EXCEPT !.write = cmd]
    /\ Submit("parse")
    /\ UNCHANGED <<set, timer, worker, link, lost, cfg, clock, dfu_mode,
                   provisioned, faults>>

\* The peer leaves or the supervision timeout passes.
LinkDown(c) ==
    /\ link[c].state = "up"
    /\ link' = [link EXCEPT ![c].state = "down"]
    /\ Submit(c)
    /\ UNCHANGED <<set, svc, timer, worker, lost, cfg, clock, dfu_mode,
                   provisioned, faults>>

\* FMDN provisioning over a link through the Fast Pair identity starts the
\* frame.
Provision(c) ==
    /\ link[c] = [state |-> "up", id |-> "other"]
    /\ ~provisioned
    /\ provisioned' = TRUE
    /\ TakeOutcome(ble_adv_custom_start(set, Room))
    /\ UNCHANGED <<svc, timer, worker, queue, link, lost, cfg, clock, dfu_mode>>

\* An access to the SMP characteristic, if the DFU mode allows it.
app_dfu_bt_gatt_operation_allow(c) ==
    /\ link[c].state = "up"
    /\ dfu_mode
    /\ timer' = [timer EXCEPT !.dfu = TRUE]
    /\ UNCHANGED <<set, svc, worker, queue, link, lost, cfg, clock, dfu_mode,
                   provisioned, faults>>

-----------------------------------------------------------------------------
(***************************************************************************)
(* The command worker, ble_parse_and_reply_work_handler.                   *)
(***************************************************************************)

\* The worker fetches the command and finds a connection to answer on.
Fetch ==
    /\ WorkqueueFree
    /\ queue # <<>> /\ Head(queue) = "parse"
    /\ queue' = Tail(queue)
    /\ svc.write # "none"
    /\ UNCHANGED <<set, link, lost, provisioned>>

\* Nobody is connected any more: the command is thrown away.
DiscardCommand ==
    /\ Fetch
    /\ svc.current_conn = NoConn
    /\ svc' = [svc EXCEPT !.write = "none"]
    /\ UNCHANGED <<timer, worker, cfg, clock, dfu_mode, faults>>

Command(cmd, authorised) ==
    /\ Fetch
    /\ svc.current_conn # NoConn
    /\ svc.write = cmd
    /\ svc.bool_UserAuthorization = authorised

Consumed == [svc EXCEPT !.write = "none"]

\* Mutant: the refusal is sent and the link is kept.
Bug_reply_only(restart) == UNCHANGED worker

\* The link is to be dropped after the reply (bool_disconnect).
ReplyAndDrop(restart) ==
    worker' = [worker EXCEPT !.step = "replied", !.restart = restart]

\* write_nvs_data of the configuration, whose failure is only logged.
StoreConfig(c) ==
    \/ cfg' = [c EXCEPT !.nvs = c.interval] /\ UNCHANGED faults
    \/ cfg' = c /\ faults < MaxFaults /\ faults' = faults + 1

PasswordMissing ==
    \E cmd \in Commands \ {"PROVIDE_PASSWORD", "WRONG_PASSWORD"} :
        /\ Command(cmd, FALSE)
        /\ svc' = Consumed
        /\ timer' = [timer EXCEPT !.authorisation = FALSE, !.connection = FALSE]
        /\ ReplyAndDrop(FALSE)
        /\ UNCHANGED <<cfg, clock, dfu_mode, faults>>

PasswordWrong ==
    /\ Command("WRONG_PASSWORD", FALSE)
    /\ svc' = Consumed
    /\ timer' = [timer EXCEPT !.connection = FALSE]
    /\ ReplyAndDrop(FALSE)
    /\ UNCHANGED <<cfg, clock, dfu_mode, faults>>

\* Mutant: the inactivity timeout is not scheduled.
Bug_no_inactivity_timeout ==
    /\ Command("PROVIDE_PASSWORD", FALSE)
    /\ svc' = [Consumed EXCEPT !.bool_UserAuthorization = TRUE]
    /\ timer' = [timer EXCEPT !.authorisation = FALSE]
    /\ UNCHANGED <<worker, cfg, clock, dfu_mode, faults>>

PasswordRight ==
    /\ Command("PROVIDE_PASSWORD", FALSE)
    /\ svc' = [Consumed EXCEPT !.bool_UserAuthorization = TRUE]
    /\ timer' = [timer EXCEPT !.authorisation = FALSE, !.connection = TRUE]
    /\ UNCHANGED <<worker, cfg, clock, dfu_mode, faults>>

\* Every command of an authorised peer postpones the inactivity timeout.
Postponed == [timer EXCEPT !.connection = TRUE]

SetRealTimeClock ==
    /\ Command("SET_REAL_TIME_CLOCK", TRUE)
    /\ svc' = Consumed
    /\ timer' = Postponed
    /\ \E w \in InsideWindow :
           clock' = [clock EXCEPT !.bool_IsTimeSynchronized = TRUE,
                                  !.retained = TRUE, !.inside = w]
    /\ StoreConfig(cfg)
    /\ UNCHANGED <<worker, dfu_mode>>

\* Mutant: the upper limit is not checked.
Bug_no_upper_limit(ms) == ms >= 100

PeriodAllowed(ms) == ms >= 100 /\ ms <= 5000

SetAdvPeriod ==
    /\ Command("SET_ADV_PERIOD", TRUE)
    /\ \E ms \in Periods :
        \/ /\ PeriodAllowed(ms)
           /\ svc' = [Consumed EXCEPT !.bool_AdvtIntervalUpdated = TRUE]
           /\ timer' = Postponed
           /\ StoreConfig([cfg EXCEPT !.interval = ms, !.changed = TRUE])
           /\ UNCHANGED worker
        \/ /\ ~PeriodAllowed(ms)
           /\ svc' = Consumed
           /\ timer' = [timer EXCEPT !.connection = FALSE]
           /\ ReplyAndDrop(FALSE)
           /\ UNCHANGED <<cfg, faults>>
    /\ UNCHANGED <<clock, dfu_mode>>

SetEnergySaveTime ==
    /\ Command("SET_ENERGY_SAVE_TIME", TRUE)
    /\ svc' = Consumed
    /\ timer' = Postponed
    /\ \E w \in InsideWindow : clock' = [clock EXCEPT !.inside = w]
    /\ StoreConfig(cfg)
    /\ UNCHANGED <<worker, dfu_mode>>

RestartDevice ==
    /\ Command("RESTART_DEVICE", TRUE)
    /\ svc' = Consumed
    /\ timer' = [timer EXCEPT !.connection = FALSE]
    /\ ReplyAndDrop(TRUE)
    /\ UNCHANGED <<cfg, clock, dfu_mode, faults>>

\* Mutant: the mode is entered without its timeout.
Bug_dfu_without_timeout ==
    /\ Command("PUT_DEVICE_IN_OTA_DFU_MODE", TRUE)
    /\ svc' = Consumed
    /\ timer' = Postponed
    /\ dfu_mode' = TRUE
    /\ UNCHANGED <<worker, cfg, clock, faults>>

\* app_dfu_enter_mode_custom.
EnterDfuMode ==
    /\ Command("PUT_DEVICE_IN_OTA_DFU_MODE", TRUE)
    /\ svc' = Consumed
    /\ timer' = [Postponed EXCEPT !.dfu = TRUE]
    /\ dfu_mode' = TRUE
    /\ UNCHANGED <<worker, cfg, clock, faults>>

ReadCommand ==
    /\ Command("READ", TRUE)
    /\ svc' = Consumed
    /\ timer' = Postponed
    /\ UNCHANGED <<worker, cfg, clock, dfu_mode, faults>>

\* The password of a peer that is authorised already is an unknown command.
InvalidCommand ==
    \E cmd \in {"INVALID", "PROVIDE_PASSWORD", "WRONG_PASSWORD"} :
        /\ Command(cmd, TRUE)
        /\ svc' = Consumed
        /\ timer' = [timer EXCEPT !.connection = FALSE]
        /\ ReplyAndDrop(FALSE)
        /\ UNCHANGED <<cfg, clock, dfu_mode, faults>>

ParseAndReply ==
    \/ DiscardCommand
    \/ PasswordMissing \/ PasswordWrong \/ PasswordRight
    \/ SetRealTimeClock \/ SetAdvPeriod \/ SetEnergySaveTime
    \/ RestartDevice \/ EnterDfuMode \/ ReadCommand \/ InvalidCommand

-----------------------------------------------------------------------------
(***************************************************************************)
(* Dropping a link, timeouts, and the disconnected callback.               *)
(***************************************************************************)

\* ble_custom_service_initiate_disconnect takes the connection that is current
\* now; `after` is where the caller goes on when there is none.
InitiateDisconnect(after) ==
    worker' = IF svc.current_conn = NoConn
              THEN [worker EXCEPT !.step = after]
              ELSE [worker EXCEPT !.step = "dropping", !.target = svc.current_conn]

\* The 60 ms for the reply are over.
ReplySent ==
    /\ worker.step = "replied"
    /\ InitiateDisconnect(IF worker.restart THEN "restarting" ELSE "idle")
    /\ UNCHANGED <<set, svc, timer, queue, link, lost, cfg, clock, dfu_mode,
                   provisioned, faults>>

\* The 20 ms are over: bt_conn_disconnect, which fails on a link that is gone
\* already and may fail on a live one.
DropLink ==
    /\ worker.step = "dropping"
    /\ \/ /\ link[worker.target].state = "up"
          /\ link' = [link EXCEPT ![worker.target].state = "down"]
          /\ Submit(worker.target)
          /\ UNCHANGED faults
       \/ /\ link[worker.target].state # "up"
          /\ UNCHANGED <<link, queue, faults>>
       \/ /\ link[worker.target].state = "up"
          /\ faults < MaxFaults /\ faults' = faults + 1
          /\ UNCHANGED <<link, queue>>
    /\ worker' = [worker EXCEPT !.target = NoConn,
                     !.step = IF worker.restart THEN "restarting" ELSE "idle"]
    /\ UNCHANGED <<set, svc, timer, lost, cfg, clock, dfu_mode, provisioned>>

\* app_graceful_self_restart: whatever its own call of initiate_disconnect
\* does, the reset drops every link.
SelfRestart == worker.step = "restarting" /\ Boot(provisioned, clock.retained)

authorisation_timout_work_handler ==
    /\ WorkqueueFree
    /\ timer.authorisation
    /\ timer' = [timer EXCEPT !.authorisation = FALSE]
    /\ InitiateDisconnect("idle")
    /\ UNCHANGED <<set, svc, queue, link, lost, cfg, clock, dfu_mode,
                   provisioned, faults>>

connection_timout_work_handler ==
    /\ WorkqueueFree
    /\ timer.connection
    /\ timer' = [timer EXCEPT !.connection = FALSE]
    /\ InitiateDisconnect("idle")
    /\ UNCHANGED <<set, svc, queue, link, lost, cfg, clock, dfu_mode,
                   provisioned, faults>>

dfu_mode_timeout_work_handle ==
    /\ WorkqueueFree
    /\ timer.dfu
    /\ timer' = [timer EXCEPT !.dfu = FALSE]
    /\ dfu_mode' = FALSE
    /\ UNCHANGED <<set, svc, worker, queue, link, lost, cfg, clock,
                   provisioned, faults>>

\* The interval update and the restart of the set, in that order.
RelaunchOutcomes(update) ==
    UNION { { <<o[1], u[2] + o[2]>> : o \in ble_adv_custom_start(u[1], Room) } :
            u \in IF update THEN ble_adv_custom_update_interval(set, cfg.interval)
                  ELSE {<<set, 0>>} }

\* Mutant: the connection stays current.
Bug_conn_stays_current ==
    /\ svc' = [svc EXCEPT !.active_local_id = "none",
                          !.bool_AdvtIntervalUpdated = FALSE,
                          !.bool_UserAuthorization = FALSE]
    /\ timer' = [timer EXCEPT !.authorisation = FALSE, !.connection = FALSE]
    /\ TakeOutcome(RelaunchOutcomes(svc.bool_AdvtIntervalUpdated))

\* Mutant: the flag is taken, the interval is not updated.
Bug_interval_not_updated ==
    /\ svc' = [svc EXCEPT !.active_local_id = "none",
                          !.bool_AdvtIntervalUpdated = FALSE,
                          !.bool_UserAuthorization = FALSE,
                          !.current_conn = IF @ = Head(queue) THEN NoConn ELSE @]
    /\ timer' = [timer EXCEPT !.authorisation = FALSE, !.connection = FALSE]
    /\ TakeOutcome(RelaunchOutcomes(FALSE))

\* Mutant: the interval is updated, the set is not started again.
Bug_no_relaunch ==
    /\ svc' = [svc EXCEPT !.active_local_id = "none",
                          !.bool_AdvtIntervalUpdated = FALSE,
                          !.bool_UserAuthorization = FALSE,
                          !.current_conn = IF @ = Head(queue) THEN NoConn ELSE @]
    /\ timer' = [timer EXCEPT !.authorisation = FALSE, !.connection = FALSE]
    /\ TakeOutcome(IF svc.bool_AdvtIntervalUpdated
                   THEN ble_adv_custom_update_interval(set, cfg.interval)
                   ELSE {<<set, 0>>})

\* The last link that connected came through the Vision identity.
EndVisionSession ==
    /\ svc' = [svc EXCEPT !.active_local_id = "none",
                          !.bool_AdvtIntervalUpdated = FALSE,
                          !.bool_UserAuthorization = FALSE,
                          !.current_conn = IF @ = Head(queue) THEN NoConn ELSE @]
    /\ timer' = [timer EXCEPT !.authorisation = FALSE, !.connection = FALSE]
    /\ TakeOutcome(RelaunchOutcomes(svc.bool_AdvtIntervalUpdated))

\* The disconnected callback of link c.  While it runs c is not yet free.
Disconnected(c) ==
    /\ WorkqueueFree
    /\ queue # <<>> /\ Head(queue) = c
    /\ queue' = Tail(queue)
    /\ link' = [link EXCEPT ![c] = [state |-> "free", id |-> "other"]]
    /\ \/ svc.active_local_id = "vision" /\ EndVisionSession
       \/ /\ svc.active_local_id # "vision"
          /\ svc' = [svc EXCEPT !.current_conn = IF @ = c THEN NoConn ELSE @]
          /\ UNCHANGED <<set, timer, faults>>
    /\ UNCHANGED <<worker, lost, cfg, clock, dfu_mode, provisioned>>

-----------------------------------------------------------------------------
(***************************************************************************)
(* The energy-saving supervisor.                                           *)
(***************************************************************************)

TimePasses ==
    /\ \E w \in InsideWindow \ {clock.inside} : clock' = [clock EXCEPT !.inside = w]
    /\ UNCHANGED <<set, svc, timer, worker, queue, link, lost, cfg, dfu_mode,
                   provisioned, faults>>

\* time_supervisor_work_handler, every 60 s.
EnterWindow ==
    /\ WorkqueueFree
    /\ clock.bool_IsTimeSynchronized
    /\ clock.inside /\ ~clock.Advtflag
    /\ TakeOutcome(ble_adv_custom_stop(set))
    /\ clock' = [clock EXCEPT !.Advtflag = TRUE]
    /\ UNCHANGED <<svc, timer, worker, queue, link, lost, cfg, dfu_mode, provisioned>>

LeaveWindow ==
    /\ WorkqueueFree
    /\ clock.bool_IsTimeSynchronized
    /\ ~clock.inside /\ clock.Advtflag
    /\ TakeOutcome(ble_adv_custom_start(set, Room))
    /\ clock' = [clock EXCEPT !.Advtflag = FALSE]
    /\ UNCHANGED <<svc, timer, worker, queue, link, lost, cfg, dfu_mode, provisioned>>

-----------------------------------------------------------------------------
\* A tag whose frame has just been started, or that waits for provisioning.
Init ==
    /\ provisioned \in BOOLEAN
    /\ set = [ble_adv_custom_init EXCEPT !.on_air = provisioned,
                                         !.is_advertising = provisioned]
    /\ svc = ServiceBoot
    /\ timer = TimerBoot
    /\ worker = WorkerBoot
    /\ queue = <<>>
    /\ link = [c \in Conns |-> [state |-> "free", id |-> "other"]]
    /\ lost = {}
    /\ cfg = [interval |-> 2000, nvs |-> 2000, changed |-> FALSE]
    /\ clock = [bool_IsTimeSynchronized |-> FALSE, retained |-> FALSE,
                inside |-> FALSE, Advtflag |-> FALSE]
    /\ dfu_mode = FALSE
    /\ faults = 0

ReceiveThread ==
    \/ \E id \in Identities : ConnectFails(id)
    \/ \E c \in Conns :
        \/ \E id \in Identities : Connected(c, id)
        \/ \E cmd \in PeerCommands : write_incoming_char(c, cmd)
        \/ LinkDown(c)
        \/ Provision(c)
        \/ app_dfu_bt_gatt_operation_allow(c)

Workqueue ==
    \/ ParseAndReply
    \/ ReplySent
    \/ DropLink
    \/ SelfRestart
    \/ authorisation_timout_work_handler
    \/ connection_timout_work_handler
    \/ dfu_mode_timeout_work_handle
    \/ \E c \in Conns : Disconnected(c)
    \/ EnterWindow
    \/ LeaveWindow

Next == ReceiveThread \/ Workqueue \/ TimePasses \/ PowerLoss \/ FactoryReset

Spec == Init /\ [][Next]_vars

\* The workqueue thread is cooperative and runs whatever is ready; a delayed
\* item falls due.  Peers, power and the time of day owe nothing.
FairSpec ==
    /\ Spec
    /\ WF_vars(ParseAndReply)
    /\ WF_vars(ReplySent)
    /\ WF_vars(DropLink)
    /\ WF_vars(SelfRestart)
    /\ WF_vars(authorisation_timout_work_handler)
    /\ WF_vars(connection_timout_work_handler)
    /\ WF_vars(dfu_mode_timeout_work_handle)
    /\ WF_vars(\E c \in Conns : Disconnected(c))

-----------------------------------------------------------------------------
(***************************************************************************)
(* What holds whoever connects, in any order.                              *)
(***************************************************************************)

\* is_advertising is cleared by a link through any identity, so it may say
\* "stopped" of a set that is on the air.  The disconnected callback relies on
\* it only in its Vision branch (active_local_id is the Vision identity), and
\* there, as before any connection, it is not stale in that way: whatever calls
\* fail, short of a connection attempt, which clears the flag as well and leaves
\* active_local_id as it is.
FlagFresh ==
    ~set.missed /\ svc.active_local_id # "other" => (set.on_air => set.is_advertising)

\* A new advertising interval is never forgotten: until the set has it,
\* bool_AdvtIntervalUpdated stays set, through sessions of other peers and
\* through disconnections that are taken for the end of the Vision session.
\* Only a failing stack call, a failed connection attempt, or a boot (which starts
\* from the default), loses it.
IntervalNotLost ==
    faults = 0 /\ cfg.changed =>
        svc.bool_AdvtIntervalUpdated \/ set.interval_min = Ticks(cfg.interval)

\* current_conn, and the connection that initiate_disconnect holds while it
\* sleeps, never name a connection object that has been freed.
NoDanglingConn ==
    \A c \in {svc.current_conn, worker.target} \ {NoConn} : link[c].state # "free"

\* The DFU mode always has its timeout running: SMP access, a second request,
\* and the timeout itself leave no way to stay in it.
DfuBounded == dfu_mode => timer.dfu

-----------------------------------------------------------------------------
(***************************************************************************)
(* What holds as long as links do not overlap: peers use the Vision        *)
(* identity alone and the supervisor does not restart the set under a link. *)
(***************************************************************************)

\* A peer that is connected is under one of the two timeouts, or the worker is
\* on its way to drop it: before the password, after it, and after a command
\* that failed.
SessionTimed ==
    faults = 0 =>
        \A c \in Conns : link[c].state = "up" =>
            \/ worker.step # "idle"
            \/ ~svc.bool_UserAuthorization /\ timer.authorisation
            \/ svc.bool_UserAuthorization /\ timer.connection

\* A command never outlives the session it was written in: neither the sleeps of
\* the worker nor a peer that leaves at once let it wait for the next peer, who
\* would get its reply.  Nor is it thrown away for want of a connection.
CommandOfItsSession == svc.write # "none" => svc.current_conn # NoConn

\* A provisioned tag is reachable: its frame is on the air unless the
\* supervisor has stopped it or a link occupies it ("Restarts the connectable
\* advertisement set cleanly", vision_custom_services.c).
NeverSilent ==
    faults = 0 /\ provisioned =>
        \/ set.on_air
        \/ clock.Advtflag
        \/ \E c \in Conns : link[c].state # "free"

\* A link always ends and the frame of a provisioned tag comes back, however the
\* peer behaves, short of sending commands for ever: the timeouts see to it.
FrameComesBack ==
    (\E c \in Conns : link[c].state = "up") ~>
        (set.on_air \/ ~provisioned \/ []<>(svc.write # "none"))

-----------------------------------------------------------------------------
(***************************************************************************)
(* What the comments say and overlapping links refute.                     *)
(***************************************************************************)

\* "Halts the active advertiser immediately." (app_vision_advt.h, of
\* ble_adv_custom_stop): after the supervisor stopped the set without an error
\* it is off the air.
StopHalts ==
    [][ ~clock.Advtflag /\ clock'.Advtflag /\ faults' = faults
            => ~set'.on_air ]_vars

\* "Requests the link layer to cleanly isolate and drop the client session."
\* (app_vision_custom_services.h, of initiate_disconnect): the authorisation
\* timeout, which is scheduled for Vision links only, drops a Vision link.
DropsClientSession ==
    [][ worker.step = "idle" /\ worker'.step = "dropping"
          /\ timer.authorisation /\ ~timer'.authorisation
            => link[worker'.target].id = "vision" ]_vars

=============================================================================
