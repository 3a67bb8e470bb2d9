----------------------------- MODULE LocatorTag -----------------------------
(***************************************************************************)
(* The life of the locator tag: src/main.c and src/factory_reset.c on top  *)
(* of src/fp_adv.c (module FpAdv) and of the Fast Pair subsystem of the    *)
(* SDK, which is outside the repository and modelled from how the code     *)
(* uses it.                                                                *)
(*                                                                         *)
(* Two threads matter.  The system workqueue runs init_work_handle, the    *)
(* button handler, every delayable work and the disconnected callbacks, one *)
(* after the other.  The Bluetooth receive thread runs the connection, Fast *)
(* Pair and FMDN callbacks, and so also between two blocking calls of the  *)
(* boot sequence and of factory_reset_perform: both are split into steps.  *)
(*                                                                         *)
(* The chip can lose power at any step.  Only the Fast Pair data in flash  *)
(* survives; every static variable starts again from its initial value.    *)
(***************************************************************************)
EXTENDS FpAdv, Naturals

CONSTANTS
    MaxFaults,  \* bound on failing calls into the Bluetooth and Fast Pair stacks
    MaxLosses   \* bound on power losses

ASSUME BoundAssumption == MaxFaults \in Nat /\ MaxLosses \in Nat

VARIABLES
    adv,     \* statics of fp_adv.c
    app,     \* statics of main.c
    fr,      \* statics of factory_reset.c, and where factory_reset_perform is
    fp,      \* the Fast Pair subsystem: key, provisioned and wiping are in flash
    link,    \* state of every connection object
    boot,    \* how far init_work_handle has come
    faults,  \* failing calls so far
    losses   \* power losses so far

vars == <<adv, app, fr, fp, link, boot, faults, losses>>

\* enum factory_reset_trigger
ResetTriggers == {"NONE", "KEY_STATE_MISMATCH", "PROVISIONING_TIMEOUT"}

\* enum app_factory_reset_state
ResetStates == {"IDLE", "PENDING", "IN_PROGRESS"}

\* Where factory_reset_perform is: the call it makes next.
ResetSteps == {"idle", "disable_adv", "disable_fp", "mark", "erase",
               "enable_fp", "enable_adv", "executed", "reboot"}

\* What init_work_handle has done; "dead" when it returned early on an error.
BootSteps == {"start", "prepared", "fp_on", "adv_on", "up", "dead"}

\* "auth" is a link the peer has authenticated itself on; "down" is a lost
\* link whose disconnected callback has not run yet.
LinkStates == {"free", "up", "auth", "down"}

AppState == [
    fmdn_provisioned       : BOOLEAN,
    fp_account_key_present : BOOLEAN,
    fmdn_enable_flag       : BOOLEAN,
    fmdn_id_mode           : BOOLEAN,
    fp_adv_ui_request      : BOOLEAN,
    stop_discoverable_work : BOOLEAN,
    factory_reset_trigger  : ResetTriggers,
    fmdn_conn_auth_bm      : SUBSET Conns,
    vision_started         : BOOLEAN ]  \* ble_adv_custom_start() called

AppBoot == [
    fmdn_provisioned |-> FALSE, fp_account_key_present |-> FALSE,
    fmdn_enable_flag |-> FALSE, fmdn_id_mode |-> FALSE,
    fp_adv_ui_request |-> FALSE, stop_discoverable_work |-> FALSE,
    factory_reset_trigger |-> "NONE", fmdn_conn_auth_bm |-> {},
    vision_started |-> FALSE ]

ResetState == [
    state              : ResetStates,
    work               : BOOLEAN,      \* factory_reset_work scheduled
    ui_requested       : BOOLEAN,      \* factory_reset_ui_requested
    step               : ResetSteps,
    fast_pair_is_ready : BOOLEAN,      \* the two locals of
    fp_adv_is_ready    : BOOLEAN ]     \* factory_reset_perform

ResetBoot == [
    state |-> "IDLE", work |-> FALSE, ui_requested |-> FALSE, step |-> "idle",
    fast_pair_is_ready |-> FALSE, fp_adv_is_ready |-> FALSE ]

FpState == [
    ready       : BOOLEAN,
    key         : BOOLEAN,    \* an Account Key is stored
    provisioned : BOOLEAN,    \* an FMDN provisioning is stored
    wiping      : BOOLEAN,    \* a factory reset was begun and not finished
    id_mode     : BOOLEAN ]   \* DULT identification read mode

TypeOK ==
    /\ adv \in AdvState
    /\ app \in AppState
    /\ fr \in ResetState
    /\ fp \in FpState
    /\ link \in [Conns -> LinkStates]
    /\ boot \in BootSteps
    /\ faults \in 0..MaxFaults
    /\ losses \in 0..MaxLosses

-----------------------------------------------------------------------------
(***************************************************************************)
(* The environment: threads, faults, resets of the chip.                   *)
(***************************************************************************)

\* The system workqueue runs the next item: neither init_work_handle nor
\* factory_reset_perform occupies it.
WorkqueueFree == boot \in {"up", "dead"} /\ fr.step = "idle"

\* A call into the stack succeeds, or fails within the bound.
Succeeds == faults' = faults
Fails    == faults < MaxFaults /\ faults' = faults + 1

Answers(res) == IF res = "ok" THEN Succeeds ELSE Fails

Live(c) == link[c] \in {"up", "auth"}

\* sys_reboot(), k_panic() (the build resets on a fatal error) and power loss.
ChipReset ==
    /\ adv' = AdvBoot
    /\ app' = AppBoot
    /\ fr' = ResetBoot
    /\ fp' = [fp EXCEPT !.ready = FALSE, !.id_mode = FALSE]
    /\ link' = [c \in Conns |-> "free"]
    /\ boot' = "start"

PowerLoss ==
    /\ losses < MaxLosses
    /\ losses' = losses + 1
    /\ ChipReset
    /\ UNCHANGED faults

Panic == Fails /\ ChipReset /\ UNCHANGED losses

-----------------------------------------------------------------------------
(***************************************************************************)
(* The Fast Pair subsystem (external).                                     *)
(***************************************************************************)

\* An interrupted factory reset is completed before anything else.
bt_fast_pair_enable(f) ==
    IF f.wiping
    THEN [f EXCEPT !.ready = TRUE, !.wiping = FALSE, !.key = FALSE, !.provisioned = FALSE]
    ELSE [f EXCEPT !.ready = TRUE]

\* An active read mode is left: fmdn_read_mode_exited is called for it.
bt_fast_pair_disable(f) == [f EXCEPT !.ready = FALSE, !.id_mode = FALSE]

-----------------------------------------------------------------------------
(***************************************************************************)
(* factory_reset.c: scheduling.                                            *)
(***************************************************************************)

\* Mutant: the work is scheduled, the state is left alone.
Bug_schedule_stays_idle(r) ==
    IF r.state # "IDLE" THEN r ELSE [r EXCEPT !.work = TRUE]

\* Mutant: the state is set, the work is not scheduled.
Bug_schedule_without_work(r) ==
    IF r.state # "IDLE" THEN r ELSE [r EXCEPT !.state = "PENDING"]

app_factory_reset_schedule(r) ==
    IF r.state # "IDLE" THEN r ELSE [r EXCEPT !.state = "PENDING", !.work = TRUE]

app_factory_reset_cancel(r) ==
    IF r.state = "IN_PROGRESS" THEN r ELSE [r EXCEPT !.state = "IDLE", !.work = FALSE]

\* The head of factory_reset_perform; `ready` is bt_fast_pair_is_ready().
factory_reset_begin(r, ready, adv_ready) ==
    [r EXCEPT !.state = "IN_PROGRESS", !.work = FALSE, !.step = "disable_adv",
              !.fast_pair_is_ready = ready, !.fp_adv_is_ready = adv_ready]

-----------------------------------------------------------------------------
(***************************************************************************)
(* main.c: helpers.                                                        *)
(***************************************************************************)

\* Mutant: fmdn_enable_flag does not follow the provisioning.
Bug_flag_not_set(m, provisioned) ==
    IF m.fmdn_provisioned = provisioned THEN m
    ELSE [m EXCEPT !.fmdn_provisioned = provisioned, !.stop_discoverable_work = FALSE]

fmdn_provisioning_state_set(m, provisioned) ==
    IF m.fmdn_provisioned = provisioned THEN m
    ELSE [m EXCEPT !.fmdn_provisioned = provisioned,
                   !.fmdn_enable_flag = provisioned,
                   !.stop_discoverable_work = FALSE]

\* The prepare callback: every advertising request is dropped.
fmdn_factory_reset_prepare(a, res) ==
    app_fp_adv_request(
        app_fp_adv_request(
            app_fp_adv_request(a, "fmdn_provisioning", FALSE, res),
            "clock_sync", FALSE, res),
        "ui", FALSE, res)

\* Mutant: any scheduled reset is taken for the provisioning timeout.
Bug_any_trigger(m) == m.factory_reset_trigger # "NONE"

\* Whether fmdn_provisioning_state_changed(true) cancels the scheduled reset.
provisioning_timeout_scheduled(m) == m.factory_reset_trigger = "PROVISIONING_TIMEOUT"

\* Mutant: a connection keeps its bit when it goes.
Bug_auth_never_cleared(m, c, auth_flag) ==
    IF auth_flag THEN [m EXCEPT !.fmdn_conn_auth_bm = @ \cup {c}] ELSE m

fmdn_conn_auth_bm_conn_status_set(m, c, auth_flag) ==
    [m EXCEPT !.fmdn_conn_auth_bm = IF auth_flag THEN @ \cup {c} ELSE @ \ {c}]

\* identifying_info_allow() for a characteristic of the block list.
identifying_info_allow(c) ==
    \/ ~app.fmdn_provisioned
    \/ c \in app.fmdn_conn_auth_bm
    \/ app.fmdn_id_mode

-----------------------------------------------------------------------------
(***************************************************************************)
(* Boot: init_work_handle on the system workqueue.                         *)
(***************************************************************************)

\* init_work_handle returns early; main() waits for its semaphore in vain.
BootStops ==
    /\ Fails
    /\ boot' = "dead"
    /\ UNCHANGED <<app, fr, fp, link, losses>>

\* Everything up to and including app_factory_reset_init(), which performs a
\* reset that the user asked for before.
BootPrepare ==
    /\ boot = "start"
    /\ \/ /\ Succeeds
          /\ boot' = "prepared"
          /\ fr' = IF fr.ui_requested
                   THEN factory_reset_begin([fr EXCEPT !.ui_requested = FALSE], FALSE, FALSE)
                   ELSE fr
          /\ UNCHANGED <<adv, app, fp, link, losses>>
       \/ BootStops /\ UNCHANGED adv

BootEnableFastPair ==
    /\ boot = "prepared" /\ fr.step = "idle"
    /\ \/ /\ Succeeds
          /\ fp' = bt_fast_pair_enable(fp)
          /\ boot' = "fp_on"
          /\ UNCHANGED <<adv, app, fr, link, losses>>
       \/ BootStops /\ UNCHANGED adv

BootEnableAdv ==
    /\ boot = "fp_on"
    /\ \/ \E res \in StackResults :
            /\ Answers(res)
            /\ adv' = app_fp_adv_enable(adv, fp.key, fp.provisioned, "none", res)
            /\ boot' = "adv_on"
            /\ UNCHANGED <<app, fr, fp, link, losses>>
       \/ \E fail \in {"create", "rotate"} :
            /\ adv' = app_fp_adv_enable(adv, fp.key, fp.provisioned, fail, "ok")
            /\ ~adv'.is_enabled
            /\ BootStops

\* fmdn_provisioning_state_init(), and the rest of init_work_handle.
BootStateInit ==
    LET m == [fmdn_provisioning_state_set(app, fp.provisioned)
                EXCEPT !.fp_account_key_present = fp.key]
    IN
    /\ boot = "adv_on"
    /\ boot' = "up"
    /\ IF fp.key # fp.provisioned
       THEN /\ fr' = app_factory_reset_schedule(fr)
            /\ app' = [m EXCEPT !.factory_reset_trigger = "KEY_STATE_MISMATCH"]
       ELSE /\ app' = [m EXCEPT !.vision_started = @ \/ fp.provisioned]
            /\ UNCHANGED fr
    /\ UNCHANGED <<adv, fp, link, faults, losses>>

\* Mutant: main() waits for ever.
Bug_no_init_timeout == boot = "dead" /\ UNCHANGED vars

\* main(): no semaphore within INIT_SEM_TIMEOUT, k_panic().
InitTimeout ==
    /\ boot = "dead"
    /\ ChipReset
    /\ UNCHANGED <<faults, losses>>

-----------------------------------------------------------------------------
(***************************************************************************)
(* Connections.                                                            *)
(***************************************************************************)

\* Through which advertising set a peer can connect: the Fast Pair set, the
\* FMDN set of the SDK, or the Vision set.
OnAir(via) ==
    \/ via = "fp" /\ adv.fp_adv_set_active
    \/ via = "fmdn" /\ fp.ready /\ fp.provisioned
    \/ via = "vision" /\ app.vision_started

Connect(c, via) ==
    /\ link[c] = "free"
    /\ OnAir(via)
    /\ link' = [link EXCEPT ![c] = "up"]
    /\ adv' = connected(IF via = "fp" THEN fp_adv_connected(adv, c) ELSE adv, FALSE)
    /\ UNCHANGED <<app, fr, fp, boot, faults, losses>>

\* The connected callback with an error, for whichever set it was.
ConnectFails(via) ==
    /\ Fails
    /\ OnAir(via)
    /\ adv' = connected(adv, TRUE)
    /\ UNCHANGED <<app, fr, fp, link, boot, losses>>

\* security_changed() at level 2, or fmdn_conn_authenticated().
Authenticate(c) ==
    /\ link[c] = "up"
    /\ link' = [link EXCEPT ![c] = "auth"]
    /\ app' = fmdn_conn_auth_bm_conn_status_set(app, c, TRUE)
    /\ UNCHANGED <<adv, fr, fp, boot, faults, losses>>

\* The link is lost; the callbacks wait for the system workqueue.
LinkDown(c) ==
    /\ Live(c)
    /\ link' = [link EXCEPT ![c] = "down"]
    /\ UNCHANGED <<adv, app, fr, fp, boot, faults, losses>>

\* The disconnected callbacks of fp_adv.c and of main.c.
Disconnected(c) ==
    /\ WorkqueueFree
    /\ link[c] = "down"
    /\ link' = [link EXCEPT ![c] = "free"]
    /\ adv' = disconnected(adv, c)
    /\ app' = fmdn_conn_auth_bm_conn_status_set(app, c, FALSE)
    /\ UNCHANGED <<fr, fp, boot, faults, losses>>

-----------------------------------------------------------------------------
(***************************************************************************)
(* Fast Pair and FMDN callbacks, on behalf of a connected peer.  fp_adv.c  *)
(* registers its callbacks before main.c and is called first.              *)
(***************************************************************************)

PeerConnected == \E c \in Conns : Live(c)

\* fp_adv_account_key_written(), then fp_account_key_written().  Left out: a
\* second key before main.c knows of the first.  A pairing does not fit between
\* bt_fast_pair_enable() and the end of the boot; in a boot that gave up it does,
\* but main restarts the tag before the timeout this would arm falls due.
AccountKeyWritten(res) ==
    LET first == ~app.fp_account_key_present
        a     == fp_adv_account_key_written(adv, TRUE)
    IN
    /\ fp.ready /\ PeerConnected
    /\ fp.key => boot = "up"
    /\ Answers(res)
    /\ fp' = [fp EXCEPT !.key = TRUE]
    /\ IF first
       THEN /\ adv' = app_fp_adv_request(a, "fmdn_provisioning", TRUE, res)
            /\ fr' = app_factory_reset_schedule(fr)
            /\ app' = [app EXCEPT !.fp_account_key_present = TRUE,
                                  !.factory_reset_trigger = "PROVISIONING_TIMEOUT"]
       ELSE /\ adv' = a
            /\ UNCHANGED <<app, fr>>
    /\ UNCHANGED <<link, boot, losses>>

\* provisioning_state_changed(true): the owner provisions with the Account Key.
Provisioned(res) ==
    LET a == fp_adv_provisioning_state_changed(adv, TRUE, res)
        b == app_fp_adv_request(a, "fmdn_provisioning", FALSE, res)
        m == fmdn_provisioning_state_set(app, TRUE)
        timeout == provisioning_timeout_scheduled(app)
    IN
    /\ fp.ready /\ fp.key /\ ~fp.provisioned /\ PeerConnected
    /\ Answers(res)
    /\ fp' = [fp EXCEPT !.provisioned = TRUE]
    /\ fr' = IF timeout THEN app_factory_reset_cancel(fr) ELSE fr
    /\ adv' = app_fp_adv_request(b, "ui", FALSE, res)
    /\ app' = [m EXCEPT !.factory_reset_trigger = IF timeout THEN "NONE" ELSE @,
                        !.fp_adv_ui_request = FALSE,
                        !.vision_started = TRUE]
    /\ UNCHANGED <<link, boot, losses>>

\* provisioning_state_changed(false): the reset follows after
\* FACTORY_RESET_DELAY.
Unprovisioned(res) ==
    LET a == fp_adv_provisioning_state_changed(adv, FALSE, res) IN
    /\ fp.ready /\ fp.provisioned /\ PeerConnected
    /\ Answers(res)
    /\ fp' = [fp EXCEPT !.provisioned = FALSE]
    /\ fr' = app_factory_reset_schedule(fr)
    /\ adv' = app_fp_adv_request(a, "clock_sync", FALSE, res)
    /\ app' = [fmdn_provisioning_state_set(app, FALSE)
                 EXCEPT !.factory_reset_trigger = "KEY_STATE_MISMATCH"]
    /\ UNCHANGED <<link, boot, losses>>

\* fmdn_clock_synced(): the clock_sync request, which nothing enables, is
\* withdrawn.
ClockSynced(res) ==
    /\ fp.ready /\ fp.provisioned /\ PeerConnected
    /\ app.fmdn_provisioned
    /\ Answers(res)
    /\ adv' = app_fp_adv_request(adv, "clock_sync", FALSE, res)
    /\ UNCHANGED <<app, fr, fp, link, boot, losses>>

\* The stack leaves the identification mode: fmdn_id_mode_exited().
IdModeExited ==
    /\ fp.id_mode
    /\ fp' = [fp EXCEPT !.id_mode = FALSE]
    /\ app' = [app EXCEPT !.fmdn_id_mode = FALSE]
    /\ UNCHANGED <<adv, fr, link, boot, faults, losses>>

\* The address of the Fast Pair set is due for rotation.
RpaExpired(res) ==
    /\ adv.fp_adv_set
    /\ Answers(res)
    /\ adv' = fp_adv_rpa_expired(adv, res)
    /\ UNCHANGED <<app, fr, fp, link, boot, losses>>

-----------------------------------------------------------------------------
(***************************************************************************)
(* Button requests, handled by fmdn_mode_request_handle and by             *)
(* factory_reset_request_handle.                                           *)
(***************************************************************************)

\* Mutant: the timeout is armed when the request is withdrawn.
Bug_timeout_arms_swapped(res) ==
    /\ WorkqueueFree
    /\ ~app.fmdn_provisioned
    /\ Answers(res)
    /\ adv' = app_fp_adv_request(adv, "ui", ~app.fp_adv_ui_request, res)
    /\ app' = [app EXCEPT !.fp_adv_ui_request = ~@,
                          !.stop_discoverable_work = app.fp_adv_ui_request]
    /\ UNCHANGED <<fr, fp, link, boot, losses>>

FpAdvModeChange(res) ==
    /\ WorkqueueFree
    /\ ~app.fmdn_provisioned
    /\ Answers(res)
    /\ adv' = app_fp_adv_request(adv, "ui", ~app.fp_adv_ui_request, res)
    /\ app' = [app EXCEPT !.fp_adv_ui_request = ~@,
                          !.stop_discoverable_work = ~app.fp_adv_ui_request]
    /\ UNCHANGED <<fr, fp, link, boot, losses>>

\* fmdn_advt_mode_change_handle().  When neither the disable nor the enable
\* call is made, `err` is read uninitialised and the outcome is arbitrary.
FmdnAdvModeChange ==
    LET flag == ~app.fmdn_enable_flag IN
    /\ WorkqueueFree
    /\ app.fmdn_provisioned
    /\ \/ /\ Succeeds
          /\ fp' = IF flag THEN bt_fast_pair_enable(fp) ELSE bt_fast_pair_disable(fp)
          /\ adv' = IF flag THEN adv ELSE app_fp_adv_request(adv, "clock_sync", FALSE, "ok")
          /\ app' = [app EXCEPT !.fmdn_enable_flag = flag,
                                !.fmdn_id_mode = @ /\ flag]
          /\ UNCHANGED <<fr, link, boot, losses>>
       \/ /\ IF flag = fp.ready THEN Succeeds ELSE Fails
          /\ ChipReset
          /\ UNCHANGED losses

\* fmdn_id_mode_action_handle(): the stack refuses while it is disabled.
IdModeEnter ==
    /\ WorkqueueFree
    /\ app.fmdn_provisioned
    /\ fp.ready
    /\ fp' = [fp EXCEPT !.id_mode = TRUE]
    /\ app' = [app EXCEPT !.fmdn_id_mode = TRUE]
    /\ UNCHANGED <<adv, fr, link, boot, faults, losses>>

FactoryResetRequest ==
    /\ WorkqueueFree
    /\ fr' = [fr EXCEPT !.ui_requested = TRUE]
    /\ UNCHANGED <<adv, app, fp, link, boot, faults, losses>>

-----------------------------------------------------------------------------
(***************************************************************************)
(* Work items of the system workqueue.                                     *)
(***************************************************************************)

StopDiscoverable(res) ==
    /\ WorkqueueFree
    /\ app.stop_discoverable_work
    /\ Answers(res)
    /\ adv' = app_fp_adv_request(adv, "ui", FALSE, res)
    /\ app' = [app EXCEPT !.fp_adv_ui_request = FALSE, !.stop_discoverable_work = FALSE]
    /\ UNCHANGED <<fr, fp, link, boot, losses>>

RestartAdvertising(res) ==
    /\ WorkqueueFree
    /\ adv.restart_work
    /\ Answers(res)
    /\ adv' = fp_adv_restart_work_handle(adv, res)
    /\ UNCHANGED <<app, fr, fp, link, boot, losses>>

SuspensionTimeout ==
    /\ WorkqueueFree
    /\ adv.suspension_work
    /\ adv' = fp_adv_rpa_suspension_work_handle(adv)
    /\ UNCHANGED <<app, fr, fp, link, boot, faults, losses>>

-----------------------------------------------------------------------------
(***************************************************************************)
(* factory_reset_perform, one step per call it makes.  Each call may fail, *)
(* and then the chip is reset by k_panic().                                *)
(***************************************************************************)

At(step)   == fr.step = step
Goto(step) == fr' = [fr EXCEPT !.step = step]

ResetBegin(res) ==
    /\ WorkqueueFree
    /\ fr.work
    /\ Answers(res)
    /\ fr' = factory_reset_begin(fr, fp.ready, app_fp_adv_is_ready(adv))
    /\ adv' = fmdn_factory_reset_prepare(adv, res)
    /\ app' = [app EXCEPT !.fp_adv_ui_request = FALSE]
    /\ UNCHANGED <<fp, link, boot, losses>>

\* An advertising command that fails leaves the set active, so that it cannot
\* be deleted.
ResetDisableAdv ==
    LET fails == fr.fp_adv_is_ready /\ app_fp_adv_disable_fails(adv, "ok", "none") IN
    /\ At("disable_adv")
    /\ \/ /\ Succeeds
          /\ ~fails
          /\ adv' = IF fr.fp_adv_is_ready THEN app_fp_adv_disable(adv, "ok", "none") ELSE adv
          /\ Goto("disable_fp")
          /\ UNCHANGED <<app, fp, link, boot, losses>>
       \/ /\ fr.fp_adv_is_ready
          /\ IF fails THEN Succeeds ELSE Fails
          /\ ChipReset
          /\ UNCHANGED losses

ResetDisableFastPair ==
    /\ At("disable_fp")
    /\ \/ /\ Succeeds
          /\ fp' = IF fr.fast_pair_is_ready THEN bt_fast_pair_disable(fp) ELSE fp
          /\ app' = [app EXCEPT !.fmdn_id_mode = @ /\ fp'.id_mode]
          /\ Goto("mark")
          /\ UNCHANGED <<adv, link, boot, losses>>
       \/ fr.fast_pair_is_ready /\ Panic

\* bt_fast_pair_factory_reset(): mark the reset as begun, erase the two
\* records in either order, perform the user action, drop the mark.
ResetMark ==
    /\ At("mark")
    /\ \/ /\ Succeeds
          /\ fp' = [fp EXCEPT !.wiping = TRUE]
          /\ Goto("erase")
          /\ UNCHANGED <<adv, app, link, boot, losses>>
       \/ Panic

ResetErase ==
    /\ At("erase")
    /\ \/ fp.key /\ fp' = [fp EXCEPT !.key = FALSE]
       \/ fp.provisioned /\ fp' = [fp EXCEPT !.provisioned = FALSE]
    /\ UNCHANGED <<adv, app, fr, link, boot, faults, losses>>

ResetErased ==
    /\ At("erase")
    /\ ~fp.key /\ ~fp.provisioned
    /\ \/ /\ Succeeds
          /\ fp' = [fp EXCEPT !.wiping = FALSE]
          /\ Goto("enable_fp")
          /\ UNCHANGED <<adv, app, link, boot, losses>>
       \/ Panic

ResetEnableFastPair ==
    /\ At("enable_fp")
    /\ \/ /\ Succeeds
          /\ fp' = IF fr.fast_pair_is_ready THEN bt_fast_pair_enable(fp) ELSE fp
          /\ Goto("enable_adv")
          /\ UNCHANGED <<adv, app, link, boot, losses>>
       \/ fr.fast_pair_is_ready /\ Panic

ResetEnableAdv ==
    /\ At("enable_adv")
    /\ \/ \E res \in StackResults :
            /\ Answers(res)
            /\ adv' = IF fr.fp_adv_is_ready
                      THEN app_fp_adv_enable(adv, fp.key, fp.provisioned, "none", res)
                      ELSE adv
            /\ Goto("executed")
            /\ UNCHANGED <<app, fp, link, boot, losses>>
       \/ fr.fp_adv_is_ready /\ Panic

\* fmdn_factory_reset_executed().
ResetExecuted ==
    /\ At("executed")
    /\ app' = [app EXCEPT !.factory_reset_trigger = "NONE",
                          !.fp_account_key_present = IF fp.ready THEN fp.key ELSE @]
    /\ fr' = [fr EXCEPT !.state = "IDLE", !.step = "reboot"]
    /\ UNCHANGED <<adv, fp, link, boot, faults, losses>>

ResetReboot ==
    /\ At("reboot")
    /\ ChipReset
    /\ UNCHANGED <<faults, losses>>

-----------------------------------------------------------------------------

\* The tag leaves the factory with no key and no provisioning.
Init ==
    /\ adv = AdvBoot
    /\ app = AppBoot
    /\ fr = ResetBoot
    /\ fp = [ready |-> FALSE, key |-> FALSE, provisioned |-> FALSE,
             wiping |-> FALSE, id_mode |-> FALSE]
    /\ link = [c \in Conns |-> "free"]
    /\ boot = "start"
    /\ faults = 0
    /\ losses = 0

Boot == BootPrepare \/ BootEnableFastPair \/ BootEnableAdv \/ BootStateInit \/ InitTimeout

Links ==
    \/ \E c \in Conns, via \in {"fp", "fmdn", "vision"} : Connect(c, via)
    \/ \E via \in {"fp", "fmdn", "vision"} : ConnectFails(via)
    \/ \E c \in Conns : Authenticate(c) \/ LinkDown(c) \/ Disconnected(c)

Callbacks ==
    \/ \E res \in StackResults :
         \/ AccountKeyWritten(res)
         \/ Provisioned(res)
         \/ Unprovisioned(res)
         \/ ClockSynced(res)
         \/ RpaExpired(res)
    \/ IdModeExited

Buttons ==
    \/ \E res \in StackResults : FpAdvModeChange(res)
    \/ FmdnAdvModeChange
    \/ IdModeEnter
    \/ FactoryResetRequest

Works ==
    \/ \E res \in StackResults : StopDiscoverable(res) \/ RestartAdvertising(res)
    \/ SuspensionTimeout

Reset ==
    \/ \E res \in StackResults : ResetBegin(res)
    \/ ResetDisableAdv
    \/ ResetDisableFastPair
    \/ ResetMark
    \/ ResetErase
    \/ ResetErased
    \/ ResetEnableFastPair
    \/ ResetEnableAdv
    \/ ResetExecuted
    \/ ResetReboot

Next == Boot \/ Links \/ Callbacks \/ Buttons \/ Works \/ Reset \/ PowerLoss

Spec == Init /\ [][Next]_vars

\* Boot and reset run to their end once begun, and timers that are armed fire.
Fairness ==
    /\ WF_vars(Boot)
    /\ WF_vars(Reset)
    /\ WF_vars(\E res \in StackResults : StopDiscoverable(res))
    /\ WF_vars(\E res \in StackResults : RestartAdvertising(res))

FairSpec == Spec /\ Fairness

-----------------------------------------------------------------------------
(***************************************************************************)
(* Safety.                                                                 *)
(***************************************************************************)

\* A running tag whose Account Key and FMDN provisioning do not match always
\* has a factory reset pending or in progress: by the provisioning timeout,
\* after an unprovisioning, or by the check fmdn_provisioning_state_init makes
\* at boot, whatever power losses came between.
MismatchGuarded ==
    boot = "up" /\ fp.key # fp.provisioned => fr.state # "IDLE" \/ At("reboot")

\* A reset that waits for the provisioning timeout never waits on a
\* provisioned tag: fmdn_provisioning_state_changed has cancelled it in time.
TimeoutOnlyUnprovisioned ==
    app.factory_reset_trigger = "PROVISIONING_TIMEOUT" => ~fp.provisioned

\* Outside a reset, main.c, fp_adv.c and the Fast Pair subsystem agree on the
\* Account Key and on the provisioning, which each of them keeps for itself.
CopiesAgree ==
    boot = "up" /\ fr.step = "idle" =>
        /\ app.fmdn_provisioned = fp.provisioned
        /\ adv.fmdn_provisioned = fp.provisioned
        /\ app.fp_account_key_present = fp.key
        /\ adv.fp_account_key_present = fp.key

\* While fp_adv.c is enabled its mode is the one the requests and the Account
\* Key ask for, although a written key does not itself update the mode.
ModeMatchesRequests == adv.is_enabled => adv.fp_adv_mode = requested_mode(adv)

\* With no failing command, an enabled module without a connection and without
\* a queued restart advertises exactly when its mode is not off, and what it
\* advertises announces that mode.
AdvertisingMatchesMode ==
    /\ faults = 0
    /\ adv.is_enabled /\ adv.fp_conn = NoConn /\ ~adv.restart_work
    => /\ adv.fp_adv_set_active = (adv.fp_adv_mode # "off")
       /\ adv.fp_adv_set_active => adv.payload = adv.fp_adv_mode

\* A request of the user for discoverable advertising stands in fp_adv.c only
\* as long as main.c holds it too and has the timeout that withdraws it armed.
ManualRequestTimesOut ==
    /\ "ui" \in adv.fp_adv_request_bm <=> app.fp_adv_ui_request
    /\ app.fp_adv_ui_request => app.stop_discoverable_work

\* On a provisioned tag fmdn_enable_flag says whether the Fast Pair subsystem
\* is on, so that fmdn_advt_mode_change_handle always makes the call that
\* assigns its `err`.
EnableFlagTracksStack ==
    app.fmdn_provisioned /\ fr.step = "idle" => app.fmdn_enable_flag = fp.ready

\* Discoverable advertising uses an interval of at most 100 ms, although the
\* interval is chosen when the set is created and the key can change later.
DiscoverableInterval ==
    adv.fp_adv_set /\ adv.fp_adv_mode = "disc" => adv.interval <= 100

\* On a running provisioned tag a peer that has not authenticated itself on
\* this very link cannot read identifying information outside the
\* identification mode, whoever used the connection object before.
IdentifyingInfoProtected ==
    \A c \in Conns :
        boot = "up" /\ fp.provisioned /\ link[c] = "up" /\ ~fp.id_mode
            => ~identifying_info_allow(c)

\* fp_adv_connected, fp_adv_restart_work_handle and fp_adv_mode_set find the
\* advertising set where they assert it: no mode but "off" without a set.
SetExists == adv.fp_adv_mode # "off" \/ adv.fp_adv_set_active => adv.fp_adv_set

(***************************************************************************)
(* Action properties.                                                      *)
(***************************************************************************)

\* From the first Account Key write until the provisioning or the end of the
\* five minutes the address of the Fast Pair set does not rotate.
SuspendedAddressStable ==
    [][adv.suspension_work /\ adv'.suspension_work => adv'.rpa = adv.rpa]_vars

(***************************************************************************)
(* Liveness.                                                               *)
(***************************************************************************)

\* The Fast Pair set advertises over its live connection (README, findings).
AdvertisingWhileConnected == adv.fp_adv_set_active /\ adv.fp_conn # NoConn

\* A key without a provisioning does not stay: the owner provisions the tag,
\* or a factory reset erases the key, also across power losses and failures.
\* The one exception is a peer that connects between a disconnection and the
\* restart it queued, again and again: the reset cannot then delete the set.
OrphanKeyResolved ==
    \/ (fp.key /\ ~fp.provisioned) ~> (fp.key = fp.provisioned)
    \/ []<>AdvertisingWhileConnected

\* The user's request for discoverable advertising comes to an end.
ManualRequestEnds == ("ui" \in adv.fp_adv_request_bm) ~> ("ui" \notin adv.fp_adv_request_bm)

-----------------------------------------------------------------------------
(***************************************************************************)
(* What comments, assertions and the documentation of the repository say,  *)
(* and the code does not do.                                               *)
(***************************************************************************)

\* main.c:171, an assertion in fmdn_factory_reset_executed: the tag is not
\* provisioned once a factory reset has been executed.
ExecutedUnprovisioned == At("executed") => ~app.fmdn_provisioned

\* README.rst:136, fp_adv.c:286 and fp_adv.c:613: the Fast Pair set does not
\* advertise while it has a connection.
NoAdvertisingWhileConnected == adv.fp_adv_set_active => adv.fp_conn = NoConn

\* README.rst:119: the beacon clock synchronization trigger requests Fast Pair
\* advertising after the system bootup if the device is provisioned.
ClockSyncAfterBoot ==
    [][boot = "adv_on" /\ boot' = "up" /\ fp.key /\ fp.provisioned
         => "clock_sync" \in adv'.fp_adv_request_bm]_vars

\* app_ui.h:55 and platform_SBT.c:379: the factory reset the user requests with
\* the button is initiated, so that a provisioned tag forgets its owner.
UserResetHonoured == (fr.ui_requested /\ fp.provisioned) ~> ~fp.provisioned

=============================================================================
