-------------------------- MODULE LocatorTagProofs --------------------------
(***************************************************************************)
(* Proofs about LocatorTag, for any number of connections, failing calls   *)
(* and power losses.                                                       *)
(***************************************************************************)
EXTENDS LocatorTag, TLAPS

-----------------------------------------------------------------------------
(***************************************************************************)
(* Types: the operators of FpAdv map records of AdvState to records of     *)
(* AdvState.                                                               *)
(***************************************************************************)

\* The advertising update, whatever the stack answers, keeps the type.
LEMMA UpdateType ==
    ASSUME NEW a \in AdvState, NEW res
    PROVE  fp_advertising_update(a, res) \in AdvState
<1>1. bt_stack_advertising_stop(a, res) \in AdvState
  BY DEF bt_stack_advertising_stop, AdvState
<1>2. fp_adv_payload_set(a, res) \in AdvState
  BY DEF fp_adv_payload_set, AdvState
<1>3. ASSUME NEW b \in AdvState
      PROVE  bt_stack_advertising_start(b, res) \in AdvState
  BY DEF bt_stack_advertising_start, AdvState
<1>. QED  BY <1>1, <1>2, <1>3 DEF fp_advertising_update, bt_stack_advertising_update

\* fp_adv_mode_set keeps the statics of fp_adv.c typed.
LEMMA ModeSetType ==
    ASSUME NEW a \in AdvState, NEW mode \in Modes, NEW res
    PROVE  fp_adv_mode_set(a, mode, res) \in AdvState
<1>1. [a EXCEPT !.fp_adv_mode = mode] \in AdvState
  BY DEF AdvState
<1>. QED  BY <1>1, UpdateType DEF fp_adv_mode_set

\* So does fp_adv_mode_update, which only chooses the mode.
LEMMA ModeUpdateType ==
    ASSUME NEW a \in AdvState, NEW res
    PROVE  fp_adv_mode_update(a, res) \in AdvState
<1>1. requested_mode(a) \in Modes
  BY DEF requested_mode, Modes
<1>. QED  BY <1>1, ModeSetType DEF fp_adv_mode_update

\* app_fp_adv_request keeps the statics typed, whether or not it changes the
\* mode.
LEMMA RequestType ==
    ASSUME NEW a \in AdvState, NEW t \in Triggers, NEW enable \in BOOLEAN, NEW res
    PROVE  app_fp_adv_request(a, t, enable, res) \in AdvState
<1>1. [a EXCEPT !.fp_adv_request_bm = IF enable THEN @ \cup {t} ELSE @ \ {t}] \in AdvState
  BY DEF AdvState
<1>. QED  BY <1>1, ModeUpdateType DEF app_fp_adv_request

\* The expiry callback of the address keeps the statics typed, rotated or not.
LEMMA RpaExpiredType ==
    ASSUME NEW a \in AdvState, NEW res
    PROVE  fp_adv_rpa_expired(a, res) \in AdvState
<1>. DEFINE b == [a EXCEPT !.rpa = IF expire_rpa(a) THEN ~@ ELSE @]
<1>1. (IF expire_rpa(a) THEN ~a.rpa ELSE a.rpa) \in BOOLEAN
  BY DEF AdvState
<1>2. b \in AdvState
  BY <1>1 DEF AdvState
<1>. HIDE DEF b
<1>3. fp_adv_payload_set(b, res) \in AdvState
  BY <1>2 DEF fp_adv_payload_set, AdvState
<1>. QED  BY <1>2, <1>3 DEF fp_adv_rpa_expired, b

\* The connection callbacks of fp_adv.c keep its statics typed.
LEMMA LinkType ==
    ASSUME NEW a \in AdvState, NEW c \in Conns, NEW err
    PROVE  /\ connected(a, err) \in AdvState
           /\ connected(fp_adv_connected(a, c), err) \in AdvState
           /\ disconnected(a, c) \in AdvState
<1>1. connected(a, err) \in AdvState
  BY DEF connected, AdvState
<1>2. fp_adv_connected(a, c) \in AdvState
  BY DEF fp_adv_connected, AdvState
<1>3. connected(fp_adv_connected(a, c), err) \in AdvState
  BY <1>2 DEF connected, AdvState
<1>4. disconnected(a, c) \in AdvState
  BY DEF disconnected, AdvState
<1>. QED  BY <1>1, <1>3, <1>4

\* The work handlers of fp_adv.c keep its statics typed.
LEMMA WorkType ==
    ASSUME NEW a \in AdvState, NEW res
    PROVE  /\ fp_adv_restart_work_handle(a, res) \in AdvState
           /\ fp_adv_rpa_suspension_work_handle(a) \in AdvState
           /\ fp_adv_rpa_suspension_cancel(a) \in AdvState
<1>1. [a EXCEPT !.restart_work = FALSE] \in AdvState
  BY DEF AdvState
<1>2. fp_adv_restart_work_handle(a, res) \in AdvState
  BY <1>1, UpdateType DEF fp_adv_restart_work_handle
<1>3. fp_adv_rpa_suspension_work_handle(a) \in AdvState
  BY DEF fp_adv_rpa_suspension_work_handle, AdvState
<1>4. fp_adv_rpa_suspension_cancel(a) \in AdvState
  BY DEF fp_adv_rpa_suspension_cancel, AdvState
<1>. QED  BY <1>2, <1>3, <1>4

\* The Fast Pair and FMDN callbacks of fp_adv.c keep its statics typed.
LEMMA CallbackType ==
    ASSUME NEW a \in AdvState, NEW p \in BOOLEAN, NEW key \in BOOLEAN, NEW res
    PROVE  /\ fp_adv_provisioning_state_changed(a, p, res) \in AdvState
           /\ fp_adv_account_key_written(a, key) \in AdvState
<1>1. [a EXCEPT !.fmdn_provisioned = p] \in AdvState
  BY DEF AdvState
<1>2. fp_adv_provisioning_state_changed(a, p, res) \in AdvState
  BY <1>1, WorkType, RpaExpiredType
     DEF fp_adv_provisioning_state_changed, fp_adv_set_rotate
<1>3. fp_adv_account_key_written(a, key) \in AdvState
  <2>. DEFINE first == ~a.fmdn_provisioned /\ ~a.fp_account_key_present /\ app_fp_adv_is_ready(a)
  <2>1. (a.rpa_suspended \/ first) \in BOOLEAN /\ (a.suspension_work \/ first) \in BOOLEAN
    OBVIOUS
  <2>2. fp_adv_account_key_written(a, key) =
          [a EXCEPT !.rpa_suspended = a.rpa_suspended \/ first,
                    !.suspension_work = a.suspension_work \/ first,
                    !.fp_account_key_present = key]
    BY DEF fp_adv_account_key_written
  <2>. HIDE DEF first
  <2>. QED  BY <2>1, <2>2 DEF AdvState
<1>. QED  BY <1>2, <1>3

\* Creating and deleting the advertising set keeps the statics typed.
LEMMA SetupType ==
    ASSUME NEW a \in AdvState
    PROVE  fp_adv_set_setup(a) \in AdvState
<1>1. (IF a.fp_account_key_present THEN 250 ELSE 100) \in Intervals
  BY DEF Intervals
<1>2. ASSUME NEW i \in Intervals
      PROVE  [a EXCEPT !.interval = i, !.fp_adv_set = TRUE, !.payload = "off"] \in AdvState
  BY DEF AdvState, Modes
<1>. QED  BY <1>1, <1>2 DEF fp_adv_set_setup

\* app_fp_adv_enable keeps the statics typed, on its error paths too.
LEMMA EnableType ==
    ASSUME NEW a \in AdvState, NEW key \in BOOLEAN, NEW p \in BOOLEAN, NEW fail, NEW res
    PROVE  app_fp_adv_enable(a, key, p, fail, res) \in AdvState
<1>. DEFINE b == [a EXCEPT !.fp_account_key_present = key, !.fmdn_provisioned = p]
            c == fp_adv_set_setup(b)
            d == IF p THEN c ELSE fp_adv_rpa_expired(c, "ok")
<1>1. b \in AdvState
  BY DEF AdvState
<1>2. c \in AdvState
  BY <1>1, SetupType
<1>3. d \in AdvState
  BY <1>2, RpaExpiredType
<1>4. [fp_adv_mode_update(d, res) EXCEPT !.is_enabled = TRUE] \in AdvState
  <2>1. fp_adv_mode_update(d, res) \in AdvState
    BY <1>3, ModeUpdateType
  <2>. QED  BY <2>1 DEF AdvState
<1>5. [b EXCEPT !.interval = c.interval] \in AdvState
  BY <1>1, <1>2 DEF AdvState
<1>6. fp_adv_set_teardown(c) \in AdvState
  BY <1>2 DEF fp_adv_set_teardown, AdvState, Modes
<1>. HIDE DEF b, c, d
<1>. QED  BY <1>4, <1>5, <1>6 DEF app_fp_adv_enable, b, c, d

\* app_fp_adv_disable keeps the statics typed, on its error paths too.
LEMMA DisableType ==
    ASSUME NEW a \in AdvState, NEW res, NEW fail
    PROVE  app_fp_adv_disable(a, res, fail) \in AdvState
<1>. DEFINE b == [a EXCEPT !.is_enabled = FALSE]
            c == fp_adv_mode_set(fp_adv_rpa_suspension_cancel(b), "off", res)
<1>1. b \in AdvState
  BY DEF AdvState
<1>2. c \in AdvState
  BY <1>1, WorkType, ModeSetType DEF Modes
<1>3. fp_adv_set_teardown(c) \in AdvState
  BY <1>2 DEF fp_adv_set_teardown, AdvState, Modes
<1>. HIDE DEF b, c
<1>. QED  BY <1>2, <1>3 DEF app_fp_adv_disable, b, c

\* The prepare callback of the factory reset, three withdrawn requests, keeps
\* them typed.
LEMMA PrepareType ==
    ASSUME NEW a \in AdvState, NEW res
    PROVE  fmdn_factory_reset_prepare(a, res) \in AdvState
BY RequestType DEF fmdn_factory_reset_prepare, Triggers

-----------------------------------------------------------------------------
(***************************************************************************)
(* Type correctness of the specification.                                  *)
(***************************************************************************)

\* A call into the stack keeps the count of faults within its bound.
LEMMA FaultsType ==
    ASSUME TypeOK, NEW res, Succeeds \/ Fails \/ Answers(res)
    PROVE  faults' \in 0..MaxFaults
BY BoundAssumption DEF TypeOK, Succeeds, Fails, Answers

\* The initial values of the statics have their types.
LEMMA BootTypes ==
    AdvBoot \in AdvState /\ AppBoot \in AppState /\ ResetBoot \in ResetState
BY DEF AdvBoot, AdvState, Modes, Intervals, Triggers, AppBoot, AppState, ResetTriggers,
       ResetBoot, ResetState, ResetStates, ResetSteps

\* A reset of the chip, for whatever reason, leads to well-typed statics.
LEMMA ChipResetType ==
    ASSUME TypeOK, ChipReset
    PROVE  /\ adv' \in AdvState
           /\ app' \in AppState
           /\ fr' \in ResetState
           /\ fp' \in FpState
           /\ link' \in [Conns -> LinkStates]
           /\ boot' \in BootSteps
<1>1. adv' \in AdvState /\ app' \in AppState /\ fr' \in ResetState
  BY BootTypes DEF ChipReset
<1>2. fp' \in FpState
  BY DEF ChipReset, TypeOK, FpState
<1>3. link' \in [Conns -> LinkStates] /\ boot' \in BootSteps
  BY DEF ChipReset, LinkStates, BootSteps
<1>. QED  BY <1>1, <1>2, <1>3

\* Enabling and disabling the Fast Pair subsystem keep its record typed.
LEMMA FpTypes ==
    ASSUME NEW f \in FpState
    PROVE  bt_fast_pair_enable(f) \in FpState /\ bt_fast_pair_disable(f) \in FpState
BY DEF bt_fast_pair_enable, bt_fast_pair_disable, FpState

\* The operations of factory_reset.c keep its statics typed.
LEMMA ResetTypes ==
    ASSUME NEW r \in ResetState, NEW x \in BOOLEAN, NEW y \in BOOLEAN
    PROVE  /\ app_factory_reset_schedule(r) \in ResetState
           /\ app_factory_reset_cancel(r) \in ResetState
           /\ factory_reset_begin(r, x, y) \in ResetState
BY DEF app_factory_reset_schedule, app_factory_reset_cancel, factory_reset_begin,
       ResetState, ResetStates, ResetSteps

\* fmdn_provisioning_state_set keeps the statics of main.c typed.
LEMMA AppType ==
    ASSUME NEW m \in AppState, NEW x \in BOOLEAN
    PROVE  fmdn_provisioning_state_set(m, x) \in AppState
BY DEF fmdn_provisioning_state_set, AppState

\* Setting or clearing the authentication bit of a connection keeps main.c
\* typed.
LEMMA AuthType ==
    ASSUME NEW m \in AppState, NEW c \in Conns, NEW x \in BOOLEAN
    PROVE  fmdn_conn_auth_bm_conn_status_set(m, c, x) \in AppState
BY DEF fmdn_conn_auth_bm_conn_status_set, AppState

\* Every step of init_work_handle preserves the types.
LEMMA BootKeepsType ==
    ASSUME TypeOK, Boot
    PROVE  TypeOK'
<1>1. CASE BootPrepare
  <2>1. fr' \in ResetState
    <3>1. [fr EXCEPT !.ui_requested = FALSE] \in ResetState
      BY DEF TypeOK, ResetState
    <3>. QED  BY <1>1, <3>1, ResetTypes DEF TypeOK, BootPrepare, BootStops
  <2>. QED  BY <1>1, <2>1, FaultsType DEF TypeOK, BootPrepare, BootStops, BootSteps
<1>2. CASE BootEnableFastPair
  BY <1>2, FpTypes, FaultsType DEF TypeOK, BootEnableFastPair, BootStops, BootSteps
<1>3. CASE BootEnableAdv
  <2>1. fp.key \in BOOLEAN /\ fp.provisioned \in BOOLEAN
    BY DEF TypeOK, FpState
  <2>2. adv' \in AdvState
    BY <1>3, <2>1, EnableType DEF TypeOK, BootEnableAdv
  <2>3. faults' \in 0..MaxFaults
    BY <1>3, FaultsType DEF BootEnableAdv, BootStops
  <2>. QED  BY <1>3, <2>2, <2>3 DEF TypeOK, BootEnableAdv, BootStops, BootSteps
<1>4. CASE BootStateInit
  <2>. DEFINE m == [fmdn_provisioning_state_set(app, fp.provisioned)
                      EXCEPT !.fp_account_key_present = fp.key]
  <2>1. fp.key \in BOOLEAN /\ fp.provisioned \in BOOLEAN
    BY DEF TypeOK, FpState
  <2>2. m \in AppState
    <3>1. fmdn_provisioning_state_set(app, fp.provisioned) \in AppState
      BY <2>1, AppType DEF TypeOK
    <3>. QED  BY <2>1, <3>1 DEF AppState
  <2>3. /\ [m EXCEPT !.factory_reset_trigger = "KEY_STATE_MISMATCH"] \in AppState
        /\ [m EXCEPT !.vision_started = m.vision_started \/ fp.provisioned] \in AppState
    <3>. HIDE DEF m
    <3>. QED  BY <2>1, <2>2 DEF AppState, ResetTriggers
  <2>4. app' \in AppState
    BY <1>4, <2>3 DEF BootStateInit
  <2>5. fr' \in ResetState
    BY <1>4, ResetTypes DEF BootStateInit, TypeOK
  <2>. QED  BY <1>4, <2>4, <2>5 DEF BootStateInit, TypeOK, BootSteps
<1>5. CASE InitTimeout
  BY <1>5, ChipResetType DEF InitTimeout, TypeOK
<1>. QED  BY <1>1, <1>2, <1>3, <1>4, <1>5 DEF Boot

\* Every step of a link and its callbacks preserves the types.
LEMMA LinksKeepType ==
    ASSUME TypeOK, Links
    PROVE  TypeOK'
<1>1. ASSUME NEW c \in Conns, NEW via, Connect(c, via)
      PROVE  TypeOK'
  <2>1. adv' \in AdvState
    BY <1>1, LinkType DEF Connect, TypeOK
  <2>. QED  BY <1>1, <2>1 DEF Connect, TypeOK, LinkStates
<1>2. ASSUME NEW via, ConnectFails(via)
      PROVE  TypeOK'
  <2>1. adv' \in AdvState
    BY <1>2 DEF ConnectFails, TypeOK, connected, AdvState
  <2>. QED  BY <1>2, <2>1, FaultsType DEF ConnectFails, TypeOK
<1>3. ASSUME NEW c \in Conns, Authenticate(c)
      PROVE  TypeOK'
  BY <1>3, AuthType DEF Authenticate, TypeOK, LinkStates
<1>4. ASSUME NEW c \in Conns, LinkDown(c)
      PROVE  TypeOK'
  BY <1>4 DEF LinkDown, TypeOK, LinkStates
<1>5. ASSUME NEW c \in Conns, Disconnected(c)
      PROVE  TypeOK'
  <2>1. adv' \in AdvState
    BY <1>5, LinkType DEF Disconnected, TypeOK
  <2>. QED  BY <1>5, <2>1, AuthType DEF Disconnected, TypeOK, LinkStates
<1>. QED  BY <1>1, <1>2, <1>3, <1>4, <1>5 DEF Links

\* Every Fast Pair and FMDN callback preserves the types.
LEMMA CallbacksKeepType ==
    ASSUME TypeOK, Callbacks
    PROVE  TypeOK'
<1>. USE DEF Triggers
<1>1. ASSUME NEW res, AccountKeyWritten(res)
      PROVE  TypeOK'
  <2>1. fp_adv_account_key_written(adv, TRUE) \in AdvState
    BY CallbackType DEF TypeOK
  <2>2. adv' \in AdvState
    BY <1>1, <2>1, RequestType DEF AccountKeyWritten
  <2>3. app' \in AppState /\ fr' \in ResetState
    BY <1>1, ResetTypes DEF AccountKeyWritten, TypeOK, AppState, ResetTriggers
  <2>4. fp' \in FpState
    BY <1>1 DEF AccountKeyWritten, TypeOK, FpState
  <2>. QED  BY <1>1, <2>2, <2>3, <2>4, FaultsType DEF AccountKeyWritten, TypeOK
<1>2. ASSUME NEW res, Provisioned(res)
      PROVE  TypeOK'
  <2>1. fp_adv_provisioning_state_changed(adv, TRUE, res) \in AdvState
    BY CallbackType DEF TypeOK
  <2>2. adv' \in AdvState
    BY <1>2, <2>1, RequestType DEF Provisioned
  <2>3. app' \in AppState
    <3>1. fmdn_provisioning_state_set(app, TRUE) \in AppState
      BY AppType DEF TypeOK
    <3>. QED  BY <1>2, <3>1 DEF Provisioned, AppState, ResetTriggers
  <2>4. fr' \in ResetState
    BY <1>2, ResetTypes DEF Provisioned, TypeOK
  <2>5. fp' \in FpState
    BY <1>2 DEF Provisioned, TypeOK, FpState
  <2>. QED  BY <1>2, <2>2, <2>3, <2>4, <2>5, FaultsType DEF Provisioned, TypeOK
<1>3. ASSUME NEW res, Unprovisioned(res)
      PROVE  TypeOK'
  <2>1. fp_adv_provisioning_state_changed(adv, FALSE, res) \in AdvState
    BY CallbackType DEF TypeOK
  <2>2. adv' \in AdvState
    BY <1>3, <2>1, RequestType DEF Unprovisioned
  <2>3. app' \in AppState
    <3>1. fmdn_provisioning_state_set(app, FALSE) \in AppState
      BY AppType DEF TypeOK
    <3>. QED  BY <1>3, <3>1 DEF Unprovisioned, AppState, ResetTriggers
  <2>4. fr' \in ResetState
    BY <1>3, ResetTypes DEF Unprovisioned, TypeOK
  <2>5. fp' \in FpState
    BY <1>3 DEF Unprovisioned, TypeOK, FpState
  <2>. QED  BY <1>3, <2>2, <2>3, <2>4, <2>5, FaultsType DEF Unprovisioned, TypeOK
<1>4. ASSUME NEW res, ClockSynced(res)
      PROVE  TypeOK'
  <2>1. adv' \in AdvState
    BY <1>4, RequestType DEF ClockSynced, TypeOK
  <2>. QED  BY <1>4, <2>1, FaultsType DEF ClockSynced, TypeOK
<1>5. ASSUME NEW res, RpaExpired(res)
      PROVE  TypeOK'
  BY <1>5, RpaExpiredType, FaultsType DEF RpaExpired, TypeOK
<1>6. CASE IdModeExited
  BY <1>6 DEF IdModeExited, TypeOK, FpState, AppState
<1>. QED  BY <1>1, <1>2, <1>3, <1>4, <1>5, <1>6 DEF Callbacks

\* Every button action preserves the types.
LEMMA ButtonsKeepType ==
    ASSUME TypeOK, Buttons
    PROVE  TypeOK'
<1>. USE DEF Triggers
<1>1. ASSUME NEW res, FpAdvModeChange(res)
      PROVE  TypeOK'
  <2>1. app.fp_adv_ui_request \in BOOLEAN
    BY DEF TypeOK, AppState
  <2>2. adv' \in AdvState
    BY <1>1, <2>1, RequestType DEF FpAdvModeChange, TypeOK
  <2>3. app' \in AppState
    BY <1>1, <2>1 DEF FpAdvModeChange, TypeOK, AppState
  <2>. QED  BY <1>1, <2>2, <2>3, FaultsType DEF FpAdvModeChange, TypeOK
<1>2. CASE FmdnAdvModeChange
  <2>1. CASE ChipReset /\ UNCHANGED losses /\ (Succeeds \/ Fails)
    BY <2>1, ChipResetType, FaultsType DEF TypeOK
  <2>2. CASE /\ Succeeds
             /\ fp' \in {bt_fast_pair_enable(fp), bt_fast_pair_disable(fp)}
             /\ adv' \in {adv, app_fp_adv_request(adv, "clock_sync", FALSE, "ok")}
             /\ app' = [app EXCEPT !.fmdn_enable_flag = ~@,
                                   !.fmdn_id_mode = @ /\ ~app.fmdn_enable_flag]
             /\ UNCHANGED <<fr, link, boot, losses>>
    <3>1. adv' \in AdvState
      BY <2>2, RequestType DEF TypeOK
    <3>2. app' \in AppState
      BY <2>2 DEF TypeOK, AppState
    <3>. QED  BY <2>2, <3>1, <3>2, FpTypes, FaultsType DEF TypeOK
  <2>. QED  BY <1>2, <2>1, <2>2 DEF FmdnAdvModeChange
<1>3. CASE IdModeEnter
  BY <1>3 DEF IdModeEnter, TypeOK, FpState, AppState
<1>4. CASE FactoryResetRequest
  BY <1>4 DEF FactoryResetRequest, TypeOK, ResetState
<1>. QED  BY <1>1, <1>2, <1>3, <1>4 DEF Buttons

\* Every delayed work item preserves the types.
LEMMA WorksKeepType ==
    ASSUME TypeOK, Works
    PROVE  TypeOK'
<1>. USE DEF Triggers
<1>1. ASSUME NEW res, StopDiscoverable(res)
      PROVE  TypeOK'
  <2>1. adv' \in AdvState
    BY <1>1, RequestType DEF StopDiscoverable, TypeOK
  <2>2. app' \in AppState
    BY <1>1 DEF StopDiscoverable, TypeOK, AppState
  <2>. QED  BY <1>1, <2>1, <2>2, FaultsType DEF StopDiscoverable, TypeOK
<1>2. ASSUME NEW res, RestartAdvertising(res)
      PROVE  TypeOK'
  BY <1>2, WorkType, FaultsType DEF RestartAdvertising, TypeOK
<1>3. CASE SuspensionTimeout
  BY <1>3, WorkType DEF SuspensionTimeout, TypeOK
<1>. QED  BY <1>1, <1>2, <1>3 DEF Works

\* Every step of factory_reset_perform preserves the types.
LEMMA ResetKeepsType ==
    ASSUME TypeOK, Reset
    PROVE  TypeOK'
<1>. USE DEF At, Goto
<1>1. \A step \in ResetSteps : [fr EXCEPT !.step = step] \in ResetState
  BY DEF TypeOK, ResetState
<1>2. CASE Panic
  BY <1>2, ChipResetType, FaultsType DEF Panic, TypeOK
<1>3. ASSUME NEW res, ResetBegin(res)
      PROVE  TypeOK'
  <2>1. fp.ready \in BOOLEAN /\ app_fp_adv_is_ready(adv) \in BOOLEAN
    BY DEF TypeOK, FpState, AdvState, app_fp_adv_is_ready
  <2>2. fr' \in ResetState
    BY <1>3, <2>1, ResetTypes DEF ResetBegin, TypeOK
  <2>3. app' \in AppState
    BY <1>3 DEF ResetBegin, TypeOK, AppState
  <2>. QED  BY <1>3, <2>2, <2>3, PrepareType, FaultsType DEF ResetBegin, TypeOK
<1>4. CASE ResetDisableAdv
  <2>1. CASE ChipReset /\ UNCHANGED losses /\ (Succeeds \/ Fails)
    BY <2>1, ChipResetType, FaultsType DEF TypeOK
  <2>2. CASE Succeeds /\ adv' \in {adv, app_fp_adv_disable(adv, "ok", "none")}
             /\ fr' = [fr EXCEPT !.step = "disable_fp"]
             /\ UNCHANGED <<app, fp, link, boot, losses>>
    BY <1>1, <2>2, DisableType, FaultsType DEF TypeOK, ResetSteps
  <2>. QED  BY <1>4, <2>1, <2>2 DEF ResetDisableAdv
<1>5. CASE ResetDisableFastPair
  <2>1. CASE /\ Succeeds /\ fp' \in {fp, bt_fast_pair_disable(fp)}
             /\ app' = [app EXCEPT !.fmdn_id_mode = @ /\ fp'.id_mode]
             /\ fr' = [fr EXCEPT !.step = "mark"]
             /\ UNCHANGED <<adv, link, boot, losses>>
    <3>1. fp' \in FpState
      BY <2>1, FpTypes DEF TypeOK
    <3>2. app' \in AppState
      BY <2>1, <3>1 DEF TypeOK, AppState, FpState
    <3>. QED  BY <1>1, <2>1, <3>1, <3>2, FaultsType DEF TypeOK, ResetSteps
  <2>. QED  BY <1>2, <1>5, <2>1 DEF ResetDisableFastPair
<1>6. CASE ResetMark
  <2>1. CASE ~Panic
    BY <1>1, <1>6, <2>1, FaultsType DEF ResetMark, TypeOK, ResetSteps, FpState
  <2>. QED  BY <1>2, <2>1
<1>7. CASE ResetErase
  BY <1>7 DEF ResetErase, TypeOK, FpState
<1>8. CASE ResetErased
  <2>1. CASE ~Panic
    BY <1>1, <1>8, <2>1, FaultsType DEF ResetErased, TypeOK, ResetSteps, FpState
  <2>. QED  BY <1>2, <2>1
<1>9. CASE ResetEnableFastPair
  <2>1. CASE ~Panic
    BY <1>1, <1>9, <2>1, FpTypes, FaultsType DEF ResetEnableFastPair, TypeOK, ResetSteps
  <2>. QED  BY <1>2, <2>1
<1>10. CASE ResetEnableAdv
  <2>1. fp.key \in BOOLEAN /\ fp.provisioned \in BOOLEAN
    BY DEF TypeOK, FpState
  <2>2. CASE ~Panic
    <3>1. PICK res \in StackResults :
            /\ Answers(res)
            /\ adv' = IF fr.fp_adv_is_ready
                      THEN app_fp_adv_enable(adv, fp.key, fp.provisioned, "none", res)
                      ELSE adv
            /\ fr' = [fr EXCEPT !.step = "executed"]
            /\ UNCHANGED <<app, fp, link, boot, losses>>
      BY <1>10, <2>2 DEF ResetEnableAdv
    <3>2. adv' \in AdvState
      BY <2>1, <3>1, EnableType DEF TypeOK
    <3>. QED  BY <1>1, <3>1, <3>2, FaultsType DEF TypeOK, ResetSteps
  <2>. QED  BY <1>2, <2>2
<1>11. CASE ResetExecuted
  <2>1. app' \in AppState
    BY <1>11 DEF ResetExecuted, TypeOK, AppState, FpState, ResetTriggers
  <2>2. fr' \in ResetState
    BY <1>11 DEF ResetExecuted, TypeOK, ResetState, ResetStates, ResetSteps
  <2>. QED  BY <1>11, <2>1, <2>2 DEF ResetExecuted, TypeOK
<1>12. CASE ResetReboot
  BY <1>12, ChipResetType DEF ResetReboot, TypeOK
<1>. QED
  BY <1>3, <1>4, <1>5, <1>6, <1>7, <1>8, <1>9, <1>10, <1>11, <1>12 DEF Reset

\* Every variable keeps its type, whatever peers, buttons, faults and power
\* losses do, and faults and losses stay within their bounds.
THEOREM TypeCorrect == Spec => []TypeOK
<1>1. Init => TypeOK
  BY BootTypes, BoundAssumption DEF Init, TypeOK, FpState, LinkStates, BootSteps
<1>2. TypeOK /\ [Next]_vars => TypeOK'
  <2>. SUFFICES ASSUME TypeOK, [Next]_vars
                PROVE  TypeOK'
    OBVIOUS
  <2>1. CASE PowerLoss
    BY <2>1, ChipResetType, BoundAssumption DEF PowerLoss, TypeOK
  <2>2. CASE UNCHANGED vars
    BY <2>2 DEF vars, TypeOK
  <2>. QED
    BY <2>1, <2>2, BootKeepsType, LinksKeepType, CallbacksKeepType, ButtonsKeepType,
       WorksKeepType, ResetKeepsType DEF Next
<1>. QED  BY <1>1, <1>2, PTL DEF Spec

=============================================================================
