-------------------------- MODULE LocatorTagSafety --------------------------
(***************************************************************************)
(* An inductive invariant of LocatorTag, and the safety properties that    *)
(* follow from it, for any number of connections, failing calls and power  *)
(* losses; and, on top of it, that the tag implements Ownership.           *)
(***************************************************************************)
EXTENDS LocatorTagProofs, LocatorTagOwnership

-----------------------------------------------------------------------------
(***************************************************************************)
(* The inductive invariant: what the safety properties rest on.            *)
(***************************************************************************)

\* init_work_handle occupies the system workqueue until boot is "up" or "dead".
Booting == boot \in {"start", "prepared", "fp_on", "adv_on"}

\* The steps of factory_reset_perform after its head and before its end.
Resetting == fr.step \notin {"idle", "reboot"}

\* Flash: only an unfinished erasure leaves a provisioning without its key, and
\* it is found and finished before the Fast Pair subsystem is ready again.
FlashInv ==
    /\ fp.provisioned => fp.key \/ fp.wiping
    /\ fp.wiping => ~fp.ready /\ (At("erase") \/ boot \in {"start", "prepared", "dead"})
    /\ boot \in {"start", "prepared"} =>
          ~fp.ready /\ ~fr.work /\ ~app.fmdn_provisioned /\ ~app.fp_account_key_present
    /\ boot \in {"fp_on", "adv_on"} => fp.ready
    /\ fr.step \in {"mark", "erase", "enable_fp"} => ~fp.ready
    /\ At("erase") => fp.wiping
    /\ fr.work /\ fr.step = "idle" => fp.key
    /\ boot = "dead" /\ fp.wiping /\ ~At("erase") =>
          ~app.fmdn_provisioned /\ fr.step = "idle" /\ ~fr.work

\* factory_reset.c: state, work item and the position in the handler agree.
ResetInv ==
    /\ fr.work => fr.state = "PENDING"
    /\ fr.step = "idle" => fr.state # "IN_PROGRESS"
    /\ Resetting => fr.state = "IN_PROGRESS"
    /\ Booting => fr.step = "idle" /\ ~fr.ui_requested
    /\ Resetting /\ fr.fp_adv_is_ready => boot = "up"
    /\ fr.step \in {"disable_adv", "disable_fp"} => fr.fast_pair_is_ready = fp.ready
    /\ At("disable_adv") => fr.fp_adv_is_ready = adv.is_enabled
    /\ fr.step \in {"disable_fp", "mark", "erase", "enable_fp", "enable_adv"} => ~adv.is_enabled

\* main.c: its copies of what is stored, and the requests that depend on them.
AppInv ==
    /\ Booting /\ app.fp_account_key_present => fp.key
    /\ boot = "up" /\ At("reboot") /\ fp.ready => app.fp_account_key_present = fp.key
    /\ boot = "up" /\ Resetting => app.fp_account_key_present /\ adv.fp_adv_request_bm = {}
    /\ boot = "up" /\ fp.provisioned => app.fmdn_provisioned
    /\ boot # "dead" /\ "fmdn_provisioning" \in adv.fp_adv_request_bm
          => app.fp_account_key_present
    /\ app.fp_adv_ui_request => ~app.fmdn_provisioned /\ ~Booting
    /\ app.fmdn_id_mode = fp.id_mode
    /\ \A c \in app.fmdn_conn_auth_bm : link[c] \in {"auth", "down"}

\* fp_adv.c: when it is enabled, and what it keeps of the stored data.
AdvInv ==
    /\ adv.is_enabled => adv.fp_adv_set /\ boot \in {"adv_on", "up"}
    /\ ~adv.is_enabled => adv.fp_adv_mode = "off" /\ ~adv.fp_adv_set_active
    /\ boot = "adv_on" => adv.is_enabled
    /\ adv.is_enabled =>
          adv.fmdn_provisioned = fp.provisioned /\ adv.fp_account_key_present = fp.key
    /\ adv.fp_adv_set /\ ~adv.fp_account_key_present => adv.interval = 100

Inv ==
    /\ TypeOK
    /\ FlashInv /\ ResetInv /\ AppInv /\ AdvInv
    /\ MismatchGuarded /\ TimeoutOnlyUnprovisioned /\ CopiesAgree
    /\ ModeMatchesRequests /\ ManualRequestTimesOut /\ EnableFlagTracksStack

-----------------------------------------------------------------------------
(***************************************************************************)
(* Frames: what the operators of FpAdv change and leave alone.             *)
(***************************************************************************)

\* Two records that differ at most in the mode, in whether the set is on air
\* and in the data it carries.
SameButMode(a, b) ==
    /\ b.is_enabled = a.is_enabled
    /\ b.fmdn_provisioned = a.fmdn_provisioned
    /\ b.fp_account_key_present = a.fp_account_key_present
    /\ b.fp_conn = a.fp_conn
    /\ b.fp_adv_set = a.fp_adv_set
    /\ b.fp_adv_request_bm = a.fp_adv_request_bm
    /\ b.interval = a.interval
    /\ b.rpa_suspended = a.rpa_suspended
    /\ b.suspension_work = a.suspension_work
    /\ b.restart_work = a.restart_work
    /\ b.rpa = a.rpa

\* Driving the advertising set changes what is on air, and not the mode.
LEMMA UpdateFrame ==
    ASSUME NEW a \in AdvState, NEW res
    PROVE  /\ SameButMode(a, fp_advertising_update(a, res))
           /\ fp_advertising_update(a, res).fp_adv_mode = a.fp_adv_mode
<1>. DEFINE Same(b) == SameButMode(a, b) /\ b.fp_adv_mode = a.fp_adv_mode
<1>1. Same(a)
  BY DEF SameButMode
<1>2. Same(bt_stack_advertising_stop(a, res))
  BY DEF bt_stack_advertising_stop, SameButMode, AdvState
<1>3. Same(fp_adv_payload_set(a, res)) /\ fp_adv_payload_set(a, res) \in AdvState
  BY DEF fp_adv_payload_set, SameButMode, AdvState
<1>4. ASSUME NEW b \in AdvState, Same(b)
      PROVE  Same(bt_stack_advertising_start(b, res))
  BY <1>4 DEF bt_stack_advertising_start, SameButMode, AdvState
<1>. HIDE DEF Same
<1>5. Same(fp_advertising_update(a, res))
  BY <1>1, <1>2, <1>3, <1>4 DEF fp_advertising_update, bt_stack_advertising_update
<1>. QED  BY <1>5 DEF Same

\* Setting a mode sets that mode.
LEMMA ModeSetFrame ==
    ASSUME NEW a \in AdvState, NEW mode \in Modes, NEW res
    PROVE  /\ SameButMode(a, fp_adv_mode_set(a, mode, res))
           /\ fp_adv_mode_set(a, mode, res).fp_adv_mode = mode
<1>. DEFINE b == [a EXCEPT !.fp_adv_mode = mode]
<1>1. b \in AdvState /\ b.fp_adv_mode = mode /\ SameButMode(a, b) /\ SameButMode(a, a)
  BY DEF AdvState, SameButMode
<1>. HIDE DEF b
<1>2. SameButMode(b, fp_advertising_update(b, res))
      /\ fp_advertising_update(b, res).fp_adv_mode = mode
  BY <1>1, UpdateFrame
<1>3. SameButMode(a, fp_advertising_update(b, res))
  BY <1>1, <1>2 DEF SameButMode
<1>. QED  BY <1>1, <1>2, <1>3 DEF fp_adv_mode_set, b

\* The relation between the records before and after a request: the bit of the
\* trigger, in an enabled module the mode that goes with it, nothing else.
RequestMade(a, c, t, enable) ==
    /\ c \in AdvState
    /\ enable => c.fp_adv_request_bm = a.fp_adv_request_bm \cup {t}
    /\ ~enable => c.fp_adv_request_bm = a.fp_adv_request_bm \ {t}
    /\ c.is_enabled => c.fp_adv_mode = requested_mode(c)
    /\ ~c.is_enabled => /\ c.fp_adv_mode = a.fp_adv_mode
                        /\ c.fp_adv_set_active = a.fp_adv_set_active
    /\ c.is_enabled = a.is_enabled
    /\ c.fp_adv_set = a.fp_adv_set
    /\ c.fmdn_provisioned = a.fmdn_provisioned
    /\ c.fp_account_key_present = a.fp_account_key_present
    /\ c.interval = a.interval

\* A request changes the bit of its trigger and keeps a matching mode matching.
\* More precisely, it suffices that the mode matches if the bit does not change.
LEMMA RequestEffect ==
    ASSUME NEW a \in AdvState, NEW t \in Triggers, NEW enable \in BOOLEAN, NEW res,
           a.is_enabled /\ ((t \in a.fp_adv_request_bm) = enable)
               => a.fp_adv_mode = requested_mode(a)
    PROVE  RequestMade(a, app_fp_adv_request(a, t, enable, res), t, enable)
<1>. DEFINE bm == IF enable THEN a.fp_adv_request_bm \cup {t} ELSE a.fp_adv_request_bm \ {t}
            b  == [a EXCEPT !.fp_adv_request_bm = bm]
            c  == app_fp_adv_request(a, t, enable, res)
<1>1. /\ b \in AdvState /\ b.fp_adv_request_bm = bm /\ b.fp_adv_mode = a.fp_adv_mode
      /\ b.fp_adv_set_active = a.fp_adv_set_active
      /\ b.is_enabled = a.is_enabled /\ b.fp_adv_set = a.fp_adv_set
      /\ b.fmdn_provisioned = a.fmdn_provisioned
      /\ b.fp_account_key_present = a.fp_account_key_present /\ b.interval = a.interval
  BY DEF AdvState
<1>2. (t \in a.fp_adv_request_bm) = enable => bm = a.fp_adv_request_bm
  OBVIOUS
<1>3. bm = a.fp_adv_request_bm => b = a
  BY DEF AdvState
<1>4. SameButMode(b, b)
  BY DEF SameButMode
<1>5. requested_mode(b) \in Modes
  BY DEF requested_mode, Modes
<1>6. /\ SameButMode(b, fp_adv_mode_update(b, res))
      /\ fp_adv_mode_update(b, res).fp_adv_mode = requested_mode(b)
  <2>. HIDE DEF b
  <2>. QED  BY <1>1, <1>5, ModeSetFrame DEF fp_adv_mode_update
<1>7. requested_mode(fp_adv_mode_update(b, res)) = requested_mode(b)
  BY <1>6 DEF SameButMode, requested_mode
<1>8. \/ c = a /\ bm = a.fp_adv_request_bm /\ (t \in a.fp_adv_request_bm) = enable
      \/ c = b /\ ~a.is_enabled
      \/ c = fp_adv_mode_update(b, res) /\ a.is_enabled
  BY <1>2 DEF app_fp_adv_request, app_fp_adv_is_ready
<1>9. c.fp_adv_request_bm = bm
  BY <1>1, <1>6, <1>8 DEF SameButMode
<1>10. /\ c.is_enabled = a.is_enabled /\ c.fp_adv_set = a.fp_adv_set
       /\ c.fmdn_provisioned = a.fmdn_provisioned
       /\ c.fp_account_key_present = a.fp_account_key_present /\ c.interval = a.interval
  <2>1. SameButMode(b, c)
    BY <1>3, <1>4, <1>6, <1>8
  <2>. HIDE DEF b, c
  <2>. QED  BY <1>1, <2>1 DEF SameButMode
<1>11. ~a.is_enabled => /\ c.fp_adv_mode = a.fp_adv_mode
                        /\ c.fp_adv_set_active = a.fp_adv_set_active
  BY <1>1, <1>8
<1>12. a.is_enabled => c.fp_adv_mode = requested_mode(c)
  BY <1>6, <1>7, <1>8
<1>13. c \in AdvState
  BY RequestType
<1>. HIDE DEF c
<1>14. RequestMade(a, c, t, enable)
  BY <1>9, <1>10, <1>11, <1>12, <1>13 DEF RequestMade
<1>. QED  BY <1>14 DEF c

\* Two records that agree on everything the invariant speaks of, except that a
\* set of an enabled module may have gone on or off air.
Keeps(a, b) ==
    /\ b.is_enabled = a.is_enabled
    /\ b.fmdn_provisioned = a.fmdn_provisioned
    /\ b.fp_account_key_present = a.fp_account_key_present
    /\ b.fp_adv_set = a.fp_adv_set
    /\ b.fp_adv_mode = a.fp_adv_mode
    /\ b.fp_adv_request_bm = a.fp_adv_request_bm
    /\ b.interval = a.interval
    /\ b.fp_adv_set_active => a.fp_adv_set_active \/ a.is_enabled

\* Connections, timers and the address leave requests, mode and copies alone.
LEMMA QuietSteps ==
    ASSUME NEW a \in AdvState, NEW res
    PROVE  /\ Keeps(a, a)
           /\ Keeps(a, fp_adv_rpa_expired(a, res))
           /\ \A err \in BOOLEAN : Keeps(a, connected(a, err))
           /\ \A c \in Conns : Keeps(a, connected(fp_adv_connected(a, c), FALSE))
           /\ \A c \in Conns : Keeps(a, disconnected(a, c))
           /\ Keeps(a, fp_adv_restart_work_handle(a, res))
           /\ Keeps(a, fp_adv_rpa_suspension_work_handle(a))
<1>1. Keeps(a, a)
  BY DEF Keeps
<1>2. Keeps(a, fp_adv_rpa_expired(a, res))
  BY DEF Keeps, fp_adv_rpa_expired, fp_adv_payload_set, AdvState
<1>3. \A err \in BOOLEAN : Keeps(a, connected(a, err))
  BY DEF Keeps, connected, AdvState
<1>4. \A c \in Conns : Keeps(a, connected(fp_adv_connected(a, c), FALSE))
  BY DEF Keeps, connected, fp_adv_connected, AdvState
<1>5. \A c \in Conns : Keeps(a, disconnected(a, c))
  BY DEF Keeps, disconnected, AdvState
<1>6. Keeps(a, fp_adv_restart_work_handle(a, res))
  <2>. DEFINE b == [a EXCEPT !.restart_work = FALSE]
  <2>1. b \in AdvState /\ Keeps(a, b)
    BY DEF Keeps, AdvState
  <2>. HIDE DEF b
  <2>2. a.is_enabled => Keeps(a, fp_advertising_update(b, res))
    BY <2>1, UpdateFrame DEF SameButMode, Keeps
  <2>. QED  BY <2>1, <2>2 DEF fp_adv_restart_work_handle, app_fp_adv_is_ready, b
<1>7. Keeps(a, fp_adv_rpa_suspension_work_handle(a))
  BY DEF Keeps, fp_adv_rpa_suspension_work_handle, AdvState
<1>. QED  BY <1>1, <1>2, <1>3, <1>4, <1>5, <1>6, <1>7

\* The callback of a provisioning change only takes over the new value.
LEMMA ProvisioningEffect ==
    ASSUME NEW a \in AdvState, NEW p \in BOOLEAN, NEW res
    PROVE  Keeps([a EXCEPT !.fmdn_provisioned = p],
                 fp_adv_provisioning_state_changed(a, p, res))
<1>. DEFINE b == [a EXCEPT !.fmdn_provisioned = p]
<1>1. b \in AdvState /\ b.is_enabled = a.is_enabled
  BY DEF AdvState
<1>. HIDE DEF b
<1>2. Keeps(b, b) /\ Keeps(b, fp_adv_rpa_expired(b, res))
  BY <1>1, QuietSteps
<1>3. Keeps(b, fp_adv_rpa_suspension_cancel(b))
  BY <1>1 DEF Keeps, fp_adv_rpa_suspension_cancel, AdvState
<1>4. Keeps(b, fp_adv_provisioning_state_changed(a, p, res))
  BY <1>1, <1>2, <1>3
     DEF fp_adv_provisioning_state_changed, fp_adv_set_rotate, app_fp_adv_is_ready, b
<1>. QED  BY <1>4 DEF b

\* The callback of a written key only takes over that there is a key.
LEMMA KeyEffect ==
    ASSUME NEW a \in AdvState, NEW key \in BOOLEAN
    PROVE  Keeps([a EXCEPT !.fp_account_key_present = key], fp_adv_account_key_written(a, key))
BY DEF Keeps, fp_adv_account_key_written, AdvState

\* Enabling takes the copies from the stack, creates the set with the interval
\* that fits the key, and leaves the mode the standing requests ask for.
LEMMA EnableEffect ==
    ASSUME NEW a \in AdvState, NEW key \in BOOLEAN, NEW p \in BOOLEAN, NEW res,
           ~a.is_enabled
    PROVE  LET b == app_fp_adv_enable(a, key, p, "none", res) IN
           /\ b.is_enabled /\ b.fp_adv_set
           /\ b.fp_account_key_present = key /\ b.fmdn_provisioned = p
           /\ b.fp_adv_request_bm = a.fp_adv_request_bm
           /\ ~key => b.interval = 100
           /\ b.fp_adv_mode = requested_mode(b)
<1>. DEFINE b == [a EXCEPT !.fp_account_key_present = key, !.fmdn_provisioned = p]
            c == fp_adv_set_setup(b)
            d == IF p THEN c ELSE fp_adv_rpa_expired(c, "ok")
            e == fp_adv_mode_update(d, res)
<1>1. /\ b \in AdvState /\ b.fp_account_key_present = key /\ b.fmdn_provisioned = p
      /\ b.fp_adv_request_bm = a.fp_adv_request_bm
  BY DEF AdvState
<1>. HIDE DEF b
<1>2. /\ c \in AdvState /\ c.fp_adv_set /\ c.fp_account_key_present = key
      /\ c.fmdn_provisioned = p /\ c.fp_adv_request_bm = a.fp_adv_request_bm
      /\ ~key => c.interval = 100
  <2>1. c \in AdvState
    BY <1>1, SetupType
  <2>. QED  BY <1>1, <2>1 DEF fp_adv_set_setup, AdvState
<1>. HIDE DEF c
<1>3. d \in AdvState /\ Keeps(c, d)
  BY <1>2, RpaExpiredType, QuietSteps
<1>. HIDE DEF d
<1>4. requested_mode(d) \in Modes
  BY DEF requested_mode, Modes
<1>5. e \in AdvState /\ SameButMode(d, e) /\ e.fp_adv_mode = requested_mode(d)
  BY <1>3, <1>4, ModeSetFrame, ModeUpdateType DEF fp_adv_mode_update
<1>. HIDE DEF e
<1>. DEFINE g == [e EXCEPT !.is_enabled = TRUE]
<1>6. app_fp_adv_enable(a, key, p, "none", res) = g
  BY DEF app_fp_adv_enable, b, c, d, e
<1>7. /\ g.is_enabled
      /\ g.fp_adv_set = e.fp_adv_set
      /\ g.fp_account_key_present = e.fp_account_key_present
      /\ g.fmdn_provisioned = e.fmdn_provisioned
      /\ g.fp_adv_request_bm = e.fp_adv_request_bm
      /\ g.interval = e.interval
      /\ g.fp_adv_mode = e.fp_adv_mode
  BY <1>5 DEF AdvState
<1>. HIDE DEF g
<1>8. g.fp_adv_mode = requested_mode(g)
  BY <1>5, <1>7 DEF SameButMode, requested_mode
<1>9. /\ g.fp_adv_set /\ g.fp_account_key_present = key /\ g.fmdn_provisioned = p
      /\ g.fp_adv_request_bm = a.fp_adv_request_bm
      /\ ~key => g.interval = 100
  BY <1>2, <1>3, <1>5, <1>7 DEF SameButMode, Keeps
<1>. QED  BY <1>6, <1>7, <1>8, <1>9

\* A failed enabling leaves the module disabled and its set off the air.
LEMMA EnableFailsEffect ==
    ASSUME NEW a \in AdvState, NEW key \in BOOLEAN, NEW p \in BOOLEAN,
           NEW fail \in {"create", "rotate"}, ~a.is_enabled,
           ~app_fp_adv_enable(a, key, p, fail, "ok").is_enabled
    PROVE  LET b == app_fp_adv_enable(a, key, p, fail, "ok") IN
           /\ b.fp_adv_mode = a.fp_adv_mode
           /\ b.fp_adv_set_active = a.fp_adv_set_active
           /\ b.fp_adv_request_bm = a.fp_adv_request_bm
           /\ b.fp_adv_set /\ ~b.fp_account_key_present => b.interval = 100
<1>. DEFINE b == [a EXCEPT !.fp_account_key_present = key, !.fmdn_provisioned = p]
            c == fp_adv_set_setup(b)
<1>1. /\ b \in AdvState /\ b.fp_account_key_present = key
      /\ b.fp_adv_mode = a.fp_adv_mode /\ b.fp_adv_set_active = a.fp_adv_set_active
      /\ b.fp_adv_request_bm = a.fp_adv_request_bm
  BY DEF AdvState
<1>. HIDE DEF b
<1>2. c \in AdvState /\ (~key => c.interval = 100)
      /\ c.fp_adv_mode = a.fp_adv_mode /\ c.fp_adv_set_active = a.fp_adv_set_active
      /\ c.fp_adv_request_bm = a.fp_adv_request_bm
  <2>1. c \in AdvState
    BY <1>1, SetupType
  <2>. QED  BY <1>1, <2>1 DEF fp_adv_set_setup, AdvState
<1>. HIDE DEF c
<1>3. CASE app_fp_adv_enable(a, key, p, fail, "ok") = [b EXCEPT !.interval = c.interval]
  BY <1>1, <1>2, <1>3 DEF AdvState
<1>4. CASE app_fp_adv_enable(a, key, p, fail, "ok") = fp_adv_set_teardown(c)
  BY <1>2, <1>4 DEF fp_adv_set_teardown, AdvState
<1>5. CASE fail = "rotate" /\ p
  <2>. DEFINE d == IF p THEN c ELSE fp_adv_rpa_expired(c, "ok")
              e == fp_adv_mode_update(d, "ok")
  <2>1. e \in AdvState
    BY <1>2, RpaExpiredType, ModeUpdateType
  <2>2. app_fp_adv_enable(a, key, p, fail, "ok") = [e EXCEPT !.is_enabled = TRUE]
    BY <1>5 DEF app_fp_adv_enable, b, c
  <2>. HIDE DEF e
  <2>. QED  BY <2>1, <2>2 DEF AdvState
<1>. QED  BY <1>3, <1>4, <1>5 DEF app_fp_adv_enable, b, c

\* A successful disabling withdraws the set from the air and deletes it.
LEMMA DisableEffect ==
    ASSUME NEW a \in AdvState, a.is_enabled, ~app_fp_adv_disable_fails(a, "ok", "none")
    PROVE  LET b == app_fp_adv_disable(a, "ok", "none") IN
           /\ ~b.is_enabled /\ ~b.fp_adv_set /\ ~b.fp_adv_set_active
           /\ b.fp_adv_mode = "off"
           /\ b.fp_adv_request_bm = a.fp_adv_request_bm
<1>. DEFINE b == [a EXCEPT !.is_enabled = FALSE]
            s == fp_adv_rpa_suspension_cancel(b)
            t == fp_adv_rpa_suspension_cancel(a)
            c == fp_adv_mode_set(s, "off", "ok")
<1>1. /\ s \in AdvState /\ t \in AdvState /\ ~s.is_enabled
      /\ s.fp_adv_request_bm = a.fp_adv_request_bm
      /\ s = [t EXCEPT !.is_enabled = FALSE]
  BY DEF fp_adv_rpa_suspension_cancel, AdvState
<1>. HIDE DEF s, t
<1>2. c \in AdvState /\ SameButMode(s, c) /\ c.fp_adv_mode = "off"
  BY <1>1, ModeSetFrame, ModeSetType DEF Modes
<1>3. c.fp_adv_set_active = fp_adv_mode_set(t, "off", "ok").fp_adv_set_active
  BY <1>1 DEF fp_adv_mode_set, fp_advertising_update, bt_stack_advertising_update,
              bt_stack_advertising_stop, AdvState
<1>4. ~c.fp_adv_set_active
  BY <1>3 DEF app_fp_adv_disable_fails, t
<1>. HIDE DEF c
<1>5. app_fp_adv_disable(a, "ok", "none") = fp_adv_set_teardown(c)
  BY DEF app_fp_adv_disable, c, s
<1>. QED  BY <1>1, <1>2, <1>4, <1>5 DEF SameButMode, fp_adv_set_teardown, AdvState

\* Scheduling leaves a reset scheduled or in progress; cancelling calls off
\* one that is not in progress.  Neither disturbs the running handler.
LEMMA ScheduleEffect ==
    ASSUME NEW r \in ResetState, r.work => r.state = "PENDING"
    PROVE  /\ LET s == app_factory_reset_schedule(r) IN
              /\ s.step = r.step /\ s.ui_requested = r.ui_requested
              /\ s.fp_adv_is_ready = r.fp_adv_is_ready
              /\ s.fast_pair_is_ready = r.fast_pair_is_ready
              /\ s.work => s.state = "PENDING"
              /\ s.state # "IDLE"
              /\ (s.state = "IN_PROGRESS") = (r.state = "IN_PROGRESS")
           /\ LET s == app_factory_reset_cancel(r) IN
              /\ s.step = r.step /\ s.ui_requested = r.ui_requested
              /\ s.fp_adv_is_ready = r.fp_adv_is_ready
              /\ s.fast_pair_is_ready = r.fast_pair_is_ready
              /\ s.work => s.state = "PENDING" /\ r.work
              /\ (s.state = "IN_PROGRESS") = (r.state = "IN_PROGRESS")
<1>1. CASE r.state = "IDLE"
  BY <1>1 DEF app_factory_reset_schedule, app_factory_reset_cancel, ResetState
<1>2. CASE r.state # "IDLE"
  BY <1>2 DEF app_factory_reset_schedule, app_factory_reset_cancel, ResetState
<1>. QED  BY <1>1, <1>2

-----------------------------------------------------------------------------
(***************************************************************************)
(* The invariant is inductive: one lemma per group of actions.             *)
(***************************************************************************)

USE DEF At

\* Whatever resets the chip, flash is all that the invariant depends on then.
LEMMA ChipResetInv ==
    ASSUME Inv, ChipReset, faults' \in 0..MaxFaults, losses' \in 0..MaxLosses
    PROVE  Inv'
<1>1. TypeOK'
  BY ChipResetType DEF Inv, TypeOK
<1>2. /\ fp'.ready = FALSE /\ fp'.id_mode = FALSE
      /\ fp'.key = fp.key /\ fp'.provisioned = fp.provisioned /\ fp'.wiping = fp.wiping
  BY DEF ChipReset, Inv, TypeOK, FpState
<1>3. boot' = "start" /\ fr' = ResetBoot /\ app' = AppBoot /\ adv' = AdvBoot
  BY DEF ChipReset
<1>4. FlashInv'
  BY <1>2, <1>3 DEF Inv, FlashInv, ResetBoot, AppBoot
<1>5. ResetInv'
  BY <1>3 DEF ResetInv, ResetBoot, Booting, Resetting, AdvBoot
<1>6. AppInv'
  BY <1>2, <1>3 DEF AppInv, AppBoot, AdvBoot, Booting
<1>7. AdvInv'
  BY <1>3 DEF AdvInv, AdvBoot
<1>8. MismatchGuarded' /\ CopiesAgree' /\ TimeoutOnlyUnprovisioned' /\ EnableFlagTracksStack'
  BY <1>3 DEF MismatchGuarded, CopiesAgree, TimeoutOnlyUnprovisioned, EnableFlagTracksStack,
              AppBoot
<1>9. ModeMatchesRequests'
  BY <1>3 DEF ModeMatchesRequests, AdvBoot
<1>10. ManualRequestTimesOut'
  <2>1. app'.fp_adv_ui_request = FALSE /\ adv'.fp_adv_request_bm = {}
    BY <1>3 DEF AppBoot, AdvBoot
  <2>. QED  BY <2>1 DEF ManualRequestTimesOut
<1>. QED  BY <1>1, <1>4, <1>5, <1>6, <1>7, <1>8, <1>9, <1>10 DEF Inv

\* Steps that touch only the radio, the address or the links.
LEMMA QuietInv ==
    ASSUME Inv, TypeOK', Keeps(adv, adv'), UNCHANGED <<app, fr, fp, boot>>,
           \A c \in app.fmdn_conn_auth_bm : link'[c] \in {"auth", "down"}
    PROVE  Inv'
<1>1. requested_mode(adv)' = requested_mode(adv)
  BY DEF requested_mode, Keeps
<1>2. FlashInv' /\ ResetInv'
  BY DEF Inv, FlashInv, ResetInv, Booting, Resetting, Keeps
<1>3. AppInv'
  BY DEF Inv, AppInv, Booting, Resetting, Keeps
<1>4. AdvInv'
  BY DEF Inv, AdvInv, Keeps
<1>5. /\ MismatchGuarded' /\ CopiesAgree' /\ TimeoutOnlyUnprovisioned'
      /\ ManualRequestTimesOut' /\ EnableFlagTracksStack'
  BY DEF Inv, MismatchGuarded, CopiesAgree, TimeoutOnlyUnprovisioned,
         ManualRequestTimesOut, EnableFlagTracksStack, Keeps
<1>6. ModeMatchesRequests'
  BY <1>1 DEF Inv, ModeMatchesRequests, Keeps
<1>. QED  BY <1>2, <1>3, <1>4, <1>5, <1>6 DEF Inv

\* Every step of a link and its callbacks preserves the inductive invariant.
LEMMA LinksKeepInv ==
    ASSUME Inv, Links
    PROVE  Inv'
<1>. TypeOK /\ adv \in AdvState /\ app \in AppState /\ link \in [Conns -> LinkStates]
  BY DEF Inv, TypeOK
<1>. TypeOK'
  BY LinksKeepType
<1>. app.fmdn_conn_auth_bm \subseteq Conns
  BY DEF AppState
<1>0. \A c \in app.fmdn_conn_auth_bm : link[c] \in {"auth", "down"}
  BY DEF Inv, AppInv
<1>1. ASSUME NEW c \in Conns, NEW via, Connect(c, via)
      PROVE  Inv'
  <2>1. Keeps(adv, adv')
    BY <1>1, QuietSteps DEF Connect
  <2>2. \A d \in app.fmdn_conn_auth_bm : link'[d] \in {"auth", "down"}
    BY <1>0, <1>1 DEF Connect
  <2>. QED  BY <1>1, <2>1, <2>2, QuietInv DEF Connect
<1>2. ASSUME NEW via, ConnectFails(via)
      PROVE  Inv'
  <2>1. Keeps(adv, adv')
    BY <1>2, QuietSteps DEF ConnectFails
  <2>. QED  BY <1>0, <1>2, <2>1, QuietInv DEF ConnectFails
<1>3. ASSUME NEW c \in Conns, Authenticate(c)
      PROVE  Inv'
  <2>1. /\ app' = [app EXCEPT !.fmdn_conn_auth_bm = @ \cup {c}]
        /\ UNCHANGED <<adv, fr, fp, boot>>
        /\ \A d \in app.fmdn_conn_auth_bm \cup {c} : link'[d] \in {"auth", "down"}
    BY <1>0, <1>3 DEF Authenticate, fmdn_conn_auth_bm_conn_status_set
  <2>. QED
    BY <2>1 DEF Inv, FlashInv, ResetInv, AppInv, AdvInv, Booting, Resetting, MismatchGuarded,
       CopiesAgree, TimeoutOnlyUnprovisioned, ModeMatchesRequests, requested_mode,
       ManualRequestTimesOut, EnableFlagTracksStack, AppState
<1>4. ASSUME NEW c \in Conns, LinkDown(c)
      PROVE  Inv'
  <2>1. \A d \in app.fmdn_conn_auth_bm : link'[d] \in {"auth", "down"}
    BY <1>0, <1>4 DEF LinkDown
  <2>2. Keeps(adv, adv')
    BY <1>4, QuietSteps DEF LinkDown
  <2>. QED  BY <1>4, <2>1, <2>2, QuietInv DEF LinkDown
<1>5. ASSUME NEW c \in Conns, Disconnected(c)
      PROVE  Inv'
  <2>1. /\ app' = [app EXCEPT !.fmdn_conn_auth_bm = @ \ {c}]
        /\ UNCHANGED <<fr, fp, boot>>
        /\ \A d \in app.fmdn_conn_auth_bm \ {c} : link'[d] \in {"auth", "down"}
    BY <1>0, <1>5 DEF Disconnected, fmdn_conn_auth_bm_conn_status_set
  <2>2. Keeps(adv, adv')
    BY <1>5, QuietSteps DEF Disconnected
  <2>3. requested_mode(adv)' = requested_mode(adv)
    BY <2>2 DEF requested_mode, Keeps
  <2>. QED
    BY <2>1, <2>2, <2>3 DEF Inv, FlashInv, ResetInv, AppInv, AdvInv, Booting, Resetting,
       MismatchGuarded, CopiesAgree, TimeoutOnlyUnprovisioned, ModeMatchesRequests,
       ManualRequestTimesOut, EnableFlagTracksStack, AppState, Keeps
<1>. QED  BY <1>1, <1>2, <1>3, <1>4, <1>5 DEF Links

\* Every step of init_work_handle preserves the inductive invariant.
LEMMA BootKeepsInv ==
    ASSUME Inv, Boot
    PROVE  Inv'
<1>. TypeOK /\ adv \in AdvState /\ app \in AppState /\ fr \in ResetState /\ fp \in FpState
  BY DEF Inv, TypeOK
<1>. TypeOK'
  BY BootKeepsType
<1>1. CASE BootPrepare
  <2>1. UNCHANGED <<adv, app, fr, fp, link>> /\ boot = "start" /\ boot' \in {"prepared", "dead"}
    BY <1>1 DEF BootPrepare, BootStops, Inv, ResetInv, Booting
  <2>. QED
    BY <2>1 DEF Inv, FlashInv, ResetInv, AppInv, AdvInv, Booting, Resetting, MismatchGuarded,
       CopiesAgree, TimeoutOnlyUnprovisioned, ModeMatchesRequests, requested_mode,
       ManualRequestTimesOut, EnableFlagTracksStack
<1>2. CASE BootEnableFastPair
  <2>1. CASE UNCHANGED <<adv, app, fr, fp, link>> /\ boot = "prepared" /\ boot' = "dead"
    BY <2>1 DEF Inv, FlashInv, ResetInv, AppInv, AdvInv, Booting, Resetting, MismatchGuarded,
       CopiesAgree, TimeoutOnlyUnprovisioned, ModeMatchesRequests, requested_mode,
       ManualRequestTimesOut, EnableFlagTracksStack
  <2>2. CASE /\ fp' = bt_fast_pair_enable(fp) /\ boot = "prepared" /\ boot' = "fp_on"
             /\ UNCHANGED <<adv, app, fr, link>>
    <3>1. /\ fp'.ready /\ ~fp'.wiping /\ fp'.id_mode = fp.id_mode
          /\ fp'.provisioned => fp'.key /\ fp.provisioned
      BY <2>2 DEF bt_fast_pair_enable, FpState, Inv, FlashInv
    <3>. QED
      BY <2>2, <3>1 DEF Inv, FlashInv, ResetInv, AppInv, AdvInv, Booting, Resetting,
         MismatchGuarded, CopiesAgree, TimeoutOnlyUnprovisioned, ModeMatchesRequests,
         requested_mode, ManualRequestTimesOut, EnableFlagTracksStack
  <2>. QED  BY <1>2, <2>1, <2>2 DEF BootEnableFastPair, BootStops
<1>3. CASE BootEnableAdv
  <2>1. /\ boot = "fp_on" /\ boot' \in {"adv_on", "dead"} /\ UNCHANGED <<app, fr, fp, link>>
        /\ ~adv.is_enabled /\ adv.fp_adv_mode = "off" /\ ~adv.fp_adv_set_active
        /\ fp.key \in BOOLEAN /\ fp.provisioned \in BOOLEAN
    BY <1>3 DEF BootEnableAdv, BootStops, Inv, AdvInv, FpState
  <2>2. CASE /\ boot' = "adv_on"
             /\ \E res \in StackResults :
                  adv' = app_fp_adv_enable(adv, fp.key, fp.provisioned, "none", res)
    <3>1. /\ adv'.is_enabled /\ adv'.fp_adv_set
          /\ adv'.fp_account_key_present = fp.key /\ adv'.fmdn_provisioned = fp.provisioned
          /\ adv'.fp_adv_request_bm = adv.fp_adv_request_bm
          /\ ~fp.key => adv'.interval = 100
          /\ adv'.fp_adv_mode = requested_mode(adv')
      BY <2>1, <2>2, EnableEffect
    <3>. QED
      BY <2>1, <2>2, <3>1 DEF Inv, FlashInv, ResetInv, AppInv, AdvInv, Booting, Resetting,
         MismatchGuarded, CopiesAgree, TimeoutOnlyUnprovisioned, ModeMatchesRequests,
         ManualRequestTimesOut, EnableFlagTracksStack
  <2>3. CASE /\ boot' = "dead" /\ ~adv'.is_enabled
             /\ \E fail \in {"create", "rotate"} :
                  adv' = app_fp_adv_enable(adv, fp.key, fp.provisioned, fail, "ok")
    <3>1. /\ adv'.fp_adv_mode = "off" /\ ~adv'.fp_adv_set_active
          /\ adv'.fp_adv_request_bm = adv.fp_adv_request_bm
          /\ adv'.fp_adv_set /\ ~adv'.fp_account_key_present => adv'.interval = 100
      BY <2>1, <2>3, EnableFailsEffect
    <3>. QED
      BY <2>1, <2>3, <3>1 DEF Inv, FlashInv, ResetInv, AppInv, AdvInv, Booting, Resetting,
         MismatchGuarded, CopiesAgree, TimeoutOnlyUnprovisioned, ModeMatchesRequests,
         ManualRequestTimesOut, EnableFlagTracksStack
  <2>. QED  BY <1>3, <2>2, <2>3 DEF BootEnableAdv, BootStops
<1>4. CASE BootStateInit
  <2>1. /\ boot = "adv_on" /\ boot' = "up" /\ UNCHANGED <<adv, fp, link>>
        /\ app'.fmdn_provisioned = fp.provisioned
        /\ app'.fp_account_key_present = fp.key
        /\ app'.fp_adv_ui_request = app.fp_adv_ui_request
        /\ app'.fmdn_id_mode = app.fmdn_id_mode
        /\ app'.fmdn_conn_auth_bm = app.fmdn_conn_auth_bm
        /\ app'.factory_reset_trigger \in {app.factory_reset_trigger, "KEY_STATE_MISMATCH"}
        /\ app'.fmdn_provisioned /\ ~app.fmdn_provisioned => app'.fmdn_enable_flag = TRUE
        /\ app.fmdn_provisioned /\ app'.fmdn_provisioned
              => app'.fmdn_enable_flag = app.fmdn_enable_flag
    BY <1>4 DEF BootStateInit, fmdn_provisioning_state_set, AppState, FpState
  <2>2. /\ fr'.step = fr.step /\ fr'.ui_requested = fr.ui_requested
        /\ fr'.work => fr'.state = "PENDING"
        /\ fr'.state # "IN_PROGRESS"
        /\ fp.key # fp.provisioned => fr'.state # "IDLE"
        /\ fr'.work => fr.work \/ fp.key # fp.provisioned
        /\ fr.step = "idle"
    <3>1. /\ fr.step = "idle" /\ fr.state # "IN_PROGRESS" /\ (fr.work => fr.state = "PENDING")
          /\ fr' = IF fp.key # fp.provisioned THEN app_factory_reset_schedule(fr) ELSE fr
      BY <1>4 DEF BootStateInit, Inv, ResetInv, Booting
    <3>. QED  BY <3>1, ScheduleEffect
  <2>3. FlashInv'
    BY <2>1, <2>2 DEF Inv, FlashInv, FpState
  <2>8. ResetInv' /\ AdvInv'
    BY <2>1, <2>2 DEF Inv, ResetInv, AdvInv, Booting, Resetting
  <2>4. AppInv'
    BY <2>1, <2>2 DEF Inv, AppInv, Booting, Resetting
  <2>5. MismatchGuarded' /\ CopiesAgree' /\ TimeoutOnlyUnprovisioned' /\ ModeMatchesRequests'
    BY <2>1, <2>2 DEF Inv, AdvInv, MismatchGuarded, CopiesAgree, TimeoutOnlyUnprovisioned,
       ModeMatchesRequests, requested_mode
  <2>6. ManualRequestTimesOut'
    BY <2>1 DEF Inv, AppInv, Booting, ManualRequestTimesOut, AppState
  <2>7. EnableFlagTracksStack'
    BY <2>1, <2>2 DEF Inv, FlashInv, EnableFlagTracksStack, FpState
  <2>. QED  BY <2>3, <2>4, <2>5, <2>6, <2>7, <2>8 DEF Inv
<1>5. CASE InitTimeout
  BY <1>5, ChipResetInv DEF InitTimeout, TypeOK
<1>. QED  BY <1>1, <1>2, <1>3, <1>4, <1>5 DEF Boot

\* A peer writes an Account Key.  A first key requests advertising and starts
\* the provisioning timeout; a further key finds all copies as they are.
LEMMA KeyWrittenKeepsInv ==
    ASSUME Inv, NEW res, AccountKeyWritten(res), TypeOK'
    PROVE  Inv'
<1>. DEFINE a == fp_adv_account_key_written(adv, TRUE)
<1>. adv \in AdvState /\ app \in AppState /\ fr \in ResetState /\ fp \in FpState
  BY DEF Inv, TypeOK
<1>1. /\ fp.ready /\ ~fp.wiping /\ (fp.key => boot = "up")
      /\ boot \in {"fp_on", "adv_on", "up", "dead"}
      /\ fr.step \notin {"mark", "erase", "enable_fp"}
  BY DEF AccountKeyWritten, Inv, FlashInv, TypeOK, BootSteps
<1>2. /\ fp'.key = TRUE /\ fp'.ready = fp.ready /\ fp'.provisioned = fp.provisioned
      /\ fp'.wiping = fp.wiping /\ fp'.id_mode = fp.id_mode
      /\ UNCHANGED <<link, boot>>
  BY DEF AccountKeyWritten, FpState
<1>3. /\ a \in AdvState /\ a.is_enabled = adv.is_enabled
      /\ a.fmdn_provisioned = adv.fmdn_provisioned /\ a.fp_account_key_present = TRUE
      /\ a.fp_adv_set = adv.fp_adv_set /\ a.fp_adv_mode = adv.fp_adv_mode
      /\ a.fp_adv_request_bm = adv.fp_adv_request_bm /\ a.interval = adv.interval
      /\ ~a.is_enabled => a.fp_adv_set_active = adv.fp_adv_set_active
  <2>1. a \in AdvState
    BY CallbackType
  <2>. QED  BY <2>1 DEF fp_adv_account_key_written, AdvState
<1>. HIDE DEF a
<1>4. CASE ~app.fp_account_key_present
  <2>1. /\ adv' = app_fp_adv_request(a, "fmdn_provisioning", TRUE, res)
        /\ fr' = app_factory_reset_schedule(fr)
        /\ app' = [app EXCEPT !.fp_account_key_present = TRUE,
                              !.factory_reset_trigger = "PROVISIONING_TIMEOUT"]
    BY <1>4 DEF AccountKeyWritten, a
  <2>2. a.is_enabled => "fmdn_provisioning" \notin a.fp_adv_request_bm
    BY <1>3, <1>4 DEF Inv, AppInv, AdvInv
  <2>3. RequestMade(a, adv', "fmdn_provisioning", TRUE)
    BY <1>3, <2>1, <2>2, RequestEffect DEF Triggers
  <2>4. /\ fr'.step = fr.step /\ fr'.ui_requested = fr.ui_requested
        /\ fr'.fp_adv_is_ready = fr.fp_adv_is_ready
        /\ fr'.fast_pair_is_ready = fr.fast_pair_is_ready
        /\ fr'.work => fr'.state = "PENDING"
        /\ fr'.state # "IDLE"
        /\ (fr'.state = "IN_PROGRESS") = (fr.state = "IN_PROGRESS")
    BY <2>1, ScheduleEffect DEF Inv, ResetInv
  <2>5. ~(boot = "up" /\ Resetting)
    BY <1>4 DEF Inv, AppInv
  <2>6. /\ app'.fp_account_key_present = TRUE
        /\ app'.factory_reset_trigger = "PROVISIONING_TIMEOUT"
        /\ app'.fmdn_provisioned = app.fmdn_provisioned
        /\ app'.fmdn_enable_flag = app.fmdn_enable_flag
        /\ app'.fmdn_id_mode = app.fmdn_id_mode
        /\ app'.fp_adv_ui_request = app.fp_adv_ui_request
        /\ app'.stop_discoverable_work = app.stop_discoverable_work
        /\ app'.fmdn_conn_auth_bm = app.fmdn_conn_auth_bm
    BY <2>1 DEF AppState
  <2>7. ~fp.provisioned
    <3>1. CASE boot # "up"
      BY <1>1, <3>1 DEF Inv, FlashInv
    <3>2. CASE boot = "up"
      BY <1>1, <1>4, <2>5, <3>2 DEF Inv, FlashInv, AppInv, CopiesAgree, Resetting
    <3>. QED  BY <3>1, <3>2
  <2>8. FlashInv'
    BY <1>1, <1>2, <2>4, <2>6 DEF Inv, FlashInv
  <2>13. ResetInv'
    <3>1. adv'.is_enabled = adv.is_enabled
      BY <1>3, <2>3 DEF RequestMade
    <3>. QED  BY <1>2, <2>4, <3>1 DEF Inv, ResetInv, Booting, Resetting
  <2>9. AppInv'
    BY <1>2, <1>3, <2>3, <2>4, <2>5, <2>6 DEF Inv, AppInv, Booting, Resetting, RequestMade
  <2>10. AdvInv'
    BY <1>2, <1>3, <2>3 DEF Inv, AdvInv, RequestMade
  <2>11. MismatchGuarded' /\ CopiesAgree' /\ TimeoutOnlyUnprovisioned'
    BY <1>2, <1>3, <2>3, <2>4, <2>6, <2>7
       DEF Inv, MismatchGuarded, CopiesAgree, TimeoutOnlyUnprovisioned, RequestMade
  <2>12. ModeMatchesRequests' /\ ManualRequestTimesOut' /\ EnableFlagTracksStack'
    BY <1>2, <1>3, <2>3, <2>4, <2>6
       DEF Inv, ModeMatchesRequests, ManualRequestTimesOut, EnableFlagTracksStack, RequestMade
  <2>. QED  BY <2>8, <2>9, <2>10, <2>11, <2>12, <2>13 DEF Inv
<1>5. CASE app.fp_account_key_present
  <2>1. adv' = a /\ UNCHANGED <<app, fr>>
    BY <1>5 DEF AccountKeyWritten, a
  <2>2. adv.is_enabled => fp.key \/ adv.fp_adv_request_bm = {}
    BY <1>1, <1>5 DEF Inv, AppInv, AdvInv, CopiesAgree, Booting, Resetting
  <2>3. adv.is_enabled => requested_mode(a) = requested_mode(adv)
    BY <1>3, <2>2 DEF requested_mode, Inv, AdvInv
  <2>4. boot = "up" => fp.key \/ fr.step # "idle"
    BY <1>5 DEF Inv, CopiesAgree
  <2>5. FlashInv' /\ ResetInv'
    BY <1>1, <1>2, <1>3, <2>1 DEF Inv, FlashInv, ResetInv, Booting, Resetting
  <2>6. AppInv'
    BY <1>2, <1>3, <1>5, <2>1 DEF Inv, AppInv, Booting, Resetting, AppState
  <2>7. AdvInv'
    BY <1>2, <1>3, <2>1 DEF Inv, AdvInv
  <2>8. MismatchGuarded'
    BY <1>2, <2>1, <2>4 DEF Inv, ResetInv, Resetting, MismatchGuarded, FpState
  <2>9. CopiesAgree' /\ TimeoutOnlyUnprovisioned'
    BY <1>2, <1>3, <2>1, <2>4, <1>5 DEF Inv, CopiesAgree, TimeoutOnlyUnprovisioned, FpState, AppState
  <2>10. ModeMatchesRequests' /\ ManualRequestTimesOut' /\ EnableFlagTracksStack'
    BY <1>2, <1>3, <2>1, <2>3
       DEF Inv, ModeMatchesRequests, ManualRequestTimesOut, EnableFlagTracksStack
  <2>. QED  BY <2>5, <2>6, <2>7, <2>8, <2>9, <2>10 DEF Inv
<1>. QED  BY <1>4, <1>5

\* The record that a provisioning callback of fp_adv.c leaves behind.
LEMMA ProvisioningFields ==
    ASSUME Inv, NEW p \in BOOLEAN, NEW res
    PROVE  LET a == fp_adv_provisioning_state_changed(adv, p, res) IN
           /\ a \in AdvState /\ a.is_enabled = adv.is_enabled
           /\ a.fmdn_provisioned = p
           /\ a.fp_account_key_present = adv.fp_account_key_present
           /\ a.fp_adv_set = adv.fp_adv_set
           /\ a.fp_adv_request_bm = adv.fp_adv_request_bm /\ a.interval = adv.interval
           /\ a.is_enabled => a.fp_adv_mode = requested_mode(a)
           /\ ~a.is_enabled => a.fp_adv_mode = "off" /\ ~a.fp_adv_set_active
<1>. DEFINE a == fp_adv_provisioning_state_changed(adv, p, res)
            b == [adv EXCEPT !.fmdn_provisioned = p]
<1>. adv \in AdvState
  BY DEF Inv, TypeOK
<1>1. a \in AdvState
  BY CallbackType DEF Triggers
<1>2. Keeps(b, a)
  BY ProvisioningEffect
<1>3. /\ b.is_enabled = adv.is_enabled /\ b.fmdn_provisioned = p
      /\ b.fp_account_key_present = adv.fp_account_key_present
      /\ b.fp_adv_set = adv.fp_adv_set /\ b.fp_adv_mode = adv.fp_adv_mode
      /\ b.fp_adv_request_bm = adv.fp_adv_request_bm /\ b.interval = adv.interval
      /\ b.fp_adv_set_active = adv.fp_adv_set_active
  BY DEF AdvState
<1>. HIDE DEF a, b
<1>4. adv.is_enabled => a.fp_adv_mode = requested_mode(a)
  BY <1>2, <1>3 DEF Keeps, requested_mode, Inv, ModeMatchesRequests
<1>5. ~adv.is_enabled => a.fp_adv_mode = "off" /\ ~a.fp_adv_set_active
  BY <1>2, <1>3 DEF Keeps, Inv, AdvInv
<1>. QED  BY <1>1, <1>2, <1>3, <1>4, <1>5 DEF Keeps, a

\* The owner provisions the tag: the timeout is cancelled, both requests that
\* lead up to the provisioning are withdrawn.
LEMMA ProvisionedKeepsInv ==
    ASSUME Inv, NEW res, Provisioned(res), TypeOK'
    PROVE  Inv'
<1>. DEFINE a == fp_adv_provisioning_state_changed(adv, TRUE, res)
            b == app_fp_adv_request(a, "fmdn_provisioning", FALSE, res)
<1>. adv \in AdvState /\ app \in AppState /\ fr \in ResetState /\ fp \in FpState
  BY DEF Inv, TypeOK
<1>1. /\ fp.ready /\ ~fp.wiping /\ fp.key
      /\ boot \in {"fp_on", "adv_on", "up", "dead"}
      /\ fr.step \notin {"mark", "erase", "enable_fp"}
  BY DEF Provisioned, Inv, FlashInv, TypeOK, BootSteps
<1>2. /\ fp'.key = fp.key /\ fp'.ready = fp.ready /\ fp'.provisioned = TRUE
      /\ fp'.wiping = fp.wiping /\ fp'.id_mode = fp.id_mode
      /\ UNCHANGED <<link, boot>>
  BY DEF Provisioned, FpState
<1>3. /\ a \in AdvState /\ a.is_enabled = adv.is_enabled
      /\ a.fmdn_provisioned = TRUE
      /\ a.fp_account_key_present = adv.fp_account_key_present
      /\ a.fp_adv_set = adv.fp_adv_set
      /\ a.fp_adv_request_bm = adv.fp_adv_request_bm /\ a.interval = adv.interval
      /\ a.is_enabled => a.fp_adv_mode = requested_mode(a)
      /\ ~a.is_enabled => a.fp_adv_mode = "off" /\ ~a.fp_adv_set_active
  BY ProvisioningFields
<1>4. adv' = app_fp_adv_request(b, "ui", FALSE, res)
  BY DEF Provisioned
<1>. HIDE DEF a
<1>5. RequestMade(a, b, "fmdn_provisioning", FALSE)
  BY <1>3, RequestEffect DEF Triggers
<1>. HIDE DEF b
<1>6. RequestMade(b, adv', "ui", FALSE)
  <2>1. b \in AdvState /\ (b.is_enabled => b.fp_adv_mode = requested_mode(b))
    BY <1>5 DEF RequestMade
  <2>. QED  BY <1>4, <2>1, RequestEffect DEF Triggers
<1>7. /\ adv'.is_enabled = adv.is_enabled /\ adv'.fmdn_provisioned = TRUE
      /\ adv'.fp_account_key_present = adv.fp_account_key_present
      /\ adv'.fp_adv_set = adv.fp_adv_set /\ adv'.interval = adv.interval
      /\ adv'.fp_adv_request_bm = adv.fp_adv_request_bm \ {"fmdn_provisioning", "ui"}
      /\ adv'.is_enabled => adv'.fp_adv_mode = requested_mode(adv')
      /\ ~adv'.is_enabled => adv'.fp_adv_mode = "off" /\ ~adv'.fp_adv_set_active
  BY <1>3, <1>5, <1>6 DEF RequestMade
<1>8. /\ app'.fmdn_provisioned = TRUE
      /\ app'.fp_account_key_present = app.fp_account_key_present
      /\ app'.fp_adv_ui_request = FALSE
      /\ app'.fmdn_id_mode = app.fmdn_id_mode
      /\ app'.fmdn_conn_auth_bm = app.fmdn_conn_auth_bm
      /\ app'.factory_reset_trigger # "PROVISIONING_TIMEOUT"
      /\ app.fmdn_provisioned => app'.fmdn_enable_flag = app.fmdn_enable_flag
      /\ ~app.fmdn_provisioned => app'.fmdn_enable_flag = TRUE
  BY DEF Provisioned, fmdn_provisioning_state_set, provisioning_timeout_scheduled, AppState
<1>9. /\ fr'.step = fr.step /\ fr'.ui_requested = fr.ui_requested
      /\ fr'.fp_adv_is_ready = fr.fp_adv_is_ready
      /\ fr'.fast_pair_is_ready = fr.fast_pair_is_ready
      /\ fr'.work => fr'.state = "PENDING" /\ fr.work
      /\ (fr'.state = "IN_PROGRESS") = (fr.state = "IN_PROGRESS")
  <2>1. fr' \in {fr, app_factory_reset_cancel(fr)}
    BY DEF Provisioned
  <2>. QED  BY <2>1, ScheduleEffect DEF Inv, ResetInv
<1>10. FlashInv' /\ ResetInv'
  BY <1>1, <1>2, <1>7, <1>8, <1>9 DEF Inv, FlashInv, ResetInv, Booting, Resetting
<1>11. AppInv'
  BY <1>2, <1>7, <1>8, <1>9 DEF Inv, AppInv, Booting, Resetting
<1>12. AdvInv'
  BY <1>2, <1>7 DEF Inv, AdvInv
<1>13. MismatchGuarded' /\ CopiesAgree' /\ TimeoutOnlyUnprovisioned'
  BY <1>1, <1>2, <1>7, <1>8, <1>9
     DEF Inv, MismatchGuarded, CopiesAgree, TimeoutOnlyUnprovisioned, FpState
<1>14. ModeMatchesRequests' /\ ManualRequestTimesOut' /\ EnableFlagTracksStack'
  BY <1>1, <1>2, <1>7, <1>8, <1>9
     DEF Inv, ModeMatchesRequests, ManualRequestTimesOut, EnableFlagTracksStack, FpState
<1>. QED  BY <1>10, <1>11, <1>12, <1>13, <1>14 DEF Inv

\* The owner unprovisions the tag: a reset is scheduled unless one already is.
LEMMA UnprovisionedKeepsInv ==
    ASSUME Inv, NEW res, Unprovisioned(res), TypeOK'
    PROVE  Inv'
<1>. DEFINE a == fp_adv_provisioning_state_changed(adv, FALSE, res)
<1>. adv \in AdvState /\ app \in AppState /\ fr \in ResetState /\ fp \in FpState
  BY DEF Inv, TypeOK
<1>1. /\ fp.ready /\ ~fp.wiping /\ fp.key
      /\ boot \in {"fp_on", "adv_on", "up", "dead"}
      /\ fr.step \notin {"mark", "erase", "enable_fp"}
  BY DEF Unprovisioned, Inv, FlashInv, TypeOK, BootSteps
<1>2. /\ fp'.key = fp.key /\ fp'.ready = fp.ready /\ fp'.provisioned = FALSE
      /\ fp'.wiping = fp.wiping /\ fp'.id_mode = fp.id_mode
      /\ UNCHANGED <<link, boot>>
  BY DEF Unprovisioned, FpState
<1>3. /\ a \in AdvState /\ a.is_enabled = adv.is_enabled
      /\ a.fmdn_provisioned = FALSE
      /\ a.fp_account_key_present = adv.fp_account_key_present
      /\ a.fp_adv_set = adv.fp_adv_set
      /\ a.fp_adv_request_bm = adv.fp_adv_request_bm /\ a.interval = adv.interval
      /\ a.is_enabled => a.fp_adv_mode = requested_mode(a)
      /\ ~a.is_enabled => a.fp_adv_mode = "off" /\ ~a.fp_adv_set_active
  BY ProvisioningFields
<1>4. adv' = app_fp_adv_request(a, "clock_sync", FALSE, res)
  BY DEF Unprovisioned
<1>. HIDE DEF a
<1>5. RequestMade(a, adv', "clock_sync", FALSE)
  BY <1>3, <1>4, RequestEffect DEF Triggers
<1>7. /\ adv'.is_enabled = adv.is_enabled /\ adv'.fmdn_provisioned = FALSE
      /\ adv'.fp_account_key_present = adv.fp_account_key_present
      /\ adv'.fp_adv_set = adv.fp_adv_set /\ adv'.interval = adv.interval
      /\ adv'.fp_adv_request_bm = adv.fp_adv_request_bm \ {"clock_sync"}
      /\ adv'.is_enabled => adv'.fp_adv_mode = requested_mode(adv')
      /\ ~adv'.is_enabled => adv'.fp_adv_mode = "off" /\ ~adv'.fp_adv_set_active
  BY <1>3, <1>5 DEF RequestMade
<1>8. /\ app'.fmdn_provisioned = FALSE
      /\ app'.fp_account_key_present = app.fp_account_key_present
      /\ app'.fp_adv_ui_request = app.fp_adv_ui_request
      /\ app'.fmdn_id_mode = app.fmdn_id_mode
      /\ app'.fmdn_conn_auth_bm = app.fmdn_conn_auth_bm
      /\ app'.factory_reset_trigger = "KEY_STATE_MISMATCH"
      /\ ~app.fmdn_provisioned => app'.stop_discoverable_work = app.stop_discoverable_work
  BY DEF Unprovisioned, fmdn_provisioning_state_set, AppState
<1>9. /\ fr'.step = fr.step /\ fr'.ui_requested = fr.ui_requested
      /\ fr'.fp_adv_is_ready = fr.fp_adv_is_ready
      /\ fr'.fast_pair_is_ready = fr.fast_pair_is_ready
      /\ fr'.work => fr'.state = "PENDING"
      /\ fr'.state # "IDLE"
      /\ (fr'.state = "IN_PROGRESS") = (fr.state = "IN_PROGRESS")
  BY ScheduleEffect DEF Unprovisioned, Inv, ResetInv
<1>10. FlashInv' /\ ResetInv'
  BY <1>1, <1>2, <1>7, <1>8, <1>9 DEF Inv, FlashInv, ResetInv, Booting, Resetting
<1>11. AppInv'
  BY <1>2, <1>7, <1>8, <1>9 DEF Inv, AppInv, Booting, Resetting
<1>12. AdvInv'
  BY <1>2, <1>7 DEF Inv, AdvInv
<1>13. MismatchGuarded' /\ CopiesAgree' /\ TimeoutOnlyUnprovisioned'
  BY <1>2, <1>7, <1>8, <1>9
     DEF Inv, MismatchGuarded, CopiesAgree, TimeoutOnlyUnprovisioned
<1>14. ModeMatchesRequests' /\ ManualRequestTimesOut' /\ EnableFlagTracksStack'
  BY <1>2, <1>7, <1>8, <1>9
     DEF Inv, AppInv, ModeMatchesRequests, ManualRequestTimesOut, EnableFlagTracksStack
<1>. QED  BY <1>10, <1>11, <1>12, <1>13, <1>14 DEF Inv

\* Every Fast Pair and FMDN callback preserves the inductive invariant.
LEMMA CallbacksKeepInv ==
    ASSUME Inv, Callbacks
    PROVE  Inv'
<1>. TypeOK /\ adv \in AdvState /\ app \in AppState /\ fp \in FpState
  BY DEF Inv, TypeOK
<1>. TypeOK'
  BY CallbacksKeepType
<1>0. \A c \in app.fmdn_conn_auth_bm : link[c] \in {"auth", "down"}
  BY DEF Inv, AppInv
<1>1. ASSUME NEW res, ClockSynced(res)
      PROVE  Inv'
  <2>1. adv' = app_fp_adv_request(adv, "clock_sync", FALSE, res)
        /\ UNCHANGED <<app, fr, fp, link, boot>>
    BY <1>1 DEF ClockSynced
  <2>2. RequestMade(adv, adv', "clock_sync", FALSE)
    BY <2>1, RequestEffect DEF Triggers, Inv, ModeMatchesRequests
  <2>3. FlashInv' /\ ResetInv' /\ AppInv'
    BY <2>1, <2>2 DEF Inv, FlashInv, ResetInv, AppInv, Booting, Resetting, RequestMade
  <2>4. AdvInv'
    BY <2>1, <2>2 DEF Inv, AdvInv, RequestMade
  <2>5. /\ MismatchGuarded' /\ CopiesAgree' /\ TimeoutOnlyUnprovisioned'
        /\ ModeMatchesRequests' /\ ManualRequestTimesOut' /\ EnableFlagTracksStack'
    BY <2>1, <2>2 DEF Inv, MismatchGuarded, CopiesAgree, TimeoutOnlyUnprovisioned,
       ModeMatchesRequests, ManualRequestTimesOut, EnableFlagTracksStack, RequestMade
  <2>. QED  BY <2>3, <2>4, <2>5 DEF Inv
<1>2. ASSUME NEW res, RpaExpired(res)
      PROVE  Inv'
  <2>1. Keeps(adv, adv')
    BY <1>2, QuietSteps DEF RpaExpired
  <2>. QED  BY <1>0, <1>2, <2>1, QuietInv DEF RpaExpired
<1>3. CASE IdModeExited
  <2>1. /\ fp' = [fp EXCEPT !.id_mode = FALSE] /\ app' = [app EXCEPT !.fmdn_id_mode = FALSE]
        /\ UNCHANGED <<adv, fr, link, boot>>
    BY <1>3 DEF IdModeExited
  <2>. QED
    BY <2>1 DEF Inv, FlashInv, ResetInv, AppInv, AdvInv, Booting, Resetting, MismatchGuarded,
       CopiesAgree, TimeoutOnlyUnprovisioned, ModeMatchesRequests, requested_mode,
       ManualRequestTimesOut, EnableFlagTracksStack, AppState, FpState
<1>. QED
  BY <1>1, <1>2, <1>3, KeyWrittenKeepsInv, ProvisionedKeepsInv, UnprovisionedKeepsInv
     DEF Callbacks

\* Every button action preserves the inductive invariant.
LEMMA ButtonsKeepInv ==
    ASSUME Inv, Buttons
    PROVE  Inv'
<1>. TypeOK /\ adv \in AdvState /\ app \in AppState /\ fp \in FpState /\ fr \in ResetState
  BY DEF Inv, TypeOK
<1>. TypeOK'
  BY ButtonsKeepType
<1>1. ASSUME NEW res, FpAdvModeChange(res)
      PROVE  Inv'
  <2>1. /\ boot \in {"up", "dead"} /\ fr.step = "idle" /\ ~app.fmdn_provisioned
        /\ adv' = app_fp_adv_request(adv, "ui", ~app.fp_adv_ui_request, res)
        /\ UNCHANGED <<fr, fp, link, boot>>
        /\ app.fp_adv_ui_request \in BOOLEAN
    BY <1>1 DEF FpAdvModeChange, WorkqueueFree, AppState
  <2>2. RequestMade(adv, adv', "ui", ~app.fp_adv_ui_request)
    BY <2>1, RequestEffect DEF Triggers, Inv, ModeMatchesRequests
  <2>3. /\ app'.fp_adv_ui_request = ~app.fp_adv_ui_request
        /\ app'.stop_discoverable_work = ~app.fp_adv_ui_request
        /\ app'.fmdn_provisioned = app.fmdn_provisioned
        /\ app'.fp_account_key_present = app.fp_account_key_present
        /\ app'.fmdn_enable_flag = app.fmdn_enable_flag
        /\ app'.fmdn_id_mode = app.fmdn_id_mode
        /\ app'.factory_reset_trigger = app.factory_reset_trigger
        /\ app'.fmdn_conn_auth_bm = app.fmdn_conn_auth_bm
    BY <1>1 DEF FpAdvModeChange, AppState
  <2>4. FlashInv' /\ ResetInv'
    BY <2>1, <2>2, <2>3 DEF Inv, FlashInv, ResetInv, Booting, Resetting, RequestMade
  <2>5. AppInv'
    BY <2>1, <2>2, <2>3 DEF Inv, AppInv, Booting, Resetting, RequestMade
  <2>6. AdvInv'
    BY <2>1, <2>2 DEF Inv, AdvInv, RequestMade
  <2>7. /\ MismatchGuarded' /\ CopiesAgree' /\ TimeoutOnlyUnprovisioned'
        /\ ModeMatchesRequests' /\ EnableFlagTracksStack'
    BY <2>1, <2>2, <2>3 DEF Inv, MismatchGuarded, CopiesAgree, TimeoutOnlyUnprovisioned,
       ModeMatchesRequests, EnableFlagTracksStack, RequestMade
  <2>8. ManualRequestTimesOut'
    BY <2>2, <2>3 DEF ManualRequestTimesOut, RequestMade
  <2>. QED  BY <2>4, <2>5, <2>6, <2>7, <2>8 DEF Inv
<1>2. CASE FmdnAdvModeChange
  <2>1. CASE ChipReset /\ UNCHANGED losses
    BY <2>1, ChipResetInv DEF TypeOK
  <2>2. CASE /\ fp' = IF app.fmdn_enable_flag THEN bt_fast_pair_disable(fp)
                                              ELSE bt_fast_pair_enable(fp)
             /\ adv' \in {adv, app_fp_adv_request(adv, "clock_sync", FALSE, "ok")}
             /\ app' = [app EXCEPT !.fmdn_enable_flag = ~@,
                                   !.fmdn_id_mode = @ /\ ~app.fmdn_enable_flag]
             /\ UNCHANGED <<fr, link, boot>>
    <3>1. boot \in {"up", "dead"} /\ fr.step = "idle" /\ app.fmdn_provisioned /\ ~fp.wiping
      BY <1>2 DEF FmdnAdvModeChange, WorkqueueFree, Inv, FlashInv
    <3>2. /\ fp'.ready = ~app.fmdn_enable_flag
          /\ fp'.key = fp.key /\ fp'.provisioned = fp.provisioned /\ fp'.wiping = fp.wiping
          /\ fp'.id_mode = (fp.id_mode /\ ~app.fmdn_enable_flag)
      BY <2>2, <3>1 DEF bt_fast_pair_disable, bt_fast_pair_enable, FpState, AppState
    <3>3. /\ app'.fp_adv_ui_request = app.fp_adv_ui_request
          /\ app'.stop_discoverable_work = app.stop_discoverable_work
          /\ app'.fmdn_provisioned = app.fmdn_provisioned
          /\ app'.fp_account_key_present = app.fp_account_key_present
          /\ app'.fmdn_enable_flag = ~app.fmdn_enable_flag
          /\ app'.fmdn_id_mode = (app.fmdn_id_mode /\ ~app.fmdn_enable_flag)
          /\ app'.factory_reset_trigger = app.factory_reset_trigger
          /\ app'.fmdn_conn_auth_bm = app.fmdn_conn_auth_bm
      BY <2>2 DEF AppState
    <3>4. /\ adv'.is_enabled = adv.is_enabled /\ adv'.fp_adv_set = adv.fp_adv_set
          /\ adv'.fmdn_provisioned = adv.fmdn_provisioned
          /\ adv'.fp_account_key_present = adv.fp_account_key_present
          /\ adv'.interval = adv.interval
          /\ adv'.fp_adv_request_bm \subseteq adv.fp_adv_request_bm
          /\ "ui" \in adv'.fp_adv_request_bm <=> "ui" \in adv.fp_adv_request_bm
          /\ adv'.is_enabled => adv'.fp_adv_mode = requested_mode(adv')
          /\ ~adv'.is_enabled => adv'.fp_adv_mode = "off" /\ ~adv'.fp_adv_set_active
      <4>1. CASE adv' = adv
        BY <4>1 DEF Inv, ModeMatchesRequests, AdvInv
      <4>2. CASE adv' = app_fp_adv_request(adv, "clock_sync", FALSE, "ok")
        <5>1. RequestMade(adv, adv', "clock_sync", FALSE)
          BY <4>2, RequestEffect DEF Triggers, Inv, ModeMatchesRequests
        <5>. QED  BY <5>1 DEF RequestMade, Inv, AdvInv
      <4>. QED  BY <2>2, <4>1, <4>2
    <3>5. FlashInv' /\ ResetInv'
      BY <2>2, <3>1, <3>2, <3>3, <3>4 DEF Inv, FlashInv, ResetInv, Booting, Resetting
    <3>6. AppInv'
      BY <2>2, <3>1, <3>2, <3>3, <3>4 DEF Inv, AppInv, Booting, Resetting
    <3>7. AdvInv'
      BY <2>2, <3>2, <3>4 DEF Inv, AdvInv
    <3>8. /\ MismatchGuarded' /\ CopiesAgree' /\ TimeoutOnlyUnprovisioned'
          /\ ModeMatchesRequests' /\ ManualRequestTimesOut' /\ EnableFlagTracksStack'
      BY <2>2, <3>2, <3>3, <3>4 DEF Inv, MismatchGuarded, CopiesAgree,
         TimeoutOnlyUnprovisioned, ModeMatchesRequests, ManualRequestTimesOut,
         EnableFlagTracksStack
    <3>. QED  BY <3>5, <3>6, <3>7, <3>8 DEF Inv
  <2>. QED  BY <1>2, <2>1, <2>2 DEF FmdnAdvModeChange
<1>3. CASE IdModeEnter
  <2>1. /\ fp' = [fp EXCEPT !.id_mode = TRUE] /\ app' = [app EXCEPT !.fmdn_id_mode = TRUE]
        /\ UNCHANGED <<adv, fr, link, boot>>
    BY <1>3 DEF IdModeEnter
  <2>. QED
    BY <2>1 DEF Inv, FlashInv, ResetInv, AppInv, AdvInv, Booting, Resetting, MismatchGuarded,
       CopiesAgree, TimeoutOnlyUnprovisioned, ModeMatchesRequests, requested_mode,
       ManualRequestTimesOut, EnableFlagTracksStack, AppState, FpState
<1>4. CASE FactoryResetRequest
  <2>1. /\ boot \in {"up", "dead"} /\ fr' = [fr EXCEPT !.ui_requested = TRUE]
        /\ UNCHANGED <<adv, app, fp, link, boot>>
    BY <1>4 DEF FactoryResetRequest, WorkqueueFree
  <2>. QED
    BY <2>1 DEF Inv, FlashInv, ResetInv, AppInv, AdvInv, Booting, Resetting, MismatchGuarded,
       CopiesAgree, TimeoutOnlyUnprovisioned, ModeMatchesRequests, requested_mode,
       ManualRequestTimesOut, EnableFlagTracksStack, ResetState
<1>. QED  BY <1>1, <1>2, <1>3, <1>4 DEF Buttons

\* Every delayed work item preserves the inductive invariant.
LEMMA WorksKeepInv ==
    ASSUME Inv, Works
    PROVE  Inv'
<1>. TypeOK /\ adv \in AdvState /\ app \in AppState
  BY DEF Inv, TypeOK
<1>. TypeOK'
  BY WorksKeepType
<1>0. \A c \in app.fmdn_conn_auth_bm : link[c] \in {"auth", "down"}
  BY DEF Inv, AppInv
<1>1. ASSUME NEW res, StopDiscoverable(res)
      PROVE  Inv'
  <2>1. /\ boot \in {"up", "dead"} /\ fr.step = "idle"
        /\ adv' = app_fp_adv_request(adv, "ui", FALSE, res)
        /\ app' = [app EXCEPT !.fp_adv_ui_request = FALSE, !.stop_discoverable_work = FALSE]
        /\ UNCHANGED <<fr, fp, link, boot>>
    BY <1>1 DEF StopDiscoverable, WorkqueueFree
  <2>2. RequestMade(adv, adv', "ui", FALSE)
    BY <2>1, RequestEffect DEF Triggers, Inv, ModeMatchesRequests
  <2>3. /\ app'.fp_adv_ui_request = FALSE
        /\ app'.fmdn_provisioned = app.fmdn_provisioned
        /\ app'.fp_account_key_present = app.fp_account_key_present
        /\ app'.fmdn_enable_flag = app.fmdn_enable_flag
        /\ app'.fmdn_id_mode = app.fmdn_id_mode
        /\ app'.factory_reset_trigger = app.factory_reset_trigger
        /\ app'.fmdn_conn_auth_bm = app.fmdn_conn_auth_bm
    BY <2>1 DEF AppState
  <2>4. FlashInv' /\ ResetInv'
    BY <2>1, <2>2, <2>3 DEF Inv, FlashInv, ResetInv, Booting, Resetting, RequestMade
  <2>5. AppInv' /\ AdvInv'
    BY <2>1, <2>2, <2>3 DEF Inv, AppInv, AdvInv, Booting, Resetting, RequestMade
  <2>6. /\ MismatchGuarded' /\ CopiesAgree' /\ TimeoutOnlyUnprovisioned'
        /\ ModeMatchesRequests' /\ ManualRequestTimesOut' /\ EnableFlagTracksStack'
    BY <2>1, <2>2, <2>3 DEF Inv, MismatchGuarded, CopiesAgree, TimeoutOnlyUnprovisioned,
       ModeMatchesRequests, ManualRequestTimesOut, EnableFlagTracksStack, RequestMade
  <2>. QED  BY <2>4, <2>5, <2>6 DEF Inv
<1>2. ASSUME NEW res, RestartAdvertising(res)
      PROVE  Inv'
  <2>1. Keeps(adv, adv')
    BY <1>2, QuietSteps DEF RestartAdvertising
  <2>. QED  BY <1>0, <1>2, <2>1, QuietInv DEF RestartAdvertising
<1>3. CASE SuspensionTimeout
  <2>1. Keeps(adv, adv')
    BY <1>3, QuietSteps DEF SuspensionTimeout
  <2>. QED  BY <1>0, <1>3, <2>1, QuietInv DEF SuspensionTimeout
<1>. QED  BY <1>1, <1>2, <1>3 DEF Works

\* The head of factory_reset_perform withdraws every request.
LEMMA ResetBeginKeepsInv ==
    ASSUME Inv, NEW res, ResetBegin(res), TypeOK'
    PROVE  Inv'
<1>. DEFINE a == app_fp_adv_request(adv, "fmdn_provisioning", FALSE, res)
            b == app_fp_adv_request(a, "clock_sync", FALSE, res)
<1>. adv \in AdvState /\ app \in AppState /\ fr \in ResetState /\ fp \in FpState
  BY DEF Inv, TypeOK
<1>1. /\ boot \in {"up", "dead"} /\ fr.step = "idle" /\ fr.work
      /\ adv' = app_fp_adv_request(b, "ui", FALSE, res)
      /\ app' = [app EXCEPT !.fp_adv_ui_request = FALSE]
      /\ fr' = factory_reset_begin(fr, fp.ready, adv.is_enabled)
      /\ UNCHANGED <<fp, link, boot>>
  BY DEF ResetBegin, WorkqueueFree, fmdn_factory_reset_prepare, app_fp_adv_is_ready
<1>2. RequestMade(adv, a, "fmdn_provisioning", FALSE)
  BY RequestEffect DEF Triggers, Inv, ModeMatchesRequests
<1>. HIDE DEF a
<1>3. RequestMade(a, b, "clock_sync", FALSE)
  <2>1. a \in AdvState /\ (a.is_enabled => a.fp_adv_mode = requested_mode(a))
    BY <1>2 DEF RequestMade
  <2>. QED  BY <2>1, RequestEffect DEF Triggers
<1>. HIDE DEF b
<1>4. RequestMade(b, adv', "ui", FALSE)
  <2>1. b \in AdvState /\ (b.is_enabled => b.fp_adv_mode = requested_mode(b))
    BY <1>3 DEF RequestMade
  <2>. QED  BY <1>1, <2>1, RequestEffect DEF Triggers
<1>5. /\ adv'.is_enabled = adv.is_enabled /\ adv'.fmdn_provisioned = adv.fmdn_provisioned
      /\ adv'.fp_account_key_present = adv.fp_account_key_present
      /\ adv'.fp_adv_set = adv.fp_adv_set /\ adv'.interval = adv.interval
      /\ adv'.is_enabled => adv'.fp_adv_mode = requested_mode(adv')
      /\ ~adv'.is_enabled => adv'.fp_adv_mode = "off" /\ ~adv'.fp_adv_set_active
  BY <1>2, <1>3, <1>4 DEF RequestMade, Inv, AdvInv
<1>6. adv'.fp_adv_request_bm = {}
  <2>1. adv.fp_adv_request_bm \subseteq Triggers
    BY DEF AdvState
  <2>2. adv'.fp_adv_request_bm =
          ((adv.fp_adv_request_bm \ {"fmdn_provisioning"}) \ {"clock_sync"}) \ {"ui"}
    BY <1>2, <1>3, <1>4 DEF RequestMade
  <2>. QED  BY <2>1, <2>2 DEF Triggers
<1>7. /\ app'.fp_adv_ui_request = FALSE
      /\ app'.fmdn_provisioned = app.fmdn_provisioned
      /\ app'.fp_account_key_present = app.fp_account_key_present
      /\ app'.fmdn_id_mode = app.fmdn_id_mode
      /\ app'.factory_reset_trigger = app.factory_reset_trigger
      /\ app'.fmdn_conn_auth_bm = app.fmdn_conn_auth_bm
  BY <1>1 DEF AppState
<1>8. /\ fr'.step = "disable_adv" /\ fr'.state = "IN_PROGRESS" /\ fr'.work = FALSE
      /\ fr'.ui_requested = fr.ui_requested
      /\ fr'.fast_pair_is_ready = fp.ready /\ fr'.fp_adv_is_ready = adv.is_enabled
  BY <1>1 DEF factory_reset_begin, ResetState
<1>9. boot = "up" => app.fp_account_key_present
  BY <1>1 DEF Inv, FlashInv, CopiesAgree, FpState, AppState
<1>10. FlashInv'
  BY <1>1, <1>7, <1>8 DEF Inv, FlashInv
<1>11. ResetInv'
  BY <1>1, <1>5, <1>8 DEF Inv, ResetInv, AdvInv, Booting, Resetting
<1>12. AppInv'
  BY <1>1, <1>6, <1>7, <1>8, <1>9 DEF Inv, AppInv, Booting, Resetting
<1>13. AdvInv'
  BY <1>1, <1>5 DEF Inv, AdvInv
<1>14. /\ MismatchGuarded' /\ CopiesAgree' /\ TimeoutOnlyUnprovisioned'
       /\ ModeMatchesRequests' /\ ManualRequestTimesOut' /\ EnableFlagTracksStack'
  BY <1>1, <1>5, <1>6, <1>7, <1>8 DEF Inv, MismatchGuarded, CopiesAgree,
     TimeoutOnlyUnprovisioned, ModeMatchesRequests, ManualRequestTimesOut,
     EnableFlagTracksStack
<1>. QED  BY <1>10, <1>11, <1>12, <1>13, <1>14 DEF Inv

\* The steps from the disabled Fast Pair subsystem to the enabled one only
\* change what is stored and how far the reset is.
LEMMA FlashStepInv ==
    ASSUME Inv, TypeOK', Resetting, Resetting', ~adv.is_enabled,
           NEW step, fr' = [fr EXCEPT !.step = step],
           step \notin {"disable_adv", "disable_fp"},
           UNCHANGED <<adv, app, link, boot>>,
           fp'.id_mode = fp.id_mode,
           fp'.provisioned => fp.provisioned,
           FlashInv'
    PROVE  Inv'
<1>. fr \in ResetState /\ adv \in AdvState
  BY DEF Inv, TypeOK
<1>1. /\ fr'.step = step /\ fr'.state = fr.state /\ fr'.work = fr.work
      /\ fr'.fp_adv_is_ready = fr.fp_adv_is_ready
      /\ step \notin {"idle", "reboot"}
  BY DEF ResetState, Resetting
<1>2. boot \in {"up", "dead"}
  BY DEF Inv, ResetInv, TypeOK, Booting, BootSteps, Resetting
<1>3. ResetInv'
  BY <1>1, <1>2 DEF Inv, ResetInv, Booting, Resetting
<1>4. AppInv'
  BY <1>1, <1>2 DEF Inv, AppInv, Booting, Resetting
<1>5. AdvInv'
  BY DEF Inv, AdvInv
<1>6. /\ MismatchGuarded' /\ CopiesAgree' /\ TimeoutOnlyUnprovisioned'
      /\ ModeMatchesRequests' /\ ManualRequestTimesOut' /\ EnableFlagTracksStack'
  BY <1>1, <1>3 DEF Inv, ResetInv, Resetting, MismatchGuarded, CopiesAgree,
     TimeoutOnlyUnprovisioned, ModeMatchesRequests, ManualRequestTimesOut,
     EnableFlagTracksStack
<1>. QED  BY <1>3, <1>4, <1>5, <1>6 DEF Inv

\* Every step of factory_reset_perform preserves the inductive invariant.
LEMMA ResetKeepsInv ==
    ASSUME Inv, Reset
    PROVE  Inv'
<1>. USE DEF Goto
<1>. /\ TypeOK /\ adv \in AdvState /\ app \in AppState /\ fr \in ResetState /\ fp \in FpState
  BY DEF Inv, TypeOK
<1>. TypeOK'
  BY ResetKeepsType
<1>0. Resetting => boot \in {"up", "dead"} /\ fr.state = "IN_PROGRESS" /\ ~fr.work
  BY DEF Inv, ResetInv, TypeOK, Booting, BootSteps
<1>1. CASE ChipReset /\ UNCHANGED losses
  BY <1>1, ChipResetInv DEF TypeOK
<1>2. CASE ResetDisableAdv /\ ~(ChipReset /\ UNCHANGED losses)
  <2>1. /\ fr.step = "disable_adv" /\ fr' = [fr EXCEPT !.step = "disable_fp"]
        /\ ~(fr.fp_adv_is_ready /\ app_fp_adv_disable_fails(adv, "ok", "none"))
        /\ adv' = IF fr.fp_adv_is_ready THEN app_fp_adv_disable(adv, "ok", "none") ELSE adv
        /\ UNCHANGED <<app, fp, link, boot>>
    BY <1>2 DEF ResetDisableAdv
  <2>2. fr.fp_adv_is_ready = adv.is_enabled
    BY <2>1 DEF Inv, ResetInv
  <2>3. /\ ~adv'.is_enabled /\ ~adv'.fp_adv_set_active /\ adv'.fp_adv_mode = "off"
        /\ adv'.fp_adv_request_bm = adv.fp_adv_request_bm
        /\ adv'.fp_adv_set => adv' = adv
    <3>1. CASE adv.is_enabled
      BY <2>1, <2>2, <3>1, DisableEffect
    <3>2. CASE ~adv.is_enabled
      BY <2>1, <2>2, <3>2 DEF Inv, AdvInv
    <3>. QED  BY <3>1, <3>2
  <2>4. /\ fr'.step = "disable_fp" /\ fr'.state = fr.state /\ fr'.work = fr.work
        /\ fr'.fp_adv_is_ready = fr.fp_adv_is_ready
        /\ fr'.fast_pair_is_ready = fr.fast_pair_is_ready
    BY <2>1 DEF ResetState
  <2>5. FlashInv'
    BY <2>1, <2>4 DEF Inv, FlashInv
  <2>6. ResetInv'
    BY <1>0, <2>1, <2>3, <2>4 DEF Inv, ResetInv, Booting, Resetting
  <2>7. AppInv'
    BY <1>0, <2>1, <2>3, <2>4 DEF Inv, AppInv, Booting, Resetting
  <2>8. AdvInv'
    BY <1>0, <2>1, <2>3 DEF Inv, AdvInv, Resetting
  <2>9. /\ MismatchGuarded' /\ CopiesAgree' /\ TimeoutOnlyUnprovisioned'
        /\ ModeMatchesRequests' /\ ManualRequestTimesOut' /\ EnableFlagTracksStack'
    BY <1>0, <2>1, <2>3, <2>4 DEF Inv, Resetting, MismatchGuarded, CopiesAgree,
       TimeoutOnlyUnprovisioned, ModeMatchesRequests, ManualRequestTimesOut,
       EnableFlagTracksStack
  <2>. QED  BY <2>5, <2>6, <2>7, <2>8, <2>9 DEF Inv
<1>3. CASE ResetDisableFastPair /\ ~(ChipReset /\ UNCHANGED losses)
  <2>1. /\ fr.step = "disable_fp" /\ fr' = [fr EXCEPT !.step = "mark"]
        /\ fp' = IF fr.fast_pair_is_ready THEN bt_fast_pair_disable(fp) ELSE fp
        /\ app' = [app EXCEPT !.fmdn_id_mode = @ /\ fp'.id_mode]
        /\ UNCHANGED <<adv, link, boot>>
    BY <1>3 DEF ResetDisableFastPair, Panic
  <2>2. /\ ~fp'.ready /\ fp'.key = fp.key /\ fp'.provisioned = fp.provisioned
        /\ fp'.wiping = fp.wiping /\ (fp'.id_mode => fp.id_mode)
    BY <2>1 DEF Inv, ResetInv, bt_fast_pair_disable, FpState
  <2>3. /\ app'.fmdn_id_mode = (app.fmdn_id_mode /\ fp'.id_mode)
        /\ app'.fp_adv_ui_request = app.fp_adv_ui_request
        /\ app'.stop_discoverable_work = app.stop_discoverable_work
        /\ app'.fmdn_provisioned = app.fmdn_provisioned
        /\ app'.fp_account_key_present = app.fp_account_key_present
        /\ app'.factory_reset_trigger = app.factory_reset_trigger
        /\ app'.fmdn_conn_auth_bm = app.fmdn_conn_auth_bm
    BY <2>1 DEF AppState
  <2>4. app'.fmdn_id_mode = fp'.id_mode
    <3>1. app.fmdn_id_mode = fp.id_mode /\ fp'.id_mode \in BOOLEAN /\ fp.id_mode \in BOOLEAN
      BY DEF Inv, AppInv, TypeOK, FpState
    <3>. QED  BY <2>2, <2>3, <3>1
  <2>5. /\ fr'.step = "mark" /\ fr'.state = fr.state /\ fr'.work = fr.work
        /\ fr'.fp_adv_is_ready = fr.fp_adv_is_ready
    BY <2>1 DEF ResetState
  <2>6. FlashInv'
    BY <1>0, <2>1, <2>2, <2>3, <2>5 DEF Inv, FlashInv, Resetting
  <2>7. ResetInv'
    BY <1>0, <2>1, <2>5 DEF Inv, ResetInv, Booting, Resetting
  <2>8. AppInv'
    BY <1>0, <2>1, <2>2, <2>3, <2>4, <2>5 DEF Inv, AppInv, Booting, Resetting
  <2>9. AdvInv'
    BY <2>1, <2>2 DEF Inv, AdvInv
  <2>10. /\ MismatchGuarded' /\ CopiesAgree' /\ TimeoutOnlyUnprovisioned'
         /\ ModeMatchesRequests' /\ ManualRequestTimesOut' /\ EnableFlagTracksStack'
    BY <1>0, <2>1, <2>2, <2>3, <2>5 DEF Inv, Resetting, MismatchGuarded, CopiesAgree,
       TimeoutOnlyUnprovisioned, ModeMatchesRequests, requested_mode, ManualRequestTimesOut,
       EnableFlagTracksStack
  <2>. QED  BY <2>6, <2>7, <2>8, <2>9, <2>10 DEF Inv
<1>4. CASE ResetMark /\ ~(ChipReset /\ UNCHANGED losses)
  <2>1. /\ fr.step = "mark" /\ fr' = [fr EXCEPT !.step = "erase"]
        /\ fp' = [fp EXCEPT !.wiping = TRUE] /\ UNCHANGED <<adv, app, link, boot>>
    BY <1>4 DEF ResetMark, Panic
  <2>2. /\ fr'.step = "erase" /\ fr'.work = fr.work /\ ~fp'.ready /\ fp'.wiping
        /\ fp'.id_mode = fp.id_mode /\ fp'.provisioned = fp.provisioned
    BY <2>1 DEF ResetState, FpState, Inv, FlashInv
  <2>3. FlashInv'
    BY <1>0, <2>1, <2>2 DEF Inv, FlashInv, Resetting
  <2>4. ~adv.is_enabled
    BY <2>1 DEF Inv, ResetInv
  <2>. QED  BY <2>1, <2>2, <2>3, <2>4, FlashStepInv DEF Resetting
<1>5. CASE ResetErase
  <2>1. /\ fr.step = "erase" /\ fr' = [fr EXCEPT !.step = "erase"]
        /\ \/ fp' = [fp EXCEPT !.key = FALSE]
           \/ fp' = [fp EXCEPT !.provisioned = FALSE]
        /\ UNCHANGED <<adv, app, link, boot>>
    BY <1>5 DEF ResetErase, ResetState
  <2>2. /\ fr'.step = "erase" /\ fr'.work = fr.work /\ fp'.ready = fp.ready
        /\ fp'.wiping = fp.wiping
        /\ fp'.id_mode = fp.id_mode /\ (fp'.provisioned => fp.provisioned)
        /\ fp'.provisioned => fp'.key \/ fp.wiping
    BY <2>1 DEF ResetState, FpState, Inv, FlashInv
  <2>3. FlashInv'
    BY <1>0, <2>1, <2>2 DEF Inv, FlashInv, Resetting
  <2>4. ~adv.is_enabled
    BY <2>1 DEF Inv, ResetInv
  <2>. QED  BY <2>1, <2>2, <2>3, <2>4, FlashStepInv DEF Resetting
<1>6. CASE ResetErased /\ ~(ChipReset /\ UNCHANGED losses)
  <2>1. /\ fr.step = "erase" /\ fr' = [fr EXCEPT !.step = "enable_fp"]
        /\ ~fp.provisioned
        /\ fp' = [fp EXCEPT !.wiping = FALSE] /\ UNCHANGED <<adv, app, link, boot>>
    BY <1>6 DEF ResetErased, Panic
  <2>2. /\ fr'.step = "enable_fp" /\ fr'.work = fr.work /\ ~fp'.ready /\ ~fp'.wiping
        /\ fp'.id_mode = fp.id_mode /\ ~fp'.provisioned
    BY <2>1 DEF ResetState, FpState, Inv, FlashInv
  <2>3. FlashInv'
    BY <1>0, <2>1, <2>2 DEF Inv, FlashInv, Resetting
  <2>4. ~adv.is_enabled
    BY <2>1 DEF Inv, ResetInv
  <2>. QED  BY <2>1, <2>2, <2>3, <2>4, FlashStepInv DEF Resetting
<1>7. CASE ResetEnableFastPair /\ ~(ChipReset /\ UNCHANGED losses)
  <2>1. /\ fr.step = "enable_fp" /\ fr' = [fr EXCEPT !.step = "enable_adv"]
        /\ fp' = IF fr.fast_pair_is_ready THEN bt_fast_pair_enable(fp) ELSE fp
        /\ UNCHANGED <<adv, app, link, boot>>
    BY <1>7 DEF ResetEnableFastPair, Panic
  <2>2. ~fp.wiping
    BY <1>0, <2>1 DEF Inv, FlashInv, Resetting
  <2>3. /\ fr'.step = "enable_adv" /\ fr'.work = fr.work /\ fp'.wiping = fp.wiping
        /\ fp'.id_mode = fp.id_mode /\ fp'.provisioned = fp.provisioned /\ fp'.key = fp.key
    BY <2>1, <2>2 DEF ResetState, FpState, bt_fast_pair_enable
  <2>4. FlashInv'
    BY <1>0, <2>1, <2>2, <2>3 DEF Inv, FlashInv, Resetting
  <2>5. ~adv.is_enabled
    BY <2>1 DEF Inv, ResetInv
  <2>. QED  BY <2>1, <2>3, <2>4, <2>5, FlashStepInv DEF Resetting
<1>8. CASE ResetEnableAdv /\ ~(ChipReset /\ UNCHANGED losses)
  <2>1. /\ fr.step = "enable_adv" /\ fr' = [fr EXCEPT !.step = "executed"]
        /\ UNCHANGED <<app, fp, link, boot>>
        /\ \/ ~fr.fp_adv_is_ready /\ adv' = adv
           \/ /\ fr.fp_adv_is_ready
              /\ \E res \in StackResults :
                   adv' = app_fp_adv_enable(adv, fp.key, fp.provisioned, "none", res)
    BY <1>8 DEF ResetEnableAdv, Panic
  <2>2. ~adv.is_enabled /\ fp.key \in BOOLEAN /\ fp.provisioned \in BOOLEAN
    BY <2>1 DEF Inv, ResetInv, FpState
  <2>3. /\ fr'.step = "executed" /\ fr'.state = fr.state /\ fr'.work = fr.work
        /\ fr'.fp_adv_is_ready = fr.fp_adv_is_ready
    BY <2>1 DEF ResetState
  <2>4. /\ adv'.is_enabled => /\ boot = "up" /\ adv'.fp_adv_set
                              /\ adv'.fp_account_key_present = fp.key
                              /\ adv'.fmdn_provisioned = fp.provisioned
                              /\ adv'.fp_adv_mode = requested_mode(adv')
        /\ ~adv'.is_enabled => adv' = adv
        /\ adv'.fp_adv_request_bm = adv.fp_adv_request_bm
        /\ adv'.fp_adv_set /\ ~adv'.fp_account_key_present => adv'.interval = 100
    <3>1. CASE ~fr.fp_adv_is_ready
      BY <2>1, <2>2, <3>1 DEF Inv, AdvInv
    <3>2. CASE fr.fp_adv_is_ready
      <4>1. boot = "up"
        BY <2>1, <3>2 DEF Inv, ResetInv, Resetting
      <4>. QED  BY <2>1, <2>2, <3>2, <4>1, EnableEffect
    <3>. QED  BY <3>1, <3>2
  <2>5. FlashInv'
    BY <2>1, <2>3 DEF Inv, FlashInv
  <2>6. ResetInv'
    BY <1>0, <2>1, <2>3 DEF Inv, ResetInv, Booting, Resetting
  <2>7. AppInv'
    BY <1>0, <2>1, <2>3, <2>4 DEF Inv, AppInv, Booting, Resetting
  <2>8. AdvInv'
    BY <1>0, <2>1, <2>2, <2>4 DEF Inv, AdvInv, Resetting
  <2>9. /\ MismatchGuarded' /\ CopiesAgree' /\ TimeoutOnlyUnprovisioned'
        /\ ModeMatchesRequests' /\ ManualRequestTimesOut' /\ EnableFlagTracksStack'
    BY <1>0, <2>1, <2>3, <2>4 DEF Inv, Resetting, MismatchGuarded, CopiesAgree,
       TimeoutOnlyUnprovisioned, ModeMatchesRequests, ManualRequestTimesOut,
       EnableFlagTracksStack
  <2>. QED  BY <2>5, <2>6, <2>7, <2>8, <2>9 DEF Inv
<1>9. CASE ResetExecuted
  <2>1. /\ fr.step = "executed" /\ fr' = [fr EXCEPT !.state = "IDLE", !.step = "reboot"]
        /\ app' = [app EXCEPT !.factory_reset_trigger = "NONE",
                              !.fp_account_key_present = IF fp.ready THEN fp.key ELSE @]
        /\ UNCHANGED <<adv, fp, link, boot>>
    BY <1>9 DEF ResetExecuted
  <2>2. /\ app'.factory_reset_trigger = "NONE"
        /\ fp.ready => app'.fp_account_key_present = fp.key
        /\ app'.fp_adv_ui_request = app.fp_adv_ui_request
        /\ app'.stop_discoverable_work = app.stop_discoverable_work
        /\ app'.fmdn_provisioned = app.fmdn_provisioned
        /\ app'.fmdn_id_mode = app.fmdn_id_mode
        /\ app'.fmdn_conn_auth_bm = app.fmdn_conn_auth_bm
    BY <2>1 DEF AppState
  <2>3. fr'.step = "reboot" /\ fr'.state = "IDLE" /\ fr'.work = fr.work
    BY <2>1 DEF ResetState
  <2>4. boot = "up" => adv.fp_adv_request_bm = {}
    BY <2>1 DEF Inv, AppInv, Resetting
  <2>5. FlashInv'
    BY <1>0, <2>1, <2>2, <2>3 DEF Inv, FlashInv, Resetting
  <2>6. ResetInv'
    BY <1>0, <2>1, <2>3 DEF Inv, ResetInv, Booting, Resetting
  <2>7. AppInv'
    BY <1>0, <2>1, <2>2, <2>3, <2>4 DEF Inv, AppInv, Booting, Resetting
  <2>8. AdvInv'
    BY <2>1 DEF Inv, AdvInv
  <2>9. /\ MismatchGuarded' /\ CopiesAgree' /\ TimeoutOnlyUnprovisioned'
        /\ ModeMatchesRequests' /\ ManualRequestTimesOut' /\ EnableFlagTracksStack'
    BY <2>1, <2>2, <2>3 DEF Inv, MismatchGuarded, CopiesAgree, TimeoutOnlyUnprovisioned,
       ModeMatchesRequests, requested_mode, ManualRequestTimesOut, EnableFlagTracksStack
  <2>. QED  BY <2>5, <2>6, <2>7, <2>8, <2>9 DEF Inv
<1>10. CASE ResetReboot
  BY <1>1, <1>10 DEF ResetReboot
<1>. QED
  BY <1>1, <1>2, <1>3, <1>4, <1>5, <1>6, <1>7, <1>8, <1>9, <1>10, ResetBeginKeepsInv DEF Reset

-----------------------------------------------------------------------------
(***************************************************************************)
(* The theorems.                                                           *)
(***************************************************************************)

\* The invariant holds throughout every behaviour.
THEOREM Invariance == Spec => []Inv
<1>1. Init => Inv
  <2>. SUFFICES ASSUME Init
                PROVE  Inv
    OBVIOUS
  <2>1. TypeOK
    BY BootTypes, BoundAssumption DEF Init, TypeOK, FpState, LinkStates, BootSteps
  <2>2. /\ FlashInv /\ ResetInv /\ AppInv /\ AdvInv
    BY DEF Init, FlashInv, ResetInv, AppInv, AdvInv, Booting, Resetting, AdvBoot, AppBoot,
       ResetBoot
  <2>3. /\ MismatchGuarded /\ TimeoutOnlyUnprovisioned /\ CopiesAgree
        /\ ModeMatchesRequests /\ ManualRequestTimesOut /\ EnableFlagTracksStack
    BY DEF Init, MismatchGuarded, TimeoutOnlyUnprovisioned, CopiesAgree, ModeMatchesRequests,
       ManualRequestTimesOut, EnableFlagTracksStack, AdvBoot, AppBoot
  <2>. QED  BY <2>1, <2>2, <2>3 DEF Inv
<1>2. Inv /\ [Next]_vars => Inv'
  <2>. SUFFICES ASSUME Inv, [Next]_vars
                PROVE  Inv'
    OBVIOUS
  <2>1. CASE PowerLoss
    <3>1. faults' \in 0..MaxFaults /\ losses' \in 0..MaxLosses
      BY <2>1, BoundAssumption DEF PowerLoss, Inv, TypeOK
    <3>. QED  BY <2>1, <3>1, ChipResetInv DEF PowerLoss
  <2>2. CASE UNCHANGED vars
    BY <2>2 DEF vars, Inv, TypeOK, FlashInv, ResetInv, AppInv, AdvInv, Booting, Resetting,
       MismatchGuarded, TimeoutOnlyUnprovisioned, CopiesAgree, ModeMatchesRequests,
       requested_mode, ManualRequestTimesOut, EnableFlagTracksStack
  <2>. QED
    BY <2>1, <2>2, BootKeepsInv, LinksKeepInv, CallbacksKeepInv, ButtonsKeepInv,
       WorksKeepInv, ResetKeepsInv DEF Next
<1>. QED  BY <1>1, <1>2, PTL DEF Spec

\* A running tag whose key and provisioning do not match always has a factory
\* reset under way (fmdn_provisioning_state_init, fmdn_provisioning_state_changed
\* and fp_account_key_written schedule it).
THEOREM MismatchAlwaysGuarded == Spec => []MismatchGuarded
BY Invariance, PTL DEF Inv

\* The provisioning timeout never erases a provisioned tag.
THEOREM TimeoutNeverHitsOwner == Spec => []TimeoutOnlyUnprovisioned
BY Invariance, PTL DEF Inv

\* The copies of the stored state in main.c and fp_adv.c are never stale.
THEOREM CopiesAlwaysAgree == Spec => []CopiesAgree
BY Invariance, PTL DEF Inv

\* fp_adv.c is always in the mode its requests and the Account Key ask for.
THEOREM ModeAlwaysMatches == Spec => []ModeMatchesRequests
BY Invariance, PTL DEF Inv

\* A manual advertising request is always backed by its timeout.
THEOREM ManualRequestBounded == Spec => []ManualRequestTimesOut
BY Invariance, PTL DEF Inv

\* fmdn_advt_mode_change_handle never reads its error code uninitialised.
THEOREM FlagAlwaysTracks == Spec => []EnableFlagTracksStack
BY Invariance, PTL DEF Inv

\* Identifying information of a provisioned tag is read only by a peer that
\* authenticated itself on this link, or in the identification mode.
THEOREM InfoProtected == Spec => []IdentifyingInfoProtected
<1>1. Inv => IdentifyingInfoProtected
  BY DEF Inv, AppInv, IdentifyingInfoProtected, identifying_info_allow
<1>. QED  BY <1>1, Invariance, PTL

\* No advertising mode and no activity without an advertising set.
THEOREM SetAlwaysExists == Spec => []SetExists
<1>1. Inv => SetExists
  BY DEF Inv, AdvInv, SetExists
<1>. QED  BY <1>1, Invariance, PTL

\* Discoverable advertising always uses the short interval.
THEOREM IntervalAlwaysShort == Spec => []DiscoverableInterval
<1>1. Inv => DiscoverableInterval
  BY DEF Inv, AdvInv, ModeMatchesRequests, requested_mode, DiscoverableInterval
<1>. QED  BY <1>1, Invariance, PTL

-----------------------------------------------------------------------------
(***************************************************************************)
(* Ownership: the tag implements the contract of module Ownership.         *)
(***************************************************************************)

\* What the contract needs beyond Inv: a pending reset has its work item, and a boot
\* that has stopped knows of no key that is not there.
OwnInv ==
    /\ fr.state = "PENDING" /\ fr.step = "idle" => fr.work
    /\ boot = "dead" /\ fr.step = "idle" /\ app.fp_account_key_present => fp.key

\* A step of the contract, or a stutter.
OwnStep == O!Next \/ UNCHANGED <<Stage, Deadline>>

\* A reset of the chip forgets the deadline and nothing else.
LEMMA ChipResetOwn ==
    ASSUME Inv, ChipReset
    PROVE  OwnInv' /\ OwnStep
<1>1. fp \in FpState
  BY DEF Inv, TypeOK
<1>2. /\ fp'.wiping = fp.wiping /\ fp'.key = fp.key /\ fp'.provisioned = fp.provisioned
      /\ fr'.step = "idle" /\ fr'.state = "IDLE" /\ boot' = "start"
  BY <1>1 DEF ChipReset, FpState, ResetBoot
<1>3. Stage' = Stage /\ Deadline' = "none"
  BY <1>2 DEF Stage, Deadline
<1>4. OwnInv'
  BY <1>2 DEF OwnInv
<1>. QED  BY <1>3, <1>4 DEF OwnStep, O!Next, O!Restart

\* Steps that leave the stored data and factory_reset.c alone.
LEMMA QuietOwn ==
    ASSUME Inv, OwnInv, UNCHANGED <<fr, boot>>,
           fp'.wiping = fp.wiping, fp'.key = fp.key, fp'.provisioned = fp.provisioned,
           app'.factory_reset_trigger = app.factory_reset_trigger,
           app'.fp_account_key_present = app.fp_account_key_present
    PROVE  OwnInv' /\ OwnStep
<1>1. OwnInv'
  BY DEF OwnInv
<1>2. UNCHANGED <<Stage, Deadline>>
  BY DEF Stage, Deadline
<1>. QED  BY <1>1, <1>2 DEF OwnStep

\* init_work_handle: a tag that boots with half an owner is condemned, and an
\* interrupted erasure completed.
LEMMA BootOwn ==
    ASSUME Inv, OwnInv, Boot
    PROVE  OwnInv' /\ OwnStep
<1>1. fp \in FpState /\ app \in AppState /\ fr \in ResetState /\ (fr.work => fr.state = "PENDING")
  BY DEF Inv, TypeOK, ResetInv
<1>2. CASE boot \in {"start", "prepared", "fp_on"} /\ UNCHANGED <<app, fr, fp>>
  <2>1. OwnInv'
    BY <1>2 DEF OwnInv, Inv, AppInv, Booting
  <2>2. UNCHANGED <<Stage, Deadline>>
    BY <1>2 DEF Stage, Deadline
  <2>. QED  BY <2>1, <2>2 DEF OwnStep
<1>3. CASE BootPrepare
  <2>1. UNCHANGED <<app, fr, fp>> /\ boot = "start"
    BY <1>3 DEF BootPrepare, BootStops, Inv, ResetInv, Booting
  <2>. QED  BY <1>2, <2>1
<1>4. CASE BootEnableFastPair
  <2>1. CASE BootStops
    BY <1>2, <1>4, <2>1 DEF BootStops, BootEnableFastPair
  <2>2. CASE fp' = bt_fast_pair_enable(fp) /\ boot' = "fp_on" /\ UNCHANGED <<app, fr>>
    <3>1. OwnInv'
      BY <2>2 DEF OwnInv
    <3>2. CASE fp.wiping
      <4>1. Stage = "erasing" /\ Stage' = "unowned" /\ Deadline' = Deadline
        BY <1>1, <2>2, <3>2 DEF Stage, Deadline, bt_fast_pair_enable, FpState
      <4>. QED  BY <3>1, <4>1 DEF OwnStep, O!Next, O!Erased
    <3>3. CASE ~fp.wiping
      <4>1. Stage' = Stage /\ Deadline' = Deadline
        BY <1>1, <2>2, <3>3 DEF Stage, Deadline, bt_fast_pair_enable, FpState
      <4>. QED  BY <3>1, <4>1 DEF OwnStep
    <3>. QED  BY <3>2, <3>3
  <2>. QED  BY <1>4, <2>1, <2>2 DEF BootEnableFastPair
<1>5. CASE BootEnableAdv
  <2>1. UNCHANGED <<app, fr, fp>> /\ boot = "fp_on"
    BY <1>5 DEF BootEnableAdv, BootStops
  <2>. QED  BY <1>2, <2>1
<1>6. CASE BootStateInit
  <2>1. boot = "adv_on" /\ boot' = "up" /\ UNCHANGED fp /\ fr.step = "idle" /\ ~fp.wiping
        /\ (fp.provisioned => fp.key)
    BY <1>6 DEF BootStateInit, Inv, ResetInv, FlashInv, Booting
  <2>. DEFINE m == [fmdn_provisioning_state_set(app, fp.provisioned)
                      EXCEPT !.fp_account_key_present = fp.key]
  <2>2. fmdn_provisioning_state_set(app, fp.provisioned) \in AppState
        /\ fmdn_provisioning_state_set(app, fp.provisioned).factory_reset_trigger
             = app.factory_reset_trigger
    BY <1>1 DEF fmdn_provisioning_state_set, AppState, FpState
  <2>3. m \in AppState /\ m.factory_reset_trigger = app.factory_reset_trigger
    BY <1>1, <2>2 DEF AppState, FpState
  <2>4. CASE fp.key # fp.provisioned
    <3>1. fr' = app_factory_reset_schedule(fr)
          /\ app' = [m EXCEPT !.factory_reset_trigger = "KEY_STATE_MISMATCH"]
      BY <1>6, <2>4 DEF BootStateInit
    <3>. HIDE DEF m
    <3>2. app'.factory_reset_trigger = "KEY_STATE_MISMATCH"
      BY <2>3, <3>1 DEF AppState, ResetTriggers
    <3>3. fr'.step = "idle" /\ fr'.state = "PENDING" /\ fr'.work
      BY <1>1, <2>1, <3>1 DEF app_factory_reset_schedule, ResetState, OwnInv, Inv, ResetInv,
         ResetStates
    <3>4. fp.key /\ ~fp.provisioned
      BY <1>1, <2>1, <2>4 DEF FpState
    <3>5. Stage = "claimed" /\ Stage' = "claimed" /\ Deadline' = "certain"
      BY <2>1, <3>2, <3>3, <3>4 DEF Stage, Deadline
    <3>6. OwnInv'
      BY <2>1, <3>3 DEF OwnInv
    <3>. QED  BY <3>5, <3>6 DEF OwnStep, O!Next, O!Condemn
  <2>5. CASE fp.key = fp.provisioned
    <3>1. UNCHANGED fr /\ app' = [m EXCEPT !.vision_started = @ \/ fp.provisioned]
      BY <1>6, <2>5 DEF BootStateInit
    <3>. HIDE DEF m
    <3>2. app'.factory_reset_trigger = app.factory_reset_trigger
      BY <2>3, <3>1 DEF AppState
    <3>3. OwnInv' /\ UNCHANGED <<Stage, Deadline>>
      BY <2>1, <3>1, <3>2 DEF OwnInv, Stage, Deadline
    <3>. QED  BY <3>3 DEF OwnStep
  <2>. QED  BY <2>4, <2>5
<1>7. CASE InitTimeout
  BY <1>7, ChipResetOwn DEF InitTimeout
<1>. QED  BY <1>3, <1>4, <1>5, <1>6, <1>7 DEF Boot

\* Connections come and go without touching the ownership, except that a link may be
\* authenticated.
LEMMA LinksOwn ==
    ASSUME Inv, OwnInv, Links
    PROVE  OwnInv' /\ OwnStep
<1>1. app \in AppState
  BY DEF Inv, TypeOK
<1>2. UNCHANGED <<fr, fp, boot>>
  BY DEF Links, Connect, ConnectFails, Authenticate, LinkDown, Disconnected
<1>3. UNCHANGED app \/ \E c \in Conns, f \in BOOLEAN :
        app' = fmdn_conn_auth_bm_conn_status_set(app, c, f)
  BY DEF Links, Connect, ConnectFails, Authenticate, LinkDown, Disconnected
<1>4. \A c \in Conns, f \in BOOLEAN :
        LET m == fmdn_conn_auth_bm_conn_status_set(app, c, f) IN
        /\ m.factory_reset_trigger = app.factory_reset_trigger
        /\ m.fp_account_key_present = app.fp_account_key_present
  BY <1>1 DEF fmdn_conn_auth_bm_conn_status_set, AppState
<1>5. app'.factory_reset_trigger = app.factory_reset_trigger
      /\ app'.fp_account_key_present = app.fp_account_key_present
  BY <1>3, <1>4
<1>. QED  BY <1>2, <1>5, QuietOwn

\* The first key claims the tag.  What main.c takes for the first key is the first.
LEMMA KeyWrittenOwn ==
    ASSUME Inv, OwnInv, NEW res, AccountKeyWritten(res)
    PROVE  OwnInv' /\ OwnStep
<1>1. fp \in FpState /\ app \in AppState /\ fr \in ResetState /\ (fr.work => fr.state = "PENDING")
      /\ fr.state \in ResetStates
  BY DEF Inv, TypeOK, ResetInv, ResetState
<1>2. /\ fp.ready /\ ~fp.wiping /\ (fp.provisioned => fp.key) /\ UNCHANGED boot
      /\ (fp.key => boot = "up")
  BY DEF AccountKeyWritten, Inv, FlashInv
<1>3. fp'.key /\ fp'.wiping = fp.wiping /\ fp'.provisioned = fp.provisioned
  BY <1>1 DEF AccountKeyWritten, FpState
<1>4. CASE ~app.fp_account_key_present
  <2>1. fr' = app_factory_reset_schedule(fr)
        /\ app' = [app EXCEPT !.fp_account_key_present = TRUE,
                              !.factory_reset_trigger = "PROVISIONING_TIMEOUT"]
    BY <1>4 DEF AccountKeyWritten
  <2>2. app'.factory_reset_trigger = "PROVISIONING_TIMEOUT"
    BY <1>1, <2>1 DEF AppState
  <2>3. ~fp.key /\ ~fp.provisioned
    <3>1. CASE boot = "up"
      BY <1>1, <1>2, <1>4, <3>1 DEF Inv, AppInv, CopiesAgree, Resetting, FpState, AppState
    <3>. QED  BY <1>2, <3>1
  <2>4. fr.step = "idle" => fr.state = "IDLE"
    BY <1>1, <2>3 DEF OwnInv, Inv, FlashInv, ResetInv, ResetStates
  <2>5. fr'.step = fr.step /\ (fr.step = "idle" => fr'.state = "PENDING" /\ fr'.work)
    BY <1>1, <2>1, <2>4 DEF app_factory_reset_schedule, ResetState
  <2>6. /\ Stage = "unowned" /\ Stage' = "claimed"
        /\ Deadline' = IF Deadline = "none" THEN "timeout" ELSE Deadline
    BY <1>2, <1>3, <2>2, <2>3, <2>4, <2>5 DEF Stage, Deadline
  <2>7. OwnInv'
    BY <1>3, <2>5 DEF OwnInv
  <2>. QED  BY <2>6, <2>7 DEF OwnStep, O!Next, O!Claim
<1>5. CASE app.fp_account_key_present
  <2>1. UNCHANGED <<app, fr>>
    BY <1>5 DEF AccountKeyWritten
  <2>2. OwnInv'
    BY <1>2, <1>3, <2>1 DEF OwnInv
  <2>3. CASE fp.key
    BY <1>2, <1>3, <2>1, <2>2, <2>3 DEF OwnStep, Stage, Deadline
  <2>4. CASE ~fp.key
    <3>1. fr.step # "idle"
      BY <1>1, <1>2, <1>5, <2>4
      DEF OwnInv, Inv, TypeOK, BootSteps, AppInv, CopiesAgree, Booting, FpState, AppState
    <3>2. /\ Stage = "unowned" /\ Stage' = "claimed"
          /\ Deadline = "certain" /\ Deadline' = "certain"
      BY <1>2, <1>3, <2>1, <2>4, <3>1 DEF Stage, Deadline
    <3>. QED  BY <2>2, <3>2 DEF OwnStep, O!Next, O!Claim
  <2>. QED  BY <2>3, <2>4
<1>. QED  BY <1>4, <1>5

\* The provisioning makes the claimant the owner, and calls off the timeout only.
LEMMA ProvisionedOwn ==
    ASSUME Inv, OwnInv, NEW res, Provisioned(res)
    PROVE  OwnInv' /\ OwnStep
<1>. DEFINE timeout == app.factory_reset_trigger = "PROVISIONING_TIMEOUT"
            m == fmdn_provisioning_state_set(app, TRUE)
            trigger == IF timeout THEN "NONE" ELSE app.factory_reset_trigger
<1>1. fp \in FpState /\ app \in AppState /\ fr \in ResetState /\ (fr.work => fr.state = "PENDING")
      /\ (fr.step = "idle" => fr.state # "IN_PROGRESS")
  BY DEF Inv, TypeOK, ResetInv
<1>2. fp.key /\ ~fp.provisioned /\ ~fp.wiping /\ UNCHANGED boot
  BY DEF Provisioned, Inv, FlashInv
<1>3. fp'.key = fp.key /\ fp'.wiping = fp.wiping /\ fp'.provisioned
  BY <1>1 DEF Provisioned, FpState
<1>4. m \in AppState /\ m.factory_reset_trigger = app.factory_reset_trigger
  BY <1>1 DEF fmdn_provisioning_state_set, AppState
<1>5. app' = [m EXCEPT !.factory_reset_trigger = trigger, !.fp_adv_ui_request = FALSE,
                       !.vision_started = TRUE]
  BY <1>4 DEF Provisioned, provisioning_timeout_scheduled
<1>6. app'.factory_reset_trigger = trigger
  <2>. HIDE DEF m, trigger
  <2>. QED  BY <1>4, <1>5 DEF AppState
<1>7. fr' = IF timeout THEN app_factory_reset_cancel(fr) ELSE fr
  BY DEF Provisioned, provisioning_timeout_scheduled
<1>8. /\ fr'.step = fr.step
      /\ fr.step = "idle" /\ timeout => fr'.state = "IDLE"
      /\ ~timeout => fr'.state = fr.state /\ fr'.work = fr.work
  BY <1>1, <1>7 DEF app_factory_reset_cancel, ResetState
<1>9. Stage = "claimed" /\ Stage' = "owned"
  BY <1>2, <1>3 DEF Stage
<1>10. Deadline' = IF Deadline = "timeout" THEN "none" ELSE Deadline
  BY <1>6, <1>8 DEF Deadline
<1>11. OwnInv'
  BY <1>2, <1>3, <1>8 DEF OwnInv
<1>. QED  BY <1>9, <1>10, <1>11 DEF OwnStep, O!Next, O!Own

\* The owner releases the tag.
LEMMA UnprovisionedOwn ==
    ASSUME Inv, OwnInv, NEW res, Unprovisioned(res)
    PROVE  OwnInv' /\ OwnStep
<1>. DEFINE m == fmdn_provisioning_state_set(app, FALSE)
<1>1. fp \in FpState /\ app \in AppState /\ fr \in ResetState /\ (fr.work => fr.state = "PENDING")
      /\ (fr.step = "idle" => fr.state # "IN_PROGRESS")
  BY DEF Inv, TypeOK, ResetInv
<1>2. fp.key /\ fp.provisioned /\ ~fp.wiping /\ UNCHANGED boot
  BY DEF Unprovisioned, Inv, FlashInv
<1>3. fp'.key = fp.key /\ fp'.wiping = fp.wiping /\ ~fp'.provisioned
  BY <1>1 DEF Unprovisioned, FpState
<1>4. m \in AppState
  BY <1>1 DEF fmdn_provisioning_state_set, AppState
<1>5. app' = [m EXCEPT !.factory_reset_trigger = "KEY_STATE_MISMATCH"]
  BY DEF Unprovisioned
<1>6. app'.factory_reset_trigger = "KEY_STATE_MISMATCH"
  <2>. HIDE DEF m
  <2>. QED  BY <1>4, <1>5 DEF AppState
<1>7. fr' = app_factory_reset_schedule(fr)
  BY DEF Unprovisioned
<1>8. fr'.step = fr.step /\ (fr.step = "idle" => fr'.state = "PENDING" /\ fr'.work)
  BY <1>1, <1>7 DEF app_factory_reset_schedule, ResetState, ResetStates, OwnInv
<1>9. Stage = "owned" /\ Stage' = "claimed" /\ Deadline' = "certain"
  BY <1>2, <1>3, <1>6, <1>8 DEF Stage, Deadline
<1>10. OwnInv'
  BY <1>2, <1>3, <1>8 DEF OwnInv
<1>. QED  BY <1>9, <1>10 DEF OwnStep, O!Next, O!Release

\* The callbacks of Fast Pair and FMDN are steps of the ownership, or keep it.
LEMMA CallbacksOwn ==
    ASSUME Inv, OwnInv, Callbacks
    PROVE  OwnInv' /\ OwnStep
<1>1. fp \in FpState /\ app \in AppState
  BY DEF Inv, TypeOK
<1>2. ASSUME NEW res \in StackResults, ClockSynced(res) \/ RpaExpired(res)
      PROVE  OwnInv' /\ OwnStep
  BY <1>2, QuietOwn DEF ClockSynced, RpaExpired
<1>3. CASE IdModeExited
  <2>1. /\ fp'.wiping = fp.wiping /\ fp'.key = fp.key /\ fp'.provisioned = fp.provisioned
        /\ app'.factory_reset_trigger = app.factory_reset_trigger
        /\ app'.fp_account_key_present = app.fp_account_key_present
        /\ UNCHANGED <<fr, boot>>
    BY <1>1, <1>3 DEF IdModeExited, FpState, AppState
  <2>. QED  BY <2>1, QuietOwn
<1>. QED  BY <1>2, <1>3, KeyWrittenOwn, ProvisionedOwn, UnprovisionedOwn DEF Callbacks

\* Buttons and delayed works keep the ownership: a mode change is no provisioning.
LEMMA ButtonsOwn ==
    ASSUME Inv, OwnInv, Buttons \/ Works
    PROVE  OwnInv' /\ OwnStep
<1>1. fp \in FpState /\ app \in AppState /\ fr \in ResetState
  BY DEF Inv, TypeOK
<1>2. ASSUME NEW res \in StackResults, FpAdvModeChange(res)
      PROVE  OwnInv' /\ OwnStep
  <2>1. app'.factory_reset_trigger = app.factory_reset_trigger
        /\ app'.fp_account_key_present = app.fp_account_key_present
    BY <1>1, <1>2 DEF FpAdvModeChange, AppState
  <2>. QED  BY <1>2, <2>1, QuietOwn DEF FpAdvModeChange
<1>3. CASE FmdnAdvModeChange
  <2>1. CASE ChipReset
    BY <2>1, ChipResetOwn
  <2>2. CASE ~ChipReset
    <3>. DEFINE flag == ~app.fmdn_enable_flag
                idm == app.fmdn_id_mode /\ flag
    <3>1. /\ fp' = IF flag THEN bt_fast_pair_enable(fp) ELSE bt_fast_pair_disable(fp)
          /\ app' = [app EXCEPT !.fmdn_enable_flag = flag, !.fmdn_id_mode = idm]
          /\ UNCHANGED <<fr, boot>> /\ app.fmdn_provisioned /\ fr.step = "idle"
          /\ boot \in {"up", "dead"}
      BY <1>3, <2>2 DEF FmdnAdvModeChange, WorkqueueFree
    <3>2. ~fp.wiping
      BY <3>1 DEF Inv, FlashInv
    <3>3. fp'.wiping = fp.wiping /\ fp'.key = fp.key /\ fp'.provisioned = fp.provisioned
      BY <1>1, <3>1, <3>2 DEF bt_fast_pair_enable, bt_fast_pair_disable, FpState
    <3>. HIDE DEF flag, idm
    <3>4. app'.factory_reset_trigger = app.factory_reset_trigger
          /\ app'.fp_account_key_present = app.fp_account_key_present
      BY <1>1, <3>1 DEF AppState
    <3>. QED  BY <3>1, <3>3, <3>4, QuietOwn
  <2>. QED  BY <2>1, <2>2
<1>4. CASE IdModeEnter
  <2>1. /\ fp'.wiping = fp.wiping /\ fp'.key = fp.key /\ fp'.provisioned = fp.provisioned
        /\ app'.factory_reset_trigger = app.factory_reset_trigger
        /\ app'.fp_account_key_present = app.fp_account_key_present
        /\ UNCHANGED <<fr, boot>>
    BY <1>1, <1>4 DEF IdModeEnter, FpState, AppState
  <2>. QED  BY <2>1, QuietOwn
<1>5. CASE FactoryResetRequest
  <2>1. /\ fr'.step = fr.step /\ fr'.state = fr.state /\ fr'.work = fr.work
        /\ UNCHANGED <<fp, app, boot>>
    BY <1>1, <1>5 DEF FactoryResetRequest, ResetState
  <2>. QED  BY <2>1 DEF OwnInv, OwnStep, Stage, Deadline
<1>6. ASSUME NEW res \in StackResults, StopDiscoverable(res)
      PROVE  OwnInv' /\ OwnStep
  <2>1. app'.factory_reset_trigger = app.factory_reset_trigger
        /\ app'.fp_account_key_present = app.fp_account_key_present
    BY <1>1, <1>6 DEF StopDiscoverable, AppState
  <2>. QED  BY <1>6, <2>1, QuietOwn DEF StopDiscoverable
<1>7. ASSUME NEW res \in StackResults, RestartAdvertising(res) \/ SuspensionTimeout
      PROVE  OwnInv' /\ OwnStep
  BY <1>7, QuietOwn DEF RestartAdvertising, SuspensionTimeout
<1>8. CASE SuspensionTimeout
  BY <1>8, QuietOwn DEF SuspensionTimeout
<1>. QED  BY <1>2, <1>3, <1>4, <1>5, <1>6, <1>7, <1>8 DEF Buttons, Works

\* Within factory_reset_perform the reset is certain; only its mark in flash begins
\* the erasure, and only the dropping of the mark ends it.
LEMMA ResetOwn ==
    ASSUME Inv, OwnInv, Reset
    PROVE  OwnInv' /\ OwnStep
<1>1. fp \in FpState /\ app \in AppState /\ fr \in ResetState
  BY DEF Inv, TypeOK
<1>2. ASSUME NEW res \in StackResults, ResetBegin(res)
      PROVE  OwnInv' /\ OwnStep
  <2>1. /\ fr.step = "idle" /\ fr.work /\ boot \in {"up", "dead"} /\ UNCHANGED <<fp, boot>>
        /\ fr' = factory_reset_begin(fr, fp.ready, app_fp_adv_is_ready(adv))
    BY <1>2 DEF ResetBegin, WorkqueueFree
  <2>2. fr'.step = "disable_adv"
    BY <1>1, <2>1 DEF factory_reset_begin, ResetState
  <2>3. fr.state = "PENDING" /\ fp.key /\ ~fp.wiping
    BY <2>1 DEF Inv, ResetInv, FlashInv
  <2>4. OwnInv'
    BY <2>2 DEF OwnInv
  <2>5. Stage' = Stage /\ Deadline' = "certain" /\ Deadline \in {"timeout", "certain"}
    BY <2>1, <2>2, <2>3 DEF Stage, Deadline
  <2>6. Deadline = "timeout" => Stage = "claimed"
    BY <2>1, <2>3 DEF Stage, Deadline, Inv, TimeoutOnlyUnprovisioned
  <2>. QED  BY <2>4, <2>5, <2>6 DEF OwnStep, O!Next, O!Condemn
<1>3. CASE ChipReset
  BY <1>3, ChipResetOwn
<1>4. ASSUME NEW s \in ResetSteps \ {"idle"}, fr.step # "idle", Goto(s) \/ UNCHANGED fr
      PROVE  OwnInv' /\ Deadline = "certain" /\ Deadline' = "certain"
  <2>1. fr'.step # "idle"
    BY <1>1, <1>4 DEF Goto, ResetState
  <2>. QED  BY <1>4, <2>1 DEF OwnInv, Deadline
<1>5. CASE ResetDisableAdv /\ ~ChipReset
  <2>1. fr.step # "idle" /\ Goto("disable_fp") /\ UNCHANGED fp
    BY <1>5 DEF ResetDisableAdv
  <2>. QED  BY <1>4, <2>1 DEF OwnStep, Stage, ResetSteps
<1>6. CASE ResetDisableFastPair /\ ~ChipReset
  <2>1. fr.step # "idle" /\ Goto("mark")
        /\ fp' = IF fr.fast_pair_is_ready THEN bt_fast_pair_disable(fp) ELSE fp
    BY <1>6 DEF ResetDisableFastPair, Panic
  <2>2. Stage' = Stage
    BY <1>1, <2>1 DEF Stage, bt_fast_pair_disable, FpState
  <2>. QED  BY <1>4, <2>1, <2>2 DEF OwnStep, ResetSteps
<1>7. CASE ResetMark /\ ~ChipReset
  <2>1. fr.step # "idle" /\ Goto("erase") /\ fp' = [fp EXCEPT !.wiping = TRUE]
    BY <1>7 DEF ResetMark, Panic
  <2>2. Stage' = "erasing"
    BY <1>1, <2>1 DEF Stage, FpState
  <2>. QED  BY <1>4, <2>1, <2>2 DEF OwnStep, O!Next, O!Erase, ResetSteps
<1>8. CASE ResetErase
  <2>1. fr.step # "idle" /\ UNCHANGED fr /\ fp.wiping /\ fp'.wiping
    BY <1>1, <1>8 DEF ResetErase, Inv, FlashInv, FpState
  <2>2. Stage' = Stage
    BY <2>1 DEF Stage
  <2>. QED  BY <1>4, <2>1, <2>2 DEF OwnStep, ResetSteps
<1>9. CASE ResetErased /\ ~ChipReset
  <2>1. fr.step # "idle" /\ Goto("enable_fp") /\ fp' = [fp EXCEPT !.wiping = FALSE]
        /\ ~fp.key /\ ~fp.provisioned /\ fp.wiping
    BY <1>9 DEF ResetErased, Panic, Inv, FlashInv
  <2>2. Stage = "erasing" /\ Stage' = "unowned"
    BY <1>1, <2>1 DEF Stage, FpState
  <2>. QED  BY <1>4, <2>1, <2>2 DEF OwnStep, O!Next, O!Erased, ResetSteps
<1>10. CASE ResetEnableFastPair /\ ~ChipReset
  <2>1. fr.step = "enable_fp" /\ Goto("enable_adv")
        /\ fp' = IF fr.fast_pair_is_ready THEN bt_fast_pair_enable(fp) ELSE fp
    BY <1>10 DEF ResetEnableFastPair, Panic
  <2>2. ~fp.wiping
    BY <2>1 DEF Inv, FlashInv, ResetInv, Booting
  <2>3. Stage' = Stage
    BY <1>1, <2>1, <2>2 DEF Stage, bt_fast_pair_enable, FpState
  <2>. QED  BY <1>4, <2>1, <2>3 DEF OwnStep, ResetSteps
<1>11. CASE ResetEnableAdv /\ ~ChipReset
  <2>1. fr.step # "idle" /\ Goto("executed") /\ UNCHANGED fp
    BY <1>11 DEF ResetEnableAdv, Panic
  <2>. QED  BY <1>4, <2>1 DEF OwnStep, Stage, ResetSteps
<1>12. CASE ResetExecuted
  <2>1. fr.step # "idle" /\ fr'.step # "idle" /\ UNCHANGED fp
    BY <1>1, <1>12 DEF ResetExecuted, ResetState
  <2>. QED  BY <2>1 DEF OwnInv, OwnStep, Stage, Deadline
<1>13. CASE ResetReboot
  BY <1>13, ChipResetOwn DEF ResetReboot
<1>. QED  BY <1>2, <1>3, <1>5, <1>6, <1>7, <1>8, <1>9, <1>10, <1>11, <1>12, <1>13 DEF Reset

\* Every behaviour of the tag, with its interleaved callbacks, failing calls and power
\* losses, is one that the contract of module Ownership allows: an owned tag is erased
\* only after its owner has released it or at the end of a reset that was certain before,
\* and no interrupted erasure leaves a key behind.
THEOREM TagImplementsOwnership == Spec => ImplementsOwnership
<1>1. Init => OwnInv /\ O!Init
  BY DEF Init, OwnInv, O!Init, Stage, Deadline, ResetBoot
<1>2. Inv /\ OwnInv /\ [Next]_vars => OwnInv' /\ [O!Next]_(O!vars)
  <2>. SUFFICES ASSUME Inv, OwnInv, [Next]_vars
                PROVE  OwnInv' /\ OwnStep
    BY DEF OwnStep, O!vars
  <2>1. CASE PowerLoss
    BY <2>1, ChipResetOwn DEF PowerLoss
  <2>2. CASE UNCHANGED vars
    BY <2>2 DEF vars, OwnInv, OwnStep, Stage, Deadline
  <2>. QED  BY <2>1, <2>2, BootOwn, LinksOwn, CallbacksOwn, ButtonsOwn, ResetOwn DEF Next
<1>. QED  BY <1>1, <1>2, Invariance, PTL DEF Spec, O!Spec, ImplementsOwnership

-----------------------------------------------------------------------------
(***************************************************************************)
(* The radio: what is on the air, and under which address.                 *)
(***************************************************************************)

\* The set is on the air exactly when the mode says so, and announces the mode.
OnAirAsMode(a) ==
    /\ a.fp_adv_set_active = (a.fp_adv_mode # "off")
    /\ a.fp_adv_set_active => a.payload = a.fp_adv_mode

\* AdvertisingMatchesMode, of a record.
AsAsked(a) == a.is_enabled /\ a.fp_conn = NoConn /\ ~a.restart_work => OnAirAsMode(a)

\* As long as the timer of the suspension runs, the rotation is suspended.
Suspended(a) == a.suspension_work => a.rpa_suspended

SameAddress(a, b) ==
    /\ b.suspension_work = a.suspension_work
    /\ b.rpa_suspended = a.rpa_suspended
    /\ b.rpa = a.rpa

\* What a step of the system makes of the record: `ok` says that no call has failed.
RadioStep(a, b, ok) ==
    /\ Suspended(a) => Suspended(b)
    /\ Suspended(a) /\ a.suspension_work /\ b.suspension_work => b.rpa = a.rpa
    /\ ok /\ AsAsked(a) => AsAsked(b)

\* An update that succeeds puts on the air what the mode says.
LEMMA UpdateRadio ==
    ASSUME NEW a \in AdvState
    PROVE  LET b == fp_advertising_update(a, "ok") IN
           /\ b.fp_adv_set_active = (a.fp_adv_mode # "off")
           /\ b.fp_adv_set_active => b.payload = a.fp_adv_mode
<1>1. CASE a.fp_adv_mode = "off"
  BY <1>1 DEF fp_advertising_update, bt_stack_advertising_update, bt_stack_advertising_stop,
     AdvState
<1>2. CASE a.fp_adv_mode # "off"
  <2>. DEFINE p == fp_adv_payload_set(a, "ok")
  <2>1. p \in AdvState /\ p.payload = a.fp_adv_mode
    BY DEF fp_adv_payload_set, AdvState
  <2>2. fp_advertising_update(a, "ok") = bt_stack_advertising_start(p, "ok")
    BY <1>2 DEF fp_advertising_update, bt_stack_advertising_update
  <2>. HIDE DEF p
  <2>3. bt_stack_advertising_start(p, "ok").fp_adv_set_active
        /\ bt_stack_advertising_start(p, "ok").payload = p.payload
    BY <2>1 DEF bt_stack_advertising_start, AdvState
  <2>. QED  BY <1>2, <2>1, <2>2, <2>3
<1>. QED  BY <1>1, <1>2

\* Setting a mode updates the set unless there is a connection, and the connection
\* leaves a restart behind.
LEMMA ModeSetRadio ==
    ASSUME NEW a \in AdvState, NEW mode \in Modes, NEW res
    PROVE  /\ SameAddress(a, fp_adv_mode_set(a, mode, res))
           /\ res = "ok" /\ a.fp_conn = NoConn /\ (a.fp_adv_mode = mode => OnAirAsMode(a))
                => OnAirAsMode(fp_adv_mode_set(a, mode, res))
           /\ res = "ok" /\ AsAsked(a) => AsAsked(fp_adv_mode_set(a, mode, res))
<1>. DEFINE b == [a EXCEPT !.fp_adv_mode = mode]
            c == fp_adv_mode_set(a, mode, res)
<1>1. b \in AdvState /\ b.fp_adv_mode = mode
  BY DEF AdvState
<1>2. SameButMode(a, c) /\ c.fp_adv_mode = mode
  BY ModeSetFrame
<1>3. SameAddress(a, c)
  BY <1>2 DEF SameButMode, SameAddress
<1>4. ASSUME res = "ok", a.fp_conn = NoConn, a.fp_adv_mode = mode => OnAirAsMode(a)
      PROVE  OnAirAsMode(c)
  <2>1. CASE a.fp_adv_mode = mode
    BY <1>4, <2>1 DEF fp_adv_mode_set
  <2>2. CASE a.fp_adv_mode # mode
    <3>1. c = fp_advertising_update(b, "ok")
      BY <1>4, <2>2 DEF fp_adv_mode_set
    <3>2. /\ c.fp_adv_set_active = (mode # "off")
          /\ c.fp_adv_set_active => c.payload = mode
      <4>. HIDE DEF b
      <4>. QED  BY <1>1, <3>1, UpdateRadio
    <3>. HIDE DEF b, c
    <3>. QED  BY <1>2, <3>2 DEF OnAirAsMode
  <2>. QED  BY <2>1, <2>2
<1>5. ASSUME res = "ok", AsAsked(a)
      PROVE  AsAsked(c)
  <2>1. CASE a.fp_conn = NoConn /\ (a.fp_adv_mode = mode => OnAirAsMode(a))
    BY <1>4, <1>5, <2>1 DEF AsAsked
  <2>2. CASE a.fp_conn # NoConn
    BY <1>2, <2>2 DEF SameButMode, AsAsked
  <2>3. CASE a.fp_adv_mode = mode /\ ~OnAirAsMode(a)
    BY <1>5, <2>3 DEF fp_adv_mode_set
  <2>. QED  BY <2>1, <2>2, <2>3
<1>. QED  BY <1>3, <1>4, <1>5

\* A request keeps the address, and the set as the mode says.
LEMMA RequestRadio ==
    ASSUME NEW a \in AdvState, NEW t \in Triggers, NEW enable \in BOOLEAN, NEW res
    PROVE  LET c == app_fp_adv_request(a, t, enable, res) IN
           /\ c \in AdvState /\ SameAddress(a, c)
           /\ res = "ok" /\ AsAsked(a) => AsAsked(c)
<1>. DEFINE bm == IF enable THEN a.fp_adv_request_bm \cup {t} ELSE a.fp_adv_request_bm \ {t}
            b  == [a EXCEPT !.fp_adv_request_bm = bm]
            c  == app_fp_adv_request(a, t, enable, res)
<1>1. b \in AdvState /\ SameAddress(a, b) /\ (AsAsked(a) => AsAsked(b))
  <2>1. bm \subseteq Triggers
    BY DEF AdvState
  <2>. HIDE DEF bm
  <2>. QED  BY <2>1 DEF AdvState, SameAddress, AsAsked, OnAirAsMode
<1>2. c \in {a, b, fp_adv_mode_set(b, requested_mode(b), res)}
  BY DEF app_fp_adv_request, fp_adv_mode_update
<1>3. SameAddress(a, a) /\ c \in AdvState
  BY RequestType DEF SameAddress
<1>4. requested_mode(b) \in Modes
  BY DEF requested_mode, Modes
<1>. HIDE DEF b, c
<1>5. /\ SameAddress(b, fp_adv_mode_set(b, requested_mode(b), res))
      /\ res = "ok" /\ AsAsked(b) => AsAsked(fp_adv_mode_set(b, requested_mode(b), res))
  BY <1>1, <1>4, ModeSetRadio
<1>6. SameAddress(a, c) /\ (res = "ok" /\ AsAsked(a) => AsAsked(c))
  BY <1>1, <1>2, <1>3, <1>5 DEF SameAddress
<1>. QED  BY <1>3, <1>6 DEF c

\* A request is a step.
LEMMA RequestStep ==
    ASSUME NEW a \in AdvState, NEW b \in AdvState, NEW t \in Triggers,
           NEW enable \in BOOLEAN, NEW res, RadioStep(a, b, res = "ok")
    PROVE  RadioStep(a, app_fp_adv_request(b, t, enable, res), res = "ok")
           /\ app_fp_adv_request(b, t, enable, res) \in AdvState
<1>. DEFINE c == app_fp_adv_request(b, t, enable, res)
<1>1. c \in AdvState /\ SameAddress(b, c) /\ (res = "ok" /\ AsAsked(b) => AsAsked(c))
  BY RequestRadio
<1>. HIDE DEF c
<1>2. RadioStep(a, c, res = "ok")
  BY <1>1 DEF RadioStep, SameAddress, Suspended
<1>. QED  BY <1>1, <1>2 DEF c

\* The address rotates only while no suspension runs.
LEMMA ExpiredRadio ==
    ASSUME NEW a \in AdvState, NEW res
    PROVE  RadioStep(a, fp_adv_rpa_expired(a, res), TRUE)
<1>. DEFINE r == IF expire_rpa(a) THEN ~a.rpa ELSE a.rpa
            b == [a EXCEPT !.rpa = r]
<1>1. a.rpa_suspended => r = a.rpa
  BY DEF expire_rpa
<1>2. r \in BOOLEAN
  BY DEF AdvState
<1>. HIDE DEF r
<1>3. /\ b \in AdvState /\ b.rpa = r
      /\ b.suspension_work = a.suspension_work /\ b.rpa_suspended = a.rpa_suspended
      /\ (AsAsked(a) => AsAsked(b)) /\ b.fp_adv_mode = a.fp_adv_mode
  BY <1>2 DEF AdvState, AsAsked, OnAirAsMode
<1>4. fp_adv_rpa_expired(a, res) = IF a.fp_adv_mode # "off" THEN fp_adv_payload_set(b, res) ELSE b
  BY DEF fp_adv_rpa_expired, r
<1>. HIDE DEF b
<1>5. SameAddress(b, fp_adv_payload_set(b, res))
      /\ (AsAsked(b) => AsAsked(fp_adv_payload_set(b, res)))
  BY <1>3 DEF fp_adv_payload_set, AdvState, SameAddress, AsAsked, OnAirAsMode
<1>. QED  BY <1>1, <1>3, <1>4, <1>5 DEF RadioStep, Suspended, SameAddress

\* Connections, works and callbacks that make no request.
LEMMA QuietRadio ==
    ASSUME NEW a \in AdvState, NEW res
    PROVE  /\ RadioStep(a, a, TRUE)
           /\ RadioStep(a, connected(a, TRUE), TRUE)
           /\ \A c \in Conns : RadioStep(a, connected(fp_adv_connected(a, c), FALSE), TRUE)
           /\ \A c \in Conns : RadioStep(a, disconnected(a, c), TRUE)
           /\ RadioStep(a, fp_adv_restart_work_handle(a, res), res = "ok")
           /\ RadioStep(a, fp_adv_rpa_suspension_work_handle(a), TRUE)
           /\ RadioStep(a, AdvBoot, TRUE)
<1>1. RadioStep(a, a, TRUE)
  BY DEF RadioStep
<1>2. RadioStep(a, connected(a, TRUE), TRUE)
  BY DEF RadioStep, connected, AdvState, AsAsked, OnAirAsMode, Suspended
<1>3. \A c \in Conns : RadioStep(a, connected(fp_adv_connected(a, c), FALSE), TRUE)
  BY ConnAssumption DEF RadioStep, connected, fp_adv_connected, AdvState, AsAsked, OnAirAsMode, Suspended
<1>4. \A c \in Conns : RadioStep(a, disconnected(a, c), TRUE)
  BY DEF RadioStep, disconnected, AdvState, AsAsked, OnAirAsMode, Suspended
<1>5. RadioStep(a, fp_adv_restart_work_handle(a, res), res = "ok")
  <2>. DEFINE b == [a EXCEPT !.restart_work = FALSE]
              c == fp_advertising_update(b, res)
  <2>1. b \in AdvState /\ SameAddress(a, b) /\ b.is_enabled = a.is_enabled
    BY DEF AdvState, SameAddress
  <2>2. fp_adv_restart_work_handle(a, res) = IF a.is_enabled THEN c ELSE b
    BY DEF fp_adv_restart_work_handle, app_fp_adv_is_ready
  <2>. HIDE DEF b
  <2>3. SameButMode(b, c) /\ c.fp_adv_mode = b.fp_adv_mode
    BY <2>1, UpdateFrame
  <2>4. res = "ok" => AsAsked(c)
    BY <2>1, <2>3, UpdateRadio DEF AsAsked, OnAirAsMode
  <2>. HIDE DEF c
  <2>5. ~a.is_enabled => AsAsked(b)
    BY <2>1 DEF AsAsked
  <2>6. SameAddress(a, c)
    BY <2>1, <2>3 DEF SameButMode, SameAddress
  <2>. QED  BY <2>1, <2>2, <2>4, <2>5, <2>6 DEF RadioStep, SameAddress, Suspended
<1>6. RadioStep(a, fp_adv_rpa_suspension_work_handle(a), TRUE)
  BY DEF RadioStep, fp_adv_rpa_suspension_work_handle, AdvState, AsAsked, OnAirAsMode, Suspended
<1>7. RadioStep(a, AdvBoot, TRUE)
  BY DEF RadioStep, AdvBoot, AsAsked, OnAirAsMode, Suspended
<1>. QED  BY <1>1, <1>2, <1>3, <1>4, <1>5, <1>6, <1>7

\* A change of the provisioning or a new key keeps what is on the air as asked, and a
\* suspended address as it is.
LEMMA CallbackRadio ==
    ASSUME NEW a \in AdvState, NEW p \in BOOLEAN, NEW res
    PROVE  /\ RadioStep(a, fp_adv_provisioning_state_changed(a, p, res), TRUE)
           /\ RadioStep(a, fp_adv_account_key_written(a, TRUE), TRUE)
<1>. DEFINE b == [a EXCEPT !.fmdn_provisioned = p]
            c == fp_adv_provisioning_state_changed(a, p, res)
<1>1. b \in AdvState /\ SameAddress(a, b) /\ (AsAsked(a) => AsAsked(b))
  BY DEF AdvState, SameAddress, AsAsked, OnAirAsMode
<1>2. c \in {b, fp_adv_rpa_suspension_cancel(b), fp_adv_rpa_expired(b, res)}
  BY DEF fp_adv_provisioning_state_changed, fp_adv_set_rotate
<1>. HIDE DEF b, c
<1>3. RadioStep(b, b, TRUE) /\ RadioStep(b, fp_adv_rpa_suspension_cancel(b), TRUE)
      /\ RadioStep(b, fp_adv_rpa_expired(b, res), TRUE)
  BY <1>1, ExpiredRadio, QuietRadio
     DEF fp_adv_rpa_suspension_work_handle, fp_adv_rpa_suspension_cancel
<1>4. RadioStep(b, c, TRUE)
  BY <1>2, <1>3
<1>5. RadioStep(a, c, TRUE)
  BY <1>1, <1>4 DEF RadioStep, SameAddress, Suspended
<1>6. RadioStep(a, fp_adv_account_key_written(a, TRUE), TRUE)
  <2>. DEFINE first == ~a.fmdn_provisioned /\ ~a.fp_account_key_present /\ app_fp_adv_is_ready(a)
              s == a.rpa_suspended \/ first
              w == a.suspension_work \/ first
              k == fp_adv_account_key_written(a, TRUE)
  <2>1. k = [a EXCEPT !.rpa_suspended = s, !.suspension_work = w, !.fp_account_key_present = TRUE]
    BY DEF fp_adv_account_key_written
  <2>2. s \in BOOLEAN /\ w \in BOOLEAN /\ (w => a.suspension_work \/ s)
        /\ (a.rpa_suspended => s)
    BY DEF AdvState
  <2>. HIDE DEF s, w, k
  <2>3. /\ k.rpa_suspended = s /\ k.suspension_work = w /\ k.rpa = a.rpa
        /\ (AsAsked(a) => AsAsked(k))
    BY <2>1, <2>2 DEF AdvState, AsAsked, OnAirAsMode
  <2>4. RadioStep(a, k, TRUE)
    BY <2>2, <2>3 DEF RadioStep, Suspended
  <2>. QED  BY <2>4 DEF k
<1>. QED  BY <1>5, <1>6 DEF c

\* Enabling puts on the air what the standing requests ask for.
LEMMA EnableRadio ==
    ASSUME NEW a \in AdvState, NEW key \in BOOLEAN, NEW p \in BOOLEAN, NEW res,
           ~a.is_enabled, ~a.fp_adv_set_active, a.fp_adv_mode = "off"
    PROVE  RadioStep(a, app_fp_adv_enable(a, key, p, "none", res), res = "ok")
<1>. DEFINE b == [a EXCEPT !.fp_account_key_present = key, !.fmdn_provisioned = p]
            c == fp_adv_set_setup(b)
            d == IF p THEN c ELSE fp_adv_rpa_expired(c, "ok")
            m == requested_mode(d)
            e == fp_adv_mode_set(d, m, res)
            g == [e EXCEPT !.is_enabled = TRUE]
<1>1. b \in AdvState /\ SameAddress(a, b)
      /\ ~b.is_enabled /\ ~b.fp_adv_set_active /\ b.fp_adv_mode = "off"
  BY DEF AdvState, SameAddress
<1>. HIDE DEF b
<1>2. c \in AdvState /\ SameAddress(a, c)
      /\ ~c.is_enabled /\ ~c.fp_adv_set_active /\ c.fp_adv_mode = "off"
  <2>1. c \in AdvState
    BY <1>1, SetupType
  <2>. QED  BY <1>1, <2>1 DEF fp_adv_set_setup, AdvState, SameAddress
<1>. HIDE DEF c
<1>3. /\ d \in AdvState /\ RadioStep(c, d, TRUE)
      /\ ~d.fp_adv_set_active /\ d.fp_adv_mode = "off"
  <2>. DEFINE x == fp_adv_rpa_expired(c, "ok")
  <2>1. x \in AdvState /\ RadioStep(c, x, TRUE) /\ Keeps(c, x) /\ RadioStep(c, c, TRUE)
    BY <1>2, RpaExpiredType, QuietSteps, ExpiredRadio, QuietRadio
  <2>2. d \in {c, x}
    OBVIOUS
  <2>. HIDE DEF x, d
  <2>. QED  BY <1>2, <2>1, <2>2 DEF Keeps
<1>4. app_fp_adv_enable(a, key, p, "none", res) = g
  BY DEF app_fp_adv_enable, fp_adv_mode_update, b, c
<1>. HIDE DEF d
<1>5. m \in Modes
  BY DEF requested_mode, Modes
<1>6. OnAirAsMode(d)
  BY <1>3 DEF OnAirAsMode, AdvState
<1>. HIDE DEF m
<1>7. e \in AdvState /\ SameAddress(d, e) /\ e.fp_conn = d.fp_conn
      /\ (res = "ok" /\ d.fp_conn = NoConn => OnAirAsMode(e))
  BY <1>3, <1>5, <1>6, ModeSetType, ModeSetRadio, ModeSetFrame DEF SameButMode
<1>. HIDE DEF e
<1>8. SameAddress(e, g) /\ g.fp_conn = e.fp_conn /\ (OnAirAsMode(e) => OnAirAsMode(g))
  BY <1>7 DEF AdvState, SameAddress, OnAirAsMode
<1>. HIDE DEF g
<1>9. res = "ok" => AsAsked(g)
  BY <1>7, <1>8 DEF AsAsked
<1>10. RadioStep(a, g, res = "ok")
  BY <1>2, <1>3, <1>7, <1>8, <1>9 DEF RadioStep, Suspended, SameAddress
<1>. QED  BY <1>4, <1>10

\* An enabling that fails, and a disabling, leave a disabled module.
LEMMA DisabledRadio ==
    ASSUME NEW a \in AdvState, NEW key \in BOOLEAN, NEW p \in BOOLEAN
    PROVE  /\ \A fail \in {"create", "rotate"} :
                LET b == app_fp_adv_enable(a, key, p, fail, "ok") IN
                ~a.is_enabled /\ ~b.is_enabled => RadioStep(a, b, TRUE)
           /\ a.is_enabled => RadioStep(a, app_fp_adv_disable(a, "ok", "none"), TRUE)
<1>1. ASSUME NEW fail \in {"create", "rotate"}, ~a.is_enabled,
             ~app_fp_adv_enable(a, key, p, fail, "ok").is_enabled
      PROVE  RadioStep(a, app_fp_adv_enable(a, key, p, fail, "ok"), TRUE)
  <2>. DEFINE b == [a EXCEPT !.fp_account_key_present = key, !.fmdn_provisioned = p]
              c == fp_adv_set_setup(b)
              g == app_fp_adv_enable(a, key, p, fail, "ok")
  <2>1. b \in AdvState /\ SameAddress(a, b)
    BY DEF AdvState, SameAddress
  <2>. HIDE DEF b
  <2>2. c \in AdvState /\ SameAddress(a, c)
    <3>1. c \in AdvState
      BY <2>1, SetupType
    <3>. QED  BY <2>1, <3>1 DEF fp_adv_set_setup, AdvState, SameAddress
  <2>. HIDE DEF c
  <2>3. SameAddress(a, g)
    <3>1. CASE g = [b EXCEPT !.interval = c.interval]
      BY <2>1, <3>1 DEF AdvState, SameAddress
    <3>2. CASE g = fp_adv_set_teardown(c)
      BY <2>2, <3>2 DEF fp_adv_set_teardown, AdvState, SameAddress
    <3>3. CASE fail = "rotate" /\ p
      <4>. DEFINE d == IF p THEN c ELSE fp_adv_rpa_expired(c, "ok")
                  e == fp_adv_mode_update(d, "ok")
      <4>1. e \in AdvState
        BY <2>2, RpaExpiredType, ModeUpdateType
      <4>2. g = [e EXCEPT !.is_enabled = TRUE]
        BY <1>1, <3>3 DEF app_fp_adv_enable, b, c
      <4>. HIDE DEF e
      <4>. QED  BY <1>1, <4>1, <4>2 DEF AdvState
    <3>. QED  BY <1>1, <3>1, <3>2, <3>3 DEF app_fp_adv_enable, b, c
  <2>. HIDE DEF g
  <2>4. ~g.is_enabled => RadioStep(a, g, TRUE)
    BY <2>3 DEF RadioStep, SameAddress, Suspended, AsAsked
  <2>. QED  BY <1>1, <2>4 DEF g
<1>2. ASSUME a.is_enabled
      PROVE  RadioStep(a, app_fp_adv_disable(a, "ok", "none"), TRUE)
  <2>. DEFINE b == [a EXCEPT !.is_enabled = FALSE]
              t == fp_adv_rpa_suspension_cancel(b)
              c == fp_adv_mode_set(t, "off", "ok")
              g == app_fp_adv_disable(a, "ok", "none")
  <2>1. t \in AdvState /\ ~t.is_enabled /\ ~t.suspension_work
    BY DEF fp_adv_rpa_suspension_cancel, AdvState
  <2>2. g \in {c, fp_adv_set_teardown(c)}
    BY <1>2 DEF app_fp_adv_disable
  <2>. HIDE DEF t, g
  <2>3. c \in AdvState /\ ~c.is_enabled /\ ~c.suspension_work
    BY <2>1, ModeSetType, ModeSetFrame DEF SameButMode, Modes
  <2>. HIDE DEF c
  <2>4. ~g.is_enabled /\ ~g.suspension_work
    BY <2>2, <2>3 DEF fp_adv_set_teardown, AdvState
  <2>5. RadioStep(a, g, TRUE)
    BY <2>4 DEF RadioStep, Suspended, AsAsked
  <2>. QED  BY <2>5 DEF g
<1>. QED  BY <1>1, <1>2

\* The bounded number of failing calls never goes down.
LEMMA FaultsGrow ==
    ASSUME Inv, [Next]_vars
    PROVE  faults' = 0 => faults = 0
<1>1. faults \in Nat
  BY BoundAssumption DEF Inv, TypeOK
<1>2. faults' = faults \/ faults' = faults + 1
  BY DEF Next, vars, Boot, BootPrepare, BootEnableFastPair, BootEnableAdv, BootStateInit, InitTimeout,
     BootStops, Links, Connect, ConnectFails, Authenticate, LinkDown, Disconnected, Callbacks,
     AccountKeyWritten, Provisioned, Unprovisioned, ClockSynced, RpaExpired, IdModeExited,
     Buttons, FpAdvModeChange, FmdnAdvModeChange, IdModeEnter, FactoryResetRequest, Works,
     StopDiscoverable, RestartAdvertising, SuspensionTimeout, Reset, ResetBegin, ResetDisableAdv,
     ResetDisableFastPair, ResetMark, ResetErase, ResetErased, ResetEnableFastPair,
     ResetEnableAdv, ResetExecuted, ResetReboot, PowerLoss, Panic, Fails, Succeeds, Answers
<1>. QED  BY <1>1, <1>2

\* Every step of the system is one for the radio.
LEMMA StepsRadio ==
    ASSUME Inv, [Next]_vars
    PROVE  RadioStep(adv, adv', faults' = 0)
<1>1. adv \in AdvState /\ fp.key \in BOOLEAN /\ fp.provisioned \in BOOLEAN
      /\ app.fp_adv_ui_request \in BOOLEAN /\ faults \in Nat
  BY BoundAssumption DEF Inv, TypeOK, FpState, AppState
<1>2. \A b : RadioStep(adv, b, TRUE) => RadioStep(adv, b, faults' = 0)
  BY DEF RadioStep
<1>3. ASSUME NEW res, Answers(res), RadioStep(adv, adv', res = "ok")
      PROVE  RadioStep(adv, adv', faults' = 0)
  <2>1. faults' = 0 => res = "ok"
    BY <1>1, <1>3 DEF Answers, Fails
  <2>. QED  BY <1>3, <2>1 DEF RadioStep
<1>4. CASE UNCHANGED adv
  BY <1>1, <1>2, <1>4, QuietRadio
<1>5. CASE ChipReset
  BY <1>1, <1>2, <1>5, QuietRadio DEF ChipReset
<1>6. \A a \in AdvState : \A res : RadioStep(adv, a, TRUE) => RadioStep(adv, a, res = "ok")
  BY DEF RadioStep
<1>7. CASE Boot
  <2>1. CASE BootEnableAdv
    <3>1. ~adv.is_enabled /\ ~adv.fp_adv_set_active /\ adv.fp_adv_mode = "off"
      BY <2>1 DEF BootEnableAdv, Inv, AdvInv
    <3>2. ASSUME NEW res \in StackResults, Answers(res),
                 adv' = app_fp_adv_enable(adv, fp.key, fp.provisioned, "none", res)
          PROVE  RadioStep(adv, adv', faults' = 0)
      BY <1>1, <1>3, <3>1, <3>2, EnableRadio
    <3>3. ASSUME NEW fail \in {"create", "rotate"}, ~adv'.is_enabled,
                 adv' = app_fp_adv_enable(adv, fp.key, fp.provisioned, fail, "ok")
          PROVE  RadioStep(adv, adv', faults' = 0)
      <4>1. RadioStep(adv, adv', TRUE)
        BY <1>1, <3>1, <3>3, DisabledRadio
      <4>. QED  BY <1>2, <4>1
    <3>. QED  BY <2>1, <3>2, <3>3 DEF BootEnableAdv
  <2>. QED  BY <1>4, <1>5, <1>7, <2>1 DEF Boot, BootPrepare, BootEnableFastPair, BootStateInit,
                                          InitTimeout
<1>8. CASE Links
  <2>1. RadioStep(adv, adv', TRUE)
    BY <1>1, <1>8, QuietRadio DEF Links, Connect, ConnectFails, Authenticate, LinkDown,
                                  Disconnected, connected
  <2>. QED  BY <1>2, <2>1
<1>9. CASE Callbacks
  <2>1. ASSUME NEW res \in StackResults, AccountKeyWritten(res)
        PROVE  RadioStep(adv, adv', res = "ok")
    <3>. DEFINE a == fp_adv_account_key_written(adv, TRUE)
    <3>1. a \in AdvState /\ RadioStep(adv, a, res = "ok")
      BY <1>1, <1>6, CallbackType, CallbackRadio
    <3>2. adv' = a \/ adv' = app_fp_adv_request(a, "fmdn_provisioning", TRUE, res)
      BY <2>1 DEF AccountKeyWritten
    <3>. HIDE DEF a
    <3>3. RadioStep(adv, app_fp_adv_request(a, "fmdn_provisioning", TRUE, res), res = "ok")
      BY <1>1, <3>1, RequestStep DEF Triggers
    <3>. QED  BY <3>1, <3>2, <3>3
  <2>2. ASSUME NEW res \in StackResults, Provisioned(res)
        PROVE  RadioStep(adv, adv', res = "ok")
    <3>. DEFINE a == fp_adv_provisioning_state_changed(adv, TRUE, res)
                b == app_fp_adv_request(a, "fmdn_provisioning", FALSE, res)
    <3>1. a \in AdvState /\ RadioStep(adv, a, res = "ok")
      BY <1>1, <1>6, CallbackType, CallbackRadio
    <3>2. adv' = app_fp_adv_request(b, "ui", FALSE, res)
      BY <2>2 DEF Provisioned
    <3>. HIDE DEF a
    <3>3. b \in AdvState /\ RadioStep(adv, b, res = "ok")
      BY <1>1, <3>1, RequestStep DEF Triggers
    <3>. HIDE DEF b
    <3>. QED  BY <1>1, <3>2, <3>3, RequestStep DEF Triggers
  <2>3. ASSUME NEW res \in StackResults, Unprovisioned(res)
        PROVE  RadioStep(adv, adv', res = "ok")
    <3>. DEFINE a == fp_adv_provisioning_state_changed(adv, FALSE, res)
    <3>1. a \in AdvState /\ RadioStep(adv, a, res = "ok")
      BY <1>1, <1>6, CallbackType, CallbackRadio
    <3>2. adv' = app_fp_adv_request(a, "clock_sync", FALSE, res)
      BY <2>3 DEF Unprovisioned
    <3>. HIDE DEF a
    <3>. QED  BY <1>1, <3>1, <3>2, RequestStep DEF Triggers
  <2>4. ASSUME NEW res \in StackResults, ClockSynced(res)
        PROVE  RadioStep(adv, adv', res = "ok")
    BY <1>1, <1>6, <2>4, QuietRadio, RequestStep DEF ClockSynced, Triggers
  <2>5. ASSUME NEW res \in StackResults, RpaExpired(res)
        PROVE  RadioStep(adv, adv', faults' = 0)
    BY <1>1, <1>2, <2>5, ExpiredRadio DEF RpaExpired
  <2>6. ASSUME NEW res \in StackResults,
               AccountKeyWritten(res) \/ Provisioned(res) \/ Unprovisioned(res) \/ ClockSynced(res)
        PROVE  RadioStep(adv, adv', faults' = 0)
    <3>1. Answers(res)
      BY <2>6 DEF AccountKeyWritten, Provisioned, Unprovisioned, ClockSynced
    <3>. QED  BY <1>3, <2>1, <2>2, <2>3, <2>4, <2>6, <3>1
  <2>. QED  BY <1>4, <1>9, <2>5, <2>6 DEF Callbacks, IdModeExited
<1>10. CASE Buttons
  <2>1. ASSUME NEW res \in StackResults, FpAdvModeChange(res)
        PROVE  RadioStep(adv, adv', faults' = 0)
    <3>. DEFINE flag == ~app.fp_adv_ui_request
    <3>1. adv' = app_fp_adv_request(adv, "ui", flag, res) /\ Answers(res) /\ flag \in BOOLEAN
      BY <2>1 DEF FpAdvModeChange
    <3>. HIDE DEF flag
    <3>2. RadioStep(adv, adv', res = "ok")
      BY <1>1, <1>6, <3>1, QuietRadio, RequestStep DEF Triggers
    <3>. QED  BY <1>3, <3>1, <3>2
  <2>2. CASE FmdnAdvModeChange
    <3>1. CASE adv' = app_fp_adv_request(adv, "clock_sync", FALSE, "ok")
      <4>1. RadioStep(adv, adv, "ok" = "ok")
        BY <1>1, <1>6, QuietRadio
      <4>2. RadioStep(adv, adv', "ok" = "ok")
        BY <1>1, <3>1, <4>1, RequestStep DEF Triggers
      <4>. QED  BY <4>2 DEF RadioStep
    <3>. QED  BY <1>4, <1>5, <2>2, <3>1 DEF FmdnAdvModeChange
  <2>. QED  BY <1>4, <1>10, <2>1, <2>2 DEF Buttons, IdModeEnter, FactoryResetRequest
<1>11. CASE Works
  <2>1. ASSUME NEW res \in StackResults, StopDiscoverable(res)
        PROVE  RadioStep(adv, adv', faults' = 0)
    <3>1. RadioStep(adv, adv', res = "ok") /\ Answers(res)
      BY <1>1, <1>6, <2>1, QuietRadio, RequestStep DEF Triggers, StopDiscoverable
    <3>. QED  BY <1>3, <3>1
  <2>2. ASSUME NEW res \in StackResults, RestartAdvertising(res)
        PROVE  RadioStep(adv, adv', faults' = 0)
    <3>1. RadioStep(adv, adv', res = "ok") /\ Answers(res)
      BY <1>1, <2>2, QuietRadio DEF RestartAdvertising
    <3>. QED  BY <1>3, <3>1
  <2>3. CASE SuspensionTimeout
    BY <1>1, <1>2, <2>3, QuietRadio DEF SuspensionTimeout
  <2>. QED  BY <1>11, <2>1, <2>2, <2>3 DEF Works
<1>12. CASE Reset
  <2>1. ASSUME NEW res \in StackResults, ResetBegin(res)
        PROVE  RadioStep(adv, adv', faults' = 0)
    <3>. DEFINE a == app_fp_adv_request(adv, "fmdn_provisioning", FALSE, res)
                b == app_fp_adv_request(a, "clock_sync", FALSE, res)
    <3>1. a \in AdvState /\ RadioStep(adv, a, res = "ok")
      BY <1>1, <1>6, QuietRadio, RequestStep DEF Triggers
    <3>2. adv' = app_fp_adv_request(b, "ui", FALSE, res) /\ Answers(res)
      BY <2>1 DEF ResetBegin, fmdn_factory_reset_prepare
    <3>. HIDE DEF a
    <3>3. b \in AdvState /\ RadioStep(adv, b, res = "ok")
      BY <1>1, <3>1, RequestStep DEF Triggers
    <3>. HIDE DEF b
    <3>4. RadioStep(adv, adv', res = "ok")
      BY <1>1, <3>2, <3>3, RequestStep DEF Triggers
    <3>. QED  BY <1>3, <3>2, <3>4
  <2>2. CASE ResetDisableAdv
    <3>1. CASE adv' = app_fp_adv_disable(adv, "ok", "none") /\ fr.fp_adv_is_ready
                 /\ fr.step = "disable_adv"
      <4>1. adv.is_enabled
        BY <3>1 DEF Inv, ResetInv
      <4>2. RadioStep(adv, adv', TRUE)
        BY <1>1, <3>1, <4>1, DisabledRadio
      <4>. QED  BY <1>2, <4>2
    <3>. QED  BY <1>4, <1>5, <2>2, <3>1 DEF ResetDisableAdv
  <2>3. CASE ResetEnableAdv
    <3>1. ~adv.is_enabled /\ ~adv.fp_adv_set_active /\ adv.fp_adv_mode = "off"
      BY <2>3 DEF ResetEnableAdv, Inv, AdvInv, ResetInv
    <3>2. ASSUME NEW res \in StackResults, Answers(res),
                 adv' = app_fp_adv_enable(adv, fp.key, fp.provisioned, "none", res)
          PROVE  RadioStep(adv, adv', faults' = 0)
      BY <1>1, <1>3, <3>1, <3>2, EnableRadio
    <3>. QED  BY <1>4, <1>5, <2>3, <3>2 DEF ResetEnableAdv, Panic
  <2>. QED
    BY <1>4, <1>5, <1>12, <2>1, <2>2, <2>3
    DEF Reset, ResetDisableFastPair, ResetMark, ResetErase, ResetErased, ResetEnableFastPair,
        ResetExecuted, ResetReboot, Panic
<1>. QED  BY <1>4, <1>5, <1>7, <1>8, <1>9, <1>10, <1>11, <1>12 DEF Next, PowerLoss, vars

\* As long as no command fails, an enabled fp_adv.c without a connection and without a
\* queued restart advertises exactly when its mode is not off, with the payload of
\* that mode: no order of requests, keys, connections and resets lets them drift apart.
THEOREM AdvertisingAlwaysMatches == Spec => []AdvertisingMatchesMode
<1>. DEFINE Safe == Suspended(adv) /\ (faults = 0 => AsAsked(adv))
<1>1. Init => Safe
  BY DEF Init, AdvBoot, Suspended, AsAsked
<1>2. Inv /\ Inv' /\ Safe /\ [Next]_vars => Safe'
  <2>. SUFFICES ASSUME Inv, Inv', Safe, [Next]_vars
                PROVE  Safe'
    OBVIOUS
  <2>1. RadioStep(adv, adv', faults' = 0)
    BY StepsRadio
  <2>2. faults' = 0 => faults = 0
    BY FaultsGrow
  <2>. QED  BY <2>1, <2>2 DEF RadioStep
<1>3. Safe => AdvertisingMatchesMode
  BY DEF AsAsked, OnAirAsMode, AdvertisingMatchesMode
<1>. HIDE DEF Safe
<1>. QED  BY <1>1, <1>2, <1>3, Invariance, PTL DEF Spec

\* While the suspension timer of fp_adv.c runs, from the first key to the provisioning,
\* nothing rotates the address of the Fast Pair set.
THEOREM AddressStable == Spec => SuspendedAddressStable
<1>1. Init => Suspended(adv)
  BY DEF Init, AdvBoot, Suspended
<1>2. Inv /\ Suspended(adv) /\ [Next]_vars
        => /\ Suspended(adv)'
           /\ [adv.suspension_work /\ adv'.suspension_work => adv'.rpa = adv.rpa]_vars
  BY StepsRadio DEF RadioStep, Suspended
<1>. QED  BY <1>1, <1>2, Invariance, PTL DEF Spec, SuspendedAddressStable

=============================================================================
