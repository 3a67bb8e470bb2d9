------------------------------- MODULE FpAdv -------------------------------
(***************************************************************************)
(* The Fast Pair advertising module, src/fp_adv.c.                         *)
(*                                                                         *)
(* The static variables of the file are the fields of one record, and each *)
(* function of the file is an operator from the record before the call to  *)
(* the record after it, under the name it has in C.  A module that calls   *)
(* into fp_adv.c (LocatorTag) chains these operators in the order in which *)
(* the code makes the calls.                                               *)
(*                                                                         *)
(* What the Bluetooth stack answers is an argument: `res` says how the one *)
(* advertising command a function may issue ends.                          *)
(***************************************************************************)
EXTENDS FiniteSets

CONSTANTS
    Conns,     \* connection objects (bt_conn), indexed by bt_conn_index()
    NoConn     \* the NULL connection pointer

ASSUME ConnAssumption == IsFiniteSet(Conns) /\ NoConn \notin Conns

\* The registered triggers, one bit of fp_adv_request_bm each.
Triggers == {"clock_sync", "fmdn_provisioning", "ui"}

\* enum app_fp_adv_mode
Modes == {"off", "disc", "ndisc"}

\* FP_DISC_ADV_INTERVAL and FP_NDISC_ADV_INTERVAL, in milliseconds.
Intervals == {100, 250}

\* How the stack answers: the command succeeds, building or writing the
\* payload fails, or starting or stopping the advertising set fails.
StackResults == {"ok", "payload_err", "radio_err"}

AdvState == [
    is_enabled             : BOOLEAN,
    fmdn_provisioned       : BOOLEAN,
    fp_account_key_present : BOOLEAN,
    fp_conn                : Conns \cup {NoConn},
    fp_adv_set             : BOOLEAN,          \* the set exists (pointer not NULL)
    fp_adv_set_active      : BOOLEAN,
    fp_adv_mode            : Modes,
    fp_adv_request_bm      : SUBSET Triggers,
    interval               : Intervals,        \* of fp_adv_param
    payload                : Modes,            \* mode the data in the set announces
    rpa_suspended          : BOOLEAN,          \* fp_adv_rpa_rotation_suspended
    suspension_work        : BOOLEAN,          \* delayable work scheduled
    restart_work           : BOOLEAN,          \* work item queued
    rpa                    : BOOLEAN ]         \* flips when the set's address rotates

\* The statics after a reset of the chip.
AdvBoot == [
    is_enabled |-> FALSE, fmdn_provisioned |-> FALSE, fp_account_key_present |-> FALSE,
    fp_conn |-> NoConn, fp_adv_set |-> FALSE, fp_adv_set_active |-> FALSE,
    fp_adv_mode |-> "off", fp_adv_request_bm |-> {}, interval |-> 100,
    payload |-> "off", rpa_suspended |-> FALSE, suspension_work |-> FALSE,
    restart_work |-> FALSE, rpa |-> FALSE ]

app_fp_adv_is_ready(a) == a.is_enabled

(***************************************************************************)
(* Driving the advertising set.                                            *)
(***************************************************************************)

\* The payload is rebuilt for the current mode.
fp_adv_payload_set(a, res) ==
    IF res = "payload_err" THEN a ELSE [a EXCEPT !.payload = a.fp_adv_mode]

bt_stack_advertising_start(a, res) ==
    IF a.fp_adv_set_active \/ res # "ok" THEN a
    ELSE [a EXCEPT !.fp_adv_set_active = TRUE]

bt_stack_advertising_stop(a, res) ==
    IF ~a.fp_adv_set_active \/ res # "ok" THEN a
    ELSE [a EXCEPT !.fp_adv_set_active = FALSE]

bt_stack_advertising_update(a, res) ==
    IF a.fp_adv_mode = "off" THEN bt_stack_advertising_stop(a, res)
    ELSE IF res = "payload_err" THEN a
    ELSE bt_stack_advertising_start(fp_adv_payload_set(a, res), res)

\* A failure is only logged: the mode stays, nothing retries.
fp_advertising_update(a, res) == bt_stack_advertising_update(a, res)

\* The mode the pending requests and the Account Key ask for.
requested_mode(a) ==
    IF a.fp_adv_request_bm = {} THEN "off"
    ELSE IF a.fp_account_key_present THEN "ndisc" ELSE "disc"

fp_adv_mode_set(a, mode, res) ==
    LET b == [a EXCEPT !.fp_adv_mode = mode] IN
    IF a.fp_adv_mode = mode THEN a
    ELSE IF a.fp_conn = NoConn THEN fp_advertising_update(b, res) ELSE b

fp_adv_mode_update(a, res) == fp_adv_mode_set(a, requested_mode(a), res)

\* Mutant: withdrawing a request does not update the mode.
Bug_request_no_withdraw(a, trigger, enable, res) ==
    LET b == [a EXCEPT !.fp_adv_request_bm =
                IF enable THEN @ \cup {trigger} ELSE @ \ {trigger}] IN
    IF (trigger \in a.fp_adv_request_bm) = enable THEN a
    ELSE IF app_fp_adv_is_ready(a) /\ enable THEN fp_adv_mode_update(b, res) ELSE b

app_fp_adv_request(a, trigger, enable, res) ==
    LET b == [a EXCEPT !.fp_adv_request_bm =
                IF enable THEN @ \cup {trigger} ELSE @ \ {trigger}] IN
    IF (trigger \in a.fp_adv_request_bm) = enable THEN a
    ELSE IF app_fp_adv_is_ready(a) THEN fp_adv_mode_update(b, res) ELSE b

(***************************************************************************)
(* The address of the set.                                                 *)
(***************************************************************************)

\* Mutant: the suspension is not consulted.
Bug_expire_while_suspended(a) ==
    /\ ~a.fmdn_provisioned \/ a.fp_adv_set_active
    /\ a.fp_adv_mode # "disc"

\* The value fp_adv_rpa_expired returns: TRUE lets the stack rotate.
expire_rpa(a) ==
    /\ ~a.fmdn_provisioned \/ a.fp_adv_set_active
    /\ a.fp_adv_mode # "disc"
    /\ ~a.rpa_suspended

fp_adv_rpa_expired(a, res) ==
    LET b == [a EXCEPT !.rpa = IF expire_rpa(a) THEN ~@ ELSE @] IN
    IF a.fp_adv_mode # "off" THEN fp_adv_payload_set(b, res) ELSE b

\* bt_le_oob_get_local() forces the expiry callback, unless it fails.
fp_adv_set_rotate(a, res) ==
    IF res = "radio_err" THEN a ELSE fp_adv_rpa_expired(a, res)

fp_adv_rpa_suspension_work_handle(a) ==
    [a EXCEPT !.suspension_work = FALSE, !.rpa_suspended = FALSE]

fp_adv_rpa_suspension_cancel(a) ==
    [a EXCEPT !.suspension_work = FALSE, !.rpa_suspended = FALSE]

(***************************************************************************)
(* Connections of the set, and the work item that restarts it.             *)
(***************************************************************************)

fp_adv_connected(a, conn) ==
    [a EXCEPT !.fp_adv_set_active = FALSE, !.fp_conn = conn]

\* The connection callback: only a failed attempt (err) asks for a restart.
connected(a, err) == IF err THEN [a EXCEPT !.restart_work = TRUE] ELSE a

\* Mutant: the restart of the advertising is not submitted.
Bug_no_restart(a, conn) ==
    IF a.fp_conn = conn THEN [a EXCEPT !.fp_conn = NoConn] ELSE a

disconnected(a, conn) ==
    IF a.fp_conn = conn THEN [a EXCEPT !.fp_conn = NoConn, !.restart_work = TRUE]
    ELSE a

fp_adv_restart_work_handle(a, res) ==
    LET b == [a EXCEPT !.restart_work = FALSE] IN
    IF app_fp_adv_is_ready(a) THEN fp_advertising_update(b, res) ELSE b

(***************************************************************************)
(* Callbacks of the Fast Pair and FMDN subsystems.                         *)
(***************************************************************************)

fp_adv_provisioning_state_changed(a, provisioned, res) ==
    LET b == [a EXCEPT !.fmdn_provisioned = provisioned] IN
    IF ~app_fp_adv_is_ready(a) THEN b
    ELSE IF provisioned THEN fp_adv_rpa_suspension_cancel(b)
    ELSE fp_adv_set_rotate(b, res)

\* Mutant: the copy of the key state is only refreshed when enabling.
Bug_key_not_refreshed(a, key) ==
    LET first == ~a.fmdn_provisioned /\ ~a.fp_account_key_present /\ app_fp_adv_is_ready(a)
    IN  [a EXCEPT !.rpa_suspended = @ \/ first, !.suspension_work = @ \/ first]

\* Runs after the stack stored the key, so bt_fast_pair_has_account_key() = key.
fp_adv_account_key_written(a, key) ==
    LET first == /\ ~a.fmdn_provisioned
                 /\ ~a.fp_account_key_present
                 /\ app_fp_adv_is_ready(a)
    IN  [a EXCEPT !.rpa_suspended   = @ \/ first,
                  !.suspension_work = @ \/ first,
                  !.fp_account_key_present = key]

(***************************************************************************)
(* Enabling and disabling the module.  `fail` names the call that fails:   *)
(* "none", "create" or "rotate" when enabling; "none" or "delete" when     *)
(* disabling.                                                              *)
(***************************************************************************)

\* Mutant: the two intervals are swapped.
Bug_intervals_swapped(a) ==
    [a EXCEPT !.interval = IF a.fp_account_key_present THEN 100 ELSE 250,
              !.fp_adv_set = TRUE, !.payload = "off"]

\* Mutant: the non-discoverable interval in units of 0.625 ms (0x0190).
Bug_interval_units(a) ==
    [a EXCEPT !.interval = IF a.fp_account_key_present THEN 400 ELSE 100,
              !.fp_adv_set = TRUE, !.payload = "off"]

fp_adv_set_setup(a) ==
    [a EXCEPT !.interval = IF a.fp_account_key_present THEN 250 ELSE 100,
              !.fp_adv_set = TRUE, !.payload = "off"]

fp_adv_set_teardown(a) == [a EXCEPT !.fp_adv_set = FALSE, !.payload = "off"]

app_fp_adv_enable(a, key, provisioned, fail, res) ==
    LET b == [a EXCEPT !.fp_account_key_present = key, !.fmdn_provisioned = provisioned]
        c == fp_adv_set_setup(b)
        d == IF provisioned THEN c ELSE fp_adv_rpa_expired(c, "ok")
    IN  CASE a.is_enabled -> a
          [] ~a.is_enabled /\ fail = "create" ->
                [b EXCEPT !.interval = c.interval]
          [] ~a.is_enabled /\ fail = "rotate" /\ ~provisioned -> fp_adv_set_teardown(c)
          [] OTHER -> [fp_adv_mode_update(d, res) EXCEPT !.is_enabled = TRUE]

\* The set can only be deleted once its advertising is stopped.
app_fp_adv_disable_fails(a, res, fail) ==
    /\ a.is_enabled
    /\ fail = "delete"
          \/ fp_adv_mode_set(fp_adv_rpa_suspension_cancel(a), "off", res).fp_adv_set_active

\* fp_adv_conn_clear() only asks for a disconnection; fp_conn is cleared by
\* the disconnected callback.
app_fp_adv_disable(a, res, fail) ==
    LET b == [a EXCEPT !.is_enabled = FALSE]
        c == fp_adv_mode_set(fp_adv_rpa_suspension_cancel(b), "off", res)
    IN  CASE ~a.is_enabled -> a
          [] a.is_enabled /\ app_fp_adv_disable_fails(a, res, fail) -> c
          [] OTHER -> fp_adv_set_teardown(c)

============================================================================
