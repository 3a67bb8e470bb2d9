----------------------------- MODULE VisionAdvt -----------------------------
(***************************************************************************)
(* The advertising set of the Vision frame: src/vision_advt.c.             *)
(*                                                                         *)
(* The module keeps one flag, is_advertising; whether the set is really on *)
(* the air is known to the Bluetooth stack alone.  Both are kept here, so  *)
(* that the two may disagree.  A call into the stack can fail, so an       *)
(* operation has a set of outcomes <<state after it, failed stack calls>>. *)
(***************************************************************************)
EXTENDS Naturals

\* Milliseconds to ticks of 0.625 ms, kept in a uint16_t.
Ticks(ms) == ((ms * 8) \div 5) % 65536

\* What ble_adv_custom_init asks for: 3200 ticks, 2000 ms.
DefaultTicks == 3200

SetState == [
    on_air         : BOOLEAN,      \* external: the set is enabled in the stack
    is_advertising : BOOLEAN,
    interval_min   : Ticks(100)..Ticks(5000),
    missed         : BOOLEAN ]     \* history: a connection attempt has failed

\* After ble_adv_custom_init.
ble_adv_custom_init ==
    [on_air |-> FALSE, is_advertising |-> FALSE, interval_min |-> DefaultTicks,
     missed |-> FALSE]

\* The connected callback runs for a link through any identity, and for an
\* attempt that failed: err is not looked at.  `ended`: the stack has ended the
\* advertising of this set; a connection ends that of the set it came through.
connected(s, ended, err) ==
    [s EXCEPT !.is_advertising = FALSE, !.on_air = @ /\ ~ended, !.missed = @ \/ err]

\* A set that is on the air is refused with -EALREADY, and a connectable set
\* needs a free connection object: -ENOMEM when there is no room.
ble_adv_custom_start(s, room) ==
    IF s.is_advertising \/ s.on_air \/ ~room
    THEN {<<s, 0>>}
    ELSE {<<[s EXCEPT !.on_air = TRUE, !.is_advertising = TRUE], 0>>, <<s, 1>>}

\* Mutant: the flag is cleared although the stack refused to stop.
Bug_flag_cleared_on_error(s) ==
    IF ~s.is_advertising
    THEN {<<s, 0>>}
    ELSE {<<[s EXCEPT !.on_air = FALSE, !.is_advertising = FALSE], 0>>,
          <<[s EXCEPT !.is_advertising = FALSE], 1>>}

ble_adv_custom_stop(s) ==
    IF ~s.is_advertising
    THEN {<<s, 0>>}
    ELSE {<<[s EXCEPT !.on_air = FALSE, !.is_advertising = FALSE], 0>>, <<s, 1>>}

\* The stack refuses new parameters for a set that is on the air.
UpdateIdle(s, new) ==
    IF s.on_air THEN {<<s, 0>>} ELSE {<<new, 0>>, <<s, 1>>}

\* Halt, change, relaunch.  In the order of the outcomes: all calls succeed;
\* the stop fails; the parameters are refused and the rollback succeeds; so,
\* and the rollback fails too, which the code does not look at; the relaunch
\* fails.
UpdateRunning(s, new) ==
    {<<[new EXCEPT !.on_air = TRUE], 0>>,
     <<s, 1>>,
     <<[s EXCEPT !.on_air = TRUE], 1>>,
     <<[s EXCEPT !.on_air = FALSE], 2>>,
     <<[new EXCEPT !.on_air = FALSE, !.is_advertising = FALSE], 1>>}

ble_adv_custom_update_interval(s, ms) ==
    LET new == [s EXCEPT !.interval_min = Ticks(ms)] IN
    IF s.is_advertising THEN UpdateRunning(s, new) ELSE UpdateIdle(s, new)

=============================================================================
