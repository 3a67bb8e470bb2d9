-------------------------------- MODULE Ring --------------------------------
(***************************************************************************)
(* Ringing: ring.c against the FMDN ring API, and what the SBT board does   *)
(* with it (ui/platform_SBT.c: buzzer, button).                            *)
(*                                                                         *)
(* Requests and provisioning callbacks come on the Bluetooth receive       *)
(* thread.  The ring timeout, the buzzer and the scan of the button are    *)
(* items of the system workqueue, which sleeps while it plays the beeps    *)
(* that confirm a button action: meanwhile the receive thread goes on and  *)
(* the workqueue does not.  Both threads are cooperative, so that steps    *)
(* interleave only at these sleeps.                                        *)
(***************************************************************************)
EXTENDS Integers

CONSTANTS
    Components,   \* what can ring: BT_FAST_PAIR_FMDN_RING_COMP_*
    Sources,      \* bt_fast_pair_fmdn_ring_src of the build
    FirstSource,  \* the value 0 of that enumeration
    BeepCounts,   \* beeps that confirm a hold of the button; 0: no action
    MaxRequests,  \* bound on ring requests from peers
    MaxPresses,   \* bound on presses of the button
    MaxFaults     \* bound on state updates the stack refuses

ASSUME RingAssumption ==
    /\ FirstSource \in Sources
    /\ BeepCounts \subseteq Nat
    /\ {MaxRequests, MaxPresses, MaxFaults} \subseteq Nat

VARIABLES
    ring,         \* statics of ring.c
    stack,        \* the ring state the stack has accepted, and its timeout
    ui,           \* ui_state_status, buzzer_beep_work and the speaker
    btn,          \* the button: its pin, what the scan has seen, btn_handle
    beep,         \* speaker_beep_play on the workqueue: beeps left, speaker on
    provisioned,  \* the tag is FMDN-provisioned
    count         \* requests, presses and refusals so far

vars == <<ring, stack, ui, btn, beep, provisioned, count>>

RingState == [
    fmdn_ring_active_comp_bm : SUBSET Components,
    fmdn_ring_src            : Sources ]

StackState == [active : SUBSET Components, src : Sources, timer : BOOLEAN]

\* `cancel` is cancel_ringing_work; its handler is not an action because
\* nothing ever schedules it (see PressedButtonCancels).
UiState == [
    RINGING             : BOOLEAN,
    buzzer_beep_work    : BOOLEAN,
    beep_state          : BOOLEAN,
    cancel_ringing_work : BOOLEAN,
    speaker             : BOOLEAN ]

\* `held`: prev_uptime # 0.
ButtonState == [pin : BOOLEAN, seen : BOOLEAN, held : BOOLEAN, btn_idx : -1..0]

TypeOK ==
    /\ ring \in RingState
    /\ stack \in StackState
    /\ ui \in UiState
    /\ btn \in ButtonState
    /\ beep \in [left : Nat, on : BOOLEAN]
    /\ provisioned \in BOOLEAN
    /\ count \in [requests : 0..MaxRequests, presses : 0..MaxPresses,
                  faults : 0..MaxFaults]

Silent == [RINGING |-> FALSE, buzzer_beep_work |-> FALSE, beep_state |-> FALSE,
           cancel_ringing_work |-> FALSE, speaker |-> FALSE]

WorkqueueFree == beep.left = 0

-----------------------------------------------------------------------------
(***************************************************************************)
(* The UI and ring.c, shared by the callbacks.                             *)
(***************************************************************************)

\* Mutant: the speaker is left to the buzzer work, which is cancelled.
Bug_speaker_not_off(active) ==
    ui' = IF active
          THEN [ui EXCEPT !.RINGING = TRUE, !.buzzer_beep_work = TRUE]
          ELSE [ui EXCEPT !.RINGING = FALSE, !.buzzer_beep_work = FALSE]

\* app_ui_state_change_indicate(APP_UI_STATE_RINGING, active).
app_ui_state_change_indicate(active) ==
    ui' = IF active
          THEN IF btn.btn_idx # -1
               THEN [ui EXCEPT !.RINGING = TRUE, !.cancel_ringing_work = TRUE]
               ELSE [ui EXCEPT !.RINGING = TRUE, !.buzzer_beep_work = TRUE]
          ELSE [ui EXCEPT !.RINGING = FALSE, !.speaker = FALSE,
                          !.buzzer_beep_work = FALSE]

\* ring_state_update with fmdn_ring_src = src.  `st` is the stack's state when
\* it is called (its timeout has gone if that is what led here), `c` the
\* counters.  A refused update leaves ring.c and the UI as they were, but for
\* the source.
ring_state_update(src, comps, st, c) ==
    \/ /\ stack' = [active |-> comps, src |-> src, timer |-> comps # {}]
       /\ app_ui_state_change_indicate(comps # {})
       /\ ring' = [fmdn_ring_active_comp_bm |-> comps, fmdn_ring_src |-> src]
       /\ count' = c
    \/ /\ c.faults < MaxFaults
       /\ count' = [c EXCEPT !.faults = @ + 1]
       /\ stack' = st
       /\ ring' = [ring EXCEPT !.fmdn_ring_src = src]
       /\ UNCHANGED ui

-----------------------------------------------------------------------------
(***************************************************************************)
(* Bluetooth receive thread.                                               *)
(***************************************************************************)

\* The stack passes ring requests on only while the tag is provisioned.
Request ==
    /\ provisioned
    /\ count.requests < MaxRequests
    /\ UNCHANGED <<btn, beep, provisioned>>

Requested == [count EXCEPT !.requests = @ + 1]

\* What a start request may ask for, after BT_FAST_PAIR_FMDN_RING_COMP_BM_ALL
\* has been replaced by the components of the build.
Requestable == SUBSET Components \ {{}}

fmdn_ring_start_request(src, comps) ==
    /\ Request
    /\ ring_state_update(src, comps, stack, Requested)

fmdn_ring_stop_request(src) ==
    /\ Request
    /\ ring_state_update(src, {}, stack, Requested)

Provision ==
    /\ ~provisioned
    /\ provisioned' = TRUE
    /\ UNCHANGED <<ring, stack, ui, btn, beep, count>>

\* ring_provisioning_state_changed(false).
ring_provisioning_state_changed ==
    /\ provisioned
    /\ provisioned' = FALSE
    /\ IF ring.fmdn_ring_active_comp_bm # {}
       THEN ring_state_update(ring.fmdn_ring_src, {}, stack, count)
       ELSE UNCHANGED <<ring, stack, ui, count>>
    /\ UNCHANGED <<btn, beep>>

-----------------------------------------------------------------------------
(***************************************************************************)
(* The system workqueue.                                                   *)
(***************************************************************************)

\* Mutant: only the source is remembered, the ringing is not stopped.
Bug_timeout_ignored ==
    /\ WorkqueueFree
    /\ stack.timer
    /\ stack' = [stack EXCEPT !.timer = FALSE]
    /\ UNCHANGED <<ring, ui, btn, beep, provisioned, count>>

\* The timeout of the stack passes the source it belongs to.  A build without
\* assertions goes on with fmdn_ring_src, whatever that is.
fmdn_ring_timeout_expired ==
    /\ WorkqueueFree
    /\ stack.timer
    /\ ring_state_update(ring.fmdn_ring_src, {}, [stack EXCEPT !.timer = FALSE], count)
    /\ UNCHANGED <<btn, beep, provisioned>>

\* Mutant: the off phase does not come to an end.
Bug_one_beep ==
    /\ WorkqueueFree
    /\ ui.buzzer_beep_work
    /\ ui' = [ui EXCEPT !.beep_state = ~@, !.speaker = FALSE]
    /\ UNCHANGED <<ring, stack, btn, beep, provisioned, count>>

\* Toggles the speaker and schedules itself; beep_state keeps its phase from
\* one ringing to the next.
buzzer_beep_handle ==
    /\ WorkqueueFree
    /\ ui.buzzer_beep_work
    /\ ui' = [ui EXCEPT !.beep_state = ~@, !.speaker = ~ui.beep_state]
    /\ UNCHANGED <<ring, stack, btn, beep, provisioned, count>>

\* ring_request_handle(APP_UI_REQUEST_RINGING_STOP).
ring_request_handle ==
    IF ring.fmdn_ring_active_comp_bm # {}
    THEN ring_state_update(ring.fmdn_ring_src, {}, stack, count)
    ELSE UNCHANGED <<ring, stack, ui, count>>

\* btn_handle, called by the scan of the button on a press.
ButtonPress ==
    /\ WorkqueueFree
    /\ btn.pin /\ ~btn.seen
    /\ btn' = [btn EXCEPT !.seen = TRUE, !.held = TRUE]
    /\ IF ui.RINGING THEN ring_request_handle ELSE UNCHANGED <<ring, stack, ui, count>>
    /\ UNCHANGED <<beep, provisioned>>

\* btn_handle on a release: the hold time selects the number of beeps, which
\* are played before the request is broadcast (module LocatorTag).
ButtonRelease ==
    /\ WorkqueueFree
    /\ ~btn.pin /\ btn.seen
    /\ btn' = [btn EXCEPT !.seen = FALSE, !.held = FALSE, !.btn_idx = -1]
    /\ \E n \in BeepCounts :
           /\ beep' = [left |-> n, on |-> n # 0]
           /\ ui' = [ui EXCEPT !.speaker = IF n # 0 THEN TRUE ELSE @]
    /\ UNCHANGED <<ring, stack, provisioned, count>>

\* speaker_beep_play wakes up: from an on phase into an off phase, and from an
\* off phase into the next beep or out of the loop.
speaker_beep_play ==
    /\ beep.left > 0
    /\ beep' = IF beep.on THEN [beep EXCEPT !.on = FALSE]
               ELSE [left |-> beep.left - 1, on |-> beep.left > 1]
    /\ ui' = [ui EXCEPT !.speaker = beep'.on]
    /\ UNCHANGED <<ring, stack, btn, provisioned, count>>

-----------------------------------------------------------------------------
(***************************************************************************)
(* The user.  A press lasts longer than the scan of an idle workqueue takes. *)
(***************************************************************************)

PinDown ==
    /\ ~btn.pin
    /\ WorkqueueFree => ~btn.seen
    /\ count.presses < MaxPresses
    /\ count' = [count EXCEPT !.presses = @ + 1]
    /\ btn' = [btn EXCEPT !.pin = TRUE]
    /\ UNCHANGED <<ring, stack, ui, beep, provisioned>>

PinUp ==
    /\ btn.pin
    /\ WorkqueueFree => btn.seen
    /\ btn' = [btn EXCEPT !.pin = FALSE]
    /\ UNCHANGED <<ring, stack, ui, beep, provisioned, count>>

-----------------------------------------------------------------------------
Init ==
    /\ ring = [fmdn_ring_active_comp_bm |-> {}, fmdn_ring_src |-> FirstSource]
    /\ stack = [active |-> {}, src |-> FirstSource, timer |-> FALSE]
    /\ ui = Silent
    /\ btn = [pin |-> FALSE, seen |-> FALSE, held |-> FALSE, btn_idx |-> -1]
    /\ beep = [left |-> 0, on |-> FALSE]
    /\ provisioned \in BOOLEAN
    /\ count = [requests |-> 0, presses |-> 0, faults |-> 0]

ReceiveThread ==
    \/ \E src \in Sources : fmdn_ring_stop_request(src)
    \/ \E src \in Sources, comps \in Requestable : fmdn_ring_start_request(src, comps)
    \/ Provision
    \/ ring_provisioning_state_changed

Workqueue ==
    \/ fmdn_ring_timeout_expired
    \/ buzzer_beep_handle
    \/ ButtonPress
    \/ ButtonRelease
    \/ speaker_beep_play

Next == ReceiveThread \/ Workqueue \/ PinDown \/ PinUp

Spec == Init /\ [][Next]_vars

\* The workqueue runs what is due, and the timeout of the stack falls due.
\* Peers and the user owe nothing.
FairSpec ==
    /\ Spec
    /\ WF_vars(fmdn_ring_timeout_expired)
    /\ WF_vars(buzzer_beep_handle)
    /\ WF_vars(ButtonPress)
    /\ WF_vars(ButtonRelease)
    /\ WF_vars(speaker_beep_play)

-----------------------------------------------------------------------------
(***************************************************************************)
(* What holds.                                                             *)
(***************************************************************************)

\* ring.c and the stack agree on what rings although requests, the timeout,
\* the button and unprovisioning change it, and the stack may refuse any of
\* these changes; a disagreement would be reported to the owner's phone.
StackAgrees == ring.fmdn_ring_active_comp_bm = stack.active

\* The buzzer work, which schedules itself, runs exactly while something rings:
\* a second start does not queue it twice and no order of starts, stops and
\* beeps of the button leaves it behind or loses it.
BuzzerFollowsRinging ==
    /\ ui.buzzer_beep_work <=> ui.RINGING
    /\ ui.RINGING <=> ring.fmdn_ring_active_comp_bm # {}

\* The speaker is off when nothing rings and no button action is confirmed,
\* although two independent handlers switch it.
SilentWhenStopped == ~ui.RINGING /\ WorkqueueFree => ~ui.speaker

\* Unless the stack refuses the update, the ringing of a tag ends with its
\* provisioning ("Clean up the ringing state in case it is necessary.",
\* ring.c).
UnprovisionedIsSilent ==
    count.faults = 0 /\ ~provisioned => ring.fmdn_ring_active_comp_bm = {}

\* Together: requests, the timeout, two works, the button and unprovisioning each
\* change some of the four copies of "it rings", and none is left behind.
RingingConsistent ==
    /\ TypeOK
    /\ StackAgrees
    /\ BuzzerFollowsRinging
    /\ SilentWhenStopped
    /\ UnprovisionedIsSilent

\* As long as the stack accepts the updates, ringing ends: the timeout of the
\* last start stops it, whatever source and however often it was started.
RingingEnds == ui.RINGING ~> (~ui.RINGING \/ count.faults > 0)

\* Ringing is heard: whatever phase beep_state was left in, and although the
\* beeps of the button hold up the buzzer work, the speaker is switched on and
\* off again and again.  A tag whose stop at the timeout was refused rings on
\* without end, so that the timeout is no excuse.
RingingIsHeard ==
    /\ (ui.RINGING /\ ~ui.speaker) ~> (ui.speaker \/ ~ui.RINGING)
    /\ (ui.RINGING /\ ui.speaker) ~> ~ui.speaker

-----------------------------------------------------------------------------
(***************************************************************************)
(* What the comments say and the code refutes.                             *)
(***************************************************************************)

\* "The timeout source cannot differ from the last ring start operation that
\* was accepted using the bt_fast_pair_fmdn_ring_state_update function." and
\* the assertion under it (ring.c, fmdn_ring_timeout_expired).
TimeoutSourceMatches ==
    [][ fmdn_ring_timeout_expired => stack.src = ring.fmdn_ring_src ]_vars

\* "If ringing is active then always stop it on any button press."
\* (platform_SBT.c, btn_handle): no press goes by unnoticed while the tag rings.
AnyPressStopsRinging ==
    [][ btn.pin /\ ~btn'.pin /\ ui.RINGING => btn.seen ]_vars

\* "If there is any button action in progress, then send ringing stop request."
\* (platform_SBT.c, app_ui_state_change_indicate): when ringing starts while
\* the button is held, its cancellation is scheduled.
PressedButtonCancels ==
    [][ ~ui.RINGING /\ ui'.RINGING /\ btn.held => ui'.cancel_ringing_work ]_vars

=============================================================================
