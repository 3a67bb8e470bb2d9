----------------------------- MODULE RingProofs -----------------------------
(***************************************************************************)
(* Proofs about Ring, for any components and sources, any number of beeps, *)
(* and any number of requests, presses and refused updates.                *)
(***************************************************************************)
EXTENDS Ring, TLAPS

\* The inductive invariant.  btn_idx is what app_ui_state_change_indicate looks
\* at before it starts the buzzer: as long as nothing sets it, the buzzer work and
\* the ringing go together.
Inv == RingingConsistent /\ btn.btn_idx = -1

CountType == [requests : 0..MaxRequests, presses : 0..MaxPresses, faults : 0..MaxFaults]

-----------------------------------------------------------------------------
(***************************************************************************)
(* Updates of the ringing.                                                 *)
(***************************************************************************)

\* The part of the invariant that a change of the ringing can disturb.
RingPart ==
    /\ ring \in RingState
    /\ stack \in StackState
    /\ ui \in UiState
    /\ count \in CountType
    /\ StackAgrees
    /\ BuzzerFollowsRinging
    /\ (~ui.RINGING /\ WorkqueueFree => ~ui.speaker)

\* The UI follows what ring.c tells it: the buzzer work is started with the
\* ringing, and stopped together with the speaker.
LEMMA IndicateEffect ==
    ASSUME ui \in UiState, btn.btn_idx = -1, NEW active \in BOOLEAN,
           app_ui_state_change_indicate(active)
    PROVE  /\ ui' \in UiState
           /\ ui'.RINGING = active
           /\ active => ui'.buzzer_beep_work
           /\ ~active => ~ui'.buzzer_beep_work /\ ~ui'.speaker
BY DEF UiState, app_ui_state_change_indicate

\* An update that the stack accepts changes all four copies, one that it refuses
\* none of them.
LEMMA UpdateKeepsRing ==
    ASSUME Inv, NEW src \in Sources, NEW comps \in SUBSET Components,
           NEW st \in StackState, st.active = stack.active,
           NEW c \in CountType, c.faults = count.faults,
           ring_state_update(src, comps, st, c), UNCHANGED beep
    PROVE  /\ RingPart'
           /\ \/ ring'.fmdn_ring_active_comp_bm = comps /\ count'.faults = count.faults
              \/ /\ ring'.fmdn_ring_active_comp_bm = ring.fmdn_ring_active_comp_bm
                 /\ count'.faults # 0
<1>. USE DEF Inv, RingingConsistent
<1>1. CASE /\ stack' = [active |-> comps, src |-> src, timer |-> comps # {}]
           /\ app_ui_state_change_indicate(comps # {})
           /\ ring' = [fmdn_ring_active_comp_bm |-> comps, fmdn_ring_src |-> src]
           /\ count' = c
  <2>1. /\ ui' \in UiState /\ ui'.RINGING = (comps # {})
        /\ comps # {} => ui'.buzzer_beep_work
        /\ comps = {} => ~ui'.buzzer_beep_work /\ ~ui'.speaker
    BY <1>1, IndicateEffect DEF TypeOK
  <2>2. ring' \in RingState /\ stack' \in StackState
    BY <1>1 DEF RingState, StackState
  <2>3. StackAgrees' /\ BuzzerFollowsRinging'
    BY <1>1, <2>1 DEF StackAgrees, BuzzerFollowsRinging, UiState
  <2>. QED  BY <1>1, <2>1, <2>2, <2>3 DEF RingPart
<1>2. CASE /\ c.faults < MaxFaults
           /\ count' = [c EXCEPT !.faults = @ + 1]
           /\ stack' = st
           /\ ring' = [ring EXCEPT !.fmdn_ring_src = src]
           /\ UNCHANGED ui
  <2>1. count' \in CountType /\ count'.faults # 0
    BY <1>2, RingAssumption DEF CountType
  <2>2. /\ ring' \in RingState
        /\ ring'.fmdn_ring_active_comp_bm = ring.fmdn_ring_active_comp_bm
    BY <1>2 DEF TypeOK, RingState
  <2>3. StackAgrees' /\ BuzzerFollowsRinging'
    BY <1>2, <2>2 DEF StackAgrees, BuzzerFollowsRinging
  <2>4. (~ui.RINGING /\ WorkqueueFree => ~ui.speaker)'
    BY <1>2 DEF SilentWhenStopped, WorkqueueFree
  <2>. QED  BY <1>2, <2>1, <2>2, <2>3, <2>4 DEF RingPart, TypeOK
<1>. QED  BY <1>1, <1>2 DEF ring_state_update

\* RingPart is the rest of the invariant, given the button and the beeps.
LEMMA RingPartSuffices ==
    ASSUME RingPart', btn' \in ButtonState, btn'.btn_idx = -1,
           beep' \in [left : Nat, on : BOOLEAN], provisioned' \in BOOLEAN,
           UnprovisionedIsSilent'
    PROVE  Inv'
BY DEF RingPart, Inv, RingingConsistent, TypeOK, SilentWhenStopped, CountType

-----------------------------------------------------------------------------
(***************************************************************************)
(* The actions.                                                            *)
(***************************************************************************)

\* Requests of peers, the timeout, the button and unprovisioning, on either thread.
LEMMA StopsAndStartsKeepInv ==
    ASSUME Inv, ReceiveThread \/ fmdn_ring_timeout_expired \/ ButtonPress
    PROVE  Inv'
<1>. USE DEF Inv, RingingConsistent
<1>0. /\ TypeOK /\ UnprovisionedIsSilent /\ RingPart /\ count \in CountType
      /\ stack \in StackState /\ ring.fmdn_ring_src \in Sources
      /\ {} \in SUBSET Components
  BY DEF TypeOK, RingPart, SilentWhenStopped, CountType, RingState
<1>1. ASSUME NEW src \in Sources, NEW comps \in SUBSET Components, Request,
             ring_state_update(src, comps, stack, Requested)
      PROVE  Inv'
  <2>1. Requested \in CountType /\ Requested.faults = count.faults
    BY <1>0, <1>1, RingAssumption DEF Requested, Request, CountType
  <2>2. RingPart' /\ UNCHANGED <<btn, beep, provisioned>> /\ provisioned
    BY <1>0, <1>1, <2>1, UpdateKeepsRing DEF Request
  <2>3. UnprovisionedIsSilent'
    BY <2>2 DEF UnprovisionedIsSilent
  <2>. QED  BY <1>0, <2>2, <2>3, RingPartSuffices DEF TypeOK
<1>2. CASE Provision
  BY <1>0, <1>2, RingPartSuffices
     DEF Provision, TypeOK, RingPart, StackAgrees, BuzzerFollowsRinging, WorkqueueFree,
         UnprovisionedIsSilent
<1>3. ASSUME NEW st \in StackState, st.active = stack.active,
             ring_state_update(ring.fmdn_ring_src, {}, st, count),
             UNCHANGED beep, btn' \in ButtonState, btn'.btn_idx = -1, provisioned' \in BOOLEAN
      PROVE  Inv'
  <2>1. /\ RingPart'
        /\ ring'.fmdn_ring_active_comp_bm = {} \/ count'.faults # 0
    BY <1>0, <1>3, UpdateKeepsRing
  <2>2. UnprovisionedIsSilent'
    BY <2>1 DEF UnprovisionedIsSilent
  <2>. QED  BY <1>0, <1>3, <2>1, <2>2, RingPartSuffices DEF TypeOK
<1>4. ASSUME UNCHANGED <<ring, stack, ui, count, beep>>, btn' \in ButtonState, btn'.btn_idx = -1,
             provisioned' \in BOOLEAN,
             provisioned' = provisioned \/ ring.fmdn_ring_active_comp_bm = {}
      PROVE  Inv'
  <2>1. RingPart' /\ UnprovisionedIsSilent'
    BY <1>0, <1>4
       DEF RingPart, StackAgrees, BuzzerFollowsRinging, WorkqueueFree, UnprovisionedIsSilent
  <2>. QED  BY <1>0, <1>4, <2>1, RingPartSuffices DEF TypeOK
<1>5. CASE ring_provisioning_state_changed
  <2>1. btn' \in ButtonState /\ btn'.btn_idx = -1 /\ provisioned' \in BOOLEAN /\ UNCHANGED beep
    BY <1>5 DEF ring_provisioning_state_changed, TypeOK
  <2>. QED  BY <1>0, <1>3, <1>4, <1>5, <2>1 DEF ring_provisioning_state_changed
<1>6. CASE fmdn_ring_timeout_expired
  <2>1. /\ [stack EXCEPT !.timer = FALSE] \in StackState
        /\ [stack EXCEPT !.timer = FALSE].active = stack.active
    BY <1>0 DEF StackState
  <2>. QED  BY <1>3, <1>6, <2>1 DEF fmdn_ring_timeout_expired, TypeOK
<1>7. CASE ButtonPress
  <2>1. btn' \in ButtonState /\ btn'.btn_idx = -1 /\ UNCHANGED <<beep, provisioned>>
    BY <1>7 DEF ButtonPress, TypeOK, ButtonState
  <2>2. provisioned' \in BOOLEAN
    BY <1>0, <2>1 DEF TypeOK
  <2>. QED  BY <1>0, <1>3, <1>4, <1>7, <2>1, <2>2 DEF ButtonPress, ring_request_handle
<1>8. CASE ReceiveThread
  BY <1>0, <1>1, <1>2, <1>5, <1>8
     DEF ReceiveThread, fmdn_ring_start_request, fmdn_ring_stop_request, Requestable
<1>. QED  BY <1>6, <1>7, <1>8

\* The works and pins that only switch the speaker or move the button.
LEMMA SpeakerKeepsInv ==
    ASSUME Inv, buzzer_beep_handle \/ ButtonRelease \/ speaker_beep_play \/ PinDown \/ PinUp
    PROVE  Inv'
<1>. USE DEF Inv, RingingConsistent
<1>1. CASE buzzer_beep_handle
  <2>1. ui.RINGING /\ ui' \in UiState /\ ui'.RINGING = ui.RINGING
        /\ ui'.buzzer_beep_work = ui.buzzer_beep_work
    BY <1>1 DEF buzzer_beep_handle, TypeOK, UiState, BuzzerFollowsRinging
  <2>. QED
    BY <1>1, <2>1 DEF buzzer_beep_handle, TypeOK, StackAgrees, BuzzerFollowsRinging,
                      SilentWhenStopped, UnprovisionedIsSilent
<1>2. CASE ButtonRelease
  <2>1. PICK n \in BeepCounts : /\ beep' = [left |-> n, on |-> n # 0]
                                /\ ui' = [ui EXCEPT !.speaker = IF n # 0 THEN TRUE ELSE @]
    BY <1>2 DEF ButtonRelease
  <2>2. beep' \in [left : Nat, on : BOOLEAN] /\ beep'.left = n /\ n \in Nat
    BY <2>1, RingAssumption
  <2>3. ui' \in UiState /\ ui'.RINGING = ui.RINGING
        /\ ui'.buzzer_beep_work = ui.buzzer_beep_work /\ (n = 0 => ui'.speaker = ui.speaker)
    BY <2>1 DEF TypeOK, UiState
  <2>4. btn' \in ButtonState /\ btn'.btn_idx = -1
    BY <1>2 DEF ButtonRelease, TypeOK, ButtonState
  <2>. QED
    BY <1>2, <2>2, <2>3, <2>4
       DEF ButtonRelease, TypeOK, StackAgrees, BuzzerFollowsRinging, SilentWhenStopped,
           UnprovisionedIsSilent, WorkqueueFree
<1>3. CASE speaker_beep_play
  <2>1. /\ beep' \in [left : Nat, on : BOOLEAN]
        /\ beep'.left = 0 => ~beep'.on
    <3>1. beep \in [left : Nat, on : BOOLEAN] /\ beep.left > 0 /\ beep.left \in Nat
      BY <1>3 DEF speaker_beep_play, TypeOK
    <3>2. CASE beep.on
      <4>1. beep' = [beep EXCEPT !.on = FALSE]
        BY <1>3, <3>2 DEF speaker_beep_play
      <4>. QED  BY <3>1, <4>1
    <3>3. CASE ~beep.on
      <4>. DEFINE n == beep.left - 1
                  more == beep.left > 1
      <4>1. beep' = [left |-> n, on |-> more]
        BY <1>3, <3>3 DEF speaker_beep_play
      <4>2. n \in Nat /\ more \in BOOLEAN /\ (n = 0 => ~more)
        BY <3>1
      <4>. HIDE DEF n, more
      <4>. QED  BY <4>1, <4>2
    <3>. QED  BY <3>2, <3>3
  <2>2. ui' \in UiState /\ ui'.RINGING = ui.RINGING
        /\ ui'.buzzer_beep_work = ui.buzzer_beep_work /\ ui'.speaker = beep'.on
    BY <1>3, <2>1 DEF speaker_beep_play, TypeOK, UiState
  <2>. QED
    BY <1>3, <2>1, <2>2
       DEF speaker_beep_play, TypeOK, StackAgrees, BuzzerFollowsRinging, SilentWhenStopped,
           UnprovisionedIsSilent, WorkqueueFree
<1>4. CASE PinDown \/ PinUp
  <2>1. btn' \in ButtonState /\ btn'.btn_idx = -1
    BY <1>4 DEF PinDown, PinUp, TypeOK, ButtonState
  <2>2. count' \in CountType /\ count'.faults = count.faults
    BY <1>4, RingAssumption DEF PinDown, PinUp, TypeOK, CountType
  <2>. QED
    BY <1>4, <2>1, <2>2
       DEF PinDown, PinUp, TypeOK, StackAgrees, BuzzerFollowsRinging, SilentWhenStopped,
           UnprovisionedIsSilent, WorkqueueFree, CountType
<1>. QED  BY <1>1, <1>2, <1>3, <1>4

-----------------------------------------------------------------------------
\* ring.c, the stack, the UI and the buzzer agree on whether the tag rings, the
\* speaker is silent when it does not, and the ringing ends with the provisioning,
\* in every interleaving of requests, timeout, button, beeps and refusals.
THEOREM RingingAlwaysConsistent == Spec => []RingingConsistent
<1>1. Init => Inv
  BY RingAssumption
     DEF Init, Inv, RingingConsistent, TypeOK, RingState, StackState, UiState, ButtonState,
         Silent, StackAgrees, BuzzerFollowsRinging, SilentWhenStopped, UnprovisionedIsSilent
<1>2. Inv /\ [Next]_vars => Inv'
  <2>. SUFFICES ASSUME Inv, [Next]_vars
                PROVE  Inv'
    OBVIOUS
  <2>1. CASE UNCHANGED vars
    BY <2>1 DEF vars, Inv, RingingConsistent, TypeOK, StackAgrees, BuzzerFollowsRinging,
                SilentWhenStopped, UnprovisionedIsSilent, WorkqueueFree
  <2>. QED  BY <2>1, StopsAndStartsKeepInv, SpeakerKeepsInv DEF Next, Workqueue
<1>3. Inv => RingingConsistent
  BY DEF Inv
<1>. QED  BY <1>1, <1>2, <1>3, PTL DEF Spec

=============================================================================
