------------------------------- MODULE Storage -------------------------------
(***************************************************************************)
(* The three NVS records (production, configuration, dynamic data) and the  *)
(* RAM copies every module works on: vision_bootup.c, vision_nvs_storage.c, *)
(* and the places of vision_production.c, vision_custom_services.c and      *)
(* vision_battery.c that store a record.                                   *)
(*                                                                         *)
(* A record's content is abstracted to a setting, or to the boot counter;   *)
(* what is modelled is which copy is valid, which one is written when, and  *)
(* what a failing call or a loss of power leaves behind.  NVS itself writes *)
(* a record completely or not at all.                                      *)
(***************************************************************************)
EXTENDS Naturals, Sequences

CONSTANTS
    Settings,        \* contents of a record that somebody has set
    CounterValues,   \* 2^16 in the code: mu16_ResetCnt is a uint16_t
    MaxReadFaults,   \* bound on reads that fail although the record is good
    MaxWriteFaults,  \* bound on failing writes
    MaxPowerLosses   \* bound on losses of power

ASSUME StorageAssumption ==
    /\ Settings \intersect {"blank", "corrupt", "default", "zero"} = {}
    /\ CounterValues \in Nat \ {0, 1}
    /\ {MaxReadFaults, MaxWriteFaults, MaxPowerLosses} \subseteq Nat

VARIABLES
    phase,    \* the record init_work_handle loads next; "run"; "gave_up"
    nvs,      \* the flash
    ram,      \* gst_ProductionData, gst_ConfigData, gst_DynamicData
    pending,  \* records the running handler still has to write
    faults    \* faults and losses of power so far

vars == <<phase, nvs, ram, pending, faults>>

Phases == {"mount", "prod", "config", "dynamic", "run", "gave_up"}

\* Contents that pass the check of the magic number.
Valid == Settings \union {"default"}

NvsContents == Valid \union {"blank", "corrupt"}

RamContents == Valid \union {"zero"}

TypeOK ==
    /\ phase \in Phases
    /\ nvs \in [prod : NvsContents, config : NvsContents, dynamic : NvsContents,
                cnt : 0..(CounterValues - 1)]
    /\ ram \in [prod : RamContents, config : RamContents, dynamic : RamContents,
                cnt : 0..(CounterValues - 1)]
    /\ pending \in Seq({"prod", "config", "dynamic"})
    /\ faults \in [read : 0..MaxReadFaults, write : 0..MaxWriteFaults,
                   power : 0..MaxPowerLosses]

Zeroed == [prod |-> "zero", config |-> "zero", dynamic |-> "zero", cnt |-> 0]

\* write_nvs_data(k): the RAM copy r goes to flash, counter included if it is in
\* the record.
Written(k, r) ==
    IF k = "dynamic" THEN [nvs EXCEPT !.dynamic = r.dynamic, !.cnt = r.cnt]
    ELSE [nvs EXCEPT ![k] = r[k]]

WriteFails ==
    /\ faults.write < MaxWriteFaults
    /\ faults' = [faults EXCEPT !.write = @ + 1]
    /\ UNCHANGED nvs

-----------------------------------------------------------------------------
(***************************************************************************)
(* Boot.                                                                   *)
(***************************************************************************)

\* app_nvs_handler_init; a failure ends the boot.
app_nvs_handler_init ==
    /\ phase = "mount"
    /\ \/ phase' = "prod" /\ UNCHANGED faults
       \/ /\ faults.read < MaxReadFaults
          /\ faults' = [faults EXCEPT !.read = @ + 1]
          /\ phase' = "gave_up"
    /\ UNCHANGED <<nvs, ram, pending>>

\* The next step of app_storage_verify_and_load.
NextPhase(k) == CASE k = "prod" -> "config" [] k = "config" -> "dynamic"
                  [] k = "dynamic" -> "run"

\* Mutant: a copied block names the key of the record before.
Bug_wrong_key(k, f) ==
    LET r == IF k = "dynamic" THEN [ram EXCEPT !.dynamic = "default", !.cnt = 0]
             ELSE [ram EXCEPT ![k] = "default"]
    IN /\ ram' = r
       /\ nvs' = IF k = "config" THEN Written("prod", [r EXCEPT !.prod = "default"])
                 ELSE Written(k, r)
       /\ phase' = NextPhase(k)
       /\ faults' = f

\* The record is missing, corrupted, or could not be read (f counts the faults so
\* far): defaults go to RAM and to flash, and the boot gives up if that write
\* fails.
InstallDefaults(k, f) ==
    LET r == IF k = "dynamic" THEN [ram EXCEPT !.dynamic = "default", !.cnt = 0]
             ELSE [ram EXCEPT ![k] = "default"]
    IN /\ ram' = r
       /\ \/ /\ nvs' = Written(k, r)
             /\ phase' = NextPhase(k)
             /\ faults' = f
          \/ /\ f.write < MaxWriteFaults
             /\ faults' = [f EXCEPT !.write = @ + 1]
             /\ phase' = "gave_up"
             /\ UNCHANGED nvs

\* Mutant: the counter is taken from the RAM that was cleared.
Bug_counter_restarts == 1 % CounterValues

\* mu16_ResetCnt++.
NextCount == (nvs.cnt + 1) % CounterValues

\* The record is valid.  The dynamic one is written back with the boot counted;
\* a failure of that write is ignored.
Load(k) ==
    /\ phase' = NextPhase(k)
    /\ IF k = "dynamic"
       THEN /\ ram' = [ram EXCEPT !.dynamic = nvs.dynamic, !.cnt = NextCount]
            /\ \/ nvs' = Written(k, ram') /\ UNCHANGED faults
               \/ WriteFails
       ELSE /\ ram' = [ram EXCEPT ![k] = nvs[k]]
            /\ UNCHANGED <<nvs, faults>>

\* Mutant: only the result of the read is looked at, not the magic number.
Bug_magic_not_checked(k) ==
    /\ phase = k
    /\ IF nvs[k] # "blank"
       THEN /\ ram' = [ram EXCEPT ![k] = "zero"]
            /\ phase' = NextPhase(k)
            /\ UNCHANGED <<nvs, faults>>
       ELSE InstallDefaults(k, faults)
    /\ UNCHANGED pending

app_storage_verify_and_load(k) ==
    /\ phase = k
    /\ IF nvs[k] \in Valid THEN Load(k) ELSE InstallDefaults(k, faults)
    /\ UNCHANGED pending

\* nvs_read returns an error for a record that is valid: the code takes it for a
\* missing one.
ReadFails(k) ==
    /\ phase = k
    /\ nvs[k] \in Valid
    /\ faults.read < MaxReadFaults
    /\ InstallDefaults(k, [faults EXCEPT !.read = @ + 1])
    /\ UNCHANGED pending

\* Everything in RAM is lost.
Restart ==
    /\ phase' = "mount"
    /\ ram' = Zeroed
    /\ pending' = <<>>
    /\ UNCHANGED nvs

\* Mutant: main waits for ever.
Bug_no_panic == phase = "gave_up" /\ UNCHANGED vars

\* main waits for the boot and panics when it does not finish.
InitTimeout == phase = "gave_up" /\ Restart /\ UNCHANGED faults

PowerLoss ==
    /\ faults.power < MaxPowerLosses
    /\ faults' = [faults EXCEPT !.power = @ + 1]
    /\ Restart

-----------------------------------------------------------------------------
(***************************************************************************)
(* The running tag.  A command changes the RAM copy and answers; the handler *)
(* then writes the records whose flag it has set, one after the other.      *)
(***************************************************************************)

Idle == phase = "run" /\ pending = <<>>

\* TOOL_SET_DEFULT_PASSW, TOOL_SET_SERIAL_OF_DUT_CMD, TOOL_SET_MAC_OF_DUT_CMD and
\* TOOL_SET_DEVICE_CONFIG of ProcessProductionMsg.
SetProduction(v) ==
    /\ Idle
    /\ ram' = [ram EXCEPT !.prod = v]
    /\ pending' = <<"prod">>
    /\ UNCHANGED <<phase, nvs, faults>>

\* SET_ADV_PERIOD and the other settings of the command service.
SetConfig(v) ==
    /\ Idle
    /\ ram' = [ram EXCEPT !.config = v]
    /\ pending' = <<"config">>
    /\ UNCHANGED <<phase, nvs, faults>>

\* TOOL_SET_CLOCK_CMD and SET_REAL_TIME_CLOCK: the time zone belongs to the
\* configuration, the time to the dynamic data.
SetClock(v) ==
    /\ Idle
    /\ ram' = [ram EXCEPT !.config = v, !.dynamic = v]
    /\ pending' = <<"config", "dynamic">>
    /\ UNCHANGED <<phase, nvs, faults>>

\* The battery work stores the dynamic data when the percentage has changed.
StoreCapacity ==
    /\ Idle
    /\ pending' = <<"dynamic">>
    /\ UNCHANGED <<phase, nvs, ram, faults>>

\* The handler writes the next record; a failure is only logged.
WriteRecord ==
    /\ pending # <<>>
    /\ pending' = Tail(pending)
    /\ \/ nvs' = Written(Head(pending), ram) /\ UNCHANGED faults
       \/ WriteFails
    /\ UNCHANGED <<phase, ram>>

\* TOOL_RESET_CMD and RESTART_DEVICE.
SelfRestart == Idle /\ Restart /\ UNCHANGED faults

-----------------------------------------------------------------------------
\* A tag from the line (blank), one in use, or one whose flash is damaged.
Init ==
    /\ phase = "mount"
    /\ nvs \in [prod : NvsContents, config : NvsContents, dynamic : NvsContents,
                cnt : {0, CounterValues - 2}]
    /\ ram = Zeroed
    /\ pending = <<>>
    /\ faults = [read |-> 0, write |-> 0, power |-> 0]

VerifyAndLoad == \E k \in {"prod", "config", "dynamic"} : app_storage_verify_and_load(k)

Next ==
    \/ app_nvs_handler_init
    \/ VerifyAndLoad
    \/ \E k \in {"prod", "config", "dynamic"} : ReadFails(k)
    \/ InitTimeout
    \/ PowerLoss
    \/ \E v \in Settings : SetProduction(v) \/ SetConfig(v) \/ SetClock(v)
    \/ StoreCapacity
    \/ WriteRecord
    \/ SelfRestart

Spec == Init /\ [][Next]_vars

\* The boot goes on, and main does panic.
FairSpec ==
    /\ Spec
    /\ WF_vars(app_nvs_handler_init)
    /\ WF_vars(VerifyAndLoad)
    /\ WF_vars(InitTimeout)

-----------------------------------------------------------------------------
(***************************************************************************)
(* What holds.                                                             *)
(***************************************************************************)

\* A running tag works on three valid records, and the flash holds three valid
\* ones, whatever it held at first and wherever earlier boots were interrupted.
LoadedValid ==
    phase = "run" =>
        \A k \in {"prod", "config", "dynamic"} : ram[k] \in Valid /\ nvs[k] \in Valid

\* What was set is in flash when its handler is done, unless a write failed; so
\* a restart that the tool or the app asks for loses nothing, although it is
\* carried out before the write flags are looked at.
SettingsStored ==
    phase = "run" /\ faults.write = 0 =>
        \A k \in {"prod", "config", "dynamic"} :
            ram[k] # nvs[k] => \E i \in DOMAIN pending : pending[i] = k

\* Together: RAM and flash before, during and after every handler that writes.
RecordsConsistent == TypeOK /\ LoadedValid /\ SettingsStored

\* Production data and settings are never replaced by defaults, however often
\* power is lost and writes fail, as long as good records can be read.
SettingsKept ==
    [][ faults'.read = 0 =>
          \A k \in {"prod", "config", "dynamic"} :
              nvs[k] \in Settings => nvs'[k] \in Settings ]_vars

\* The stored boot counter goes up by one or stays, modulo its width, although
\* the RAM copy that carries it is written by other modules for other reasons and
\* the write that counts a boot may fail.
CounterNeverGoesBack ==
    [][ nvs.dynamic \in Valid /\ faults'.read = 0 =>
          nvs'.cnt \in {nvs.cnt, (nvs.cnt + 1) % CounterValues} ]_vars

\* A tag always gets to run again: a boot that gave up is repeated, and a record
\* whose defaults could not be written is tried again.
BootCompletes == phase # "run" ~> phase = "run"

-----------------------------------------------------------------------------
(***************************************************************************)
(* What a comment says and the code refutes.                               *)
(***************************************************************************)

\* "If valid data structures exist, they are extracted directly into global
\* variables" (app_vision_bootup.h): no boot replaces a valid record by defaults.
ValidRecordsExtracted ==
    [][ \A k \in {"prod", "config", "dynamic"} :
          phase = k /\ nvs[k] \in Settings => nvs'[k] = nvs[k] ]_vars

=============================================================================
