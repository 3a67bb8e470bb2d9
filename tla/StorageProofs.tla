---------------------------- MODULE StorageProofs ----------------------------
(***************************************************************************)
(* Proofs about Storage, for any settings, any width of the boot counter    *)
(* and any number of failing reads, failing writes and losses of power.     *)
(***************************************************************************)
EXTENDS Storage, TLAPS

-----------------------------------------------------------------------------
(***************************************************************************)
(* The inductive invariant.                                                *)
(***************************************************************************)

Records == {"prod", "config", "dynamic"}

\* app_storage_verify_and_load is through with record k.
Done(k) ==
    \/ phase = "run"
    \/ phase = "dynamic" /\ k \in {"prod", "config"}
    \/ phase = "config" /\ k = "prod"

Queued(k) == \E i \in DOMAIN pending : pending[i] = k

\* A record the boot is through with is valid in RAM and in flash, RAM holds a
\* setting where flash does, and a difference between the two is still to be
\* written, unless a write failed.
RecordDone(k) ==
    Done(k) =>
        /\ ram[k] \in Valid
        /\ nvs[k] \in Valid
        /\ nvs[k] \in Settings => ram[k] \in Settings
        /\ faults.write = 0 /\ ram[k] # nvs[k] => Queued(k)

\* Only the running tag has records to write, and its counter is the stored one
\* or, where the write that counted the boot failed, the next.
RunningInv ==
    /\ pending # <<>> => phase = "run"
    /\ phase = "run" => ram.cnt \in {nvs.cnt, NextCount}

Inv == TypeOK /\ (\A k \in Records : RecordDone(k)) /\ RunningInv

-----------------------------------------------------------------------------
(***************************************************************************)
(* What the operators do.                                                  *)
(***************************************************************************)

Cnt == 0..(CounterValues - 1)

NvsType == [prod : NvsContents, config : NvsContents, dynamic : NvsContents, cnt : Cnt]
RamType == [prod : RamContents, config : RamContents, dynamic : RamContents, cnt : Cnt]

\* The counter wraps around within its width.
LEMMA CountType ==
    ASSUME TypeOK
    PROVE  NextCount \in Cnt /\ 0 \in Cnt
BY StorageAssumption DEF TypeOK, NextCount, Cnt

\* write_nvs_data stores the record it is asked to store, with the counter if it
\* belongs to it, and leaves the other two alone.
LEMMA WrittenEffect ==
    ASSUME nvs \in NvsType, NEW r \in RamType, NEW k \in Records, r[k] \in Valid
    PROVE  /\ Written(k, r) \in NvsType
           /\ \A j \in Records : Written(k, r)[j] = IF j = k THEN r[k] ELSE nvs[j]
           /\ Written(k, r).cnt = IF k = "dynamic" THEN r.cnt ELSE nvs.cnt
<1>1. CASE k = "prod"
  BY <1>1 DEF Written, NvsType, RamType, NvsContents, Records
<1>2. CASE k = "config"
  BY <1>2 DEF Written, NvsType, RamType, NvsContents, Records
<1>3. CASE k = "dynamic"
  BY <1>3 DEF Written, NvsType, RamType, NvsContents, Records
<1>. QED  BY <1>1, <1>2, <1>3 DEF Records

\* RAM with the defaults of record k.
DefaultRam(k) ==
    IF k = "dynamic" THEN [ram EXCEPT !.dynamic = "default", !.cnt = 0]
    ELSE [ram EXCEPT ![k] = "default"]

\* Record k is the default, the other two are as they were.
LEMMA DefaultsEffect ==
    ASSUME TypeOK, NEW k \in Records
    PROVE  /\ DefaultRam(k) \in RamType
           /\ \A j \in Records : DefaultRam(k)[j] = IF j = k THEN "default" ELSE ram[j]
           /\ k = "dynamic" => DefaultRam(k).cnt = 0
<1>0. ram \in RamType /\ 0 \in Cnt
  BY CountType DEF TypeOK, RamType, Cnt
<1>1. CASE k = "prod"
  BY <1>0, <1>1 DEF DefaultRam, RamType, RamContents, Valid, Records
<1>2. CASE k = "config"
  BY <1>0, <1>2 DEF DefaultRam, RamType, RamContents, Valid, Records
<1>3. CASE k = "dynamic"
  BY <1>0, <1>3 DEF DefaultRam, RamType, RamContents, Valid, Records
<1>. QED  BY <1>1, <1>2, <1>3 DEF Records

-----------------------------------------------------------------------------
(***************************************************************************)
(* The invariant is inductive.                                             *)
(***************************************************************************)

FaultType == [read : 0..MaxReadFaults, write : 0..MaxWriteFaults, power : 0..MaxPowerLosses]

\* A failing write counts, and nothing else.
LEMMA FaultEffect ==
    ASSUME NEW f \in FaultType, f.write < MaxWriteFaults
    PROVE  /\ [f EXCEPT !.write = @ + 1] \in FaultType
           /\ [f EXCEPT !.write = @ + 1].write # 0
BY StorageAssumption DEF FaultType

\* Whatever ends the run of the tag, only flash counts afterwards.
LEMMA RestartKeepsInv ==
    ASSUME Inv, Restart, faults' \in FaultType
    PROVE  Inv'
<1>1. ram' \in RamType /\ pending' \in Seq(Records)
  BY CountType DEF Restart, Zeroed, RamType, RamContents, Inv
<1>2. TypeOK'
  BY <1>1 DEF Restart, Inv, TypeOK, Phases, FaultType, RamType, Records, Cnt
<1>3. \A k \in Records : RecordDone(k)'
  BY DEF Restart, RecordDone, Done
<1>4. RunningInv'
  BY DEF Restart, RunningInv
<1>. QED  BY <1>2, <1>3, <1>4 DEF Inv

\* Defaults for record k leave RAM and flash with the same content, or the boot
\* gives up.
LEMMA DefaultsKeepInv ==
    ASSUME Inv, NEW k \in Records, phase = k, NEW f \in FaultType, f.write = faults.write,
           InstallDefaults(k, f), UNCHANGED pending
    PROVE  Inv'
<1>1. /\ ram' \in RamType
      /\ \A j \in Records : ram'[j] = IF j = k THEN "default" ELSE ram[j]
      /\ k = "dynamic" => ram'.cnt = 0
  <2>1. ram' = DefaultRam(k)
    BY DEF InstallDefaults, DefaultRam
  <2>. QED  BY <2>1, DefaultsEffect DEF Inv
<1>2. pending = <<>> /\ pending' = <<>>
  BY DEF Inv, RunningInv, Records
<1>3. CASE phase' = "gave_up" /\ UNCHANGED nvs /\ f.write < MaxWriteFaults
           /\ faults' = [f EXCEPT !.write = @ + 1]
  <2>1. TypeOK'
    BY <1>1, <1>2, <1>3, FaultEffect
       DEF Inv, TypeOK, Phases, FaultType, RamType, Cnt
  <2>. QED  BY <1>2, <1>3, <2>1 DEF Inv, RecordDone, Done, RunningInv
<1>4. CASE nvs' = Written(k, ram') /\ phase' = NextPhase(k) /\ faults' = f
  <2>1. /\ nvs' \in NvsType
        /\ \A j \in Records : nvs'[j] = IF j = k THEN ram'[k] ELSE nvs[j]
        /\ nvs'.cnt = IF k = "dynamic" THEN ram'.cnt ELSE nvs.cnt
    BY <1>1, <1>4, WrittenEffect DEF Inv, TypeOK, NvsType, Cnt, Valid
  <2>2. phase' \in Phases
    BY <1>4 DEF NextPhase, Phases, Records
  <2>3. TypeOK'
    BY <1>1, <1>2, <1>4, <2>1, <2>2 DEF Inv, TypeOK, FaultType, RamType, NvsType, Cnt
  <2>4. ASSUME NEW j \in Records
        PROVE  RecordDone(j)'
    <3>1. CASE j = k
      BY <1>1, <2>1, <3>1 DEF RecordDone, Valid
    <3>2. CASE j # k
      <4>1. Done(j)' => Done(j)
        BY <1>4, <3>2 DEF Done, NextPhase, Records
      <4>2. Done(j) => RecordDone(j) /\ ~Queued(j)
        BY <1>2 DEF Inv, Queued
      <4>. QED  BY <1>1, <1>4, <2>1, <3>2, <4>1, <4>2 DEF RecordDone
    <3>. QED  BY <3>1, <3>2
  <2>5. phase' = "run" => k = "dynamic"
    BY <1>4 DEF NextPhase, Records
  <2>6. RunningInv'
    BY <1>1, <1>2, <2>1, <2>5 DEF RunningInv
  <2>. QED  BY <2>3, <2>4, <2>6 DEF Inv
<1>. QED  BY <1>3, <1>4 DEF InstallDefaults

\* A valid record goes to RAM; the dynamic one with the boot counted.
LEMMA LoadKeepsInv ==
    ASSUME Inv, NEW k \in Records, phase = k, nvs[k] \in Valid, Load(k), UNCHANGED pending
    PROVE  Inv'
<1>1. pending = <<>> /\ pending' = <<>>
  BY DEF Inv, RunningInv, Records
<1>2. /\ ram' \in RamType
      /\ \A j \in Records : ram'[j] = IF j = k THEN nvs[k] ELSE ram[j]
      /\ k = "dynamic" => ram'.cnt = NextCount
  <2>0. ram \in RamType /\ NextCount \in Cnt
    BY CountType DEF Inv, TypeOK, RamType, Cnt
  <2>1. CASE k = "prod"
    BY <2>0, <2>1 DEF Load, RamType, RamContents, Records
  <2>2. CASE k = "config"
    BY <2>0, <2>2 DEF Load, RamType, RamContents, Records
  <2>3. CASE k = "dynamic"
    BY <2>0, <2>3 DEF Load, RamType, RamContents, Records
  <2>. QED  BY <2>1, <2>2, <2>3 DEF Records
<1>3. /\ nvs' \in NvsType
      /\ \A j \in Records : nvs'[j] = nvs[j]
      /\ k = "dynamic" => nvs'.cnt = NextCount \/ nvs'.cnt = nvs.cnt
  <2>0. nvs \in NvsType
    BY DEF Inv, TypeOK, NvsType, Cnt
  <2>1. CASE UNCHANGED nvs
    BY <2>0, <2>1
  <2>2. CASE k = "dynamic" /\ nvs' = Written(k, ram')
    BY <1>2, <2>0, <2>2, WrittenEffect
  <2>. QED  BY <2>1, <2>2 DEF Load, WriteFails
<1>4. faults' \in FaultType /\ phase' \in Phases
  BY FaultEffect DEF Load, WriteFails, Inv, TypeOK, FaultType, NextPhase, Phases, Records
<1>5. TypeOK'
  BY <1>1, <1>2, <1>3, <1>4 DEF Inv, TypeOK, FaultType, RamType, NvsType, Cnt
<1>6. faults'.write = 0 => faults.write = 0
  BY FaultEffect DEF Load, WriteFails, Inv, TypeOK, FaultType
<1>7. ASSUME NEW j \in Records
      PROVE  RecordDone(j)'
  <2>1. CASE j = k
    BY <1>2, <1>3, <2>1 DEF RecordDone
  <2>2. CASE j # k
    <3>1. Done(j)' => Done(j)
      BY <2>2 DEF Load, Done, NextPhase, Records
    <3>2. Done(j) => RecordDone(j) /\ ~Queued(j)
      BY <1>1 DEF Inv, Queued
    <3>. QED  BY <1>2, <1>3, <1>6, <2>2, <3>1, <3>2 DEF RecordDone
  <2>. QED  BY <2>1, <2>2
<1>8. phase' = "run" => k = "dynamic"
  BY DEF Load, NextPhase, Records
<1>9. RunningInv'
  <2>1. CASE k = "dynamic" /\ nvs'.cnt = nvs.cnt
    BY <1>1, <1>2, <1>8, <2>1 DEF RunningInv, NextCount
  <2>2. CASE k = "dynamic" /\ nvs'.cnt = NextCount
    BY <1>1, <1>2, <1>8, <2>2 DEF RunningInv
  <2>. QED  BY <1>1, <1>3, <1>8, <2>1, <2>2 DEF RunningInv
<1>. QED  BY <1>5, <1>7, <1>9 DEF Inv

\* A command changes a RAM copy and queues the record for writing.
LEMMA CommandsKeepInv ==
    ASSUME Inv, Idle, NEW r \in RamType, NEW q \in Seq(Records),
           \A k \in Records : ram[k] # r[k] =>
               r[k] \in Settings /\ \E i \in DOMAIN q : q[i] = k,
           r.cnt = ram.cnt, ram' = r, pending' = q, UNCHANGED <<phase, nvs, faults>>
    PROVE  Inv'
<1>1. TypeOK'
  BY DEF Inv, TypeOK, RamType, Records, Cnt
<1>2. \A k \in Records : ~Queued(k)
  BY DEF Idle, Queued
<1>3. ASSUME NEW k \in Records
      PROVE  RecordDone(k)'
  <2>1. RecordDone(k) /\ Done(k)
    BY DEF Inv, Idle, Done
  <2>2. CASE r[k] = ram[k]
    BY <1>2, <2>1, <2>2 DEF RecordDone, Done
  <2>3. CASE r[k] # ram[k]
    <3>1. r[k] \in Settings /\ Queued(k)'
      BY <2>3 DEF Queued
    <3>. QED  BY <2>1, <3>1 DEF RecordDone, Valid
  <2>. QED  BY <2>2, <2>3
<1>4. RunningInv'
  BY DEF Inv, RunningInv, Idle, NextCount
<1>. QED  BY <1>1, <1>3, <1>4 DEF Inv

\* The next record is written, or its write fails and is counted.
LEMMA WriteKeepsInv ==
    ASSUME Inv, WriteRecord
    PROVE  Inv'
<1>. DEFINE k == Head(pending)
<1>1. /\ pending \in Seq(Records) /\ pending # <<>>
      /\ k \in Records /\ pending' = Tail(pending) /\ pending' \in Seq(Records)
      /\ phase = "run" /\ phase' = "run"
  BY DEF WriteRecord, Inv, RunningInv, TypeOK, Records
<1>2. ASSUME NEW j \in Records, Queued(j), j # k
      PROVE  Queued(j)'
  <2>1. PICK i \in DOMAIN pending : pending[i] = j
    BY <1>2 DEF Queued
  <2>2. i # 1 /\ i - 1 \in DOMAIN Tail(pending) /\ Tail(pending)[i - 1] = pending[i]
    BY <1>1, <1>2, <2>1
  <2>. QED  BY <1>1, <2>1, <2>2 DEF Queued
<1>. HIDE DEF k
<1>3. \A j \in Records : Done(j) /\ RecordDone(j)
  BY <1>1 DEF Inv, Done
<1>4. CASE nvs' = Written(k, ram) /\ UNCHANGED <<faults, ram>>
  <2>1. nvs \in NvsType /\ ram \in RamType /\ ram[k] \in Valid
    BY <1>1, <1>3 DEF Inv, TypeOK, NvsType, RamType, Cnt, RecordDone
  <2>2. /\ nvs' \in NvsType
        /\ \A j \in Records : nvs'[j] = IF j = k THEN ram[k] ELSE nvs[j]
        /\ nvs'.cnt = IF k = "dynamic" THEN ram.cnt ELSE nvs.cnt
    BY <1>1, <1>4, <2>1, WrittenEffect
  <2>3. TypeOK'
    BY <1>1, <1>4, <2>2 DEF Inv, TypeOK, NvsType, Records, Cnt
  <2>4. ASSUME NEW j \in Records
        PROVE  RecordDone(j)'
    <3>1. CASE j = k
      BY <1>4, <2>1, <2>2, <3>1 DEF RecordDone
    <3>2. CASE j # k
      BY <1>2, <1>3, <1>4, <2>2, <3>2 DEF RecordDone
    <3>. QED  BY <3>1, <3>2
  <2>5. RunningInv'
    BY <1>1, <1>4, <2>2 DEF Inv, RunningInv, NextCount
  <2>. QED  BY <2>3, <2>4, <2>5 DEF Inv
<1>5. CASE WriteFails /\ UNCHANGED ram
  <2>1. faults' \in FaultType /\ faults'.write # 0
    BY <1>5, FaultEffect DEF Inv, TypeOK, FaultType, WriteFails
  <2>2. TypeOK'
    BY <1>1, <1>5, <2>1 DEF Inv, TypeOK, WriteFails, Records, FaultType
  <2>3. \A j \in Records : RecordDone(j)'
    BY <1>3, <1>5, <2>1 DEF RecordDone, WriteFails
  <2>4. RunningInv'
    BY <1>1, <1>5 DEF Inv, RunningInv, NextCount, WriteFails
  <2>. QED  BY <2>2, <2>3, <2>4 DEF Inv
<1>. QED  BY <1>4, <1>5 DEF WriteRecord, k

\* Every step preserves the invariant.
LEMMA NextKeepsInv ==
    ASSUME Inv, [Next]_vars
    PROVE  Inv'
<1>0. faults \in FaultType /\ ram \in RamType
  BY DEF Inv, TypeOK, FaultType, RamType, Cnt
<1>1. CASE app_nvs_handler_init
  <2>1. pending = <<>>
    BY <1>1 DEF app_nvs_handler_init, Inv, RunningInv
  <2>2. faults' \in FaultType
    BY <1>0, <1>1, StorageAssumption DEF app_nvs_handler_init, FaultType
  <2>3. TypeOK'
    BY <1>1, <2>2 DEF app_nvs_handler_init, Inv, TypeOK, Phases, FaultType
  <2>. QED  BY <1>1, <2>1, <2>3
            DEF app_nvs_handler_init, Inv, RecordDone, Done, RunningInv
<1>2. CASE VerifyAndLoad
  <2>1. PICK k \in Records : app_storage_verify_and_load(k)
    BY <1>2 DEF VerifyAndLoad, Records
  <2>. QED  BY <1>0, <2>1, LoadKeepsInv, DefaultsKeepInv DEF app_storage_verify_and_load
<1>3. ASSUME NEW k \in Records, ReadFails(k)
      PROVE  Inv'
  <2>. DEFINE f == [faults EXCEPT !.read = @ + 1]
  <2>1. f \in FaultType /\ f.write = faults.write
    BY <1>0, <1>3, StorageAssumption DEF ReadFails, FaultType
  <2>. QED  BY <1>3, <2>1, DefaultsKeepInv DEF ReadFails
<1>4. CASE InitTimeout
  BY <1>0, <1>4, RestartKeepsInv DEF InitTimeout
<1>5. CASE PowerLoss
  <2>1. faults' \in FaultType
    BY <1>0, <1>5, StorageAssumption DEF PowerLoss, FaultType
  <2>. QED  BY <1>5, <2>1, RestartKeepsInv DEF PowerLoss
<1>6. ASSUME NEW v \in Settings, SetProduction(v) \/ SetConfig(v) \/ SetClock(v)
      PROVE  Inv'
  <2>1. CASE SetProduction(v)
    <3>1. [ram EXCEPT !.prod = v] \in RamType
      BY <1>0 DEF RamType, RamContents, Valid
    <3>2. \A k \in Records : ram[k] # ram'[k] => k = "prod" /\ ram'[k] = v
      BY <1>0, <2>1 DEF SetProduction, RamType, Records
    <3>3. ram'.cnt = ram.cnt
      BY <1>0, <2>1 DEF SetProduction, RamType
    <3>. DEFINE q == <<"prod">>
    <3>4. q \in Seq(Records) /\ 1 \in DOMAIN q /\ q[1] = "prod"
      BY DEF Records
    <3>. HIDE DEF q
    <3>5. \A k \in Records : ram[k] # ram'[k] =>
              ram'[k] \in Settings /\ \E i \in DOMAIN q : q[i] = k
      BY <3>2, <3>4
    <3>6. Idle /\ pending' = q /\ ram' \in RamType /\ UNCHANGED <<phase, nvs, faults>>
      BY <2>1, <3>1 DEF SetProduction, q
    <3>. QED  BY <3>3, <3>4, <3>5, <3>6, CommandsKeepInv
  <2>2. CASE SetConfig(v)
    <3>1. [ram EXCEPT !.config = v] \in RamType
      BY <1>0 DEF RamType, RamContents, Valid
    <3>2. \A k \in Records : ram[k] # ram'[k] => k = "config" /\ ram'[k] = v
      BY <1>0, <2>2 DEF SetConfig, RamType, Records
    <3>3. ram'.cnt = ram.cnt
      BY <1>0, <2>2 DEF SetConfig, RamType
    <3>. DEFINE q == <<"config">>
    <3>4. q \in Seq(Records) /\ 1 \in DOMAIN q /\ q[1] = "config"
      BY DEF Records
    <3>. HIDE DEF q
    <3>5. \A k \in Records : ram[k] # ram'[k] =>
              ram'[k] \in Settings /\ \E i \in DOMAIN q : q[i] = k
      BY <3>2, <3>4
    <3>6. Idle /\ pending' = q /\ ram' \in RamType /\ UNCHANGED <<phase, nvs, faults>>
      BY <2>2, <3>1 DEF SetConfig, q
    <3>. QED  BY <3>3, <3>4, <3>5, <3>6, CommandsKeepInv
  <2>3. CASE SetClock(v)
    <3>1. [ram EXCEPT !.config = v, !.dynamic = v] \in RamType
      BY <1>0 DEF RamType, RamContents, Valid
    <3>2. \A k \in Records : ram[k] # ram'[k] => k \in {"config", "dynamic"} /\ ram'[k] = v
      BY <1>0, <2>3 DEF SetClock, RamType, Records
    <3>3. ram'.cnt = ram.cnt
      BY <1>0, <2>3 DEF SetClock, RamType
    <3>. DEFINE q == <<"config", "dynamic">>
    <3>4. q \in Seq(Records) /\ 1 \in DOMAIN q /\ 2 \in DOMAIN q
          /\ q[1] = "config" /\ q[2] = "dynamic"
      BY DEF Records
    <3>. HIDE DEF q
    <3>5. \A k \in Records : ram[k] # ram'[k] =>
              ram'[k] \in Settings /\ \E i \in DOMAIN q : q[i] = k
      BY <3>2, <3>4
    <3>6. Idle /\ pending' = q /\ ram' \in RamType /\ UNCHANGED <<phase, nvs, faults>>
      BY <2>3, <3>1 DEF SetClock, q
    <3>. QED  BY <3>3, <3>4, <3>5, <3>6, CommandsKeepInv
  <2>. QED  BY <1>6, <2>1, <2>2, <2>3
<1>7. CASE StoreCapacity
  <2>1. Idle /\ pending' = <<"dynamic">> /\ UNCHANGED <<phase, nvs, ram, faults>>
    BY <1>7 DEF StoreCapacity
  <2>2. <<"dynamic">> \in Seq(Records)
    BY DEF Records
  <2>. QED  BY <1>0, <2>1, <2>2, CommandsKeepInv
<1>8. CASE WriteRecord
  BY <1>8, WriteKeepsInv
<1>9. CASE SelfRestart
  BY <1>0, <1>9, RestartKeepsInv DEF SelfRestart
<1>10. CASE UNCHANGED vars
  BY <1>10 DEF vars, Inv, TypeOK, RecordDone, Done, Queued, RunningInv, NextCount
<1>. QED
  BY <1>1, <1>2, <1>3, <1>4, <1>5, <1>6, <1>7, <1>8, <1>9, <1>10 DEF Next, Records

\* The invariant holds in every behaviour, from whatever the flash held at first.
THEOREM Invariance == Spec => []Inv
<1>1. Init => Inv
  <2>. SUFFICES ASSUME Init
                PROVE  Inv
    OBVIOUS
  <2>1. {0, CounterValues - 2} \subseteq Cnt
    BY StorageAssumption DEF Cnt
  <2>. QED
    BY <2>1, StorageAssumption
       DEF Init, Inv, TypeOK, RecordDone, Done, RunningInv, Zeroed, Phases, RamContents, Cnt
<1>2. Inv /\ [Next]_vars => Inv'
  BY NextKeepsInv
<1>. QED  BY <1>1, <1>2, PTL DEF Spec

-----------------------------------------------------------------------------
(***************************************************************************)
(* The properties.                                                         *)
(***************************************************************************)

\* Whatever the flash held at first and wherever boots were interrupted, a running
\* tag works on valid records, in RAM and in flash, and what differs between the
\* two is still to be written unless a write failed.
THEOREM RecordsAlwaysConsistent == Spec => []RecordsConsistent
<1>1. Inv => RecordsConsistent
  BY DEF Inv, RecordsConsistent, LoadedValid, SettingsStored, RecordDone, Done, Queued, Records
<1>. QED  BY <1>1, Invariance, PTL

\* What a step can do to the flash: nothing; defaults where the boot found no valid
\* record; the boot counted; or the record that is due, as RAM has it.
LEMMA FlashSteps ==
    ASSUME Inv, [Next]_vars
    PROVE  \/ UNCHANGED nvs
           \/ faults'.read > 0
           \/ \E k \in Records : /\ nvs[k] \notin Valid
                                 /\ nvs' = Written(k, DefaultRam(k))
           \/ /\ ram'.cnt = NextCount /\ ram'.dynamic = nvs.dynamic
              /\ nvs' = Written("dynamic", ram')
           \/ \E k \in Records : phase = "run" /\ nvs' = Written(k, ram)
<1>1. CASE VerifyAndLoad
  <2>1. PICK k \in Records : app_storage_verify_and_load(k)
    BY <1>1 DEF VerifyAndLoad, Records
  <2>2. CASE nvs[k] \in Valid
    <3>1. Load(k)
      BY <2>1, <2>2 DEF app_storage_verify_and_load
    <3>2. k = "dynamic" => ram'.cnt = NextCount /\ ram'.dynamic = nvs.dynamic
      BY <3>1 DEF Load, Inv, TypeOK
    <3>. QED  BY <3>1, <3>2 DEF Load, WriteFails
  <2>3. CASE nvs[k] \notin Valid
    BY <2>1, <2>3 DEF app_storage_verify_and_load, InstallDefaults, DefaultRam
  <2>. QED  BY <2>2, <2>3
<1>2. ASSUME NEW k \in Records, ReadFails(k)
      PROVE  faults'.read > 0
  <2>. DEFINE f == [faults EXCEPT !.read = @ + 1]
  <2>1. f.read = faults.read + 1 /\ faults.read \in Nat
    BY StorageAssumption DEF Inv, TypeOK
  <2>2. faults' = f \/ faults' = [f EXCEPT !.write = @ + 1]
    BY <1>2 DEF ReadFails, InstallDefaults
  <2>3. faults'.read = f.read
    BY <2>2 DEF Inv, TypeOK
  <2>. QED  BY <2>1, <2>3
<1>3. CASE WriteRecord
  <2>1. phase = "run" /\ Head(pending) \in Records
    BY <1>3 DEF WriteRecord, Inv, RunningInv, TypeOK, Records
  <2>. QED  BY <1>3, <2>1 DEF WriteRecord, WriteFails
<1>4. CASE \/ app_nvs_handler_init \/ InitTimeout \/ PowerLoss \/ StoreCapacity
           \/ SelfRestart \/ UNCHANGED vars
           \/ \E v \in Settings : SetProduction(v) \/ SetConfig(v) \/ SetClock(v)
  BY <1>4 DEF app_nvs_handler_init, InitTimeout, PowerLoss, StoreCapacity, SelfRestart,
              Restart, vars, SetProduction, SetConfig, SetClock
<1>. QED  BY <1>1, <1>2, <1>3, <1>4 DEF Next, Records

\* As long as good records can be read, no power loss and no failing write turns a
\* setting in flash back into a default.
THEOREM SettingsAlwaysKept == Spec => SettingsKept
<1>1. Inv /\ [Next]_vars =>
        [ faults'.read = 0 =>
            \A k \in {"prod", "config", "dynamic"} :
                nvs[k] \in Settings => nvs'[k] \in Settings ]_vars
  <2>. SUFFICES ASSUME Inv, [Next]_vars, faults'.read = 0,
                       NEW k \in Records, nvs[k] \in Settings
                PROVE  nvs'[k] \in Settings
    BY DEF Records
  <2>0. nvs \in NvsType /\ ram \in RamType /\ ram' \in RamType
    BY NextKeepsInv DEF Inv, TypeOK, NvsType, RamType, Cnt
  <2>1. CASE UNCHANGED nvs
    BY <2>1
  <2>2. ASSUME NEW j \in Records, nvs[j] \notin Valid, nvs' = Written(j, DefaultRam(j))
        PROVE  nvs'[k] \in Settings
    <3>1. k # j
      BY <2>2 DEF Valid
    <3>2. DefaultRam(j) \in RamType /\ DefaultRam(j)[j] \in Valid
      BY DefaultsEffect DEF Inv, Valid
    <3>. QED  BY <2>0, <2>2, <3>1, <3>2, WrittenEffect
  <2>3. CASE ram'.dynamic = nvs.dynamic /\ nvs' = Written("dynamic", ram')
    <3>1. CASE k = "dynamic"
      BY <2>0, <2>3, <3>1 DEF Written, NvsType
    <3>2. CASE k # "dynamic"
      BY <2>0, <2>3, <3>2 DEF Written, NvsType, Records
    <3>. QED  BY <3>1, <3>2
  <2>4. ASSUME NEW j \in Records, phase = "run", nvs' = Written(j, ram)
        PROVE  nvs'[k] \in Settings
    <3>1. ram[j] \in Valid /\ (nvs[j] \in Settings => ram[j] \in Settings)
      BY <2>4 DEF Inv, RecordDone, Done
    <3>. QED  BY <2>0, <2>4, <3>1, WrittenEffect
  <2>5. ~(faults'.read > 0)
    OBVIOUS
  <2>. QED  BY <2>1, <2>2, <2>3, <2>4, <2>5, FlashSteps
<1>. QED  BY <1>1, Invariance, PTL DEF Spec, SettingsKept

\* The stored boot counter stays or goes up by one modulo its width, whichever
\* module writes the record it is kept in.
THEOREM CounterNeverBack == Spec => CounterNeverGoesBack
<1>1. Inv /\ [Next]_vars =>
        [ nvs.dynamic \in Valid /\ faults'.read = 0 =>
            nvs'.cnt \in {nvs.cnt, (nvs.cnt + 1) % CounterValues} ]_vars
  <2>. SUFFICES ASSUME Inv, [Next]_vars, faults'.read = 0, nvs.dynamic \in Valid
                PROVE  nvs'.cnt \in {nvs.cnt, NextCount}
    BY DEF NextCount
  <2>0. nvs \in NvsType /\ ram \in RamType
    BY DEF Inv, TypeOK, NvsType, RamType, Cnt
  <2>1. CASE UNCHANGED nvs
    BY <2>1
  <2>2. ASSUME NEW j \in Records, nvs[j] \notin Valid, nvs' = Written(j, DefaultRam(j))
        PROVE  nvs'.cnt = nvs.cnt
    <3>1. j # "dynamic"
      BY <2>2
    <3>2. DefaultRam(j) \in RamType /\ DefaultRam(j)[j] \in Valid
      BY DefaultsEffect DEF Inv, Valid
    <3>. QED  BY <2>0, <2>2, <3>1, <3>2, WrittenEffect
  <2>3. CASE ram'.cnt = NextCount /\ nvs' = Written("dynamic", ram')
    BY <2>0, <2>3 DEF Written, NvsType
  <2>4. ASSUME NEW j \in Records, phase = "run", nvs' = Written(j, ram)
        PROVE  nvs'.cnt \in {nvs.cnt, NextCount}
    <3>1. ram[j] \in Valid /\ ram.cnt \in {nvs.cnt, NextCount}
      BY <2>4 DEF Inv, RecordDone, Done, RunningInv
    <3>. QED  BY <2>0, <2>4, <3>1, WrittenEffect
  <2>5. ~(faults'.read > 0)
    OBVIOUS
  <2>. QED  BY <2>1, <2>2, <2>3, <2>4, <2>5, FlashSteps
<1>. QED  BY <1>1, Invariance, PTL DEF Spec, CounterNeverGoesBack

=============================================================================
