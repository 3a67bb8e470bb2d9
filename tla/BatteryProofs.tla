---------------------------- MODULE BatteryProofs ----------------------------
(***************************************************************************)
(* Proofs about Battery: for every capacity, voltage and consumption of    *)
(* less than a percent per hour, and any number of hours, resets and       *)
(* failing calls.                                                          *)
(***************************************************************************)
EXTENDS Battery, TLAPS

-----------------------------------------------------------------------------
(***************************************************************************)
(* The inductive invariant.                                                *)
(***************************************************************************)

Cap == bat.f32_RemainingBatCap

Last == bat.gu8_LastActBasedBattPercent

\* What init made due is taken in order, and until the activity work has run nothing is
\* polled, so that the percentage of the capacity is known by then.
PollInv ==
    /\ phase = "off" => ~hist.polled
    /\ phase # "off" =>
          \/ queue = Launched /\ ~hist.polled /\ Last = 0
          \/ queue \in {<<>>, <<"poll">>} /\ bat.gu8_ActBasedBattPercent = ActPercent(Cap)
             /\ Last = ActPercent(Cap)

\* The stored capacity is above the current one by a percent for every write that failed,
\* a percent that is not over, and the first hour, whose percentage may be 0 as well.
CloseInv ==
    phase = "run" =>
        /\ Cap <= nvs
        /\ \/ Cap = nvs /\ Last = 0
           \/ nvs * 100 < (Last + 1 + hist.faults) * FullCapacity + Consumption * 100

\* The work that stores the capacity has one that only hours have taken from, or the 0 of a
\* boot that gave up before the record, which it does not store.
HonestInv ==
    /\ StoredCapacityHonest
    /\ phase # "off" => \/ Cap = 0 /\ Last = 0
                        \/ hist.start - Cap <= hist.hours * Consumption
    /\ ~hist.misread => Cap <= hist.start

\* Without failing calls the controller has what the RAM copy says, and after a poll that
\* is the last measurement.
FrameInv ==
    phase = "run" /\ hist.faults = 0 =>
        /\ frame.sent = frame.ram
        /\ hist.polled => /\ frame.ram.level = bat.battery_charge
                          /\ frame.ram.field = VoltageField(hist.mV)

Inv ==
    /\ TypeOK
    /\ PollInv
    /\ CloseInv
    /\ HonestInv
    /\ FrameInv
    /\ FmdnLevelKept
    /\ HealthyCellAnnounced

-----------------------------------------------------------------------------
(***************************************************************************)
(* Arithmetic and the estimates.                                           *)
(***************************************************************************)

\* A product grows with its factors.
LEMMA Product ==
    ASSUME NEW f \in Nat, NEW a \in Int, NEW b \in Int, a <= b
    PROVE  a * f <= b * f
<1>1. b - a \in Nat
  OBVIOUS
<1>2. \A d \in Nat : d * f >= 0
  OBVIOUS
<1>3. (b - a) * f >= 0
  BY <1>1, <1>2
<1>4. (b - a) * f = b * f - a * f
  OBVIOUS
<1>. QED  BY <1>3, <1>4

\* Quotient and remainder.
LEMMA Division ==
    ASSUME NEW a \in Int, NEW b \in Nat \ {0}
    PROVE  a \div b \in Int /\ a % b \in 0..(b - 1) /\ a = (a \div b) * b + (a % b)
OBVIOUS

\* The percentage of a capacity is what the capacity has, rounded down.
LEMMA Percentage ==
    ASSUME NEW cap \in 0..FullCapacity
    PROVE  /\ ActPercent(cap) \in 0..100
           /\ ActPercent(cap) * FullCapacity \in Nat
           /\ ActPercent(cap) * FullCapacity <= cap * 100
           /\ cap * 100 < ActPercent(cap) * FullCapacity + FullCapacity
<1>. DEFINE f == FullCapacity
            q == ActPercent(cap)
            r == (cap * 100) % f
            t == q * f
<1>1. f \in Nat \ {0} /\ cap \in 0..f
  BY BatteryAssumption
<1>. HIDE DEF f
<1>2. q \in Int /\ r \in 0..(f - 1) /\ cap * 100 = q * f + r
  <2>1. cap * 100 \in Int
    BY <1>1
  <2>. QED  BY <1>1, <2>1, Division DEF ActPercent, f
<1>. HIDE DEF q, r
<1>3. t \in Int /\ cap * 100 = t + r
  BY <1>1, <1>2
<1>4. q >= 0
  <2>. SUFFICES ASSUME q <= 0 - 1 PROVE FALSE
    BY <1>2
  <2>1. t <= (0 - 1) * f
    BY <1>1, <1>2, Product
  <2>2. (0 - 1) * f = 0 - f
    BY <1>1
  <2>. HIDE DEF t
  <2>. QED  BY <1>1, <1>2, <1>3, <2>1, <2>2
<1>5. q <= 100
  <2>. SUFFICES ASSUME 101 <= q PROVE FALSE
    BY <1>2
  <2>1. 101 * f <= t
    BY <1>1, <1>2, Product
  <2>. HIDE DEF t
  <2>. QED  BY <1>1, <1>2, <1>3, <2>1
<1>6. t \in Nat
  <2>1. 0 * f <= t
    BY <1>1, <1>2, <1>4, Product
  <2>. HIDE DEF t
  <2>. QED  BY <1>1, <1>3, <2>1
<1>7. t <= cap * 100 /\ cap * 100 < t + f
  <2>. HIDE DEF t
  <2>. QED  BY <1>1, <1>2, <1>3
<1>8. q \in 0..100 /\ q * f \in Nat /\ q * f <= cap * 100 /\ cap * 100 < q * f + f
  BY <1>2, <1>4, <1>5, <1>6, <1>7
<1>. QED  BY <1>8, Zenon DEF q, f

\* Less capacity is no more percent.
LEMMA PercentageMonotone ==
    ASSUME NEW a \in 0..FullCapacity, NEW b \in 0..FullCapacity, a <= b
    PROVE  ActPercent(a) <= ActPercent(b)
<1>. DEFINE f == FullCapacity
            p == ActPercent(a)
            q == ActPercent(b)
<1>1. f \in Nat \ {0} /\ a \in 0..f /\ b \in 0..f
  BY BatteryAssumption
<1>2. p \in 0..100 /\ p * f \in Nat /\ p * f <= a * 100
  BY Percentage
<1>3. q \in 0..100 /\ q * f \in Nat /\ b * 100 < q * f + f
  BY Percentage
<1>. HIDE DEF f, p, q
<1>. SUFFICES ASSUME q + 1 <= p PROVE FALSE
  BY <1>2, <1>3 DEF p, q
<1>4. (q + 1) * f <= p * f
  BY <1>1, <1>2, <1>3, Product
<1>5. (q + 1) * f = q * f + f
  BY <1>1, <1>3
<1>. QED  BY <1>1, <1>2, <1>3, <1>4, <1>5

\* The table has an entry for every voltage.
LEMMA TableTyped ==
    ASSUME NEW mV \in Nat
    PROVE  gu8_Volt2PercentTable(mV) \in 0..100
<1>. DEFINE reached == {i \in 1..15 : mV >= VoltTable[i]}
            top == IF mV >= 3390 THEN 15 ELSE (mV - 2865) \div 35
<1>1. \A i \in 1..15 : VoltTable[i] = 2865 + 35 * i
  BY DEF VoltTable
<1>2. CASE reached = {}
  BY <1>2 DEF gu8_Volt2PercentTable
<1>3. CASE reached # {}
  <2>1. mV >= 2900
    BY <1>1, <1>3
  <2>2. top \in reached /\ \A j \in reached : top >= j
    BY <1>1, <2>1
  <2>. HIDE DEF top, reached
  <2>3. Max(reached) \in reached
    BY <2>2 DEF Max
  <2>4. Max(reached) \in 1..15
    BY <2>3 DEF reached
  <2>5. gu8_Volt2PercentTable(mV) = PergTable[Max(reached)]
    BY <1>3 DEF gu8_Volt2PercentTable, reached
  <2>. HIDE DEF reached
  <2>. QED  BY <2>4, <2>5 DEF PergTable
<1>. QED  BY <1>2, <1>3

\* The combined estimate is a percentage.
LEMMA ConvertTyped ==
    ASSUME NEW mV \in Nat, NEW act \in 0..100
    PROVE  voltage_to_percent_convert(mV, act) \in 0..100
BY TableTyped DEF voltage_to_percent_convert

\* The four bits of the voltage.
LEMMA FieldTyped ==
    ASSUME NEW mV \in Nat
    PROVE  /\ VoltageField(mV) \in {4 * k : k \in 0..15}
           /\ 1800 <= mV /\ mV < 3400 => 18 + VoltageField(mV) \div 4 = mV \div 100
<1>. DEFINE k == ((mV \div 100) - 18) % 16
<1>1. k \in 0..15 /\ VoltageField(mV) = k * 4
  BY DEF VoltageField
<1>2. 1800 <= mV /\ mV < 3400 => 18 + k = mV \div 100
  OBVIOUS
<1>. HIDE DEF k
<1>3. VoltageField(mV) = 4 * k /\ VoltageField(mV) \div 4 = k
  BY <1>1
<1>. QED  BY <1>1, <1>2, <1>3

-----------------------------------------------------------------------------
(***************************************************************************)
(* Types, and what the operations do.                                      *)
(***************************************************************************)

Percent == 0..100

Level == Percent \union {255}

Capacity == 0..FullCapacity

Fields == {4 * k : k \in 0..15}

BatType == [
    f32_RemainingBatCap         : Capacity,
    gu8_ActBasedBattPercent     : Percent,
    gu8_LastActBasedBattPercent : Percent,
    battery_charge              : Percent,
    battery_level               : Level,
    level_set_work              : BOOLEAN ]

PayloadType == [level : Percent, field : Fields]

FrameType == [ram : PayloadType, sent : PayloadType]

Hours == 0..MaxHours

Faults == 0..MaxFaults

HistType == [start : Capacity, hours : Hours, mV : Uint16, polled : BOOLEAN,
             misread : BOOLEAN, faults : Faults]

Phases == {"off", "failed", "stuck", "run"}

\* TypeOK, with its ranges named.
LEMMA Types ==
    TypeOK <=> /\ phase \in Phases /\ queue \in Seq(Works)
               /\ bat \in BatType /\ frame \in FrameType /\ fmdn \in Level
               /\ nvs \in Capacity /\ hist \in HistType
BY DEF TypeOK, BatteryState, BatType, Payload, PayloadType, FrameType, Percent, Level, Capacity,
       Fields, HistType, Hours, Faults, Phases

\* The same of the next state.
LEMMA TypesNext ==
    TypeOK' <=> /\ phase' \in Phases /\ queue' \in Seq(Works)
                /\ bat' \in BatType /\ frame' \in FrameType /\ fmdn' \in Level
                /\ nvs' \in Capacity /\ hist' \in HistType
BY DEF TypeOK, BatteryState, BatType, Payload, PayloadType, FrameType, Percent, Level, Capacity,
       Fields, HistType, Hours, Faults, Phases

\* Numbers.
LEMMA Ranges ==
    /\ 0 \in Percent /\ 255 \in Level /\ Percent \subseteq Level /\ 0 \in Capacity
    /\ Percent \subseteq Nat /\ Capacity \subseteq Nat /\ Hours \subseteq Nat /\ Faults \subseteq Nat
    /\ Uint16 \subseteq Nat /\ Voltages \subseteq Uint16 /\ 0 \in Uint16
    /\ 0 \in Hours /\ 0 \in Faults /\ Cleared \in PayloadType
    /\ FullCapacity \in Nat \ {0} /\ Consumption \in Nat \ {0}
    /\ Consumption * 100 <= FullCapacity /\ MaxHours \in Nat /\ MaxFaults \in Nat
<1>1. 0 \in Percent /\ 255 \in Level /\ Percent \subseteq Level /\ Percent \subseteq Nat
  BY DEF Percent, Level
<1>2. /\ FullCapacity \in Nat \ {0} /\ Consumption \in Nat \ {0}
      /\ Consumption * 100 <= FullCapacity /\ MaxHours \in Nat /\ MaxFaults \in Nat
  BY BatteryAssumption, CapacityAssumption
<1>3. 0 \in Capacity /\ 0 \in Hours /\ 0 \in Faults
      /\ Capacity \subseteq Nat /\ Hours \subseteq Nat /\ Faults \subseteq Nat
  BY <1>2 DEF Capacity, Hours, Faults
<1>4. Uint16 \subseteq Nat /\ Voltages \subseteq Uint16 /\ 0 \in Uint16
  BY BatteryAssumption DEF Uint16
<1>5. Cleared \in PayloadType
  <2>1. 0 \in Fields
    BY DEF Fields
  <2>. QED  BY <1>1, <2>1 DEF Cleared, PayloadType
<1>. QED  BY <1>1, <1>2, <1>3, <1>4, <1>5

\* The same lemmas, with the ranges named.
LEMMA Estimates ==
    /\ \A cap \in Capacity : ActPercent(cap) \in Percent
    /\ \A mV \in Uint16 : \A act \in Percent : voltage_to_percent_convert(mV, act) \in Percent
    /\ \A mV \in Uint16 : VoltageField(mV) \in Fields
    /\ ActPercent(0) = 0
<1>1. \A cap \in Capacity : ActPercent(cap) \in Percent
  BY Percentage DEF Capacity, Percent
<1>2. \A mV \in Uint16 : \A act \in Percent : voltage_to_percent_convert(mV, act) \in Percent
  BY ConvertTyped, Ranges DEF Percent
<1>3. \A mV \in Uint16 : VoltageField(mV) \in Fields
  BY FieldTyped, Ranges DEF Fields
<1>4. ActPercent(0) = 0
  BY Ranges DEF ActPercent
<1>. QED  BY <1>1, <1>2, <1>3, <1>4

\* A call that may fail: what it leaves.
LEMMA UpdateEffect ==
    ASSUME NEW f \in FrameType, NEW new \in PayloadType, NEW exists \in BOOLEAN,
           NEW o \in UpdatePayload(f, new, exists)
    PROVE  /\ o[1] \in FrameType /\ o[2] \in {0, 1} /\ o[1].ram = new
           /\ exists /\ o[2] = 0 /\ f.sent = f.ram => o[1].sent = new
<1>. DEFINE a == [ram |-> new, sent |-> new]
            b == [f EXCEPT !.ram = new]
<1>1. a \in FrameType /\ a.ram = new /\ a.sent = new
  BY DEF FrameType
<1>2. b \in FrameType /\ b.ram = new
  BY DEF FrameType
<1>3. CASE f.ram = new
  <2>1. o = <<f, 0>>
    BY <1>3 DEF UpdatePayload
  <2>. QED  BY <1>3, <2>1
<1>4. CASE f.ram # new /\ ~exists
  <2>1. o = <<b, 0>>
    BY <1>4 DEF UpdatePayload
  <2>. HIDE DEF b
  <2>. QED  BY <1>2, <1>4, <2>1
<1>5. CASE f.ram # new /\ exists
  <2>1. o = <<a, 0>> \/ o = <<b, 1>>
    BY <1>5 DEF UpdatePayload
  <2>. HIDE DEF a, b
  <2>. QED  BY <1>1, <1>2, <2>1
<1>. QED  BY <1>3, <1>4, <1>5

\* battery_measure leaves the measurement in the RAM copy, and on the air unless a call
\* failed.
LEMMA MeasureEffect ==
    ASSUME NEW f \in FrameType, NEW mV \in Uint16, NEW charge \in Percent, NEW exists \in BOOLEAN,
           NEW o \in MeasuredFrames(f, mV, charge, exists)
    PROVE  /\ o[1] \in FrameType /\ o[2] \in {0, 1, 2}
           /\ o[1].ram.level = charge /\ o[1].ram.field = VoltageField(mV)
           /\ exists /\ o[2] = 0 /\ f.sent = f.ram => o[1].sent = o[1].ram
<1>. DEFINE n == VoltageField(mV)
            first == UpdatePayload(f, [f.ram EXCEPT !.field = n], exists)
            new(v) == [v[1].ram EXCEPT !.level = charge]
<1>1. n \in Fields
  BY Estimates
<1>. HIDE DEF n
<1>2. PICK v \in first : \E l \in UpdatePayload(v[1], new(v), exists) : o = <<l[1], v[2] + l[2]>>
  BY DEF MeasuredFrames, n
<1>3. PICK l \in UpdatePayload(v[1], new(v), exists) : o = <<l[1], v[2] + l[2]>>
  BY <1>2
<1>. DEFINE a == [f.ram EXCEPT !.field = n]
<1>4. a \in PayloadType /\ a.field = n
  BY <1>1 DEF PayloadType, FrameType
<1>5. v \in UpdatePayload(f, a, exists)
  OBVIOUS
<1>. HIDE DEF a
<1>6. /\ v[1] \in FrameType /\ v[2] \in {0, 1} /\ v[1].ram = a
      /\ exists /\ v[2] = 0 /\ f.sent = f.ram => v[1].sent = a
  BY <1>4, <1>5, UpdateEffect
<1>. DEFINE b == [v[1].ram EXCEPT !.level = charge]
<1>7. b \in PayloadType /\ b.field = n /\ b.level = charge
  BY <1>4, <1>6 DEF PayloadType
<1>8. l \in UpdatePayload(v[1], b, exists)
  BY <1>3
<1>. HIDE DEF b
<1>9. /\ l[1] \in FrameType /\ l[2] \in {0, 1} /\ l[1].ram = b
      /\ exists /\ l[2] = 0 /\ v[1].sent = v[1].ram => l[1].sent = b
  BY <1>6, <1>7, <1>8, UpdateEffect
<1>10. /\ o[1] = l[1] /\ o[2] \in {0, 1, 2} /\ (o[2] = 0 => v[2] = 0 /\ l[2] = 0)
  BY <1>3, <1>6, <1>9
<1>. QED  BY <1>6, <1>7, <1>9, <1>10 DEF n

-----------------------------------------------------------------------------
(***************************************************************************)
(* Each action keeps the invariant.                                        *)
(***************************************************************************)

\* A call that fails leaves the capacities as close as they have to be.
LEMMA CloseKept ==
    ASSUME Inv, phase' = phase, nvs' = nvs, Cap' = Cap, Last' = Last,
           hist'.faults \in Nat, hist.faults <= hist'.faults
    PROVE  CloseInv'
<1>. DEFINE a == (Last + 1 + hist.faults) * FullCapacity
            b == (Last + 1 + hist'.faults) * FullCapacity
<1>1. /\ nvs \in Nat /\ Last \in Nat /\ hist.faults \in Nat
      /\ FullCapacity \in Nat /\ Consumption \in Nat
  BY Types, Ranges DEF Inv, BatType, HistType, Last
<1>2. a \in Int /\ b \in Int /\ a <= b
  BY <1>1, Product
<1>3. phase = "run" => Cap <= nvs /\ ((Cap = nvs /\ Last = 0)
                                    \/ nvs * 100 < a + Consumption * 100)
  BY DEF Inv, CloseInv
<1>. HIDE DEF a, b
<1>4. nvs * 100 < a + Consumption * 100 => nvs * 100 < b + Consumption * 100
  BY <1>1, <1>2
<1>. QED  BY <1>3, <1>4, Zenon DEF CloseInv, b

\* What a boot does: to the capacities, and to the rest.
Booted ==
    /\ bat' \in BatType /\ frame' \in FrameType /\ hist' \in HistType
    /\ fmdn' \in Level /\ nvs' \in Capacity /\ phase' \in Phases
    /\ queue' = Launched /\ phase' # "off"
    /\ frame'.sent = Cleared /\ (phase' = "run" => frame'.ram = Cleared)
    /\ bat'.battery_level = fmdn' /\ Last' = 0
    /\ hist'.start = hist.start /\ hist'.hours = hist.hours /\ hist'.polled = FALSE
    /\ ~hist'.misread => ~hist.misread /\ nvs' = nvs /\ Cap' \in {0, nvs}
    /\ phase' = "run" => Cap' = nvs'
    /\ nvs' \in {nvs, FullCapacity} /\ Cap' \in {0, nvs, FullCapacity}

\* Every boot does, whichever way it ends.
LEMMA BootEffect ==
    ASSUME Inv, NEW mV \in Voltages, NEW done \in BOOLEAN, Boot(mV, done)
    PROVE  Booted
<1>. DEFINE charge == voltage_to_percent_convert(mV, BatteryBoot.gu8_ActBasedBattPercent)
            measured == [level |-> charge, field |-> VoltageField(mV)]
<1>1. nvs \in Capacity /\ hist \in HistType /\ FullCapacity \in Capacity
  BY Types, Ranges DEF Inv, Capacity
<1>2. mV \in Uint16 /\ charge \in Percent /\ VoltageField(mV) \in Fields
  BY Ranges, Estimates DEF BatteryBoot
<1>. DEFINE count(l) == hist.faults + l.failed + (IF l.loaded /\ ~done THEN 1 ELSE 0)
<1>3. PICK l \in LoadOutcomes : \E e \in Ends(done, l.loaded, measured) :
          /\ done => l.loaded
          /\ count(l) <= MaxFaults
          /\ phase' = e[1]
          /\ frame' = [ram |-> e[2], sent |-> Cleared]
          /\ bat' = [BatteryBoot EXCEPT !.battery_charge = charge, !.battery_level = charge,
                                        !.f32_RemainingBatCap = l.cap]
          /\ nvs' = l.nvs
          /\ hist' = [hist EXCEPT !.mV = mV, !.polled = FALSE, !.faults = count(l),
                                  !.misread = @ \/ l.misread]
  BY DEF Boot
<1>4. /\ queue' = Launched /\ fmdn' = charge
  BY DEF Boot
<1>. HIDE DEF charge
<1>5. measured \in PayloadType
  BY <1>2 DEF PayloadType
<1>. HIDE DEF measured
<1>6. PICK e \in Ends(done, l.loaded, measured) :
          /\ done => l.loaded
          /\ count(l) <= MaxFaults
          /\ phase' = e[1]
          /\ frame' = [ram |-> e[2], sent |-> Cleared]
          /\ bat' = [BatteryBoot EXCEPT !.battery_charge = charge, !.battery_level = charge,
                                        !.f32_RemainingBatCap = l.cap]
          /\ nvs' = l.nvs
          /\ hist' = [hist EXCEPT !.mV = mV, !.polled = FALSE, !.faults = count(l),
                                  !.misread = @ \/ l.misread]
  BY <1>3
<1>7. /\ l.cap \in Capacity /\ l.nvs \in Capacity
      /\ l.loaded \in BOOLEAN /\ l.misread \in BOOLEAN /\ l.failed \in {0, 1, 2}
      /\ l.loaded => l.cap = l.nvs
      /\ ~l.misread => l.nvs = nvs /\ l.cap \in {0, nvs}
      /\ l.nvs \in {nvs, FullCapacity} /\ l.cap \in {0, nvs, FullCapacity}
  <2>1. CASE l = [cap |-> 0, nvs |-> nvs, loaded |-> FALSE, misread |-> FALSE, failed |-> 1]
    BY <1>1, <2>1, Ranges
  <2>2. CASE l = [cap |-> nvs, nvs |-> nvs, loaded |-> TRUE, misread |-> FALSE, failed |-> 0]
    BY <1>1, <2>2
  <2>3. CASE l = [cap |-> FullCapacity, nvs |-> FullCapacity, loaded |-> TRUE,
                  misread |-> TRUE, failed |-> 1]
    BY <1>1, <2>3
  <2>4. CASE l = [cap |-> FullCapacity, nvs |-> nvs, loaded |-> FALSE, misread |-> TRUE,
                  failed |-> 2]
    BY <1>1, <2>4
  <2>. QED  BY <2>1, <2>2, <2>3, <2>4 DEF LoadOutcomes
<1>8. /\ e[1] \in Phases /\ e[1] # "off" /\ e[2] \in PayloadType
      /\ e[1] = "run" => e[2] = Cleared /\ done
  <2>1. CASE done
    <3>1. e = <<"run", Cleared>>
      BY <2>1 DEF Ends
    <3>. QED  BY <2>1, <3>1, Ranges DEF Phases
  <2>2. CASE ~done
    <3>1. e = <<"failed", measured>> \/ e \in {"failed", "stuck"} \X {Cleared}
      BY <1>6, <2>2 DEF Ends
    <3>2. CASE e = <<"failed", measured>>
      BY <1>5, <3>2 DEF Phases
    <3>3. CASE e \in {"failed", "stuck"} \X {Cleared}
      <4>1. e[1] \in {"failed", "stuck"} /\ e[2] = Cleared
        BY <3>3
      <4>. QED  BY <4>1, Ranges DEF Phases
    <3>. QED  BY <3>1, <3>2, <3>3
  <2>. QED  BY <2>1, <2>2
<1>. DEFINE faults == count(l)
            misread == hist.misread \/ l.misread
<1>9. faults \in Faults /\ misread \in BOOLEAN
  <2>. DEFINE more == IF l.loaded /\ ~done THEN 1 ELSE 0
  <2>1. more \in {0, 1} /\ hist.faults \in Nat
    BY <1>1, Ranges DEF HistType
  <2>2. faults = hist.faults + l.failed + more /\ faults <= MaxFaults
    BY <1>6
  <2>. HIDE DEF more, faults
  <2>3. faults \in Faults
    BY <1>7, <2>1, <2>2, Ranges DEF Faults
  <2>. QED  BY <2>3
<1>10. hist' = [hist EXCEPT !.mV = mV, !.polled = FALSE, !.faults = faults, !.misread = misread]
  BY <1>6
<1>. HIDE DEF faults, count
<1>11. /\ hist' \in HistType /\ hist'.polled = FALSE /\ hist'.start = hist.start
       /\ hist'.hours = hist.hours /\ hist'.misread = misread
  <2>. HIDE DEF misread
  <2>. QED  BY <1>1, <1>2, <1>9, <1>10 DEF HistType
<1>12. /\ bat' \in BatType /\ Cap' = l.cap /\ Last' = 0 /\ bat'.battery_level = charge
  BY <1>2, <1>6, <1>7, Ranges DEF BatteryBoot, BatType, Cap, Last
<1>13. frame' \in FrameType /\ frame'.sent = Cleared /\ frame'.ram = e[2]
  BY <1>6, <1>8, Ranges DEF FrameType
<1>14. fmdn' \in Level
  BY <1>2, <1>4, Ranges
<1>15. ~hist'.misread => ~hist.misread /\ ~l.misread
  BY <1>1, <1>7, <1>11 DEF HistType
<1>. QED  BY <1>4, <1>6, <1>7, <1>8, <1>11, <1>12, <1>13, <1>14, <1>15 DEF Booted

\* A tag boots with the capacity of the record or with the default one, or gives up with one of
\* them or none.
LEMMA BootKeepsInv ==
    ASSUME Inv, NEW mV \in Voltages, NEW done \in BOOLEAN, Boot(mV, done)
    PROVE  Inv'
<1>. Booted
  BY BootEffect
<1>1. /\ nvs \in Capacity /\ hist \in HistType /\ nvs \in Nat /\ hist.start \in Nat
      /\ hist.start <= FullCapacity
  BY Types, Ranges DEF Inv, HistType, Capacity
<1>2. TypeOK'
  <2>1. queue' \in Seq(Works)
    BY DEF Booted, Launched, Works
  <2>. QED  BY <2>1, TypesNext DEF Booted
<1>3. PollInv'
  BY Zenon DEF Booted, PollInv
<1>4. CloseInv'
  <2>1. nvs' \in Nat
    BY Ranges DEF Booted
  <2>2. Cap' = nvs' => Cap' <= nvs'
    BY <2>1
  <2>3. phase' = "run" => Cap' = nvs' /\ Last' = 0
    BY DEF Booted
  <2>. QED  BY <2>2, <2>3, Zenon DEF CloseInv
<1>5. HonestInv'
  <2>. DEFINE taken == hist.hours * Consumption
  <2>1. taken \in Nat
    <3>1. hist.hours \in Nat /\ Consumption \in Nat
      BY <1>1, Ranges DEF HistType
    <3>. QED  BY <3>1
  <2>2. hist'.hours * Consumption = taken /\ hist'.start = hist.start
    BY DEF Booted
  <2>3. hist.start - nvs <= taken /\ (~hist.misread => nvs <= hist.start)
    BY DEF Inv, HonestInv, StoredCapacityHonest
  <2>. HIDE DEF taken
  <2>4. hist.start - FullCapacity <= taken
    BY <1>1, <2>1, Ranges
  <2>5. hist.start - nvs' <= taken
    BY <2>3, <2>4 DEF Booted
  <2>6. Cap' = 0 \/ hist.start - Cap' <= taken
    BY <2>3, <2>4 DEF Booted
  <2>7. ~hist'.misread => nvs' <= hist.start /\ Cap' <= hist.start
    <3>1. 0 <= hist.start
      BY <1>1
    <3>. QED  BY <2>3, <3>1 DEF Booted
  <2>8. Last' = 0
    BY DEF Booted
  <2>. QED  BY <2>2, <2>5, <2>6, <2>7, <2>8, Zenon DEF HonestInv, StoredCapacityHonest
<1>6. FrameInv'
  BY DEF Booted, FrameInv
<1>7. FmdnLevelKept' /\ HealthyCellAnnounced'
  BY DEF Booted, FmdnLevelKept, HealthyCellAnnounced
<1>. QED  BY <1>2, <1>3, <1>4, <1>5, <1>6, <1>7 DEF Inv

\* A boot that fails early changes nothing.
LEMMA BootFailsKeepsInv ==
    ASSUME Inv, BootFails
    PROVE  Inv'
<1>. DEFINE count == hist.faults + 1
<1>1. /\ queue \in Seq(Works) /\ bat \in BatType /\ nvs \in Capacity /\ hist \in HistType
      /\ frame \in FrameType /\ fmdn \in Level /\ phase = "off" /\ hist.faults < MaxFaults
  BY Types DEF Inv, BootFails
<1>2. count \in Faults
  BY <1>1, Ranges DEF HistType, Faults
<1>3. hist' = [hist EXCEPT !.faults = count] /\ UNCHANGED <<phase, queue, bat, frame, fmdn, nvs>>
  BY DEF BootFails
<1>. HIDE DEF count
<1>4. /\ hist' \in HistType /\ hist'.polled = hist.polled /\ hist'.start = hist.start
      /\ hist'.misread = hist.misread /\ hist'.hours = hist.hours /\ hist'.mV = hist.mV
  BY <1>1, <1>2, <1>3 DEF HistType
<1>5. TypeOK'
  BY <1>1, <1>3, <1>4, TypesNext DEF Phases
<1>6. PollInv' /\ FmdnLevelKept' /\ CloseInv' /\ FrameInv'
  BY <1>1, <1>3, <1>4 DEF Inv, PollInv, FmdnLevelKept, CloseInv, FrameInv
<1>7. HonestInv' /\ HealthyCellAnnounced'
  <2>1. Cap' = Cap /\ nvs' = nvs /\ phase' = phase /\ Last' = Last
        /\ bat'.battery_charge = bat.battery_charge
    BY <1>3 DEF Cap, Last
  <2>2. HonestInv'
    BY <1>4, <2>1, Zenon DEF Inv, HonestInv, StoredCapacityHonest
  <2>3. ~hist'.polled
    BY <1>1, <1>4 DEF Inv, PollInv
  <2>. QED  BY <2>2, <2>3 DEF HealthyCellAnnounced
<1>. QED  BY <1>5, <1>6, <1>7 DEF Inv

\* A reset leaves the stored capacity alone.
LEMMA ResetKeepsInv ==
    ASSUME Inv, Reset
    PROVE  Inv'
<1>1. nvs \in Capacity /\ hist \in HistType
  BY Types DEF Inv
<1>2. /\ phase' = "off" /\ queue' = <<>> /\ bat' = BatteryBoot /\ fmdn' = 255 /\ nvs' = nvs
      /\ frame' = [ram |-> Cleared, sent |-> Cleared] /\ hist' = [hist EXCEPT !.polled = FALSE]
  BY DEF Reset
<1>3. /\ hist' \in HistType /\ hist'.polled = FALSE /\ hist'.start = hist.start
      /\ hist'.misread = hist.misread /\ hist'.hours = hist.hours
  BY <1>1, <1>2 DEF HistType
<1>4. bat' \in BatType /\ frame' \in FrameType
  BY <1>2, Ranges DEF BatteryBoot, BatType, FrameType
<1>5. TypeOK'
  <2>1. queue' \in Seq(Works)
    BY <1>2
  <2>. QED  BY <1>1, <1>2, <1>3, <1>4, <2>1, TypesNext, Ranges DEF Phases
<1>6. PollInv' /\ FmdnLevelKept' /\ CloseInv' /\ FrameInv' /\ HealthyCellAnnounced'
  BY <1>2, <1>3 DEF PollInv, FmdnLevelKept, CloseInv, FrameInv, HealthyCellAnnounced
<1>7. HonestInv'
  <2>1. phase' = "off" /\ Cap' = 0 /\ 0 <= hist.start
    BY <1>1, <1>2, Ranges DEF BatteryBoot, Cap, HistType
  <2>. QED  BY <1>2, <1>3, <2>1, Zenon DEF Inv, HonestInv, StoredCapacityHonest
<1>. QED  BY <1>5, <1>6, <1>7 DEF Inv

\* The level is remembered when the stack has it.
LEMMA LevelSetKeepsInv ==
    ASSUME Inv, battery_level_set
    PROVE  Inv'
<1>1. /\ queue \in Seq(Works) /\ bat \in BatType /\ nvs \in Capacity /\ hist \in HistType
      /\ frame \in FrameType /\ fmdn \in Level /\ phase \in Phases
  BY Types DEF Inv
<1>2. UNCHANGED <<phase, queue, frame, nvs>>
  BY DEF battery_level_set
<1>3. PICK level \in {bat.battery_level, bat.battery_charge} :
          /\ bat' = [bat EXCEPT !.level_set_work = FALSE, !.battery_level = level]
          /\ \/ level = bat.battery_level /\ fmdn' = fmdn
             \/ level = bat.battery_charge /\ fmdn' = level
  BY <1>1, Zenon DEF battery_level_set, BatType
<1>4. PICK count \in Faults : hist' = [hist EXCEPT !.faults = count] /\ count >= hist.faults
  <2>1. hist.faults \in Faults /\ hist = [hist EXCEPT !.faults = hist.faults]
    BY <1>1 DEF HistType
  <2>2. hist.faults < MaxFaults => hist.faults + 1 \in Faults
    BY <2>1, Ranges DEF Faults
  <2>3. hist.faults + 1 >= hist.faults /\ hist.faults >= hist.faults
    BY <2>1, Ranges
  <2>. QED  BY <2>1, <2>2, <2>3, Zenon DEF battery_level_set
<1>5. level \in Level
  BY <1>1, <1>3, Ranges DEF BatType
<1>6. /\ bat' \in BatType /\ Cap' = Cap /\ Last' = Last
      /\ bat'.gu8_ActBasedBattPercent = bat.gu8_ActBasedBattPercent
      /\ bat'.battery_charge = bat.battery_charge /\ bat'.battery_level = level
  BY <1>1, <1>3, <1>5 DEF BatType, Cap, Last
<1>7. /\ hist' \in HistType /\ hist'.polled = hist.polled /\ hist'.start = hist.start
      /\ hist'.misread = hist.misread /\ hist'.hours = hist.hours /\ hist'.mV = hist.mV
      /\ hist'.faults = count
  BY <1>1, <1>4 DEF HistType
<1>8. TypeOK'
  <2>1. fmdn' \in Level
    BY <1>1, <1>3, <1>5
  <2>. QED  BY <1>1, <1>2, <1>6, <1>7, <2>1, TypesNext
<1>9. PollInv'
  BY <1>2, <1>6, <1>7 DEF Inv, PollInv, Cap, Last
<1>10. CloseInv'
  <2>1. hist'.faults \in Nat /\ hist.faults <= hist'.faults
    BY <1>1, <1>4, <1>7, Ranges DEF HistType
  <2>. QED  BY <1>2, <1>6, <2>1, CloseKept
<1>11. HonestInv'
  BY <1>2, <1>6, <1>7, Zenon DEF Inv, HonestInv, StoredCapacityHonest
<1>12. FrameInv'
  <2>1. count = 0 => hist.faults = 0
    BY <1>1, <1>4, Ranges DEF HistType
  <2>. QED  BY <1>2, <1>6, <1>7, <2>1 DEF Inv, FrameInv
<1>13. FmdnLevelKept'
  BY <1>2, <1>3, <1>6 DEF Inv, FmdnLevelKept
<1>14. HealthyCellAnnounced'
  BY <1>6, <1>7 DEF Inv, HealthyCellAnnounced, Cap
<1>. QED  BY <1>8, <1>9, <1>10, <1>11, <1>12, <1>13, <1>14 DEF Inv

\* What is due runs in order: an hourly run leaves nothing due but the poll, and nothing is
\* polled before the percentage is known.
LEMMA DueInOrder ==
    ASSUME Inv, NEW work \in Works, Run(work)
    PROVE  /\ phase # "off" /\ phase' = phase /\ queue' \in {<<>>, <<"poll">>}
           /\ queue' \in Seq(Works)
           /\ work = "poll" => /\ bat.gu8_ActBasedBattPercent = ActPercent(Cap)
                               /\ Last = ActPercent(Cap)
<1>1. phase # "off" /\ phase' = phase
  BY DEF Run
<1>2. CASE queue = Launched
  BY <1>1, <1>2 DEF Run, Launched, Works, Inv, PollInv
<1>3. CASE queue \in {<<>>, <<"poll">>}
  <2>1. queue = <<>> => queue' = <<>>
    BY DEF Run
  <2>2. queue = <<"poll">> => queue' = Tail(queue)
    BY DEF Run
  <2>3. queue' = <<>>
    <3>1. Tail(<<"poll">>) = <<>> /\ <<"poll">> # <<>>
      OBVIOUS
    <3>. QED  BY <1>3, <2>1, <2>2, <3>1
  <2>4. queue # Launched
    BY <1>3 DEF Launched
  <2>5. queue' \in {<<>>, <<"poll">>} /\ queue' \in Seq(Works)
    BY <2>3
  <2>. QED  BY <1>1, <2>4, <2>5, Zenon DEF Inv, PollInv
<1>. QED  BY <1>1, <1>2, <1>3, Zenon DEF Inv, PollInv

\* The poll gives the level the measurement, and the frame unless a call failed.
LEMMA PollKeepsInv ==
    ASSUME Inv, NEW mV \in Voltages, battery_periodic_poll_handler(mV)
    PROVE  Inv'
<1>. DEFINE charge == voltage_to_percent_convert(mV, bat.gu8_ActBasedBattPercent)
            exists == phase \in {"stuck", "run"}
<1>1. /\ queue \in Seq(Works) /\ bat \in BatType /\ nvs \in Capacity /\ hist \in HistType
      /\ frame \in FrameType /\ fmdn \in Level /\ phase \in Phases
  BY Types DEF Inv
<1>2. mV \in Uint16 /\ charge \in Percent
  BY <1>1, Ranges, Estimates DEF BatType
<1>3. /\ Run("poll") /\ UNCHANGED <<fmdn, nvs>>
      /\ bat' = [bat EXCEPT !.battery_charge = charge, !.level_set_work = TRUE]
  BY DEF battery_periodic_poll_handler
<1>4. PICK o \in MeasuredFrames(frame, mV, charge, exists) :
          /\ hist.faults + o[2] <= MaxFaults
          /\ frame' = o[1]
          /\ hist' = [hist EXCEPT !.mV = mV, !.polled = TRUE, !.faults = @ + o[2]]
  BY DEF battery_periodic_poll_handler
<1>5. /\ phase # "off" /\ phase' = phase /\ queue' \in {<<>>, <<"poll">>}
      /\ queue' \in Seq(Works)
      /\ bat.gu8_ActBasedBattPercent = ActPercent(Cap) /\ Last = ActPercent(Cap)
  <2>1. "poll" \in Works
    BY DEF Works
  <2>. QED  BY <1>3, <2>1, DueInOrder
<1>6. mV >= 3400 => charge = ActPercent(Cap)
  BY <1>2, <1>5, Ranges DEF voltage_to_percent_convert
<1>. HIDE DEF charge
<1>7. /\ frame' \in FrameType /\ o[2] \in {0, 1, 2}
      /\ frame'.ram.level = charge /\ frame'.ram.field = VoltageField(mV)
      /\ exists /\ o[2] = 0 /\ frame.sent = frame.ram => frame'.sent = frame'.ram
  <2>1. exists \in BOOLEAN
    OBVIOUS
  <2>. HIDE DEF exists
  <2>. QED  BY <1>1, <1>2, <1>4, <2>1, MeasureEffect
<1>8. /\ bat' \in BatType /\ Cap' = Cap /\ Last' = Last
      /\ bat'.gu8_ActBasedBattPercent = bat.gu8_ActBasedBattPercent
      /\ bat'.battery_charge = charge /\ bat'.battery_level = bat.battery_level
  BY <1>1, <1>2, <1>3 DEF BatType, Cap, Last
<1>. DEFINE count == hist.faults + o[2]
<1>9. count \in Faults /\ hist.faults <= count /\ (count = 0 => hist.faults = 0 /\ o[2] = 0)
  <2>1. hist.faults \in Nat /\ MaxFaults \in Nat
    BY <1>1, Ranges DEF HistType
  <2>2. \A n \in {0, 1, 2} : hist.faults + n <= MaxFaults =>
            /\ hist.faults + n \in Faults /\ hist.faults <= hist.faults + n
            /\ hist.faults + n = 0 => hist.faults = 0 /\ n = 0
    BY <2>1 DEF Faults
  <2>. QED  BY <1>4, <1>7, <2>2, Zenon
<1>10. hist' = [hist EXCEPT !.mV = mV, !.polled = TRUE, !.faults = count]
  BY <1>4
<1>. HIDE DEF count
<1>11. /\ hist' \in HistType /\ hist'.polled = TRUE /\ hist'.start = hist.start
       /\ hist'.misread = hist.misread /\ hist'.hours = hist.hours /\ hist'.mV = mV
       /\ hist'.faults = count
  BY <1>1, <1>2, <1>9, <1>10 DEF HistType
<1>12. TypeOK'
  BY <1>1, <1>3, <1>5, <1>7, <1>8, <1>11, TypesNext
<1>13. PollInv'
  BY <1>5, <1>8, <1>11, Zenon DEF PollInv
<1>15. CloseInv'
  <2>1. hist'.faults \in Nat /\ hist.faults <= hist'.faults
    BY <1>9, <1>11, Ranges
  <2>. QED  BY <1>3, <1>5, <1>8, <2>1, CloseKept
<1>16. HonestInv'
  BY <1>3, <1>5, <1>8, <1>11, Zenon DEF Inv, HonestInv, StoredCapacityHonest
<1>17. FrameInv'
  BY <1>5, <1>7, <1>8, <1>9, <1>11 DEF Inv, FrameInv
<1>18. FmdnLevelKept'
  BY <1>3, <1>5, <1>8 DEF Inv, FmdnLevelKept
<1>19. HealthyCellAnnounced'
  <2>1. mV >= 3400 => bat'.battery_charge = ActPercent(bat'.f32_RemainingBatCap)
    BY <1>6, <1>8 DEF Cap
  <2>2. bat'.battery_charge >= bat'.battery_charge
    <3>1. charge >= charge
      BY <1>2, Ranges
    <3>. QED  BY <1>8, <3>1
  <2>. QED  BY <1>11, <2>1, <2>2 DEF HealthyCellAnnounced
<1>. QED  BY <1>12, <1>13, <1>15, <1>16, <1>17, <1>18, <1>19 DEF Inv

\* A measurement that fails changes no estimate.
LEMMA PollFailsKeepsInv ==
    ASSUME Inv, PollFails
    PROVE  Inv'
<1>. DEFINE count == hist.faults + 1
<1>1. /\ queue \in Seq(Works) /\ bat \in BatType /\ nvs \in Capacity /\ hist \in HistType
      /\ frame \in FrameType /\ fmdn \in Level /\ phase \in Phases
  BY Types DEF Inv
<1>2. /\ Run("poll") /\ UNCHANGED <<frame, fmdn, nvs>> /\ hist.faults < MaxFaults
      /\ bat' = [bat EXCEPT !.level_set_work = TRUE]
      /\ hist' = [hist EXCEPT !.faults = count]
  BY DEF PollFails
<1>3. /\ phase # "off" /\ phase' = phase /\ queue' \in {<<>>, <<"poll">>}
      /\ queue' \in Seq(Works)
      /\ bat.gu8_ActBasedBattPercent = ActPercent(Cap) /\ Last = ActPercent(Cap)
  <2>1. "poll" \in Works
    BY DEF Works
  <2>. QED  BY <1>2, <2>1, DueInOrder
<1>4. count \in Faults /\ hist.faults <= count /\ count # 0
  BY <1>1, <1>2, Ranges DEF Faults, HistType
<1>. HIDE DEF count
<1>5. /\ bat' \in BatType /\ Cap' = Cap /\ Last' = Last
      /\ bat'.gu8_ActBasedBattPercent = bat.gu8_ActBasedBattPercent
      /\ bat'.battery_charge = bat.battery_charge /\ bat'.battery_level = bat.battery_level
  BY <1>1, <1>2 DEF BatType, Cap, Last
<1>6. /\ hist' \in HistType /\ hist'.polled = hist.polled /\ hist'.start = hist.start
      /\ hist'.misread = hist.misread /\ hist'.hours = hist.hours /\ hist'.mV = hist.mV
      /\ hist'.faults = count
  BY <1>1, <1>2, <1>4 DEF HistType
<1>7. TypeOK'
  BY <1>1, <1>2, <1>3, <1>5, <1>6, TypesNext
<1>8. PollInv'
  BY <1>3, <1>5, Zenon DEF PollInv
<1>9. FrameInv' /\ FmdnLevelKept'
  BY <1>2, <1>3, <1>4, <1>5, <1>6 DEF Inv, FrameInv, FmdnLevelKept
<1>10. CloseInv'
  <2>1. hist'.faults \in Nat /\ hist.faults <= hist'.faults
    BY <1>4, <1>6, Ranges
  <2>. QED  BY <1>2, <1>3, <1>5, <2>1, CloseKept
<1>11. HonestInv'
  BY <1>2, <1>3, <1>5, <1>6, Zenon DEF Inv, HonestInv, StoredCapacityHonest
<1>12. HealthyCellAnnounced'
  BY <1>5, <1>6 DEF Inv, HealthyCellAnnounced, Cap
<1>. QED  BY <1>7, <1>8, <1>9, <1>10, <1>11, <1>12 DEF Inv

\* An hour takes its consumption, or what is left.
LEMMA AnHour ==
    ASSUME NEW cap \in Capacity
    PROVE  /\ Discharged(cap) \in Capacity /\ Discharged(cap) <= cap
           /\ cap <= Discharged(cap) + Consumption
BY Ranges DEF Discharged, Capacity

\* What an hour leaves of the distance between the capacity and the stored one.  A percent
\* lasts for an hour at least, so a write that fails adds one percent to the distance.
LEMMA CloseStep ==
    ASSUME NEW f \in Nat \ {0}, NEW c \in Nat, c * 100 <= f,
           NEW cap \in Nat, NEW old \in Nat, NEW n \in Nat, NEW faults \in Nat,
           NEW fault \in {0, 1}, NEW p \in Nat, NEW last \in Nat,
           cap <= old, old <= cap + c, old <= n,
           p * f <= cap * 100, cap * 100 < p * f + f, last * f <= old * 100,
           fault = 0 => p = last,
           \/ old = n /\ last = 0
           \/ n * 100 < (last + 1 + faults) * f + c * 100
    PROVE  n * 100 < (p + 1 + (faults + fault)) * f + c * 100
<1>. DEFINE bound == (p + 1 + (faults + fault)) * f
<1>1. bound \in Int /\ (p + 1) * f \in Int /\ (p + 1) * f <= bound
  BY Product
<1>2. (p + 1) * f = p * f + f /\ (p + 2) * f = p * f + f + f
  OBVIOUS
<1>3. p * f \in Int /\ last * f \in Int
  OBVIOUS
<1>4. last <= p + 1
  <2>. SUFFICES ASSUME p + 2 <= last PROVE FALSE
    OBVIOUS
  <2>1. (p + 2) * f <= last * f
    BY Product
  <2>. DEFINE a == p * f
              b == last * f
              d == (p + 2) * f
  <2>2. a \in Int /\ b \in Int /\ d = a + f + f /\ d <= b /\ b <= old * 100
        /\ cap * 100 < a + f
    BY <1>2, <1>3, <2>1
  <2>. HIDE DEF a, b, d
  <2>. QED  BY <2>2
<1>5. CASE old = n /\ last = 0
  <2>. DEFINE a == p * f
              d == (p + 1) * f
  <2>1. a \in Int /\ d = a + f /\ d <= bound /\ bound \in Int /\ cap * 100 < a + f
    BY <1>1, <1>2, <1>3
  <2>. HIDE DEF a, d, bound
  <2>2. n * 100 < bound + c * 100
    BY <1>5, <2>1
  <2>. QED  BY <2>2 DEF bound
<1>6. CASE n * 100 < (last + 1 + faults) * f + c * 100
  <2>. DEFINE b == (last + 1 + faults) * f
  <2>1. last + 1 + faults <= p + 1 + (faults + fault)
    BY <1>4
  <2>2. b \in Int /\ bound \in Int /\ b <= bound /\ n * 100 < b + c * 100
    BY <1>1, <1>6, <2>1, Product
  <2>. HIDE DEF b, bound
  <2>3. n * 100 < bound + c * 100
    BY <2>2
  <2>. QED  BY <2>3 DEF bound
<1>. QED  BY <1>5, <1>6

\* The capacity is counted down; it is stored when its percentage has changed.
LEMMA ActivityKeepsInv ==
    ASSUME Inv, activity_battery_percentage_work_handler
    PROVE  Inv'
<1>. DEFINE cap == Discharged(Cap)
            percent == ActPercent(cap)
            changed == percent # Last
<1>1. /\ queue \in Seq(Works) /\ bat \in BatType /\ nvs \in Capacity /\ hist \in HistType
      /\ frame \in FrameType /\ fmdn \in Level /\ phase \in Phases
  BY Types DEF Inv
<1>2. /\ Run("activity") /\ UNCHANGED <<frame, fmdn>> /\ hist.hours < MaxHours
      /\ bat' = [bat EXCEPT !.f32_RemainingBatCap = cap, !.gu8_ActBasedBattPercent = percent,
                            !.gu8_LastActBasedBattPercent = percent]
  BY DEF activity_battery_percentage_work_handler, Cap
<1>3. PICK fault \in {0, 1} :
          /\ fault = 1 => changed /\ hist.faults < MaxFaults
          /\ nvs' = IF changed /\ fault = 0 THEN cap ELSE nvs
          /\ hist' = [hist EXCEPT !.hours = @ + 1, !.faults = @ + fault]
  BY DEF activity_battery_percentage_work_handler, Cap, Last
<1>4. /\ phase # "off" /\ phase' = phase /\ queue' \in {<<>>, <<"poll">>}
      /\ queue' \in Seq(Works)
  <2>1. "activity" \in Works
    BY DEF Works
  <2>. QED  BY <1>2, <2>1, DueInOrder
<1>5. Cap \in Capacity /\ Cap \in Nat /\ Last \in Percent /\ Last \in Nat
  BY <1>1, Ranges DEF BatType, Cap, Last
<1>6. /\ cap \in Capacity /\ cap \in Nat /\ cap <= Cap /\ Cap <= cap + Consumption
      /\ percent \in Percent /\ percent \in Nat
  BY <1>5, AnHour, Estimates, Ranges
<1>7. /\ percent * FullCapacity <= cap * 100
      /\ cap * 100 < percent * FullCapacity + FullCapacity
      /\ Last * FullCapacity <= Cap * 100
  <2>1. ActPercent(Cap) * FullCapacity <= Cap * 100
    BY <1>5, Percentage DEF Capacity
  <2>2. 0 * FullCapacity <= Cap * 100
    BY <1>5, Ranges
  <2>3. Last = ActPercent(Cap) \/ Last = 0
    BY <1>4 DEF Inv, PollInv
  <2>4. Last * FullCapacity <= Cap * 100
    BY <2>1, <2>2, <2>3, Zenon
  <2>. QED  BY <1>6, <2>4, Percentage DEF Capacity
<1>8. ActPercent(Cap) >= percent
  BY <1>5, <1>6, PercentageMonotone, Estimates, Ranges DEF Capacity
<1>. HIDE DEF cap, percent
<1>9. /\ bat' \in BatType /\ Cap' = cap /\ Last' = percent
      /\ bat'.gu8_ActBasedBattPercent = percent
      /\ bat'.battery_charge = bat.battery_charge /\ bat'.battery_level = bat.battery_level
  BY <1>1, <1>2, <1>6 DEF BatType, Cap, Last
<1>10. /\ hist.faults \in Nat /\ hist.faults + fault \in Faults /\ hist.hours \in Nat
       /\ hist.hours + 1 \in Hours /\ hist.start \in Nat
  <2>1. hist.faults \in Faults /\ hist.hours \in Hours /\ hist.start \in Capacity
    BY <1>1 DEF HistType
  <2>. QED  BY <1>2, <1>3, <2>1, Ranges DEF Hours, Faults
<1>. DEFINE count == hist.faults + fault
            hours == hist.hours + 1
<1>11. hist' = [hist EXCEPT !.hours = hours, !.faults = count]
  BY <1>3
<1>. HIDE DEF count, hours
<1>12. /\ hist' \in HistType /\ hist'.polled = hist.polled /\ hist'.start = hist.start
       /\ hist'.misread = hist.misread /\ hist'.hours = hours /\ hist'.mV = hist.mV
       /\ hist'.faults = count
  BY <1>1, <1>10, <1>11 DEF HistType, count, hours
<1>13. TypeOK'
  <2>1. nvs' \in Capacity
    BY <1>1, <1>3, <1>6
  <2>. QED  BY <1>1, <1>2, <1>4, <1>9, <1>12, <2>1, TypesNext
<1>14. PollInv'
  <2>1. percent = ActPercent(cap)
    BY DEF percent
  <2>. QED  BY <1>4, <1>9, <2>1, Zenon DEF PollInv
<1>15. Cap = 0 /\ Last = 0 => cap = 0 /\ percent = 0 /\ ~changed
  <2>1. Cap = 0 => cap = 0
    BY <1>6
  <2>. QED  BY <2>1, Estimates DEF percent
<1>17. CloseInv'
  <2>. SUFFICES ASSUME phase = "run"
                PROVE  /\ cap <= nvs'
                       /\ nvs' * 100 < (percent + 1 + count) * FullCapacity + Consumption * 100
    BY <1>4, <1>9, <1>12, Zenon DEF CloseInv
  <2>1. /\ Cap <= nvs
        /\ \/ Cap = nvs /\ Last = 0
           \/ nvs * 100 < (Last + 1 + hist.faults) * FullCapacity + Consumption * 100
    BY DEF Inv, CloseInv
  <2>2. nvs \in Nat
    BY <1>1, Ranges
  <2>3. CASE changed /\ fault = 0
    <3>1. nvs' = cap
      BY <1>3, <2>3
    <3>2. (percent + 1) * FullCapacity <= (percent + 1 + count) * FullCapacity
      <4>1. count \in Nat /\ percent + 1 <= percent + 1 + count
        BY <1>6, <1>10, Ranges DEF count
      <4>. QED  BY <1>6, <4>1, Product, Ranges
    <3>3. (percent + 1) * FullCapacity = percent * FullCapacity + FullCapacity
      BY <1>6, Ranges
    <3>. DEFINE a == percent * FullCapacity
                b == (percent + 1) * FullCapacity
                d == (percent + 1 + count) * FullCapacity
    <3>4. /\ a \in Int /\ b = a + FullCapacity /\ d \in Int /\ b <= d
          /\ cap * 100 < a + FullCapacity
      BY <1>6, <1>7, <1>10, <3>2, <3>3, Ranges DEF count
    <3>. HIDE DEF a, b, d
    <3>5. cap * 100 < d + Consumption * 100 /\ cap <= cap
      BY <1>6, <3>4, Ranges
    <3>. QED  BY <3>1, <3>5 DEF d
  <2>4. CASE ~(changed /\ fault = 0)
    <3>1. nvs' = nvs /\ cap <= nvs
      BY <1>3, <1>5, <1>6, <2>1, <2>2, <2>4
    <3>2. fault = 0 => percent = Last
      BY <2>4
    <3>3. nvs * 100 < (percent + 1 + (hist.faults + fault)) * FullCapacity + Consumption * 100
      BY <1>5, <1>6, <1>7, <1>10, <2>1, <2>2, <3>2, CloseStep, Ranges
    <3>. QED  BY <3>1, <3>3 DEF count
  <2>. QED  BY <2>3, <2>4
<1>18. HonestInv'
  <2>. DEFINE taken == hist.hours * Consumption
              next == hours * Consumption
  <2>1. taken \in Int /\ next = taken + Consumption
    BY <1>10, Ranges DEF hours
  <2>2. /\ hist.start - nvs <= taken
        /\ (Cap = 0 /\ Last = 0) \/ hist.start - Cap <= taken
        /\ ~hist.misread => nvs <= hist.start /\ Cap <= hist.start
    BY <1>4 DEF Inv, HonestInv, StoredCapacityHonest
  <2>. HIDE DEF taken, next
  <2>3. nvs \in Nat /\ (nvs' = nvs \/ (changed /\ nvs' = cap))
    BY <1>1, <1>3, Ranges
  <2>4. hist.start - nvs <= next
    BY <1>10, <2>1, <2>2, <2>3, Ranges
  <2>5. hist.start - Cap <= taken => hist.start - cap <= next
    BY <1>5, <1>6, <1>10, <2>1, Ranges
  <2>6. (cap = 0 /\ percent = 0) \/ hist.start - cap <= next
    BY <1>15, <2>2, <2>5
  <2>7. hist.start - nvs' <= next
    BY <1>15, <2>2, <2>3, <2>4, <2>5
  <2>8. ~hist.misread => nvs' <= hist.start /\ cap <= hist.start
    BY <1>5, <1>6, <1>10, <2>2, <2>3
  <2>. HIDE DEF changed, hours
  <2>. QED  BY <1>9, <1>12, <2>6, <2>7, <2>8, Zenon DEF HonestInv, StoredCapacityHonest, next
<1>19. FrameInv'
  <2>1. count = 0 => hist.faults = 0
    BY <1>10 DEF count
  <2>. QED  BY <1>2, <1>4, <1>9, <1>12, <2>1 DEF Inv, FrameInv
<1>20. FmdnLevelKept'
  BY <1>2, <1>4, <1>9 DEF Inv, FmdnLevelKept
<1>21. HealthyCellAnnounced'
  <2>1. ActPercent(Cap) \in Nat /\ bat.battery_charge \in Nat /\ percent \in Nat
    BY <1>1, <1>5, <1>6, Estimates, Ranges DEF BatType
  <2>2. hist.polled /\ hist.mV >= 3400 => bat.battery_charge >= ActPercent(Cap)
    BY DEF Inv, HealthyCellAnnounced, Cap
  <2>3. hist.polled /\ hist.mV >= 3400 => bat.battery_charge >= percent
    BY <1>8, <2>1, <2>2
  <2>4. percent = ActPercent(bat'.f32_RemainingBatCap)
    BY <1>9 DEF percent, Cap
  <2>. QED  BY <1>9, <1>12, <2>3, <2>4 DEF HealthyCellAnnounced
<1>. QED  BY <1>13, <1>14, <1>17, <1>18, <1>19, <1>20, <1>21 DEF Inv

-----------------------------------------------------------------------------
(***************************************************************************)
(* The theorems.                                                           *)
(***************************************************************************)

\* A tag that has never booted is consistent.
LEMMA InitInv == Init => Inv
<1>. SUFFICES ASSUME Init PROVE Inv
  OBVIOUS
<1>1. nvs \in Capacity
  BY BatteryAssumption DEF Init, Capacity
<1>2. bat \in BatType /\ frame \in FrameType /\ queue \in Seq(Works) /\ fmdn \in Level
  BY Ranges DEF Init, BatteryBoot, BatType, FrameType
<1>3. hist \in HistType /\ hist.start = nvs /\ hist.hours = 0 /\ hist.polled = FALSE
  BY <1>1, Ranges DEF Init, HistType
<1>4. TypeOK
  BY <1>1, <1>2, <1>3, Types DEF Init, Phases
<1>5. StoredCapacityHonest /\ 0 <= hist.start
  BY <1>1, <1>3, Ranges DEF StoredCapacityHonest
<1>6. PollInv /\ CloseInv /\ FrameInv /\ FmdnLevelKept /\ HealthyCellAnnounced
  BY <1>3 DEF Init, PollInv, CloseInv, FrameInv, FmdnLevelKept, HealthyCellAnnounced
<1>7. HonestInv
  BY <1>5 DEF Init, HonestInv, BatteryBoot, Cap
<1>. QED  BY <1>4, <1>6, <1>7 DEF Inv

\* Every step keeps the invariant.
LEMMA NextKeepsInv == Inv /\ [Next]_vars => Inv'
<1>. SUFFICES ASSUME Inv, [Next]_vars PROVE Inv'
  OBVIOUS
<1>1. CASE UNCHANGED vars
  <2>1. UNCHANGED <<phase, queue, bat, frame, fmdn, nvs, hist>>
    BY <1>1 DEF vars
  <2>2. Cap' = Cap /\ Last' = Last
    BY <2>1 DEF Cap, Last
  <2>3. TypeOK' = TypeOK
    BY <2>1, Types, TypesNext, Zenon
  <2>4. PollInv'
    BY <2>1, <2>2, Zenon DEF Inv, PollInv
  <2>5. CloseInv' /\ HonestInv'
    BY <2>1, <2>2, Zenon DEF Inv, CloseInv, HonestInv, StoredCapacityHonest
  <2>6. FrameInv' /\ FmdnLevelKept' /\ HealthyCellAnnounced'
    BY <2>1 DEF Inv, FrameInv, FmdnLevelKept, HealthyCellAnnounced
  <2>. QED  BY <2>3, <2>4, <2>5, <2>6 DEF Inv
<1>2. ASSUME NEW mV \in Voltages, NEW done \in BOOLEAN, Boot(mV, done) PROVE Inv'
  BY <1>2, BootKeepsInv
<1>3. ASSUME NEW mV \in Voltages, battery_periodic_poll_handler(mV) PROVE Inv'
  BY <1>3, PollKeepsInv
<1>4. CASE BootFails
  BY <1>4, BootFailsKeepsInv
<1>5. CASE Reset
  BY <1>5, ResetKeepsInv
<1>6. CASE activity_battery_percentage_work_handler
  BY <1>6, ActivityKeepsInv
<1>7. CASE PollFails
  BY <1>7, PollFailsKeepsInv
<1>8. CASE battery_level_set
  BY <1>8, LevelSetKeepsInv
<1>. QED  BY <1>1, <1>2, <1>3, <1>4, <1>5, <1>6, <1>7, <1>8, Zenon DEF Next

\* The invariant holds in every behaviour.
LEMMA Invariance == Spec => []Inv
BY InitInv, NextKeepsInv, PTL DEF Spec

\* What the invariant says of the stored capacity, in uAh: a percent is a whole number of
\* them.
LEMMA CloseFrom == Inv => StoredCapacityClose
<1>. SUFFICES ASSUME Inv, phase = "run"
              PROVE  /\ Cap <= nvs
                     /\ nvs - Cap < (hist.faults + 1) * OnePercent + Consumption
  BY DEF StoredCapacityClose, Cap
<1>1. /\ Cap \in Capacity /\ Cap \in Nat /\ nvs \in Nat /\ Last \in Nat /\ hist.faults \in Nat
  BY Types, Ranges DEF Inv, BatType, HistType, Cap, Last
<1>2. /\ Cap <= nvs
      /\ \/ Cap = nvs /\ Last = 0
         \/ nvs * 100 < (Last + 1 + hist.faults) * FullCapacity + Consumption * 100
  BY DEF Inv, CloseInv
<1>3. Last * FullCapacity <= Cap * 100
  <2>1. ActPercent(Cap) * FullCapacity <= Cap * 100
    BY <1>1, Percentage DEF Capacity
  <2>2. 0 * FullCapacity <= Cap * 100
    BY <1>1, Ranges
  <2>3. Last = ActPercent(Cap) \/ Last = 0
    BY DEF Inv, PollInv
  <2>. QED  BY <2>1, <2>2, <2>3, Zenon
<1>4. OnePercent \in Nat /\ FullCapacity = OnePercent * 100
  BY BatteryAssumption, CapacityAssumption DEF OnePercent
<1>. DEFINE one == OnePercent
            more == (hist.faults + 1) * one
            lost == Last * FullCapacity
            bound == (Last + 1 + hist.faults) * FullCapacity
<1>5. more \in Nat /\ lost \in Int /\ bound \in Int /\ bound = lost + more * 100
  <2>1. more \in Nat /\ lost \in Int /\ bound \in Int
    BY <1>1, <1>4, Ranges
  <2>2. bound = lost + (hist.faults + 1) * FullCapacity
    BY <1>1, Ranges
  <2>3. (hist.faults + 1) * FullCapacity = more * 100
    BY <1>1, <1>4
  <2>. QED  BY <2>1, <2>2, <2>3
<1>. HIDE DEF more, lost, bound
<1>6. nvs * 100 < bound + Consumption * 100 => nvs - Cap < more + Consumption
  BY <1>1, <1>3, <1>5, Ranges DEF lost
<1>7. Cap = nvs => nvs - Cap < more + Consumption
  BY <1>1, <1>5, Ranges
<1>. QED  BY <1>2, <1>6, <1>7 DEF more, bound

\* The copies of capacity and level agree as far as failing calls let them: the stored
\* capacity is never below what the hours explain, however often the boot gives up and the
\* hourly work goes on, rises only when the record was taken for missing, and is not above
\* the current one by more than a percent, an hour and a percent for each failed write; the
\* level the stack has is the remembered one.
THEOREM BatteryAlwaysConsistent == Spec => []BatteryConsistent
<1>1. Inv => BatteryConsistent
  BY CloseFrom DEF Inv, HonestInv, BatteryConsistent
<1>. QED  BY <1>1, Invariance, PTL

\* A cell at 3.4 V or more is announced with its capacity at least, in every order of polls,
\* hours and resets.
THEOREM HealthyCellAlwaysAnnounced == Spec => []HealthyCellAnnounced
<1>1. Inv => HealthyCellAnnounced
  BY DEF Inv
<1>. QED  BY <1>1, Invariance, PTL

\* As long as no call fails, the frame on the air carries the last poll's measurement, from
\* which the voltage can be read back.
THEOREM FrameAlwaysCurrent == Spec => []FrameCurrent
<1>1. Inv => FrameCurrent
  <2>. SUFFICES ASSUME Inv, phase = "run", hist.polled, hist.faults = 0
                PROVE  /\ frame.sent.level = bat.battery_charge
                       /\ 1800 <= hist.mV /\ hist.mV < 3400 =>
                              18 + frame.sent.field \div 4 = hist.mV \div 100
    BY DEF FrameCurrent
  <2>1. frame.sent.level = bat.battery_charge /\ frame.sent.field = VoltageField(hist.mV)
    BY DEF Inv, FrameInv
  <2>2. hist.mV \in Nat
    BY Types, Ranges DEF Inv, HistType
  <2>. QED  BY <2>1, <2>2, FieldTyped
<1>. QED  BY <1>1, Invariance, PTL

=============================================================================
