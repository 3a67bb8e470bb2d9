-------------------------- MODULE ProductionProofs --------------------------
(***************************************************************************)
(* Proofs about Production, for any number of chunks and failing calls.    *)
(***************************************************************************)
EXTENDS Production, TLAPS

-----------------------------------------------------------------------------
(***************************************************************************)
(* The inductive invariant.                                                *)
(***************************************************************************)

\* The states of the double buffer while the receiver is on: the toggle says which
\* buffer is handed out next.
InStep ==
    \/ dma.cur = 1 /\ dma.next = 0 /\ dma.rx_swap_toggle = FALSE
    \/ dma.cur = 1 /\ dma.next = 2 /\ dma.rx_swap_toggle = TRUE
    \/ dma.cur = 2 /\ dma.next = 0 /\ dma.rx_swap_toggle = TRUE
    \/ dma.cur = 2 /\ dma.next = 1 /\ dma.rx_swap_toggle = FALSE

\* The toggle is in step with the driver, and the driver has no buffer waiting once
\* the receiver is off.
BufferInv ==
    /\ uart.rx => uart.uart_is_powered /\ InStep
    /\ wq.at = "disabling" => ~uart.rx
    /\ ~uart.rx => dma.next = 0

\* Chunk 0 stands for no chunk.
Arrived(c) == c = 0 \/ kind[c] # "none"

\* Chunks arrive in order.
OrderInv == \A c, d \in Chunks : d < c /\ kind[c] # "none" => kind[d] # "none"

\* What is in the hand-over buffer or was pulled from it has arrived, and is newer
\* than what was processed; what came after the pull is newer than what was pulled.
ChunkInv ==
    /\ Arrived(last) /\ Arrived(slot.buf[2]) /\ Arrived(wq.buf[2])
    /\ slot.len => last < slot.buf[2]
    /\ wq.at \in {"pull2", "pulled"} => slot.len
    /\ wq.at \in {"pulled", "process"} => last < wq.buf[2]
    /\ wq.at = "process" /\ slot.len => wq.buf[2] < slot.buf[2]

Inv == UartConsistent /\ BufferInv /\ OrderInv /\ ChunkInv

UartType == [uart_is_powered : BOOLEAN, lifetime : BOOLEAN, rx : BOOLEAN]
DmaType == [cur : 0..2, next : 0..2, rx_swap_toggle : BOOLEAN]
Copies == [1..2 -> 0..MaxChunks]
SlotType == [buf : Copies, len : BOOLEAN, work : BOOLEAN]
MutexType == [owner : {"none", "workqueue", "other"}, waiter : BOOLEAN]
Places == {"idle", "pull1", "pull2", "pulled", "process", "disabling", "blocked", "restarting"}
WqType == [at : Places, buf : Copies]

-----------------------------------------------------------------------------
(***************************************************************************)
(* The driver: requests for buffers, full buffers, received chunks.        *)
(***************************************************************************)

\* The bounds are numbers.
LEMMA BoundTypes == MaxChunks \in Nat /\ MaxFaults \in Nat
BY ProductionAssumption

\* The parts of Inv, one by one.
LEMMA InvParts ==
    Inv <=> /\ TypeOK /\ BuffersDistinct /\ UartNotLeftOn
            /\ BufferInv /\ OrderInv /\ ChunkInv
BY DEF Inv, UartConsistent

\* The double buffer: whatever the driver asks for, it gets the other one.
LEMMA BuffersKeepInv ==
    ASSUME Inv, RxBufRequest \/ BufferFull
    PROVE  Inv'
<1>1. uart.rx /\ UNCHANGED <<uart, slot, mutex, wq, kind, last, faults>>
  BY DEF RxBufRequest, BufferFull
<1>2. dma \in DmaType /\ InStep
  BY <1>1, InvParts DEF TypeOK, DmaType, BufferInv
<1>3. dma' \in DmaType /\ InStep'
  <2>1. CASE RxBufRequest
    <3>. DEFINE n == IF dma.rx_swap_toggle THEN 1 ELSE 2
                b == ~dma.rx_swap_toggle
    <3>1. n \in 0..2 /\ b \in BOOLEAN
      OBVIOUS
    <3>2. dma' = [dma EXCEPT !.next = n, !.rx_swap_toggle = b] /\ dma.next = 0
      BY <2>1 DEF RxBufRequest
    <3>3. n = (IF dma.rx_swap_toggle THEN 1 ELSE 2) /\ (b <=> ~dma.rx_swap_toggle)
      OBVIOUS
    <3>. HIDE DEF n, b
    <3>4. /\ dma' \in DmaType
          /\ dma'.cur = dma.cur /\ dma'.next = n /\ dma'.rx_swap_toggle = b
      BY <1>2, <3>1, <3>2 DEF DmaType
    <3>. QED  BY <1>2, <3>1, <3>2, <3>3, <3>4 DEF InStep, DmaType
  <2>2. CASE BufferFull
    <3>. DEFINE n == dma.next
    <3>1. dma' = [dma EXCEPT !.cur = n, !.next = 0] /\ n # 0 /\ n \in 0..2 /\ n = dma.next
      BY <1>2, <2>2 DEF BufferFull, DmaType
    <3>. HIDE DEF n
    <3>2. dma' \in DmaType
      <4>1. [dma EXCEPT !.cur = n] \in DmaType
        BY <1>2, <3>1 DEF DmaType
      <4>2. \A d \in DmaType : [d EXCEPT !.next = 0] \in DmaType
        BY DEF DmaType
      <4>. QED  BY <3>1, <4>1, <4>2
    <3>3. dma'.cur = n /\ dma'.next = 0
      BY <1>2, <3>1 DEF DmaType
    <3>4. dma'.rx_swap_toggle = dma.rx_swap_toggle
      BY <1>2, <3>1 DEF DmaType
    <3>. QED  BY <1>2, <3>1, <3>2, <3>3, <3>4 DEF InStep
  <2>. QED  BY <2>1, <2>2
<1>4. TypeOK'
  BY <1>1, <1>3, InvParts DEF TypeOK, DmaType
<1>5. BuffersDistinct' /\ BufferInv'
  BY <1>1, <1>3, InvParts DEF BuffersDistinct, BufferInv, InStep
<1>6. UartNotLeftOn' /\ OrderInv' /\ ChunkInv'
  BY <1>1, InvParts DEF UartNotLeftOn, OrderInv, ChunkInv, Arrived
<1>. QED  BY <1>4, <1>5, <1>6 DEF Inv, UartConsistent

\* A chunk that arrives is newer than every chunk seen so far.
LEMMA ChunkKeepsInv ==
    ASSUME Inv, NEW c \in Chunks, NEW t \in Kinds \ {"none"}, RxReady(c, t)
    PROVE  Inv'
<1>1. /\ kind \in [Chunks -> Kinds] /\ kind[c] = "none" /\ kind' = [kind EXCEPT ![c] = t]
      /\ \A d \in 1..(c - 1) : kind[d] # "none"
      /\ UNCHANGED <<uart, dma, wq, last, faults>> /\ c \in Nat
  BY ProductionAssumption, InvParts DEF RxReady, TypeOK, Chunks
<1>2. kind' \in [Chunks -> Kinds] /\ kind'[c] # "none"
      /\ \A d \in Chunks : d # c => kind'[d] = kind[d]
  BY <1>1
<1>3. ASSUME NEW x \in 0..MaxChunks, x = 0 \/ kind[x] # "none"
      PROVE  x < c /\ (x = 0 \/ kind'[x] # "none")
  BY <1>1, <1>2, <1>3, ProductionAssumption, InvParts DEF OrderInv, Chunks
<1>4. OrderInv'
  <2>. SUFFICES ASSUME NEW e \in Chunks, NEW d \in Chunks, d < e, kind'[e] # "none"
                PROVE  kind'[d] # "none"
    BY DEF OrderInv
  <2>1. CASE d = c
    BY <1>2, <2>1
  <2>2. CASE d # c /\ e = c
    BY <1>1, <1>2, <2>2, ProductionAssumption DEF Chunks
  <2>3. CASE d # c /\ e # c
    BY <1>2, <2>3, InvParts DEF OrderInv
  <2>. QED  BY <2>1, <2>2, <2>3
<1>5. mutex' \in [owner : {"none", "workqueue", "other"}, waiter : BOOLEAN]
  <2>1. mutex \in [owner : {"none", "workqueue", "other"}, waiter : BOOLEAN]
    BY InvParts DEF TypeOK
  <2>2. CASE UNCHANGED mutex
    BY <2>1, <2>2
  <2>3. ASSUME NEW q \in BOOLEAN, mutex' = [mutex EXCEPT !.waiter = @ \/ q]
        PROVE  mutex' \in [owner : {"none", "workqueue", "other"}, waiter : BOOLEAN]
    <3>. DEFINE w == mutex.waiter \/ q
    <3>1. w \in BOOLEAN /\ mutex' = [mutex EXCEPT !.waiter = w]
      BY <2>1, <2>3
    <3>. HIDE DEF w
    <3>. QED  BY <2>1, <3>1
  <2>. QED  BY <2>2, <2>3 DEF RxReady, IsrLock
<1>6. slot \in SlotType /\ slot' \in SlotType
      /\ (UNCHANGED slot \/ (slot'.len /\ slot'.buf[2] = c))
  <2>. DEFINE b == [i \in 1..2 |-> c]
  <2>1. b \in Copies /\ b[2] = c
    BY ProductionAssumption DEF Copies, Chunks
  <2>2. slot \in SlotType
    BY InvParts DEF TypeOK, Copies, SlotType
  <2>3. slot' = [buf |-> b, len |-> TRUE, work |-> TRUE] \/ UNCHANGED slot
    BY DEF RxReady
  <2>. HIDE DEF b
  <2>4. CASE UNCHANGED slot
    BY <2>2, <2>4
  <2>5. CASE slot' = [buf |-> b, len |-> TRUE, work |-> TRUE]
    BY <2>1, <2>2, <2>5 DEF SlotType
  <2>. QED  BY <2>3, <2>4, <2>5
<1>7. TypeOK'
  BY <1>1, <1>2, <1>5, <1>6, InvParts DEF TypeOK, Copies, SlotType
<1>8. ChunkInv'
  <2>1. last \in 0..MaxChunks /\ slot.buf[2] \in 0..MaxChunks /\ wq.buf[2] \in 0..MaxChunks
    BY <1>6, InvParts DEF TypeOK, SlotType, Copies
  <2>2. last < c /\ (last = 0 \/ kind'[last] # "none")
    BY <1>3, <2>1, InvParts DEF ChunkInv, Arrived
  <2>3. wq.buf[2] < c /\ (wq.buf[2] = 0 \/ kind'[wq.buf[2]] # "none")
    BY <1>3, <2>1, InvParts DEF ChunkInv, Arrived
  <2>4. slot.buf[2] = 0 \/ kind'[slot.buf[2]] # "none"
    BY <1>3, <2>1, InvParts DEF ChunkInv, Arrived
  <2>5. CASE UNCHANGED slot
    BY <1>1, <2>2, <2>3, <2>4, <2>5, InvParts DEF ChunkInv, Arrived
  <2>6. CASE slot'.len /\ slot'.buf[2] = c
    BY <1>1, <1>2, <2>2, <2>3, <2>6, InvParts DEF ChunkInv, Arrived
  <2>. QED  BY <1>6, <2>5, <2>6
<1>9. BuffersDistinct' /\ UartNotLeftOn' /\ BufferInv'
  BY <1>1, InvParts DEF BuffersDistinct, UartNotLeftOn, BufferInv, InStep
<1>. QED  BY <1>4, <1>7, <1>8, <1>9 DEF Inv, UartConsistent

-----------------------------------------------------------------------------
(***************************************************************************)
(* The workqueue.                                                          *)
(***************************************************************************)

\* What the fields of the records are, and what is never read off a chunk that is
\* not there.
LEMMA FieldTypes ==
    ASSUME TypeOK
    PROVE  /\ uart \in UartType /\ dma \in DmaType /\ slot \in SlotType
           /\ mutex \in MutexType /\ wq \in WqType
           /\ slot.buf \in Copies /\ wq.buf \in Copies
           /\ slot.buf[2] \in 0..MaxChunks /\ wq.buf[2] \in 0..MaxChunks
BY DEF TypeOK, UartType, DmaType, SlotType, MutexType, WqType, Copies, Places

\* TypeOK from the named types.
LEMMA TypeOKFrom ==
    /\ uart \in UartType /\ dma \in DmaType /\ slot \in SlotType
    /\ mutex \in MutexType /\ wq \in WqType
    /\ kind \in [Chunks -> Kinds] /\ last \in 0..MaxChunks /\ faults \in 0..MaxFaults
    => TypeOK
BY DEF TypeOK, UartType, DmaType, SlotType, MutexType, WqType, Copies, Places

\* The empty buffer and the idle workqueue.
LEMMA EmptyType ==
    Empty \in Copies /\ Empty[2] = 0 /\ WqIdle \in WqType /\ WqIdle.at = "idle"
    /\ WqIdle.buf = Empty
<1>1. Empty \in Copies /\ Empty[2] = 0
  BY ProductionAssumption DEF Empty, Copies
<1>. QED  BY <1>1 DEF WqIdle, WqType, Places

\* An unlocked mutex goes to the thread that waits for it.
LEMMA UnlockType ==
    ASSUME Unlock
    PROVE  mutex' \in MutexType
<1>. DEFINE o == IF mutex.waiter THEN "other" ELSE "none"
<1>1. o \in {"none", "workqueue", "other"}
  OBVIOUS
<1>2. mutex' = [owner |-> o, waiter |-> FALSE]
  BY DEF Unlock
<1>. HIDE DEF o
<1>. QED  BY <1>1, <1>2 DEF MutexType

\* Wherever k_mutex_lock leaves the workqueue, process_buf is as it was.
LEMMA LockEffect ==
    ASSUME TypeOK, NEW p \in Places, Lock(p)
    PROVE  /\ mutex' \in MutexType /\ wq' \in WqType /\ wq'.buf = wq.buf
           /\ \/ mutex.owner = "none" /\ wq'.at = p
              \/ mutex.owner # "none" /\ wq'.at = "blocked"
<1>1. mutex \in MutexType /\ wq \in WqType
  BY FieldTypes
<1>. QED  BY <1>1 DEF Lock, MutexType, WqType, Places

\* deferred_msg_processing_handler.
LEMMA FetchKeepsInv ==
    ASSUME Inv, FetchBegin \/ FetchHalf \/ FetchRest \/ FetchEnd
    PROVE  Inv'
<1>1. UNCHANGED <<uart, dma, kind, last, faults>>
  BY DEF FetchBegin, FetchHalf, FetchRest, FetchEnd
<1>2. /\ uart \in UartType /\ dma \in DmaType /\ slot \in SlotType
      /\ mutex \in MutexType /\ wq \in WqType
      /\ slot.buf \in Copies /\ wq.buf \in Copies
      /\ slot.buf[2] \in 0..MaxChunks /\ wq.buf[2] \in 0..MaxChunks
      /\ slot.buf[1] \in 0..MaxChunks /\ last \in 0..MaxChunks
  BY InvParts, FieldTypes DEF Copies, TypeOK
<1>3. /\ slot' \in SlotType /\ mutex' \in MutexType /\ wq' \in WqType
      /\ wq'.at # "disabling"
      /\ wq.at \notin {"disabling", "restarting", "blocked"}
      /\ ChunkInv'
  <2>1. CASE FetchBegin
    <3>1. /\ wq' \in WqType /\ mutex' \in MutexType /\ wq'.buf = wq.buf
          /\ wq'.at \in {"pull1", "blocked"}
      BY <2>1, InvParts, LockEffect DEF FetchBegin, Places
    <3>2. slot' \in SlotType /\ slot'.buf = slot.buf /\ slot'.len = slot.len /\ wq.at = "idle"
      BY <1>2, <2>1 DEF FetchBegin, SlotType
    <3>. QED  BY <1>1, <3>1, <3>2, InvParts DEF ChunkInv, Arrived
  <2>2. CASE FetchHalf /\ slot.len
    <3>. DEFINE b == [wq.buf EXCEPT ![1] = slot.buf[1]]
    <3>1. b \in Copies /\ b[2] = wq.buf[2]
      BY <1>2 DEF Copies
    <3>2. wq' = [wq EXCEPT !.at = "pull2", !.buf = b] /\ UNCHANGED <<mutex, slot>>
          /\ wq.at = "pull1"
      BY <2>2 DEF FetchHalf
    <3>. HIDE DEF b
    <3>3. wq' \in WqType /\ wq'.at = "pull2" /\ wq'.buf = b
      BY <1>2, <3>1, <3>2 DEF WqType, Places
    <3>. QED  BY <1>1, <1>2, <2>2, <3>1, <3>2, <3>3, InvParts DEF ChunkInv, Arrived
  <2>3. CASE FetchHalf /\ ~slot.len
    <3>1. wq' = WqIdle /\ UNCHANGED slot /\ Unlock /\ wq.at = "pull1"
      BY <2>3 DEF FetchHalf
    <3>. QED  BY <1>1, <1>2, <2>3, <3>1, EmptyType, UnlockType, InvParts DEF ChunkInv, Arrived
  <2>4. CASE FetchRest
    <3>. DEFINE b == [wq.buf EXCEPT ![2] = slot.buf[2]]
    <3>1. b \in Copies /\ b[2] = slot.buf[2]
      BY <1>2 DEF Copies
    <3>2. wq' = [wq EXCEPT !.at = "pulled", !.buf = b] /\ UNCHANGED <<mutex, slot>>
          /\ wq.at = "pull2"
      BY <2>4 DEF FetchRest
    <3>. HIDE DEF b
    <3>3. wq' \in WqType /\ wq'.at = "pulled" /\ wq'.buf = b
      BY <1>2, <3>1, <3>2 DEF WqType, Places
    <3>. QED  BY <1>1, <1>2, <2>4, <3>1, <3>2, <3>3, InvParts DEF ChunkInv, Arrived
  <2>5. CASE FetchEnd
    <3>1. wq' \in WqType /\ wq'.at = "process" /\ wq'.buf = wq.buf /\ wq.at = "pulled"
      BY <1>2, <2>5 DEF FetchEnd, WqType, Places
    <3>2. slot' \in SlotType /\ slot'.buf = slot.buf /\ ~slot'.len /\ Unlock
      BY <1>2, <2>5 DEF FetchEnd, SlotType
    <3>. QED  BY <1>1, <3>1, <3>2, UnlockType, InvParts DEF ChunkInv, Arrived
  <2>. QED  BY <2>1, <2>2, <2>3, <2>4, <2>5
<1>4. TypeOK'
  BY <1>1, <1>2, <1>3, InvParts, TypeOKFrom DEF TypeOK, UartType, DmaType, SlotType, MutexType,
     WqType, Copies, Places
<1>5. BuffersDistinct' /\ UartNotLeftOn' /\ BufferInv' /\ OrderInv'
  BY <1>1, <1>3, InvParts DEF BuffersDistinct, UartNotLeftOn, BufferInv, InStep, OrderInv
<1>. QED  BY <1>3, <1>4, <1>5 DEF Inv, UartConsistent

\* ProcessProductionMsg: a chunk newer than the last one.
LEMMA ProcessKeepsInv ==
    ASSUME Inv, ProcessProductionMsg
    PROVE  Inv' /\ last < last'
<1>1. UNCHANGED <<dma, slot, mutex, kind, faults>> /\ last' = wq.buf[2] /\ wq.at = "process"
  BY DEF ProcessProductionMsg
<1>2. /\ uart \in UartType /\ wq \in WqType /\ wq.buf[2] \in 0..MaxChunks
      /\ slot.buf[2] \in 0..MaxChunks /\ last \in 0..MaxChunks
  BY InvParts, FieldTypes DEF TypeOK
<1>3. wq' \in WqType /\ wq'.buf = Empty /\ wq'.at \in {"idle", "blocked", "restarting"}
  <2>. DEFINE p == IF mutex.owner # "none" THEN "blocked"
                   ELSE IF kind[wq.buf[1]] = "TOOL_RESET_CMD" THEN "restarting" ELSE "idle"
  <2>1. wq' = WqIdle \/ wq' = [WqIdle EXCEPT !.at = p]
    BY DEF ProcessProductionMsg
  <2>2. p \in {"idle", "blocked", "restarting"}
    OBVIOUS
  <2>. HIDE DEF p
  <2>. QED  BY <2>1, <2>2, EmptyType DEF WqType, Places
<1>4. /\ uart' \in UartType /\ uart'.uart_is_powered = uart.uart_is_powered /\ uart'.rx = uart.rx
      /\ (uart.lifetime => uart'.lifetime)
  BY <1>2 DEF ProcessProductionMsg, UartType
<1>5. ChunkInv' /\ last < last'
  BY <1>1, <1>2, <1>3, EmptyType, InvParts DEF ChunkInv, Arrived
<1>6. TypeOK'
  BY <1>1, <1>2, <1>3, <1>4, InvParts DEF TypeOK, UartType, WqType, Copies, Places
<1>7. UartNotLeftOn'
  BY <1>1, <1>4, InvParts DEF UartNotLeftOn
<1>8. BuffersDistinct' /\ BufferInv' /\ OrderInv'
  BY <1>1, <1>3, <1>4, InvParts DEF BuffersDistinct, BufferInv, InStep, OrderInv
<1>. QED  BY <1>5, <1>6, <1>7, <1>8 DEF Inv, UartConsistent

\* app_uart_disable, in its two steps: once the receiver is stopped the driver has no
\* buffer, and the toggle no longer matters.
LEMMA DisableKeepsInv ==
    ASSUME Inv, uart_lifetime_timeout_handler \/ EndDisable
    PROVE  Inv'
<1>1. UNCHANGED <<slot, kind, last>>
  BY DEF uart_lifetime_timeout_handler, EndDisable
<1>2. /\ uart \in UartType /\ dma \in DmaType /\ wq \in WqType /\ mutex \in MutexType
  BY InvParts, FieldTypes
<1>3. NoBuffer \in DmaType /\ NoBuffer.next = 0
  BY DEF NoBuffer, DmaType
<1>4. /\ uart' \in UartType /\ dma' \in DmaType /\ wq' \in WqType /\ mutex' \in MutexType
      /\ faults' \in 0..MaxFaults
      /\ wq'.at \in {"idle", "blocked", "disabling"}
      /\ wq'.buf = wq.buf \/ wq'.buf = Empty
      /\ BuffersDistinct' /\ BufferInv' /\ UartNotLeftOn'
  <2>1. CASE uart_lifetime_timeout_handler
    <3>. DEFINE r == uart.rx /\ mutex.owner # "none"
    <3>1. r \in BOOLEAN /\ (r <=> uart.rx /\ mutex.owner # "none")
      BY <1>2 DEF UartType
    <3>2. uart' = [uart EXCEPT !.lifetime = FALSE, !.rx = r] /\ BeginDisable /\ UNCHANGED faults
          /\ wq.at = "idle"
      BY <2>1 DEF uart_lifetime_timeout_handler
    <3>. HIDE DEF r
    <3>3. /\ uart' \in UartType /\ uart'.uart_is_powered = uart.uart_is_powered
          /\ uart'.rx = r /\ faults' \in 0..MaxFaults
      BY <1>2, <3>1, <3>2, InvParts DEF UartType, TypeOK
    <3>4. CASE mutex.owner = "none" /\ ~uart.uart_is_powered
      <4>1. wq' = WqIdle /\ UNCHANGED <<mutex, dma>>
        BY <3>2, <3>4 DEF BeginDisable
      <4>. QED  BY <1>2, <3>1, <3>3, <3>4, <4>1, EmptyType, InvParts
                DEF BuffersDistinct, BufferInv, InStep, UartNotLeftOn
    <3>5. CASE mutex.owner = "none" /\ uart.uart_is_powered
      <4>1. Lock("disabling") /\ dma' = NoBuffer
        BY <3>2, <3>5 DEF BeginDisable
      <4>2. wq' \in WqType /\ mutex' \in MutexType /\ wq'.buf = wq.buf /\ wq'.at = "disabling"
        BY <3>5, <4>1, InvParts, LockEffect DEF Places
      <4>. QED  BY <1>3, <3>1, <3>3, <3>5, <4>1, <4>2
                DEF BuffersDistinct, BufferInv, UartNotLeftOn
    <3>6. CASE mutex.owner # "none"
      <4>1. Lock("disabling") /\ dma' = dma
        BY <3>2, <3>6 DEF BeginDisable
      <4>2. wq' \in WqType /\ mutex' \in MutexType /\ wq'.buf = wq.buf /\ wq'.at = "blocked"
        BY <3>6, <4>1, InvParts, LockEffect DEF Places
      <4>. QED  BY <1>2, <3>1, <3>3, <3>6, <4>1, <4>2, InvParts
                DEF BuffersDistinct, BufferInv, InStep, UartNotLeftOn, UartType
    <3>. QED  BY <3>4, <3>5, <3>6
  <2>2. CASE EndDisable
    <3>1. /\ wq' = WqIdle /\ Unlock /\ UNCHANGED dma /\ wq.at = "disabling"
      BY <2>2 DEF EndDisable
    <3>2. /\ uart' \in UartType /\ uart'.rx = uart.rx /\ faults' \in 0..MaxFaults
          /\ ~uart'.uart_is_powered \/ faults' # 0
      <4>1. faults \in 0..MaxFaults
        BY InvParts DEF TypeOK
      <4>2. CASE uart' = [uart EXCEPT !.uart_is_powered = FALSE] /\ UNCHANGED faults
        BY <1>2, <4>1, <4>2 DEF UartType
      <4>3. CASE faults < MaxFaults /\ faults' = faults + 1 /\ UNCHANGED uart
        BY <1>2, <4>1, <4>3, BoundTypes
      <4>. QED  BY <2>2, <4>2, <4>3 DEF EndDisable
    <3>. QED  BY <1>2, <3>1, <3>2, EmptyType, UnlockType, InvParts
              DEF BuffersDistinct, BufferInv, UartNotLeftOn
  <2>. QED  BY <2>1, <2>2
<1>5. TypeOK'
  BY <1>1, <1>4, InvParts DEF TypeOK, UartType, DmaType, MutexType, WqType, Copies, Places
<1>6. ChunkInv' /\ OrderInv'
  BY <1>1, <1>4, EmptyType, InvParts DEF ChunkInv, OrderInv, Arrived
<1>. QED  BY <1>4, <1>5, <1>6 DEF Inv, UartConsistent

\* A reset: everything but what the tool has sent starts afresh.
LEMMA RestartKeepsInv ==
    ASSUME Inv, app_uart_boot_sequence_start
    PROVE  Inv'
<1>1. UNCHANGED <<kind, last>> /\ faults' \in 0..MaxFaults
  <2>1. faults \in 0..MaxFaults
    BY InvParts DEF TypeOK
  <2>2. UNCHANGED <<kind, last>> /\ (UNCHANGED faults \/ (faults < MaxFaults /\ faults' = faults + 1))
    BY Zenon DEF app_uart_boot_sequence_start
  <2>. QED  BY <2>1, <2>2, BoundTypes
<1>2. PICK on \in BOOLEAN : Switched(on)
  BY DEF app_uart_boot_sequence_start
<1>. DEFINE cur == IF on THEN 1 ELSE 0
<1>3. cur \in 0..2 /\ (on => cur = 1)
  OBVIOUS
<1>4. dma' = [NoBuffer EXCEPT !.cur = cur]
  BY <1>2 DEF Switched
<1>. HIDE DEF cur
<1>5. dma' \in DmaType /\ dma'.next = 0 /\ dma'.cur = cur /\ dma'.rx_swap_toggle = FALSE
  <2>1. NoBuffer \in DmaType /\ NoBuffer.next = 0 /\ NoBuffer.rx_swap_toggle = FALSE
    BY DEF NoBuffer, DmaType
  <2>. QED  BY <1>3, <1>4, <2>1 DEF DmaType
<1>6. uart' \in UartType /\ uart'.uart_is_powered = on /\ uart'.lifetime = on /\ uart'.rx = on
  BY <1>2 DEF Switched, UartType
<1>7. /\ slot' \in SlotType /\ slot'.buf = Empty /\ slot'.len = FALSE
      /\ mutex' \in MutexType /\ wq' = WqIdle
  BY <1>2, EmptyType DEF Switched, SlotType, MutexType
<1>8. TypeOK'
  BY <1>1, <1>5, <1>6, <1>7, EmptyType, InvParts
  DEF TypeOK, UartType, DmaType, SlotType, MutexType, WqType, Copies, Places
<1>9. BuffersDistinct' /\ BufferInv' /\ UartNotLeftOn'
  BY <1>3, <1>5, <1>6, <1>7, EmptyType DEF BuffersDistinct, BufferInv, InStep, UartNotLeftOn
<1>10. ChunkInv' /\ OrderInv'
  BY <1>1, <1>7, EmptyType, InvParts DEF ChunkInv, OrderInv, Arrived
<1>. QED  BY <1>8, <1>9, <1>10 DEF Inv, UartConsistent

-----------------------------------------------------------------------------
(***************************************************************************)
(* The theorems.                                                           *)
(***************************************************************************)

\* The invariant holds initially.
LEMMA InitInv == Init => Inv
<1>. SUFFICES ASSUME Init PROVE Inv
  OBVIOUS
<1>1. /\ uart = [uart_is_powered |-> TRUE, lifetime |-> TRUE, rx |-> TRUE]
      /\ mutex = [owner |-> "none", waiter |-> FALSE] /\ wq = WqIdle
      /\ last = 0 /\ faults = 0
      /\ slot = [buf |-> Empty, len |-> FALSE, work |-> FALSE]
  BY DEF Init
<1>2. dma = [cur |-> 1, next |-> 0, rx_swap_toggle |-> FALSE]
  BY DEF Init, NoBuffer
<1>3. kind \in [Chunks -> Kinds] /\ \A c \in Chunks : kind[c] = "none"
  BY DEF Init, Kinds
<1>4. /\ uart \in UartType /\ dma \in DmaType /\ slot \in SlotType
      /\ mutex \in MutexType /\ wq \in WqType
  BY <1>1, <1>2, EmptyType DEF UartType, DmaType, SlotType, MutexType
<1>5. TypeOK
  BY <1>1, <1>3, <1>4, TypeOKFrom, ProductionAssumption
<1>6. BuffersDistinct /\ BufferInv /\ UartNotLeftOn
  BY <1>1, <1>2, EmptyType DEF BuffersDistinct, BufferInv, InStep, UartNotLeftOn
<1>7. ChunkInv /\ OrderInv
  BY <1>1, <1>3, EmptyType DEF ChunkInv, OrderInv, Arrived
<1>. QED  BY <1>5, <1>6, <1>7 DEF Inv, UartConsistent

\* Every step keeps the invariant.
LEMMA NextKeepsInv == Inv /\ [Next]_vars => Inv'
<1>. SUFFICES ASSUME Inv, [Next]_vars PROVE Inv'
  OBVIOUS
<1>1. CASE Interrupt
  BY <1>1, BuffersKeepInv, ChunkKeepsInv DEF Interrupt
<1>2. CASE Workqueue
  BY <1>2, FetchKeepsInv, ProcessKeepsInv, DisableKeepsInv, RestartKeepsInv
  DEF Workqueue, app_self_restart
<1>3. CASE WatchdogReset
  BY <1>3, RestartKeepsInv DEF WatchdogReset
<1>4. CASE UNCHANGED vars
  BY <1>4 DEF Inv, UartConsistent, vars, TypeOK, BuffersDistinct, UartNotLeftOn, BufferInv,
     InStep, OrderInv, ChunkInv, Arrived
<1>. QED  BY <1>1, <1>2, <1>3, <1>4 DEF Next

\* The invariant holds in every behaviour.
LEMMA Invariance == Spec => []Inv
BY InitInv, NextKeepsInv, PTL DEF Spec

\* The two reception buffers never coincide, whatever the order of requests, full
\* buffers, switching off and restarts; and a powered UART always has something that
\* will switch it off, unless a call of vision_production.c has failed.
THEOREM UartAlwaysConsistent == Spec => []UartConsistent
<1>1. Inv => UartConsistent
  BY DEF Inv
<1>. QED  BY <1>1, Invariance, PTL

\* ProcessProductionMsg never sees a chunk twice, nor one older than the chunk before,
\* although the interrupt overwrites the buffer while the workqueue copies from it.
THEOREM ChunksAtMostOnce == Spec => AtMostOnce
<1>1. Inv => [ProcessProductionMsg => last < last']_vars
  BY ProcessKeepsInv
<1>. QED  BY <1>1, Invariance, PTL DEF AtMostOnce

=============================================================================
