------------------------------ MODULE Production ------------------------------
(***************************************************************************)
(* The production UART: vision_production.c.                               *)
(*                                                                         *)
(* The UART is switched on at boot for the test tool and switched off by a  *)
(* delayed work, which every valid message postpones.  Received chunks go   *)
(* from the driver's double buffer into deferred_rx_work_buf in the         *)
(* interrupt, and from there to ProcessProductionMsg on the workqueue.      *)
(* uart_pm_mutex is to protect the hand-over; but the interrupt takes it    *)
(* too, and what a mutex does in an interrupt depends on the thread that    *)
(* was interrupted (see IsrLock).                                          *)
(*                                                                         *)
(* A chunk is a number; a copy of it is two halves, so that an overwritten  *)
(* copy shows.                                                             *)
(***************************************************************************)
EXTENDS Naturals

CONSTANTS
    MaxChunks,  \* bound on chunks the tool sends
    MaxFaults   \* bound on failing driver and power management calls

ASSUME ProductionAssumption == {MaxChunks, MaxFaults} \subseteq Nat

VARIABLES
    uart,   \* uart_is_powered, uart_lifetime_timeout_work, receiver state
    dma,    \* the buffers the driver has, and rx_swap_toggle
    slot,   \* deferred_rx_work_buf, deferred_rx_work_len, uart_msg_processing_work
    mutex,  \* uart_pm_mutex
    wq,     \* what the system workqueue does, and process_buf
    kind,   \* what the tool sent, by chunk
    last,   \* history: the last chunk that was processed
    faults  \* failing calls so far

vars == <<uart, dma, slot, mutex, wq, kind, last, faults>>

Chunks == 1..MaxChunks

\* "BAD": the checksum does not match, as for a message that the end of a buffer
\* has split.  "OTHER": every command that is carried out and answered at once
\* (its effect on the stored records is in module Storage).
Kinds == {"none", "BAD", "OTHER", "TOOL_RESET_CMD"}

TypeOK ==
    /\ uart \in [uart_is_powered : BOOLEAN, lifetime : BOOLEAN, rx : BOOLEAN]
    /\ dma \in [cur : 0..2, next : 0..2, rx_swap_toggle : BOOLEAN]
    /\ slot \in [buf : [1..2 -> 0..MaxChunks], len : BOOLEAN, work : BOOLEAN]
    /\ mutex \in [owner : {"none", "workqueue", "other"}, waiter : BOOLEAN]
    /\ wq \in [at : {"idle", "pull1", "pull2", "pulled", "process", "disabling",
                     "blocked", "restarting"},
               buf : [1..2 -> 0..MaxChunks]]
    /\ kind \in [Chunks -> Kinds]
    /\ last \in 0..MaxChunks
    /\ faults \in 0..MaxFaults

NoBuffer == [cur |-> 0, next |-> 0, rx_swap_toggle |-> FALSE]

Empty == [i \in 1..2 |-> 0]

WqIdle == [at |-> "idle", buf |-> Empty]

\* RAM after a reset, with the UART as app_uart_enable leaves it.
Switched(on) ==
    /\ uart' = [uart_is_powered |-> on, lifetime |-> on, rx |-> on]
    /\ dma' = [NoBuffer EXCEPT !.cur = IF on THEN 1 ELSE 0]
    /\ slot' = [buf |-> Empty, len |-> FALSE, work |-> FALSE]
    /\ mutex' = [owner |-> "none", waiter |-> FALSE]
    /\ wq' = WqIdle

\* app_uart_boot_sequence_start: with rx_buf_1 and a lifetime of 30 s, or, when a
\* call fails, not at all.
app_uart_boot_sequence_start ==
    /\ \/ Switched(TRUE) /\ UNCHANGED faults
       \/ Switched(FALSE) /\ faults < MaxFaults /\ faults' = faults + 1
    /\ UNCHANGED <<kind, last>>

-----------------------------------------------------------------------------
(***************************************************************************)
(* The driver and its interrupt.                                           *)
(***************************************************************************)

\* Mutant: the toggle is not toggled.
Bug_no_toggle ==
    /\ uart.rx
    /\ dma.next = 0
    /\ dma' = [dma EXCEPT !.next = IF dma.rx_swap_toggle THEN 1 ELSE 2]
    /\ UNCHANGED <<uart, slot, mutex, wq, kind, last, faults>>

\* UART_RX_BUF_REQUEST: the driver asks for the buffer after the current one.
RxBufRequest ==
    /\ uart.rx
    /\ dma.next = 0
    /\ dma' = [dma EXCEPT !.next = IF dma.rx_swap_toggle THEN 1 ELSE 2,
                          !.rx_swap_toggle = ~@]
    /\ UNCHANGED <<uart, slot, mutex, wq, kind, last, faults>>

\* The current buffer is full and the driver goes on with the next one.
BufferFull ==
    /\ uart.rx
    /\ dma.next # 0
    /\ dma' = [dma EXCEPT !.cur = dma.next, !.next = 0]
    /\ UNCHANGED <<uart, slot, mutex, wq, kind, last, faults>>

\* k_mutex_lock in an interrupt.  If the mutex is free, or owned by the thread
\* that was interrupted, it is taken and given back.  If another thread owns it,
\* the call cannot wait: it returns an error that nobody looks at, and may leave
\* the interrupted thread queued for a mutex it will never give back.
IsrLock ==
    IF mutex.owner = "none" \/ (mutex.owner = "workqueue" /\ wq.at # "disabling")
    THEN UNCHANGED mutex
    ELSE \E queued \in BOOLEAN : mutex' = [mutex EXCEPT !.waiter = @ \/ queued]

\* UART_RX_RDY for chunk c, of kind t: also for bytes that uart_rx_disable finds
\* in the buffer.  A chunk that was not fetched yet is overwritten.
RxReady(c, t) ==
    /\ uart.rx \/ wq.at = "disabling"
    /\ kind[c] = "none" /\ \A d \in 1..(c - 1) : kind[d] # "none"
    /\ kind' = [kind EXCEPT ![c] = t]
    /\ IF uart.uart_is_powered
       THEN /\ IsrLock
            /\ slot' = [buf |-> [i \in 1..2 |-> c], len |-> TRUE, work |-> TRUE]
       ELSE UNCHANGED <<mutex, slot>>
    /\ UNCHANGED <<uart, dma, wq, last, faults>>

-----------------------------------------------------------------------------
(***************************************************************************)
(* The workqueue.                                                          *)
(***************************************************************************)

\* k_mutex_lock by the workqueue, which goes on at `at` if it gets the mutex.
Lock(at) ==
    IF mutex.owner = "none"
    THEN /\ wq' = [wq EXCEPT !.at = at]
         /\ mutex' = [mutex EXCEPT !.owner = "workqueue"]
    ELSE wq' = [wq EXCEPT !.at = "blocked"] /\ UNCHANGED mutex

\* k_mutex_unlock hands the mutex to a queued thread.
Unlock == mutex' = [owner |-> IF mutex.waiter THEN "other" ELSE "none", waiter |-> FALSE]

\* deferred_msg_processing_handler.
FetchBegin ==
    /\ wq.at = "idle"
    /\ slot.work
    /\ slot' = [slot EXCEPT !.work = FALSE]
    /\ Lock("pull1")
    /\ UNCHANGED <<uart, dma, kind, last, faults>>

\* deferred_rx_work_len is read and copying begins; a length of 0 ends it.
FetchHalf ==
    /\ wq.at = "pull1"
    /\ IF slot.len
       THEN /\ wq' = [wq EXCEPT !.at = "pull2", !.buf[1] = slot.buf[1]]
            /\ UNCHANGED mutex
       ELSE wq' = WqIdle /\ Unlock
    /\ UNCHANGED <<uart, dma, slot, kind, last, faults>>

FetchRest ==
    /\ wq.at = "pull2"
    /\ wq' = [wq EXCEPT !.at = "pulled", !.buf[2] = slot.buf[2]]
    /\ UNCHANGED <<uart, dma, slot, mutex, kind, last, faults>>

\* Mutant: the length is not reset.
Bug_len_not_reset ==
    /\ wq.at = "pulled"
    /\ wq' = [wq EXCEPT !.at = "process"]
    /\ Unlock
    /\ UNCHANGED <<uart, dma, slot, kind, last, faults>>

\* deferred_rx_work_len becomes 0, also that of a chunk that has come meanwhile:
\* its work will find nothing.
FetchEnd ==
    /\ wq.at = "pulled"
    /\ wq' = [wq EXCEPT !.at = "process"]
    /\ slot' = [slot EXCEPT !.len = FALSE]
    /\ Unlock
    /\ UNCHANGED <<uart, dma, kind, last, faults>>

\* Whether the checksum of the message in process_buf matches; a mixture of two
\* chunks matches by chance.
ChecksumMatches ==
    IF wq.buf[1] = wq.buf[2] THEN {kind[wq.buf[1]] # "BAD"} ELSE BOOLEAN

\* ProcessProductionMsg.  Each answer takes the mutex for the transmission.
ProcessProductionMsg ==
    /\ wq.at = "process"
    /\ last' = wq.buf[2]
    /\ \E matches \in ChecksumMatches :
        \/ ~matches /\ wq' = WqIdle /\ UNCHANGED uart
        \/ /\ matches
           /\ uart' = [uart EXCEPT !.lifetime = TRUE]
           /\ wq' = [WqIdle EXCEPT !.at =
                        IF mutex.owner # "none" THEN "blocked"
                        ELSE IF kind[wq.buf[1]] = "TOOL_RESET_CMD" THEN "restarting"
                        ELSE "idle"]
    /\ UNCHANGED <<dma, slot, mutex, kind, faults>>

\* app_uart_disable: nothing if the UART is off; else the receiver is stopped and
\* the workqueue sleeps 10 ms with the mutex ...
BeginDisable ==
    IF mutex.owner = "none" /\ ~uart.uart_is_powered
    THEN wq' = WqIdle /\ UNCHANGED <<mutex, dma>>
    ELSE /\ Lock("disabling")
         /\ dma' = IF mutex.owner = "none" THEN NoBuffer ELSE dma

uart_lifetime_timeout_handler ==
    /\ wq.at = "idle"
    /\ uart.lifetime
    /\ uart' = [uart EXCEPT !.lifetime = FALSE,
                            !.rx = @ /\ mutex.owner # "none"]
    /\ BeginDisable
    /\ UNCHANGED <<slot, kind, last, faults>>

\* Mutant: the UART is suspended and still taken for powered.
Bug_still_powered ==
    /\ wq.at = "disabling"
    /\ wq' = WqIdle
    /\ Unlock
    /\ UNCHANGED <<uart, dma, slot, kind, last, faults>>

\* ... and then suspends the device.  A failure leaves it powered.
EndDisable ==
    /\ wq.at = "disabling"
    /\ \/ uart' = [uart EXCEPT !.uart_is_powered = FALSE] /\ UNCHANGED faults
       \/ faults < MaxFaults /\ faults' = faults + 1 /\ UNCHANGED uart
    /\ wq' = WqIdle
    /\ Unlock
    /\ UNCHANGED <<dma, slot, kind, last>>

\* app_self_restart: what comes in while it switches the UART off and waits is
\* lost with the reset.
app_self_restart ==
    /\ wq.at = "restarting"
    /\ app_uart_boot_sequence_start

\* A workqueue that waits forever for the mutex does not feed the watchdog.
WatchdogReset ==
    /\ wq.at = "blocked"
    /\ app_uart_boot_sequence_start

-----------------------------------------------------------------------------
Init ==
    /\ uart = [uart_is_powered |-> TRUE, lifetime |-> TRUE, rx |-> TRUE]
    /\ dma = [NoBuffer EXCEPT !.cur = 1]
    /\ slot = [buf |-> Empty, len |-> FALSE, work |-> FALSE]
    /\ mutex = [owner |-> "none", waiter |-> FALSE]
    /\ wq = WqIdle
    /\ kind = [c \in Chunks |-> "none"]
    /\ last = 0
    /\ faults = 0

Interrupt ==
    \/ RxBufRequest
    \/ BufferFull
    \/ \E c \in Chunks, t \in Kinds \ {"none"} : RxReady(c, t)

Workqueue ==
    \/ FetchBegin
    \/ FetchHalf
    \/ FetchRest
    \/ FetchEnd
    \/ ProcessProductionMsg
    \/ uart_lifetime_timeout_handler
    \/ EndDisable
    \/ app_self_restart

Next == Interrupt \/ Workqueue \/ WatchdogReset

Spec == Init /\ [][Next]_vars

\* The workqueue runs what is due, the lifetime falls due and the watchdog bites.
\* The tool owes nothing.
FairSpec ==
    /\ Spec
    /\ WF_vars(Workqueue)
    /\ WF_vars(uart_lifetime_timeout_handler)
    /\ WF_vars(WatchdogReset)

-----------------------------------------------------------------------------
(***************************************************************************)
(* What holds.                                                             *)
(***************************************************************************)

\* The driver is never given the buffer it is filling as the next one: the
\* toggle stays in step with the driver over every order of requests, full
\* buffers, switching off and restarts.
BuffersDistinct == dma.next # 0 => dma.next # dma.cur

\* A chunk is processed at most once and never after a later one, although the
\* work is submitted from the interrupt and its buffer overwritten there.
AtMostOnce == [][ ProcessProductionMsg => last < last' ]_vars

\* Whenever the UART is powered and no call has failed, something will switch it
\* off: its lifetime, or the work that is doing so, or the reset that is due.
\* Otherwise the receiver would drain the battery for good.
UartNotLeftOn ==
    faults = 0 /\ uart.uart_is_powered =>
        \/ uart.lifetime
        \/ wq.at \in {"disabling", "restarting", "blocked"}

\* Together: the interrupt, the message work and the lifetime leave buffers and
\* power in a state that the next of them can go on from.
UartConsistent == TypeOK /\ BuffersDistinct /\ UartNotLeftOn

\* Unless a call fails, the UART is switched off and the workqueue is free again,
\* even when an interrupt in the 10 ms of app_uart_disable has left the mutex with
\* a thread that does not know of it: the next answer then blocks the workqueue,
\* with the UART off already, until the watchdog resets the tag.
UartSwitchedOff ==
    (uart.uart_is_powered \/ wq.at # "idle") ~>
        ((~uart.uart_is_powered /\ wq.at = "idle") \/ faults > 0)

-----------------------------------------------------------------------------
(***************************************************************************)
(* What a comment says and the code refutes.                               *)
(***************************************************************************)

\* "Safely pull data from the shared storage buffer" (vision_production.c,
\* deferred_msg_processing_handler): what is processed is one chunk.
PulledWhole == wq.at = "process" => wq.buf[1] = wq.buf[2]

=============================================================================
