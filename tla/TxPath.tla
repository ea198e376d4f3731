------------------------------- MODULE TxPath -------------------------------
(***************************************************************************)
(* Transmission in the Linux DMA driver (week04/mmio.c) on the peripheral  *)
(* of week03/mmio.c: comento_mmio_write copies a chunk of the caller's     *)
(* bytes into tx.buf, starts a DMA transfer of it into DR, and goes on to  *)
(* the next chunk when the callback of the transfer has cleared tx.queued. *)
(* No lock is taken on this path, and the result of the interruptible wait *)
(* is ignored: a signal lets the writer go on as if the wait were over.    *)
(*                                                                         *)
(* The thread of a write is a pc per writer; a step is the code between    *)
(* two accesses to state another thread can touch.                         *)
(*                                                                         *)
(* External: the PL330 DMA controller with its Linux driver (transfers are *)
(* queued, run one byte at a time while the busy line is low and complete  *)
(* in a tasklet) and the wait queue (a sleeper tests the condition again   *)
(* after a wake-up or a signal, and no wake-up between its test and its    *)
(* sleep is lost).                                                         *)
(***************************************************************************)
EXTENDS MmioIrq

CONSTANTS
    TxBufSize,   \* COMENTO_DMA_BUFFER_SIZE
    Junk,        \* what the buffer holds before the first write
    Writers,     \* the processes that write
    Script,      \* Script[w]: the buffers w writes, one call each
    MaxSignals,  \* how often a signal arrives
    MaxFaults    \* how often mapping a buffer or preparing a transfer fails

ASSUME TxBufAssumption == TxBufSize \in Nat \ {0}
ASSUME ScriptAssumption == Script \in [Writers -> Seq(Seq(Data))]
ASSUME TxBoundsAssumption == MaxSignals \in Nat /\ MaxFaults \in Nat

VARIABLES
    wpc,         \* where each writer is
    todo,        \* the calls each writer has still to make
    user,        \* the part of its call that a writer has not handed on
    bytes,       \* the length of the chunk a writer is at
    chunk,       \* the length of the transfer a writer has prepared
    written,     \* written_bytes of each writer's call
    signalled,   \* the writers with a signal pending
    taskletPc,   \* where the tasklet is: "idle", "callback", "led_off", "wake"
    txQueued,    \* tx.queued
    txMapped,    \* how often tx.sg is mapped more than unmapped
    txLength,    \* tx.sg.length
    txBuf,       \* tx.buf
    ledRed,      \* leds->desc[0]: sending
    transfers,   \* the transfers issued: their length and how far they are
    fetched,     \* what the host has fetched
    reported,    \* how many bytes the writes that returned reported
    signals,     \* signals still to come
    faults       \* failures still to come

writer  == <<wpc, todo, user, bytes, chunk, written, signalled>>
driver  == <<txQueued, txMapped, txLength, ledRed>>
bounds  == <<signals, faults>>
vars    == <<device, top, writer, taskletPc, driver, txBuf, transfers, fetched,
             reported, bounds>>

Init ==
    /\ TopInit
    /\ wpc = [w \in Writers |-> "idle"]
    /\ todo = Script
    /\ user = [w \in Writers |-> <<>>]
    /\ bytes = [w \in Writers |-> 0]
    /\ chunk = [w \in Writers |-> 0]
    /\ written = [w \in Writers |-> 0]
    /\ signalled = {}
    /\ taskletPc = "idle"
    /\ txQueued = FALSE
    /\ txMapped = 0
    /\ txLength = TxBufSize
    /\ txBuf = [i \in 1 .. TxBufSize |-> Junk]
    /\ ledRed = FALSE
    /\ transfers = <<>>
    /\ fetched = <<>>
    /\ reported = 0
    /\ signals = MaxSignals
    /\ faults = MaxFaults

At(w, label) == wpc[w] = label
Goto(w, label) == wpc' = [wpc EXCEPT ![w] = label]
-----------------------------------------------------------------------------
(* comento_mmio_write *)

\* The call; while (len > 0) is tested at once.
Call(w) ==
    /\ At(w, "idle") /\ todo[w] # <<>>
    /\ user' = [user EXCEPT ![w] = Head(todo[w])]
    /\ todo' = [todo EXCEPT ![w] = Tail(todo[w])]
    /\ written' = [written EXCEPT ![w] = 0]
    /\ Goto(w, IF Head(todo[w]) = <<>> THEN "last_wait" ELSE "wait")
    /\ UNCHANGED <<device, top, bytes, chunk, signalled, taskletPc, driver, txBuf,
                   transfers, fetched, reported, bounds>>

AfterWait(w) == IF At(w, "wait") THEN "copy" ELSE "return"
Asleep(w)    == IF At(w, "wait") THEN "asleep" ELSE "last_asleep"

\* wait_event_interruptible(tx_wq, !tx.queued): over when the transfer is, or
\* with a signal pending; otherwise the writer sleeps.
WaitEvent(w) ==
    /\ At(w, "wait") \/ At(w, "last_wait")
    /\ Goto(w, IF ~txQueued \/ w \in signalled THEN AfterWait(w) ELSE Asleep(w))
    /\ UNCHANGED <<device, top, todo, user, bytes, chunk, written, signalled,
                   taskletPc, driver, txBuf, transfers, fetched, reported, bounds>>

\* Mutant: the length is not limited to the buffer's.
CopyAll(w) ==
    /\ At(w, "copy")
    /\ bytes' = [bytes EXCEPT ![w] = Len(user[w])]
    /\ txBuf' = [i \in 1 .. TxBufSize |->
                   IF i <= Len(user[w]) THEN user[w][i] ELSE txBuf[i]]
    /\ Goto(w, "length")
    /\ UNCHANGED <<device, top, todo, user, chunk, written, signalled, taskletPc, driver,
                   transfers, fetched, reported, bounds>>

\* bytes = MIN(len, COMENTO_DMA_BUFFER_SIZE), copy_from_user
Copy(w) ==
    /\ At(w, "copy")
    /\ LET n == IF Len(user[w]) < TxBufSize THEN Len(user[w]) ELSE TxBufSize
       IN  /\ bytes' = [bytes EXCEPT ![w] = n]
           /\ txBuf' = [i \in 1 .. TxBufSize |-> IF i <= n THEN user[w][i] ELSE txBuf[i]]
    /\ Goto(w, "length")
    /\ UNCHANGED <<device, top, todo, user, chunk, written, signalled, taskletPc, driver,
                   transfers, fetched, reported, bounds>>

\* tx.sg.length
SetLength(w) ==
    /\ At(w, "length")
    /\ txLength' = bytes[w]
    /\ Goto(w, "prepare")
    /\ UNCHANGED <<device, top, todo, user, bytes, chunk, written, signalled, taskletPc,
                   txQueued, txMapped, ledRed, txBuf, transfers, fetched, reported, bounds>>

\* dma_map_sg, dmaengine_prep_slave_sg, tx.queued
Prepare(w) ==
    /\ At(w, "prepare")
    /\ txMapped' = txMapped + 1
    /\ chunk' = [chunk EXCEPT ![w] = txLength]
    /\ txQueued' = TRUE
    /\ Goto(w, "led_on")
    /\ UNCHANGED <<device, top, todo, user, bytes, written, signalled, taskletPc,
                   txLength, ledRed, txBuf, transfers, fetched, reported, bounds>>

\* Mutant: dmaengine_prep_slave_sg fails and the buffer stays mapped.
PrepareFailsMapped(w) ==
    /\ At(w, "prepare") /\ faults > 0
    /\ faults' = faults - 1
    /\ txMapped' = txMapped + 1
    /\ user' = [user EXCEPT ![w] = <<>>]
    /\ Goto(w, "last_wait")
    /\ UNCHANGED <<device, top, todo, bytes, chunk, written, signalled, taskletPc,
                   txQueued, txLength, ledRed, txBuf, transfers, fetched, reported, signals>>

\* dma_map_sg fails, or dmaengine_prep_slave_sg does and the buffer is
\* unmapped again: break, and what is left of buf is given up.
PrepareFails(w) ==
    /\ At(w, "prepare") /\ faults > 0
    /\ faults' = faults - 1
    /\ user' = [user EXCEPT ![w] = <<>>]
    /\ Goto(w, "last_wait")
    /\ UNCHANGED <<device, top, todo, bytes, chunk, written, signalled, taskletPc,
                   driver, txBuf, transfers, fetched, reported, signals>>

LedOn(w) ==
    /\ At(w, "led_on")
    /\ ledRed' = TRUE
    /\ Goto(w, "issue")
    /\ UNCHANGED <<device, top, todo, user, bytes, chunk, written, signalled, taskletPc,
                   txQueued, txMapped, txLength, txBuf, transfers, fetched, reported, bounds>>

\* Mutant: the user's pointer is not advanced.
IssueAgain(w) ==
    /\ At(w, "issue")
    /\ transfers' = Append(transfers, [len |-> chunk[w], pos |-> 0])
    /\ user' = [user EXCEPT ![w] = SubSeq(@, 1, Len(@) - bytes[w])]
    /\ written' = [written EXCEPT ![w] = @ + bytes[w]]
    /\ Goto(w, IF user'[w] = <<>> THEN "last_wait" ELSE "wait")
    /\ UNCHANGED <<device, top, todo, bytes, chunk, signalled, taskletPc, driver, txBuf,
                   fetched, reported, bounds>>

\* dmaengine_submit, dma_async_issue_pending; buf, len and written_bytes move on
Issue(w) ==
    /\ At(w, "issue")
    /\ transfers' = Append(transfers, [len |-> chunk[w], pos |-> 0])
    /\ user' = [user EXCEPT ![w] = SubSeq(@, bytes[w] + 1, Len(@))]
    /\ written' = [written EXCEPT ![w] = @ + bytes[w]]
    /\ Goto(w, IF user'[w] = <<>> THEN "last_wait" ELSE "wait")
    /\ UNCHANGED <<device, top, todo, bytes, chunk, signalled, taskletPc, driver, txBuf,
                   fetched, reported, bounds>>

\* The system call returns written_bytes; a pending signal is delivered then.
Return(w) ==
    /\ At(w, "return")
    /\ reported' = reported + written[w]
    /\ signalled' = signalled \ {w}
    /\ Goto(w, "idle")
    /\ UNCHANGED <<device, top, todo, user, bytes, chunk, written, taskletPc, driver, txBuf,
                   transfers, fetched, bounds>>

WriterStep(w) ==
    \/ Call(w) \/ WaitEvent(w) \/ Copy(w) \/ SetLength(w) \/ Prepare(w)
    \/ LedOn(w) \/ Issue(w) \/ Return(w)

\* A signal for w: a sleeping writer tests its condition again.
Signal(w) ==
    /\ signals > 0 /\ ~At(w, "idle")
    /\ signals' = signals - 1
    /\ signalled' = signalled \cup {w}
    /\ wpc' = [wpc EXCEPT ![w] = IF @ = "asleep" THEN "wait"
                                 ELSE IF @ = "last_asleep" THEN "last_wait" ELSE @]
    /\ UNCHANGED <<device, top, todo, user, bytes, chunk, written, taskletPc, driver, txBuf,
                   transfers, fetched, reported, faults>>
-----------------------------------------------------------------------------
(* The DMA channel (external) and comento_dma_tx_callback. *)

MoveByte ==
    /\ transfers # <<>> /\ ~dmaTxBusy
    /\ transfers[1].pos < transfers[1].len
    /\ WriteDR(txBuf[transfers[1].pos + 1])
    /\ transfers' = [transfers EXCEPT ![1].pos = @ + 1]
    /\ UNCHANGED <<top, writer, taskletPc, driver, txBuf, fetched, reported, bounds>>

CompleteTransfer ==
    /\ taskletPc = "idle"
    /\ transfers # <<>> /\ transfers[1].pos = transfers[1].len
    /\ transfers' = Tail(transfers)
    /\ taskletPc' = "callback"
    /\ UNCHANGED <<device, top, writer, driver, txBuf, fetched, reported, bounds>>

\* dma_unmap_sg, tx.queued
CallbackClear ==
    /\ taskletPc = "callback"
    /\ txMapped' = txMapped - 1
    /\ txQueued' = FALSE
    /\ taskletPc' = "led_off"
    /\ UNCHANGED <<device, top, writer, txLength, ledRed, txBuf, transfers, fetched,
                   reported, bounds>>

CallbackLed ==
    /\ taskletPc = "led_off"
    /\ ledRed' = FALSE
    /\ taskletPc' = "wake"
    /\ UNCHANGED <<device, top, writer, txQueued, txMapped, txLength, txBuf, transfers,
                   fetched, reported, bounds>>

\* Mutant: the callback wakes only the writers in their last wait.
CallbackWakeLast ==
    /\ taskletPc = "wake"
    /\ wpc' = [w \in Writers |-> IF wpc[w] = "last_asleep" THEN "last_wait" ELSE wpc[w]]
    /\ taskletPc' = "idle"
    /\ UNCHANGED <<device, top, todo, user, bytes, chunk, written, signalled, driver, txBuf,
                   transfers, fetched, reported, bounds>>

\* wake_up_interruptible: every sleeper tests its condition again.
CallbackWake ==
    /\ taskletPc = "wake"
    /\ wpc' = [w \in Writers |-> IF wpc[w] = "asleep" THEN "wait"
                                 ELSE IF wpc[w] = "last_asleep" THEN "last_wait"
                                 ELSE wpc[w]]
    /\ taskletPc' = "idle"
    /\ UNCHANGED <<device, top, todo, user, bytes, chunk, written, signalled, driver, txBuf,
                   transfers, fetched, reported, bounds>>

TaskletStep == CompleteTransfer \/ CallbackClear \/ CallbackLed \/ CallbackWake
-----------------------------------------------------------------------------
(* The host and the interrupt handler. *)

HostFetches ==
    /\ GetData
    /\ fetched' = fetched \o txFifo
    /\ UNCHANGED <<top, writer, taskletPc, driver, txBuf, transfers, reported, bounds>>

Interrupt ==
    /\ InterruptStep
    /\ UNCHANGED <<writer, taskletPc, driver, txBuf, transfers, fetched, reported, bounds>>

Next ==
    \/ \E w \in Writers : WriterStep(w) \/ PrepareFails(w) \/ Signal(w)
    \/ MoveByte
    \/ TaskletStep
    \/ HostFetches
    \/ Interrupt

Spec == Init /\ [][Next]_vars

(***************************************************************************)
(* Fairness: processes run, softirqs and interrupts are served, the DMA    *)
(* controller moves what it may, and the host goes on fetching (without    *)
(* that the device stays full and a writer waits for ever, by design).     *)
(***************************************************************************)
FairSpec ==
    /\ Spec
    /\ \A w \in Writers : WF_vars(WriterStep(w))
    /\ WF_vars(MoveByte)
    /\ WF_vars(TaskletStep)
    /\ WF_vars(HostFetches)
    /\ WF_vars(Interrupt)
-----------------------------------------------------------------------------
(***************************************************************************)
(* Type invariant.                                                         *)
(***************************************************************************)
TxTypeOK ==
    /\ DeviceTypeOK /\ TopTypeOK
    /\ wpc \in [Writers -> {"idle", "wait", "asleep", "copy", "length", "prepare",
                            "led_on", "issue", "last_wait", "last_asleep", "return"}]
    /\ todo \in [Writers -> Seq(Seq(Data))]
    /\ user \in [Writers -> Seq(Data)]
    /\ bytes \in [Writers -> 0 .. TxBufSize]
    /\ chunk \in [Writers -> 0 .. TxBufSize]
    /\ written \in [Writers -> Nat]
    /\ signalled \subseteq Writers
    /\ taskletPc \in {"idle", "callback", "led_off", "wake"}
    /\ txQueued \in BOOLEAN /\ ledRed \in BOOLEAN
    /\ txMapped \in Int
    /\ txLength \in 0 .. TxBufSize
    /\ txBuf \in [1 .. TxBufSize -> Data \cup {Junk}]
    /\ transfers \in Seq([len : 0 .. TxBufSize, pos : 0 .. TxBufSize])
    /\ fetched \in Seq(Data)
    /\ reported \in Nat
    /\ signals \in 0 .. MaxSignals /\ faults \in 0 .. MaxFaults

(***************************************************************************)
(* The DMA controller reads tx.buf only while the driver knows of the      *)
(* transfer and has the buffer mapped, exactly once; when no write and no  *)
(* callback is under way nothing is mapped and the LED is off.             *)
(***************************************************************************)
OneTransferAtATime ==
    /\ Len(transfers) <= 1
    /\ transfers # <<>> => txQueued /\ txMapped = 1
    /\ (\A w \in Writers : At(w, "idle")) /\ taskletPc = "idle"
         => ~txQueued /\ txMapped = 0 /\ ~ledRed

(***************************************************************************)
(* Every write returns: no wake-up is lost, a signal or a failed transfer  *)
(* does not leave a writer asleep, and two writers do not block each other.*)
(***************************************************************************)
WritesReturn == \A w \in Writers : At(w, "wait") ~> At(w, "idle")

(***************************************************************************)
(* The stream that a single writer and the host have between them.         *)
(***************************************************************************)
TheWriter == CHOOSE w \in Writers : TRUE

InTransfer ==
    IF transfers = <<>> THEN <<>>
    ELSE SubSeq(txBuf, transfers[1].pos + 1, transfers[1].len)

Stream == INSTANCE ByteStream WITH
    Calls <- {Script[TheWriter][i] : i \in DOMAIN Script[TheWriter]},
    Capacity <- FifoSize - 1,
    pending <- InTransfer \o user[TheWriter],
    sent <- IF At(TheWriter, "idle") THEN 0 ELSE written[TheWriter] - Len(InTransfer),
    busy <- ~At(TheWriter, "idle"),
    disturbed <- FALSE,
    fifo <- txFifo

(***************************************************************************)
(* Without signals, the bytes of every write reach the host, in order; a   *)
(* write returns, and short only when a chunk could not be sent; what it   *)
(* reports is in the device by then.                                       *)
(***************************************************************************)
IsByteStream == Stream!FairSpec

(***************************************************************************)
(* The comment above the wait in comento_mmio_write: "if the DMA is at     *)
(* work, wait until it ends".  So tx.buf is not overwritten before that.   *)
(***************************************************************************)
WaitsForDma == [][txBuf' # txBuf => transfers = <<>>]_vars
=============================================================================
