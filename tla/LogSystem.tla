----------------------------- MODULE LogSystem -----------------------------
(***************************************************************************)
(* The log device with its Linux driver, in both versions: "log"           *)
(* (src/linux/mmio.c) writes byte by byte under the lock, "logdma"         *)
(* (week03/과제03/mmio-driver.c) through a DMA channel and without it: a    *)
(* step of its write() is the code between two accesses to what another    *)
(* writer or the callback can touch.  Users write, and may be sent a       *)
(* signal, which ends the waits of a DMA write; the ioctl tool             *)
(* (src/qemu/ioctl.c) erases the log; QEMU can be killed and started again *)
(* at any moment, and the guest with it.                                   *)
(*                                                                         *)
(* External: the rwlock; the wait queue, which loses no wake-up; the DMA   *)
(* channel, which runs its transfers one after another, a byte at a time,  *)
(* and completes each in a tasklet; the interrupt controller delivers the  *)
(* level interrupt again and again while it is high, and the kernel        *)
(* disables an interrupt that no handler claims.                           *)
(***************************************************************************)
EXTENDS LogDevice

CONSTANTS
    Versions,       \* the versions to check
    Writers,        \* users that write
    Messages,       \* what they write
    DmaBufSize,     \* COMENTO_DMA_BUFFER_SIZE
    Junk,           \* what tx.buf holds before the first write
    UnclaimedLimit, \* interrupts nobody claims before the kernel gives up
    Budgets         \* how often each thing happens, one of: bounds the runs

Bytes == UNION {{m[i] : i \in DOMAIN m} : m \in Messages}
Cells == Bytes \cup {Junk}

ASSUME LogVersionsAssumption == Versions \subseteq {"log", "logdma"}
ASSUME LogMessagesAssumption == Messages \subseteq Seq(Bytes)
ASSUME LogSizesAssumption == DmaBufSize \in Nat \ {0} /\ UnclaimedLimit \in Nat \ {0}
Events == {"writes", "erasures", "restarts", "faults", "signals"}
ASSUME LogBudgetAssumption == Budgets \subseteq [Events -> Nat]

VARIABLES
    version,    \* the driver of the guest
    pc,         \* where each writer is
    todo,       \* what is left of its message
    holder,     \* the writers that hold cmdev->lock
    chunk,      \* the length of the transfer a writer has prepared
    signalled,  \* the writers with a signal pending
    disturbed,  \* (history) since the start, two DMA writes have overlapped
                \* or one was sent a signal
    txQueued,   \* tx.queued
    txLength,   \* tx.sg.length
    txBuf,      \* tx.buf
    transfers,  \* the transfers issued: their length and how far they are
    callback,   \* the callback of a complete transfer is to run
    irqPc,      \* where the handler is: "idle", "read" or "ack"
    unclaimed,  \* interrupts that the handler returned IRQ_NONE for
    disabled,   \* the kernel has disabled the interrupt
    left        \* what remains of the budget

dmaWrite == <<chunk, signalled, disturbed>>
writers == <<pc, todo, holder, dmaWrite>>
buffer  == <<txLength, txBuf>>
channel == <<transfers, callback>>
dma     == <<txQueued, buffer, channel>>
top     == <<irqPc, unclaimed, disabled>>
vars    == <<device, version, writers, dma, top, left>>

Spend(what) == left[what] > 0 /\ left' = [left EXCEPT ![what] = @ - 1]

\* What probe() has unmasked; RX_EMPTY is comento_dma_probe's.
Unmasked == {"RX", "TX"} \cup (IF version = "logdma" THEN {"RX_EMPTY"} ELSE {})

Idle    == [w \in Writers |-> "idle"]
Nothing == [w \in Writers |-> <<>>]
NoChunk == [w \in Writers |-> 0]
Fresh   == [i \in 1 .. DmaBufSize |-> Junk]

LogInit ==
    /\ version \in Versions
    /\ log = <<>> /\ logFile = "named"
    /\ ris = {} /\ irq = FALSE /\ imsc = Unmasked
    /\ pc = Idle /\ todo = Nothing /\ holder = {}
    /\ chunk = NoChunk /\ signalled = {} /\ disturbed = FALSE
    /\ txQueued = FALSE /\ txLength = DmaBufSize /\ txBuf = Fresh
    /\ transfers = <<>> /\ callback = FALSE
    /\ irqPc = "idle" /\ unclaimed = 0 /\ disabled = FALSE
    /\ left \in Budgets

\* QEMU is killed and started again, and the guest with it; the log file
\* may fail to open.
Restart ==
    /\ Spend("restarts")
    /\ \E handle \in {"named", "none"} : OpenLog(handle)
    /\ ris' = {} /\ irq' = FALSE /\ imsc' = Unmasked
    /\ pc' = Idle /\ todo' = Nothing /\ holder' = {}
    /\ chunk' = NoChunk /\ signalled' = {} /\ disturbed' = FALSE
    /\ txQueued' = FALSE /\ txLength' = DmaBufSize /\ txBuf' = Fresh
    /\ transfers' = <<>> /\ callback' = FALSE
    /\ irqPc' = "idle" /\ unclaimed' = 0 /\ disabled' = FALSE
    /\ UNCHANGED version
-----------------------------------------------------------------------------
(* comento_mmio_write *)

At(w, label) == pc[w] = label
Goto(w, label) == pc' = [pc EXCEPT ![w] = label]

\* Top of the DMA version's loop: while (len > 0).
Loop(message) == IF message = <<>> THEN "last" ELSE "wait"

\* A user calls write(); the DMA version takes no lock.
BeginWrite(w, m) ==
    /\ At(w, "idle")
    /\ Spend("writes")
    /\ Goto(w, IF version = "log" THEN "lock" ELSE Loop(m))
    /\ todo' = [todo EXCEPT ![w] = m]
    /\ disturbed' = (disturbed \/ (version = "logdma" /\ pc # Idle))
    /\ UNCHANGED <<device, version, holder, chunk, signalled, dma, top>>

\* Mutant: write() does not take the lock.
LockIgnored(w) ==
    /\ At(w, "lock")
    /\ Goto(w, "put")
    /\ UNCHANGED <<device, version, todo, holder, dmaWrite, dma, top, left>>

\* write_lock
Lock(w) ==
    /\ At(w, "lock") /\ holder = {}
    /\ holder' = {w}
    /\ Goto(w, "put")
    /\ UNCHANGED <<device, version, todo, dmaWrite, dma, top, left>>

\* writel to DR: the next byte of the message, whichever chunk of it
\* copy_from_user has brought in.
PutByte(w) ==
    /\ At(w, "put") /\ todo[w] # <<>>
    /\ WriteDR(Head(todo[w]))
    /\ todo' = [todo EXCEPT ![w] = Tail(@)]
    /\ UNCHANGED <<version, pc, holder, dmaWrite, dma, top, left>>

\* Mutant: the lock is kept.
UnlockForgotten(w) ==
    /\ At(w, "put") /\ todo[w] = <<>>
    /\ Goto(w, "idle")
    /\ UNCHANGED <<device, version, todo, holder, dmaWrite, dma, top, left>>

\* write_unlock, and the call returns.
Unlock(w) ==
    /\ At(w, "put") /\ todo[w] = <<>>
    /\ holder' = holder \ {w}
    /\ Goto(w, "idle")
    /\ UNCHANGED <<device, version, todo, dmaWrite, dma, top, left>>

\* Mutant: the next chunk does not wait for the transfer under way.
WaitNever(w) ==
    /\ At(w, "wait")
    /\ Goto(w, "copy")
    /\ UNCHANGED <<device, version, todo, holder, dmaWrite, dma, top, left>>

\* wait_event_interruptible(tx_wq, !tx.queued), its result ignored
WaitEvent(w) ==
    /\ At(w, "wait") /\ (~txQueued \/ w \in signalled)
    /\ Goto(w, "copy")
    /\ UNCHANGED <<device, version, todo, holder, dmaWrite, dma, top, left>>

\* bytes: what copy_from_user brings in of the user's buffer
ChunkOf(w) == IF Len(todo[w]) < DmaBufSize THEN Len(todo[w]) ELSE DmaBufSize

Copy(w) ==
    /\ At(w, "copy")
    /\ txBuf' = [i \in 1 .. DmaBufSize |->
                   IF i <= ChunkOf(w) THEN todo[w][i] ELSE txBuf[i]]
    /\ Goto(w, "length")
    /\ UNCHANGED <<device, version, todo, holder, dmaWrite, txQueued, txLength, channel,
                   top, left>>

\* tx.sg.length
SetLength(w) ==
    /\ At(w, "length")
    /\ txLength' = ChunkOf(w)
    /\ Goto(w, "prepare")
    /\ UNCHANGED <<device, version, todo, holder, dmaWrite, txQueued, txBuf, channel,
                   top, left>>

\* dma_map_sg, dmaengine_prep_slave_sg, tx.queued
Prepare(w) ==
    /\ At(w, "prepare")
    /\ chunk' = [chunk EXCEPT ![w] = txLength]
    /\ txQueued' = TRUE
    /\ Goto(w, "issue")
    /\ UNCHANGED <<device, version, todo, holder, signalled, disturbed, buffer, channel,
                   top, left>>

\* Mapping the buffer or preparing the transfer fails: break.
PrepareFails(w) ==
    /\ At(w, "prepare")
    /\ Spend("faults")
    /\ todo' = [todo EXCEPT ![w] = <<>>]
    /\ Goto(w, "last")
    /\ UNCHANGED <<device, version, holder, dmaWrite, dma, top>>

\* Mutant: the user's pointer is not advanced, only what is left of len.
IssueAgain(w) ==
    /\ At(w, "issue")
    /\ transfers' = Append(transfers, [len |-> chunk[w], pos |-> 0])
    /\ todo' = [todo EXCEPT ![w] = SubSeq(@, 1, Len(@) - ChunkOf(w))]
    /\ Goto(w, Loop(todo'[w]))
    /\ UNCHANGED <<device, version, holder, dmaWrite, txQueued, buffer, callback, top, left>>

\* dmaengine_submit, dma_async_issue_pending; buf and len move on.
Issue(w) ==
    /\ At(w, "issue")
    /\ transfers' = Append(transfers, [len |-> chunk[w], pos |-> 0])
    /\ todo' = [todo EXCEPT ![w] = SubSeq(@, ChunkOf(w) + 1, Len(@))]
    /\ Goto(w, Loop(todo'[w]))
    /\ UNCHANGED <<device, version, holder, dmaWrite, txQueued, buffer, callback, top, left>>

\* The last wait_event_interruptible, and the call returns; a pending signal
\* is delivered then.
ReturnDma(w) ==
    /\ At(w, "last") /\ (~txQueued \/ w \in signalled)
    /\ Goto(w, "idle")
    /\ signalled' = signalled \ {w}
    /\ UNCHANGED <<device, version, todo, holder, chunk, disturbed, dma, top, left>>

\* A DMA write is sent a signal; the first version has no wait to end.
Signal(w) ==
    /\ version = "logdma" /\ ~At(w, "idle")
    /\ Spend("signals")
    /\ signalled' = signalled \cup {w} /\ disturbed' = TRUE
    /\ UNCHANGED <<device, version, pc, todo, holder, chunk, dma, top>>

\* The channel moves a byte of its first transfer (external).
MoveByte ==
    /\ transfers # <<>> /\ transfers[1].pos < transfers[1].len
    /\ WriteDR(txBuf[transfers[1].pos + 1])
    /\ transfers' = [transfers EXCEPT ![1].pos = @ + 1]
    /\ UNCHANGED <<version, writers, txQueued, buffer, callback, top, left>>

\* The transfer is over; its callback is scheduled (external).
Complete ==
    /\ transfers # <<>> /\ transfers[1].pos = transfers[1].len /\ ~callback
    /\ transfers' = Tail(transfers) /\ callback' = TRUE
    /\ UNCHANGED <<device, version, writers, txQueued, buffer, top, left>>

\* comento_dma_tx_callback
TxCallback ==
    /\ callback
    /\ callback' = FALSE
    /\ txQueued' = FALSE
    /\ UNCHANGED <<device, version, writers, buffer, transfers, top, left>>
-----------------------------------------------------------------------------
(* comento_mmio_ioctl, in either version: LDR is written under the lock. *)

RemoveLog ==
    /\ holder = {}
    /\ Spend("erasures")
    /\ WriteLDR
    /\ UNCHANGED <<version, writers, dma, top>>
-----------------------------------------------------------------------------
(* comento_mmio_interrupt *)

TakeInterrupt ==
    /\ irq /\ ~disabled /\ irqPc = "idle"
    /\ irqPc' = "read"
    /\ UNCHANGED <<device, version, writers, dma, unclaimed, disabled, left>>

\* The handler returns IRQ_NONE; in the end the kernel disables the line.
Unclaimed ==
    /\ unclaimed' = unclaimed + 1
    /\ disabled' = (unclaimed + 1 = UnclaimedLimit)
    /\ irqPc' = "idle"

\* Mutant: both versions return before they look at RX.
BranchesTxOnly == {"TX"}

\* The MIS bits the handler has a branch for: the DMA version returns
\* before it looks at RX.
Branches == IF version = "log" THEN {"TX", "RX"} ELSE {"TX"}

ReadMIS ==
    /\ irqPc = "read"
    /\ IF MIS \cap Branches = {} THEN Unclaimed
                                 ELSE irqPc' = "ack" /\ UNCHANGED <<unclaimed, disabled>>
    /\ UNCHANGED <<device, version, writers, dma, left>>

\* Mutant: the handler of the first version does not acknowledge RX.
AckForgotten ==
    /\ irqPc = "ack"
    /\ WriteICR(MIS \cap {"TX"})
    /\ irqPc' = "idle"
    /\ UNCHANGED <<version, writers, dma, unclaimed, disabled, left>>

\* writel to ICR, TX before RX, one a call.  MIS is still what was read:
\* all that the device can raise meanwhile is RX, which is up already.
AckInterrupt ==
    /\ irqPc = "ack"
    /\ WriteICR(IF "TX" \in MIS THEN {"TX"} ELSE {"RX"})
    /\ irqPc' = "idle"
    /\ UNCHANGED <<version, writers, dma, unclaimed, disabled, left>>
-----------------------------------------------------------------------------
WriterStep(w) ==
    \/ Lock(w) \/ PutByte(w) \/ Unlock(w)
    \/ WaitEvent(w) \/ Copy(w) \/ SetLength(w) \/ Prepare(w) \/ PrepareFails(w)
    \/ Issue(w) \/ ReturnDma(w)

DmaStep == MoveByte \/ Complete \/ TxCallback
HandlerStep == TakeInterrupt \/ ReadMIS \/ AckInterrupt

LogNext ==
    \/ \E w \in Writers, m \in Messages : BeginWrite(w, m)
    \/ \E w \in Writers : WriterStep(w) \/ Signal(w)
    \/ DmaStep
    \/ HandlerStep
    \/ RemoveLog
    \/ Restart

\* CPUs run what is runnable, the lock is queued, the channel works.
LogSpec ==
    /\ LogInit /\ [][LogNext]_vars
    /\ \A w \in Writers : WF_vars(WriterStep(w))
    /\ WF_vars(DmaStep) /\ WF_vars(HandlerStep)
-----------------------------------------------------------------------------
\* Type invariant.
LogTypeOK ==
    /\ version \in Versions
    /\ log \in Seq(Cells) /\ logFile \in {"none", "named", "nameless"}
    /\ ris \subseteq {"RX"} /\ imsc \subseteq {"RX", "TX", "RX_EMPTY"}
    /\ pc \in [Writers -> {"idle", "lock", "put", "wait", "copy", "length", "prepare",
                           "issue", "last"}]
    /\ todo \in [Writers -> Seq(Bytes)]
    /\ holder \subseteq Writers /\ \A v, w \in holder : v = w
    /\ chunk \in [Writers -> 0 .. DmaBufSize]
    /\ signalled \subseteq Writers /\ disturbed \in BOOLEAN
    /\ txQueued \in BOOLEAN /\ callback \in BOOLEAN
    /\ txLength \in 0 .. DmaBufSize
    /\ txBuf \in [1 .. DmaBufSize -> Cells]
    /\ transfers \in Seq([len : 0 .. DmaBufSize, pos : 0 .. DmaBufSize])
    /\ irqPc \in {"idle", "read", "ack"} /\ unclaimed \in 0 .. UnclaimedLimit
    /\ irq = (MIS # {})
    /\ left \in [Events -> Nat]

\* What has been handed over and is not in the log yet: the transfer under
\* way, or the message of the writer that holds the lock.
Deaf == logFile # "named"
InTransfer == IF transfers = <<>> THEN <<>>
              ELSE SubSeq(txBuf, transfers[1].pos + 1, transfers[1].len)
InHand == IF holder = {} THEN InTransfer ELSE todo[CHOOSE w \in holder : TRUE]
Owed == IF Deaf THEN log ELSE log \o InHand

KeepsApart == version = "log"
Calling == {w \in Writers : ~At(w, "idle")}
Rest == [w \in Writers |-> IF w \in holder THEN <<>> ELSE todo[w]]
Ahead == [what \in {"erasures", "restarts", "faults", "signals"} |-> left[what]]

AbstractLog == INSTANCE Journal WITH
    Callers <- Writers, Texts <- Messages, shown <- log, owed <- Owed, deaf <- Deaf,
    keepsApart <- KeepsApart, calling <- Calling, rest <- Rest, ahead <- Ahead

\* Both versions keep the promise of the abstract log: the bytes of each
\* write() appear once and in order, and are in the log when it returns,
\* until an erasure makes the device deaf; a failure of the DMA makes a
\* write stop early, and a restart neither loses nor repeats what has
\* appeared.  The version with a lock promises it to any number of writers;
\* the DMA version, which waits and fills its buffer without one, as long as
\* its calls do not overlap and none is sent a signal.
IsJournal == AbstractLog!Spec

\* The handler of the first version finds a reason each time it is called,
\* so that the kernel never takes the interrupt away from it.
EveryInterruptClaimed == version = "log" => unclaimed = 0 /\ ~disabled

\* An erasure that raises the line has it served, or, in the version that
\* returns too early, disabled: the storm ends.
StormEnds == irq ~> (~irq \/ disabled)

\* Every write() returns, also while the interrupt storms.
WriteReturns == \A w \in Writers : pc[w] # "idle" ~> pc[w] = "idle"
=============================================================================
