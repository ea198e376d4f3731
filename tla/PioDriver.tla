----------------------------- MODULE PioDriver -----------------------------
(***************************************************************************)
(* The programmed-I/O driver of week 2 (week02/mmio-driver.c) and its      *)
(* peripheral (week02/mmio.c), which has neither DMA nor RX_EMPTY.  The    *)
(* driver's write() takes the lock for the whole call and pushes byte by   *)
(* byte, asleep while the FIFO is full; a bottom half drains the receive   *)
(* FIFO into rx_buf under the same lock; read() copies from there.         *)
(*                                                                         *)
(* Both interrupts stay unmasked after probe, so MIS is RIS and the line   *)
(* is high while RIS is not empty.                                         *)
(*                                                                         *)
(* The lock is a spinlock: who waits for it, and who holds it awake, keeps *)
(* a CPU to itself.  A writer asleep with the lock held has none, and with *)
(* a spinner on each of them it never gets one again.                      *)
(*                                                                         *)
(* External: interrupt controller, wait queue and work queue; signals; the *)
(* scheduler and the rwlock.  Interrupts are served on CPUs that spin too. *)
(***************************************************************************)
EXTENDS Integers, Sequences, FiniteSets

CONSTANTS
    Data,
    Junk,         \* what rx_buf holds at first
    FifoSize,     \* COMENTO_FIFO_SIZE, in the peripheral and in the driver
    Letters,      \* what the host sends, in this order
    ReadSizes,    \* how many bytes a reader may ask for
    Writers,      \* the processes that write
    NoOne,        \* not one of them, nor the bottom half
    Script,       \* Script[w]: the buffers w writes, one call each
    Cpus,         \* how many CPUs the guest has
    MaxReads,     \* bound: reads and openings of the file
    MaxSignals,   \* bound: signals
    MaxActs       \* bound: how often host, reader and signals act in all

ASSUME PioSizeAssumption == FifoSize \in Nat /\ FifoSize >= 2
ASSUME PioLettersAssumption == Letters \in Seq(Seq(Data) \ {<<>>})
ASSUME PioReadSizesAssumption == ReadSizes \subseteq Nat
ASSUME PioScriptAssumption == Script \in [Writers -> Seq(Seq(Data))]
ASSUME PioNamesAssumption ==
    /\ NoOne \notin Writers \cup {"rx_work", "reader"}
    /\ Writers \cap {"rx_work", "reader"} = {}
ASSUME PioBoundsAssumption ==
    Cpus \in Nat \ {0} /\ MaxReads \in Nat /\ MaxSignals \in Nat /\ MaxActs \in Nat

VARIABLES
    flag, ris, txFifo, rxFifo,  \* struct MMIO_COMENTO_State
    lock,       \* who has write_lock
    onCpu,      \* who holds the lock awake or spins on it
    irqPc,      \* the handler: "idle", "read", "ack", "act"
    irqBit,     \* the interrupt it found; "TX" when it has none in hand
    workPending,
    workPc,     \* rx_work: "idle", "lock", "drain"
    count,      \* i in rx_work; 0 while it does not run
    rxBuf, rxSize,      \* cmdev->rx_buf, cmdev->rx_size
    ppos, got,  \* the reader's file position and what its last read returned
    wpc,        \* the writers: "idle", "lock", "wait", "asleep", "put"
    todo,       \* the calls still to make
    user,       \* what is left of the current one
    written,    \* how much of it has been written
    signalled,  \* writers with a signal pending
    hasty,      \* the host's last message did not wait for the one before
    fetched,    \* what the host has fetched
    reported,   \* what the writes returned, summed up
    letters,        \* what the host has still to send
    reads, signals  \* what is left of the bounds

registers == <<flag, ris, txFifo, rxFifo>>
sync      == <<lock, onCpu>>
handler   == <<irqPc, irqBit>>
work      == <<workPending, workPc, count, rxBuf, rxSize>>
reader    == <<ppos, got>>
writer    == <<wpc, todo, user, written, signalled>>
ghosts    == <<hasty, fetched, reported>>
bounds    == <<letters, reads, signals>>
vars      == <<registers, sync, handler, work, reader, writer, ghosts, bounds>>

Init ==
    /\ flag = {"TXFE", "RXFE"} /\ ris = {}
    /\ txFifo = <<>> /\ rxFifo = <<>>
    /\ lock = NoOne /\ onCpu = {}
    /\ irqPc = "idle" /\ irqBit = "TX"
    /\ workPending = FALSE /\ workPc = "idle" /\ count = 0
    /\ rxBuf = [i \in 1 .. FifoSize |-> Junk] /\ rxSize = 0
    /\ ppos = 0 /\ got = <<>>
    /\ wpc = [w \in Writers |-> "idle"]
    /\ todo = Script
    /\ user = [w \in Writers |-> <<>>]
    /\ written = [w \in Writers |-> 0]
    /\ signalled = {}
    /\ hasty = FALSE /\ fetched = <<>> /\ reported = 0
    /\ letters = Letters /\ reads = MaxReads /\ signals = MaxSignals

At(w, label) == wpc[w] = label
Goto(w, label) == wpc' = [wpc EXCEPT ![w] = label]

CpuFree == Cardinality(onCpu) < Cpus
Runs(t) == t \in onCpu \/ CpuFree

\* A bound; a read that has begun to spin goes on.
MayAct == (Len(Letters) - Len(letters)) + (MaxReads - reads) + (MaxSignals - signals)
            < MaxActs

\* Every CPU spins on a lock whose holder has none.
Wedged == lock \in Writers /\ lock \notin onCpu /\ ~CpuFree
-----------------------------------------------------------------------------
(* The peripheral.  A ring of FifoSize slots holds FifoSize - 1 bytes. *)

\* Mutant: the ring uses its last slot too.
IsFullUsingEverySlot(fifo) == Len(fifo) = FifoSize

IsFull(fifo) == Len(fifo) = FifoSize - 1
Room(fifo)   == FifoSize - 1 - Len(fifo)

ReadDR ==
    /\ rxFifo' = IF rxFifo = <<>> THEN <<>> ELSE Tail(rxFifo)
    /\ flag' = IF rxFifo' = <<>> THEN (flag \ {"RXFF"}) \cup {"RXFE"} ELSE flag
    /\ ris' = IF rxFifo' = <<>> THEN ris \ {"RX"} ELSE ris
    /\ UNCHANGED txFifo

WriteDR(byte) ==
    /\ txFifo' = IF IsFull(txFifo) THEN txFifo ELSE Append(txFifo, byte)
    /\ flag' = (flag \ {"TXFE"}) \cup (IF IsFull(txFifo') THEN {"TXFF"} ELSE {})
    /\ ris' = IF IsFull(txFifo') THEN ris \ {"TX"} ELSE ris
    /\ UNCHANGED rxFifo

\* The bits are toggled.
WriteICR(bits) ==
    /\ ris' = (ris \ bits) \cup (bits \ ris)
    /\ UNCHANGED <<flag, txFifo, rxFifo>>

GetData ==
    /\ txFifo' = <<>>
    /\ flag' = (flag \ {"TXFF"}) \cup {"TXFE"}
    /\ ris' = ris \cup {"TX"}
    /\ UNCHANGED rxFifo

SetData(msg) ==
    /\ rxFifo' = rxFifo \o SubSeq(msg, 1, IF Len(msg) < Room(rxFifo) THEN Len(msg)
                                                                    ELSE Room(rxFifo))
    /\ flag' = (flag \ {"RXFE"}) \cup (IF IsFull(rxFifo') THEN {"RXFF"} ELSE {})
    /\ ris' = ris \cup {"RX"}
    /\ UNCHANGED txFifo
-----------------------------------------------------------------------------
(* The host. *)

ReceptionRests ==
    /\ rxFifo = <<>> /\ "RX" \notin ris
    /\ irqBit = "TX"
    /\ ~workPending /\ workPc = "idle"

\* The host need not wait for reception to rest.  Bound: it does not refill
\* the FIFO under the loop of rx_work so fast that the loop runs over rx_buf.
HostSends ==
    /\ letters # <<>> /\ MayAct
    /\ letters' = Tail(letters)
    /\ SetData(Head(letters))
    /\ workPc = "drain" => count + Len(rxFifo') <= FifoSize
    /\ hasty' = ~ReceptionRests
    /\ UNCHANGED <<sync, handler, work, reader, writer, fetched, reported, reads, signals>>

HostFetches ==
    /\ GetData
    /\ fetched' = fetched \o txFifo
    /\ UNCHANGED <<sync, handler, work, reader, writer, hasty, reported, bounds>>
-----------------------------------------------------------------------------
(* comento_mmio_interrupt *)

TakeInterrupt ==
    /\ ris # {} /\ irqPc = "idle"
    /\ irqPc' = "read"
    /\ UNCHANGED <<registers, sync, irqBit, work, reader, writer, ghosts, bounds>>

\* readl(MIS); TX is served first, with nothing to serve it is IRQ_NONE.
ReadMIS ==
    /\ irqPc = "read"
    /\ IF ris = {} THEN irqPc' = "idle" /\ UNCHANGED irqBit
       ELSE irqPc' = "ack" /\ irqBit' = IF "TX" \in ris THEN "TX" ELSE "RX"
    /\ UNCHANGED <<registers, sync, work, reader, writer, ghosts, bounds>>

AckInterrupt ==
    /\ irqPc = "ack"
    /\ WriteICR({irqBit})
    /\ irqPc' = "act"
    /\ UNCHANGED <<sync, irqBit, work, reader, writer, ghosts, bounds>>

\* Mutant: one of the sleepers is enough to wake, and it may be none.
WakeNobody ==
    /\ irqPc = "act" /\ irqBit = "TX"
    /\ UNCHANGED wpc
    /\ irqPc' = "idle"
    /\ UNCHANGED <<registers, sync, irqBit, work, reader, todo, user, written,
                   signalled, ghosts, bounds>>

\* wake_up_interruptible: sleepers test the flag again.
WakeUp ==
    /\ irqPc = "act" /\ irqBit = "TX"
    /\ wpc' = [w \in Writers |-> IF wpc[w] = "asleep" THEN "wait" ELSE wpc[w]]
    /\ irqPc' = "idle"
    /\ UNCHANGED <<registers, sync, irqBit, work, reader, todo, user, written,
                   signalled, ghosts, bounds>>

\* schedule_work
ScheduleWork ==
    /\ irqPc = "act" /\ irqBit = "RX"
    /\ workPending' = TRUE
    /\ irqPc' = "idle" /\ irqBit' = "TX"
    /\ UNCHANGED <<registers, sync, workPc, count, rxBuf, rxSize, reader, writer,
                   ghosts, bounds>>

Interrupt == TakeInterrupt \/ ReadMIS \/ AckInterrupt \/ WakeUp \/ ScheduleWork
-----------------------------------------------------------------------------
(* comento_mmio_rx_work_handler *)

TakeWork ==
    /\ workPending /\ workPc = "idle" /\ CpuFree
    /\ workPending' = FALSE
    /\ workPc' = "lock"
    /\ UNCHANGED <<registers, sync, handler, count, rxBuf, rxSize, reader, writer,
                   ghosts, bounds>>

\* write_lock; i is 0
WorkLock ==
    /\ workPc = "lock" /\ lock = NoOne /\ Runs("rx_work")
    /\ lock' = "rx_work" /\ onCpu' = onCpu \cup {"rx_work"}
    /\ workPc' = "drain"
    /\ UNCHANGED <<registers, handler, workPending, count, rxBuf, rxSize, reader, writer,
                   ghosts, bounds>>

\* Mutant: the size is taken before the last byte is counted.
DrainUncounted ==
    /\ workPc = "drain" /\ "RXFE" \notin flag
    /\ ReadDR
    /\ rxBuf' = [rxBuf EXCEPT ![count + 1] = Head(rxFifo)]
    /\ count' = IF Len(rxFifo) = 1 THEN count ELSE count + 1
    /\ UNCHANGED <<sync, handler, workPending, workPc, rxSize, reader, writer,
                   ghosts, bounds>>

\* One round of the loop: FR shows a byte, rx_buf[i++] = readl(DR).
Drain ==
    /\ workPc = "drain" /\ "RXFE" \notin flag
    /\ ReadDR
    /\ rxBuf' = [rxBuf EXCEPT ![count + 1] = Head(rxFifo)]
    /\ count' = count + 1
    /\ UNCHANGED <<sync, handler, workPending, workPc, rxSize, reader, writer,
                   ghosts, bounds>>

\* FR shows none: rx_size = i, write_unlock
WorkUnlock ==
    /\ workPc = "drain" /\ "RXFE" \in flag
    /\ rxSize' = count /\ count' = 0
    /\ lock' = NoOne /\ onCpu' = onCpu \ {"rx_work"}
    /\ workPc' = "idle"
    /\ UNCHANGED <<registers, handler, workPending, rxBuf, reader, writer,
                   ghosts, bounds>>

WorkStep == TakeWork \/ WorkLock \/ Drain \/ WorkUnlock
-----------------------------------------------------------------------------
(* comento_mmio_read, once it has the lock a step of its own: read_lock    *)
(* keeps rx_work out, and nobody else touches what it reads. *)

\* Mutant: the offset is left out of what there is to copy.
ReadFromStart(len) ==
    /\ reads > 0 /\ (MayAct \/ "reader" \in onCpu)
    /\ lock = NoOne /\ Runs("reader")
    /\ onCpu' = onCpu \ {"reader"}
    /\ reads' = reads - 1
    /\ LET n == IF rxSize > len THEN len ELSE rxSize
       IN  /\ got' = [i \in 1 .. n |-> rxBuf[ppos + i]]
           /\ ppos' = ppos + n
    /\ UNCHANGED <<registers, lock, handler, work, writer, ghosts, letters, signals>>

\* Past rx_size the length is negative, copy_to_user refuses what it becomes
\* as a size_t, and nothing is copied.
Read(len) ==
    /\ reads > 0 /\ (MayAct \/ "reader" \in onCpu)
    /\ lock = NoOne /\ Runs("reader")
    /\ onCpu' = onCpu \ {"reader"}
    /\ reads' = reads - 1
    /\ LET n == IF rxSize > len + ppos THEN len
                ELSE IF rxSize >= ppos THEN rxSize - ppos ELSE 0
       IN  /\ got' = [i \in 1 .. n |-> rxBuf[ppos + i]]
           /\ ppos' = ppos + n
    /\ UNCHANGED <<registers, lock, handler, work, writer, ghosts, letters, signals>>

Open ==
    /\ reads > 0 /\ MayAct /\ ppos # 0 /\ "reader" \notin onCpu /\ CpuFree
    /\ reads' = reads - 1
    /\ ppos' = 0
    /\ UNCHANGED <<registers, sync, handler, work, got, writer, ghosts, letters, signals>>
-----------------------------------------------------------------------------
(* comento_mmio_write *)

Call(w) ==
    /\ At(w, "idle") /\ todo[w] # <<>> /\ CpuFree
    /\ todo' = [todo EXCEPT ![w] = Tail(@)]
    /\ user' = [user EXCEPT ![w] = Head(todo[w])]
    /\ Goto(w, "lock")
    /\ UNCHANGED <<registers, sync, handler, work, reader, written, signalled, ghosts, bounds>>

\* Mutant: write_lock is left to the bottom half.
WriteLockOpen(w) ==
    /\ At(w, "lock") /\ lock # "rx_work" /\ Runs(w)
    /\ lock' = w /\ onCpu' = onCpu \cup {w}
    /\ written' = [written EXCEPT ![w] = 0]
    /\ Goto(w, "wait")
    /\ UNCHANGED <<registers, handler, work, reader, todo, user, signalled, ghosts, bounds>>

\* write_lock
WriteLock(w) ==
    /\ At(w, "lock") /\ lock = NoOne /\ Runs(w)
    /\ lock' = w /\ onCpu' = onCpu \cup {w}
    /\ written' = [written EXCEPT ![w] = 0]
    /\ Goto(w, "wait")
    /\ UNCHANGED <<registers, handler, work, reader, todo, user, signalled, ghosts, bounds>>

\* Mutant: the driver does not wait for room.
WaitNever(w) ==
    /\ At(w, "wait") /\ user[w] # <<>> /\ Runs(w)
    /\ onCpu' = onCpu \cup {w}
    /\ Goto(w, "put")
    /\ UNCHANGED <<registers, lock, handler, work, reader, todo, user, written,
                   signalled, ghosts, bounds>>

\* wait_event_interruptible(tx_wq, !(FR & TXFF)) before every byte: over when
\* there is room or with a signal pending, otherwise the writer sleeps, with
\* the lock held and without a CPU.
WaitEvent(w) ==
    /\ At(w, "wait") /\ user[w] # <<>> /\ Runs(w)
    /\ IF "TXFF" \notin flag \/ w \in signalled
       THEN Goto(w, "put") /\ onCpu' = onCpu \cup {w}
       ELSE Goto(w, "asleep") /\ onCpu' = onCpu \ {w}
    /\ UNCHANGED <<registers, lock, handler, work, reader, todo, user, written,
                   signalled, ghosts, bounds>>

\* writel(mmio_buf[i], DR), whatever ended the wait
Put(w) ==
    /\ At(w, "put")
    /\ WriteDR(Head(user[w]))
    /\ user' = [user EXCEPT ![w] = Tail(@)]
    /\ written' = [written EXCEPT ![w] = @ + 1]
    /\ Goto(w, "wait")
    /\ UNCHANGED <<sync, handler, work, reader, todo, signalled, ghosts, bounds>>

\* len is 0: write_unlock, return; a pending signal is delivered then.
WriteUnlock(w) ==
    /\ At(w, "wait") /\ user[w] = <<>> /\ Runs(w)
    /\ lock' = NoOne /\ onCpu' = onCpu \ {w}
    /\ reported' = reported + written[w]
    /\ signalled' = signalled \ {w}
    /\ Goto(w, "idle")
    /\ UNCHANGED <<registers, handler, work, reader, todo, user, written, hasty, fetched, bounds>>

WriterStep(w) ==
    Call(w) \/ WriteLock(w) \/ WaitEvent(w) \/ Put(w) \/ WriteUnlock(w)

Signal(w) ==
    /\ signals > 0 /\ MayAct /\ ~At(w, "idle")
    /\ signals' = signals - 1
    /\ signalled' = signalled \cup {w}
    /\ wpc' = [wpc EXCEPT ![w] = IF @ = "asleep" THEN "wait" ELSE @]
    /\ UNCHANGED <<registers, sync, handler, work, reader, todo, user, written,
                   ghosts, letters, reads>>
-----------------------------------------------------------------------------
WaitsForLock(t) ==
    CASE t = "rx_work" -> workPc = "lock"
      [] t = "reader"  -> reads > 0 /\ MayAct
      [] OTHER         -> At(t, "lock")

\* t finds the lock taken and spins; nothing takes its CPU away.
Spin(t) ==
    /\ WaitsForLock(t) /\ lock # NoOne /\ t \notin onCpu /\ CpuFree
    /\ onCpu' = onCpu \cup {t}
    /\ UNCHANGED <<registers, lock, handler, work, reader, writer, ghosts, bounds>>

Next ==
    \/ \E t \in Writers \cup {"rx_work", "reader"} : Spin(t)
    \/ HostSends
    \/ HostFetches
    \/ Interrupt
    \/ WorkStep
    \/ \E len \in ReadSizes : Read(len)
    \/ Open
    \/ \E w \in Writers : WriterStep(w) \/ Signal(w)

Spec == Init /\ [][Next]_vars

SpinningRead == "reader" \in onCpu /\ \E len \in ReadSizes : Read(len)

(***************************************************************************)
(* Fairness: processes and the worker run if a CPU is left for them, a     *)
(* lock that is free is taken in the end, interrupts are served and the    *)
(* host goes on fetching.                                                  *)
(***************************************************************************)
FairSpec ==
    /\ Spec
    /\ \A w \in Writers : WF_vars(WriterStep(w))
    /\ WF_vars(WorkStep) /\ WF_vars(SpinningRead)
    /\ WF_vars(Interrupt) /\ WF_vars(HostFetches)
-----------------------------------------------------------------------------
(***************************************************************************)
(* Type invariant.                                                         *)
(***************************************************************************)
PioTypeOK ==
    /\ flag \subseteq {"TXFE", "TXFF", "RXFE", "RXFF"} /\ ris \subseteq {"TX", "RX"}
    /\ txFifo \in Seq(Data) /\ Len(txFifo) < FifoSize
    /\ rxFifo \in Seq(Data) /\ Len(rxFifo) < FifoSize
    /\ lock \in Writers \cup {"rx_work", NoOne}
    /\ onCpu \subseteq Writers \cup {"rx_work", "reader"} /\ hasty \in BOOLEAN
    /\ irqPc \in {"idle", "read", "ack", "act"} /\ irqBit \in {"TX", "RX"}
    /\ workPending \in BOOLEAN /\ workPc \in {"idle", "lock", "drain"}
    /\ count \in Nat /\ rxSize \in Nat /\ ppos \in Nat
    /\ rxBuf \in [1 .. FifoSize -> Data \cup {Junk}]
    /\ got \in Seq(Data)
    /\ wpc \in [Writers -> {"idle", "lock", "wait", "asleep", "put"}]
    /\ todo \in [Writers -> Seq(Seq(Data))] /\ user \in [Writers -> Seq(Data)]
    /\ written \in [Writers -> Nat] /\ signalled \subseteq Writers
    /\ fetched \in Seq(Data) /\ reported \in Nat
    /\ letters \in Seq(Seq(Data) \ {<<>>}) /\ reads \in 0 .. MaxReads /\ signals \in 0 .. MaxSignals

(***************************************************************************)
(* Reception as the reader and the host see it: the Mailbox, here without  *)
(* a button.  While rx_work drains, the message is partly in rx_buf and    *)
(* the mail before it is gone; the lock hides that from read().            *)
(***************************************************************************)
Draining == workPc = "drain"

Box == INSTANCE Mailbox WITH
    Messages <- {Letters[i] : i \in DOMAIN Letters},
    BoxSize <- FifoSize - 1,
    parcel <- (IF Draining THEN SubSeq(rxBuf, 1, count) ELSE <<>>) \o rxFifo,
    mail <- IF Draining THEN <<>> ELSE SubSeq(rxBuf, 1, rxSize),
    pos <- ppos,
    pressed <- FALSE

(***************************************************************************)
(* Messages are delivered whole, once and in order while writers hold the  *)
(* lock for as long as they like, and reads return the bytes of the mail   *)
(* delivered last.  A mail gets lost only after the host sent a message    *)
(* before the reception of another had come to rest, and no longer once it *)
(* has waited for that.                                                    *)
(***************************************************************************)
IsMailbox == Box!Spec

(***************************************************************************)
(* A byte that a write counts and the device drops is lost to a signal:    *)
(* without one, write() waits for room and every byte gets in.             *)
(***************************************************************************)
LostToSignalsOnly ==
    [][\A w \in Writers : Len(user'[w]) < Len(user[w]) /\ txFifo' = txFifo
                            => w \in signalled]_vars

(***************************************************************************)
(* Transmission as writers and host see it: the bytes of one call after    *)
(* the other, in the order in which the calls got the lock.                *)
(***************************************************************************)
Holder == CHOOSE w \in Writers : lock = w
Writing == lock \in Writers

Stream == INSTANCE ByteStream WITH
    Calls <- UNION {{Script[w][i] : i \in DOMAIN Script[w]} : w \in Writers},
    Capacity <- FifoSize - 1,
    pending <- IF Writing THEN user[Holder] ELSE <<>>,
    sent <- IF Writing THEN written[Holder] ELSE 0,
    busy <- Writing,
    disturbed <- Writing /\ Holder \in signalled,
    faults <- 0,
    fifo <- txFifo

(***************************************************************************)
(* write() is a byte stream to the host: bytes in order, none twice, those *)
(* of two calls never mixed, none dropped but under a signal to their      *)
(* caller; and a call returns with all its bytes written, reporting them.  *)
(***************************************************************************)
IsByteStream == Stream!Spec

(***************************************************************************)
(* Everybody gets the lock in the end: a call that waits for room with the *)
(* lock held delays the others and the bottom half, but every call returns *)
(* and scheduled work gets done.  Only as many spinners as there are CPUs  *)
(* stop them all for good.                                                 *)
(***************************************************************************)
Served ==
    /\ \A w \in Writers : At(w, "idle") /\ todo[w] = <<>>
    /\ ~workPending /\ workPc = "idle"

LockIsShared == []<>Served \/ <>[]Wedged
=============================================================================
