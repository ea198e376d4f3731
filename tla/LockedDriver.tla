---------------------------- MODULE LockedDriver ----------------------------
(***************************************************************************)
(* The driver variant week04/mmio-memcpy.c as a whole, sending and         *)
(* receiving at once.  Its threads do what those of week04/mmio.c do       *)
(* (RxPath, TxPath), with two changes: write() takes write_lock first and  *)
(* gives it back last, so it sleeps for the end of a transfer with the     *)
(* lock held while rx_work, read() and the button's handler spin on it;    *)
(* and rx_dma_work lights the blue LED whatever it received.               *)
(*                                                                         *)
(* Reception keeps the names of RxPath.  Transmission is an instance of    *)
(* TxPath; only its `transfers` needs another name.  The two share the     *)
(* peripheral, the interrupt handler and the lock.                         *)
(*                                                                         *)
(* The lock is a spinlock: who waits for it, and who holds it awake, keeps *)
(* a CPU to itself, while a writer asleep with the lock held has none.     *)
(* The button's handler runs on some CPU, in place of what runs there, and *)
(* that CPU may be the one that serves the other interrupts and tasklets.  *)
(*                                                                         *)
(* External, besides what RxPath and TxPath name: the scheduler, which     *)
(* lets any thread run on any CPU; and a host that fetches only when there *)
(* is something to fetch.  (One that polls in step with the handler raises *)
(* TX again and again, and TX is served before RX.)                        *)
(***************************************************************************)
EXTENDS RxPath, FiniteSets

CONSTANTS
    TxBufSize, Writers, Script, MaxSignals, MaxFaults,  \* see TxPath
    Cpus     \* how many CPUs the guest has

ASSUME LockedCpusAssumption == Cpus \in Nat \ {0}

VARIABLES
    wpc, todo, user, bytes, chunk, written, signalled, taskletPc,
    txQueued, txMapped, txLength, txBuf, ledRed,        \* see TxPath
    txTransfers,     \* its transfers
    fetched, reported, signals, faults,
    onCpu,           \* who holds the lock awake or spins on it
    victim,          \* the one of them that the button's handler interrupted
    onIrqCpu         \* the handler keeps other interrupts from being served

T == INSTANCE TxPath WITH transfers <- txTransfers

sending    == <<wpc, todo, user, bytes, chunk, written, signalled, taskletPc,
                txQueued, txMapped, txLength, txBuf, ledRed, txTransfers,
                fetched, reported, signals, faults>>
unlocked   == <<pc, driver, channel, file, left>>
cpus       == <<onCpu, victim, onIrqCpu>>
receiving  == <<unlocked, holders>>
lockedVars == <<device, top, receiving, sending, cpus>>

Nobody == "nobody"

LockedInit ==
    /\ Init /\ T!Init
    /\ onCpu = {} /\ victim = Nobody /\ onIrqCpu = FALSE

CpuFree   == Cardinality(onCpu) < Cpus
HasCpu(t) == (t \in onCpu \/ CpuFree) /\ t # victim

\* The writers past write_lock: one at most, which the lock is to see to.
Inside    == {w \in Writers : wpc[w] # "idle"}
Asleep(w) == wpc[w] \in {"asleep", "last_asleep"}

\* From now on t keeps its CPU, or can do without one.
Keeps(t)  == onCpu' = onCpu \cup {t} /\ UNCHANGED <<victim, onIrqCpu>>
Leaves(t) == onCpu' = onCpu \ {t} /\ UNCHANGED <<victim, onIrqCpu>>

\* The CPU of the interrupts takes no other while the button's handler runs.
IrqsServed == onIrqCpu => At("button", "idle")

(***************************************************************************)
(* For good: the button's handler spins on the CPU of the lock's holder,   *)
(* or on the one that would have to wake it; or there are spinners on all  *)
(* CPUs, and a holder that has none.                                       *)
(***************************************************************************)
LockedUp ==
    \/ victim \in holders
    \/ \E w \in Inside \cap holders :
          w \notin onCpu /\ (~CpuFree \/ (Asleep(w) /\ ~IrqsServed))
-----------------------------------------------------------------------------
(* comento_mmio_write *)

\* Mutant: write() without its lock, as in week04/mmio.c.
BeginWriteUnlocked(w) == HasCpu(w) /\ T!Call(w) /\ UNCHANGED receiving /\ Keeps(w)

\* write_lock, then the first test of len
BeginWrite(w) ==
    /\ holders = {} /\ HasCpu(w)
    /\ T!Call(w)
    /\ holders' = {w}
    /\ Keeps(w)
    /\ UNCHANGED unlocked

\* The loop and the last wait, which sleep with the lock held.
WriteLoop(w) ==
    /\ HasCpu(w)
    /\ \/ T!WaitEvent(w) \/ T!Copy(w) \/ T!SetLength(w) \/ T!Prepare(w)
       \/ T!PrepareFails(w) \/ T!LedOn(w) \/ T!Issue(w)
    /\ IF Asleep(w)' THEN Leaves(w) ELSE Keeps(w)
    /\ UNCHANGED receiving

\* Mutant: write() returns without write_unlock.
EndWriteLocked(w) == HasCpu(w) /\ T!Return(w) /\ Leaves(w) /\ UNCHANGED receiving

\* write_unlock
EndWrite(w) ==
    /\ HasCpu(w)
    /\ T!Return(w)
    /\ holders' = {}
    /\ Leaves(w)
    /\ UNCHANGED unlocked

WriteStep(w) == BeginWrite(w) \/ WriteLoop(w) \/ EndWrite(w)

\* The transmit channel (external) and comento_dma_tx_callback
TxDma      == T!MoveByte /\ UNCHANGED <<receiving, cpus>>
TxCallback == IrqsServed /\ T!TaskletStep /\ UNCHANGED <<receiving, cpus>>
-----------------------------------------------------------------------------
(* Reception *)

\* comento_mmio_rx_work_handler
RxWork ==
    /\ HasCpu("rx_work")
    /\ RxWorkStep \/ RxWorkFails
    /\ IF "rx_work" \in holders' THEN Keeps("rx_work") ELSE Leaves("rx_work")
    /\ UNCHANGED sending

\* Mutant: dmaengine_tx_status comes after the channel was terminated.
DmaStatusLate ==
    /\ At("rx_dma_work", "status")
    /\ rxSize' = RxBufSize
    /\ Goto("rx_dma_work", "led_blue")
    /\ UNCHANGED <<device, top, holders, rxQueued, rxMapped, ledGreen, ledBlue,
                   channel, file, left>>

\* dmaengine_tx_status and rx_size; the LED comes next in any case.
DmaStatus ==
    /\ At("rx_dma_work", "status")
    /\ rxSize' = Received
    /\ Goto("rx_dma_work", "led_blue")
    /\ UNCHANGED <<device, top, holders, rxQueued, rxMapped, ledGreen, ledBlue,
                   channel, file, left>>

\* comento_mmio_rx_dma_work_handler
RxDmaWork ==
    /\ CpuFree
    /\ \/ RxDmaWorkPause \/ DmaStatus \/ RxDmaWorkLed \/ RxDmaWorkCheck
       \/ StopTransfer("rx_dma_work") \/ CallbackStep("rx_dma_work")
    /\ UNCHANGED <<sending, cpus>>

\* The receive channel (external), and its tasklet, which calls
\* comento_dma_rx_callback
RxDma ==
    /\ \/ MoveByte
       \/ IrqsServed /\ (CompleteTransfer \/ CallbackStep("tasklet"))
    /\ UNCHANGED <<sending, cpus>>

\* comento_mmio_read
ReadCall == (\E len \in ReadSizes : Read(len)) /\ CpuFree /\ UNCHANGED <<sending, cpus>>

Reader ==
    /\ HasCpu("reader")
    /\ ReadStep
    /\ IF "reader" \in holders' THEN Keeps("reader") ELSE Leaves("reader")
    /\ UNCHANGED sending

\* A thread finds the lock taken and spins.
Waits(t) == IF t \in Writers THEN wpc[t] = "idle" /\ todo[t] # <<>> ELSE At(t, "lock")

Spin(t) ==
    /\ Waits(t) /\ holders # {} /\ t \notin onCpu /\ CpuFree
    /\ Keeps(t)
    /\ UNCHANGED <<device, top, receiving, sending>>

\* The interrupt of the button is taken by a CPU that has nothing to do with
\* the lock, or by one that has; and it comes between other interrupts.
ButtonPressed ==
    /\ Press
    /\ \/ CpuFree /\ onCpu' = onCpu \cup {"button"} /\ UNCHANGED victim
       \/ victim' \in onCpu /\ UNCHANGED onCpu
    /\ onIrqCpu' \in {FALSE, irqPc = "idle"}
    /\ UNCHANGED sending

\* comento_button_interrupt
Button ==
    /\ \/ ButtonLock /\ UNCHANGED cpus
       \/ /\ ButtonUnlock
          /\ onCpu' = onCpu \ {"button"} /\ victim' = Nobody /\ onIrqCpu' = FALSE
    /\ UNCHANGED sending

\* comento_mmio_interrupt
Handler == IrqsServed /\ InterruptStep /\ UNCHANGED <<receiving, sending, cpus>>

\* qom-set and qom-get
Sends   == (\E msg \in Messages : HostSends(msg)) /\ UNCHANGED <<sending, cpus>>
Fetches == txFifo # <<>> /\ T!HostFetches /\ UNCHANGED <<receiving, cpus>>

Rest == (AtRest \/ LockedUp) /\ UNCHANGED lockedVars

\* What goes on by itself once it was started.
LockedMachine ==
    \/ \E w \in Writers : WriteStep(w)
    \/ TxDma \/ TxCallback
    \/ RxWork \/ RxDmaWork \/ RxDma
    \/ Reader
    \/ \E t \in Writers \cup {"rx_work", "reader"} : Spin(t)
    \/ Button
    \/ Handler
    \/ Fetches

LockedNext == LockedMachine \/ Sends \/ ReadCall \/ ButtonPressed \/ Rest

(***************************************************************************)
(* Fairness: the machine does not stop while anything can go on, and what  *)
(* waits for a CPU or a lock that it never gets cannot; and the host goes  *)
(* on fetching what was sent, without which a writer sleeps with the lock, *)
(* and everything waits with it.  Nothing is assumed of the order in which *)
(* the threads get a CPU or the lock: the writes, messages, reads and      *)
(* presses are finite in number.                                           *)
(***************************************************************************)
LockedSpec == LockedInit /\ [][LockedNext]_lockedVars /\ WF_lockedVars(LockedMachine)
-----------------------------------------------------------------------------
Stream == INSTANCE ByteStream WITH
    Calls <- UNION {{Script[w][i] : i \in DOMAIN Script[w]} : w \in Writers},
    Capacity <- FifoSize - 1,
    pending <- T!InTransfer \o
                 (IF Inside = {} THEN <<>> ELSE user[CHOOSE w \in Inside : TRUE]),
    sent <- IF Inside = {} THEN 0
            ELSE written[CHOOSE w \in Inside : TRUE] - Len(T!InTransfer),
    busy <- Inside # {},
    disturbed <- FALSE,
    fifo <- txFifo

(***************************************************************************)
(* Both directions keep their promise at the same time, for any number of  *)
(* writers, to which nobody sends a signal: what is written is a byte      *)
(* stream in which each write's bytes stay together, and messages are      *)
(* still delivered whole and once, however long rx_work has to wait for a  *)
(* writer, be it for ever.                                                 *)
(***************************************************************************)
FullDuplex == Stream!Spec /\ Box!Spec

(***************************************************************************)
(* The lock a sleeping writer holds is given back, in one of two ways: all *)
(* that was started ends, the writes and whatever spins on the lock; or    *)
(* the spinners stop the machine for good, and then it is the button's     *)
(* handler on the wrong CPU or a spinner on every CPU that does.           *)
(***************************************************************************)
NobodySpinsForEver == []<>(AtRest /\ Inside = {}) \/ <>[]LockedUp
=============================================================================
