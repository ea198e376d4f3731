------------------------------- MODULE RxPath -------------------------------
(***************************************************************************)
(* Reception in the Linux DMA driver (week04/mmio.c) on the peripheral of  *)
(* week03/mmio.c: the host puts a message into the receive FIFO, the RX    *)
(* interrupt schedules rx_work, rx_work starts a DMA transfer, the         *)
(* transfer drains the FIFO into rx.buf, the RX_EMPTY interrupt schedules  *)
(* rx_dma_work, and rx_dma_work turns the progress of the transfer into    *)
(* rx_size.  A reader copies rx.buf, a button clears rx_size.              *)
(*                                                                         *)
(* Every thread is a pc; a step of a thread is the code between two        *)
(* accesses to state that another thread can touch.  Acquiring the rwlock  *)
(* is one step with the first access made under it, releasing it one with  *)
(* the last, and mapping or unmapping the buffer, which no thread ever     *)
(* asks about, one with the access next to it.                             *)
(*                                                                         *)
(* External: the PL330 DMA controller with its Linux driver (transfers are *)
(* queued, run one byte at a time while the busy line is low, complete in  *)
(* a tasklet; pause stops the channel; terminate drops every transfer; the *)
(* status of a transfer that is no longer known says that nothing is       *)
(* left), the workqueue, the rwlock (a thread that waits for it spins) and *)
(* the GPIO lines.                                                         *)
(***************************************************************************)
EXTENDS MmioIrq

CONSTANTS
    RxBufSize,   \* COMENTO_DMA_BUFFER_SIZE, the length of rx.sg
    Junk,        \* a byte that the host never sent
    ReadSizes,   \* the sizes a reader asks for
    Paced,       \* the parties that act only while the driver is at rest
    Budget       \* how often each party acts, and how often mapping a buffer
                 \* or preparing a transfer fails: bounds the runs

Parties == {"host", "reader", "button"}
Threads == {"rx_work", "rx_dma_work", "tasklet", "reader", "button"}

ASSUME RxBufAssumption == RxBufSize \in Nat /\ RxBufSize >= FifoSize
ASSUME PacedAssumption == Paced \subseteq Parties
ASSUME JunkAssumption == Junk \notin Data
ASSUME RxReadSizesAssumption == ReadSizes \subseteq Nat
ASSUME BudgetAssumption ==
    Budget \in [{"sends", "fetches", "presses", "opens", "reads", "faults"} -> Nat]

VARIABLES
    pc,          \* where each thread is
    holders,     \* the threads that hold cmdev->lock
    rxQueued,    \* rx.queued
    rxSize,      \* rx_size
    rxMapped,    \* how often rx.sg is mapped more than unmapped
    rxBuf,       \* rx.buf
    ledGreen,    \* leds->desc[1]: receiving
    ledBlue,     \* leds->desc[2]: there is received data
    transfers,   \* bytes moved by each transfer issued and not completed
    running,     \* the channel is started
    ppos,        \* the reader's file offset
    readLen,     \* len in comento_mmio_read
    lastRead,    \* what the last read returned
    left         \* what remains of Budget

driver  == <<rxQueued, rxSize, rxMapped, ledGreen, ledBlue>>
channel == <<transfers, running, rxBuf>>
file    == <<ppos, readLen, lastRead>>
vars    == <<device, top, pc, holders, driver, channel, file, left>>

Init ==
    /\ TopInit
    /\ pc = [t \in Threads |-> "idle"]
    /\ holders = {}
    /\ rxQueued = FALSE
    /\ rxSize = 0
    /\ rxMapped = 0
    /\ rxBuf = [i \in 1 .. RxBufSize |-> Junk]
    /\ ledGreen = FALSE
    /\ ledBlue = FALSE
    /\ transfers = <<>>
    /\ running = FALSE
    /\ ppos = 0
    /\ readLen = 0
    /\ lastRead = <<>>
    /\ left = Budget

\* Nothing that was started is still under way.
AtRest ==
    /\ ~irq /\ irqPc = "idle" /\ workPending = {}
    /\ \A t \in Threads : pc[t] = "idle"
    /\ ~(running /\ transfers # <<>> /\ ~dmaRxBusy)

MayAct(party) == party \in Paced => AtRest

Spend(what) == /\ left[what] > 0
               /\ left' = [left EXCEPT ![what] = @ - 1]

At(t, label) == pc[t] = label
Goto(t, label) == pc' = [pc EXCEPT ![t] = label]

\* The button's handler spins on the CPU of the thread that holds the lock:
\* neither gets any further.
Wedged == pc["button"] = "wedged"

Runs(t) == Wedged => t \notin holders
-----------------------------------------------------------------------------
(* The DMA channel (external). *)

\* Moves the byte that the read of DR returns into the first transfer.
MoveByte ==
    /\ running /\ transfers # <<>> /\ ~dmaRxBusy
    /\ transfers[1] < RxBufSize
    /\ ReadDR
    /\ rxBuf' = [rxBuf EXCEPT ![transfers[1] + 1] =
                   IF IsEmpty(rxFifo) THEN Junk ELSE Head(rxFifo)]
    /\ transfers' = [transfers EXCEPT ![1] = @ + 1]
    /\ UNCHANGED <<top, pc, holders, driver, running, file, left>>

\* The tasklet completes a transfer that filled the buffer and goes on to
\* call the callback that rx_work gave it.
CompleteTransfer ==
    /\ At("tasklet", "idle")
    /\ transfers # <<>> /\ transfers[1] = RxBufSize
    /\ transfers' = Tail(transfers)
    /\ Goto("tasklet", "callback")
    /\ UNCHANGED <<device, top, holders, driver, running, rxBuf, file, left>>

\* dmaengine_terminate_sync
Terminate == transfers' = <<>> /\ running' = FALSE /\ UNCHANGED rxBuf

\* dmaengine_submit and dma_async_issue_pending.  A channel that was paused
\* starts its first transfer over.
Issue == /\ transfers' = Append(IF running \/ transfers = <<>> THEN transfers
                                ELSE [transfers EXCEPT ![1] = 0], 0)
         /\ running' = TRUE
         /\ UNCHANGED rxBuf

\* sg.length - state.residue, for the transfer rx.cookie names: the last one
\* issued, or one that is gone and has nothing left to do.
Received == IF transfers = <<>> THEN RxBufSize ELSE transfers[Len(transfers)]
-----------------------------------------------------------------------------
(* comento_dma_rx_callback, called by the tasklet and by both bottom halves *)
(* after a terminate.                                                       *)

AfterCallback(t) == IF t = "rx_work" THEN "prepare" ELSE "idle"

\* dma_unmap_sg, which no other thread can tell from what follows, and
\* rx.queued
CallbackClear(t) ==
    /\ At(t, "callback")
    /\ rxMapped' = rxMapped - 1
    /\ rxQueued' = FALSE
    /\ Goto(t, "led_off")
    /\ UNCHANGED <<device, top, holders, rxSize, ledGreen, ledBlue,
                   channel, file, left>>

\* Mutant: the callback forgets the green LED.
CallbackKeepsLed(t) ==
    /\ At(t, "led_off")
    /\ Goto(t, AfterCallback(t))
    /\ UNCHANGED <<device, top, holders, driver, channel, file, left>>

CallbackLed(t) ==
    /\ At(t, "led_off")
    /\ ledGreen' = FALSE
    /\ Goto(t, AfterCallback(t))
    /\ UNCHANGED <<device, top, holders, rxQueued, rxSize, rxMapped, ledBlue,
                   channel, file, left>>

CallbackStep(t) == CallbackClear(t) \/ CallbackLed(t)

\* dmaengine_terminate_sync in either bottom half; the callback follows.
StopTransfer(t) ==
    /\ At(t, "terminate")
    /\ Terminate
    /\ Goto(t, "callback")
    /\ UNCHANGED <<device, top, holders, driver, file, left>>
-----------------------------------------------------------------------------
(* comento_mmio_rx_work_handler *)

\* A worker takes the work; the same work never runs twice at a time.
TakeWork(w) ==
    /\ w \in workPending /\ At(w, "idle")
    /\ workPending' = workPending \ {w}
    /\ UNCHANGED <<device, irqPc, irqBit, left, file>>

RxWorkBegin ==
    /\ TakeWork("rx_work")
    /\ Goto("rx_work", "lock")
    /\ UNCHANGED <<holders, driver, channel>>

\* write_lock, and the test of rx.queued
RxWorkLock ==
    /\ At("rx_work", "lock") /\ holders = {}
    /\ holders' = {"rx_work"}
    /\ Goto("rx_work", IF rxQueued THEN "terminate" ELSE "prepare")
    /\ UNCHANGED <<device, top, driver, channel, file, left>>

\* dma_map_sg, dmaengine_prep_slave_sg, rx.queued
RxWorkPrepare ==
    /\ At("rx_work", "prepare")
    /\ rxMapped' = rxMapped + 1
    /\ rxQueued' = TRUE
    /\ Goto("rx_work", "led_on")
    /\ UNCHANGED <<device, top, holders, rxSize, ledGreen, ledBlue,
                   channel, file, left>>

\* Mutant: dmaengine_prep_slave_sg fails and the buffer stays mapped.
RxWorkFailsMapped ==
    /\ At("rx_work", "prepare") /\ Runs("rx_work")
    /\ Spend("faults")
    /\ rxMapped' = rxMapped + 1
    /\ holders' = {}
    /\ Goto("rx_work", "idle")
    /\ UNCHANGED <<device, top, rxQueued, rxSize, ledGreen, ledBlue,
                   channel, file>>

\* dma_map_sg fails, or dmaengine_prep_slave_sg does and the buffer is
\* unmapped again: goto err.
RxWorkFails ==
    /\ At("rx_work", "prepare") /\ Runs("rx_work")
    /\ Spend("faults")
    /\ holders' = {}
    /\ Goto("rx_work", "idle")
    /\ UNCHANGED <<device, top, driver, channel, file>>

RxWorkLed ==
    /\ At("rx_work", "led_on")
    /\ ledGreen' = TRUE
    /\ Goto("rx_work", "issue")
    /\ UNCHANGED <<device, top, holders, rxQueued, rxSize, rxMapped, ledBlue,
                   channel, file, left>>

\* dmaengine_submit, dma_async_issue_pending, write_unlock
RxWorkIssue ==
    /\ At("rx_work", "issue")
    /\ Issue
    /\ holders' = {}
    /\ Goto("rx_work", "idle")
    /\ UNCHANGED <<device, top, driver, file, left>>

RxWorkStep ==
    /\ Runs("rx_work")
    /\ \/ RxWorkBegin \/ RxWorkLock \/ StopTransfer("rx_work")
       \/ CallbackStep("rx_work")
       \/ RxWorkPrepare \/ RxWorkLed \/ RxWorkIssue
-----------------------------------------------------------------------------
(* comento_mmio_rx_dma_work_handler: takes no lock *)

\* The work starts with dmaengine_pause.
RxDmaWorkPause ==
    /\ TakeWork("rx_dma_work")
    /\ running' = FALSE
    /\ Goto("rx_dma_work", "status")
    /\ UNCHANGED <<holders, driver, transfers, rxBuf>>

\* Mutant: the residue itself is taken for the number of bytes received.
RxDmaWorkStatusResidue ==
    /\ At("rx_dma_work", "status")
    /\ rxSize' = RxBufSize - Received
    /\ Goto("rx_dma_work", IF RxBufSize # Received THEN "led_blue" ELSE "check")
    /\ UNCHANGED <<device, top, holders, rxQueued, rxMapped, ledGreen, ledBlue,
                   channel, file, left>>

\* dmaengine_tx_status, rx_size, and the test of the value just stored
RxDmaWorkStatus ==
    /\ At("rx_dma_work", "status")
    /\ rxSize' = Received
    /\ Goto("rx_dma_work", IF Received # 0 THEN "led_blue" ELSE "check")
    /\ UNCHANGED <<device, top, holders, rxQueued, rxMapped, ledGreen, ledBlue,
                   channel, file, left>>

RxDmaWorkLed ==
    /\ At("rx_dma_work", "led_blue")
    /\ ledBlue' = TRUE
    /\ Goto("rx_dma_work", "check")
    /\ UNCHANGED <<device, top, holders, rxQueued, rxSize, rxMapped, ledGreen,
                   channel, file, left>>

RxDmaWorkCheck ==
    /\ At("rx_dma_work", "check")
    /\ Goto("rx_dma_work", IF rxQueued THEN "terminate" ELSE "idle")
    /\ UNCHANGED <<device, top, holders, driver, channel, file, left>>

RxDmaWorkStep ==
    \/ RxDmaWorkPause \/ RxDmaWorkStatus \/ RxDmaWorkLed \/ RxDmaWorkCheck
    \/ StopTransfer("rx_dma_work") \/ CallbackStep("rx_dma_work")
-----------------------------------------------------------------------------
(* comento_mmio_read *)

\* The reader opens the device again.
Open ==
    /\ MayAct("reader") /\ At("reader", "idle")
    /\ Spend("opens")
    /\ ppos' = 0
    /\ UNCHANGED <<device, top, pc, holders, driver, channel, readLen, lastRead>>

\* The call.
Read(len) ==
    /\ MayAct("reader") /\ At("reader", "idle")
    /\ Spend("reads")
    /\ readLen' = len
    /\ Goto("reader", "lock")
    /\ UNCHANGED <<device, top, holders, driver, channel, ppos, lastRead>>

\* Mutant: the length is compared with rx_size without the offset.
ReadLockFromStart ==
    /\ At("reader", "lock") /\ holders = {}
    /\ holders' = {"reader"}
    /\ Goto("reader", IF rxSize <= readLen THEN "size" ELSE "copy")
    /\ UNCHANGED <<device, top, driver, channel, file, left>>

\* read_lock, and the first look at rx_size
ReadLock ==
    /\ At("reader", "lock") /\ holders = {}
    /\ holders' = {"reader"}
    /\ Goto("reader", IF rxSize <= readLen + ppos THEN "size" ELSE "copy")
    /\ UNCHANGED <<device, top, driver, channel, file, left>>

\* Mutant: the length is kept signed and used as it is.
ReadLengthSigned ==
    /\ At("reader", "size")
    /\ readLen' = rxSize - ppos
    /\ Goto("reader", "copy")
    /\ UNCHANGED <<device, top, holders, driver, channel, ppos, lastRead, left>>

\* The second look: rx_dma_work, which takes no lock, may have changed
\* rx_size since the first.  Past rx_size the difference is negative,
\* copy_to_user refuses the length it becomes, and nothing is copied.
ReadLength ==
    /\ At("reader", "size")
    /\ readLen' = IF rxSize >= ppos THEN rxSize - ppos ELSE 0
    /\ Goto("reader", "copy")
    /\ UNCHANGED <<device, top, holders, driver, channel, ppos, lastRead, left>>

\* copy_to_user, *ppos, read_unlock
ReadCopy ==
    /\ At("reader", "copy")
    /\ lastRead' = [i \in 1 .. readLen |-> rxBuf[ppos + i]]
    /\ ppos' = ppos + readLen
    /\ readLen' = 0
    /\ holders' = {}
    /\ Goto("reader", "idle")
    /\ UNCHANGED <<device, top, driver, channel, left>>

ReadStep == Runs("reader") /\ (ReadLock \/ ReadLength \/ ReadCopy)
-----------------------------------------------------------------------------
(* comento_button_interrupt *)

\* The button is pressed.
Press ==
    /\ MayAct("button") /\ pc["button"] = "idle"
    /\ Spend("presses")
    /\ Goto("button", "lock")
    /\ UNCHANGED <<device, top, holders, driver, channel, file>>

\* The interrupt comes to the CPU of the thread that holds the lock, which
\* did not disable interrupts.
PressOnHolder ==
    /\ MayAct("button") /\ pc["button"] = "idle" /\ holders # {}
    /\ Spend("presses")
    /\ Goto("button", "wedged")
    /\ UNCHANGED <<device, top, holders, driver, channel, file>>

\* write_lock, rx_size = 0
ButtonLock ==
    /\ pc["button"] = "lock" /\ holders = {}
    /\ holders' = {"button"}
    /\ rxSize' = 0
    /\ Goto("button", "led_blue")
    /\ UNCHANGED <<device, top, rxQueued, rxMapped, ledGreen, ledBlue,
                   channel, file, left>>

\* the LED, write_unlock, return from the interrupt
ButtonUnlock ==
    /\ pc["button"] = "led_blue"
    /\ ledBlue' = FALSE
    /\ holders' = {}
    /\ Goto("button", "idle")
    /\ UNCHANGED <<device, top, rxQueued, rxSize, rxMapped, ledGreen, channel, file, left>>

ButtonStep == ButtonLock \/ ButtonUnlock
-----------------------------------------------------------------------------
(* The host and the interrupt handler, on top of the peripheral. *)

HostSends(msg) ==
    /\ MayAct("host") /\ Spend("sends")
    /\ SetData(msg)
    /\ UNCHANGED <<top, pc, holders, driver, channel, file>>

\* A fetch of transmitted data; here it matters because it raises TX.
HostFetches ==
    /\ MayAct("host") /\ Spend("fetches")
    /\ GetData
    /\ UNCHANGED <<top, pc, holders, driver, channel, file>>

Interrupt ==
    /\ InterruptStep
    /\ UNCHANGED <<pc, holders, driver, channel, file, left>>

\* At rest the system waits for the next party to act; wedged, it waits.
Wait == (AtRest \/ Wedged) /\ UNCHANGED vars

Next ==
    \/ \E msg \in Messages : HostSends(msg)
    \/ HostFetches
    \/ Interrupt
    \/ RxWorkStep
    \/ RxWorkFails
    \/ RxDmaWorkStep
    \/ MoveByte
    \/ CompleteTransfer
    \/ CallbackStep("tasklet")
    \/ Open
    \/ \E len \in ReadSizes : Read(len)
    \/ ReadStep
    \/ Press
    \/ PressOnHolder
    \/ ButtonStep
    \/ Wait

Spec == Init /\ [][Next]_vars

(***************************************************************************)
(* Fairness: of what was started, something goes on as long as anything    *)
(* can: the interrupt controller, the workers, the softirq, the DMA        *)
(* controller, system calls and handlers.  In which order is left open,    *)
(* and a wedged thread cannot go on.  Nobody owes the system a message, a  *)
(* read or a press of the button.                                          *)
(***************************************************************************)
Machine ==
    \/ Interrupt
    \/ RxWorkStep
    \/ RxDmaWorkStep
    \/ MoveByte
    \/ CompleteTransfer \/ CallbackStep("tasklet")
    \/ ReadStep
    \/ ButtonStep

FairSpec == Spec /\ WF_vars(Machine)
-----------------------------------------------------------------------------
(***************************************************************************)
(* Type invariant.                                                         *)
(***************************************************************************)
RxTypeOK ==
    /\ DeviceTypeOK /\ TopTypeOK
    /\ pc \in [Threads -> {"idle", "lock", "terminate", "callback",
                           "led_off", "prepare", "led_on", "issue",
                           "status", "led_blue", "check", "size", "copy",
                           "wedged"}]
    /\ holders \subseteq Threads
    /\ rxQueued \in BOOLEAN /\ ledGreen \in BOOLEAN /\ ledBlue \in BOOLEAN
    /\ rxSize \in 0 .. RxBufSize
    /\ rxMapped \in Int
    /\ rxBuf \in [1 .. RxBufSize -> Data \cup {Junk}]
    /\ transfers \in Seq(0 .. RxBufSize)
    /\ running \in BOOLEAN
    /\ ppos \in 0 .. RxBufSize /\ readLen \in Nat
    /\ lastRead \in Seq(Data \cup {Junk})
    /\ left \in [DOMAIN Budget -> Nat]

(***************************************************************************)
(* A read never reaches past the DMA buffer, whatever rx_dma_work and the  *)
(* button make of rx_size between two reads of one open file, or between   *)
(* the two looks one read takes at it: the offset a reader keeps may lie   *)
(* beyond rx_size, and then the read is empty.                             *)
(***************************************************************************)
ReadStaysInBuffer ==
    pc["reader"] = "copy" => ppos + readLen <= RxBufSize

(***************************************************************************)
(* The DMA controller writes into rx.buf only while the driver counts the  *)
(* transfer as its own and has the buffer mapped, exactly once.            *)
(***************************************************************************)
TransferIsOwned ==
    /\ Len(transfers) <= 1
    /\ transfers # <<>> => rxQueued /\ rxMapped = 1

(***************************************************************************)
(* Once all is quiet nothing is left behind, whether or not a bottom half  *)
(* failed to map the buffer or to prepare a transfer: no mapping, no       *)
(* transfer, the green LED is off, the blue LED shows whether there is     *)
(* something to read, and a message is stuck in the FIFO only if starting  *)
(* its transfer failed.                                                    *)
(***************************************************************************)
RestIsClean ==
    AtRest => /\ ~rxQueued /\ rxMapped = 0 /\ transfers = <<>>
              /\ left["faults"] = Budget["faults"] => IsEmpty(rxFifo)
              /\ ~ledGreen
              /\ ledBlue <=> rxSize # 0

(***************************************************************************)
(* The mailbox that RxPath implements.  A message is in transit, part of   *)
(* it in rx.buf and the rest in the FIFO, until rx_size covers it; from    *)
(* then on it is the mail, until the next transfer starts to overwrite it. *)
(***************************************************************************)
Delivered == pc["rx_dma_work"] \in {"led_blue", "check", "terminate"}

Parcel ==
    IF Delivered THEN <<>>
    ELSE (IF transfers = <<>> THEN <<>> ELSE SubSeq(rxBuf, 1, transfers[1]))
           \o rxFifo

Mail == IF transfers # <<>> /\ ~Delivered THEN <<>> ELSE SubSeq(rxBuf, 1, rxSize)

Box == INSTANCE Mailbox WITH parcel <- Parcel, mail <- Mail, pos <- ppos,
                             got <- lastRead, BoxSize <- FifoSize - 1,
                             pressed <- At("button", "lock"), hasty <- FALSE

(***************************************************************************)
(* When host, reader and button wait for one another, messages are         *)
(* delivered whole, once and in order, reads return the bytes of the mail  *)
(* delivered last, a press of the button takes one mail away and nothing   *)
(* else does without bringing the next, and a transfer that could not be   *)
(* started loses nothing.                                                  *)
(***************************************************************************)
IsMailbox == Box!Spec

(***************************************************************************)
(* However the parties interleave, what they started ends: no interrupt    *)
(* storm, no bottom half that waits for ever.  Only a press of the button  *)
(* on the CPU of the lock's holder stops the machine for good.             *)
(***************************************************************************)
SettlesDown == []<>(AtRest \/ Wedged)
=============================================================================
