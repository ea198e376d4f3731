------------------------------ MODULE MmioIrq ------------------------------
(***************************************************************************)
(* The top half of the Linux driver (comento_mmio_interrupt, week04/mmio.c)*)
(* on the interrupt line of MmioDevice.  The handler reads MIS, writes the *)
(* bit it found to ICR and schedules a bottom half; the device may change  *)
(* between any two of these register accesses.                             *)
(*                                                                         *)
(* External: the interrupt controller delivers a level interrupt, runs the *)
(* handler on one CPU at a time and runs it again while the line is high;  *)
(* schedule_work does nothing when the work is already pending.            *)
(***************************************************************************)
EXTENDS MmioDevice

VARIABLES
    irqPc,        \* where the handler is: "idle", "read", "ack", "schedule"
    irqBit,       \* the interrupt it found in MIS
    workPending   \* the bottom halves that wait for a worker

top == <<irqPc, irqBit, workPending>>

Works == {"rx_work", "rx_dma_work"}

\* The state that comento_mmio_probe leaves: every interrupt unmasked
\* (RX and TX by the probe itself, RX_EMPTY by comento_dma_probe).
TopInit ==
    /\ flag = {"TXFE", "RXFE"}
    /\ ris = {}
    /\ imsc = Interrupts
    /\ irq = FALSE
    /\ txFifo = <<>>
    /\ rxFifo = <<>>
    /\ dmaTxBusy = FALSE
    /\ dmaRxBusy = FALSE
    /\ irqPc = "idle"
    /\ irqBit = "TX"
    /\ workPending = {}

\* The order of the handler's tests.
ServedFirst(mis) ==
    IF "TX" \in mis THEN "TX" ELSE IF "RX" \in mis THEN "RX" ELSE "RX_EMPTY"

\* The CPU takes the interrupt and enters the handler.
TakeInterrupt ==
    /\ irq /\ irqPc = "idle"
    /\ irqPc' = "read"
    /\ UNCHANGED <<device, irqBit, workPending>>

\* mis = readl(MIS); with nothing left in it the handler returns IRQ_NONE.
ReadMIS ==
    /\ irqPc = "read"
    /\ IF MIS = {} THEN irqPc' = "idle" /\ UNCHANGED irqBit
                   ELSE irqPc' = "ack" /\ irqBit' = ServedFirst(MIS)
    /\ UNCHANGED <<device, workPending>>

\* Mutant: RX_EMPTY is not acknowledged.
AckOnlyData ==
    /\ irqPc = "ack"
    /\ IF irqBit = "RX_EMPTY" THEN UNCHANGED device ELSE WriteICR({irqBit})
    /\ irqPc' = IF irqBit = "TX" THEN "idle" ELSE "schedule"
    /\ UNCHANGED <<irqBit, workPending>>

\* writel(bit, ICR); the TX branch returns here.
AckInterrupt ==
    /\ irqPc = "ack"
    /\ WriteICR({irqBit})
    /\ irqPc' = IF irqBit = "TX" THEN "idle" ELSE "schedule"
    /\ UNCHANGED <<irqBit, workPending>>

\* schedule_work of the bottom half that the bit calls for.
ScheduleWork ==
    /\ irqPc = "schedule"
    /\ workPending' = workPending
         \cup {IF irqBit = "RX" THEN "rx_work" ELSE "rx_dma_work"}
    /\ irqPc' = "idle"
    /\ UNCHANGED <<device, irqBit>>

InterruptStep == TakeInterrupt \/ ReadMIS \/ AckInterrupt \/ ScheduleWork

TopTypeOK ==
    /\ irqPc \in {"idle", "read", "ack", "schedule"}
    /\ irqBit \in Interrupts
    /\ workPending \subseteq Works
=============================================================================
