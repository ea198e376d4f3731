----------------------------- MODULE MmioDevice -----------------------------
(***************************************************************************)
(* The "mmio-comento" peripheral of the emulator (week03/mmio.c): a data   *)
(* register in front of a transmit and a receive FIFO, a flag register,    *)
(* raw/masked interrupt status, one level interrupt line and the two busy  *)
(* lines that hold the DMA controller back.                                *)
(*                                                                         *)
(* QEMU runs every register access and every QMP property access under one *)
(* lock, so each handler is one step.  The registers are sets of bits: the *)
(* code's |= is union, &= ~ is difference, ^= is symmetric difference.     *)
(* A FIFO is the queue that RingFifo is shown to implement.                *)
(***************************************************************************)
EXTENDS Integers, Sequences

CONSTANTS
    Data,         \* the bytes
    FifoSize,     \* COMENTO_FIFO_SIZE: one slot of the ring stays unused
    Messages      \* what the host may put into the "data" property

ASSUME FifoSizeAssumption == FifoSize \in Nat /\ FifoSize >= 2
ASSUME MessagesAssumption == Messages \subseteq Seq(Data)

VARIABLES
    flag,         \* COMENTO_FR
    ris,          \* COMENTO_RIS: raw interrupt status
    imsc,         \* COMENTO_IMSC: the interrupts that may reach the line
    irq,          \* the level of the interrupt line
    txFifo,       \* bytes the CPU sent and the host has not fetched
    rxFifo,       \* bytes the host sent and the CPU has not fetched
    dmaTxBusy,    \* the line that stops the DMA controller from writing DR
    dmaRxBusy     \* the line that stops the DMA controller from reading DR

device == <<flag, ris, imsc, irq, txFifo, rxFifo, dmaTxBusy, dmaRxBusy>>
registers == <<flag, ris, imsc, irq>>
txSide == <<txFifo, dmaTxBusy>>
rxSide == <<rxFifo, dmaRxBusy>>

Flags      == {"TXFE", "TXFF", "RXFE", "RXFF"}
Interrupts == {"TX", "RX", "RX_EMPTY"}

IsEmpty(fifo) == fifo = <<>>
\* Mutant: the ring uses its last slot too, so that full looks like empty.
IsFullUsingEverySlot(fifo) == Len(fifo) = FifoSize

IsFull(fifo)  == Len(fifo) = FifoSize - 1
Room(fifo)    == FifoSize - 1 - Len(fifo)

\* What the register COMENTO_MIS reads.
MIS == ris \cap imsc

\* Mutant: the line is raised but never lowered.
UpdateOnlyRaises == irq' = (irq \/ (ris' \cap imsc' # {}))

\* comento_mmio_update: the line follows the status and the mask.
Update == irq' = (ris' \cap imsc' # {})

DeviceInit ==
    /\ flag = {"TXFE", "RXFE"}
    /\ ris = {}
    /\ imsc = {}
    /\ irq = FALSE
    /\ txFifo = <<>>
    /\ rxFifo = <<>>
    /\ dmaTxBusy = FALSE
    /\ dmaRxBusy = FALSE
-----------------------------------------------------------------------------
\* Mutant: the read that empties the FIFO leaves RX pending.
ReadDRKeepsRX ==
    /\ rxFifo' = IF IsEmpty(rxFifo) THEN rxFifo ELSE Tail(rxFifo)
    /\ IF IsEmpty(rxFifo')
       THEN /\ flag' = (flag \ {"RXFF"}) \cup {"RXFE"}
            /\ ris' = ris \cup {"RX_EMPTY"}
            /\ dmaRxBusy' = TRUE
       ELSE UNCHANGED <<flag, ris, dmaRxBusy>>
    /\ UNCHANGED <<imsc, txSide>>
    /\ Update

\* A read of COMENTO_DR; it returns Head(rxFifo), or 0 from an empty FIFO.
ReadDR ==
    /\ rxFifo' = IF IsEmpty(rxFifo) THEN rxFifo ELSE Tail(rxFifo)
    /\ IF IsEmpty(rxFifo')
       THEN /\ flag' = (flag \ {"RXFF"}) \cup {"RXFE"}
            /\ ris' = (ris \ {"RX"}) \cup {"RX_EMPTY"}
            /\ dmaRxBusy' = TRUE
       ELSE UNCHANGED <<flag, ris, dmaRxBusy>>
    /\ UNCHANGED <<imsc, txSide>>
    /\ Update

\* A write of COMENTO_DR; a byte that finds the FIFO full is dropped.
WriteDR(byte) ==
    /\ txFifo' = IF IsFull(txFifo) THEN txFifo ELSE Append(txFifo, byte)
    /\ IF IsFull(txFifo')
       THEN /\ flag' = (flag \ {"TXFE"}) \cup {"TXFF"}
            /\ ris' = ris \ {"TX"}
            /\ dmaTxBusy' = TRUE
       ELSE /\ flag' = flag \ {"TXFE"}
            /\ UNCHANGED <<ris, dmaTxBusy>>
    /\ UNCHANGED <<imsc, rxSide>>
    /\ Update

\* A write of COMENTO_ICR: the code toggles the bits written.
WriteICR(bits) ==
    /\ ris' = (ris \ bits) \cup (bits \ ris)
    /\ UNCHANGED <<flag, imsc, txSide, rxSide>>
    /\ Update

\* A write of COMENTO_IMSC.
WriteIMSC(bits) ==
    /\ imsc' = bits
    /\ UNCHANGED <<flag, ris, txSide, rxSide>>
    /\ Update

\* Mutant: the host's fetch leaves the DMA controller held back.
GetDataKeepsBusy ==
    /\ txFifo' = <<>>
    /\ flag' = (flag \ {"TXFF"}) \cup {"TXFE"}
    /\ ris' = ris \cup {"TX"}
    /\ UNCHANGED <<imsc, rxSide, dmaTxBusy>>
    /\ Update

\* comento_get_data (qom-get): the host fetches all that was transmitted.
GetData ==
    /\ txFifo' = <<>>
    /\ flag' = (flag \ {"TXFF"}) \cup {"TXFE"}
    /\ ris' = ris \cup {"TX"}
    /\ dmaTxBusy' = FALSE
    /\ UNCHANGED <<imsc, rxSide>>
    /\ Update

\* Mutant: the host's message leaves the flags as they were.
SetDataKeepsFlags(msg) ==
    /\ msg # <<>>
    /\ rxFifo' = rxFifo \o (IF Len(msg) <= Room(rxFifo) THEN msg
                            ELSE SubSeq(msg, 1, Room(rxFifo)))
    /\ ris' = (ris \cup {"RX"}) \ {"RX_EMPTY"}
    /\ dmaRxBusy' = FALSE
    /\ UNCHANGED <<imsc, flag, txSide>>
    /\ Update

\* comento_set_data (qom-set): the host sends msg; what finds no room is lost.
SetData(msg) ==
    /\ msg # <<>>
    /\ rxFifo' = rxFifo \o (IF Len(msg) <= Room(rxFifo) THEN msg
                            ELSE SubSeq(msg, 1, Room(rxFifo)))
    /\ flag' = (flag \ {"RXFE"})
                 \cup (IF IsFull(rxFifo') THEN {"RXFF"} ELSE {})
    /\ ris' = (ris \cup {"RX"}) \ {"RX_EMPTY"}
    /\ dmaRxBusy' = FALSE
    /\ UNCHANGED <<imsc, txSide>>
    /\ Update
-----------------------------------------------------------------------------
\* The peripheral alone, between a CPU and a host that do as they like.
DeviceNext ==
    \/ ReadDR
    \/ \E byte \in Data : WriteDR(byte)
    \/ \E bits \in SUBSET Interrupts : WriteICR(bits)
    \/ \E bits \in SUBSET Interrupts : WriteIMSC(bits)
    \/ GetData
    \/ \E msg \in Messages : SetData(msg)

DeviceSpec == DeviceInit /\ [][DeviceNext]_device
-----------------------------------------------------------------------------
(***************************************************************************)
(* Type invariant: no FIFO grows past the slots of its ring.               *)
(***************************************************************************)
DeviceTypeOK ==
    /\ flag \subseteq Flags
    /\ ris \subseteq Interrupts
    /\ imsc \subseteq Interrupts
    /\ irq \in BOOLEAN
    /\ txFifo \in Seq(Data) /\ Len(txFifo) < FifoSize
    /\ rxFifo \in Seq(Data) /\ Len(rxFifo) < FifoSize
    /\ dmaTxBusy \in BOOLEAN
    /\ dmaRxBusy \in BOOLEAN

(***************************************************************************)
(* The flag register tells the truth about the FIFOs whatever the order of *)
(* register accesses and host calls, with one exception the code has: RXFF *)
(* set by the host stays set while the FIFO drains and is withdrawn only   *)
(* by the read that empties it.                                            *)
(***************************************************************************)
FlagsTellFifos ==
    /\ ("TXFE" \in flag) <=> IsEmpty(txFifo)
    /\ ("TXFF" \in flag) <=> IsFull(txFifo)
    /\ ("RXFE" \in flag) <=> IsEmpty(rxFifo)
    /\ IsFull(rxFifo) => "RXFF" \in flag
    /\ "RXFF" \in flag => ~IsEmpty(rxFifo)

(***************************************************************************)
(* The busy lines stop the DMA controller when and only when it must wait: *)
(* while the transmit line is low a write of DR finds room, so no byte of  *)
(* a transfer is dropped; while the receive FIFO holds a byte its line is  *)
(* low, so a transfer that can go on is never held back.  (The receive     *)
(* line starts low on an empty FIFO: only a read of DR raises it.)         *)
(***************************************************************************)
BusyLinesThrottle ==
    /\ dmaTxBusy <=> IsFull(txFifo)
    /\ dmaRxBusy => IsEmpty(rxFifo)

(***************************************************************************)
(* The interrupt line is high exactly while an unmasked interrupt is       *)
(* pending: no handler forgets to update it.                               *)
(***************************************************************************)
LineFollowsStatus == irq <=> MIS # {}

\* The three output lines of the device agree with its state.
LinesFollowState == BusyLinesThrottle /\ LineFollowsStatus

\* What a pending interrupt says of the FIFOs.
PendingIsTrue ==
    /\ "RX" \in ris => ~IsEmpty(rxFifo)
    /\ "RX_EMPTY" \in ris => IsEmpty(rxFifo) /\ dmaRxBusy
    /\ "TX" \in ris => ~IsFull(txFifo)

\* An acknowledgement of an interrupt that is no longer pending.
LateAck == \E bits \in SUBSET Interrupts : WriteICR(bits) /\ ~(bits \subseteq ris)

(***************************************************************************)
(* An interrupt that is pending is about something that is still so: RX is *)
(* pending only while there is something to receive, RX_EMPTY only while   *)
(* there is nothing, TX only while there is room.  The one step that ends  *)
(* it is a late acknowledgement: ICR toggles, so it raises what it means   *)
(* to clear.                                                               *)
(***************************************************************************)
PendingStaysTrue == [][PendingIsTrue /\ ~LateAck => PendingIsTrue']_device
=============================================================================
