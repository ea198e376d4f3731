-------------------------- MODULE MmioDeviceProofs --------------------------
(***************************************************************************)
(* The peripheral's invariants, for every FIFO size, every set of bytes    *)
(* and every set of messages.  The handlers preserve the type invariant    *)
(* and FifoFacts one by one; the lemmas that say so are about the handlers *)
(* alone, so the modules built on the peripheral can use them too.         *)
(***************************************************************************)
EXTENDS MmioIrq, SequenceTheorems, TLAPS

\* The flags and the busy lines need the type invariant to be inductive.
FifoFacts == FlagsTellFifos /\ BusyLinesThrottle

-----------------------------------------------------------------------------
(* What the three shapes of FIFO update return. *)

LEMMA TailOfFifo ==
    ASSUME NEW q \in Seq(Data), Len(q) < FifoSize, ~IsEmpty(q)
    PROVE  /\ Tail(q) \in Seq(Data)
           /\ Len(Tail(q)) < FifoSize
           /\ ~IsFull(Tail(q))
  <1>1. Tail(q) \in Seq(Data) /\ Len(Tail(q)) = Len(q) - 1
    BY HeadTailProperties DEF IsEmpty
  <1>2. Len(q) \in Nat
    BY LenProperties
  <1>3. \A n : n = Len(q) - 1 => n < FifoSize /\ n # FifoSize - 1
    BY <1>2, FifoSizeAssumption, SMT
  <1> QED BY <1>1, <1>3, Zenon DEF IsFull

LEMMA AppendToFifo ==
    ASSUME NEW q \in Seq(Data), Len(q) < FifoSize, ~IsFull(q), NEW x \in Data
    PROVE  /\ Append(q, x) \in Seq(Data)
           /\ Len(Append(q, x)) < FifoSize
           /\ ~IsEmpty(Append(q, x))
  <1>1. /\ Append(q, x) \in Seq(Data) /\ Len(Append(q, x)) = Len(q) + 1
        /\ Append(q, x) # <<>>
    BY AppendProperties
  <1> QED BY <1>1, LenProperties, FifoSizeAssumption, SMT DEF IsFull, IsEmpty

LEMMA AppendMessage ==
    ASSUME NEW q \in Seq(Data), Len(q) < FifoSize,
           NEW msg \in Seq(Data), msg # <<>>,
           NEW r, r = q \o (IF Len(msg) <= Room(q) THEN msg
                            ELSE SubSeq(msg, 1, Room(q)))
    PROVE  r \in Seq(Data) /\ Len(r) < FifoSize /\ ~IsEmpty(r)
  <1>1. Len(msg) \in Nat \ {0} /\ Len(q) \in Nat
    BY EmptySeq, LenProperties
  <1>2. Room(q) \in Nat /\ Room(q) = FifoSize - 1 - Len(q)
    BY <1>1, FifoSizeAssumption, SMT DEF Room
  <1>3. CASE Len(msg) <= Room(q)
    <2>1. r = q \o msg
      BY <1>3
    <2>2. r \in Seq(Data) /\ Len(r) = Len(q) + Len(msg)
      BY <2>1, ConcatProperties
    <2> QED BY <2>2, <1>1, <1>2, <1>3, EmptySeq, FifoSizeAssumption, SMT DEF IsEmpty
  <1>4. CASE ~(Len(msg) <= Room(q))
    <2> DEFINE part == SubSeq(msg, 1, Room(q))
    <2>1. \A i \in 1 .. Room(q) : msg[i] \in Data
      BY <1>1, <1>2, <1>4, ElementOfSeq, SMT
    <2>2. part \in Seq(Data) /\ Len(part) = Room(q)
      BY <2>1, <1>2, SubSeqProperties, SMT
    <2>3. r = q \o part
      BY <1>4
    <2>4. r \in Seq(Data) /\ Len(r) = Len(q) + Room(q)
      BY <2>2, <2>3, ConcatProperties
    <2> QED BY <2>4, <1>1, <1>2, EmptySeq, FifoSizeAssumption, SMT DEF IsEmpty
  <1> QED BY <1>3, <1>4

LEMMA EmptyIsNotFull ==
    ASSUME NEW q, IsEmpty(q)
    PROVE  ~IsFull(q) /\ Len(q) < FifoSize
  BY EmptySeq, FifoSizeAssumption, SMT DEF IsEmpty, IsFull
-----------------------------------------------------------------------------
(* Every handler preserves the type invariant. *)

LEMMA ReadDRType == DeviceTypeOK /\ ReadDR => DeviceTypeOK'
  <1> SUFFICES ASSUME DeviceTypeOK, ReadDR PROVE DeviceTypeOK'
    OBVIOUS
  <1>1. rxFifo' \in Seq(Data) /\ Len(rxFifo') < FifoSize
    BY TailOfFifo DEF ReadDR, DeviceTypeOK
  <1>2. flag' \subseteq Flags /\ ris' \subseteq Interrupts /\ dmaRxBusy' \in BOOLEAN
    BY DEF ReadDR, DeviceTypeOK, Flags, Interrupts
  <1> QED BY <1>1, <1>2 DEF ReadDR, DeviceTypeOK, Update, txSide

LEMMA WriteDRType ==
    ASSUME NEW x \in Data, DeviceTypeOK, WriteDR(x)
    PROVE  DeviceTypeOK'
  <1>1. txFifo' \in Seq(Data) /\ Len(txFifo') < FifoSize
    BY AppendToFifo DEF WriteDR, DeviceTypeOK
  <1>2. flag' \subseteq Flags /\ ris' \subseteq Interrupts /\ dmaTxBusy' \in BOOLEAN
    BY DEF WriteDR, DeviceTypeOK, Flags, Interrupts
  <1> QED BY <1>1, <1>2 DEF WriteDR, DeviceTypeOK, Update, rxSide

LEMMA WriteICRType ==
    ASSUME NEW bits \in SUBSET Interrupts, DeviceTypeOK, WriteICR(bits)
    PROVE  DeviceTypeOK'
  BY DEF WriteICR, DeviceTypeOK, Update, txSide, rxSide

LEMMA WriteIMSCType ==
    ASSUME NEW bits \in SUBSET Interrupts, DeviceTypeOK, WriteIMSC(bits)
    PROVE  DeviceTypeOK'
  BY DEF WriteIMSC, DeviceTypeOK, Update, txSide, rxSide

LEMMA GetDataType == DeviceTypeOK /\ GetData => DeviceTypeOK'
  <1> SUFFICES ASSUME DeviceTypeOK, GetData PROVE DeviceTypeOK'
    OBVIOUS
  <1>1. txFifo' \in Seq(Data) /\ Len(txFifo') < FifoSize
    BY EmptySeq, EmptyIsNotFull DEF GetData, IsEmpty
  <1> QED BY <1>1 DEF GetData, DeviceTypeOK, Update, rxSide, Flags, Interrupts

LEMMA SetDataType ==
    ASSUME NEW msg \in Seq(Data), DeviceTypeOK, SetData(msg)
    PROVE  DeviceTypeOK'
  <1>1. rxFifo' \in Seq(Data) /\ Len(rxFifo') < FifoSize
    BY AppendMessage DEF SetData, DeviceTypeOK
  <1>2. flag' \subseteq Flags /\ ris' \subseteq Interrupts
    BY DEF SetData, DeviceTypeOK, Flags, Interrupts
  <1> QED BY <1>1, <1>2 DEF SetData, DeviceTypeOK, Update, txSide

LEMMA DeviceInitType == DeviceInit => DeviceTypeOK
  BY EmptySeq, EmptyIsNotFull DEF DeviceInit, DeviceTypeOK, Flags, Interrupts, IsEmpty

LEMMA DeviceNextType == DeviceTypeOK /\ [DeviceNext]_device => DeviceTypeOK'
  <1> SUFFICES ASSUME DeviceTypeOK, [DeviceNext]_device PROVE DeviceTypeOK'
    OBVIOUS
  <1>1. CASE ReadDR
    BY <1>1, ReadDRType
  <1>2. ASSUME NEW x \in Data, WriteDR(x) PROVE DeviceTypeOK'
    BY <1>2, WriteDRType
  <1>3. ASSUME NEW bits \in SUBSET Interrupts, WriteICR(bits)
        PROVE  DeviceTypeOK'
    BY <1>3, WriteICRType
  <1>4. ASSUME NEW bits \in SUBSET Interrupts, WriteIMSC(bits)
        PROVE  DeviceTypeOK'
    BY <1>4, WriteIMSCType
  <1>5. CASE GetData
    BY <1>5, GetDataType
  <1>6. ASSUME NEW msg \in Messages, SetData(msg) PROVE DeviceTypeOK'
    BY <1>6, SetDataType, MessagesAssumption
  <1>7. CASE UNCHANGED device
    BY <1>7 DEF device, DeviceTypeOK
  <1> QED BY <1>1, <1>2, <1>3, <1>4, <1>5, <1>6, <1>7
      DEF DeviceNext

(* No reachable state of the peripheral is ill-typed: in particular no     *)
(* FIFO ever holds FifoSize bytes.                                         *)
THEOREM DeviceTypeCorrect == DeviceSpec => []DeviceTypeOK
  BY DeviceInitType, DeviceNextType, PTL DEF DeviceSpec
-----------------------------------------------------------------------------
(* Every handler keeps the flags and the busy lines in step with the FIFOs.*)

LEMMA ReadDRFacts == DeviceTypeOK /\ FifoFacts /\ ReadDR => FifoFacts'
  <1> SUFFICES ASSUME DeviceTypeOK, FifoFacts, ReadDR PROVE FifoFacts'
    OBVIOUS
  <1>1. ~IsFull(rxFifo') /\ txFifo' = txFifo /\ dmaTxBusy' = dmaTxBusy
    BY TailOfFifo, EmptyIsNotFull DEF ReadDR, DeviceTypeOK, txSide
  <1>2. CASE IsEmpty(rxFifo')
    <2>1. flag' = (flag \ {"RXFF"}) \cup {"RXFE"} /\ dmaRxBusy' = TRUE
      BY <1>2 DEF ReadDR
    <2> QED BY <1>1, <1>2, <2>1
        DEF FifoFacts, FlagsTellFifos, BusyLinesThrottle, IsEmpty, IsFull
  <1>3. CASE ~IsEmpty(rxFifo')
    <2>1. flag' = flag /\ dmaRxBusy' = dmaRxBusy /\ ~IsEmpty(rxFifo)
      BY <1>3 DEF ReadDR
    <2> QED BY <1>1, <1>3, <2>1
        DEF FifoFacts, FlagsTellFifos, BusyLinesThrottle, IsEmpty, IsFull
  <1> QED BY <1>2, <1>3

LEMMA WriteDRFacts ==
    ASSUME NEW x \in Data, DeviceTypeOK, FifoFacts, WriteDR(x)
    PROVE  FifoFacts'
  <1>1. rxFifo' = rxFifo /\ dmaRxBusy' = dmaRxBusy
    BY DEF WriteDR, rxSide
  <1>2. ~IsEmpty(txFifo')
    BY AppendToFifo, EmptyIsNotFull DEF WriteDR, DeviceTypeOK
  <1>3. CASE IsFull(txFifo')
    <2>1. flag' = (flag \ {"TXFE"}) \cup {"TXFF"} /\ dmaTxBusy' = TRUE
      BY <1>3 DEF WriteDR
    <2> QED BY <1>1, <1>2, <1>3, <2>1
        DEF FifoFacts, FlagsTellFifos, BusyLinesThrottle, IsEmpty, IsFull
  <1>4. CASE ~IsFull(txFifo')
    <2>1. flag' = flag \ {"TXFE"} /\ dmaTxBusy' = dmaTxBusy /\ ~IsFull(txFifo)
      BY <1>4 DEF WriteDR
    <2> QED BY <1>1, <1>2, <1>4, <2>1
        DEF FifoFacts, FlagsTellFifos, BusyLinesThrottle, IsEmpty, IsFull
  <1> QED BY <1>3, <1>4

LEMMA StatusWritesFacts ==
    ASSUME FifoFacts, NEW bits, WriteICR(bits) \/ WriteIMSC(bits)
    PROVE  FifoFacts'
  BY DEF FifoFacts, FlagsTellFifos, BusyLinesThrottle, IsEmpty, IsFull,
         WriteICR, WriteIMSC, txSide, rxSide

LEMMA GetDataFacts == FifoFacts /\ GetData => FifoFacts'
  <1> SUFFICES ASSUME FifoFacts, GetData PROVE FifoFacts'
    OBVIOUS
  <1>1. IsEmpty(txFifo') /\ ~IsFull(txFifo')
    BY EmptyIsNotFull DEF GetData, IsEmpty
  <1>2. /\ flag' = (flag \ {"TXFF"}) \cup {"TXFE"} /\ dmaTxBusy' = FALSE
        /\ rxFifo' = rxFifo /\ dmaRxBusy' = dmaRxBusy
    BY DEF GetData, rxSide
  <1> QED BY <1>1, <1>2
      DEF FifoFacts, FlagsTellFifos, BusyLinesThrottle, IsEmpty, IsFull

LEMMA SetDataFacts ==
    ASSUME NEW msg \in Seq(Data), DeviceTypeOK, FifoFacts, SetData(msg)
    PROVE  FifoFacts'
  <1>1. ~IsEmpty(rxFifo')
    BY AppendMessage DEF SetData, DeviceTypeOK
  <1>2. /\ flag' = (flag \ {"RXFE"})
                     \cup (IF IsFull(rxFifo') THEN {"RXFF"} ELSE {})
        /\ dmaRxBusy' = FALSE
        /\ txFifo' = txFifo /\ dmaTxBusy' = dmaTxBusy
    BY DEF SetData, txSide
  <1> QED BY <1>1, <1>2
      DEF FifoFacts, FlagsTellFifos, BusyLinesThrottle, IsEmpty, IsFull

LEMMA DeviceInitFacts == DeviceInit => FifoFacts
  BY EmptyIsNotFull
  DEF DeviceInit, FifoFacts, FlagsTellFifos, BusyLinesThrottle, IsEmpty

LEMMA DeviceNextFacts ==
    DeviceTypeOK /\ FifoFacts /\ [DeviceNext]_device => FifoFacts'
  <1> SUFFICES ASSUME DeviceTypeOK, FifoFacts, [DeviceNext]_device
               PROVE  FifoFacts'
    OBVIOUS
  <1>1. CASE ReadDR
    BY <1>1, ReadDRFacts
  <1>2. ASSUME NEW x \in Data, WriteDR(x) PROVE FifoFacts'
    BY <1>2, WriteDRFacts
  <1>3. ASSUME NEW bits \in SUBSET Interrupts,
               WriteICR(bits) \/ WriteIMSC(bits)
        PROVE  FifoFacts'
    BY <1>3, StatusWritesFacts
  <1>4. CASE GetData
    BY <1>4, GetDataFacts
  <1>5. ASSUME NEW msg \in Messages, SetData(msg) PROVE FifoFacts'
    BY <1>5, SetDataFacts, MessagesAssumption
  <1>6. CASE UNCHANGED device
    BY <1>6 DEF device, FifoFacts, FlagsTellFifos, BusyLinesThrottle,
                IsEmpty, IsFull
  <1> QED BY <1>1, <1>2, <1>3, <1>4, <1>5, <1>6
      DEF DeviceNext

(* The flag register and the busy lines agree with the FIFOs in every      *)
(* reachable state, whatever CPU and host do.                              *)
THEOREM FlagsAndBusyLinesCorrect ==
    DeviceSpec => [](FlagsTellFifos /\ BusyLinesThrottle)
  <1>1. FifoFacts => FlagsTellFifos /\ BusyLinesThrottle
    BY DEF FifoFacts
  <1> QED BY <1>1, DeviceInitFacts, DeviceNextFacts, DeviceTypeCorrect, PTL
          DEF DeviceSpec
-----------------------------------------------------------------------------
(* The interrupt line is high exactly while an unmasked one is pending.    *)
THEOREM LineCorrect == DeviceSpec => []LineFollowsStatus
  <1>1. DeviceInit => LineFollowsStatus
    BY DEF DeviceInit, LineFollowsStatus, MIS
  <1>2. LineFollowsStatus /\ [DeviceNext]_device => LineFollowsStatus'
    <2>1. Update => LineFollowsStatus'
      BY DEF Update, LineFollowsStatus, MIS
    <2>2. DeviceNext => Update
      BY DEF DeviceNext, ReadDR, WriteDR, WriteICR, WriteIMSC,
             GetData, SetData
    <2>3. LineFollowsStatus /\ UNCHANGED device => LineFollowsStatus'
      BY DEF LineFollowsStatus, MIS, device
    <2> QED BY <2>1, <2>2, <2>3
  <1> QED BY <1>1, <1>2, PTL DEF DeviceSpec

(* The busy lines and the interrupt line together.                         *)
THEOREM LinesCorrect == DeviceSpec => []LinesFollowState
  <1>1. BusyLinesThrottle /\ LineFollowsStatus => LinesFollowState
    BY DEF LinesFollowState
  <1> QED BY <1>1, FlagsAndBusyLinesCorrect, LineCorrect, PTL
-----------------------------------------------------------------------------
(* Pending interrupts stay true until an acknowledgement arrives late.     *)
THEOREM PendingCorrect == DeviceSpec => PendingStaysTrue
  <1>1. ASSUME DeviceTypeOK, PendingIsTrue, ~LateAck, DeviceNext
        PROVE  PendingIsTrue'
    <2> USE <1>1
    <2>1. CASE ReadDR
      <3>1. txFifo' = txFifo /\ ("TX" \in ris' => "TX" \in ris)
        BY <2>1 DEF ReadDR, txSide
      <3>2. CASE IsEmpty(rxFifo')
        <4>1. ris' = (ris \ {"RX"}) \cup {"RX_EMPTY"} /\ dmaRxBusy' = TRUE
          BY <2>1, <3>2 DEF ReadDR
        <4> QED BY <3>1, <3>2, <4>1 DEF PendingIsTrue, IsFull
      <3>3. CASE ~IsEmpty(rxFifo')
        <4>1. ris' = ris /\ ~IsEmpty(rxFifo)
          BY <2>1, <3>3 DEF ReadDR
        <4> QED BY <3>1, <3>3, <4>1 DEF PendingIsTrue, IsFull
      <3> QED BY <3>2, <3>3
    <2>2. ASSUME NEW x \in Data, WriteDR(x) PROVE PendingIsTrue'
      <3>1. rxFifo' = rxFifo /\ dmaRxBusy' = dmaRxBusy
        BY <2>2 DEF WriteDR, rxSide
      <3> QED BY <2>2, <3>1 DEF WriteDR, PendingIsTrue, IsEmpty, IsFull
    <2>3. ASSUME NEW bits \in SUBSET Interrupts, WriteICR(bits)
          PROVE  PendingIsTrue'
      <3>1. bits \subseteq ris
        BY <2>3 DEF LateAck
      <3>2. ris' \subseteq ris
        BY <2>3, <3>1 DEF WriteICR
      <3> QED BY <2>3, <3>2
          DEF WriteICR, PendingIsTrue, IsEmpty, IsFull, txSide, rxSide
    <2>4. ASSUME NEW bits \in SUBSET Interrupts, WriteIMSC(bits)
          PROVE  PendingIsTrue'
      BY <2>4 DEF WriteIMSC, PendingIsTrue, IsEmpty, IsFull, txSide, rxSide
    <2>5. CASE GetData
      <3>1. ~IsFull(txFifo')
        BY <2>5, EmptyIsNotFull DEF GetData, IsEmpty
      <3> QED BY <2>5, <3>1 DEF GetData, PendingIsTrue, IsEmpty, rxSide
    <2>6. ASSUME NEW msg \in Messages, SetData(msg) PROVE PendingIsTrue'
      <3>1. ~IsEmpty(rxFifo')
        BY <2>6, AppendMessage, MessagesAssumption DEF SetData, DeviceTypeOK
      <3> QED BY <2>6, <3>1 DEF SetData, PendingIsTrue, IsFull, txSide
    <2> QED BY <2>1, <2>2, <2>3, <2>4, <2>5, <2>6 DEF DeviceNext
  <1>2. DeviceTypeOK /\ [DeviceNext]_device
          => [PendingIsTrue /\ ~LateAck => PendingIsTrue']_device
    BY <1>1
  <1> QED BY <1>2, DeviceTypeCorrect, PTL DEF DeviceSpec, PendingStaysTrue
-----------------------------------------------------------------------------
(* The interrupt handler (MmioIrq) on the peripheral: what every module    *)
(* built on it needs to know of its steps.                                 *)

LEMMA InterruptType ==
    ASSUME DeviceTypeOK, TopTypeOK, InterruptStep
    PROVE  DeviceTypeOK' /\ TopTypeOK'
  <1>1. CASE TakeInterrupt
    BY <1>1 DEF TakeInterrupt, TopTypeOK, DeviceTypeOK, device
  <1>2. CASE ReadMIS
    BY <1>2 DEF ReadMIS, TopTypeOK, DeviceTypeOK, device, ServedFirst, Interrupts
  <1>3. CASE AckInterrupt
    <2>1. {irqBit} \in SUBSET Interrupts
      BY DEF TopTypeOK
    <2>2. DeviceTypeOK'
      BY <1>3, <2>1, WriteICRType DEF AckInterrupt
    <2> QED BY <1>3, <2>2 DEF AckInterrupt, TopTypeOK
  <1>4. CASE ScheduleWork
    BY <1>4 DEF ScheduleWork, TopTypeOK, DeviceTypeOK, device, Works
  <1> QED BY <1>1, <1>2, <1>3, <1>4 DEF InterruptStep

LEMMA InterruptFacts ==
    ASSUME FifoFacts, InterruptStep
    PROVE  FifoFacts' /\ UNCHANGED txFifo
  <1>1. CASE AckInterrupt
    <2>1. WriteICR({irqBit})
      BY <1>1 DEF AckInterrupt
    <2> QED BY <2>1, StatusWritesFacts DEF WriteICR, txSide
  <1>2. CASE UNCHANGED device
    BY <1>2 DEF device, FifoFacts, FlagsTellFifos, BusyLinesThrottle, IsEmpty, IsFull
  <1> QED BY <1>1, <1>2
          DEF InterruptStep, TakeInterrupt, ReadMIS, ScheduleWork

LEMMA TopInitType == TopInit => DeviceTypeOK /\ TopTypeOK
  BY EmptySeq, EmptyIsNotFull
  DEF TopInit, DeviceTypeOK, TopTypeOK, Flags, Interrupts, IsEmpty

LEMMA InterruptKeeps ==
    InterruptStep => UNCHANGED <<imsc, txFifo, dmaTxBusy, rxFifo, dmaRxBusy>>
  BY DEF InterruptStep, TakeInterrupt, ReadMIS, AckInterrupt, ScheduleWork, WriteICR,
         device, txSide, rxSide
=============================================================================
