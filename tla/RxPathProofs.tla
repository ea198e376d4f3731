---------------------------- MODULE RxPathProofs ----------------------------
(***************************************************************************)
(* Reception with DMA keeps its types and its reads inside rx.buf however  *)
(* host, reader, button, bottom halves and DMA controller interleave; and  *)
(* when the three parties wait for one another a transfer always belongs   *)
(* to the driver, nothing is left behind at rest, and the path implements  *)
(* the abstract mailbox, for every size of the FIFO and of the buffer,     *)
(* every set of messages and every budget of actions and failures.         *)
(***************************************************************************)
EXTENDS RxPath, MmioDeviceProofs

-----------------------------------------------------------------------------
(* Types and the bounds of a read, whoever acts when.                      *)

ThreadsTyped ==
    /\ pc \in [Threads -> {"idle", "lock", "terminate", "callback",
                           "led_off", "prepare", "led_on", "issue",
                           "status", "led_blue", "check", "size", "copy",
                           "wedged"}]
    /\ holders \subseteq Threads

DriverTyped ==
    /\ rxQueued \in BOOLEAN /\ ledGreen \in BOOLEAN /\ ledBlue \in BOOLEAN
    /\ rxSize \in 0 .. RxBufSize
    /\ rxMapped \in Int

ChannelTyped ==
    /\ rxBuf \in [1 .. RxBufSize -> Data \cup {Junk}]
    /\ transfers \in Seq(0 .. RxBufSize)
    /\ running \in BOOLEAN

\* The offset stays in the buffer because either look at rx_size cut the
\* length of the read in progress to what rx_size had left.
FileTyped ==
    /\ ppos \in 0 .. RxBufSize /\ readLen \in Nat
    /\ lastRead \in Seq(Data \cup {Junk})
    /\ ReadStaysInBuffer

LeftTyped == left \in [DOMAIN Budget -> Nat]

RxInv ==
    /\ DeviceTypeOK /\ TopTypeOK
    /\ ThreadsTyped /\ DriverTyped /\ ChannelTyped /\ FileTyped /\ LeftTyped

LEMMA RxInvTypes == RxInv => RxTypeOK /\ ReadStaysInBuffer
  BY DEF RxInv, RxTypeOK, ThreadsTyped, DriverTyped, ChannelTyped, FileTyped, LeftTyped

LEMMA SpendTyped ==
    ASSUME LeftTyped, NEW what \in DOMAIN Budget, Spend(what)
    PROVE  LeftTyped'
  BY DEF LeftTyped, Spend

LEMMA BudgetNames ==
    DOMAIN Budget = {"sends", "fetches", "presses", "opens", "reads", "faults"}
  BY BudgetAssumption

LEMMA ReceivedTyped == ASSUME ChannelTyped PROVE Received \in 0 .. RxBufSize
  <1>1. CASE transfers = <<>>
    BY <1>1, RxBufAssumption DEF Received
  <1>2. CASE transfers # <<>>
    <2>1. Len(transfers) \in 1 .. Len(transfers)
      <3>1. transfers \in Seq(0 .. RxBufSize)
        BY DEF ChannelTyped
      <3>2. Len(transfers) \in Nat /\ Len(transfers) # 0
        BY <3>1, <1>2, EmptySeq, LenProperties
      <3> QED BY <3>2
    <2>2. transfers[Len(transfers)] \in 0 .. RxBufSize
      BY <2>1, ElementOfSeq DEF ChannelTyped
    <2> QED BY <1>2, <2>2 DEF Received
  <1> QED BY <1>1, <1>2

LEMMA IssueTyped == ASSUME ChannelTyped, Issue PROVE ChannelTyped'
  <1> DEFINE before == IF running \/ transfers = <<>> THEN transfers
                       ELSE [transfers EXCEPT ![1] = 0]
  <1>1. transfers \in Seq(0 .. RxBufSize) /\ 0 \in 0 .. RxBufSize
    BY RxBufAssumption DEF ChannelTyped
  <1>2. before \in Seq(0 .. RxBufSize)
    <2>1. CASE running \/ transfers = <<>>
      BY <1>1, <2>1
    <2>2. CASE ~(running \/ transfers = <<>>)
      <3>1. 1 \in 1 .. Len(transfers)
        BY <1>1, <2>2, EmptySeq, LenProperties, SMT
      <3> QED BY <1>1, <2>2, <3>1, ExceptSeq
    <2> QED BY <2>1, <2>2
  <1>3. transfers' = Append(before, 0)
    BY DEF Issue
  <1> HIDE DEF before
  <1>4. transfers' \in Seq(0 .. RxBufSize)
    BY <1>1, <1>2, <1>3, AppendProperties
  <1> QED BY <1>4 DEF ChannelTyped, Issue

LEMMA TerminateTyped == ASSUME ChannelTyped, Terminate PROVE ChannelTyped'
  BY EmptySeq DEF ChannelTyped, Terminate

LEMMA RxInvInit == Init => RxInv
  <1> SUFFICES ASSUME Init PROVE RxInv
    OBVIOUS
  <1>1. DeviceTypeOK /\ TopTypeOK
    BY TopInitType DEF Init
  <1>2. ThreadsTyped
    BY DEF Init, ThreadsTyped
  <1>3. DriverTyped
    <2>1. rxSize \in 0 .. RxBufSize /\ rxMapped \in Int
      BY RxBufAssumption DEF Init
    <2>2. rxQueued \in BOOLEAN /\ ledGreen \in BOOLEAN /\ ledBlue \in BOOLEAN
      BY DEF Init
    <2> QED BY <2>1, <2>2 DEF DriverTyped
  <1>4. ChannelTyped
    BY EmptySeq DEF Init, ChannelTyped
  <1>5. FileTyped
    BY EmptySeq, RxBufAssumption DEF Init, FileTyped, ReadStaysInBuffer
  <1>6. LeftTyped
    BY BudgetAssumption DEF Init, LeftTyped
  <1> QED BY <1>1, <1>2, <1>3, <1>4, <1>5, <1>6 DEF RxInv

LEMMA FileKept ==
    ASSUME FileTyped, ThreadsTyped, UNCHANGED file,
           NEW t \in Threads \ {"reader"}, NEW label,
           UNCHANGED pc \/ Goto(t, label)
    PROVE  FileTyped'
  <1>1. pc'["reader"] = pc["reader"]
    BY DEF ThreadsTyped, Goto, Threads
  <1> QED BY <1>1 DEF FileTyped, ReadStaysInBuffer, file

\* What a bottom half or the tasklet does in a callback or a terminate.
LEMMA RxInvCallback ==
    ASSUME RxInv, NEW t \in {"rx_work", "rx_dma_work", "tasklet"},
           CallbackStep(t) \/ StopTransfer(t)
    PROVE  RxInv'
  <1> USE DEF RxInv
  <1>0. t \in Threads \ {"reader"}
    BY DEF Threads
  <1>1. CASE CallbackClear(t)
    <2>1. ThreadsTyped'
      BY <1>0, <1>1 DEF CallbackClear, ThreadsTyped, Goto
    <2>2. DriverTyped'
      <3>1. rxMapped' \in Int /\ rxSize' \in 0 .. RxBufSize
        BY <1>1 DEF CallbackClear, DriverTyped
      <3>2. rxQueued' \in BOOLEAN /\ ledGreen' \in BOOLEAN /\ ledBlue' \in BOOLEAN
        BY <1>1 DEF CallbackClear, DriverTyped
      <3> QED BY <3>1, <3>2 DEF DriverTyped
    <2>3. FileTyped'
      BY <1>0, <1>1, FileKept DEF CallbackClear
    <2> QED BY <1>1, <2>1, <2>2, <2>3
            DEF CallbackClear, ChannelTyped, channel, LeftTyped, device, top,
                DeviceTypeOK, TopTypeOK
  <1>2. CASE CallbackLed(t)
    <2>1. ThreadsTyped'
      BY <1>0, <1>2 DEF CallbackLed, AfterCallback, ThreadsTyped, Goto
    <2>2. DriverTyped'
      BY <1>2 DEF CallbackLed, DriverTyped
    <2>3. FileTyped'
      BY <1>0, <1>2, FileKept DEF CallbackLed
    <2> QED BY <1>2, <2>1, <2>2, <2>3
            DEF CallbackLed, ChannelTyped, channel, LeftTyped, device, top,
                DeviceTypeOK, TopTypeOK
  <1>3. CASE StopTransfer(t)
    <2>1. ThreadsTyped'
      BY <1>0, <1>3 DEF StopTransfer, ThreadsTyped, Goto
    <2>2. ChannelTyped'
      BY <1>3, TerminateTyped DEF StopTransfer
    <2>3. FileTyped'
      BY <1>0, <1>3, FileKept DEF StopTransfer
    <2> QED BY <1>3, <2>1, <2>2, <2>3
            DEF StopTransfer, DriverTyped, driver, LeftTyped, device, top,
                DeviceTypeOK, TopTypeOK
  <1> QED BY <1>1, <1>2, <1>3 DEF CallbackStep

LEMMA TakeWorkTyped ==
    ASSUME RxInv, NEW w \in Works, TakeWork(w)
    PROVE  DeviceTypeOK' /\ TopTypeOK'
  BY DEF RxInv, TakeWork, device, DeviceTypeOK, TopTypeOK

LEMMA RxInvRxWork == ASSUME RxInv, RxWorkStep \/ RxWorkFails PROVE RxInv'
  <1> USE DEF RxInv
  <1>0. "rx_work" \in Threads \ {"reader"} /\ "rx_work" \in Works
    BY DEF Threads, Works
  <1>1. CASE RxWorkBegin
    <2>1. DeviceTypeOK' /\ TopTypeOK'
      BY <1>0, <1>1, TakeWorkTyped DEF RxWorkBegin
    <2>2. ThreadsTyped'
      BY <1>0, <1>1 DEF RxWorkBegin, ThreadsTyped, Goto
    <2>3. FileTyped'
      BY <1>0, <1>1, FileKept DEF RxWorkBegin, TakeWork
    <2> QED BY <1>1, <2>1, <2>2, <2>3
            DEF RxWorkBegin, TakeWork, DriverTyped, driver, ChannelTyped, channel,
                LeftTyped
  <1>2. CASE RxWorkLock
    <2>1. ThreadsTyped'
      BY <1>0, <1>2 DEF RxWorkLock, ThreadsTyped, Goto
    <2>2. FileTyped'
      BY <1>0, <1>2, FileKept DEF RxWorkLock
    <2> QED BY <1>2, <2>1, <2>2
            DEF RxWorkLock, DriverTyped, driver, ChannelTyped, channel, LeftTyped,
                device, top, DeviceTypeOK, TopTypeOK
  <1>3. CASE RxWorkPrepare
    <2>1. ThreadsTyped'
      BY <1>0, <1>3 DEF RxWorkPrepare, ThreadsTyped, Goto
    <2>2. FileTyped'
      BY <1>0, <1>3, FileKept DEF RxWorkPrepare
    <2>3. DriverTyped'
      BY <1>3 DEF RxWorkPrepare, DriverTyped
    <2> QED BY <1>3, <2>1, <2>2, <2>3
            DEF RxWorkPrepare, ChannelTyped, channel, LeftTyped,
                device, top, DeviceTypeOK, TopTypeOK
  <1>4. CASE RxWorkFails
    <2>1. ThreadsTyped'
      BY <1>0, <1>4 DEF RxWorkFails, ThreadsTyped, Goto
    <2>2. FileTyped'
      BY <1>0, <1>4, FileKept DEF RxWorkFails
    <2>3. LeftTyped'
      BY <1>4, SpendTyped, BudgetNames DEF RxWorkFails
    <2> QED BY <1>4, <2>1, <2>2, <2>3
            DEF RxWorkFails, DriverTyped, driver, ChannelTyped, channel,
                device, top, DeviceTypeOK, TopTypeOK
  <1>5. CASE RxWorkLed
    <2>1. ThreadsTyped'
      BY <1>0, <1>5 DEF RxWorkLed, ThreadsTyped, Goto
    <2>2. FileTyped'
      BY <1>0, <1>5, FileKept DEF RxWorkLed
    <2>3. DriverTyped'
      BY <1>5 DEF RxWorkLed, DriverTyped
    <2> QED BY <1>5, <2>1, <2>2, <2>3
            DEF RxWorkLed, ChannelTyped, channel, LeftTyped,
                device, top, DeviceTypeOK, TopTypeOK
  <1>6. CASE RxWorkIssue
    <2>1. ThreadsTyped'
      BY <1>0, <1>6 DEF RxWorkIssue, ThreadsTyped, Goto
    <2>2. FileTyped'
      BY <1>0, <1>6, FileKept DEF RxWorkIssue
    <2>3. ChannelTyped'
      BY <1>6, IssueTyped DEF RxWorkIssue
    <2> QED BY <1>6, <2>1, <2>2, <2>3
            DEF RxWorkIssue, DriverTyped, driver, LeftTyped,
                device, top, DeviceTypeOK, TopTypeOK
  <1> QED BY <1>1, <1>2, <1>3, <1>4, <1>5, <1>6, RxInvCallback DEF RxWorkStep

LEMMA RxInvRxDmaWork == ASSUME RxInv, RxDmaWorkStep PROVE RxInv'
  <1> USE DEF RxInv
  <1>0. "rx_dma_work" \in Threads \ {"reader"} /\ "rx_dma_work" \in Works
    BY DEF Threads, Works
  <1>1. CASE RxDmaWorkPause
    <2>1. DeviceTypeOK' /\ TopTypeOK'
      BY <1>0, <1>1, TakeWorkTyped DEF RxDmaWorkPause
    <2>2. ThreadsTyped'
      BY <1>0, <1>1 DEF RxDmaWorkPause, ThreadsTyped, Goto
    <2>3. FileTyped'
      BY <1>0, <1>1, FileKept DEF RxDmaWorkPause, TakeWork
    <2>4. ChannelTyped'
      BY <1>1 DEF RxDmaWorkPause, ChannelTyped
    <2> QED BY <1>1, <2>1, <2>2, <2>3, <2>4
            DEF RxDmaWorkPause, TakeWork, DriverTyped, driver, LeftTyped
  <1>2. CASE RxDmaWorkStatus
    <2>1. ThreadsTyped'
      BY <1>0, <1>2 DEF RxDmaWorkStatus, ThreadsTyped, Goto
    <2>2. FileTyped'
      BY <1>0, <1>2, FileKept DEF RxDmaWorkStatus
    <2>3. DriverTyped'
      BY <1>2, ReceivedTyped DEF RxDmaWorkStatus, DriverTyped
    <2> QED BY <1>2, <2>1, <2>2, <2>3
            DEF RxDmaWorkStatus, ChannelTyped, channel, LeftTyped,
                device, top, DeviceTypeOK, TopTypeOK
  <1>3. CASE RxDmaWorkLed
    <2>1. ThreadsTyped'
      BY <1>0, <1>3 DEF RxDmaWorkLed, ThreadsTyped, Goto
    <2>2. FileTyped'
      BY <1>0, <1>3, FileKept DEF RxDmaWorkLed
    <2>3. DriverTyped'
      BY <1>3 DEF RxDmaWorkLed, DriverTyped
    <2> QED BY <1>3, <2>1, <2>2, <2>3
            DEF RxDmaWorkLed, ChannelTyped, channel, LeftTyped,
                device, top, DeviceTypeOK, TopTypeOK
  <1>4. CASE RxDmaWorkCheck
    <2>1. ThreadsTyped'
      BY <1>0, <1>4 DEF RxDmaWorkCheck, ThreadsTyped, Goto
    <2>2. FileTyped'
      BY <1>0, <1>4, FileKept DEF RxDmaWorkCheck
    <2> QED BY <1>4, <2>1, <2>2
            DEF RxDmaWorkCheck, DriverTyped, driver, ChannelTyped, channel, LeftTyped,
                device, top, DeviceTypeOK, TopTypeOK
  <1> QED BY <1>1, <1>2, <1>3, <1>4, RxInvCallback DEF RxDmaWorkStep

LEMMA FirstTransfer ==
    ASSUME ChannelTyped, transfers # <<>>
    PROVE  1 \in 1 .. Len(transfers) /\ transfers[1] \in 0 .. RxBufSize
  <1>1. transfers \in Seq(0 .. RxBufSize)
    BY DEF ChannelTyped
  <1>2. 1 \in 1 .. Len(transfers)
    BY <1>1, EmptySeq, LenProperties, SMT
  <1> QED BY <1>1, <1>2, ElementOfSeq

LEMMA RxInvMoveByte == ASSUME RxInv, MoveByte PROVE RxInv'
  <1> USE DEF RxInv
  <1>1. DeviceTypeOK' /\ TopTypeOK'
    BY ReadDRType DEF MoveByte, top, TopTypeOK
  <1>2. ChannelTyped'
    <2>1. /\ transfers \in Seq(0 .. RxBufSize) /\ 1 \in 1 .. Len(transfers)
          /\ transfers[1] \in 0 .. RxBufSize /\ transfers[1] < RxBufSize
      BY FirstTransfer DEF MoveByte, ChannelTyped
    <2>2. transfers[1] + 1 \in 0 .. RxBufSize /\ transfers[1] + 1 \in 1 .. RxBufSize
      BY <2>1, RxBufAssumption
    <2>3. transfers' \in Seq(0 .. RxBufSize)
      <3>1. transfers' = [transfers EXCEPT ![1] = transfers[1] + 1]
        BY DEF MoveByte
      <3> QED BY <2>1, <2>2, <3>1, ExceptSeq
    <2>4. IsEmpty(rxFifo) \/ Head(rxFifo) \in Data
      BY HeadTailProperties DEF DeviceTypeOK, IsEmpty
    <2>5. rxBuf' \in [1 .. RxBufSize -> Data \cup {Junk}]
      BY <2>2, <2>4 DEF MoveByte, ChannelTyped
    <2> QED BY <2>3, <2>5 DEF ChannelTyped, MoveByte
  <1> QED BY <1>1, <1>2
          DEF MoveByte, ThreadsTyped, DriverTyped, driver, FileTyped, ReadStaysInBuffer,
              file, LeftTyped

LEMMA RxInvComplete == ASSUME RxInv, CompleteTransfer PROVE RxInv'
  <1> USE DEF RxInv
  <1>0. "tasklet" \in Threads \ {"reader"}
    BY DEF Threads
  <1>1. ThreadsTyped'
    BY <1>0 DEF CompleteTransfer, ThreadsTyped, Goto
  <1>2. FileTyped'
    BY <1>0, FileKept DEF CompleteTransfer
  <1>3. ChannelTyped'
    BY HeadTailProperties DEF CompleteTransfer, ChannelTyped
  <1> QED BY <1>1, <1>2, <1>3
          DEF CompleteTransfer, DriverTyped, driver, LeftTyped, device, top, DeviceTypeOK,
              TopTypeOK

\* How much a read of so many bytes may copy.
Readable(len) ==
    IF rxSize > len + ppos THEN len
    ELSE IF rxSize >= ppos THEN rxSize - ppos ELSE 0

LEMMA ReadableFits ==
    ASSUME DriverTyped, FileTyped, NEW len \in Nat
    PROVE  Readable(len) \in Nat /\ ppos + Readable(len) <= RxBufSize
  <1>1. rxSize \in Nat /\ ppos \in Nat /\ rxSize <= RxBufSize /\ ppos <= RxBufSize
    BY RxBufAssumption DEF DriverTyped, FileTyped
  <1> QED BY <1>1, RxBufAssumption DEF Readable

LEMMA RxInvReader ==
    ASSUME RxInv, Open \/ ReadStep \/ (\E len \in ReadSizes : Read(len))
    PROVE  RxInv'
  <1> USE DEF RxInv
  <1>0. "reader" \in Threads
    BY DEF Threads
  <1>1. CASE Open
    <2>1. LeftTyped'
      BY <1>1, SpendTyped, BudgetNames DEF Open
    <2>2. 0 \in 0 .. RxBufSize /\ pc["reader"] = "idle"
      BY <1>1, RxBufAssumption DEF Open, At
    <2>3. FileTyped'
      BY <1>1, <2>2 DEF Open, FileTyped, ReadStaysInBuffer
    <2> QED BY <1>1, <2>1, <2>3
            DEF Open, ThreadsTyped, DriverTyped, driver, ChannelTyped, channel,
                device, top, DeviceTypeOK, TopTypeOK
  <1>2. ASSUME NEW len \in ReadSizes, Read(len) PROVE RxInv'
    <2>1. LeftTyped'
      BY <1>2, SpendTyped, BudgetNames DEF Read
    <2>2. ThreadsTyped' /\ pc'["reader"] = "lock"
      BY <1>0, <1>2 DEF Read, ThreadsTyped, Goto
    <2>3. FileTyped'
      BY <1>2, <2>2, RxReadSizesAssumption DEF Read, FileTyped, ReadStaysInBuffer
    <2> QED BY <1>2, <2>1, <2>2, <2>3
            DEF Read, DriverTyped, driver, ChannelTyped, channel,
                device, top, DeviceTypeOK, TopTypeOK
  <1>3. CASE ReadLock
    <2>1. ThreadsTyped' /\ pc'["reader"] = IF rxSize <= readLen + ppos THEN "size" ELSE "copy"
      BY <1>0, <1>3 DEF ReadLock, ThreadsTyped, Goto
    <2>2. UNCHANGED <<ppos, readLen, lastRead, rxSize>>
      BY <1>3 DEF ReadLock, file, driver
    <2>3. pc'["reader"] = "copy" => ppos + readLen <= RxBufSize
      <3>1. rxSize \in Nat /\ rxSize <= RxBufSize /\ ppos \in Nat /\ readLen \in Nat
        BY RxBufAssumption DEF DriverTyped, FileTyped
      <3> QED BY <2>1, <3>1, RxBufAssumption
    <2>4. FileTyped'
      BY <2>2, <2>3 DEF FileTyped, ReadStaysInBuffer
    <2> QED BY <1>3, <2>1, <2>4
            DEF ReadLock, DriverTyped, driver, ChannelTyped, channel, LeftTyped,
                device, top, DeviceTypeOK, TopTypeOK
  <1>4. CASE ReadLength
    <2>1. ThreadsTyped'
      BY <1>0, <1>4 DEF ReadLength, ThreadsTyped, Goto
    <2>2. readLen' \in Nat /\ ppos + readLen' <= RxBufSize
      <3>1. rxSize \in Nat /\ rxSize <= RxBufSize /\ ppos \in Nat /\ ppos <= RxBufSize
        BY RxBufAssumption DEF DriverTyped, FileTyped
      <3> QED BY <1>4, <3>1, RxBufAssumption DEF ReadLength
    <2>3. FileTyped'
      BY <1>4, <2>2 DEF ReadLength, FileTyped, ReadStaysInBuffer
    <2> QED BY <1>4, <2>1, <2>3
            DEF ReadLength, DriverTyped, driver, ChannelTyped, channel, LeftTyped,
                device, top, DeviceTypeOK, TopTypeOK
  <1>5. CASE ReadCopy
    <2>1. ThreadsTyped' /\ pc'["reader"] = "idle"
      BY <1>0, <1>5 DEF ReadCopy, ThreadsTyped, Goto
    <2>2. /\ ppos \in Nat /\ readLen \in Nat /\ ppos + readLen <= RxBufSize
          /\ rxBuf \in [1 .. RxBufSize -> Data \cup {Junk}]
      BY <1>5 DEF FileTyped, ReadStaysInBuffer, ReadCopy, At, ChannelTyped
    <2>3. \A i \in 1 .. readLen : ppos + i \in 1 .. RxBufSize
      BY <2>2, RxBufAssumption
    <2>4. \A i \in 1 .. readLen : rxBuf[ppos + i] \in Data \cup {Junk}
      BY <2>2, <2>3
    <2>5. lastRead' \in Seq(Data \cup {Junk})
      BY <1>5, <2>2, <2>4, IsASeq DEF ReadCopy
    <2>6. ppos' \in 0 .. RxBufSize /\ readLen' \in Nat
      BY <1>5, <2>2, RxBufAssumption DEF ReadCopy
    <2>7. FileTyped'
      BY <2>1, <2>5, <2>6 DEF FileTyped, ReadStaysInBuffer
    <2> QED BY <1>5, <2>1, <2>7
            DEF ReadCopy, DriverTyped, driver, ChannelTyped, channel, LeftTyped,
                device, top, DeviceTypeOK, TopTypeOK
  <1> QED BY <1>1, <1>2, <1>3, <1>4, <1>5 DEF ReadStep

LEMMA RxInvButton ==
    ASSUME RxInv, Press \/ PressOnHolder \/ ButtonStep PROVE RxInv'
  <1> USE DEF RxInv
  <1>0. "button" \in Threads \ {"reader"}
    BY DEF Threads
  <1>1. CASE Press \/ PressOnHolder
    <2>1. LeftTyped'
      BY <1>1, SpendTyped, BudgetNames DEF Press, PressOnHolder
    <2>2. ThreadsTyped' /\ FileTyped'
      BY <1>0, <1>1, FileKept DEF Press, PressOnHolder, ThreadsTyped, Goto
    <2> QED BY <1>1, <2>1, <2>2
            DEF Press, PressOnHolder, DriverTyped, driver, ChannelTyped, channel,
                device, top, DeviceTypeOK, TopTypeOK
  <1>2. CASE ButtonLock
    <2>1. ThreadsTyped' /\ FileTyped'
      BY <1>0, <1>2, FileKept DEF ButtonLock, ThreadsTyped, Goto
    <2>2. DriverTyped'
      <3>1. rxSize' \in 0 .. RxBufSize /\ rxMapped' \in Int
        BY <1>2, RxBufAssumption DEF ButtonLock, DriverTyped
      <3> QED BY <1>2, <3>1 DEF ButtonLock, DriverTyped
    <2> QED BY <1>2, <2>1, <2>2
            DEF ButtonLock, ChannelTyped, channel, LeftTyped,
                device, top, DeviceTypeOK, TopTypeOK
  <1>3. CASE ButtonUnlock
    <2>1. ThreadsTyped' /\ FileTyped'
      BY <1>0, <1>3, FileKept DEF ButtonUnlock, ThreadsTyped, Goto
    <2>2. DriverTyped'
      BY <1>3 DEF ButtonUnlock, DriverTyped
    <2> QED BY <1>3, <2>1, <2>2
            DEF ButtonUnlock, ChannelTyped, channel, LeftTyped,
                device, top, DeviceTypeOK, TopTypeOK
  <1> QED BY <1>1, <1>2, <1>3 DEF ButtonStep

\* Steps that leave the threads, the driver, the channel and the file alone.
LEMMA RxInvDevice ==
    ASSUME RxInv, DeviceTypeOK', TopTypeOK', LeftTyped',
           UNCHANGED <<pc, holders, driver, channel, file>>
    PROVE  RxInv'
  BY DEF RxInv, ThreadsTyped, DriverTyped, driver, ChannelTyped, channel, FileTyped,
         ReadStaysInBuffer, file

LEMMA RxInvHost ==
    ASSUME RxInv, HostFetches \/ Interrupt \/ (\E msg \in Messages : HostSends(msg))
    PROVE  RxInv'
  <1> USE DEF RxInv
  <1>1. ASSUME NEW msg \in Messages, HostSends(msg) PROVE RxInv'
    <2>1. DeviceTypeOK'
      BY <1>1, SetDataType, MessagesAssumption DEF HostSends
    <2>2. LeftTyped'
      BY <1>1, SpendTyped, BudgetNames DEF HostSends
    <2> QED BY <1>1, <2>1, <2>2, RxInvDevice DEF HostSends, top, TopTypeOK
  <1>2. CASE HostFetches
    <2>1. DeviceTypeOK'
      BY <1>2, GetDataType DEF HostFetches
    <2>2. LeftTyped'
      BY <1>2, SpendTyped, BudgetNames DEF HostFetches
    <2> QED BY <1>2, <2>1, <2>2, RxInvDevice DEF HostFetches, top, TopTypeOK
  <1>3. CASE Interrupt
    BY <1>3, InterruptType, RxInvDevice DEF Interrupt, LeftTyped
  <1> QED BY <1>1, <1>2, <1>3

LEMMA RxInvNext == ASSUME RxInv, [Next]_vars PROVE RxInv'
  <1>1. CASE UNCHANGED vars
    BY <1>1, RxInvDevice
    DEF vars, RxInv, device, top, DeviceTypeOK, TopTypeOK, LeftTyped
  <1>2. CASE Next
    BY <1>1, <1>2, RxInvRxWork, RxInvRxDmaWork, RxInvMoveByte, RxInvComplete,
       RxInvCallback, RxInvReader, RxInvButton, RxInvHost
    DEF Next, Wait
  <1> QED BY <1>1, <1>2

\* RxInv is inductive: the types, with the bound on the read in progress
\* that the file offset needs.
THEOREM RxInvCorrect == Spec => []RxInv
  BY RxInvInit, RxInvNext, PTL DEF Spec

\* Every variable of the receive path keeps its type, for any interleaving.
THEOREM RxTypeCorrect == Spec => []RxTypeOK
  BY RxInvCorrect, RxInvTypes, PTL

\* No read reaches past rx.buf: the length was cut to what rx_size had left
\* at the lock, and neither offset nor length changes before the copy.
THEOREM ReadsStayInBuffer == Spec => []ReadStaysInBuffer
  BY RxInvCorrect, RxInvTypes, PTL

-----------------------------------------------------------------------------
(***************************************************************************)
(* When host, reader and button wait for one another, one thing happens at *)
(* a time: what was started is with the interrupt handler, a bottom half,  *)
(* the channel, the reader or the button, and the others are at rest.      *)
(* Stage lists where the system can be.                                    *)
(***************************************************************************)
AllIdleBut(some) == \A t \in Threads \ some : pc[t] = "idle"

\* No interrupt and no bottom half is on its way.
IrqQuiet == ris = {} /\ ~irq /\ irqPc = "idle" /\ workPending = {}

\* The interrupt is pending and not acknowledged yet.
Raised(bit) ==
    /\ ris = {bit} /\ irq /\ workPending = {}
    /\ irqPc \in {"idle", "read"} \/ (irqPc = "ack" /\ irqBit = bit)

\* The interrupt is on its way to the bottom half it is for.
Signalled(bit, w) ==
    \/ Raised(bit)
    \/ ris = {} /\ ~irq /\ irqPc = "schedule" /\ irqBit = bit /\ workPending = {}
    \/ ris = {} /\ ~irq /\ irqPc = "idle" /\ workPending = {w}

NoTransfer == transfers = <<>> /\ ~rxQueued /\ rxMapped = 0 /\ ~ledGreen

OneTransfer == Len(transfers) = 1 /\ rxQueued /\ rxMapped = 1

BlueIsTrue == ledBlue <=> rxSize # 0

\* What is in the FIFO although nothing is on its way was left there by a
\* bottom half that failed.
StuckByFault == left["faults"] = Budget["faults"] => IsEmpty(rxFifo)

\* A read that has not compared its length with rx_size, that has and is to
\* cut it, and that may copy.
Reading ==
    \/ pc["reader"] = "lock" /\ holders = {} /\ readLen \in ReadSizes
    \/ /\ pc["reader"] = "size" /\ holders = {"reader"}
       /\ readLen \in ReadSizes /\ rxSize <= readLen + ppos
    \/ /\ pc["reader"] = "copy" /\ holders = {"reader"}
       /\ \E len \in ReadSizes : readLen = Readable(len)

\* Nothing is under way, or the host's fetch, a read or the button is.
Calm ==
    /\ NoTransfer /\ StuckByFault
    /\ \/ /\ IrqQuiet \/ Raised("TX")
          /\ AllIdleBut({}) /\ holders = {} /\ BlueIsTrue
       \/ IrqQuiet /\ AllIdleBut({"reader"}) /\ BlueIsTrue /\ Reading
       \/ /\ IrqQuiet /\ AllIdleBut({"button"})
          /\ \/ pc["button"] = "lock" /\ holders = {} /\ BlueIsTrue
             \/ pc["button"] = "led_blue" /\ holders = {"button"} /\ rxSize = 0

\* A message is in the FIFO and rx_work is to fetch it.
Arrived ==
    /\ Signalled("RX", "rx_work") /\ AllIdleBut({}) /\ holders = {}
    /\ NoTransfer /\ BlueIsTrue
    /\ ~IsEmpty(rxFifo) /\ ~dmaRxBusy

\* rx_work prepares the transfer.
Starting ==
    /\ IrqQuiet /\ AllIdleBut({"rx_work"})
    /\ BlueIsTrue /\ ~IsEmpty(rxFifo) /\ ~dmaRxBusy
    /\ transfers = <<>>
    /\ \/ pc["rx_work"] = "lock" /\ holders = {} /\ NoTransfer
       \/ pc["rx_work"] = "prepare" /\ holders = {"rx_work"} /\ NoTransfer
       \/ /\ pc["rx_work"] = "led_on" \/ (pc["rx_work"] = "issue" /\ ledGreen)
          /\ holders = {"rx_work"} /\ rxQueued /\ rxMapped = 1

\* The channel moves the message into rx.buf, which has room for all of it.
Moving ==
    /\ IrqQuiet /\ AllIdleBut({}) /\ holders = {} /\ BlueIsTrue
    /\ OneTransfer /\ running
    /\ ~IsEmpty(rxFifo) /\ ~dmaRxBusy
    /\ transfers[1] + Len(rxFifo) < FifoSize

\* A message, at most all that the FIFO holds, is in rx.buf.
HasMessage == OneTransfer /\ transfers[1] \in 1 .. FifoSize - 1

\* The message is in rx.buf and rx_dma_work is to find out how long it is.
Emptied ==
    /\ Signalled("RX_EMPTY", "rx_dma_work") /\ AllIdleBut({}) /\ holders = {}
    /\ BlueIsTrue /\ HasMessage
    /\ IsEmpty(rxFifo) /\ dmaRxBusy

\* rx_dma_work delivers the message and gives the transfer back.
Finishing ==
    /\ IrqQuiet /\ AllIdleBut({"rx_dma_work"}) /\ holders = {}
    /\ IsEmpty(rxFifo) /\ dmaRxBusy
    /\ \/ pc["rx_dma_work"] = "status" /\ HasMessage /\ BlueIsTrue
       \/ pc["rx_dma_work"] = "led_blue" /\ HasMessage /\ rxSize = transfers[1]
       \/ /\ pc["rx_dma_work"] \in {"check", "terminate"}
          /\ HasMessage /\ rxSize = transfers[1] /\ ledBlue
       \/ /\ pc["rx_dma_work"] = "callback"
          /\ transfers = <<>> /\ rxMapped = 1 /\ rxSize # 0 /\ ledBlue
       \/ /\ pc["rx_dma_work"] = "led_off"
          /\ transfers = <<>> /\ ~rxQueued /\ rxMapped = 0 /\ rxSize # 0 /\ ledBlue
-----------------------------------------------------------------------------
(* Who cannot act when. *)

LEMMA QuietLine == IrqQuiet => ~InterruptStep
  BY DEF IrqQuiet, InterruptStep, TakeInterrupt, ReadMIS, AckInterrupt, ScheduleWork

LEMMA RxWorkRests ==
    ASSUME pc["rx_work"] = "idle", "rx_work" \notin workPending
    PROVE  ~RxWorkStep /\ ~RxWorkFails
  BY DEF RxWorkStep, RxWorkBegin, TakeWork, RxWorkLock, StopTransfer, CallbackStep,
         CallbackClear, CallbackLed, RxWorkPrepare, RxWorkLed, RxWorkIssue, RxWorkFails, At

LEMMA RxDmaWorkRests ==
    ASSUME pc["rx_dma_work"] = "idle", "rx_dma_work" \notin workPending
    PROVE  ~RxDmaWorkStep
  BY DEF RxDmaWorkStep, RxDmaWorkPause, TakeWork, RxDmaWorkStatus, RxDmaWorkLed,
         RxDmaWorkCheck, StopTransfer, CallbackStep, CallbackClear, CallbackLed, At

LEMMA TaskletRests ==
    ASSUME pc["tasklet"] = "idle", transfers # <<>> => transfers[1] < RxBufSize, RxInv
    PROVE  ~CompleteTransfer /\ ~CallbackStep("tasklet")
  <1>1. RxBufSize \in Nat
    BY RxBufAssumption
  <1>2. \A n : n < RxBufSize => n # RxBufSize
    BY <1>1
  <1>3. ~CompleteTransfer
    BY <1>2 DEF CompleteTransfer
  <1> QED BY <1>3 DEF CallbackStep, CallbackClear, CallbackLed, At

LEMMA ChannelRests ==
    ASSUME ~running \/ transfers = <<>> \/ dmaRxBusy
    PROVE  ~MoveByte
  BY DEF MoveByte

LEMMA PartiesRest ==
    ASSUME Paced = Parties, ~AtRest, pc["button"] # "wedged"
    PROVE  /\ ~HostFetches /\ ~Open /\ ~Press /\ ~PressOnHolder /\ ~Wait
           /\ ~(\E msg \in Messages : HostSends(msg))
           /\ ~(\E len \in ReadSizes : Read(len))
  BY DEF HostFetches, HostSends, Open, Press, PressOnHolder, Wait, Wedged, Read, MayAct,
         Parties

LEMMA ReaderRests == ASSUME pc["reader"] = "idle" PROVE ~ReadStep
  BY DEF ReadStep, ReadLock, ReadLength, ReadCopy, At

LEMMA ButtonRests == ASSUME pc["button"] = "idle" PROVE ~ButtonStep
  BY DEF ButtonStep, ButtonLock, ButtonUnlock

LEMMA GotoFacts ==
    ASSUME ThreadsTyped, NEW t \in Threads, NEW label, Goto(t, label)
    PROVE  pc'[t] = label /\ \A u \in Threads \ {t} : pc'[u] = pc[u]
  BY DEF ThreadsTyped, Goto
-----------------------------------------------------------------------------
(* What the handler does with an interrupt. *)

LEMMA RaisedStep ==
    ASSUME NEW bit \in Interrupts, TopTypeOK, imsc = Interrupts, Raised(bit),
           InterruptStep
    PROVE  \/ Raised(bit)'
           \/ bit = "TX" /\ IrqQuiet'
           \/ /\ bit # "TX"
              /\ ris' = {} /\ ~irq' /\ irqPc' = "schedule" /\ irqBit' = bit
              /\ workPending' = {}
  <1>1. CASE TakeInterrupt
    BY <1>1 DEF TakeInterrupt, Raised, device
  <1>2. CASE ReadMIS
    <2>1. MIS = {bit} /\ ServedFirst(MIS) = bit
      BY DEF MIS, ServedFirst, Raised, Interrupts
    <2>2. irqPc' = "ack" /\ irqBit' = bit
      BY <1>2, <2>1 DEF ReadMIS
    <2> QED BY <1>2, <2>2 DEF ReadMIS, Raised, device
  <1>3. CASE AckInterrupt
    <2>1. irqBit = bit /\ ris = {bit} /\ workPending = {}
      BY <1>3 DEF AckInterrupt, Raised
    <2>2. ris' = {} /\ ~irq'
      BY <1>3, <2>1 DEF AckInterrupt, WriteICR, Update
    <2> QED BY <1>3, <2>1, <2>2 DEF AckInterrupt, IrqQuiet
  <1>4. ~ScheduleWork
    BY DEF ScheduleWork, Raised
  <1> QED BY <1>1, <1>2, <1>3, <1>4 DEF InterruptStep

LEMMA SignalStep ==
    ASSUME NEW bit, NEW w, <<bit, w>> \in {<<"RX", "rx_work">>, <<"RX_EMPTY", "rx_dma_work">>},
           TopTypeOK, imsc = Interrupts, Signalled(bit, w), InterruptStep
    PROVE  Signalled(bit, w)'
  <1>1. CASE Raised(bit)
    <2>1. bit \in Interrupts /\ bit # "TX"
      BY DEF Interrupts
    <2> QED BY <1>1, <2>1, RaisedStep DEF Signalled
  <1>2. CASE ris = {} /\ ~irq /\ irqPc = "schedule" /\ irqBit = bit /\ workPending = {}
    <2>1. ScheduleWork
      BY <1>2 DEF InterruptStep, TakeInterrupt, ReadMIS, AckInterrupt
    <2>2. workPending' = {w} /\ irqPc' = "idle" /\ UNCHANGED device
      BY <1>2, <2>1 DEF ScheduleWork
    <2> QED BY <1>2, <2>2 DEF Signalled, device
  <1>3. ~(ris = {} /\ ~irq /\ irqPc = "idle" /\ workPending = {w})
    BY DEF InterruptStep, TakeInterrupt, ReadMIS, AckInterrupt, ScheduleWork
  <1> QED BY <1>1, <1>2, <1>3 DEF Signalled
-----------------------------------------------------------------------------
(* Each stage is followed by itself or by the next one. *)

PacedFacts == RxInv /\ imsc = Interrupts /\ left["faults"] <= Budget["faults"]

Stage == Calm \/ Arrived \/ Starting \/ Moving \/ Emptied \/ Finishing

\* The host's message: RX is pending, and there is something in the FIFO.
LEMMA MessageArrives ==
    ASSUME PacedFacts, Calm, IrqQuiet, AllIdleBut({}), holders = {}, BlueIsTrue,
           NEW msg \in Messages, HostSends(msg)
    PROVE  Arrived'
  <1>1. DeviceTypeOK /\ msg \in Seq(Data) /\ SetData(msg)
    BY MessagesAssumption DEF PacedFacts, RxInv, HostSends
  <1>2. ~IsEmpty(rxFifo')
    BY <1>1, AppendMessage DEF SetData, DeviceTypeOK
  <1>3. ris' = {"RX"} /\ irq' /\ ~dmaRxBusy'
    BY <1>1 DEF SetData, Update, IrqQuiet, PacedFacts, Interrupts
  <1>4. Raised("RX")'
    BY <1>3 DEF Raised, HostSends, top, IrqQuiet
  <1>5. AllIdleBut({})' /\ holders' = {} /\ NoTransfer' /\ BlueIsTrue'
    BY DEF HostSends, Calm, AllIdleBut, NoTransfer, BlueIsTrue, driver, channel
  <1> QED BY <1>2, <1>3, <1>4, <1>5 DEF Arrived, Signalled, IsEmpty

\* Nothing is under way: a party acts, or all wait.
LEMMA CalmAtRest ==
    ASSUME Paced = Parties, PacedFacts, Calm, IrqQuiet, AllIdleBut({}), holders = {},
           BlueIsTrue, Next
    PROVE  Calm' \/ Arrived'
  <1>1. transfers = <<>> /\ workPending = {}
        /\ pc["rx_work"] = "idle" /\ pc["rx_dma_work"] = "idle"
        /\ pc["tasklet"] = "idle" /\ pc["reader"] = "idle" /\ pc["button"] = "idle"
    BY DEF Calm, NoTransfer, IrqQuiet, AllIdleBut, Threads
  <1>2. RxInv /\ ThreadsTyped
    BY DEF PacedFacts, RxInv
  <1>3. CASE \E msg \in Messages : HostSends(msg)
    BY <1>3, MessageArrives
  <1>4. CASE HostFetches
    <2>1. GetData
      BY <1>4 DEF HostFetches
    <2>2. ris' = {"TX"} /\ irq' /\ rxFifo' = rxFifo
      BY <2>1 DEF GetData, Update, IrqQuiet, PacedFacts, Interrupts, rxSide
    <2>3. Raised("TX")'
      BY <1>4, <2>2 DEF Raised, HostFetches, top, IrqQuiet
    <2>4. AllIdleBut({})' /\ holders' = {} /\ NoTransfer' /\ BlueIsTrue'
      BY <1>4 DEF HostFetches, Calm, AllIdleBut, NoTransfer, BlueIsTrue, driver, channel
    <2>5. StuckByFault'
      BY <1>4, <2>2, BudgetAssumption
      DEF HostFetches, Spend, Calm, StuckByFault, IsEmpty, PacedFacts, RxInv, LeftTyped
    <2> QED BY <2>3, <2>4, <2>5 DEF Calm
  <1>5. CASE Open
    <2>1. IrqQuiet' /\ AllIdleBut({})' /\ holders' = {} /\ NoTransfer' /\ BlueIsTrue'
      BY <1>5 DEF Open, Calm, IrqQuiet, device, top, AllIdleBut, NoTransfer, BlueIsTrue,
                  driver, channel
    <2>2. StuckByFault'
      BY <1>5, BudgetAssumption
      DEF Open, Spend, Calm, StuckByFault, IsEmpty, device, PacedFacts, RxInv, LeftTyped
    <2> QED BY <2>1, <2>2 DEF Calm
  <1>6. ASSUME NEW len \in ReadSizes, Read(len) PROVE Calm'
    <2>1. "reader" \in Threads
      BY DEF Threads
    <2>2. pc'["reader"] = "lock" /\ AllIdleBut({"reader"})'
      BY <1>2, <1>6, <2>1, GotoFacts DEF Read, AllIdleBut
    <2>3. holders' = {} /\ readLen' = len /\ IrqQuiet' /\ NoTransfer' /\ BlueIsTrue'
      BY <1>6 DEF Read, Calm, IrqQuiet, device, top, NoTransfer, BlueIsTrue,
                  driver, channel
    <2>4. StuckByFault'
      BY <1>6, BudgetAssumption
      DEF Read, Spend, Calm, StuckByFault, IsEmpty, device, PacedFacts, RxInv, LeftTyped
    <2> QED BY <1>6, <2>2, <2>3, <2>4 DEF Calm, Reading
  <1>7. CASE Press
    <2>1. "button" \in Threads
      BY DEF Threads
    <2>2. pc'["button"] = "lock" /\ AllIdleBut({"button"})'
      BY <1>2, <1>7, <2>1, GotoFacts DEF Press, AllIdleBut
    <2>3. holders' = {} /\ IrqQuiet' /\ NoTransfer' /\ BlueIsTrue'
      BY <1>7 DEF Press, Calm, IrqQuiet, device, top, NoTransfer, BlueIsTrue,
                  driver, channel
    <2>4. StuckByFault'
      BY <1>7, BudgetAssumption
      DEF Press, Spend, Calm, StuckByFault, IsEmpty, device, PacedFacts, RxInv, LeftTyped
    <2> QED BY <2>2, <2>3, <2>4 DEF Calm
  <1>8. CASE Wait
    <2>1. UNCHANGED vars
      BY <1>8 DEF Wait, Wedged
    <2>2. UNCHANGED <<device, top, pc, holders, driver, channel, file, left>>
      BY <2>1 DEF vars
    <2>3. IrqQuiet' /\ AllIdleBut({})' /\ holders' = {} /\ NoTransfer' /\ BlueIsTrue'
          /\ StuckByFault'
      BY <2>2 DEF Calm, IrqQuiet, AllIdleBut, NoTransfer, BlueIsTrue,
             StuckByFault, IsEmpty, device, top, driver, channel
    <2> QED BY <2>3 DEF Calm
  <1>9. ~Interrupt
    BY QuietLine DEF Interrupt
  <1> QED BY <1>1, <1>2, <1>3, <1>4, <1>5, <1>6, <1>7, <1>8, <1>9, RxWorkRests,
             RxDmaWorkRests, TaskletRests, ChannelRests, ReaderRests, ButtonRests
          DEF Next, PressOnHolder

\* The interrupt of a host's fetch is served.
LEMMA CalmRaised ==
    ASSUME Paced = Parties, PacedFacts, Calm, Raised("TX"), AllIdleBut({}),
           holders = {}, BlueIsTrue, Next
    PROVE  Calm'
  <1>1. transfers = <<>> /\ workPending = {}
        /\ pc["rx_work"] = "idle" /\ pc["rx_dma_work"] = "idle"
        /\ pc["tasklet"] = "idle" /\ pc["reader"] = "idle" /\ pc["button"] = "idle"
    BY DEF Calm, NoTransfer, Raised, AllIdleBut, Threads
  <1>2. RxInv /\ TopTypeOK /\ imsc = Interrupts
    BY DEF PacedFacts, RxInv
  <1>3. ~AtRest
    BY DEF AtRest, Raised
  <1>4. CASE Interrupt
    <2>1. InterruptStep /\ UNCHANGED <<pc, holders, driver, channel, file, left>>
      BY <1>4 DEF Interrupt
    <2>2. Raised("TX")' \/ IrqQuiet'
      BY <1>2, <2>1, RaisedStep DEF Interrupts
    <2>3. rxFifo' = rxFifo
      BY <2>1, InterruptKeeps
    <2>4. AllIdleBut({})' /\ holders' = {} /\ NoTransfer' /\ BlueIsTrue' /\ StuckByFault'
      BY <2>1, <2>3 DEF Calm, AllIdleBut, NoTransfer, BlueIsTrue, StuckByFault, IsEmpty,
                        driver, channel
    <2> QED BY <2>2, <2>4 DEF Calm
  <1> QED BY <1>1, <1>2, <1>3, <1>4, PartiesRest, RxWorkRests, RxDmaWorkRests,
             TaskletRests, ChannelRests, ReaderRests, ButtonRests
          DEF Next

\* The read goes on and ends.
LEMMA CalmReading ==
    ASSUME Paced = Parties, PacedFacts, Calm, IrqQuiet, AllIdleBut({"reader"}),
           Reading, BlueIsTrue, Next
    PROVE  Calm' /\ ReadStep
  <1>1. transfers = <<>> /\ workPending = {}
        /\ pc["rx_work"] = "idle" /\ pc["rx_dma_work"] = "idle"
        /\ pc["tasklet"] = "idle" /\ pc["button"] = "idle"
    BY DEF Calm, NoTransfer, IrqQuiet, AllIdleBut, Threads
  <1>2. RxInv /\ ThreadsTyped /\ "reader" \in Threads
    BY DEF PacedFacts, RxInv, Threads
  <1>3. ~AtRest
    BY <1>2 DEF AtRest, Reading
  <1>4. ~Interrupt
    BY QuietLine DEF Interrupt
  <1>5. ReadStep
    BY <1>1, <1>2, <1>3, <1>4, PartiesRest, RxWorkRests, RxDmaWorkRests,
       TaskletRests, ChannelRests, ButtonRests
    DEF Next
  <1>6. UNCHANGED <<device, top, driver, channel, left>>
    BY <1>5 DEF ReadStep, ReadLock, ReadLength, ReadCopy
  <1>7. IrqQuiet' /\ NoTransfer' /\ BlueIsTrue' /\ StuckByFault'
    BY <1>6 DEF Calm, IrqQuiet, NoTransfer, BlueIsTrue, StuckByFault, IsEmpty,
                device, top, driver, channel
  <1>8. CASE ReadLock
    <2>1. pc["reader"] = "lock" /\ readLen \in ReadSizes
      BY <1>8 DEF ReadLock, At, Reading
    <2>2. /\ pc'["reader"] = IF rxSize <= readLen + ppos THEN "size" ELSE "copy"
          /\ AllIdleBut({"reader"})'
      BY <1>2, <1>8, GotoFacts DEF ReadLock, AllIdleBut
    <2>3. holders' = {"reader"} /\ UNCHANGED <<rxSize, ppos, readLen>>
      BY <1>8 DEF ReadLock, driver, file
    <2>4. ~(rxSize <= readLen + ppos) => readLen = Readable(readLen)
      <3>1. rxSize \in Int /\ readLen \in Int /\ ppos \in Int
        BY <1>2 DEF RxInv, DriverTyped, FileTyped
      <3> QED BY <3>1 DEF Readable
    <2>5. Readable(readLen)' = Readable(readLen)
      BY <2>3 DEF Readable
    <2>6. Reading'
      <3>1. CASE rxSize <= readLen + ppos
        BY <2>1, <2>2, <2>3, <3>1 DEF Reading
      <3>2. CASE ~(rxSize <= readLen + ppos)
        <4>1. pc'["reader"] = "copy" /\ holders' = {"reader"}
          BY <2>2, <2>3, <3>2
        <4>2. \E len \in ReadSizes : readLen' = Readable(len)'
          BY <2>1, <2>3, <2>4, <3>2 DEF Readable
        <4> QED BY <4>1, <4>2 DEF Reading
      <3> QED BY <3>1, <3>2
    <2> QED BY <1>5, <1>7, <2>2, <2>6 DEF Calm
  <1>9. CASE ReadLength
    <2>1. pc["reader"] = "size" /\ readLen \in ReadSizes /\ rxSize <= readLen + ppos
          /\ holders = {"reader"}
      BY <1>9 DEF ReadLength, At, Reading
    <2>2. pc'["reader"] = "copy" /\ AllIdleBut({"reader"})'
      BY <1>2, <1>9, GotoFacts DEF ReadLength, AllIdleBut
    <2>3. holders' = {"reader"} /\ UNCHANGED <<rxSize, ppos>>
      BY <1>9, <2>1 DEF ReadLength, driver
    <2>4. readLen' = Readable(readLen)
      <3>1. rxSize \in Int /\ readLen \in Int /\ ppos \in Int
        BY <1>2 DEF RxInv, DriverTyped, FileTyped
      <3>2. ~(rxSize > readLen + ppos)
        BY <2>1, <3>1
      <3> QED BY <1>9, <3>2 DEF ReadLength, Readable
    <2>5. \E len \in ReadSizes : readLen' = Readable(len)'
      BY <2>1, <2>3, <2>4 DEF Readable
    <2>6. Reading'
      BY <2>2, <2>3, <2>5 DEF Reading
    <2> QED BY <1>5, <1>7, <2>2, <2>6 DEF Calm
  <1>10. CASE ReadCopy
    <2>1. AllIdleBut({})' /\ holders' = {}
      BY <1>2, <1>10, GotoFacts DEF ReadCopy, AllIdleBut
    <2> QED BY <1>5, <1>7, <2>1 DEF Calm
  <1> QED BY <1>5, <1>8, <1>9, <1>10 DEF ReadStep

\* The button empties the box.
LEMMA CalmPressed ==
    ASSUME Paced = Parties, PacedFacts, Calm, IrqQuiet, AllIdleBut({"button"}),
           \/ pc["button"] = "lock" /\ holders = {} /\ BlueIsTrue
           \/ pc["button"] = "led_blue" /\ holders = {"button"} /\ rxSize = 0,
           Next
    PROVE  Calm' /\ ButtonStep
  <1>1. transfers = <<>> /\ workPending = {}
        /\ pc["rx_work"] = "idle" /\ pc["rx_dma_work"] = "idle"
        /\ pc["tasklet"] = "idle" /\ pc["reader"] = "idle"
    BY DEF Calm, NoTransfer, IrqQuiet, AllIdleBut, Threads
  <1>2. RxInv /\ ThreadsTyped /\ "button" \in Threads
    BY DEF PacedFacts, RxInv, Threads
  <1>3. ~AtRest
    BY <1>2 DEF AtRest
  <1>4. ~Interrupt
    BY QuietLine DEF Interrupt
  <1>5. ButtonStep
    BY <1>1, <1>2, <1>3, <1>4, PartiesRest, RxWorkRests, RxDmaWorkRests,
       TaskletRests, ChannelRests, ReaderRests
    DEF Next
  <1>6. CASE ButtonLock
    <2>1. pc'["button"] = "led_blue" /\ AllIdleBut({"button"})'
      BY <1>2, <1>6, GotoFacts DEF ButtonLock, AllIdleBut
    <2>2. holders' = {"button"} /\ IrqQuiet' /\ NoTransfer' /\ rxSize' = 0 /\ StuckByFault'
      BY <1>6 DEF ButtonLock, Calm, IrqQuiet, NoTransfer, StuckByFault, IsEmpty,
                  device, top, channel
    <2> QED BY <1>5, <2>1, <2>2 DEF Calm
  <1>7. CASE ButtonUnlock
    <2>1. AllIdleBut({})'
      BY <1>2, <1>7, GotoFacts DEF ButtonUnlock, AllIdleBut
    <2>2. holders' = {} /\ IrqQuiet' /\ NoTransfer' /\ StuckByFault'
      BY <1>7 DEF ButtonUnlock, Calm, IrqQuiet, NoTransfer, StuckByFault, IsEmpty,
                  device, top, channel
    <2>3. rxSize' = 0 /\ ledBlue' = FALSE
      BY <1>7 DEF ButtonUnlock
    <2> QED BY <1>5, <2>1, <2>2, <2>3 DEF Calm, BlueIsTrue
  <1> QED BY <1>5, <1>6, <1>7 DEF ButtonStep

LEMMA CalmStep ==
    ASSUME Paced = Parties, PacedFacts, Calm, Next
    PROVE  Calm' \/ Arrived'
  BY CalmAtRest, CalmRaised, CalmReading, CalmPressed DEF Calm

\* The interrupt finds rx_work, and a worker takes it.
LEMMA ArrivedStep ==
    ASSUME Paced = Parties, PacedFacts, Arrived, Next
    PROVE  Arrived' \/ Starting'
  <1>1. transfers = <<>> /\ "rx_dma_work" \notin workPending
        /\ pc["rx_work"] = "idle" /\ pc["rx_dma_work"] = "idle"
        /\ pc["tasklet"] = "idle" /\ pc["reader"] = "idle" /\ pc["button"] = "idle"
    BY DEF Arrived, NoTransfer, Signalled, Raised, AllIdleBut, Threads
  <1>2. RxInv /\ ThreadsTyped /\ TopTypeOK /\ imsc = Interrupts /\ "rx_work" \in Threads
    BY DEF PacedFacts, RxInv, Threads
  <1>3. ~AtRest
    BY DEF AtRest, Arrived, Signalled, Raised
  <1>4. CASE Interrupt
    <2>1. InterruptStep /\ UNCHANGED <<pc, holders, driver, channel, file, left>>
      BY <1>4 DEF Interrupt
    <2>2. Signalled("RX", "rx_work")'
      BY <1>2, <2>1, SignalStep DEF Arrived
    <2>3. rxFifo' = rxFifo /\ dmaRxBusy' = dmaRxBusy
      BY <2>1, InterruptKeeps
    <2> QED BY <2>1, <2>2, <2>3
            DEF Arrived, AllIdleBut, NoTransfer, BlueIsTrue, IsEmpty, driver, channel
  <1>5. CASE RxWorkStep \/ RxWorkFails
    <2>1. RxWorkBegin
      BY <1>1, <1>5 DEF RxWorkStep, RxWorkLock, StopTransfer, CallbackStep, CallbackClear,
             CallbackLed, RxWorkPrepare, RxWorkLed, RxWorkIssue, RxWorkFails, At
    <2>2. IrqQuiet'
      BY <2>1 DEF RxWorkBegin, TakeWork, Arrived, Signalled, Raised, IrqQuiet, device
    <2>3. pc'["rx_work"] = "lock" /\ AllIdleBut({"rx_work"})'
      BY <1>2, <2>1, GotoFacts DEF RxWorkBegin, Arrived, AllIdleBut
    <2>4. /\ holders' = {} /\ NoTransfer' /\ BlueIsTrue' /\ transfers' = <<>>
          /\ ~IsEmpty(rxFifo)' /\ ~dmaRxBusy'
      BY <2>1 DEF RxWorkBegin, TakeWork, Arrived, NoTransfer, BlueIsTrue, IsEmpty, device,
                  driver, channel
    <2> QED BY <2>2, <2>3, <2>4 DEF Starting
  <1> QED BY <1>1, <1>2, <1>3, <1>4, <1>5, PartiesRest, RxDmaWorkRests,
             TaskletRests, ChannelRests, ReaderRests, ButtonRests
          DEF Next

\* rx_work starts the transfer or, when it fails, leaves all as it was.
LEMMA StartingActs ==
    ASSUME Paced = Parties, PacedFacts, Starting, Next
    PROVE  RxWorkLock \/ RxWorkPrepare \/ RxWorkFails \/ RxWorkLed \/ RxWorkIssue
  <1>1. transfers = <<>> /\ workPending = {}
        /\ pc["rx_dma_work"] = "idle" /\ pc["tasklet"] = "idle"
        /\ pc["reader"] = "idle" /\ pc["button"] = "idle"
        /\ pc["rx_work"] \in {"lock", "prepare", "led_on", "issue"}
    BY DEF Starting, IrqQuiet, AllIdleBut, Threads
  <1>2. RxInv /\ "rx_work" \in Threads
    BY DEF PacedFacts, RxInv, Threads
  <1>3. ~AtRest
    BY <1>1, <1>2 DEF AtRest
  <1>4. ~Interrupt
    BY QuietLine DEF Interrupt, Starting
  <1>5. RxWorkStep \/ RxWorkFails
    BY <1>1, <1>2, <1>3, <1>4, PartiesRest, RxDmaWorkRests,
       TaskletRests, ChannelRests, ReaderRests, ButtonRests
    DEF Next
  <1>6. ~RxWorkBegin
    BY <1>1 DEF RxWorkBegin, TakeWork
  <1>7. ~StopTransfer("rx_work") /\ ~CallbackStep("rx_work")
    BY <1>1 DEF StopTransfer, CallbackStep, CallbackClear, CallbackLed, At
  <1> QED BY <1>5, <1>6, <1>7 DEF RxWorkStep

LEMMA StartingStep ==
    ASSUME Paced = Parties, PacedFacts, Starting, Next
    PROVE  Starting' \/ Calm' \/ Moving'
  <1>1. RxInv /\ ThreadsTyped /\ "rx_work" \in Threads /\ DeviceTypeOK
    BY DEF PacedFacts, RxInv, Threads
  <1>2. CASE RxWorkLock
    <2>1. pc["rx_work"] = "lock" /\ NoTransfer
      BY <1>2 DEF RxWorkLock, At, Starting
    <2>2. pc'["rx_work"] = "prepare" /\ AllIdleBut({"rx_work"})'
      BY <1>1, <1>2, <2>1, GotoFacts DEF RxWorkLock, NoTransfer, Starting, AllIdleBut
    <2>3. holders' = {"rx_work"} /\ NoTransfer' /\ IrqQuiet' /\ BlueIsTrue'
          /\ transfers' = <<>> /\ ~IsEmpty(rxFifo)' /\ ~dmaRxBusy'
      BY <1>2, <2>1 DEF RxWorkLock, Starting, NoTransfer, IrqQuiet, BlueIsTrue, IsEmpty,
                        device, top, driver, channel
    <2> QED BY <2>2, <2>3 DEF Starting
  <1>3. CASE RxWorkPrepare
    <2>1. pc["rx_work"] = "prepare" /\ NoTransfer /\ holders = {"rx_work"}
      BY <1>3 DEF RxWorkPrepare, At, Starting
    <2>2. pc'["rx_work"] = "led_on" /\ AllIdleBut({"rx_work"})'
      BY <1>1, <1>3, GotoFacts DEF RxWorkPrepare, Starting, AllIdleBut
    <2>3. rxMapped' = 1 /\ rxQueued'
      BY <1>3, <2>1 DEF RxWorkPrepare, NoTransfer
    <2>4. holders' = {"rx_work"} /\ IrqQuiet' /\ BlueIsTrue'
          /\ transfers' = <<>> /\ ~IsEmpty(rxFifo)' /\ ~dmaRxBusy'
      BY <1>3, <2>1 DEF RxWorkPrepare, Starting, IrqQuiet, BlueIsTrue, IsEmpty,
                        device, top, channel
    <2> QED BY <2>2, <2>3, <2>4 DEF Starting
  <1>4. CASE RxWorkFails
    <2>1. NoTransfer
      BY <1>4 DEF RxWorkFails, At, Starting
    <2>2. AllIdleBut({})'
      BY <1>1, <1>4, GotoFacts DEF RxWorkFails, Starting, AllIdleBut
    <2>3. holders' = {} /\ IrqQuiet' /\ BlueIsTrue' /\ NoTransfer'
      BY <1>4, <2>1 DEF RxWorkFails, Starting, NoTransfer, IrqQuiet, BlueIsTrue,
                        device, top, driver, channel
    <2>4. left'["faults"] = left["faults"] - 1
          /\ left["faults"] \in Nat /\ Budget["faults"] \in Nat
      BY <1>1, <1>4, BudgetAssumption DEF RxWorkFails, Spend, RxInv, LeftTyped
    <2>5. \A x, y, z \in Int : x <= y /\ z = x - 1 => z # y
      OBVIOUS
    <2>6. left'["faults"] # Budget["faults"]
      BY <2>4, <2>5 DEF PacedFacts
    <2> QED BY <2>2, <2>3, <2>6 DEF Calm, StuckByFault
  <1>5. CASE RxWorkLed
    <2>1. pc["rx_work"] = "led_on" /\ holders = {"rx_work"} /\ rxQueued /\ rxMapped = 1
      BY <1>5 DEF RxWorkLed, At, Starting
    <2>2. pc'["rx_work"] = "issue" /\ AllIdleBut({"rx_work"})'
      BY <1>1, <1>5, GotoFacts DEF RxWorkLed, Starting, AllIdleBut
    <2>3. holders' = {"rx_work"} /\ IrqQuiet' /\ BlueIsTrue' /\ rxQueued' /\ rxMapped' = 1
          /\ transfers' = <<>> /\ ~IsEmpty(rxFifo)' /\ ~dmaRxBusy' /\ ledGreen'
      BY <1>5, <2>1 DEF RxWorkLed, Starting, IrqQuiet, BlueIsTrue, IsEmpty,
                        device, top, channel
    <2> QED BY <2>2, <2>3 DEF Starting
  <1>6. CASE RxWorkIssue
    <2>1. rxQueued /\ rxMapped = 1 /\ transfers = <<>>
      BY <1>6 DEF RxWorkIssue, At, Starting
    <2>2. AllIdleBut({})'
      BY <1>1, <1>6, GotoFacts DEF RxWorkIssue, Starting, AllIdleBut
    <2>3. transfers' = <<0>> /\ running'
      BY <1>6, <2>1 DEF RxWorkIssue, Issue
    <2>4. holders' = {} /\ IrqQuiet' /\ BlueIsTrue' /\ rxQueued' /\ rxMapped' = 1
          /\ rxFifo' = rxFifo /\ ~IsEmpty(rxFifo)' /\ ~dmaRxBusy'
      BY <1>6, <2>1 DEF RxWorkIssue, Starting, IrqQuiet, BlueIsTrue, IsEmpty,
                        device, top, driver
    <2>5. Len(transfers') = 1 /\ transfers'[1] = 0
      BY <2>3
    <2>6. transfers'[1] + Len(rxFifo') < FifoSize
      <3>1. Len(rxFifo) \in Nat /\ Len(rxFifo) < FifoSize
        BY <1>1, LenProperties DEF DeviceTypeOK
      <3> QED BY <2>4, <2>5, <3>1
    <2> QED BY <2>2, <2>3, <2>4, <2>5, <2>6 DEF Moving, OneTransfer
  <1> QED BY <1>2, <1>3, <1>4, <1>5, <1>6, StartingActs

LEMMA OneTransferIs ==
    ASSUME RxInv, OneTransfer
    PROVE  /\ transfers # <<>> /\ transfers \in Seq(0 .. RxBufSize)
           /\ 1 \in 1 .. Len(transfers) /\ transfers[1] \in 0 .. RxBufSize
           /\ Received = transfers[1]
  <1>1. transfers \in Seq(0 .. RxBufSize) /\ Len(transfers) = 1
    BY DEF RxInv, ChannelTyped, OneTransfer
  <1>2. transfers # <<>>
    BY <1>1, EmptySeq
  <1> QED BY <1>1, <1>2, FirstTransfer DEF RxInv, Received

\* What a read of DR leaves of a FIFO that is not empty.
LEMMA ByteLeaves ==
    ASSUME DeviceTypeOK, ReadDR, ~IsEmpty(rxFifo)
    PROVE  /\ rxFifo' = Tail(rxFifo) /\ Len(rxFifo) \in Nat /\ Len(rxFifo) # 0
           /\ rxFifo' \in Seq(Data) /\ Len(rxFifo') = Len(rxFifo) - 1
  <1>1. rxFifo \in Seq(Data) /\ rxFifo # <<>> /\ rxFifo' = Tail(rxFifo)
    BY DEF DeviceTypeOK, ReadDR, IsEmpty
  <1>2. Len(rxFifo) \in Nat /\ Len(rxFifo) # 0
    BY <1>1, EmptySeq, LenProperties
  <1> QED BY <1>1, <1>2, HeadTailProperties

\* A byte moves; the last one raises RX_EMPTY.
LEMMA MovingStep ==
    ASSUME Paced = Parties, PacedFacts, Moving, Next
    PROVE  MoveByte /\ (Moving' \/ Emptied')
  <1>1. workPending = {} /\ pc["rx_work"] = "idle" /\ pc["rx_dma_work"] = "idle"
        /\ pc["tasklet"] = "idle" /\ pc["reader"] = "idle" /\ pc["button"] = "idle"
    BY DEF Moving, IrqQuiet, AllIdleBut, Threads
  <1>2. /\ RxInv /\ DeviceTypeOK /\ transfers # <<>> /\ transfers \in Seq(0 .. RxBufSize)
        /\ 1 \in 1 .. Len(transfers) /\ transfers[1] \in 0 .. RxBufSize
    BY OneTransferIs DEF PacedFacts, RxInv, Moving
  <1>3. ~AtRest
    BY <1>2 DEF AtRest, Moving
  <1>4. ~Interrupt
    BY QuietLine DEF Interrupt, Moving
  <1>5. Len(rxFifo) \in Nat
    BY <1>2, LenProperties DEF DeviceTypeOK
  <1>6. transfers[1] + Len(rxFifo) < FifoSize
    BY DEF Moving
  <1>7. transfers[1] < RxBufSize
    BY <1>2, <1>5, <1>6, RxBufAssumption, FifoSizeAssumption
  <1>8. MoveByte
    BY <1>1, <1>2, <1>3, <1>4, <1>7, PartiesRest, RxWorkRests, RxDmaWorkRests,
       TaskletRests, ReaderRests, ButtonRests
    DEF Next
  <1>9. ReadDR /\ transfers' = [transfers EXCEPT ![1] = transfers[1] + 1]
    BY <1>8 DEF MoveByte
  <1>10. ~IsEmpty(rxFifo)
    BY DEF Moving
  <1>11. Len(rxFifo') = Len(rxFifo) - 1 /\ Len(rxFifo) # 0 /\ rxFifo' \in Seq(Data)
    BY <1>2, <1>9, <1>10, ByteLeaves
  <1>12. /\ transfers[1] + 1 \in 0 .. RxBufSize /\ transfers[1] + 1 \in 1 .. FifoSize - 1
         /\ (transfers[1] + 1) + Len(rxFifo') < FifoSize
    <2> DEFINE p == transfers[1]
               n == Len(rxFifo)
    <2>1. p \in 0 .. RxBufSize /\ p < RxBufSize /\ p + n < FifoSize /\ n \in Nat /\ n # 0
          /\ Len(rxFifo') = n - 1
      BY <1>2, <1>5, <1>6, <1>7, <1>11
    <2> HIDE DEF p, n
    <2>2. p + 1 \in 0 .. RxBufSize /\ p + 1 \in 1 .. FifoSize - 1 /\ (p + 1) + (n - 1) < FifoSize
      BY <2>1, RxBufAssumption, FifoSizeAssumption
    <2> QED BY <2>1, <2>2 DEF p, n
  <1>13. Len(transfers') = Len(transfers) /\ transfers'[1] = transfers[1] + 1
    BY <1>2, <1>9, <1>12, ExceptSeq
  <1>14. AllIdleBut({})' /\ holders' = {} /\ BlueIsTrue' /\ OneTransfer'
    BY <1>8, <1>13 DEF MoveByte, Moving, AllIdleBut, BlueIsTrue, OneTransfer, driver
  <1>15. CASE IsEmpty(rxFifo')
    <2>1. ris' = {"RX_EMPTY"} /\ irq' /\ dmaRxBusy'
      BY <1>9, <1>15 DEF ReadDR, Update, Moving, IrqQuiet, PacedFacts, Interrupts
    <2>2. Raised("RX_EMPTY")'
      BY <1>8, <2>1 DEF MoveByte, top, Moving, IrqQuiet, Raised
    <2>3. transfers'[1] \in 1 .. FifoSize - 1
      BY <1>12, <1>13, Zenon
    <2> QED BY <1>8, <1>14, <1>15, <2>1, <2>2, <2>3 DEF Emptied, HasMessage, Signalled,
                                                        IsEmpty
  <1>16. CASE ~IsEmpty(rxFifo')
    <2>1. ris' = ris /\ dmaRxBusy' = dmaRxBusy /\ imsc' = imsc
      BY <1>9, <1>16 DEF ReadDR
    <2>2. ~irq'
      BY <1>9, <2>1 DEF ReadDR, Update, Moving, IrqQuiet
    <2>3. IrqQuiet'
      BY <1>8, <2>1, <2>2 DEF MoveByte, top, Moving, IrqQuiet
    <2>4. transfers'[1] + Len(rxFifo') < FifoSize
      BY <1>12, <1>13, Zenon
    <2>5. running' /\ ~dmaRxBusy'
      BY <1>8, <2>1 DEF MoveByte, Moving
    <2> QED BY <1>8, <1>14, <1>16, <2>3, <2>4, <2>5 DEF Moving, IsEmpty
  <1> QED BY <1>8, <1>15, <1>16

\* The first transfer does not fill the buffer.
LEMMA NotFull ==
    ASSUME transfers[1] \in 1 .. FifoSize - 1
    PROVE  transfers[1] < RxBufSize
  BY RxBufAssumption, FifoSizeAssumption

\* The interrupt finds rx_dma_work, and a worker takes it.
LEMMA EmptiedStep ==
    ASSUME Paced = Parties, PacedFacts, Emptied, Next
    PROVE  Emptied' \/ Finishing'
  <1>1. "rx_work" \notin workPending /\ dmaRxBusy
        /\ pc["rx_work"] = "idle" /\ pc["rx_dma_work"] = "idle"
        /\ pc["tasklet"] = "idle" /\ pc["reader"] = "idle" /\ pc["button"] = "idle"
    BY DEF Emptied, Signalled, Raised, AllIdleBut, Threads
  <1>2. RxInv /\ ThreadsTyped /\ TopTypeOK /\ imsc = Interrupts
        /\ "rx_dma_work" \in Threads
    BY DEF PacedFacts, RxInv, Threads
  <1>3. ~AtRest
    BY DEF AtRest, Emptied, Signalled, Raised
  <1>4. transfers[1] < RxBufSize
    BY NotFull DEF Emptied, HasMessage
  <1>5. CASE Interrupt
    <2>1. InterruptStep /\ UNCHANGED <<pc, holders, driver, channel, file, left>>
      BY <1>5 DEF Interrupt
    <2>2. Signalled("RX_EMPTY", "rx_dma_work")'
      BY <1>2, <2>1, SignalStep DEF Emptied
    <2>3. rxFifo' = rxFifo /\ dmaRxBusy' = dmaRxBusy
      BY <2>1, InterruptKeeps
    <2> QED BY <2>1, <2>2, <2>3
            DEF Emptied, AllIdleBut, HasMessage, OneTransfer, BlueIsTrue, IsEmpty, driver,
                channel
  <1>6. CASE RxDmaWorkStep
    <2>1. RxDmaWorkPause
      BY <1>1, <1>6 DEF RxDmaWorkStep, RxDmaWorkStatus, RxDmaWorkLed, RxDmaWorkCheck,
             StopTransfer, CallbackStep, CallbackClear, CallbackLed, At
    <2>2. IrqQuiet'
      BY <2>1 DEF RxDmaWorkPause, TakeWork, Emptied, Signalled, Raised, IrqQuiet, device
    <2>3. pc'["rx_dma_work"] = "status" /\ AllIdleBut({"rx_dma_work"})'
      BY <1>2, <2>1, GotoFacts DEF RxDmaWorkPause, Emptied, AllIdleBut
    <2>4. /\ holders' = {} /\ OneTransfer' /\ BlueIsTrue'
          /\ IsEmpty(rxFifo)' /\ dmaRxBusy' /\ transfers' = transfers
      BY <2>1 DEF RxDmaWorkPause, TakeWork, Emptied, HasMessage, OneTransfer, BlueIsTrue,
                  IsEmpty, device, driver
    <2>5. transfers'[1] \in 1 .. FifoSize - 1
      BY <2>4, Zenon DEF Emptied, HasMessage
    <2> QED BY <2>2, <2>3, <2>4, <2>5 DEF Finishing, HasMessage
  <1> QED BY <1>1, <1>2, <1>3, <1>4, <1>5, <1>6, PartiesRest, RxWorkRests,
             TaskletRests, ChannelRests, ReaderRests, ButtonRests
          DEF Next

LEMMA FinishingActs ==
    ASSUME Paced = Parties, PacedFacts, Finishing, Next
    PROVE  RxDmaWorkStep /\ ~RxDmaWorkPause
  <1>1. workPending = {} /\ dmaRxBusy
        /\ pc["rx_work"] = "idle" /\ pc["tasklet"] = "idle"
        /\ pc["reader"] = "idle" /\ pc["button"] = "idle"
        /\ pc["rx_dma_work"] # "idle"
    BY DEF Finishing, IrqQuiet, AllIdleBut, Threads
  <1>2. RxInv /\ "rx_dma_work" \in Threads
    BY DEF PacedFacts, RxInv, Threads
  <1>3. ~AtRest
    BY <1>1, <1>2 DEF AtRest
  <1>4. ~Interrupt
    BY QuietLine DEF Interrupt, Finishing
  <1>5. transfers # <<>> => transfers[1] < RxBufSize
    <2>1. transfers = <<>> \/ HasMessage
      BY DEF Finishing
    <2> QED BY <2>1, NotFull DEF HasMessage
  <1>6. ~RxDmaWorkPause
    BY <1>1 DEF RxDmaWorkPause, TakeWork
  <1> QED BY <1>1, <1>2, <1>3, <1>4, <1>5, <1>6, PartiesRest, RxWorkRests,
       TaskletRests, ChannelRests, ReaderRests, ButtonRests
    DEF Next

\* rx_dma_work stores the length, lights the LED and gives the transfer back.
LEMMA FinishingStep ==
    ASSUME Paced = Parties, PacedFacts, Finishing, Next
    PROVE  Finishing' \/ Calm'
  <1>1. RxInv /\ ThreadsTyped /\ "rx_dma_work" \in Threads
    BY DEF PacedFacts, RxInv, Threads
  <1>2. RxDmaWorkStep /\ ~RxDmaWorkPause
    BY FinishingActs
  <1>3. CASE RxDmaWorkStatus
    <2>1. pc["rx_dma_work"] = "status" /\ HasMessage
      BY <1>3 DEF RxDmaWorkStatus, At, Finishing
    <2>2. Received = transfers[1]
      BY <1>1, <2>1, OneTransferIs DEF HasMessage
    <2>3. rxSize' = transfers[1] /\ transfers[1] # 0
      BY <1>3, <2>1, <2>2 DEF RxDmaWorkStatus, HasMessage
    <2>4. pc'["rx_dma_work"] = "led_blue" /\ AllIdleBut({"rx_dma_work"})'
      BY <1>1, <1>3, <2>2, <2>3, GotoFacts DEF RxDmaWorkStatus, Finishing, AllIdleBut
    <2>5. holders' = {} /\ IrqQuiet' /\ IsEmpty(rxFifo)' /\ dmaRxBusy'
      BY <1>3 DEF RxDmaWorkStatus, Finishing, IrqQuiet, IsEmpty, device, top
    <2>6. HasMessage' /\ transfers' = transfers
      BY <1>3, <2>1 DEF RxDmaWorkStatus, HasMessage, OneTransfer, channel
    <2> QED BY <2>3, <2>4, <2>5, <2>6 DEF Finishing
  <1>4. CASE RxDmaWorkLed
    <2>1. pc["rx_dma_work"] = "led_blue" /\ HasMessage /\ rxSize = transfers[1]
      BY <1>4 DEF RxDmaWorkLed, At, Finishing
    <2>2. pc'["rx_dma_work"] = "check" /\ AllIdleBut({"rx_dma_work"})'
      BY <1>1, <1>4, GotoFacts DEF RxDmaWorkLed, Finishing, AllIdleBut
    <2>3. holders' = {} /\ IrqQuiet' /\ IsEmpty(rxFifo)' /\ dmaRxBusy' /\ ledBlue'
      BY <1>4 DEF RxDmaWorkLed, Finishing, IrqQuiet, IsEmpty, device, top
    <2>4. HasMessage' /\ rxSize' = transfers'[1]
      BY <1>4, <2>1 DEF RxDmaWorkLed, HasMessage, OneTransfer, channel
    <2> QED BY <2>2, <2>3, <2>4 DEF Finishing
  <1>5. CASE RxDmaWorkCheck
    <2>1. pc["rx_dma_work"] = "check" /\ HasMessage /\ rxSize = transfers[1] /\ ledBlue
          /\ rxQueued
      BY <1>5 DEF RxDmaWorkCheck, At, Finishing, HasMessage, OneTransfer
    <2>2. pc'["rx_dma_work"] = "terminate" /\ AllIdleBut({"rx_dma_work"})'
      BY <1>1, <1>5, <2>1, GotoFacts DEF RxDmaWorkCheck, Finishing, AllIdleBut
    <2>3. holders' = {} /\ IrqQuiet' /\ IsEmpty(rxFifo)' /\ dmaRxBusy' /\ ledBlue'
      BY <1>5, <2>1 DEF RxDmaWorkCheck, Finishing, IrqQuiet, IsEmpty, device, top, driver
    <2>4. HasMessage' /\ rxSize' = transfers'[1]
      BY <1>5, <2>1 DEF RxDmaWorkCheck, HasMessage, OneTransfer, driver, channel
    <2> QED BY <2>2, <2>3, <2>4 DEF Finishing
  <1>6. CASE StopTransfer("rx_dma_work")
    <2>1. pc["rx_dma_work"] = "terminate" /\ HasMessage /\ rxSize = transfers[1] /\ ledBlue
      BY <1>6 DEF StopTransfer, At, Finishing
    <2>2. pc'["rx_dma_work"] = "callback" /\ AllIdleBut({"rx_dma_work"})'
      BY <1>1, <1>6, GotoFacts DEF StopTransfer, Finishing, AllIdleBut
    <2>3. rxSize # 0 /\ rxMapped = 1
      BY <2>1 DEF HasMessage, OneTransfer
    <2>4. holders' = {} /\ IrqQuiet' /\ IsEmpty(rxFifo)' /\ dmaRxBusy'
          /\ ledBlue' /\ rxMapped' = 1 /\ rxSize' # 0 /\ transfers' = <<>>
      BY <1>6, <2>1, <2>3 DEF StopTransfer, Terminate, Finishing, IrqQuiet, IsEmpty,
                              device, top, driver
    <2> QED BY <2>2, <2>4 DEF Finishing
  <1>7. CASE CallbackClear("rx_dma_work")
    <2>1. pc["rx_dma_work"] = "callback" /\ transfers = <<>> /\ rxMapped = 1
          /\ rxSize # 0 /\ ledBlue
      BY <1>7 DEF CallbackClear, At, Finishing
    <2>2. pc'["rx_dma_work"] = "led_off" /\ AllIdleBut({"rx_dma_work"})'
      BY <1>1, <1>7, GotoFacts DEF CallbackClear, Finishing, AllIdleBut
    <2>3. rxMapped' = 0 /\ ~rxQueued'
      BY <1>7, <2>1 DEF CallbackClear
    <2>4. holders' = {} /\ IrqQuiet' /\ IsEmpty(rxFifo)' /\ dmaRxBusy'
          /\ ledBlue' /\ rxSize' # 0 /\ transfers' = <<>>
      BY <1>7, <2>1 DEF CallbackClear, Finishing, IrqQuiet, IsEmpty, device, top, channel
    <2> QED BY <2>2, <2>3, <2>4 DEF Finishing
  <1>8. CASE CallbackLed("rx_dma_work")
    <2>1. transfers = <<>> /\ ~rxQueued /\ rxMapped = 0 /\ rxSize # 0 /\ ledBlue
      BY <1>8 DEF CallbackLed, At, Finishing
    <2>2. AllIdleBut({})'
      BY <1>1, <1>8, GotoFacts DEF CallbackLed, AfterCallback, Finishing, AllIdleBut
    <2>3. holders' = {} /\ IrqQuiet' /\ IsEmpty(rxFifo)' /\ NoTransfer' /\ BlueIsTrue'
      BY <1>8, <2>1 DEF CallbackLed, Finishing, IrqQuiet, IsEmpty, NoTransfer, BlueIsTrue,
                        device, top, channel
    <2> QED BY <2>2, <2>3 DEF Calm, StuckByFault
  <1> QED BY <1>2, <1>3, <1>4, <1>5, <1>6, <1>7, <1>8 DEF RxDmaWorkStep, CallbackStep
-----------------------------------------------------------------------------
PacedInv == PacedFacts /\ Stage

LEMMA PacedInitially == Init => PacedInv
  <1> SUFFICES ASSUME Init PROVE PacedInv
    OBVIOUS
  <1>1. PacedFacts
    <2>1. Budget["faults"] \in Nat
      BY BudgetAssumption
    <2> QED BY <2>1, RxInvInit DEF Init, TopInit, PacedFacts
  <1>2. Calm
    BY DEF Init, TopInit, Calm, NoTransfer, StuckByFault, IrqQuiet, AllIdleBut, BlueIsTrue,
           IsEmpty
  <1> QED BY <1>1, <1>2 DEF PacedInv, Stage

\* Nobody writes IMSC, and nobody gives a budget back.
LEMMA PacedStays ==
    ASSUME PacedFacts, [Next]_vars
    PROVE  PacedFacts'
  <1>1. RxInv'
    BY RxInvNext DEF PacedFacts
  <1>2. imsc' = imsc
    BY InterruptKeeps
    DEF vars, device, Next, HostSends, SetData, HostFetches, GetData, Interrupt, RxWorkStep,
        RxWorkBegin, TakeWork, RxWorkLock, StopTransfer, CallbackStep, CallbackClear,
        CallbackLed, RxWorkPrepare, RxWorkLed, RxWorkIssue, RxWorkFails, RxDmaWorkStep,
        RxDmaWorkPause, RxDmaWorkStatus, RxDmaWorkLed, RxDmaWorkCheck, MoveByte, ReadDR,
        CompleteTransfer, Open, Read, ReadStep, ReadLock, ReadLength, ReadCopy, Press,
        PressOnHolder, ButtonStep, ButtonLock, ButtonUnlock, Wait
  <1>3. left'["faults"] <= left["faults"]
    <2>1. /\ left \in [DOMAIN Budget -> Nat] /\ "faults" \in DOMAIN Budget
          /\ left["faults"] \in Nat /\ left["faults"] - 1 <= left["faults"]
      BY BudgetNames DEF PacedFacts, RxInv, LeftTyped
    <2>2. CASE UNCHANGED left
      BY <2>1, <2>2
    <2>3. ASSUME NEW what, Spend(what) PROVE left'["faults"] <= left["faults"]
      BY <2>1, <2>3 DEF Spend
    <2> QED BY <2>2, <2>3
        DEF vars, device, Next, HostSends, SetData, HostFetches, GetData, Interrupt,
            RxWorkStep, RxWorkBegin, TakeWork, RxWorkLock, StopTransfer, CallbackStep,
            CallbackClear, CallbackLed, RxWorkPrepare, RxWorkLed, RxWorkIssue, RxWorkFails,
            RxDmaWorkStep, RxDmaWorkPause, RxDmaWorkStatus, RxDmaWorkLed, RxDmaWorkCheck,
            MoveByte, ReadDR, CompleteTransfer, Open, Read, ReadStep, ReadLock, ReadLength,
            ReadCopy, Press, PressOnHolder, ButtonStep, ButtonLock, ButtonUnlock, Wait
  <1>4. /\ left["faults"] \in Nat /\ Budget["faults"] \in Nat /\ left'["faults"] \in Nat
    BY <1>1, BudgetAssumption, BudgetNames DEF PacedFacts, RxInv, LeftTyped
  <1> QED BY <1>1, <1>2, <1>3, <1>4 DEF PacedFacts

LEMMA StageStutters == ASSUME Stage, UNCHANGED vars PROVE Stage'
  <1>1. UNCHANGED <<device, top, pc, holders, driver, channel, file, left>>
    BY DEF vars
  <1>2. /\ UNCHANGED <<flag, ris, imsc, irq, rxFifo, dmaRxBusy, irqPc, irqBit, workPending>>
        /\ UNCHANGED <<rxQueued, rxSize, rxMapped, ledGreen, ledBlue, transfers, running>>
        /\ UNCHANGED <<ppos, readLen>>
    BY <1>1 DEF device, top, driver, channel, file
  <1> USE <1>1, <1>2
      DEF AllIdleBut, IrqQuiet, Raised, Signalled, NoTransfer, OneTransfer, HasMessage,
          BlueIsTrue, StuckByFault, Readable, Reading, IsEmpty
  <1>3. Calm => Calm'
    BY DEF Calm
  <1>4. Arrived => Arrived'
    BY DEF Arrived
  <1>5. Starting => Starting'
    BY DEF Starting
  <1>6. Moving => Moving'
    BY DEF Moving
  <1>7. Emptied => Emptied'
    BY DEF Emptied
  <1>8. Finishing => Finishing'
    BY DEF Finishing
  <1> QED BY <1>3, <1>4, <1>5, <1>6, <1>7, <1>8 DEF Stage

LEMMA PacedNext ==
    ASSUME Paced = Parties, PacedInv, [Next]_vars
    PROVE  PacedInv'
  <1>1. PacedFacts'
    BY PacedStays DEF PacedInv
  <1>2. Stage'
    BY CalmStep, ArrivedStep, StartingStep, MovingStep, EmptiedStep, FinishingStep,
       StageStutters
    DEF PacedInv, Stage
  <1> QED BY <1>1, <1>2 DEF PacedInv

\* With the three parties waiting for one another the system is in one of
\* the stages, and each stage is followed by itself or by the next.
THEOREM PacedStagesCorrect ==
    ASSUME Paced = Parties PROVE Spec => []PacedInv
  BY PacedInitially, PacedNext, PTL DEF Spec

\* The channel writes into rx.buf only while the driver counts the transfer
\* as its own and has the buffer mapped, exactly once.
THEOREM TransferOwned ==
    ASSUME Paced = Parties PROVE Spec => []TransferIsOwned
  <1>1. PacedInv => TransferIsOwned
    <2>1. PacedInv => transfers = <<>> \/ OneTransfer
      BY DEF PacedInv, Stage, Calm, Arrived, Starting, Moving, Emptied, Finishing,
             NoTransfer, HasMessage
    <2>2. transfers = <<>> => TransferIsOwned
      BY EmptySeq DEF TransferIsOwned
    <2>3. OneTransfer => TransferIsOwned
      BY DEF OneTransfer, TransferIsOwned
    <2> QED BY <2>1, <2>2, <2>3
  <1> QED BY <1>1, PacedStagesCorrect, PTL

\* At rest no mapping, no transfer and no lit LED is left behind, and no
\* message either unless a bottom half failed.
THEOREM RestCorrect ==
    ASSUME Paced = Parties PROVE Spec => []RestIsClean
  <1>1. ASSUME PacedInv, AtRest PROVE Calm /\ BlueIsTrue
    <2>1. \A t \in Threads : pc[t] = "idle"
      BY <1>1 DEF AtRest
    <2>2. pc["reader"] = "idle" /\ pc["button"] = "idle" /\ pc["rx_work"] = "idle"
          /\ pc["rx_dma_work"] = "idle"
      BY <2>1 DEF Threads
    <2>3. ~Arrived /\ ~Emptied
      BY <1>1 DEF AtRest, Arrived, Emptied, Signalled, Raised
    <2>4. ~Starting /\ ~Finishing
      BY <2>2 DEF Starting, Finishing
    <2>5. ~Moving
      BY <1>1, OneTransferIs DEF AtRest, Moving, PacedInv, PacedFacts
    <2> QED BY <1>1, <2>2, <2>3, <2>4, <2>5 DEF PacedInv, Stage, Calm
  <1>2. PacedInv => RestIsClean
    BY <1>1 DEF RestIsClean, Calm, NoTransfer, StuckByFault, BlueIsTrue
  <1> QED BY <1>2, PacedStagesCorrect, PTL
-----------------------------------------------------------------------------
(* The mailbox.  Which stage an action belongs to follows from its guard.  *)

LEMMA StageOf ==
    ASSUME PacedInv
    PROVE  /\ pc["tasklet"] = "idle"
           /\ pc["rx_work"] # "idle" => Starting
           /\ pc["rx_dma_work"] # "idle" => Finishing
           /\ pc["reader"] # "idle" => Calm
           /\ pc["reader"] = "copy" => \E len \in ReadSizes : readLen = Readable(len)
           /\ pc["button"] # "idle" => Calm
           /\ ~Wedged
           /\ AtRest => Calm /\ holders = {}
  <1>1. CASE Calm
    <2>1. AtRest => pc["reader"] = "idle" /\ pc["button"] = "idle"
      BY DEF AtRest, Threads
    <2> QED BY <1>1, <2>1 DEF Calm, Reading, AllIdleBut, Threads, Wedged
  <1>2. CASE Arrived
    BY <1>2 DEF Arrived, AllIdleBut, Threads, AtRest, Signalled, Raised, Wedged
  <1>3. CASE Starting
    BY <1>3 DEF Starting, AllIdleBut, Threads, AtRest, Wedged
  <1>4. CASE Moving
    <2>1. transfers # <<>>
      BY <1>4, OneTransferIs DEF Moving, PacedInv, PacedFacts
    <2> QED BY <1>4, <2>1 DEF Moving, AllIdleBut, Threads, AtRest, Wedged
  <1>5. CASE Emptied
    BY <1>5 DEF Emptied, AllIdleBut, Threads, AtRest, Signalled, Raised, Wedged
  <1>6. CASE Finishing
    BY <1>6 DEF Finishing, AllIdleBut, Threads, AtRest, Wedged
  <1> QED BY <1>1, <1>2, <1>3, <1>4, <1>5, <1>6 DEF PacedInv, Stage

\* A transfer that has bytes to move belongs to the stage Moving.
LEMMA StageOfMove ==
    ASSUME PacedInv, MoveByte
    PROVE  Moving
  BY DEF PacedInv, Stage, Calm, Arrived, Starting, Emptied, Finishing, NoTransfer, MoveByte

LEMMA NeverFull == ASSUME PacedInv PROVE ~CompleteTransfer
  <1>1. RxInv /\ pc["tasklet"] = "idle"
    BY StageOf DEF PacedInv, PacedFacts
  <1>2. transfers = <<>> \/ HasMessage \/ Moving
    BY DEF PacedInv, Stage, Calm, Arrived, Starting, Emptied, Finishing, NoTransfer
  <1>3. CASE Moving
    <2>1. transfers[1] \in 0 .. RxBufSize /\ transfers[1] + Len(rxFifo) < FifoSize
      BY <1>1, <1>3, OneTransferIs DEF Moving
    <2>2. Len(rxFifo) \in Nat
      BY <1>1, LenProperties DEF RxInv, DeviceTypeOK
    <2>3. transfers[1] < RxBufSize
      BY <2>1, <2>2, RxBufAssumption, FifoSizeAssumption
    <2> QED BY <1>1, <2>3, TaskletRests
  <1> QED BY <1>1, <1>2, <1>3, NotFull, TaskletRests DEF HasMessage

Bytes == Data \cup {Junk}

LEMMA FifoOfBytes ==
    ASSUME NEW q \in Seq(Data) PROVE q \in Seq(Bytes)
  <1>1. \A i \in 1 .. Len(q) : q[i] \in Bytes
    BY ElementOfSeq DEF Bytes
  <1> QED BY <1>1, LenProperties, IsASeq

LEMMA Prefix ==
    ASSUME NEW b \in [1 .. RxBufSize -> Bytes], NEW n \in 0 .. RxBufSize
    PROVE  /\ SubSeq(b, 1, n) \in Seq(Bytes) /\ Len(SubSeq(b, 1, n)) = n
           /\ \A i \in 1 .. n : SubSeq(b, 1, n)[i] = b[i]
  <1>1. n \in Int /\ \A i \in 1 .. n : i \in 1 .. RxBufSize
    BY RxBufAssumption
  <1>2. /\ SubSeq(b, 1, n) \in Seq(Bytes)
        /\ Len(SubSeq(b, 1, n)) = IF 1 <= n THEN n - 1 + 1 ELSE 0
        /\ \A i \in 1 .. n - 1 + 1 : SubSeq(b, 1, n)[i] = b[1 + i - 1]
    BY <1>1, SubSeqProperties
  <1>3. (IF 1 <= n THEN n - 1 + 1 ELSE 0) = n /\ n - 1 + 1 = n
        /\ \A i \in 1 .. n : 1 + i - 1 = i
    BY RxBufAssumption
  <1> QED BY <1>2, <1>3

LEMMA RxTypes ==
    ASSUME RxInv
    PROVE  /\ rxFifo \in Seq(Data) /\ rxFifo \in Seq(Bytes) /\ Len(rxFifo) < FifoSize
           /\ rxBuf \in [1 .. RxBufSize -> Bytes] /\ rxSize \in 0 .. RxBufSize
           /\ ppos \in 0 .. RxBufSize /\ readLen \in Nat
  BY FifoOfBytes DEF RxInv, DeviceTypeOK, ChannelTyped, DriverTyped, FileTyped, Bytes

\* Without a transfer the FIFO is what is in transit.
LEMMA ParcelOfFifo ==
    ASSUME RxInv, transfers = <<>>, ~Delivered
    PROVE  Parcel = rxFifo /\ Mail = SubSeq(rxBuf, 1, rxSize)
  BY RxTypes, ConcatEmptySeq DEF Parcel, Mail

LEMMA BoxStutters ==
    ASSUME UNCHANGED <<rxFifo, transfers, rxBuf, rxSize, ppos, lastRead>>,
           Delivered' <=> Delivered, At("button", "lock")' = At("button", "lock")
    PROVE  UNCHANGED Box!vars
  BY DEF Box!vars, Parcel, Mail

\* Steps that touch neither FIFO, nor buffer, nor length, nor file offset.
LEMMA QuietSteps ==
    ASSUME PacedInv,
           \/ HostFetches \/ Interrupt \/ RxWorkBegin \/ RxWorkLock \/ RxWorkPrepare
           \/ RxWorkFails \/ RxWorkLed \/ RxDmaWorkPause \/ RxDmaWorkLed \/ RxDmaWorkCheck
           \/ CallbackStep("rx_dma_work") \/ (\E len \in ReadSizes : Read(len))
           \/ ReadLock \/ ReadLength \/ ButtonUnlock \/ UNCHANGED vars
    PROVE  UNCHANGED Box!vars
  <1>1. ThreadsTyped
    BY DEF PacedInv, PacedFacts, RxInv
  <1>2. UNCHANGED <<rxFifo, transfers, rxBuf, rxSize, ppos, lastRead>>
    BY InterruptKeeps
    DEF vars, device, driver, channel, file, HostFetches, GetData, rxSide, Interrupt,
        RxWorkBegin, TakeWork, RxWorkLock, CallbackStep, CallbackClear, CallbackLed,
        RxWorkPrepare, RxWorkLed, RxWorkFails, RxDmaWorkPause, RxDmaWorkLed, RxDmaWorkCheck,
        Read, ReadLock, ReadLength, ButtonUnlock
  <1>3. pc["rx_dma_work"] = "check" => rxQueued
    BY StageOf DEF Finishing, HasMessage, OneTransfer
  <1>4. Delivered' <=> Delivered
    BY <1>1, <1>3
    DEF Delivered, vars, HostFetches, Interrupt, RxWorkBegin, TakeWork, RxWorkLock,
        CallbackStep, CallbackClear, CallbackLed, AfterCallback, RxWorkPrepare, RxWorkLed,
        RxWorkFails, RxDmaWorkPause, RxDmaWorkLed, RxDmaWorkCheck, Read, ReadLock,
        ReadLength, ButtonUnlock, Goto, At, ThreadsTyped, Threads
  <1>5. At("button", "lock")' = At("button", "lock")
    BY <1>1
    DEF vars, HostFetches, Interrupt, RxWorkBegin, TakeWork, RxWorkLock,
        CallbackStep, CallbackClear, CallbackLed, AfterCallback, RxWorkPrepare, RxWorkLed,
        RxWorkFails, RxDmaWorkPause, RxDmaWorkLed, RxDmaWorkCheck, Read, ReadLock,
        ReadLength, ButtonUnlock, Goto, At, ThreadsTyped, Threads
  <1> QED BY <1>2, <1>4, <1>5, BoxStutters

\* Steps of others leave a press of the button as it is.
LEMMA PressKept ==
    ASSUME PacedInv, NEW t \in Threads \ {"button"}, NEW label,
           UNCHANGED pc \/ Goto(t, label)
    PROVE  At("button", "lock")' = At("button", "lock")
  <1>1. ThreadsTyped /\ "button" \in Threads
    BY DEF PacedInv, PacedFacts, RxInv, Threads
  <1>2. pc'["button"] = pc["button"]
    BY <1>1 DEF ThreadsTyped, Goto
  <1> QED BY <1>2 DEF At

\* What the device keeps of a message is what the mailbox accepts.
LEMMA RoomForMessage ==
    ASSUME NEW q \in Seq(Data), Len(q) < FifoSize, NEW msg \in Seq(Data)
    PROVE  q \o (IF Len(msg) <= Room(q) THEN msg ELSE SubSeq(msg, 1, Room(q)))
             = IF Len(q \o msg) <= FifoSize - 1 THEN q \o msg
               ELSE SubSeq(q \o msg, 1, FifoSize - 1)
  <1> DEFINE all == q \o msg
             room == Room(q)
             part == SubSeq(msg, 1, room)
             cut == SubSeq(all, 1, FifoSize - 1)
  <1>1. Len(q) \in Nat /\ Len(msg) \in Nat
    BY LenProperties
  <1>2. /\ all \in Seq(Data) /\ Len(all) = Len(q) + Len(msg)
        /\ \A i \in 1 .. Len(q) + Len(msg) :
             all[i] = IF i <= Len(q) THEN q[i] ELSE msg[i - Len(q)]
    BY ConcatProperties
  <1>3. room \in Nat /\ room + Len(q) = FifoSize - 1 /\ FifoSize - 1 \in Nat
    BY <1>1, FifoSizeAssumption DEF Room
  <1> HIDE DEF all, room
  <1>4. Len(all) <= FifoSize - 1 <=> Len(msg) <= room
    BY <1>1, <1>2, <1>3, FifoSizeAssumption
  <1>5. CASE Len(msg) <= room
    BY <1>4, <1>5 DEF all, room
  <1>6. CASE ~(Len(msg) <= room)
    <2>1. \A i \in 1 .. room : i \in 1 .. Len(msg)
      BY <1>1, <1>3, <1>6
    <2>2. 1 \in Int /\ room \in Int /\ (IF 1 <= room THEN room - 1 + 1 ELSE 0) = room
          /\ room - 1 + 1 = room /\ \A i \in 1 .. room : 1 + i - 1 = i
      BY <1>3
    <2>3. \A i \in 1 .. room : msg[i] \in Data
      BY <2>1, ElementOfSeq
    <2>4. /\ part \in Seq(Data) /\ Len(part) = room
          /\ \A i \in 1 .. room : part[i] = msg[i]
      BY <2>2, <2>3, SubSeqProperties
    <2> DEFINE m == FifoSize - 1
    <2>5. m \in Nat /\ \A i \in 1 .. m : i \in 1 .. Len(all)
      BY <1>1, <1>2, <1>3, <1>6
    <2>6. 1 \in Int /\ m \in Int /\ (IF 1 <= m THEN m - 1 + 1 ELSE 0) = m
          /\ m - 1 + 1 = m /\ \A i \in 1 .. m : 1 + i - 1 = i
      BY <2>5
    <2>7. \A i \in 1 .. m : all[i] \in Data
      BY <1>2, <2>5, ElementOfSeq
    <2>8. /\ cut \in Seq(Data) /\ Len(cut) = m
          /\ \A i \in 1 .. m : cut[i] = all[i]
      BY <2>6, <2>7, SubSeqProperties
    <2> HIDE DEF part, cut
    <2>9. /\ q \o part \in Seq(Data) /\ Len(q \o part) = Len(q) + room
          /\ \A i \in 1 .. Len(q) + room :
               (q \o part)[i] = IF i <= Len(q) THEN q[i] ELSE part[i - Len(q)]
      BY <2>4, ConcatProperties
    <2>10. Len(q) + room = m
      BY <1>1, <1>3
    <2>11. ASSUME NEW i \in 1 .. m PROVE (q \o part)[i] = cut[i]
      <3>1. /\ i \in 1 .. Len(q) + room /\ i \in 1 .. Len(q) + Len(msg)
            /\ (~(i <= Len(q)) => i - Len(q) \in 1 .. room)
        BY <1>1, <1>2, <1>3, <1>6, <2>5, <2>10
      <3> QED BY <1>2, <2>4, <2>8, <2>9, <3>1
    <2>12. Len(q \o part) = Len(cut) /\ Len(q \o part) = m
      BY <2>8, <2>9, <2>10
    <2>13. \A i \in 1 .. Len(q \o part) : (q \o part)[i] = cut[i]
      BY <2>11, <2>12
    <2>14. q \o part = cut
      BY <2>8, <2>9, <2>12, <2>13, SeqEqual
    <2>15. ~(Len(all) <= FifoSize - 1)
      BY <1>4, <1>6
    <2> QED BY <1>6, <2>14, <2>15 DEF all, part, cut, room
  <1> QED BY <1>5, <1>6

LEMMA SendIsAccept ==
    ASSUME Paced = Parties, PacedInv, NEW msg \in Messages, HostSends(msg)
    PROVE  Box!Accept(msg)
  <1>1. AtRest /\ SetData(msg) /\ msg \in Seq(Data)
    BY MessagesAssumption DEF HostSends, MayAct, Parties
  <1>2. RxInv /\ RxInv' /\ Calm
    BY <1>1, StageOf, RxInvHost DEF PacedInv, PacedFacts
  <1>3. transfers = <<>> /\ ~Delivered
    BY <1>1, <1>2 DEF Calm, NoTransfer, AtRest, Delivered, Threads
  <1>4. UNCHANGED <<transfers, rxBuf, rxSize, ppos, lastRead, pc>>
    BY DEF HostSends, driver, channel, file
  <1>5. transfers' = <<>> /\ ~Delivered'
    BY <1>3, <1>4 DEF Delivered
  <1>6. Parcel = rxFifo /\ Mail = SubSeq(rxBuf, 1, rxSize)
    BY <1>2, <1>3, ParcelOfFifo
  <1>7. Parcel' = rxFifo' /\ Mail' = SubSeq(rxBuf', 1, rxSize')
    <2>1. rxFifo' \in Seq(Bytes)
      BY <1>2, FifoOfBytes DEF RxInv, DeviceTypeOK
    <2> QED BY <1>5, <2>1, ConcatEmptySeq DEF Parcel, Mail
  <1>8. rxFifo' = rxFifo \o (IF Len(msg) <= Room(rxFifo) THEN msg
                             ELSE SubSeq(msg, 1, Room(rxFifo)))
    BY <1>1 DEF SetData
  <1>9. rxFifo' = IF Len(rxFifo \o msg) <= FifoSize - 1 THEN rxFifo \o msg
                  ELSE SubSeq(rxFifo \o msg, 1, FifoSize - 1)
    BY <1>1, <1>2, <1>8, RxTypes, RoomForMessage
  <1>10. msg # <<>>
    BY <1>1 DEF SetData
  <1>11. At("button", "lock")' = At("button", "lock")
    BY <1>4 DEF At
  <1> DEFINE all == rxFifo \o msg
             fit == IF Len(all) <= FifoSize - 1 THEN Len(all) ELSE FifoSize - 1
  <1>12. all \in Seq(Data) /\ Len(all) \in Nat /\ FifoSize - 1 \in Nat
    <2>1. rxFifo \in Seq(Data)
      BY <1>2, RxTypes
    <2> QED BY <1>1, <2>1, ConcatProperties, LenProperties, FifoSizeAssumption
  <1> HIDE DEF all
  <1>13. fit \in fit .. fit
    BY <1>12
  <1>14. rxFifo' = SubSeq(all, 1, fit)
    <2>1. CASE Len(all) <= FifoSize - 1
      <3>1. SubSeq(all, 1, Len(all)) = all
        BY <1>12, SubSeqFull
      <3> QED BY <1>9, <2>1, <3>1 DEF all
    <2>2. CASE ~(Len(all) <= FifoSize - 1)
      BY <1>9, <2>2 DEF all
    <2> QED BY <2>1, <2>2
  <1>15. \E n \in fit .. (IF FALSE THEN Len(all) ELSE fit) : rxFifo' = SubSeq(all, 1, n)
    BY <1>13, <1>14
  <1> QED BY <1>4, <1>6, <1>7, <1>10, <1>11, <1>15, Zenon DEF Box!Accept, all

LEMMA IssueIsMakeRoom ==
    ASSUME PacedInv, RxWorkIssue
    PROVE  Box!MakeRoom
  <1>1. RxInv /\ Starting /\ pc["rx_work"] = "issue"
    BY StageOf DEF PacedInv, PacedFacts, RxWorkIssue, At
  <1>2. transfers = <<>> /\ ~Delivered /\ ~IsEmpty(rxFifo)
    BY <1>1 DEF Starting, Delivered, AllIdleBut, Threads
  <1>3. transfers' = <<0>> /\ UNCHANGED <<rxFifo, rxBuf, rxSize, ppos, lastRead>>
    BY <1>2 DEF RxWorkIssue, Issue, device, driver, file
  <1>4. ~Delivered'
    BY <1>1, <1>2 DEF RxWorkIssue, Goto, Delivered, RxInv, ThreadsTyped, Threads
  <1>5. transfers' # <<>> /\ transfers'[1] = 0
    BY <1>3
  <1>6. Mail' = <<>>
    BY <1>4, <1>5 DEF Mail
  <1>7. Parcel = rxFifo
    BY <1>1, <1>2, ParcelOfFifo
  <1>8. Parcel' = rxFifo
    <2>1. Parcel' = SubSeq(rxBuf, 1, 0) \o rxFifo
      BY <1>3, <1>4, <1>5 DEF Parcel
    <2>2. SubSeq(rxBuf, 1, 0) = <<>>
      BY SubSeqEmpty
    <2> QED BY <1>1, <2>1, <2>2, RxTypes, ConcatEmptySeq
  <1>9. At("button", "lock")' = At("button", "lock")
    BY PressKept DEF RxWorkIssue, Threads
  <1> QED BY <1>2, <1>3, <1>6, <1>7, <1>8, <1>9 DEF Box!MakeRoom, IsEmpty

\* A byte goes from the front of the FIFO to the end of what was moved.
LEMMA MoveInTransit ==
    ASSUME NEW b \in [1 .. RxBufSize -> Bytes], NEW n \in 0 .. RxBufSize - 1,
           NEW q \in Seq(Bytes), q # <<>>,
           NEW c, c = [b EXCEPT ![n + 1] = Head(q)]
    PROVE  SubSeq(c, 1, n + 1) \o Tail(q) = SubSeq(b, 1, n) \o q
  <1> DEFINE before == SubSeq(b, 1, n)
             after == SubSeq(c, 1, n + 1)
             rest == Tail(q)
  <1>1. n \in 0 .. RxBufSize /\ n + 1 \in 0 .. RxBufSize /\ n + 1 \in 1 .. RxBufSize
        /\ n \in Nat
    BY RxBufAssumption
  <1>2. Head(q) \in Bytes /\ q[1] = Head(q)
    BY HeadTailProperties
  <1>3. Len(q) \in Nat /\ Len(q) # 0
    BY EmptySeq, LenProperties
  <1>4. /\ rest \in Seq(Bytes) /\ Len(rest) = Len(q) - 1
        /\ \A i \in 1 .. Len(q) - 1 : rest[i] = q[i + 1]
    BY HeadTailProperties
  <1>5. c \in [1 .. RxBufSize -> Bytes]
    BY <1>1, <1>2
  <1>6. /\ before \in Seq(Bytes) /\ Len(before) = n
        /\ \A i \in 1 .. n : before[i] = b[i]
    BY <1>1, Prefix
  <1>7. /\ after \in Seq(Bytes) /\ Len(after) = n + 1
        /\ \A i \in 1 .. n + 1 : after[i] = c[i]
    BY <1>1, <1>5, Prefix
  <1>8. \A i \in 1 .. n : c[i] = b[i] /\ i \in 1 .. n + 1
    <2>1. \A i \in 1 .. n : i \in 1 .. RxBufSize /\ i # n + 1 /\ i \in 1 .. n + 1
      BY <1>1, RxBufAssumption
    <2> QED BY <2>1
  <1>9. c[n + 1] = q[1] /\ n + 1 \in 1 .. n + 1
    BY <1>1, <1>2
  <1> HIDE DEF before, after, rest
  <1>10. /\ before \o q \in Seq(Bytes) /\ Len(before \o q) = n + Len(q)
         /\ \A i \in 1 .. n + Len(q) :
              (before \o q)[i] = IF i <= n THEN before[i] ELSE q[i - n]
    BY <1>6, ConcatProperties
  <1>11. /\ after \o rest \in Seq(Bytes)
         /\ Len(after \o rest) = n + 1 + (Len(q) - 1)
         /\ \A i \in 1 .. n + 1 + (Len(q) - 1) :
              (after \o rest)[i] = IF i <= n + 1 THEN after[i] ELSE rest[i - (n + 1)]
    <2>1. /\ after \o rest \in Seq(Bytes)
          /\ Len(after \o rest) = Len(after) + Len(rest)
          /\ \A i \in 1 .. Len(after) + Len(rest) :
               (after \o rest)[i] = IF i <= Len(after) THEN after[i]
                                       ELSE rest[i - Len(after)]
      <3>1. after \in Seq(Bytes) /\ rest \in Seq(Bytes)
        BY <1>4, <1>7
      <3> QED BY <3>1, ConcatProperties
    <2> QED BY <1>4, <1>7, <2>1, Zenon
  <1>12. n + 1 + (Len(q) - 1) = n + Len(q)
    BY <1>1, <1>3
  <1>13. ASSUME NEW i \in 1 .. n + Len(q)
         PROVE  (after \o rest)[i] = (before \o q)[i]
    <2>0. i \in Nat
      BY <1>1, <1>3
    <2>1. CASE i <= n
      <3>1. i \in 1 .. n /\ i <= n + 1
        BY <1>1, <2>0, <2>1
      <3>2. (before \o q)[i] = before[i]
        BY <1>10, <2>1
      <3>3. (after \o rest)[i] = after[i]
        BY <1>11, <1>12, <3>1
      <3> QED BY <1>6, <1>7, <1>8, <3>1, <3>2, <3>3
    <2>2. CASE i = n + 1
      <3>1. ~(i <= n) /\ i - n = 1 /\ i <= n + 1
        BY <1>1, <2>2
      <3>2. (before \o q)[i] = q[1]
        BY <1>10, <3>1
      <3>3. (after \o rest)[i] = after[n + 1]
        BY <1>11, <1>12, <2>2, <3>1
      <3> QED BY <1>7, <1>9, <3>2, <3>3
    <2>3. CASE ~(i <= n) /\ i # n + 1
      <3>1. ~(i <= n + 1) /\ i - (n + 1) \in 1 .. Len(q) - 1 /\ (i - (n + 1)) + 1 = i - n
        BY <1>1, <1>3, <2>0, <2>3
      <3>2. (before \o q)[i] = q[i - n]
        BY <1>10, <2>3
      <3>3. (after \o rest)[i] = rest[i - (n + 1)]
        BY <1>11, <1>12, <3>1
      <3> QED BY <1>4, <3>1, <3>2, <3>3
    <2> QED BY <2>1, <2>2, <2>3
  <1>14. Len(after \o rest) = Len(before \o q)
    BY <1>10, <1>11, <1>12
  <1>15. \A i \in 1 .. Len(after \o rest) : (after \o rest)[i] = (before \o q)[i]
    BY <1>11, <1>12, <1>13
  <1>16. after \o rest = before \o q
    BY <1>10, <1>11, <1>14, <1>15, SeqEqual
  <1> QED BY <1>16 DEF after, before, rest

LEMMA MoveIsQuiet ==
    ASSUME PacedInv, MoveByte
    PROVE  UNCHANGED Box!vars
  <1>1. RxInv /\ Moving
    BY StageOfMove DEF PacedInv, PacedFacts
  <1>2. /\ transfers # <<>> /\ transfers \in Seq(0 .. RxBufSize)
        /\ 1 \in 1 .. Len(transfers) /\ transfers[1] \in 0 .. RxBufSize
    BY <1>1, OneTransferIs DEF Moving
  <1>3. transfers[1] < RxBufSize /\ ~IsEmpty(rxFifo)
    BY <1>1 DEF MoveByte, Moving
  <1>4. transfers[1] \in 0 .. RxBufSize - 1 /\ transfers[1] + 1 \in 0 .. RxBufSize
    BY <1>2, <1>3, RxBufAssumption
  <1>5. transfers' # <<>> /\ transfers'[1] = transfers[1] + 1
    <2>1. transfers' = [transfers EXCEPT ![1] = transfers[1] + 1]
      BY DEF MoveByte
    <2>2. transfers' \in Seq(0 .. RxBufSize) /\ Len(transfers') = Len(transfers)
          /\ transfers'[1] = transfers[1] + 1
      BY <1>2, <1>4, <2>1, ExceptSeq
    <2> QED BY <1>2, <2>2, EmptySeq
  <1>6. rxBuf' = [rxBuf EXCEPT ![transfers[1] + 1] = Head(rxFifo)] /\ rxFifo' = Tail(rxFifo)
    BY <1>3 DEF MoveByte, ReadDR
  <1>7. ~Delivered /\ ~Delivered' /\ UNCHANGED <<rxSize, ppos, lastRead>>
    BY <1>1 DEF MoveByte, Moving, AllIdleBut, Threads, Delivered, driver, file
  <1>8. SubSeq(rxBuf', 1, transfers[1] + 1) \o Tail(rxFifo)
          = SubSeq(rxBuf, 1, transfers[1]) \o rxFifo
    BY <1>1, <1>3, <1>4, <1>6, RxTypes, MoveInTransit DEF IsEmpty
  <1>9. Parcel' = SubSeq(rxBuf', 1, transfers[1] + 1) \o Tail(rxFifo)
    BY <1>5, <1>6, <1>7 DEF Parcel
  <1>10. Parcel = SubSeq(rxBuf, 1, transfers[1]) \o rxFifo
    BY <1>2, <1>7 DEF Parcel
  <1>11. Mail' = <<>> /\ Mail = <<>>
    BY <1>2, <1>5, <1>7 DEF Mail
  <1>12. At("button", "lock")' = At("button", "lock")
    BY DEF MoveByte, At
  <1> QED BY <1>7, <1>8, <1>9, <1>10, <1>11, <1>12 DEF Box!vars

\* rx_size covers the message: from here on it is the mail.
LEMMA StatusIsDeliver ==
    ASSUME PacedInv, RxDmaWorkStatus
    PROVE  Box!Deliver
  <1>1. RxInv /\ Finishing /\ pc["rx_dma_work"] = "status"
    BY StageOf DEF PacedInv, PacedFacts, RxDmaWorkStatus, At
  <1>2. HasMessage /\ IsEmpty(rxFifo)
    BY <1>1 DEF Finishing
  <1>3. Received = transfers[1] /\ transfers # <<>> /\ transfers[1] \in 0 .. RxBufSize
    BY <1>1, <1>2, OneTransferIs DEF HasMessage
  <1>4. transfers[1] # 0
    BY <1>2 DEF HasMessage
  <1>5. rxSize' = transfers[1] /\ UNCHANGED <<rxFifo, transfers, rxBuf, ppos, lastRead>>
    BY <1>3 DEF RxDmaWorkStatus, device, channel, file
  <1>6. ~Delivered /\ Delivered'
    BY <1>1, <1>3, <1>4
    DEF RxDmaWorkStatus, Goto, Delivered, RxInv, ThreadsTyped, Threads
  <1>7. /\ SubSeq(rxBuf, 1, transfers[1]) \in Seq(Bytes)
        /\ Len(SubSeq(rxBuf, 1, transfers[1])) = transfers[1]
    BY <1>1, <1>3, RxTypes, Prefix
  <1>8. Parcel = SubSeq(rxBuf, 1, transfers[1])
    BY <1>2, <1>3, <1>6, <1>7, ConcatEmptySeq DEF Parcel, IsEmpty
  <1>9. Parcel # <<>>
    BY <1>4, <1>7, <1>8, EmptySeq
  <1>10. Parcel' = <<>>
    BY <1>6 DEF Parcel
  <1>11. Mail' = SubSeq(rxBuf, 1, transfers[1])
    BY <1>5, <1>6 DEF Mail
  <1>12. At("button", "lock")' = At("button", "lock")
    BY PressKept DEF RxDmaWorkStatus, Threads
  <1> QED BY <1>5, <1>8, <1>9, <1>10, <1>11, <1>12 DEF Box!Deliver

\* The transfer that is given back holds nothing but the mail.
LEMMA StopIsQuiet ==
    ASSUME PacedInv, StopTransfer("rx_dma_work")
    PROVE  UNCHANGED Box!vars
  <1>1. RxInv /\ Finishing /\ pc["rx_dma_work"] = "terminate"
    BY StageOf DEF PacedInv, PacedFacts, StopTransfer, At
  <1>2. IsEmpty(rxFifo) /\ Delivered
    BY <1>1 DEF Finishing, Delivered
  <1>3. transfers' = <<>> /\ UNCHANGED <<rxFifo, rxBuf, rxSize, ppos, lastRead>>
    BY DEF StopTransfer, Terminate, device, driver, file
  <1>4. ~Delivered'
    BY <1>1 DEF StopTransfer, Goto, Delivered, RxInv, ThreadsTyped, Threads
  <1>5. Parcel = <<>> /\ Mail = SubSeq(rxBuf, 1, rxSize)
    BY <1>2 DEF Parcel, Mail
  <1>6. <<>> \o <<>> = <<>>
    BY EmptySeq, ConcatEmptySeq
  <1>7. Parcel' = <<>> /\ Mail' = SubSeq(rxBuf, 1, rxSize)
    BY <1>2, <1>3, <1>4, <1>6 DEF Parcel, Mail, IsEmpty
  <1>8. At("button", "lock")' = At("button", "lock")
    BY PressKept DEF StopTransfer, Threads
  <1> QED BY <1>3, <1>5, <1>7, <1>8 DEF Box!vars

LEMMA ButtonIsClear ==
    ASSUME PacedInv, ButtonLock
    PROVE  Box!Clear
  <1>1. RxInv /\ Calm /\ pc["button"] = "lock"
    BY StageOf DEF PacedInv, PacedFacts, ButtonLock
  <1>2. transfers = <<>> /\ ~Delivered
    BY <1>1 DEF Calm, NoTransfer, AllIdleBut, Threads, Delivered
  <1>3. rxSize' = 0 /\ UNCHANGED <<rxFifo, transfers, rxBuf, ppos, lastRead>>
    BY DEF ButtonLock, device, channel, file
  <1>4. ~Delivered'
    BY <1>1, <1>2 DEF ButtonLock, Goto, Delivered, RxInv, ThreadsTyped, Threads
  <1>5. Mail' = SubSeq(rxBuf, 1, 0)
    BY <1>2, <1>3 DEF Mail
  <1>6. Mail' = <<>>
    BY <1>5, SubSeqEmpty
  <1>7. Parcel' = Parcel
    BY <1>2, <1>3, <1>4 DEF Parcel
  <1>8. At("button", "lock") /\ At("button", "lock")' = FALSE
    BY <1>1 DEF ButtonLock, Goto, At, RxInv, ThreadsTyped, Threads
  <1> QED BY <1>3, <1>6, <1>7, <1>8 DEF Box!Clear

LEMMA PressIsPress ==
    ASSUME PacedInv, Press
    PROVE  Box!Press
  <1>1. ThreadsTyped /\ "button" \in Threads
    BY DEF PacedInv, PacedFacts, RxInv, Threads
  <1>2. pc'["button"] = "lock"
    BY <1>1 DEF Press, ThreadsTyped, Goto
  <1>3. Delivered' <=> Delivered
    BY <1>1 DEF Press, Goto, ThreadsTyped, Threads, Delivered
  <1>4. UNCHANGED <<rxFifo, transfers, rxBuf, rxSize, ppos, lastRead>>
    BY DEF Press, device, driver, channel, file
  <1> QED BY <1>2, <1>3, <1>4 DEF Box!Press, Parcel, Mail, At

LEMMA OpenIsOpen ==
    ASSUME PacedInv, Open
    PROVE  Box!Open
  <1>1. ppos' = 0 /\ UNCHANGED <<rxFifo, transfers, rxBuf, rxSize, lastRead, pc>>
    BY DEF Open, device, driver, channel
  <1> QED BY <1>1 DEF Box!Open, Parcel, Mail, Delivered, At

\* The read returns the next bytes of the mail.
LEMMA CopyIsRead ==
    ASSUME PacedInv, ReadCopy
    PROVE  \E n \in ReadSizes : Box!Read(n)
  <1>1. RxInv /\ Calm /\ pc["reader"] = "copy" /\ ThreadsTyped
    BY StageOf DEF PacedInv, PacedFacts, ReadCopy, At, RxInv
  <1>2. PICK n \in ReadSizes : readLen = Readable(n)
    BY <1>1, StageOf
  <1>3. transfers = <<>> /\ UNCHANGED <<rxFifo, transfers, rxBuf, rxSize>>
    BY <1>1 DEF Calm, NoTransfer, ReadCopy, device, driver, channel
  <1>4. Delivered' <=> Delivered
    BY <1>1 DEF ReadCopy, Goto, ThreadsTyped, Threads, Delivered
  <1>5. UNCHANGED <<Parcel, Mail>> /\ Mail = SubSeq(rxBuf, 1, rxSize)
    BY <1>3, <1>4 DEF Parcel, Mail
  <1>6. /\ rxSize \in Nat /\ rxSize \in 0 .. RxBufSize /\ ppos \in Nat /\ n \in Nat
        /\ rxBuf \in [1 .. RxBufSize -> Bytes] /\ readLen \in Nat
    BY <1>1, RxTypes, RxBufAssumption, RxReadSizesAssumption
  <1>7. /\ Mail \in Seq(Bytes) /\ Len(Mail) = rxSize
        /\ \A i \in 1 .. rxSize : Mail[i] = rxBuf[i]
    BY <1>5, <1>6, Prefix
  <1> DEFINE end == IF ppos + n < rxSize THEN ppos + n ELSE rxSize
             part == SubSeq(Mail, ppos + 1, end)
  <1>8. end \in Nat /\ end <= rxSize /\ ppos + 1 \in Int /\ end \in Int
        /\ (IF ppos + 1 <= end THEN end - (ppos + 1) + 1 ELSE 0) = readLen
        /\ (readLen # 0 => end - (ppos + 1) + 1 = readLen)
    BY <1>2, <1>6 DEF Readable
  <1> HIDE DEF end
  <1>9. \A i \in ppos + 1 .. end : i \in 1 .. rxSize
    BY <1>6, <1>8
  <1>10. \A i \in ppos + 1 .. end : Mail[i] \in Bytes
    BY <1>7, <1>9, ElementOfSeq
  <1>11. /\ part \in Seq(Bytes) /\ Len(part) = readLen
         /\ \A i \in 1 .. end - (ppos + 1) + 1 : part[i] = Mail[ppos + 1 + i - 1]
    BY <1>8, <1>10, SubSeqProperties
  <1> HIDE DEF part
  <1>12. \A i \in 1 .. readLen : /\ i \in 1 .. end - (ppos + 1) + 1
                                 /\ ppos + 1 + i - 1 = ppos + i /\ ppos + i \in 1 .. rxSize
    BY <1>6, <1>8
  <1>13. \A i \in 1 .. readLen : part[i] = rxBuf[ppos + i]
    BY <1>7, <1>11, <1>12
  <1>14. lastRead' = [i \in 1 .. readLen |-> rxBuf[ppos + i]] /\ ppos' = ppos + readLen
    BY DEF ReadCopy
  <1>15. \A i \in 1 .. readLen : rxBuf[ppos + i] \in Bytes
    BY <1>11, <1>13, ElementOfSeq
  <1>16. lastRead' \in Seq(Bytes) /\ Len(lastRead') = readLen
         /\ \A i \in 1 .. readLen : lastRead'[i] = rxBuf[ppos + i]
    BY <1>6, <1>14, <1>15, IsASeq
  <1>17. lastRead' = part
    BY <1>11, <1>13, <1>16, SeqEqual
  <1>18. At("button", "lock")' = At("button", "lock")
    BY PressKept DEF ReadCopy, Threads
  <1>19. Box!Read(n)
    BY <1>5, <1>7, <1>14, <1>16, <1>17, <1>18 DEF Box!Read, part, end
  <1> QED BY <1>19

\* While host, reader and button wait for one another the receive path is a
\* mailbox with a patient host: messages are delivered whole, once and in
\* order, reads return the next bytes of the last one, a press of the button
\* takes one mail away and nothing else does without bringing the next, and
\* a transfer that could not be started loses nothing.
THEOREM MailboxCorrect ==
    ASSUME Paced = Parties PROVE Spec => IsMailbox
  <1>1. Init => Box!Init
    <2> SUFFICES ASSUME Init PROVE Box!Init
      OBVIOUS
    <2>1. transfers = <<>> /\ rxFifo = <<>> /\ rxSize = 0 /\ ~Delivered
      BY DEF Init, TopInit, Delivered, Threads
    <2>2. Parcel = rxFifo /\ Mail = SubSeq(rxBuf, 1, rxSize)
      BY <2>1, RxInvInit, ParcelOfFifo
    <2>3. SubSeq(rxBuf, 1, 0) = <<>>
      BY SubSeqEmpty
    <2> QED BY <2>1, <2>2, <2>3 DEF Init, Box!Init, At, Threads
  <1>2. PacedInv /\ [Next]_vars => [Box!Next]_(Box!vars)
    <2> SUFFICES ASSUME PacedInv, [Next]_vars
                 PROVE  Box!Next \/ UNCHANGED Box!vars
      OBVIOUS
    <2>1. CASE \E msg \in Messages : HostSends(msg)
      BY <2>1, SendIsAccept DEF Box!Next
    <2>2. CASE RxWorkStep \/ RxWorkFails
      <3>1. RxWorkBegin \/ Starting
        BY <2>2, StageOf
        DEF RxWorkStep, RxWorkLock, StopTransfer, CallbackStep, CallbackClear,
            CallbackLed, RxWorkPrepare, RxWorkLed, RxWorkIssue, RxWorkFails, At
      <3>2. CASE RxWorkBegin
        BY <3>2, QuietSteps
      <3>3. CASE Starting
        <4>1. ~StopTransfer("rx_work") /\ ~CallbackStep("rx_work")
          BY <3>3 DEF Starting, StopTransfer, CallbackStep, CallbackClear, CallbackLed, At
        <4> QED BY <2>2, <4>1, QuietSteps, IssueIsMakeRoom DEF RxWorkStep, Box!Next
      <3> QED BY <3>1, <3>2, <3>3
    <2>3. CASE RxDmaWorkStep
      BY <2>3, QuietSteps, StatusIsDeliver, StopIsQuiet DEF RxDmaWorkStep, Box!Next
    <2>4. CASE MoveByte
      BY <2>4, MoveIsQuiet
    <2>5. ~CompleteTransfer /\ ~CallbackStep("tasklet") /\ ~PressOnHolder
      BY NeverFull, StageOf
      DEF CallbackStep, CallbackClear, CallbackLed, At, PressOnHolder, MayAct, Parties
    <2>6. CASE Open
      BY <2>6, OpenIsOpen DEF Box!Next
    <2>7. CASE ReadStep
      BY <2>7, QuietSteps, CopyIsRead DEF ReadStep, Box!Next
    <2>8. CASE Press \/ ButtonStep
      BY <2>8, QuietSteps, PressIsPress, ButtonIsClear DEF ButtonStep, Box!Next
    <2>9. CASE HostFetches \/ Interrupt \/ (\E len \in ReadSizes : Read(len))
               \/ Wait \/ UNCHANGED vars
      BY <2>9, QuietSteps DEF Wait
    <2> QED BY <2>1, <2>2, <2>3, <2>4, <2>5, <2>6, <2>7, <2>8, <2>9 DEF Next
  <1> QED BY <1>1, <1>2, PacedStagesCorrect, PTL DEF Spec, IsMailbox, Box!Spec
=============================================================================
