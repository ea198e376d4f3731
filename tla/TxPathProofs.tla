---------------------------- MODULE TxPathProofs ----------------------------
(***************************************************************************)
(* Transmission with DMA keeps its types for any number of writers,        *)
(* signals and failures; and with one writer and no signals it has one     *)
(* transfer at a time and implements the abstract byte stream, for every   *)
(* script of calls and every size of the buffers.                          *)
(***************************************************************************)
EXTENDS TxPath, MmioDeviceProofs

\* The first n bytes of tx.buf have been copied from a user.
Filled(n) == \A i \in 1 .. n : txBuf[i] \in Data

\* What is about to be sent, or being sent, has been copied before.
SentWasCopied ==
    /\ \A w \in Writers :
         /\ At(w, "length") => Filled(bytes[w])
         /\ At(w, "prepare") => Filled(txLength)
         /\ At(w, "led_on") \/ At(w, "issue") => Filled(chunk[w])
    /\ \A k \in 1 .. Len(transfers) :
         transfers[k].pos <= transfers[k].len /\ Filled(transfers[k].len)

TxInv == TxTypeOK /\ SentWasCopied
-----------------------------------------------------------------------------
LEMMA TransferFields ==
    ASSUME NEW q \in Seq([len : 0 .. TxBufSize, pos : 0 .. TxBufSize]),
           NEW k \in 1 .. Len(q)
    PROVE  q[k].len \in 0 .. TxBufSize /\ q[k].pos \in 0 .. TxBufSize
  <1>1. q[k] \in [len : 0 .. TxBufSize, pos : 0 .. TxBufSize]
    BY ElementOfSeq
  <1> QED BY <1>1
-----------------------------------------------------------------------------
(* Types, for any writers.  The bytes of tx.buf matter only to a copy, the *)
(* transfers only to the DMA controller.                                   *)

LEMMA TxInvInit == Init => TxInv
  <1> SUFFICES ASSUME Init PROVE TxInv
    OBVIOUS
  <1>1. <<>> \in Seq(Data) /\ <<>> \in Seq([len : 0 .. TxBufSize, pos : 0 .. TxBufSize])
        /\ Len(<<>>) = 0
    BY EmptySeq
  <1>2. 0 \in 0 .. TxBufSize /\ TxBufSize \in 0 .. TxBufSize
    BY TxBufAssumption, SMT
  <1>3. MaxSignals \in 0 .. MaxSignals /\ MaxFaults \in 0 .. MaxFaults
    BY TxBoundsAssumption, SMT
  <1>4. DeviceTypeOK /\ TopTypeOK
    BY TopInitType DEF Init
  <1>5. TxTypeOK
    <2>1. /\ wpc \in [Writers -> {"idle"}] /\ user \in [Writers -> Seq(Data)]
          /\ bytes \in [Writers -> 0 .. TxBufSize] /\ chunk \in [Writers -> 0 .. TxBufSize]
          /\ written \in [Writers -> Nat] /\ todo \in [Writers -> Seq(Seq(Data))]
      BY <1>1, <1>2, ScriptAssumption DEF Init
    <2>2. txBuf \in [1 .. TxBufSize -> Data \cup {Junk}]
      BY DEF Init
    <2>3. /\ transfers \in Seq([len : 0 .. TxBufSize, pos : 0 .. TxBufSize])
          /\ fetched \in Seq(Data)
      BY <1>1 DEF Init
    <2>4. /\ signalled \subseteq Writers
          /\ taskletPc \in {"idle", "callback", "led_off", "wake"}
          /\ txMapped \in Int /\ reported \in Nat /\ txLength \in 0 .. TxBufSize
          /\ signals \in 0 .. MaxSignals /\ faults \in 0 .. MaxFaults
      BY <1>2, <1>3 DEF Init
    <2>5. txQueued \in BOOLEAN /\ ledRed \in BOOLEAN
      BY DEF Init
    <2> QED BY <1>4, <2>1, <2>2, <2>3, <2>4, <2>5 DEF TxTypeOK
  <1>6. SentWasCopied
    BY <1>1, SMT DEF Init, SentWasCopied, At
  <1> QED BY <1>5, <1>6 DEF TxInv

LEMMA TxInvCall == ASSUME TxInv, NEW w \in Writers, Call(w) PROVE TxInv'
  <1>1. todo[w] \in Seq(Seq(Data)) /\ todo[w] # <<>>
    BY DEF TxInv, TxTypeOK, Call
  <1>2. Head(todo[w]) \in Seq(Data) /\ Tail(todo[w]) \in Seq(Seq(Data))
    BY <1>1, HeadTailProperties
  <1>3. TxTypeOK'
    BY <1>2, SMTT(30) DEF TxInv, TxTypeOK, Call, Goto, device, top, driver, bounds,
                DeviceTypeOK, TopTypeOK
  <1>4. SentWasCopied'
    BY DEF TxInv, TxTypeOK, SentWasCopied, Filled, Call, Goto, At, driver
  <1> QED BY <1>3, <1>4 DEF TxInv

LEMMA TxInvWaitEvent == ASSUME TxInv, NEW w \in Writers, WaitEvent(w) PROVE TxInv'
  <1>1. TxTypeOK'
    BY SMTT(30) DEF TxInv, TxTypeOK, WaitEvent, AfterWait, Asleep, At, Goto, device, top, driver,
           bounds, DeviceTypeOK, TopTypeOK
  <1>2. SentWasCopied'
    BY DEF TxInv, TxTypeOK, SentWasCopied, Filled, WaitEvent, AfterWait, Asleep, Goto, At,
           driver
  <1> QED BY <1>1, <1>2 DEF TxInv

\* What copy_from_user leaves in tx.buf.
CopyGives(w, n) ==
    /\ bytes' = [bytes EXCEPT ![w] = n]
    /\ n <= Len(user[w]) /\ (user[w] # <<>> => n # 0)
    /\ txBuf' \in [1 .. TxBufSize -> Data \cup {Junk}]
    /\ \A i \in 1 .. n : txBuf'[i] = user[w][i] /\ txBuf'[i] \in Data
    /\ \A i \in 1 .. TxBufSize : i \notin 1 .. n => txBuf'[i] = txBuf[i]

LEMMA CopyFills ==
    ASSUME TxInv, NEW w \in Writers, Copy(w)
    PROVE  \E n \in 0 .. TxBufSize : CopyGives(w, n)
  <1> DEFINE n == IF Len(user[w]) < TxBufSize THEN Len(user[w]) ELSE TxBufSize
  <1>1. user[w] \in Seq(Data) /\ txBuf \in [1 .. TxBufSize -> Data \cup {Junk}]
    BY DEF TxInv, TxTypeOK
  <1>2. Len(user[w]) \in Nat
    BY <1>1, LenProperties
  <1>3. /\ n \in 0 .. TxBufSize /\ n <= Len(user[w])
        /\ \A i \in 1 .. n : i \in 1 .. Len(user[w]) /\ i \in 1 .. TxBufSize
        /\ \A i \in 1 .. TxBufSize : i <= n <=> i \in 1 .. n
    BY <1>2, TxBufAssumption, SMT
  <1>4. user[w] # <<>> => n # 0
    <2>1. user[w] # <<>> => Len(user[w]) # 0
      BY <1>1, EmptySeq
    <2> QED BY <2>1, TxBufAssumption
  <1>5. /\ bytes' = [bytes EXCEPT ![w] = n]
        /\ txBuf' = [i \in 1 .. TxBufSize |-> IF i <= n THEN user[w][i] ELSE txBuf[i]]
    BY DEF Copy
  <1> HIDE DEF n
  <1>6. \A i \in 1 .. n : user[w][i] \in Data
    BY <1>1, <1>3, ElementOfSeq
  <1>7. CopyGives(w, n)
    BY <1>1, <1>3, <1>4, <1>5, <1>6 DEF CopyGives
  <1> QED BY <1>3, <1>7

\* A byte of tx.buf that a user wrote stays one.
LEMMA FilledStays ==
    ASSUME NEW n \in 0 .. TxBufSize, NEW m \in 0 .. TxBufSize,
           \A i \in 1 .. n : txBuf'[i] \in Data,
           \A i \in 1 .. TxBufSize : i \notin 1 .. n => txBuf'[i] = txBuf[i],
           Filled(m)
    PROVE  Filled(m)'
  <1> SUFFICES ASSUME NEW i \in 1 .. m PROVE txBuf'[i] \in Data
    BY DEF Filled
  <1>1. i \in 1 .. TxBufSize /\ txBuf[i] \in Data
    BY TxBufAssumption DEF Filled
  <1> QED BY <1>1

LEMMA TxInvCopy == ASSUME TxInv, NEW w \in Writers, Copy(w) PROVE TxInv'
  <1>1. PICK n \in 0 .. TxBufSize : CopyGives(w, n)
    BY CopyFills
  <1>2. TxTypeOK'
    <2>1. bytes' \in [Writers -> 0 .. TxBufSize]
          /\ txBuf' \in [1 .. TxBufSize -> Data \cup {Junk}]
      BY <1>1 DEF CopyGives, TxInv, TxTypeOK
    <2>2. wpc' \in [Writers -> {"idle", "wait", "asleep", "copy", "length", "prepare",
                                "led_on", "issue", "last_wait", "last_asleep", "return"}]
      BY DEF TxInv, TxTypeOK, Copy, Goto
    <2>3. DeviceTypeOK' /\ TopTypeOK'
      BY DEF TxInv, TxTypeOK, Copy, device, top, DeviceTypeOK, TopTypeOK
    <2> QED BY <2>1, <2>2, <2>3, SMTT(30) DEF TxInv, TxTypeOK, Copy, driver, bounds
  <1>3. \A m \in 0 .. TxBufSize : Filled(m) => Filled(m)'
    BY <1>1, FilledStays DEF CopyGives
  <1>4. Filled(n)'
    BY <1>1 DEF CopyGives, Filled
  <1>5. SentWasCopied'
    <2>1. /\ wpc' = [wpc EXCEPT ![w] = "length"] /\ bytes' = [bytes EXCEPT ![w] = n]
          /\ UNCHANGED <<txLength, chunk, transfers>>
      BY <1>1 DEF CopyGives, Copy, Goto, driver
    <2>2. /\ \A v \in Writers : bytes[v] \in 0 .. TxBufSize /\ chunk[v] \in 0 .. TxBufSize
          /\ txLength \in 0 .. TxBufSize /\ DOMAIN wpc = Writers /\ DOMAIN bytes = Writers
      BY DEF TxInv, TxTypeOK
    <2>3. \A k \in 1 .. Len(transfers) : transfers[k].len \in 0 .. TxBufSize
      BY TransferFields DEF TxInv, TxTypeOK
    <2> QED BY <1>3, <1>4, <2>1, <2>2, <2>3 DEF TxInv, SentWasCopied, At
  <1> QED BY <1>2, <1>5 DEF TxInv

LEMMA TxInvSetLength == ASSUME TxInv, NEW w \in Writers, SetLength(w) PROVE TxInv'
  <1>1. TxTypeOK'
    BY SMTT(30) DEF TxInv, TxTypeOK, SetLength, Goto, device, top, bounds, DeviceTypeOK, TopTypeOK
  <1>2. SentWasCopied'
    BY DEF TxInv, TxTypeOK, SentWasCopied, Filled, SetLength, Goto, At
  <1> QED BY <1>1, <1>2 DEF TxInv

LEMMA TxInvPrepare ==
    ASSUME TxInv, NEW w \in Writers, Prepare(w) \/ PrepareFails(w)
    PROVE  TxInv'
  <1>1. TxTypeOK'
    <2>1. CASE Prepare(w)
      BY <2>1, SMTT(30) DEF TxInv, TxTypeOK, Prepare, Goto, device, top, bounds,
                  DeviceTypeOK, TopTypeOK
    <2>2. CASE PrepareFails(w)
      <3>1. <<>> \in Seq(Data)
        BY EmptySeq
      <3>2. faults' \in 0 .. MaxFaults
        BY <2>2, TxBoundsAssumption DEF TxInv, TxTypeOK, PrepareFails
      <3> QED BY <2>2, <3>1, <3>2 DEF TxInv, TxTypeOK, PrepareFails, Goto, device, top,
                                      driver, DeviceTypeOK, TopTypeOK
    <2> QED BY <2>1, <2>2
  <1>2. SentWasCopied'
    BY DEF TxInv, TxTypeOK, SentWasCopied, Filled, Prepare, PrepareFails, Goto, At, driver
  <1> QED BY <1>1, <1>2 DEF TxInv

LEMMA TxInvLedOn == ASSUME TxInv, NEW w \in Writers, LedOn(w) PROVE TxInv'
  <1>1. TxTypeOK'
    BY SMTT(30) DEF TxInv, TxTypeOK, LedOn, Goto, device, top, bounds, DeviceTypeOK, TopTypeOK
  <1>2. SentWasCopied'
    BY DEF TxInv, TxTypeOK, SentWasCopied, Filled, LedOn, Goto, At
  <1> QED BY <1>1, <1>2 DEF TxInv

Transfers == [len : 0 .. TxBufSize, pos : 0 .. TxBufSize]

LEMMA TxInvIssue == ASSUME TxInv, NEW w \in Writers, Issue(w) PROVE TxInv'
  <1> DEFINE new == [len |-> chunk[w], pos |-> 0]
  <1>1. /\ user[w] \in Seq(Data) /\ bytes[w] \in Nat /\ chunk[w] \in 0 .. TxBufSize
        /\ transfers \in Seq(Transfers)
        /\ transfers' = Append(transfers, new)
        /\ user' = [user EXCEPT ![w] = SubSeq(user[w], bytes[w] + 1, Len(user[w]))]
    BY DEF TxInv, TxTypeOK, Transfers, Issue
  <1>2. new \in Transfers /\ new.len = chunk[w] /\ new.pos = 0
    BY <1>1, TxBufAssumption DEF Transfers
  <1> HIDE DEF new
  <1>3. /\ transfers' \in Seq(Transfers) /\ Len(transfers') = Len(transfers) + 1
        /\ \A i \in 1 .. Len(transfers) : transfers'[i] = transfers[i]
        /\ transfers'[Len(transfers) + 1] = new
    BY <1>1, <1>2, AppendProperties
  <1>4. SubSeq(user[w], bytes[w] + 1, Len(user[w])) \in Seq(Data)
    <2>1. Len(user[w]) \in Nat
      BY <1>1, LenProperties
    <2>2. bytes[w] + 1 \in Int /\ Len(user[w]) \in Int
          /\ \A i \in bytes[w] + 1 .. Len(user[w]) : i \in 1 .. Len(user[w])
      BY <1>1, <2>1
    <2> QED BY <1>1, <2>2, ElementOfSeq, SubSeqProperties
  <1>5. TxTypeOK'
    <2>1. written' \in [Writers -> Nat]
      BY <1>1 DEF TxInv, TxTypeOK, Issue
    <2> QED BY <1>1, <1>3, <1>4, <2>1
            DEF TxInv, TxTypeOK, Transfers, Issue, Goto, device, top, driver, bounds,
        DeviceTypeOK, TopTypeOK
  <1>6. SentWasCopied'
    <2>1. \A v \in Writers : wpc'[v] \notin {"length", "prepare", "led_on", "issue"}
                               \/ wpc'[v] = wpc[v]
      BY DEF TxInv, TxTypeOK, Issue, Goto
    <2>2. Filled(chunk[w]) /\ 0 <= chunk[w]
      BY <1>1 DEF TxInv, SentWasCopied, Issue
    <2>3. Len(transfers) \in Nat
      BY <1>1, LenProperties
    <2>4. \A k \in 1 .. Len(transfers') : k \in 1 .. Len(transfers) \/ k = Len(transfers) + 1
      BY <1>3, <2>3
    <2>5. \A m : Filled(m)' <=> Filled(m)
      BY DEF Issue, Filled
    <2> QED BY <1>2, <1>3, <2>1, <2>2, <2>4, <2>5
            DEF TxInv, SentWasCopied, Issue, At, driver
  <1> QED BY <1>5, <1>6 DEF TxInv

LEMMA TxInvReturn ==
    ASSUME TxInv, NEW w \in Writers, Return(w) \/ Signal(w)
    PROVE  TxInv'
  <1>1. TxTypeOK'
    <2>1. CASE Return(w)
      <3>1. reported' \in Nat
        BY <2>1 DEF TxInv, TxTypeOK, Return
      <3> QED BY <2>1, <3>1 DEF TxInv, TxTypeOK, Return, Goto, device, top, driver, bounds,
                  DeviceTypeOK, TopTypeOK
    <2>2. CASE Signal(w)
      <3>1. signals' \in 0 .. MaxSignals
        BY <2>2, TxBoundsAssumption DEF TxInv, TxTypeOK, Signal
      <3> QED BY <2>2, <3>1 DEF TxInv, TxTypeOK, Signal, device, top, driver,
                                DeviceTypeOK, TopTypeOK
    <2> QED BY <2>1, <2>2
  <1>2. SentWasCopied'
    BY DEF TxInv, TxTypeOK, SentWasCopied, Filled, Return, Signal, Goto, At, driver
  <1> QED BY <1>1, <1>2 DEF TxInv

\* The byte that the DMA controller is about to move has been copied.
LEMMA MovedByte ==
    ASSUME TxInv, MoveByte
    PROVE  /\ transfers[1] \in Transfers /\ 1 \in 1 .. Len(transfers)
           /\ transfers[1].pos + 1 \in 1 .. transfers[1].len
           /\ transfers[1].len \in 1 .. TxBufSize
           /\ txBuf[transfers[1].pos + 1] \in Data
  <1>1. transfers \in Seq(Transfers) /\ transfers # <<>>
    BY DEF TxInv, TxTypeOK, Transfers, MoveByte
  <1>2. 1 \in 1 .. Len(transfers)
    BY <1>1, EmptySeq, SMT
  <1>3. /\ transfers[1] \in Transfers /\ transfers[1].pos < transfers[1].len
        /\ Filled(transfers[1].len)
    BY <1>1, <1>2, ElementOfSeq DEF TxInv, SentWasCopied, MoveByte
  <1>4. transfers[1].pos + 1 \in 1 .. transfers[1].len /\ transfers[1].len \in 1 .. TxBufSize
    BY <1>3, TxBufAssumption DEF Transfers
  <1> QED BY <1>2, <1>3, <1>4 DEF Filled

LEMMA TxInvMoveByte == ASSUME TxInv, MoveByte PROVE TxInv'
  <1> DEFINE first == transfers[1]
             moved == [first EXCEPT !.pos = @ + 1]
  <1>1. transfers \in Seq(Transfers) /\ transfers # <<>> /\ DeviceTypeOK
    BY DEF TxInv, TxTypeOK, Transfers, MoveByte
  <1>2. 1 \in 1 .. Len(transfers)
    BY <1>1, EmptySeq, SMT
  <1>3. /\ first \in Transfers /\ first.pos < first.len /\ Filled(first.len)
        /\ transfers' = [transfers EXCEPT ![1] = moved]
    BY <1>1, <1>2, ElementOfSeq DEF TxInv, SentWasCopied, MoveByte
  <1>4. first.pos + 1 \in 1 .. first.len /\ first.pos + 1 \in 0 .. TxBufSize
    BY <1>3, TxBufAssumption DEF Transfers
  <1>5. /\ moved \in Transfers /\ moved.pos <= moved.len /\ moved.len = first.len
    BY <1>3, <1>4 DEF Transfers
  <1>6. txBuf[first.pos + 1] \in Data
    BY <1>3, <1>4 DEF Filled
  <1>7. DeviceTypeOK'
    BY <1>1, <1>6, WriteDRType DEF MoveByte
  <1> HIDE DEF moved, first
  <1>8. /\ transfers' \in Seq(Transfers) /\ Len(transfers') = Len(transfers)
        /\ \A j \in 1 .. Len(transfers) : transfers'[j] = IF j = 1 THEN moved ELSE transfers[j]
    BY <1>1, <1>2, <1>3, <1>5, ExceptSeq
  <1>9. TxTypeOK'
    BY <1>7, <1>8
    DEF TxInv, TxTypeOK, Transfers, MoveByte, top, writer, driver, bounds, TopTypeOK
  <1>10. SentWasCopied'
    BY <1>3, <1>5, <1>8 DEF TxInv, SentWasCopied, MoveByte, Filled, At, writer, driver
  <1> QED BY <1>9, <1>10 DEF TxInv

LEMMA TxInvComplete == ASSUME TxInv, CompleteTransfer PROVE TxInv'
  <1>1. transfers \in Seq(Transfers) /\ transfers # <<>> /\ transfers' = Tail(transfers)
    BY DEF TxInv, TxTypeOK, Transfers, CompleteTransfer
  <1>2. /\ transfers' \in Seq(Transfers) /\ Len(transfers') = Len(transfers) - 1
        /\ \A i \in 1 .. Len(transfers') : transfers'[i] = transfers[i + 1]
    BY <1>1, HeadTailProperties
  <1>3. \A i \in 1 .. Len(transfers') : i + 1 \in 1 .. Len(transfers)
    BY <1>1, <1>2, LenProperties
  <1>4. TxTypeOK'
    BY <1>2, SMTT(30) DEF TxInv, TxTypeOK, Transfers, CompleteTransfer, device, top, writer, driver,
                bounds, DeviceTypeOK, TopTypeOK
  <1>5. SentWasCopied'
    BY <1>2, <1>3 DEF TxInv, SentWasCopied, CompleteTransfer, Filled, At, writer, driver
  <1> QED BY <1>4, <1>5 DEF TxInv

LEMMA TxInvCallback ==
    ASSUME TxInv, CallbackClear \/ CallbackLed \/ CallbackWake
    PROVE  TxInv'
  <1>1. TxTypeOK'
    <2>1. CASE CallbackClear
      <3>1. txMapped' \in Int
        BY <2>1 DEF TxInv, TxTypeOK, CallbackClear
      <3>2. txQueued' \in BOOLEAN
        BY <2>1 DEF CallbackClear
      <3> QED BY <2>1, <3>1, <3>2
              DEF TxInv, TxTypeOK, CallbackClear, device, top, writer, bounds,
                  DeviceTypeOK, TopTypeOK
    <2>2. CASE CallbackLed
      BY <2>2 DEF TxInv, TxTypeOK, CallbackLed, device, top, writer, bounds,
                  DeviceTypeOK, TopTypeOK
    <2>3. CASE CallbackWake
      BY <2>3 DEF TxInv, TxTypeOK, CallbackWake, device, top, driver, bounds,
                  DeviceTypeOK, TopTypeOK
    <2> QED BY <2>1, <2>2, <2>3
  <1>2. SentWasCopied'
    BY DEF TxInv, TxTypeOK, SentWasCopied, Filled, CallbackClear, CallbackLed, CallbackWake,
           At, writer, driver
  <1> QED BY <1>1, <1>2 DEF TxInv

LEMMA TxInvOutside == ASSUME TxInv, HostFetches \/ Interrupt PROVE TxInv'
  <1>1. TxTypeOK'
    <2>1. CASE HostFetches
      <3>1. DeviceTypeOK'
        BY <2>1, GetDataType DEF TxInv, TxTypeOK, HostFetches
      <3>2. fetched' \in Seq(Data)
        BY <2>1, ConcatProperties DEF TxInv, TxTypeOK, DeviceTypeOK, HostFetches
      <3> QED BY <2>1, <3>1, <3>2 DEF TxInv, TxTypeOK, HostFetches, top, writer, driver,
                                      bounds, TopTypeOK
    <2>2. CASE Interrupt
      <3>1. DeviceTypeOK' /\ TopTypeOK'
        BY <2>2, InterruptType DEF TxInv, TxTypeOK, Interrupt
      <3> QED BY <2>2, <3>1 DEF TxInv, TxTypeOK, Interrupt, writer, driver, bounds
    <2> QED BY <2>1, <2>2
  <1>2. SentWasCopied'
    BY DEF TxInv, SentWasCopied, Filled, HostFetches, Interrupt, At, writer, driver
  <1> QED BY <1>1, <1>2 DEF TxInv

LEMMA TxInvNext == TxInv /\ [Next]_vars => TxInv'
  <1> SUFFICES ASSUME TxInv, [Next]_vars PROVE TxInv'
    OBVIOUS
  <1>1. ASSUME NEW w \in Writers, WriterStep(w) \/ PrepareFails(w) \/ Signal(w)
        PROVE  TxInv'
    BY <1>1, TxInvCall, TxInvWaitEvent, TxInvCopy, TxInvSetLength, TxInvPrepare,
       TxInvLedOn, TxInvIssue, TxInvReturn DEF WriterStep
  <1>2. CASE MoveByte
    BY <1>2, TxInvMoveByte
  <1>3. CASE TaskletStep
    BY <1>3, TxInvComplete, TxInvCallback DEF TaskletStep
  <1>4. CASE HostFetches \/ Interrupt
    BY <1>4, TxInvOutside
  <1>5. CASE UNCHANGED vars
    BY <1>5 DEF vars, TxInv, TxTypeOK, SentWasCopied, Filled, At, device, top, writer,
                driver, bounds, DeviceTypeOK, TopTypeOK
  <1> QED BY <1>1, <1>2, <1>3, <1>4, <1>5 DEF Next

LEMMA TxInvCorrect == Spec => []TxInv
  BY TxInvInit, TxInvNext, PTL DEF Spec

\* No register, buffer, length or counter of the transmit path leaves its
\* type, and no byte reaches the device that no user wrote: comento_mmio_write
\* and its callback, with any number of writers, signals and failures.
THEOREM TxTypeCorrect == Spec => []TxTypeOK
  <1>1. TxInv => TxTypeOK
    BY DEF TxInv
  <1> QED BY <1>1, TxInvCorrect, PTL
-----------------------------------------------------------------------------
(* A single writer w that no signal disturbs: the phases of its write()    *)
(* keep those of the DMA out.                                              *)

\* The mapping and the LED follow tx.queued; nobody touches tx.buf or
\* prepares a transfer while one is queued.
InTurn(w) ==
    /\ signals = 0 /\ signalled = {}
    /\ wpc[w] \in {"led_on", "issue"} => txQueued /\ transfers = <<>>
                                           /\ taskletPc # "callback"
    /\ wpc[w] \in {"idle", "copy", "length", "prepare", "return"} => ~txQueued
    /\ transfers # <<>> => txQueued /\ Len(transfers) = 1 /\ taskletPc # "callback"
    /\ taskletPc = "callback" => txQueued
    /\ txMapped = IF txQueued THEN 1 ELSE 0
    /\ ledRed => txQueued \/ taskletPc = "led_off"

LEMMA InTurnInit ==
    ASSUME NEW w, Writers = {w}, MaxSignals = 0, Init
    PROVE  InTurn(w)
  BY DEF Init, InTurn

LEMMA InTurnNext ==
    ASSUME NEW w, Writers = {w}, TxInv, InTurn(w), [Next]_vars
    PROVE  InTurn(w)'
  <1>1. /\ w \in Writers /\ DOMAIN wpc = Writers
        /\ txQueued \in BOOLEAN /\ transfers \in Seq(Transfers)
    BY DEF TxInv, TxTypeOK, Transfers
  <1>2. CASE Call(w) \/ Copy(w) \/ SetLength(w) \/ PrepareFails(w) \/ Return(w)
    BY <1>1, <1>2 DEF InTurn, Call, Copy, SetLength, PrepareFails, Return, Goto, At,
                      driver, bounds
  <1>3. CASE WaitEvent(w)
    BY <1>1, <1>3 DEF InTurn, WaitEvent, AfterWait, Asleep, Goto, At, driver, bounds
  <1>4. CASE Prepare(w) \/ LedOn(w)
    BY <1>1, <1>4 DEF InTurn, Prepare, LedOn, Goto, At, bounds
  <1>5. CASE Issue(w)
    <2>1. transfers = <<>> /\ txQueued /\ taskletPc # "callback"
      BY <1>5 DEF InTurn, Issue, At
    <2>2. [len |-> chunk[w], pos |-> 0] \in Transfers
      BY <1>1, TxBufAssumption DEF TxInv, TxTypeOK, Transfers
    <2>3. Len(transfers') = 1
      BY <1>1, <1>5, <2>1, <2>2, AppendProperties, EmptySeq DEF Issue
    <2> QED BY <1>1, <1>5, <2>1, <2>3 DEF InTurn, Issue, Goto, At, driver, bounds
  <1>6. CASE MoveByte
    <2>1. Len(transfers') = Len(transfers) /\ transfers # <<>>
      <3>1. 1 \in 1 .. Len(transfers)
        BY <1>1, <1>6, EmptySeq, SMT DEF MoveByte
      <3>2. /\ transfers[1] \in Transfers
            /\ transfers' = [transfers EXCEPT ![1] = [transfers[1] EXCEPT !.pos = @ + 1]]
        BY <1>1, <1>6, <3>1, ElementOfSeq DEF MoveByte
      <3> QED BY <1>1, <1>6, <3>1, <3>2 DEF MoveByte
    <2> QED BY <1>6, <2>1 DEF InTurn, MoveByte, writer, driver, bounds
  <1>7. CASE CompleteTransfer
    <2>1. transfers # <<>> /\ Len(transfers) = 1
      BY <1>7 DEF InTurn, CompleteTransfer
    <2>2. transfers' \in Seq(Transfers) /\ Len(transfers') = 0
      BY <1>1, <1>7, <2>1, HeadTailProperties DEF CompleteTransfer
    <2>3. transfers' = <<>>
      BY <2>2, EmptySeq
    <2> QED BY <1>7, <2>1, <2>3 DEF InTurn, CompleteTransfer, writer, driver, bounds
  <1>8. CASE CallbackClear \/ CallbackLed
    BY <1>8 DEF InTurn, CallbackClear, CallbackLed, writer, bounds
  <1>9. CASE CallbackWake
    BY <1>1, <1>9 DEF InTurn, CallbackWake, driver, bounds
  <1>10. CASE HostFetches \/ Interrupt \/ UNCHANGED vars
    BY <1>10 DEF InTurn, HostFetches, Interrupt, vars, writer, driver, bounds
  <1>11. ~Signal(w)
    BY DEF Signal, InTurn
  <1> QED BY <1>1, <1>2, <1>3, <1>4, <1>5, <1>6, <1>7, <1>8, <1>9, <1>10, <1>11
          DEF Next, WriterStep, TaskletStep

LEMMA InTurnCorrect ==
    ASSUME NEW w, Writers = {w}, MaxSignals = 0
    PROVE  Spec => [](TxInv /\ InTurn(w))
  <1>1. Init => InTurn(w)
    BY InTurnInit
  <1>2. TxInv /\ InTurn(w) /\ [Next]_vars => InTurn(w)'
    BY InTurnNext
  <1> QED BY <1>1, <1>2, TxInvCorrect, PTL DEF Spec

\* One transfer at a time, its buffer mapped once and only while the driver
\* knows of it, and nothing left behind: comento_mmio_write with a single
\* writer and no signals, whatever fails.
THEOREM OneTransferCorrect ==
    ASSUME NEW w, Writers = {w}, MaxSignals = 0
    PROVE  Spec => []OneTransferAtATime
  <1>1. TxInv /\ InTurn(w) => OneTransferAtATime
    <2> SUFFICES ASSUME TxInv, InTurn(w) PROVE OneTransferAtATime
      OBVIOUS
    <2>1. Len(transfers) <= 1
      <3>1. CASE transfers = <<>>
        BY <3>1, EmptySeq
      <3>2. CASE transfers # <<>>
        <4>1. Len(transfers) = 1
          BY <3>2 DEF InTurn
        <4> QED BY <4>1, SMT
      <3> QED BY <3>1, <3>2
    <2>2. transfers # <<>> => txQueued /\ txMapped = 1
      BY DEF InTurn
    <2>3. (\A v \in Writers : At(v, "idle")) /\ taskletPc = "idle"
            => ~txQueued /\ txMapped = 0 /\ ~ledRed
      BY DEF InTurn, At
    <2> QED BY <2>1, <2>2, <2>3 DEF OneTransferAtATime
  <1> QED BY <1>1, InTurnCorrect, PTL

\* What the comment above the wait in comento_mmio_write says: tx.buf is
\* not overwritten before the transfer has ended.  It does so when there is
\* one writer and no signal; the run tx_two_writers shows that two are too many.
THEOREM WaitsForDmaCorrect ==
    ASSUME NEW w, Writers = {w}, MaxSignals = 0
    PROVE  Spec => WaitsForDma
  <1>1. TxInv /\ InTurn(w) /\ [Next]_vars => [txBuf' # txBuf => transfers = <<>>]_vars
    <2> SUFFICES ASSUME InTurn(w), Next, txBuf' # txBuf PROVE transfers = <<>>
      BY DEF vars
    <2>1. Copy(w)
      BY DEF Next, WriterStep, TaskletStep, Call, WaitEvent, SetLength, Prepare,
             PrepareFails, LedOn, Issue, Return, Signal, MoveByte, CompleteTransfer,
             CallbackClear, CallbackLed, CallbackWake, HostFetches, Interrupt
    <2> QED BY <2>1 DEF InTurn, Copy, At
  <1> QED BY <1>1, InTurnCorrect, PTL DEF Spec, WaitsForDma
-----------------------------------------------------------------------------
(* The byte stream: the user's bytes that are not in the device yet are    *)
(* those in the transfer followed by those the writer has still to copy.   *)

D == Data \cup {Junk}

\* The chunk that is being prepared is the beginning of what is left.
ChunkIsNext(w) ==
    /\ bytes[w] # 0 /\ bytes[w] <= Len(user[w])
    /\ \A i \in 1 .. bytes[w] : txBuf[i] = user[w][i]

\* What the writer has in hand in each phase of its write().
InHand(w) ==
    /\ FifoFacts
    /\ wpc[w] \in {"idle", "last_wait", "last_asleep", "return"} => user[w] = <<>>
    /\ wpc[w] \in {"wait", "asleep", "copy", "length", "prepare", "led_on", "issue"}
         => user[w] # <<>>
    /\ wpc[w] \in {"length", "prepare", "led_on", "issue"} => ChunkIsNext(w)
    /\ wpc[w] = "prepare" => txLength = bytes[w]
    /\ wpc[w] \in {"led_on", "issue"} => chunk[w] = bytes[w]
    /\ \A i \in 1 .. Len(todo[w]) : todo[w][i] \in {Script[w][j] : j \in DOMAIN Script[w]}

StreamInv(w) == TxInv /\ InTurn(w) /\ InHand(w)

\* The device's part of a step, for the steps that leave the device alone.
LEMMA FactsStay == ASSUME FifoFacts, UNCHANGED device PROVE FifoFacts'
  BY DEF device, FifoFacts, FlagsTellFifos, BusyLinesThrottle, IsEmpty, IsFull

LEMMA TopInitFacts == TopInit => FifoFacts
  BY EmptyIsNotFull DEF TopInit, FifoFacts, FlagsTellFifos, BusyLinesThrottle, IsEmpty

LEMMA InHandInit == ASSUME NEW w \in Writers, Init PROVE InHand(w)
  <1>1. Script[w] \in Seq(Seq(Data)) /\ DOMAIN Script[w] = 1 .. Len(Script[w])
    BY ScriptAssumption, LenProperties
  <1>2. FifoFacts
    BY TopInitFacts DEF Init
  <1> QED BY <1>1, <1>2 DEF Init, InHand

LEMMA InHandNext ==
    ASSUME NEW w, Writers = {w}, StreamInv(w), [Next]_vars
    PROVE  InHand(w)'
  <1>1. /\ w \in Writers /\ DOMAIN wpc = Writers /\ DOMAIN todo = Writers
        /\ DOMAIN user = Writers /\ DOMAIN bytes = Writers /\ DOMAIN chunk = Writers
        /\ user[w] \in Seq(Data) /\ bytes[w] \in Nat
    BY DEF StreamInv, TxInv, TxTypeOK
  <1>2. CASE Call(w)
    <2>1. /\ todo[w] \in Seq(Seq(Data)) /\ todo[w] # <<>>
      BY <1>2 DEF StreamInv, TxInv, TxTypeOK, Call
    <2>2. /\ Len(Tail(todo[w])) = Len(todo[w]) - 1 /\ Len(todo[w]) \in Nat
          /\ \A i \in 1 .. Len(Tail(todo[w])) : Tail(todo[w])[i] = todo[w][i + 1]
      BY <2>1, HeadTailProperties, LenProperties
    <2>3. \A i \in 1 .. Len(Tail(todo[w])) : i + 1 \in 1 .. Len(todo[w])
      BY <2>2
    <2>4. todo'[w] = Tail(todo[w]) /\ user'[w] = Head(todo[w])
          /\ wpc'[w] = IF Head(todo[w]) = <<>> THEN "last_wait" ELSE "wait"
      BY <1>1, <1>2 DEF Call, Goto
    <2>5. FifoFacts'
      BY <1>2, FactsStay DEF StreamInv, InHand, Call
    <2> QED BY <2>2, <2>3, <2>4, <2>5 DEF StreamInv, InHand
  <1>3. CASE WaitEvent(w)
    <2>1. FifoFacts'
      BY <1>3, FactsStay DEF StreamInv, InHand, WaitEvent
    <2> QED BY <1>1, <1>3, <2>1 DEF StreamInv, InHand, WaitEvent, AfterWait, Asleep, Goto, At
  <1>4. CASE Copy(w)
    <2>1. PICK n \in 0 .. TxBufSize : CopyGives(w, n)
      BY <1>1, <1>4, CopyFills DEF StreamInv
    <2>2. FifoFacts'
      BY <1>4, FactsStay DEF StreamInv, InHand, Copy
    <2> QED BY <1>1, <1>4, <2>1, <2>2
            DEF StreamInv, InHand, ChunkIsNext, CopyGives, Copy, Goto, At
  <1>5. CASE SetLength(w) \/ Prepare(w) \/ LedOn(w)
    <2>1. FifoFacts'
      BY <1>5, FactsStay DEF StreamInv, InHand, SetLength, Prepare, LedOn
    <2> QED BY <1>1, <1>5, <2>1
            DEF StreamInv, InHand, ChunkIsNext, SetLength, Prepare, LedOn, Goto, At
  <1>6. CASE PrepareFails(w)
    <2>1. FifoFacts'
      BY <1>6, FactsStay DEF StreamInv, InHand, PrepareFails
    <2> QED BY <1>1, <1>6, <2>1 DEF StreamInv, InHand, PrepareFails, Goto, At
  <1>7. CASE Issue(w)
    <2>1. FifoFacts'
      BY <1>7, FactsStay DEF StreamInv, InHand, Issue
    <2> QED BY <1>1, <1>7, <2>1 DEF StreamInv, InHand, Issue, Goto, At
  <1>8. CASE Return(w)
    <2>1. FifoFacts'
      BY <1>8, FactsStay DEF StreamInv, InHand, Return
    <2> QED BY <1>1, <1>8, <2>1 DEF StreamInv, InHand, Return, Goto, At
  <1>9. CASE MoveByte
    <2>1. txBuf[transfers[1].pos + 1] \in Data
      BY <1>9, MovedByte DEF StreamInv
    <2>2. FifoFacts'
      BY <1>9, <2>1, WriteDRFacts DEF StreamInv, TxInv, TxTypeOK, InHand, MoveByte
    <2> QED BY <1>9, <2>2 DEF StreamInv, InHand, ChunkIsNext, MoveByte, writer, driver
  <1>10. CASE TaskletStep \/ UNCHANGED vars
    <2>1. FifoFacts'
      BY <1>10, FactsStay DEF StreamInv, InHand, TaskletStep, CompleteTransfer,
           CallbackClear, CallbackLed, CallbackWake, vars
    <2> QED BY <1>1, <1>10, <2>1
            DEF StreamInv, InHand, ChunkIsNext, TaskletStep, CompleteTransfer,
                CallbackClear, CallbackLed, CallbackWake, vars, writer, driver
  <1>11. CASE HostFetches \/ Interrupt
    <2>1. FifoFacts'
      BY <1>11, GetDataFacts, InterruptFacts DEF StreamInv, InHand, HostFetches, Interrupt
    <2> QED BY <1>11, <2>1
            DEF StreamInv, InHand, ChunkIsNext, HostFetches, Interrupt, writer, driver
  <1>12. ~Signal(w)
    BY DEF Signal, StreamInv, InTurn
  <1> QED BY <1>1, <1>2, <1>3, <1>4, <1>5, <1>6, <1>7, <1>8, <1>9, <1>10, <1>11, <1>12
          DEF Next, WriterStep

LEMMA StreamInvCorrect ==
    ASSUME NEW w, Writers = {w}, MaxSignals = 0
    PROVE  Spec => []StreamInv(w)
  <1>1. Init => InHand(w)
    BY InHandInit
  <1>2. TxInv /\ InTurn(w) /\ InHand(w) /\ [Next]_vars => InHand(w)'
    BY InHandNext DEF StreamInv
  <1>3. TxInv /\ InTurn(w) /\ InHand(w) => StreamInv(w)
    BY DEF StreamInv
  <1> QED BY <1>1, <1>2, <1>3, InTurnCorrect, PTL DEF Spec
-----------------------------------------------------------------------------
(* Each step of the code is a step of the stream or leaves it alone.       *)

LEMMA TheWriterIs == ASSUME NEW w, Writers = {w} PROVE TheWriter = w
  BY DEF TheWriter

LEMMA HeadOfConcat ==
    ASSUME NEW S, NEW s \in Seq(S), NEW t \in Seq(S), s # <<>>
    PROVE  /\ s \o t # <<>>
           /\ Head(s \o t) = s[1]
           /\ Tail(s \o t) = Tail(s) \o t
  <1>1. Len(s) \in Nat \ {0} /\ Len(t) \in Nat
    BY EmptySeq, LenProperties
  <1>2. /\ s \o t \in Seq(S) /\ Len(s \o t) = Len(s) + Len(t)
        /\ \A i \in 1 .. Len(s) + Len(t) :
             (s \o t)[i] = IF i <= Len(s) THEN s[i] ELSE t[i - Len(s)]
    BY ConcatProperties
  <1>3. s \o t # <<>>
    BY <1>1, <1>2, EmptySeq
  <1>4. Head(s \o t) = s[1]
    BY <1>1, <1>2, <1>3
  <1>5. /\ Tail(s) \in Seq(S) /\ Len(Tail(s)) = Len(s) - 1
        /\ \A i \in 1 .. Len(Tail(s)) : Tail(s)[i] = s[i + 1]
    BY HeadTailProperties
  <1>6. /\ Tail(s \o t) \in Seq(S) /\ Len(Tail(s \o t)) = Len(s) + Len(t) - 1
        /\ \A i \in 1 .. Len(s) + Len(t) - 1 : Tail(s \o t)[i] = (s \o t)[i + 1]
    BY <1>2, <1>3, HeadTailProperties
  <1>7. /\ Tail(s) \o t \in Seq(S) /\ Len(Tail(s) \o t) = Len(s) - 1 + Len(t)
        /\ \A i \in 1 .. Len(s) - 1 + Len(t) :
             (Tail(s) \o t)[i] = IF i <= Len(s) - 1 THEN Tail(s)[i] ELSE t[i - (Len(s) - 1)]
    BY <1>5, ConcatProperties
  <1>8. ASSUME NEW i \in 1 .. Len(s) + Len(t) - 1
        PROVE  Tail(s \o t)[i] = (Tail(s) \o t)[i]
    <2>1. i + 1 \in 1 .. Len(s) + Len(t) /\ i \in 1 .. Len(s) - 1 + Len(t)
          /\ (i <= Len(s) - 1 <=> i + 1 <= Len(s))
          /\ i - (Len(s) - 1) = i + 1 - Len(s)
          /\ (i <= Len(s) - 1 => i \in 1 .. Len(s) - 1)
      BY <1>1
    <2> QED BY <1>2, <1>5, <1>6, <1>7, <2>1
  <1>9. Len(Tail(s \o t)) = Len(Tail(s) \o t)
    BY <1>1, <1>6, <1>7
  <1>10. Tail(s \o t) = Tail(s) \o t
    BY <1>6, <1>7, <1>8, <1>9, SeqEqual
  <1> QED BY <1>3, <1>4, <1>10

LEMMA PartOfBuffer ==
    ASSUME NEW n \in Nat, NEW p \in Nat, p <= n, Filled(n)
    PROVE  /\ SubSeq(txBuf, p + 1, n) \in Seq(Data)
           /\ Len(SubSeq(txBuf, p + 1, n)) = n - p
           /\ \A i \in 1 .. n - p : SubSeq(txBuf, p + 1, n)[i] = txBuf[p + i]
  <1>1. p + 1 \in Int /\ n \in Int /\ \A i \in p + 1 .. n : i \in 1 .. n
    OBVIOUS
  <1>2. \A i \in p + 1 .. n : txBuf[i] \in Data
    BY <1>1 DEF Filled
  <1>3. /\ SubSeq(txBuf, p + 1, n) \in Seq(Data)
        /\ Len(SubSeq(txBuf, p + 1, n)) = IF p + 1 <= n THEN n - (p + 1) + 1 ELSE 0
        /\ \A i \in 1 .. n - (p + 1) + 1 : SubSeq(txBuf, p + 1, n)[i] = txBuf[p + 1 + i - 1]
    BY <1>1, <1>2, SubSeqProperties
  <1>4. (IF p + 1 <= n THEN n - (p + 1) + 1 ELSE 0) = n - p /\ n - (p + 1) + 1 = n - p
        /\ \A i \in 1 .. n - p : p + 1 + i - 1 = p + i
    OBVIOUS
  <1> QED BY <1>3, <1>4

\* What the transfer has still to move.
LEMMA TransferBytes ==
    ASSUME TxInv, transfers # <<>>
    PROVE  /\ InTransfer \in Seq(Data)
           /\ Len(InTransfer) = transfers[1].len - transfers[1].pos
           /\ \A i \in 1 .. Len(InTransfer) : InTransfer[i] = txBuf[transfers[1].pos + i]
  <1>1. transfers \in Seq(Transfers)
    BY DEF TxInv, TxTypeOK, Transfers
  <1>2. 1 \in 1 .. Len(transfers)
    BY <1>1, EmptySeq, SMT
  <1>3. /\ transfers[1].len \in 0 .. TxBufSize /\ transfers[1].pos \in 0 .. TxBufSize
        /\ transfers[1].pos <= transfers[1].len /\ Filled(transfers[1].len)
    BY <1>1, <1>2, TransferFields DEF TxInv, SentWasCopied, Transfers
  <1>4. transfers[1].len \in Nat /\ transfers[1].pos \in Nat
    BY <1>3, TxBufAssumption
  <1>5. InTransfer = SubSeq(txBuf, transfers[1].pos + 1, transfers[1].len)
    BY DEF InTransfer
  <1> QED BY <1>3, <1>4, <1>5, PartOfBuffer

LEMMA NoTransfer == ASSUME transfers = <<>> PROVE InTransfer = <<>> /\ Len(InTransfer) = 0
  BY EmptySeq DEF InTransfer

\* What is left of the write, and how much of it is out.
Left(w) == InTransfer \o user[w]
Out(w)  == IF At(w, "idle") THEN 0 ELSE written[w] - Len(InTransfer)

LEMMA StreamStutters ==
    ASSUME NEW w, Writers = {w}, UNCHANGED <<Left(w), Out(w), txFifo, fetched, reported, faults>>,
           At(w, "idle")' <=> At(w, "idle"), TxInv
    PROVE  UNCHANGED Stream!vars
  <1>1. TheWriter = w
    BY TheWriterIs
  <1>2. (~At(w, "idle"))' = ~At(w, "idle")
    BY DEF At
  <1> QED BY <1>1, <1>2 DEF Stream!vars, Left, Out

\* The steps of the writer and the callback that move no byte.
LEMMA QuietSteps ==
    ASSUME NEW w, Writers = {w}, StreamInv(w),
           \/ WaitEvent(w) \/ SetLength(w) \/ Prepare(w) \/ LedOn(w)
           \/ CallbackClear \/ CallbackLed \/ CallbackWake \/ Interrupt
    PROVE  UNCHANGED Stream!vars
  <1>1. /\ w \in Writers /\ DOMAIN wpc = Writers /\ TxInv
    BY DEF StreamInv, TxInv, TxTypeOK
  <1>2. UNCHANGED <<transfers, txBuf, user, written, txFifo, fetched, reported, faults>>
    BY InterruptFacts DEF StreamInv, InHand, WaitEvent, SetLength, Prepare, LedOn,
           CallbackClear, CallbackLed, CallbackWake, Interrupt, device, writer, bounds
  <1>3. At(w, "idle")' <=> At(w, "idle")
    BY <1>1 DEF WaitEvent, AfterWait, Asleep, SetLength, Prepare, LedOn, CallbackClear,
                CallbackLed, CallbackWake, Interrupt, Goto, At, writer
  <1>4. UNCHANGED <<Left(w), Out(w)>>
    BY <1>2, <1>3 DEF Left, Out, InTransfer
  <1> QED BY <1>1, <1>2, <1>3, <1>4, StreamStutters

LEMMA CopyIsQuiet ==
    ASSUME NEW w, Writers = {w}, StreamInv(w), Copy(w)
    PROVE  UNCHANGED Stream!vars
  <1>1. /\ w \in Writers /\ DOMAIN wpc = Writers /\ TxInv
    BY DEF StreamInv, TxInv, TxTypeOK
  <1>2. transfers = <<>> /\ transfers' = <<>>
    BY DEF StreamInv, InTurn, Copy, At
  <1>3. UNCHANGED <<user, written, txFifo, fetched, reported, faults>>
    BY DEF Copy, device, bounds
  <1>4. At(w, "idle")' <=> At(w, "idle")
    BY <1>1 DEF Copy, Goto, At
  <1>5. UNCHANGED <<Left(w), Out(w)>>
    BY <1>2, <1>3, <1>4 DEF Left, Out, InTransfer
  <1> QED BY <1>1, <1>3, <1>4, <1>5, StreamStutters

LEMMA CallIsCall ==
    ASSUME NEW w, Writers = {w}, StreamInv(w), Call(w)
    PROVE  \E msg \in {Script[TheWriter][i] : i \in DOMAIN Script[TheWriter]} :
             Stream!Call(msg)
  <1> DEFINE msg == Head(todo[w])
  <1>1. /\ w \in Writers /\ TheWriter = w /\ DOMAIN wpc = Writers
        /\ DOMAIN user = Writers /\ DOMAIN written = Writers
        /\ todo[w] \in Seq(Seq(Data)) /\ todo[w] # <<>>
    BY TheWriterIs DEF StreamInv, TxInv, TxTypeOK, Call
  <1>2. 1 \in 1 .. Len(todo[w])
    BY <1>1, EmptySeq, SMT
  <1>3. msg \in {Script[w][j] : j \in DOMAIN Script[w]} /\ msg \in Seq(Data)
    BY <1>1, <1>2, HeadTailProperties DEF StreamInv, InHand
  <1>4. transfers = <<>> /\ transfers' = <<>>
    BY DEF StreamInv, InTurn, Call, At
  <1>5. InTransfer' = <<>> /\ Len(InTransfer') = 0
    BY <1>4, EmptySeq DEF InTransfer
  <1>6. user'[w] = msg /\ written'[w] = 0 /\ At(w, "idle") /\ ~At(w, "idle")'
    BY <1>1 DEF Call, Goto, At
  <1> HIDE DEF msg
  <1>7. InTransfer' \o user'[w] = msg
    BY <1>3, <1>5, <1>6, ConcatEmptySeq
  <1>8. written'[w] - Len(InTransfer') = 0
    <2>1. written'[w] = 0 /\ Len(InTransfer') = 0
      BY <1>5, <1>6
    <2>2. 0 - 0 = 0
      OBVIOUS
    <2> QED BY <2>1, <2>2, Zenon
  <1>9. UNCHANGED <<txFifo, fetched, reported, faults>>
    BY DEF Call, device, bounds
  <1>10. Stream!Call(msg)
    BY <1>1, <1>6, <1>7, <1>8, <1>9 DEF Stream!Call, At
  <1> QED BY <1>1, <1>3, <1>10

\* The chunk moves from what is left of the call to the transfer.
LEMMA IssueIsQuiet ==
    ASSUME NEW w, Writers = {w}, StreamInv(w), Issue(w)
    PROVE  UNCHANGED Stream!vars
  <1> DEFINE b == bytes[w]
             u == user[w]
  <1>1. /\ w \in Writers /\ TxInv /\ DOMAIN wpc = Writers /\ DOMAIN user = Writers
        /\ DOMAIN written = Writers /\ u \in Seq(Data) /\ b \in Nat
        /\ written[w] \in Nat
    BY DEF StreamInv, TxInv, TxTypeOK
  <1>2. /\ transfers = <<>> /\ chunk[w] = b /\ b # 0 /\ b <= Len(u)
        /\ \A i \in 1 .. b : txBuf[i] = u[i]
    BY DEF StreamInv, InTurn, InHand, ChunkIsNext, Issue, At
  <1>3. transfers' = <<[len |-> b, pos |-> 0]>> /\ txBuf' = txBuf
    BY <1>2 DEF Issue
  <1>4. /\ user'[w] = SubSeq(u, b + 1, Len(u)) /\ written'[w] = written[w] + b
        /\ UNCHANGED <<txFifo, fetched, reported, faults>>
    BY <1>1 DEF Issue, device, bounds
  <1>5. ~At(w, "idle") /\ ~At(w, "idle")'
    BY <1>1 DEF Issue, Goto, At
  <1> HIDE DEF b, u
  <1>6. Len(u) \in Nat
    BY <1>1, LenProperties
  <1>7. InTransfer' = SubSeq(txBuf, 0 + 1, b)
    BY <1>3 DEF InTransfer
  <1>8. SubSeq(txBuf, 0 + 1, b) = SubSeq(txBuf, 1, b)
    OBVIOUS
  <1>9. \A i \in 1 .. b : i \in 1 .. Len(u)
    BY <1>1, <1>2, <1>6
  <1>10. \A i \in 1 .. b : u[i] \in Data /\ txBuf[i] \in Data
    BY <1>1, <1>2, <1>9, ElementOfSeq
  <1>11. 1 \in Int /\ b \in Int /\ 1 <= b /\ b - 1 + 1 = b
         /\ \A i \in 1 .. b : 1 + i - 1 = i
    BY <1>1, <1>2
  <1>12. /\ SubSeq(u, 1, b) \in Seq(Data) /\ Len(SubSeq(u, 1, b)) = b
         /\ \A i \in 1 .. b : SubSeq(u, 1, b)[i] = u[i]
    BY <1>10, <1>11, SubSeqProperties
  <1>13. /\ SubSeq(txBuf, 1, b) \in Seq(Data) /\ Len(SubSeq(txBuf, 1, b)) = b
         /\ \A i \in 1 .. b : SubSeq(txBuf, 1, b)[i] = txBuf[i]
    BY <1>10, <1>11, SubSeqProperties
  <1>14. SubSeq(txBuf, 1, b) = SubSeq(u, 1, b)
    BY <1>2, <1>12, <1>13, SeqEqual
  <1>15. SubSeq(u, 1, b) \o SubSeq(u, b + 1, Len(u)) = u
    <2>1. 1 \in 1 .. Len(u) + 1 /\ b \in 1 - 1 .. Len(u) /\ Len(u) \in b .. Len(u)
      BY <1>1, <1>2, <1>6
    <2>2. SubSeq(u, 1, b) \o SubSeq(u, b + 1, Len(u)) = SubSeq(u, 1, Len(u))
      BY <1>1, <2>1, ConcatAdjacentSubSeq
    <2> QED BY <1>1, <2>2, SubSeqFull
  <1>16. InTransfer = <<>> /\ Len(InTransfer) = 0
    BY <1>2, NoTransfer
  <1>17. Left(w)' = u /\ Left(w) = u
    <2>1. Left(w)' = u
      BY <1>4, <1>7, <1>8, <1>14, <1>15 DEF Left
    <2>2. Left(w) = u
      BY <1>1, <1>16, ConcatEmptySeq DEF Left, u
    <2> QED BY <2>1, <2>2
  <1>18. Len(InTransfer') = b
    BY <1>7, <1>8, <1>13
  <1>19. Out(w)' = written[w] /\ Out(w) = written[w]
    <2>1. Out(w)' = written'[w] - Len(InTransfer') /\ Out(w) = written[w] - Len(InTransfer)
      BY <1>5 DEF Out, At
    <2> QED BY <1>1, <1>4, <1>16, <1>18, <2>1
  <1>20. At(w, "idle")' <=> At(w, "idle")
    BY <1>5
  <1> QED BY <1>1, <1>4, <1>17, <1>19, <1>20, StreamStutters

LEMMA MoveByteIsEmit ==
    ASSUME NEW w, Writers = {w}, StreamInv(w), MoveByte
    PROVE  Stream!Emit
  <1> DEFINE n == transfers[1].len
             p == transfers[1].pos
             it == InTransfer
             u == user[w]
             byte == txBuf[transfers[1].pos + 1]
  <1>1. /\ w \in Writers /\ TxInv /\ TheWriter = w /\ transfers # <<>>
        /\ u \in Seq(Data) /\ written[w] \in Nat /\ DeviceTypeOK
        /\ transfers \in Seq(Transfers)
    BY TheWriterIs DEF StreamInv, TxInv, TxTypeOK, MoveByte, Transfers
  <1>2. /\ transfers[1] \in Transfers /\ 1 \in 1 .. Len(transfers)
        /\ p + 1 \in 1 .. n /\ n \in 1 .. TxBufSize /\ byte \in Data
    BY <1>1, MovedByte
  <1>3. TxInv'
    BY <1>1, TxInvMoveByte
  <1>4. /\ transfers' # <<>> /\ transfers'[1].len = n /\ transfers'[1].pos = p + 1
        /\ txBuf' = txBuf
    <2>1. transfers' = [transfers EXCEPT ![1] = [transfers[1] EXCEPT !.pos = @ + 1]]
      BY DEF MoveByte
    <2>2. [transfers[1] EXCEPT !.pos = @ + 1] \in Transfers
      BY <1>2, TxBufAssumption DEF Transfers
    <2>3. transfers' \in Seq(Transfers) /\ Len(transfers') = Len(transfers)
          /\ transfers'[1] = [transfers[1] EXCEPT !.pos = @ + 1]
      BY <1>1, <1>2, <2>1, <2>2, ExceptSeq
    <2>4. transfers' # <<>>
      BY <1>2, <2>3, EmptySeq
    <2> QED BY <1>2, <2>3, <2>4 DEF MoveByte, Transfers
  <1>5. /\ it \in Seq(Data) /\ Len(it) = n - p
        /\ \A i \in 1 .. Len(it) : it[i] = txBuf[p + i]
    BY <1>1, TransferBytes
  <1>6. n \in Nat /\ p \in Nat /\ p + 1 \in Nat /\ p + 1 <= n /\ Filled(n)
    BY <1>1, <1>2, TxBufAssumption DEF Transfers, TxInv, SentWasCopied
  <1>7. /\ it' \in Seq(Data) /\ Len(it') = n - (p + 1)
        /\ \A i \in 1 .. n - (p + 1) : it'[i] = txBuf[p + 1 + i]
    <2>1. it' = SubSeq(txBuf, p + 1 + 1, n)
      BY <1>4 DEF InTransfer
    <2> QED BY <1>6, <2>1, PartOfBuffer
  <1>8. it # <<>>
    <2>1. Len(it) # 0
      BY <1>5, <1>6
    <2> QED BY <2>1, EmptySeq
  <1>9. it[1] = byte /\ Tail(it) = it'
    <2>1. 1 \in 1 .. Len(it)
      BY <1>5, <1>6
    <2>2. it[1] = byte
      BY <1>5, <2>1
    <2>3. /\ Tail(it) \in Seq(Data) /\ Len(Tail(it)) = Len(it) - 1
          /\ \A i \in 1 .. Len(Tail(it)) : Tail(it)[i] = it[i + 1]
      BY <1>5, <1>8, HeadTailProperties
    <2>4. Len(Tail(it)) = Len(it') /\ Len(it') = n - (p + 1)
      BY <1>5, <1>6, <1>7, <2>3, SMTT(30)
    <2>5. ASSUME NEW i \in 1 .. Len(Tail(it)) PROVE Tail(it)[i] = it'[i]
      <3>1. i \in 1 .. n - (p + 1)
        BY <2>4
      <3>2. i + 1 \in 1 .. n - p /\ p + (i + 1) = p + 1 + i
        <4> HIDE DEF n, p
        <4> QED BY <1>6, <3>1
      <3> QED BY <1>5, <1>7, <2>3, <3>1, <3>2
    <2> QED BY <1>7, <2>2, <2>3, <2>4, <2>5, SeqEqual
  <1>10. txFifo' = Append(txFifo, byte) /\ Len(txFifo) < FifoSize - 1
    <2>1. ~IsFull(txFifo) /\ Len(txFifo) < FifoSize /\ Len(txFifo) \in Nat
      BY <1>1, LenProperties
         DEF MoveByte, StreamInv, InHand, FifoFacts, BusyLinesThrottle, DeviceTypeOK
    <2>2. WriteDR(byte)
      BY DEF MoveByte
    <2> QED BY <2>1, <2>2, FifoSizeAssumption DEF WriteDR, IsFull
  <1>11. ~At(w, "idle") /\ ~At(w, "idle")' /\ user'[w] = u /\ written'[w] = written[w]
         /\ UNCHANGED <<faults, fetched, reported>>
    BY <1>1 DEF MoveByte, StreamInv, InTurn, At, writer, bounds
  <1>12. Head(it \o u) = byte /\ it \o u # <<>> /\ Tail(it \o u) = it' \o u
    BY <1>1, <1>5, <1>8, <1>9, HeadOfConcat
  <1>13. written'[w] - Len(it') = (written[w] - Len(it)) + 1
    <2>1. Len(it) \in Int /\ Len(it') = Len(it) - 1
      BY <1>5, <1>6, <1>7
    <2>2. \A a \in Nat, b \in Int : a - (b - 1) = (a - b) + 1
      OBVIOUS
    <2> QED BY <1>1, <1>11, <2>1, <2>2
  <1>14. /\ InTransfer \o user[w] # <<>>
         /\ txFifo' = Append(txFifo, Head(InTransfer \o user[w]))
         /\ InTransfer' \o user'[w] = Tail(InTransfer \o user[w])
    BY <1>10, <1>11, <1>12
  <1>15. written'[w] - Len(InTransfer') = (written[w] - Len(InTransfer)) + 1
    BY <1>13
  <1> HIDE DEF n, p, it, u, byte
  <1> QED BY <1>1, <1>10, <1>11, <1>14, <1>15 DEF Stream!Emit, At

LEMMA FailureIsGiveUp ==
    ASSUME NEW w, Writers = {w}, StreamInv(w), PrepareFails(w)
    PROVE  Stream!GiveUp
  <1>1. /\ w \in Writers /\ TheWriter = w /\ DOMAIN wpc = Writers /\ DOMAIN user = Writers
        /\ user[w] \in Seq(Data)
    BY TheWriterIs DEF StreamInv, TxInv, TxTypeOK
  <1>2. transfers = <<>> /\ transfers' = <<>> /\ user[w] # <<>> /\ user'[w] = <<>>
    BY <1>1 DEF StreamInv, InTurn, InHand, PrepareFails, At
  <1>3. InTransfer = <<>> /\ InTransfer' = <<>>
    BY <1>2 DEF InTransfer
  <1>4. InTransfer \o user[w] # <<>> /\ InTransfer' \o user'[w] = <<>>
    BY <1>1, <1>2, <1>3, ConcatEmptySeq, EmptySeq
  <1>5. ~At(w, "idle") /\ ~At(w, "idle")' /\ written' = written
        /\ faults > 0 /\ faults' = faults - 1
        /\ UNCHANGED <<txFifo, fetched, reported>>
    BY <1>1 DEF PrepareFails, Goto, At, device, bounds
  <1> QED BY <1>1, <1>3, <1>4, <1>5 DEF Stream!GiveUp, At

LEMMA ReturnIsReturn ==
    ASSUME NEW w, Writers = {w}, StreamInv(w), Return(w)
    PROVE  Stream!Return
  <1>1. /\ w \in Writers /\ TheWriter = w /\ DOMAIN wpc = Writers /\ written[w] \in Nat
    BY TheWriterIs DEF StreamInv, TxInv, TxTypeOK
  <1>2. transfers = <<>> /\ transfers' = <<>> /\ user[w] = <<>> /\ user' = user
    BY DEF StreamInv, InTurn, InHand, Return, At
  <1>3. InTransfer = <<>> /\ InTransfer' = <<>> /\ Len(InTransfer) = 0
    BY <1>2, EmptySeq DEF InTransfer
  <1>4. InTransfer \o user[w] = <<>> /\ InTransfer' \o user'[w] = <<>>
    BY <1>2, <1>3, ConcatEmptySeq, EmptySeq
  <1>5. written[w] - Len(InTransfer) = written[w]
    BY <1>1, <1>3
  <1>6. ~At(w, "idle") /\ At(w, "idle")' /\ reported' = reported + written[w]
        /\ UNCHANGED <<txFifo, fetched, faults>>
    BY <1>1 DEF Return, Goto, At, device, bounds
  <1> QED BY <1>1, <1>4, <1>5, <1>6 DEF Stream!Return, At

LEMMA FetchIsFetch ==
    ASSUME NEW w, Writers = {w}, StreamInv(w), HostFetches
    PROVE  Stream!Fetch
  <1>1. TheWriter = w /\ UNCHANGED <<transfers, txBuf, user, wpc, written, reported, faults>>
    BY TheWriterIs DEF HostFetches, writer, bounds
  <1>2. InTransfer' = InTransfer
    BY <1>1 DEF InTransfer
  <1>3. txFifo' = <<>> /\ fetched' = fetched \o txFifo
    BY DEF HostFetches, GetData
  <1> QED BY <1>1, <1>2, <1>3 DEF Stream!Fetch, At

LEMMA CompletionIsQuiet ==
    ASSUME NEW w, Writers = {w}, StreamInv(w), CompleteTransfer
    PROVE  UNCHANGED Stream!vars
  <1>1. /\ w \in Writers /\ TxInv /\ transfers \in Seq(Transfers) /\ transfers # <<>>
        /\ Len(transfers) = 1 /\ transfers' = Tail(transfers)
        /\ transfers[1].pos = transfers[1].len
    BY DEF StreamInv, InTurn, TxInv, TxTypeOK, Transfers, CompleteTransfer
  <1>2. transfers' = <<>>
    <2>1. transfers' \in Seq(Transfers) /\ Len(transfers') = 0
      BY <1>1, HeadTailProperties
    <2> QED BY <2>1, EmptySeq
  <1>3. InTransfer = <<>>
    <2>1. 1 \in 1 .. Len(transfers)
      BY <1>1
    <2>2. transfers[1].len \in 0 .. TxBufSize /\ transfers[1].pos \in 0 .. TxBufSize
      BY <1>1, <2>1, TransferFields DEF Transfers
    <2>3. InTransfer \in Seq(Data) /\ Len(InTransfer) = transfers[1].len - transfers[1].pos
      BY <1>1, TransferBytes
    <2>4. Len(InTransfer) = 0
      BY <1>1, <2>2, <2>3, TxBufAssumption
    <2> QED BY <2>3, <2>4, EmptySeq
  <1>4. InTransfer' = <<>>
    BY <1>2 DEF InTransfer
  <1>5. UNCHANGED <<user, wpc, written, txFifo, fetched, reported, faults>>
    BY DEF CompleteTransfer, device, writer, bounds
  <1>6. UNCHANGED <<Left(w), Out(w)>> /\ (At(w, "idle")' <=> At(w, "idle"))
    BY <1>3, <1>4, <1>5 DEF Left, Out, At
  <1> QED BY <1>1, <1>5, <1>6, StreamStutters

\* What a single writer and the host have between them is a stream: every
\* byte reaches the host once and in order, a write returns only when its
\* bytes are in the device, it is short only if a transfer of its failed,
\* and then it reports what did get out.
THEOREM StreamCorrect ==
    ASSUME NEW w, Writers = {w}, MaxSignals = 0
    PROVE  Spec => Stream!Spec
  <1>1. Init => Stream!Init
    <2> SUFFICES ASSUME Init PROVE Stream!Init
      OBVIOUS
    <2>1. TheWriter = w /\ w \in Writers
      BY TheWriterIs
    <2>2. InTransfer = <<>> /\ user[w] = <<>> /\ wpc[w] = "idle"
      BY <2>1 DEF Init, InTransfer
    <2>3. InTransfer \o user[w] = <<>>
      BY <2>2, ConcatEmptySeq, EmptySeq
    <2> QED BY <2>1, <2>2, <2>3, TxBoundsAssumption DEF Init, TopInit, Stream!Init, At
  <1>2. StreamInv(w) /\ [Next]_vars => [Stream!Next]_(Stream!vars)
    <2> SUFFICES ASSUME StreamInv(w), [Next]_vars
                 PROVE  Stream!Next \/ UNCHANGED Stream!vars
      OBVIOUS
    <2>1. CASE Call(w)
      BY <2>1, CallIsCall DEF Stream!Next
    <2>2. CASE WaitEvent(w) \/ SetLength(w) \/ Prepare(w) \/ LedOn(w) \/ CallbackClear
               \/ CallbackLed \/ CallbackWake \/ Interrupt
      BY <2>2, QuietSteps
    <2>3. CASE Copy(w) \/ Issue(w) \/ CompleteTransfer
      BY <2>3, CopyIsQuiet, IssueIsQuiet, CompletionIsQuiet
    <2>4. CASE PrepareFails(w)
      BY <2>4, FailureIsGiveUp DEF Stream!Next
    <2>5. CASE Return(w)
      BY <2>5, ReturnIsReturn DEF Stream!Next
    <2>6. CASE MoveByte
      BY <2>6, MoveByteIsEmit DEF Stream!Next
    <2>7. CASE HostFetches
      BY <2>7, FetchIsFetch DEF Stream!Next
    <2>8. CASE UNCHANGED vars
      BY <2>8 DEF vars, device, writer, bounds, Stream!vars, At, InTransfer
    <2>9. ~Signal(w)
      BY DEF Signal, StreamInv, InTurn
    <2> QED BY <2>1, <2>2, <2>3, <2>4, <2>5, <2>6, <2>7, <2>8, <2>9
            DEF Next, WriterStep, TaskletStep
  <1> QED BY <1>1, <1>2, StreamInvCorrect, PTL DEF Spec, Stream!Spec
=============================================================================
