-------------------------- MODULE PioDriverProofs --------------------------
(***************************************************************************)
(* The programmed-I/O driver of week 2, for any number of writers, any     *)
(* script of calls, any messages, any FIFO size and any number of CPUs:    *)
(* every variable keeps its type, bytes are lost to signals only, what     *)
(* writers and host have between them is the abstract byte stream, and     *)
(* what host and readers have is the abstract mailbox.                     *)
(***************************************************************************)
EXTENDS PioDriver, SequenceTheorems, TLAPS

USE DEF sync

(* The inductive invariant. *)

Sent == {Letters[i] : i \in DOMAIN Letters}

RegistersTyped ==
    /\ flag \subseteq {"TXFE", "TXFF", "RXFE", "RXFF"} /\ ris \subseteq {"TX", "RX"}
    /\ txFifo \in Seq(Data) /\ Len(txFifo) < FifoSize
    /\ rxFifo \in Seq(Data) /\ Len(rxFifo) < FifoSize

WritersTyped ==
    /\ wpc \in [Writers -> {"idle", "lock", "wait", "asleep", "put"}]
    /\ todo \in [Writers -> Seq(Seq(Data))] /\ user \in [Writers -> Seq(Data)]
    /\ written \in [Writers -> Nat] /\ signalled \subseteq Writers
    /\ fetched \in Seq(Data) /\ reported \in Nat

ReceptionTyped ==
    /\ lock \in Writers \cup {"rx_work", NoOne}
    /\ onCpu \subseteq Writers \cup {"rx_work", "reader"} /\ hasty \in BOOLEAN
    /\ irqPc \in {"idle", "read", "ack", "act"} /\ irqBit \in {"TX", "RX"}
    /\ workPending \in BOOLEAN /\ workPc \in {"idle", "lock", "drain"}
    /\ count \in Nat /\ rxSize \in Nat /\ ppos \in Nat
    /\ rxBuf \in [1 .. FifoSize -> Data \cup {Junk}]
    /\ got \in Seq(Data)

BoundsTyped ==
    /\ letters \in Seq(Seq(Data) \ {<<>>}) /\ \A i \in 1 .. Len(letters) : letters[i] \in Sent
    /\ reads \in 0 .. MaxReads /\ signals \in 0 .. MaxSignals

Typed == RegistersTyped /\ WritersTyped /\ ReceptionTyped /\ BoundsTyped

FlagFacts ==
    /\ "TXFF" \in flag <=> IsFull(txFifo)
    /\ "RXFE" \in flag <=> rxFifo = <<>>

\* write_lock has one holder, and it is where the code holds it.
LockFacts ==
    /\ \A w \in Writers : wpc[w] \in {"wait", "asleep", "put"} <=> lock = w
    /\ workPc = "drain" <=> lock = "rx_work"

CallsOf(w) == {Script[w][i] : i \in DOMAIN Script[w]}

\* What a writer has in hand, and that it puts a byte into a full FIFO only
\* when a signal ended its wait.
WriterFacts ==
    \A w \in Writers :
      /\ At(w, "idle") => user[w] = <<>>
      /\ At(w, "lock") => user[w] \in CallsOf(w)
      /\ At(w, "put") => user[w] # <<>> /\ (IsFull(txFifo) => w \in signalled)
      /\ \A i \in 1 .. Len(todo[w]) : todo[w][i] \in CallsOf(w)

BufHolds(n) == \A i \in 1 .. n : rxBuf[i] \in Data

\* rx_buf holds what was received, a whole message or the part that is
\* drained already, and has room for what is still to be drained.
BufferFacts ==
    /\ rxSize <= FifoSize /\ BufHolds(rxSize) /\ BufHolds(count)
    /\ Draining => count + Len(rxFifo) <= FifoSize
    /\ ~Draining => count = 0

PioInv == Typed /\ FlagFacts /\ LockFacts /\ WriterFacts /\ BufferFacts
-----------------------------------------------------------------------------
(* What the register accesses keep. *)

LEMMA ReadDRKeeps ==
    ASSUME RegistersTyped, FlagFacts, ReadDR, rxFifo # <<>>
    PROVE  RegistersTyped' /\ FlagFacts' /\ txFifo' = txFifo /\ rxFifo' = Tail(rxFifo)
           /\ (IF rxFifo' = <<>> THEN ris' = ris \ {"RX"} ELSE ris' = ris)
  <1>1. rxFifo' = Tail(rxFifo) /\ txFifo' = txFifo
    BY DEF ReadDR
  <1>2. /\ rxFifo' \in Seq(Data) /\ Len(rxFifo') = Len(rxFifo) - 1 /\ Len(rxFifo) \in Nat
        /\ Len(rxFifo) < FifoSize
    BY <1>1, HeadTailProperties, LenProperties DEF RegistersTyped
  <1>3. Len(rxFifo') < FifoSize
    BY <1>2, PioSizeAssumption
  <1>4. RegistersTyped'
    BY <1>1, <1>2, <1>3 DEF RegistersTyped, ReadDR
  <1>5. FlagFacts'
    BY <1>1 DEF FlagFacts, ReadDR, IsFull
  <1> QED BY <1>1, <1>4, <1>5 DEF ReadDR

LEMMA WriteDRKeeps ==
    ASSUME RegistersTyped, FlagFacts, NEW byte \in Data, WriteDR(byte)
    PROVE  /\ RegistersTyped' /\ FlagFacts' /\ rxFifo' = rxFifo
           /\ (IF IsFull(txFifo) THEN txFifo' = txFifo ELSE txFifo' = Append(txFifo, byte))
           /\ ris' \cap {"RX"} = ris \cap {"RX"}
  <1>1. /\ rxFifo' = rxFifo
        /\ txFifo' = IF IsFull(txFifo) THEN txFifo ELSE Append(txFifo, byte)
        /\ flag' = (flag \ {"TXFE"}) \cup (IF IsFull(txFifo') THEN {"TXFF"} ELSE {})
        /\ ris' = IF IsFull(txFifo') THEN ris \ {"TX"} ELSE ris
    BY DEF WriteDR
  <1>2. Len(txFifo) \in Nat /\ txFifo \in Seq(Data) /\ Len(txFifo) < FifoSize
    BY LenProperties DEF RegistersTyped
  <1>3. txFifo' \in Seq(Data) /\ Len(txFifo') < FifoSize
    <2>1. CASE IsFull(txFifo)
      BY <1>1, <1>2, <2>1
    <2>2. CASE ~IsFull(txFifo)
      <3>1. txFifo' \in Seq(Data) /\ Len(txFifo') = Len(txFifo) + 1
        BY <1>1, <1>2, <2>2, AppendProperties
      <3> QED BY <1>2, <2>2, <3>1, PioSizeAssumption DEF IsFull
    <2> QED BY <2>1, <2>2
  <1>4. RegistersTyped'
    <2>1. flag' \subseteq {"TXFE", "TXFF", "RXFE", "RXFF"} /\ ris' \subseteq {"TX", "RX"}
      BY <1>1 DEF RegistersTyped
    <2> QED BY <1>1, <1>3, <2>1 DEF RegistersTyped
  <1>5. FlagFacts'
    BY <1>1 DEF FlagFacts
  <1> QED BY <1>1, <1>4, <1>5

LEMMA GetDataKeeps ==
    ASSUME RegistersTyped, FlagFacts, GetData
    PROVE  RegistersTyped' /\ FlagFacts' /\ rxFifo' = rxFifo /\ txFifo' = <<>>
           /\ ~IsFull(txFifo') /\ ris' = ris \cup {"TX"}
  <1>1. <<>> \in Seq(Data) /\ Len(<<>>) = 0
    BY EmptySeq
  <1>2. 0 < FifoSize /\ 0 # FifoSize - 1
    BY PioSizeAssumption
  <1>3. ~IsFull(txFifo')
    BY <1>1, <1>2 DEF GetData, IsFull
  <1>4. RegistersTyped'
    BY <1>1, <1>2 DEF GetData, RegistersTyped
  <1> QED BY <1>3, <1>4 DEF GetData, FlagFacts

LEMMA SetDataKeeps ==
    ASSUME RegistersTyped, FlagFacts, NEW msg \in Seq(Data) \ {<<>>}, SetData(msg)
    PROVE  RegistersTyped' /\ FlagFacts' /\ txFifo' = txFifo /\ rxFifo' # <<>>
           /\ ris' = ris \cup {"RX"}
  <1> DEFINE n == IF Len(msg) < Room(rxFifo) THEN Len(msg) ELSE Room(rxFifo)
  <1>1. msg \in Seq(Data) /\ msg # <<>> /\ Len(msg) \in Nat \ {0}
    BY EmptySeq
  <1>2. Len(rxFifo) \in Nat /\ rxFifo \in Seq(Data) /\ Len(rxFifo) < FifoSize
    BY LenProperties DEF RegistersTyped
  <1>3. /\ n \in Nat /\ n <= Len(msg) /\ Len(rxFifo) + n < FifoSize
        /\ (n = 0 => Len(rxFifo) # 0)
    BY <1>1, <1>2, PioSizeAssumption DEF Room
  <1>4. rxFifo' = rxFifo \o SubSeq(msg, 1, n)
    BY DEF SetData
  <1> HIDE DEF n
  <1>5. 1 \in Int /\ n \in Int /\ \A i \in 1 .. n : i \in 1 .. Len(msg)
    BY <1>1, <1>3
  <1>6. \A i \in 1 .. n : msg[i] \in Data
    BY <1>1, <1>5, ElementOfSeq
  <1>7. SubSeq(msg, 1, n) \in Seq(Data) /\ Len(SubSeq(msg, 1, n)) = n
    <2>1. (IF 1 <= n THEN n - 1 + 1 ELSE 0) = n
      BY <1>3
    <2> QED BY <1>5, <1>6, <2>1, SubSeqProperties
  <1>8. rxFifo' \in Seq(Data) /\ Len(rxFifo') = Len(rxFifo) + n
    BY <1>2, <1>4, <1>7, ConcatProperties
  <1>9. rxFifo' # <<>> /\ Len(rxFifo') < FifoSize
    <2>1. Len(rxFifo') # 0
      BY <1>2, <1>3, <1>8
    <2> QED BY <1>3, <1>8, <2>1, EmptySeq
  <1>10. /\ txFifo' = txFifo /\ ris' = ris \cup {"RX"}
         /\ flag' = (flag \ {"RXFE"}) \cup (IF IsFull(rxFifo') THEN {"RXFF"} ELSE {})
    BY DEF SetData
  <1>11. flag' \subseteq {"TXFE", "TXFF", "RXFE", "RXFF"} /\ ris' \subseteq {"TX", "RX"}
    BY <1>10 DEF RegistersTyped
  <1>12. RegistersTyped'
    BY <1>8, <1>9, <1>10, <1>11 DEF RegistersTyped
  <1> QED BY <1>9, <1>10, <1>12 DEF FlagFacts, IsFull
-----------------------------------------------------------------------------
(* The invariant holds at first and every step keeps it. *)

LEMMA BufferKept ==
    ASSUME BufferFacts, UNCHANGED <<rxFifo, workPc, count, rxBuf, rxSize>>
    PROVE  BufferFacts'
  BY DEF BufferFacts, BufHolds, Draining

LEMMA LettersTyped ==
    /\ Letters \in Seq(Seq(Data) \ {<<>>})
    /\ \A i \in 1 .. Len(Letters) : Letters[i] \in Sent
  BY PioLettersAssumption, LenProperties DEF Sent

LEMMA PioInvInit == Init => PioInv
  <1> SUFFICES ASSUME Init PROVE PioInv
    OBVIOUS
  <1>1. <<>> \in Seq(Data) /\ Len(<<>>) = 0
    BY EmptySeq
  <1>2. 0 < FifoSize /\ 0 # FifoSize - 1
    BY PioSizeAssumption
  <1>3. /\ MaxReads \in 0 .. MaxReads
        /\ MaxSignals \in 0 .. MaxSignals
    BY PioBoundsAssumption
  <1>4. RegistersTyped /\ FlagFacts
    BY <1>1, <1>2 DEF Init, RegistersTyped, FlagFacts, IsFull
  <1>5. WritersTyped
    BY <1>1, PioScriptAssumption DEF Init, WritersTyped
  <1>6. ReceptionTyped
    BY <1>1 DEF Init, ReceptionTyped
  <1>7. BoundsTyped
    BY <1>3, LettersTyped DEF Init, BoundsTyped
  <1>8. LockFacts
    BY PioNamesAssumption DEF Init, LockFacts
  <1>9. WriterFacts
    <2>1. \A w \in Writers : Script[w] \in Seq(Seq(Data)) /\ DOMAIN Script[w] = 1 .. Len(Script[w])
      BY PioScriptAssumption, LenProperties
    <2> QED BY <2>1 DEF Init, WriterFacts, CallsOf, At
  <1>10. BufferFacts
    <2>1. 0 <= FifoSize /\ \A i \in 1 .. 0 : FALSE
      BY PioSizeAssumption
    <2> QED BY <2>1 DEF Init, BufferFacts, BufHolds, Draining
  <1> QED BY <1>4, <1>5, <1>6, <1>7, <1>8, <1>9, <1>10 DEF PioInv, Typed

LEMMA HeadLetter ==
    ASSUME BoundsTyped, letters # <<>>
    PROVE  /\ Head(letters) \in Seq(Data) \ {<<>>} /\ Head(letters) \in Sent
           /\ Tail(letters) \in Seq(Seq(Data) \ {<<>>})
           /\ \A i \in 1 .. Len(Tail(letters)) : Tail(letters)[i] \in Sent
  <1> DEFINE S == Seq(Data) \ {<<>>}
  <1>1. letters \in Seq(S) /\ \A i \in 1 .. Len(letters) : letters[i] \in Sent
    BY DEF BoundsTyped
  <1> HIDE DEF S
  <1>2. /\ Head(letters) \in S /\ Tail(letters) \in Seq(S) /\ Head(letters) = letters[1]
        /\ Len(Tail(letters)) = Len(letters) - 1 /\ Len(letters) \in Nat
        /\ \A i \in 1 .. Len(Tail(letters)) : Tail(letters)[i] = letters[i + 1]
    BY <1>1, HeadTailProperties, LenProperties
  <1>3. Len(letters) # 0
    BY <1>1, EmptySeq
  <1>4. 1 \in 1 .. Len(letters) /\ \A i \in 1 .. Len(Tail(letters)) : i + 1 \in 1 .. Len(letters)
    BY <1>2, <1>3
  <1> QED BY <1>1, <1>2, <1>4 DEF S

LEMMA SendKeeps == ASSUME PioInv, HostSends PROVE PioInv'
  <1>1. /\ Head(letters) \in Seq(Data) \ {<<>>} /\ letters' = Tail(letters)
        /\ SetData(Head(letters))
    BY HeadLetter DEF HostSends, PioInv, Typed
  <1>2. RegistersTyped' /\ FlagFacts' /\ txFifo' = txFifo
    BY <1>1, SetDataKeeps DEF PioInv, Typed
  <1>3. BoundsTyped'
    BY HeadLetter DEF HostSends, PioInv, Typed, BoundsTyped
  <1>4. hasty' \in BOOLEAN
    BY DEF HostSends, ReceptionRests
  <1>5. UNCHANGED <<lock, onCpu, handler, work, reader, writer, fetched, reported>>
    BY DEF HostSends
  <1>6. Typed'
    BY <1>2, <1>3, <1>4, <1>5 DEF PioInv, Typed, WritersTyped, ReceptionTyped,
       handler, work, reader, writer
  <1>7. LockFacts' /\ WriterFacts'
    BY <1>2, <1>5 DEF PioInv, LockFacts, WriterFacts, At, IsFull, work, writer
  <1>8. BufferFacts'
    BY <1>5 DEF HostSends, PioInv, BufferFacts, BufHolds, Draining, work
  <1> QED BY <1>2, <1>6, <1>7, <1>8 DEF PioInv

LEMMA FetchKeeps == ASSUME PioInv, HostFetches PROVE PioInv'
  <1>1. RegistersTyped' /\ FlagFacts' /\ ~IsFull(txFifo') /\ rxFifo' = rxFifo
    BY GetDataKeeps DEF HostFetches, PioInv, Typed
  <1>2. fetched' \in Seq(Data)
    BY ConcatProperties DEF HostFetches, PioInv, Typed, WritersTyped, RegistersTyped
  <1>3. Typed'
    BY <1>1, <1>2 DEF HostFetches, PioInv, Typed, WritersTyped, ReceptionTyped,
       BoundsTyped, handler, work, reader, writer, bounds
  <1>4. LockFacts' /\ WriterFacts'
    BY <1>1 DEF HostFetches, PioInv, LockFacts, WriterFacts, At, work, writer
  <1>5. BufferFacts'
    BY <1>1, BufferKept DEF HostFetches, PioInv, work
  <1> QED BY <1>1, <1>3, <1>4, <1>5 DEF PioInv

LEMMA InterruptKeeps == ASSUME PioInv, Interrupt PROVE PioInv'
  <1>1. BufferFacts'
    BY BufferKept DEF Interrupt, TakeInterrupt, ReadMIS, AckInterrupt, WriteICR, WakeUp,
       ScheduleWork, PioInv, registers, work
  <1>2. CASE TakeInterrupt \/ ReadMIS \/ ScheduleWork
    <2>1. Typed'
      BY <1>2 DEF TakeInterrupt, ReadMIS, ScheduleWork, PioInv, Typed, RegistersTyped,
         WritersTyped, ReceptionTyped, BoundsTyped, registers, work, reader, writer, ghosts,
         bounds
    <2>2. FlagFacts' /\ LockFacts' /\ WriterFacts'
      BY <1>2 DEF TakeInterrupt, ReadMIS, ScheduleWork, PioInv, FlagFacts, LockFacts,
         WriterFacts, At, IsFull, registers, work, writer
    <2> QED BY <1>1, <2>1, <2>2 DEF PioInv
  <1>3. CASE AckInterrupt
    <2>1. ris' \subseteq {"TX", "RX"}
      BY <1>3 DEF AckInterrupt, WriteICR, PioInv, Typed, RegistersTyped, ReceptionTyped
    <2>2. Typed'
      BY <1>3, <2>1 DEF AckInterrupt, WriteICR, PioInv, Typed, RegistersTyped, WritersTyped,
         ReceptionTyped, BoundsTyped, work, reader, writer, ghosts, bounds
    <2>3. FlagFacts' /\ LockFacts' /\ WriterFacts'
      BY <1>3 DEF AckInterrupt, WriteICR, PioInv, FlagFacts, LockFacts, WriterFacts, At,
         IsFull, work, writer
    <2> QED BY <1>1, <2>2, <2>3 DEF PioInv
  <1>4. CASE WakeUp
    <2>1. Typed'
      BY <1>4 DEF WakeUp, PioInv, Typed, RegistersTyped, WritersTyped, ReceptionTyped,
         BoundsTyped, registers, work, reader, ghosts, bounds
    <2>2. FlagFacts' /\ LockFacts' /\ WriterFacts'
      BY <1>4 DEF WakeUp, PioInv, FlagFacts, LockFacts, WriterFacts, At, IsFull, registers,
         work
    <2> QED BY <1>1, <2>1, <2>2 DEF PioInv
  <1> QED BY <1>2, <1>3, <1>4 DEF Interrupt

\* One round of the loop stays inside rx_buf.
LEMMA DrainKeeps == ASSUME PioInv, Drain PROVE PioInv'
  <1>1. /\ rxFifo # <<>> /\ rxFifo \in Seq(Data) /\ Head(rxFifo) \in Data
        /\ Len(rxFifo) \in Nat \ {0} /\ Len(Tail(rxFifo)) = Len(rxFifo) - 1
    BY HeadTailProperties, EmptySeq DEF Drain, PioInv, Typed, RegistersTyped, FlagFacts
  <1>2. RegistersTyped' /\ FlagFacts' /\ txFifo' = txFifo /\ rxFifo' = Tail(rxFifo)
    BY <1>1, ReadDRKeeps DEF Drain, PioInv, Typed
  <1>3. count \in Nat /\ count' = count + 1 /\ count + Len(rxFifo) <= FifoSize
    BY DEF Drain, PioInv, Typed, ReceptionTyped, BufferFacts, Draining
  <1>4. /\ rxBuf' = [rxBuf EXCEPT ![count + 1] = Head(rxFifo)]
        /\ rxBuf' \in [1 .. FifoSize -> Data \cup {Junk}]
    BY <1>1 DEF Drain, PioInv, Typed, ReceptionTyped
  <1>5. Typed'
    BY <1>2, <1>3, <1>4 DEF Drain, PioInv, Typed, WritersTyped, ReceptionTyped,
       BoundsTyped, handler, reader, writer, ghosts, bounds
  <1>6. LockFacts' /\ WriterFacts'
    BY <1>2 DEF Drain, PioInv, LockFacts, WriterFacts, At, IsFull, writer
  <1>7. BufferFacts'
    <2>1. /\ rxSize' = rxSize /\ rxSize \in Nat /\ rxSize <= FifoSize /\ workPc' = "drain"
          /\ \A i \in 1 .. rxSize : rxBuf[i] \in Data /\ i \in 1 .. FifoSize
          /\ \A i \in 1 .. count : rxBuf[i] \in Data /\ i \in 1 .. FifoSize
      BY <1>1, <1>3, PioSizeAssumption
         DEF Drain, PioInv, Typed, ReceptionTyped, BufferFacts, BufHolds
    <2>2. \A i \in 1 .. FifoSize : rxBuf[i] \in Data \/ i = count + 1 => rxBuf'[i] \in Data
      BY <1>1, <1>4 DEF PioInv, Typed, ReceptionTyped
    <2>3. /\ \A i \in 1 .. count + 1 : i \in 1 .. count \/ i = count + 1
          /\ count + 1 \in 1 .. FifoSize /\ count + 1 + (Len(rxFifo) - 1) <= FifoSize
      BY <1>1, <1>3, PioSizeAssumption
    <2>4. BufHolds(rxSize)'
      BY <2>1, <2>2 DEF BufHolds
    <2>5. BufHolds(count)'
      BY <1>3, <2>1, <2>2, <2>3 DEF BufHolds
    <2> QED BY <1>1, <1>2, <1>3, <2>1, <2>3, <2>4, <2>5 DEF BufferFacts, Draining
  <1> QED BY <1>2, <1>5, <1>6, <1>7 DEF PioInv

LEMMA WorkKeeps == ASSUME PioInv, WorkStep PROVE PioInv'
  <1>1. CASE TakeWork
    <2>1. Typed'
      BY <1>1 DEF TakeWork, PioInv, Typed, RegistersTyped, WritersTyped, ReceptionTyped,
         BoundsTyped, registers, handler, reader, writer, ghosts, bounds
    <2>2. FlagFacts' /\ LockFacts' /\ WriterFacts'
      BY <1>1 DEF TakeWork, PioInv, FlagFacts, LockFacts, WriterFacts, At, IsFull,
         registers, writer
    <2>3. BufferFacts'
      BY <1>1 DEF TakeWork, PioInv, BufferFacts, BufHolds, Draining, registers
    <2> QED BY <2>1, <2>2, <2>3 DEF PioInv
  <1>2. CASE WorkLock \/ WorkUnlock
    <2>1. ReceptionTyped'
      BY <1>2 DEF WorkLock, WorkUnlock, PioInv, Typed, ReceptionTyped, handler, reader, ghosts
    <2>2. Typed'
      BY <1>2, <2>1 DEF WorkLock, WorkUnlock, PioInv, Typed, RegistersTyped, WritersTyped,
         BoundsTyped, registers, writer, ghosts, bounds
    <2>3. LockFacts'
      BY <1>2, PioNamesAssumption DEF WorkLock, WorkUnlock, PioInv, LockFacts, writer
    <2>4. FlagFacts' /\ WriterFacts'
      BY <1>2 DEF WorkLock, WorkUnlock, PioInv, FlagFacts, WriterFacts, At, IsFull,
         registers, writer
    <2>5. Len(rxFifo) \in Nat /\ Len(rxFifo) < FifoSize /\ count \in Nat
      BY LenProperties DEF PioInv, Typed, RegistersTyped, ReceptionTyped
    <2>6. BufferFacts'
      <3>1. CASE WorkLock
        <4>1. 0 + Len(rxFifo) <= FifoSize
          BY <2>5, PioSizeAssumption
        <4> QED BY <3>1, <4>1 DEF WorkLock, PioInv, BufferFacts, BufHolds, Draining, registers
      <3>2. CASE WorkUnlock
        <4>1. count <= FifoSize
          BY <2>5, <3>2, PioSizeAssumption DEF WorkUnlock, PioInv, BufferFacts, Draining
        <4>2. \A i \in 1 .. 0 : FALSE
          OBVIOUS
        <4> QED BY <3>2, <4>1, <4>2
                DEF WorkUnlock, PioInv, BufferFacts, BufHolds, Draining, registers
      <3> QED BY <1>2, <3>1, <3>2
    <2> QED BY <2>2, <2>3, <2>4, <2>6 DEF PioInv
  <1> QED BY <1>1, <1>2, DrainKeeps DEF WorkStep

LEMMA FunctionIsSeq ==
    ASSUME NEW S, NEW n \in Nat, NEW f \in [1 .. n -> S]
    PROVE  f \in Seq(S) /\ Len(f) = n
  <1>1. f \in Seq(S)
    BY SeqDef
  <1>2. DOMAIN f = 1 .. Len(f) /\ Len(f) \in Nat
    BY <1>1, LenProperties
  <1>3. 1 .. Len(f) = 1 .. n
    BY <1>2
  <1> QED BY <1>1, <1>2, <1>3

LEMMA PrefixOfBuf ==
    ASSUME NEW n \in Nat, BufHolds(n)
    PROVE  /\ SubSeq(rxBuf, 1, n) \in Seq(Data)
           /\ Len(SubSeq(rxBuf, 1, n)) = n
           /\ \A i \in 1 .. n : SubSeq(rxBuf, 1, n)[i] = rxBuf[i]
  <1>1. 1 \in Int /\ n \in Int /\ (IF 1 <= n THEN n - 1 + 1 ELSE 0) = n /\ n - 1 + 1 = n
        /\ \A i \in 1 .. n : 1 + i - 1 = i
    OBVIOUS
  <1>2. \A i \in 1 .. n : rxBuf[i] \in Data
    BY DEF BufHolds
  <1> QED BY <1>1, <1>2, SubSeqProperties

\* A read copies the next bytes of the message in rx_buf, as far as it goes.
LEMMA ReadCopies ==
    ASSUME PioInv, NEW len \in ReadSizes, Read(len)
    PROVE  /\ got' \in Seq(Data) /\ ppos' = ppos + Len(got')
           /\ got' = SubSeq(SubSeq(rxBuf, 1, rxSize), ppos + 1,
                            IF ppos + len < rxSize THEN ppos + len ELSE rxSize)
  <1> DEFINE n == IF rxSize > len + ppos THEN len
                  ELSE IF rxSize >= ppos THEN rxSize - ppos ELSE 0
             last == IF ppos + len < rxSize THEN ppos + len ELSE rxSize
             mail == SubSeq(rxBuf, 1, rxSize)
  <1>1. /\ len \in Nat /\ rxSize \in Nat /\ ppos \in Nat /\ BufHolds(rxSize)
    BY PioReadSizesAssumption, PioNamesAssumption
       DEF Read, PioInv, Typed, ReceptionTyped, LockFacts, BufferFacts, Draining
  <1>2. got' = [i \in 1 .. n |-> rxBuf[ppos + i]] /\ ppos' = ppos + n
    BY DEF Read
  <1>3. /\ n \in Nat /\ last \in Nat
        /\ (IF ppos + 1 <= last THEN last - (ppos + 1) + 1 ELSE 0) = n
        /\ \A i \in 1 .. n : ppos + i \in 1 .. rxSize /\ i \in 1 .. last - (ppos + 1) + 1
                             /\ ppos + 1 + i - 1 = ppos + i
        /\ \A i \in ppos + 1 .. last : i \in 1 .. rxSize
        /\ ppos + 1 \in Int
    BY <1>1
  <1> HIDE DEF n, last
  <1>4. /\ mail \in Seq(Data) /\ Len(mail) = rxSize
        /\ \A i \in 1 .. rxSize : mail[i] = rxBuf[i]
    BY <1>1, PrefixOfBuf
  <1> HIDE DEF mail
  <1>5. \A i \in 1 .. n : rxBuf[ppos + i] \in Data
    BY <1>1, <1>3 DEF BufHolds
  <1>6. got' \in [1 .. n -> Data]
    BY <1>2, <1>5
  <1>7. got' \in Seq(Data) /\ Len(got') = n
    BY <1>3, <1>6, FunctionIsSeq
  <1>8. \A i \in ppos + 1 .. last : mail[i] \in Data
    BY <1>3, <1>4, ElementOfSeq
  <1>9. /\ SubSeq(mail, ppos + 1, last) \in Seq(Data)
        /\ Len(SubSeq(mail, ppos + 1, last)) = n
        /\ \A i \in 1 .. last - (ppos + 1) + 1 :
             SubSeq(mail, ppos + 1, last)[i] = mail[ppos + 1 + i - 1]
    BY <1>3, <1>8, SubSeqProperties
  <1>10. \A i \in 1 .. n : got'[i] = SubSeq(mail, ppos + 1, last)[i]
    BY <1>2, <1>3, <1>4, <1>9
  <1>11. got' = SubSeq(mail, ppos + 1, last)
    BY <1>7, <1>9, <1>10, SeqEqual
  <1> QED BY <1>2, <1>7, <1>11 DEF mail, last

LEMMA ReaderKeeps ==
    ASSUME PioInv, (\E len \in ReadSizes : Read(len)) \/ Open
    PROVE  PioInv'
  <1>1. ppos' \in Nat
    BY PioReadSizesAssumption DEF Read, Open, PioInv, Typed, ReceptionTyped
  <1>2. reads' \in 0 .. MaxReads
    BY PioBoundsAssumption DEF Read, Open, PioInv, Typed, BoundsTyped
  <1>3. /\ UNCHANGED <<registers, lock, handler, work, writer, ghosts, letters, signals>>
        /\ onCpu' \subseteq onCpu
    BY DEF Read, Open
  <1>4. got' \in Seq(Data)
    BY ReadCopies DEF Open, PioInv, Typed, ReceptionTyped
  <1>5. Typed'
    BY <1>1, <1>2, <1>3, <1>4 DEF PioInv, Typed, RegistersTyped, WritersTyped, ReceptionTyped,
       BoundsTyped, registers, handler, work, writer, ghosts
  <1>6. FlagFacts' /\ LockFacts' /\ WriterFacts'
    BY <1>3 DEF PioInv, FlagFacts, LockFacts, WriterFacts, At, IsFull, registers, work,
       writer
  <1>7. BufferFacts'
    BY <1>3, BufferKept DEF PioInv, registers, work
  <1> QED BY <1>5, <1>6, <1>7 DEF PioInv

LEMMA CallKeeps == ASSUME PioInv, NEW w \in Writers, Call(w) PROVE PioInv'
  <1>1. /\ todo[w] \in Seq(Seq(Data)) /\ todo[w] # <<>> /\ DOMAIN wpc = Writers
        /\ DOMAIN todo = Writers /\ DOMAIN user = Writers
    BY DEF Call, PioInv, Typed, WritersTyped
  <1>2. /\ Head(todo[w]) \in Seq(Data) /\ Tail(todo[w]) \in Seq(Seq(Data))
        /\ Len(Tail(todo[w])) = Len(todo[w]) - 1 /\ Len(todo[w]) \in Nat
        /\ \A i \in 1 .. Len(Tail(todo[w])) : Tail(todo[w])[i] = todo[w][i + 1]
    BY <1>1, HeadTailProperties, LenProperties
  <1>3. 1 \in 1 .. Len(todo[w]) /\ \A i \in 1 .. Len(Tail(todo[w])) : i + 1 \in 1 .. Len(todo[w])
    <2>1. Len(todo[w]) # 0
      BY <1>1, EmptySeq
    <2> QED BY <1>2, <2>1
  <1>4. Typed'
    BY <1>2 DEF Call, Goto, PioInv, Typed, RegistersTyped, WritersTyped, ReceptionTyped,
       BoundsTyped, registers, handler, work, reader, ghosts, bounds
  <1>5. FlagFacts' /\ LockFacts'
    BY <1>1 DEF Call, Goto, At, PioInv, FlagFacts, LockFacts, IsFull, registers, work
  <1>6. WriterFacts'
    <2>1. /\ todo' = [todo EXCEPT ![w] = Tail(todo[w])]
          /\ user' = [user EXCEPT ![w] = Head(todo[w])]
          /\ wpc' = [wpc EXCEPT ![w] = "lock"] /\ UNCHANGED <<signalled, txFifo>>
      BY DEF Call, Goto, registers
    <2>2. Head(todo[w]) \in CallsOf(w)
      BY <1>1, <1>3 DEF PioInv, WriterFacts
    <2>3. \A i \in 1 .. Len(Tail(todo[w])) : Tail(todo[w])[i] \in CallsOf(w)
      BY <1>2, <1>3 DEF PioInv, WriterFacts
    <2> QED BY <1>1, <2>1, <2>2, <2>3 DEF PioInv, WriterFacts, At, IsFull
  <1>7. BufferFacts'
    BY BufferKept DEF Call, PioInv, registers, work
  <1> QED BY <1>4, <1>5, <1>6, <1>7 DEF PioInv

LEMMA LockKeeps ==
    ASSUME PioInv, NEW w \in Writers, WriteLock(w) \/ WriteUnlock(w)
    PROVE  PioInv'
  <1>1. DOMAIN wpc = Writers
    BY DEF PioInv, Typed, WritersTyped
  <1>2. reported' \in Nat
    <2>1. reported \in Nat /\ written[w] \in Nat
      BY DEF PioInv, Typed, WritersTyped
    <2> QED BY <2>1 DEF WriteLock, WriteUnlock, ghosts
  <1>3. Typed'
    <2>1. WritersTyped'
      <3>1. CASE WriteLock(w)
        BY <1>2, <3>1 DEF WriteLock, Goto, PioInv, Typed, WritersTyped, ghosts
      <3>2. CASE WriteUnlock(w)
        BY <1>2, <3>2 DEF WriteUnlock, Goto, PioInv, Typed, WritersTyped
      <3> QED BY <3>1, <3>2
    <2>2. RegistersTyped' /\ ReceptionTyped' /\ BoundsTyped'
      BY DEF WriteLock, WriteUnlock, PioInv, Typed, RegistersTyped, ReceptionTyped,
             BoundsTyped, registers, handler, work, reader, ghosts, bounds
    <2> QED BY <2>1, <2>2 DEF Typed
  <1>4. LockFacts'
    BY <1>1, PioNamesAssumption
    DEF WriteLock, WriteUnlock, Goto, At, PioInv, LockFacts, work
  <1>5. FlagFacts' /\ WriterFacts'
    BY <1>1 DEF WriteLock, WriteUnlock, Goto, At, PioInv, FlagFacts, WriterFacts, IsFull,
                registers, LockFacts
  <1>6. BufferFacts'
    BY BufferKept DEF WriteLock, WriteUnlock, PioInv, registers, work
  <1> QED BY <1>3, <1>4, <1>5, <1>6 DEF PioInv

LEMMA WaitKeeps ==
    ASSUME PioInv, NEW w \in Writers, WaitEvent(w) \/ Signal(w)
    PROVE  PioInv'
  <1>1. DOMAIN wpc = Writers
    BY DEF PioInv, Typed, WritersTyped
  <1>2. signals' \in 0 .. MaxSignals
    BY PioBoundsAssumption DEF WaitEvent, Signal, PioInv, Typed, BoundsTyped, bounds
  <1>3. Typed'
    <2>1. CASE WaitEvent(w)
      <3>1. onCpu' \subseteq Writers \cup {"rx_work", "reader"}
        BY <2>1 DEF WaitEvent, PioInv, Typed, ReceptionTyped
      <3>2. wpc' \in [Writers -> {"idle", "lock", "wait", "asleep", "put"}]
        BY <2>1 DEF WaitEvent, Goto, PioInv, Typed, WritersTyped
      <3>3. UNCHANGED <<registers, lock, handler, work, reader, todo, user, written,
                        signalled, ghosts, bounds>>
        BY <2>1 DEF WaitEvent
      <3> QED BY <3>1, <3>2, <3>3 DEF PioInv, Typed, RegistersTyped, WritersTyped,
              ReceptionTyped, BoundsTyped, registers, handler, work, reader, ghosts, bounds
    <2>2. CASE Signal(w)
      BY <1>2, <2>2 DEF Signal, PioInv, Typed, RegistersTyped, WritersTyped,
         ReceptionTyped, BoundsTyped, registers, handler, work, reader, ghosts
    <2> QED BY <2>1, <2>2
  <1>4. FlagFacts' /\ LockFacts'
    BY <1>1 DEF WaitEvent, Signal, Goto, At, PioInv, FlagFacts, LockFacts, IsFull,
                registers, work
  <1>5. WriterFacts'
    BY <1>1, <1>2 DEF WaitEvent, Signal, Goto, At, PioInv, WriterFacts, FlagFacts, IsFull,
                registers
  <1>6. BufferFacts'
    BY BufferKept DEF WaitEvent, Signal, PioInv, registers, work
  <1> QED BY <1>3, <1>4, <1>5, <1>6 DEF PioInv

\* Only the holder of write_lock writes DR, so the byte of an undisturbed
\* writer finds the room it waited for.
LEMMA PutKeeps == ASSUME PioInv, NEW w \in Writers, Put(w) PROVE PioInv'
  <1>1. /\ user[w] \in Seq(Data) /\ user[w] # <<>> /\ DOMAIN wpc = Writers
        /\ DOMAIN user = Writers
    BY DEF Put, PioInv, Typed, WritersTyped, WriterFacts
  <1>2. Head(user[w]) \in Data /\ Tail(user[w]) \in Seq(Data)
    BY <1>1, HeadTailProperties
  <1>3. RegistersTyped' /\ FlagFacts' /\ rxFifo' = rxFifo
    BY <1>2, WriteDRKeeps DEF Put, PioInv, Typed
  <1>4. written' \in [Writers -> Nat]
    BY DEF Put, PioInv, Typed, WritersTyped
  <1>5. Typed'
    BY <1>2, <1>3, <1>4 DEF Put, Goto, PioInv, Typed, WritersTyped, ReceptionTyped,
       BoundsTyped, handler, work, reader, ghosts, bounds
  <1>6. LockFacts'
    BY <1>1 DEF Put, Goto, At, PioInv, LockFacts, work
  <1>7. \A v \in Writers : wpc'[v] # "put"
    BY <1>1 DEF Put, Goto, At, PioInv, LockFacts
  <1>8. WriterFacts'
    BY <1>1, <1>7 DEF Put, Goto, At, PioInv, WriterFacts
  <1>9. BufferFacts'
    BY <1>3, BufferKept DEF Put, PioInv, work
  <1> QED BY <1>3, <1>5, <1>6, <1>8, <1>9 DEF PioInv

LEMMA PioInvNext == PioInv /\ [Next]_vars => PioInv'
  <1> SUFFICES ASSUME PioInv, [Next]_vars PROVE PioInv'
    OBVIOUS
  <1>1. CASE HostSends \/ HostFetches
    BY <1>1, SendKeeps, FetchKeeps
  <1>2. CASE Interrupt
    BY <1>2, InterruptKeeps
  <1>3. CASE WorkStep
    BY <1>3, WorkKeeps
  <1>4. CASE (\E len \in ReadSizes : Read(len)) \/ Open
    BY <1>4, ReaderKeeps
  <1>5. ASSUME NEW w \in Writers, WriterStep(w) \/ Signal(w) PROVE PioInv'
    BY <1>5, CallKeeps, LockKeeps, WaitKeeps, PutKeeps DEF WriterStep
  <1>6. ASSUME NEW t, Spin(t), t \in Writers \cup {"rx_work", "reader"} PROVE PioInv'
    <2>1. onCpu' \subseteq Writers \cup {"rx_work", "reader"}
      BY <1>6 DEF Spin, PioInv, Typed, ReceptionTyped
    <2>2. UNCHANGED <<registers, lock, handler, work, reader, writer, ghosts, bounds>>
      BY <1>6 DEF Spin
    <2>3. Typed'
      BY <2>1, <2>2 DEF PioInv, Typed, RegistersTyped, WritersTyped, ReceptionTyped,
         BoundsTyped, registers, handler, work, reader, writer, ghosts, bounds
    <2>4. FlagFacts' /\ LockFacts' /\ WriterFacts' /\ BufferFacts'
      BY <2>2, BufferKept DEF PioInv, FlagFacts, LockFacts, WriterFacts, At, IsFull,
         registers, work, writer
    <2> QED BY <2>3, <2>4 DEF PioInv
  <1>7. CASE UNCHANGED vars
    <2>1. UNCHANGED <<registers, sync, handler, work, reader, writer, ghosts, bounds>>
      BY <1>7 DEF vars
    <2>2. Typed'
      BY <2>1 DEF PioInv, Typed, RegistersTyped, WritersTyped, ReceptionTyped,
         BoundsTyped, registers, handler, work, reader, writer, ghosts, bounds
    <2>3. FlagFacts' /\ LockFacts' /\ WriterFacts' /\ BufferFacts'
      BY <2>1, BufferKept DEF PioInv, FlagFacts, LockFacts, WriterFacts, At, IsFull,
         registers, work, writer
    <2> QED BY <2>2, <2>3 DEF PioInv
  <1> QED BY <1>1, <1>2, <1>3, <1>4, <1>5, <1>6, <1>7 DEF Next

LEMMA PioInvCorrect == Spec => []PioInv
  BY PioInvInit, PioInvNext, PTL DEF Spec

\* Every variable keeps its type, whatever host, writers, readers and signals
\* do: rx_work_handler stays inside rx_buf, and comento_mmio_read returns only
\* bytes that were received.
THEOREM PioTypeCorrect == Spec => []PioTypeOK
  <1>1. PioInv => PioTypeOK
    BY DEF PioInv, Typed, RegistersTyped, WritersTyped, ReceptionTyped, BoundsTyped, PioTypeOK
  <1> QED BY <1>1, PioInvCorrect, PTL
-----------------------------------------------------------------------------
\* A byte that write() counts and the device drops is lost to a signal:
\* wait_event_interruptible and writel in comento_mmio_write, for any number
\* of writers that share the lock.
THEOREM LostToSignalsCorrect == Spec => LostToSignalsOnly
  <1> DEFINE Kept == \A w \in Writers : Len(user'[w]) < Len(user[w]) /\ txFifo' = txFifo
                                          => w \in signalled
  <1>1. PioInv /\ [Next]_vars => [Kept]_vars
    <2> SUFFICES ASSUME PioInv, Next, NEW v \in Writers,
                        Len(user'[v]) < Len(user[v]), txFifo' = txFifo
                 PROVE  v \in signalled
      OBVIOUS
    <2>1. /\ user \in [Writers -> Seq(Data)] /\ txFifo \in Seq(Data)
          /\ \A w \in Writers : user[w] \in Seq(Data) /\ Len(user[w]) \in Nat
      BY LenProperties DEF PioInv, Typed, WritersTyped, RegistersTyped
    <2>2. ~(Len(user[v]) < Len(user[v])) /\ user'[v] # user[v]
      BY <2>1
    <2>3. PICK w \in Writers : Call(w) \/ Put(w)
      BY <2>2 DEF Next, Spin, HostSends, HostFetches, Interrupt, TakeInterrupt, ReadMIS,
         AckInterrupt, WakeUp, ScheduleWork, WorkStep, TakeWork, WorkLock, Drain,
         WorkUnlock, Read, Open, WriterStep, WriteLock, WaitEvent, WriteUnlock, Signal,
         writer
    <2>4. w = v
      BY <2>1, <2>2, <2>3 DEF Call, Put
    <2>5. CASE Call(w)
      <3>1. user[v] = <<>> /\ Len(user[v]) = 0
        BY <2>4, <2>5, EmptySeq DEF Call, PioInv, WriterFacts
      <3>2. Head(todo[v]) \in Seq(Data) /\ user'[v] = Head(todo[v])
        BY <2>1, <2>4, <2>5, HeadTailProperties DEF Call, PioInv, Typed, WritersTyped
      <3>3. Len(user'[v]) \in Nat
        BY <3>2, LenProperties
      <3>4. ~(Len(user'[v]) < 0)
        BY <3>3
      <3> QED BY <3>1, <3>4
    <2>6. CASE Put(w)
      <3>1. user[w] # <<>> /\ (IsFull(txFifo) => w \in signalled)
        BY <2>6 DEF Put, PioInv, WriterFacts
      <3>2. Head(user[w]) \in Data
        BY <2>1, <3>1, HeadTailProperties
      <3>3. ~IsFull(txFifo) => txFifo' = Append(txFifo, Head(user[w]))
        BY <2>6 DEF Put, WriteDR
      <3>4. Len(Append(txFifo, Head(user[w]))) = Len(txFifo) + 1 /\ Len(txFifo) \in Nat
        BY <2>1, <3>2, AppendProperties, LenProperties
      <3>5. Len(txFifo) # Len(txFifo) + 1
        BY <3>4
      <3> QED BY <2>4, <3>1, <3>3, <3>4, <3>5
    <2> QED BY <2>3, <2>5, <2>6
  <1> QED BY <1>1, PioInvCorrect, PTL DEF Spec, LostToSignalsOnly
-----------------------------------------------------------------------------
(* The byte stream, with the holder of the lock as its writer. *)

LEMMA HolderIs == ASSUME NEW w \in Writers, lock = w PROVE Writing /\ Holder = w
  BY DEF Holder, Writing

LEMMA StreamStutters ==
    ASSUME PioInv, UNCHANGED <<lock, txFifo, fetched, reported>>,
           \A w \in Writers : lock = w => /\ user'[w] = user[w] /\ written'[w] = written[w]
                                         /\ (w \in signalled') = (w \in signalled)
    PROVE  UNCHANGED Stream!vars
  <1>1. Writing' = Writing
    BY DEF Writing
  <1>2. Holder' = Holder
    BY DEF Holder
  <1>3. Writing => /\ user'[Holder] = user[Holder] /\ written'[Holder] = written[Holder]
                   /\ (Holder \in signalled') = (Holder \in signalled)
    BY HolderIs DEF Writing
  <1> QED BY <1>1, <1>2, <1>3 DEF Stream!vars

\* Everything but the steps below leaves the stream alone.
LEMMA QuietSteps ==
    ASSUME PioInv,
           \/ \E t \in Writers \cup {"rx_work", "reader"} : Spin(t)
           \/ HostSends \/ Interrupt \/ TakeWork \/ Drain
           \/ \E len \in ReadSizes : Read(len)
           \/ Open
           \/ \E w \in Writers : Call(w) \/ WaitEvent(w)
    PROVE  UNCHANGED Stream!vars
  <1>1. UNCHANGED <<lock, txFifo, fetched, reported>>
    BY DEF Spin, HostSends, SetData, Interrupt, TakeInterrupt, ReadMIS, AckInterrupt, WriteICR,
       WakeUp, ScheduleWork, TakeWork, Drain, ReadDR, Read, Open, Call, WaitEvent,
       registers, ghosts
  <1>2. \A w \in Writers : lock = w => /\ user'[w] = user[w] /\ written'[w] = written[w]
                                      /\ (w \in signalled') = (w \in signalled)
    <2>1. CASE \E v \in Writers : Call(v)
      BY <2>1 DEF Call, At, PioInv, LockFacts, Typed, WritersTyped
    <2>2. CASE ~\E v \in Writers : Call(v)
      BY <2>2 DEF Spin, HostSends, Interrupt, TakeInterrupt, ReadMIS, AckInterrupt, WakeUp,
         ScheduleWork, TakeWork, Drain, Read, Open, WaitEvent, writer
    <2> QED BY <2>1, <2>2
  <1> QED BY <1>1, <1>2, StreamStutters

LEMMA SignalIsSignal ==
    ASSUME PioInv, NEW w \in Writers, Signal(w)
    PROVE  Stream!Signal \/ UNCHANGED Stream!vars
  <1>1. /\ UNCHANGED <<lock, txFifo, fetched, reported, user, written>>
        /\ signalled' = signalled \cup {w}
    BY DEF Signal, registers, ghosts
  <1>2. CASE lock = w
    <2>1. Writing /\ Holder = w /\ Writing' /\ Holder' = w /\ w \in signalled'
      BY <1>1, <1>2 DEF Writing, Holder
    <2> QED BY <1>1, <2>1 DEF Stream!Signal
  <1>3. CASE lock # w
    <2>1. \A v \in Writers : lock = v => (v \in signalled') = (v \in signalled)
      BY <1>1, <1>3
    <2> QED BY <1>1, <2>1, StreamStutters
  <1> QED BY <1>2, <1>3

LEMMA WorkLocksAreQuiet ==
    ASSUME PioInv, WorkLock \/ WorkUnlock
    PROVE  UNCHANGED Stream!vars
  <1>1. ~Writing /\ ~Writing'
    BY PioNamesAssumption DEF WorkLock, WorkUnlock, Writing, PioInv, LockFacts
  <1>2. UNCHANGED <<txFifo, fetched, reported>>
    BY DEF WorkLock, WorkUnlock, registers, ghosts
  <1>3. Writing' = Writing
    BY <1>1 DEF Writing
  <1> QED BY <1>1, <1>2, <1>3 DEF Stream!vars

LEMMA LockIsCall ==
    ASSUME PioInv, NEW w \in Writers, WriteLock(w)
    PROVE  \E msg \in UNION {{Script[v][i] : i \in DOMAIN Script[v]} : v \in Writers} :
             Stream!Call(msg)
  <1>1. user[w] \in CallsOf(w)
    BY DEF WriteLock, PioInv, WriterFacts
  <1>2. user[w] \in UNION {{Script[v][i] : i \in DOMAIN Script[v]} : v \in Writers}
    BY <1>1 DEF CallsOf
  <1>3. ~Writing
    BY PioNamesAssumption DEF WriteLock, Writing
  <1>4. Writing' /\ Holder' = w
    BY DEF WriteLock, Writing, Holder
  <1>5. user'[w] = user[w] /\ written'[w] = 0 /\ UNCHANGED <<txFifo, fetched, reported>>
    BY DEF WriteLock, registers, ghosts, PioInv, Typed, WritersTyped
  <1>6. Stream!Call(user[w])
    BY <1>3, <1>4, <1>5 DEF Stream!Call
  <1> QED BY <1>2, <1>6

LEMMA PutEmitsOrLoses ==
    ASSUME PioInv, NEW w \in Writers, Put(w)
    PROVE  Stream!Emit \/ Stream!Lose
  <1>1. /\ user[w] # <<>> /\ (IsFull(txFifo) => w \in signalled) /\ lock = w
        /\ DOMAIN user = Writers /\ DOMAIN written = Writers
    BY DEF Put, PioInv, WriterFacts, LockFacts, Typed, WritersTyped, At
  <1>2. Writing /\ Holder = w /\ Writing' /\ Holder' = w
    BY <1>1 DEF Put, Writing, Holder
  <1>3. /\ user'[w] = Tail(user[w]) /\ written'[w] = written[w] + 1
        /\ UNCHANGED <<fetched, reported, signalled>> /\ WriteDR(Head(user[w]))
    BY <1>1 DEF Put, ghosts
  <1>4. CASE IsFull(txFifo)
    <2>1. txFifo' = txFifo /\ Len(txFifo) = FifoSize - 1
      BY <1>3, <1>4 DEF WriteDR, IsFull
    <2>2. w \in signalled
      BY <1>1, <1>4
    <2> QED BY <1>1, <1>2, <1>3, <2>1, <2>2 DEF Stream!Lose
  <1>5. CASE ~IsFull(txFifo)
    <2>1. txFifo' = Append(txFifo, Head(user[w]))
      BY <1>3, <1>5 DEF WriteDR
    <2>2. Len(txFifo) < FifoSize - 1
      BY <1>5, LenProperties, PioSizeAssumption DEF IsFull, PioInv, Typed, RegistersTyped
    <2> QED BY <1>1, <1>2, <1>3, <2>1, <2>2 DEF Stream!Emit
  <1> QED BY <1>4, <1>5

LEMMA UnlockIsReturn ==
    ASSUME PioInv, NEW w \in Writers, WriteUnlock(w)
    PROVE  Stream!Return
  <1>1. lock = w /\ user[w] = <<>> /\ lock' = NoOne /\ reported' = reported + written[w]
    BY DEF WriteUnlock, At, PioInv, LockFacts
  <1>2. Writing /\ Holder = w /\ ~Writing'
    BY <1>1, PioNamesAssumption DEF Writing, Holder
  <1>3. UNCHANGED <<txFifo, fetched>>
    BY DEF WriteUnlock, registers
  <1> QED BY <1>1, <1>2, <1>3 DEF Stream!Return

LEMMA FetchIsFetch == ASSUME PioInv, HostFetches PROVE Stream!Fetch
  <1>1. UNCHANGED <<lock, user, written, reported, signalled>> /\ txFifo' = <<>>
        /\ fetched' = fetched \o txFifo
    BY DEF HostFetches, GetData, writer
  <1>2. Writing' = Writing /\ Holder' = Holder
    BY <1>1 DEF Writing, Holder
  <1> QED BY <1>1, <1>2 DEF Stream!Fetch

\* comento_mmio_write is a byte stream to the host, for any number of
\* writers: the bytes of each call in order and none twice, those of two
\* calls never mixed, none given up, each call reporting all it was given, and
\* none dropped by a full device but under a signal pending for its caller.
THEOREM PioStreamCorrect == Spec => IsByteStream
  <1>1. Init => Stream!Init
    <2> SUFFICES ASSUME Init PROVE Stream!Init
      OBVIOUS
    <2>1. ~Writing
      BY PioNamesAssumption DEF Init, Writing
    <2> QED BY <2>1 DEF Init, Stream!Init
  <1>2. PioInv /\ [Next]_vars => [Stream!Next]_(Stream!vars)
    <2> SUFFICES ASSUME PioInv, [Next]_vars
                 PROVE  Stream!Next \/ UNCHANGED Stream!vars
      OBVIOUS
    <2>1. CASE (\E t \in Writers \cup {"rx_work", "reader"} : Spin(t))
               \/ HostSends \/ Interrupt \/ TakeWork \/ Drain
               \/ (\E len \in ReadSizes : Read(len)) \/ Open
      BY <2>1, QuietSteps
    <2>2. CASE WorkLock \/ WorkUnlock
      BY <2>2, WorkLocksAreQuiet
    <2>3. CASE HostFetches
      BY <2>3, FetchIsFetch DEF Stream!Next
    <2>4. ASSUME NEW w \in Writers, WriterStep(w) \/ Signal(w)
          PROVE  Stream!Next \/ UNCHANGED Stream!vars
      <3>1. CASE Call(w) \/ WaitEvent(w)
        BY <3>1, QuietSteps
      <3>5. CASE Signal(w)
        BY <3>5, SignalIsSignal DEF Stream!Next
      <3>2. CASE WriteLock(w)
        BY <3>2, LockIsCall DEF Stream!Next
      <3>3. CASE Put(w)
        BY <3>3, PutEmitsOrLoses DEF Stream!Next
      <3>4. CASE WriteUnlock(w)
        BY <3>4, UnlockIsReturn DEF Stream!Next
      <3> QED BY <2>4, <3>1, <3>2, <3>3, <3>4, <3>5 DEF WriterStep
    <2>5. CASE UNCHANGED vars
      BY <2>5, StreamStutters DEF vars, registers, writer, ghosts
    <2> QED BY <2>1, <2>2, <2>3, <2>4, <2>5 DEF Next, WorkStep
  <1> QED BY <1>1, <1>2, PioInvCorrect, PTL DEF Spec, IsByteStream, Stream!Spec
-----------------------------------------------------------------------------
(* Reception.  While the host waits for it to rest, a message is in one    *)
(* place at a time on its way from the interrupt to the bottom half, and   *)
(* no bottom half runs without one.                                        *)

OnItsWay ==
    /\ "RX" \in ris => ~workPending /\ workPc = "idle"
    /\ irqBit = "RX" => /\ ~workPending /\ workPc = "idle"
                        /\ \/ irqPc = "ack" /\ "RX" \in ris
                           \/ irqPc = "act" /\ "RX" \notin ris
    /\ workPending => workPc = "idle"
    /\ "RX" \in ris \/ irqBit = "RX" \/ workPending \/ workPc = "lock" => rxFifo # <<>>

BoxInv == PioInv /\ (~hasty => OnItsWay)

LEMMA BoxInvInit == Init => OnItsWay
  BY DEF Init, OnItsWay

\* One round of the loop moves the first byte of the FIFO to the end of
\* what is drained.
LEMMA DrainMoves ==
    ASSUME PioInv, Drain
    PROVE  /\ Draining /\ Draining' /\ ris' \subseteq ris
           /\ SubSeq(rxBuf', 1, count') \o rxFifo' = SubSeq(rxBuf, 1, count) \o rxFifo
  <1> DEFINE a == SubSeq(rxBuf, 1, count)
             b == SubSeq(rxBuf', 1, count')
  <1>1. /\ Draining /\ Draining' /\ rxFifo # <<>> /\ rxFifo \in Seq(Data)
        /\ count \in Nat /\ BufHolds(count) /\ count + Len(rxFifo) <= FifoSize
        /\ rxBuf \in [1 .. FifoSize -> Data \cup {Junk}]
    BY DEF Drain, Draining, PioInv, Typed, RegistersTyped, ReceptionTyped,
           FlagFacts, BufferFacts
  <1>2. rxFifo' = Tail(rxFifo) /\ ris' \subseteq ris
    BY <1>1 DEF Drain, ReadDR
  <1>3. /\ Head(rxFifo) \in Data /\ rxFifo' \in Seq(Data) /\ Len(rxFifo') = Len(rxFifo) - 1
        /\ \A i \in 1 .. Len(rxFifo') : rxFifo'[i] = rxFifo[i + 1]
        /\ Len(rxFifo) \in Nat \ {0} /\ Head(rxFifo) = rxFifo[1]
    BY <1>1, <1>2, HeadTailProperties, EmptySeq
  <1>4. /\ count < FifoSize /\ count + 1 \in 1 .. FifoSize /\ count + 1 \in Nat
        /\ \A i \in 1 .. count : i \in 1 .. FifoSize /\ i # count + 1
        /\ \A i \in 1 .. count + 1 : i \in 1 .. count \/ i = count + 1
    BY <1>1, <1>3, PioSizeAssumption
  <1>5. count' = count + 1 /\ rxBuf' = [rxBuf EXCEPT ![count + 1] = Head(rxFifo)]
    BY <1>4 DEF Drain
  <1>6. /\ rxBuf'[count + 1] = Head(rxFifo) /\ \A i \in 1 .. count : rxBuf'[i] = rxBuf[i]
    BY <1>1, <1>4, <1>5
  <1>7. BufHolds(count)'
    BY <1>1, <1>3, <1>4, <1>5, <1>6 DEF BufHolds
  <1>8. a \in Seq(Data) /\ Len(a) = count /\ \A i \in 1 .. count : a[i] = rxBuf[i]
    BY <1>1, PrefixOfBuf
  <1>9. /\ b \in Seq(Data) /\ Len(b) = count + 1
        /\ \A i \in 1 .. count + 1 : b[i] = rxBuf'[i]
    <2>1. \A i \in 1 .. count + 1 : rxBuf'[i] \in Data
      BY <1>5, <1>7 DEF BufHolds
    <2>2. 1 \in Int /\ count + 1 \in Int /\ 1 <= count + 1 /\ count + 1 - 1 + 1 = count + 1
          /\ \A i \in 1 .. count + 1 : 1 + i - 1 = i
      BY <1>1
    <2> QED BY <1>5, <2>1, <2>2, SubSeqProperties
  <1> HIDE DEF a, b
  <1>10. /\ a \o rxFifo \in Seq(Data) /\ Len(a \o rxFifo) = count + Len(rxFifo)
         /\ \A i \in 1 .. count + Len(rxFifo) :
              (a \o rxFifo)[i] = IF i <= count THEN a[i] ELSE rxFifo[i - count]
    BY <1>1, <1>8, ConcatProperties
  <1>11. /\ b \o rxFifo' \in Seq(Data) /\ Len(b \o rxFifo') = count + 1 + Len(rxFifo')
         /\ \A i \in 1 .. count + 1 + Len(rxFifo') :
              (b \o rxFifo')[i] = IF i <= count + 1 THEN b[i] ELSE rxFifo'[i - (count + 1)]
    <2> DEFINE f == rxFifo'
    <2>1. f \in Seq(Data)
      BY <1>3
    <2> HIDE DEF f
    <2>2. /\ b \o f \in Seq(Data) /\ Len(b \o f) = Len(b) + Len(f)
          /\ \A i \in 1 .. Len(b) + Len(f) :
               (b \o f)[i] = IF i <= Len(b) THEN b[i] ELSE f[i - Len(b)]
      BY <1>9, <2>1, ConcatProperties
    <2> QED BY <1>9, <2>2 DEF f
  <1>12. count + 1 + Len(rxFifo') = count + Len(rxFifo)
    BY <1>1, <1>3
  <1>13. ASSUME NEW i \in 1 .. count + Len(rxFifo)
         PROVE  (b \o rxFifo')[i] = (a \o rxFifo)[i]
    <2>1. CASE i <= count
      <3>1. i \in 1 .. count /\ i \in 1 .. count + 1 /\ i <= count + 1
        BY <1>1, <2>1
      <3> QED BY <1>6, <1>8, <1>9, <1>10, <1>11, <1>12, <2>1, <3>1
    <2>2. CASE i = count + 1
      <3>1. ~(i <= count) /\ i <= count + 1 /\ i - count = 1 /\ i \in 1 .. count + 1
        BY <1>1, <2>2
      <3> QED BY <1>3, <1>6, <1>9, <1>10, <1>11, <1>12, <2>2, <3>1
    <2>3. CASE i > count + 1
      <3>1. /\ ~(i <= count) /\ ~(i <= count + 1)
            /\ i - (count + 1) \in 1 .. Len(rxFifo') /\ i - (count + 1) + 1 = i - count
        BY <1>1, <1>3, <2>3
      <3> QED BY <1>3, <1>10, <1>11, <1>12, <3>1
    <2>4. i <= count \/ i = count + 1 \/ i > count + 1
      BY <1>1, <1>3
    <2> QED BY <2>1, <2>2, <2>3, <2>4
  <1>14. b \o rxFifo' = a \o rxFifo
    BY <1>10, <1>11, <1>12, <1>13, SeqEqual
  <1> QED BY <1>1, <1>2, <1>3, <1>5, <1>7, <1>14 DEF a, b

LEMMA OnItsWayNext ==
    ASSUME BoxInv, [Next]_vars, ~hasty'
    PROVE  OnItsWay'
  <1>1. CASE HostSends
    <2>1. ReceptionRests /\ UNCHANGED <<handler, work>>
      BY <1>1 DEF HostSends
    <2>2. rxFifo' # <<>>
      BY <1>1, SetDataKeeps, HeadLetter DEF HostSends, BoxInv, PioInv, Typed
    <2> QED BY <2>1, <2>2 DEF OnItsWay, ReceptionRests, handler, work
  <1>2. CASE ~HostSends
    <2>1. hasty' = hasty
      BY <1>2 DEF Next, Spin, HostFetches, Interrupt, TakeInterrupt, ReadMIS, AckInterrupt,
         WakeUp, ScheduleWork, WorkStep, TakeWork, WorkLock, Drain, WorkUnlock, Read, Open,
         WriterStep, Call, WriteLock, WaitEvent, Put, WriteUnlock, Signal, ghosts, vars
    <2>2. OnItsWay
      BY <2>1 DEF BoxInv
    <2>3. ris \subseteq {"TX", "RX"} /\ irqBit \in {"TX", "RX"}
      BY DEF BoxInv, PioInv, Typed, RegistersTyped, ReceptionTyped
    <2>4. CASE HostFetches \/ Open \/ UNCHANGED vars
               \/ \E t \in Writers \cup {"rx_work", "reader"} : Spin(t)
      <3>1. UNCHANGED <<handler, work, rxFifo>> /\ ris' \cap {"RX"} = ris \cap {"RX"}
        BY <2>4 DEF HostFetches, GetData, Open, vars, Spin, registers
      <3> QED BY <2>2, <3>1 DEF OnItsWay, handler, work
    <2>5. CASE TakeInterrupt \/ ReadMIS
      BY <2>2, <2>3, <2>5 DEF TakeInterrupt, ReadMIS, OnItsWay, registers, work
    <2>6. CASE AckInterrupt
      BY <2>2, <2>3, <2>6 DEF AckInterrupt, WriteICR, OnItsWay, work
    <2>7. CASE WakeUp \/ ScheduleWork
      BY <2>2, <2>3, <2>7 DEF WakeUp, ScheduleWork, OnItsWay, registers, work
    <2>8. CASE TakeWork \/ WorkLock \/ WorkUnlock
      BY <2>2, <2>8 DEF TakeWork, WorkLock, WorkUnlock, OnItsWay, registers, handler
    <2>9. CASE Drain
      <3>1. workPc = "drain" /\ ris' \subseteq ris
        BY <2>9, DrainMoves DEF BoxInv, Draining
      <3> QED BY <2>2, <2>9, <3>1 DEF Drain, OnItsWay, handler
    <2>10. CASE \E len \in ReadSizes : Read(len)
      BY <2>2, <2>10 DEF Read, OnItsWay, registers, handler, work
    <2>11. ASSUME NEW w \in Writers, WriterStep(w) \/ Signal(w)
           PROVE  OnItsWay'
      <3>1. UNCHANGED <<handler, work>>
        BY <2>11 DEF WriterStep, Call, WriteLock, WaitEvent, Put, WriteUnlock, Signal
      <3>2. rxFifo' = rxFifo /\ ris' \cap {"RX"} = ris \cap {"RX"}
        BY <2>11 DEF WriterStep, Call, WriteLock, WaitEvent, Put, WriteDR, WriteUnlock,
           Signal, registers
      <3> QED BY <2>2, <3>1, <3>2 DEF OnItsWay, handler, work
    <2> QED BY <1>2, <2>4, <2>5, <2>6, <2>7, <2>8, <2>9, <2>10, <2>11
            DEF Next, WorkStep, Interrupt
  <1> QED BY <1>1, <1>2

LEMMA BoxInvCorrect == Spec => []BoxInv
  <1>1. Init => BoxInv
    BY PioInvInit, BoxInvInit DEF BoxInv
  <1>2. BoxInv /\ [Next]_vars => BoxInv'
    BY PioInvNext, OnItsWayNext DEF BoxInv
  <1> QED BY <1>1, <1>2, PTL DEF Spec
-----------------------------------------------------------------------------
(* The mailbox. *)

LEMMA BoxStutters ==
    ASSUME Draining' = Draining,
           UNCHANGED <<count, rxBuf, rxSize, rxFifo, ppos, got, hasty>>
    PROVE  UNCHANGED Box!vars
  BY DEF Box!vars

\* Appending a prefix of m gives a prefix of what appending m gives.
LEMMA AppendedPrefix ==
    ASSUME NEW q \in Seq(Data), NEW m \in Seq(Data), NEW n \in 0 .. Len(m)
    PROVE  /\ SubSeq(m, 1, n) \in Seq(Data)
           /\ q \o SubSeq(m, 1, n) = SubSeq(q \o m, 1, Len(q) + n)
  <1> DEFINE part == SubSeq(m, 1, n)
             all == q \o m
             k == Len(q) + n
             cut == SubSeq(all, 1, k)
  <1>1. Len(q) \in Nat /\ Len(m) \in Nat /\ n \in Nat
    BY LenProperties
  <1>2. /\ 1 \in Int /\ n \in Int /\ (IF 1 <= n THEN n - 1 + 1 ELSE 0) = n
        /\ n - 1 + 1 = n /\ \A i \in 1 .. n : 1 + i - 1 = i /\ i \in 1 .. Len(m)
    BY <1>1
  <1>3. \A i \in 1 .. n : m[i] \in Data
    BY <1>2, ElementOfSeq
  <1>4. part \in Seq(Data) /\ Len(part) = n /\ \A i \in 1 .. n : part[i] = m[i]
    BY <1>2, <1>3, SubSeqProperties
  <1> HIDE DEF part
  <1>5. /\ all \in Seq(Data) /\ Len(all) = Len(q) + Len(m)
        /\ \A i \in 1 .. Len(q) + Len(m) :
             all[i] = IF i <= Len(q) THEN q[i] ELSE m[i - Len(q)]
    BY ConcatProperties
  <1> HIDE DEF all
  <1>6. /\ 1 \in Int /\ k \in Int /\ (IF 1 <= k THEN k - 1 + 1 ELSE 0) = k /\ k \in Nat
        /\ k - 1 + 1 = k /\ \A i \in 1 .. k : 1 + i - 1 = i /\ i \in 1 .. Len(all)
    BY <1>1, <1>5
  <1>7. \A i \in 1 .. k : all[i] \in Data
    BY <1>5, <1>6, ElementOfSeq
  <1>8. cut \in Seq(Data) /\ Len(cut) = k /\ \A i \in 1 .. k : cut[i] = all[i]
    BY <1>6, <1>7, SubSeqProperties
  <1> HIDE DEF cut
  <1>9. /\ q \o part \in Seq(Data) /\ Len(q \o part) = k
        /\ \A i \in 1 .. k : (q \o part)[i] = IF i <= Len(q) THEN q[i] ELSE part[i - Len(q)]
    BY <1>4, ConcatProperties
  <1>10. ASSUME NEW i \in 1 .. k PROVE (q \o part)[i] = cut[i]
    <2>1. i \in 1 .. Len(q) + Len(m) /\ (~(i <= Len(q)) => i - Len(q) \in 1 .. n)
      BY <1>1
    <2> QED BY <1>4, <1>5, <1>8, <1>9, <2>1
  <1>11. q \o part = cut
    BY <1>8, <1>9, <1>10, SeqEqual
  <1> QED BY <1>4, <1>11 DEF part, cut, all

\* Whatever the host does not wait for, its message joins what is in transit
\* as far as the FIFO has room; it is cut short in an empty one only.
LEMMA SendIsAccept ==
    ASSUME BoxInv, HostSends
    PROVE  \E msg \in Sent : Box!Accept(msg)
  <1> DEFINE msg == Head(letters)
             drained == IF Draining THEN SubSeq(rxBuf, 1, count) ELSE <<>>
             parcel == drained \o rxFifo
             all == parcel \o msg
             fit == IF Len(all) <= FifoSize - 1 THEN Len(all) ELSE FifoSize - 1
             n == IF Len(msg) < Room(rxFifo) THEN Len(msg) ELSE Room(rxFifo)
             m == Len(parcel) + n
  <1>1. /\ msg \in Seq(Data) /\ msg # <<>> /\ msg \in Sent /\ Len(msg) \in Nat
    BY HeadLetter, LenProperties DEF HostSends, BoxInv, PioInv, Typed
  <1>2. /\ rxFifo' = rxFifo \o SubSeq(msg, 1, n) /\ hasty' = ~ReceptionRests
        /\ UNCHANGED <<work, reader>>
    BY DEF HostSends, SetData
  <1>3. /\ rxFifo \in Seq(Data) /\ Len(rxFifo) < FifoSize /\ Len(rxFifo) \in Nat
        /\ count \in Nat /\ BufHolds(count)
    BY LenProperties DEF BoxInv, PioInv, Typed, RegistersTyped, ReceptionTyped, BufferFacts
  <1>4. n \in 0 .. Len(msg) /\ n = IF Len(msg) <= FifoSize - 1 - Len(rxFifo) THEN Len(msg)
                                                      ELSE FifoSize - 1 - Len(rxFifo)
    BY <1>1, <1>3, PioSizeAssumption DEF Room
  <1>5. drained \in Seq(Data) /\ Len(drained) \in Nat
    BY <1>3, PrefixOfBuf, EmptySeq, LenProperties
  <1>6. parcel \in Seq(Data) /\ Len(parcel) = Len(drained) + Len(rxFifo)
    BY <1>3, <1>5, ConcatProperties
  <1>7. all \in Seq(Data) /\ Len(all) = Len(parcel) + Len(msg)
    BY <1>1, <1>6, ConcatProperties
  <1>8. ~hasty' => drained = <<>> /\ rxFifo = <<>>
    BY <1>2 DEF ReceptionRests, Draining
  <1>9. Draining' = Draining /\ drained' = drained
    BY <1>2 DEF Draining, work
  <1> HIDE DEF n, drained, msg
  <1>10. parcel' = SubSeq(all, 1, m)
    <2>1. SubSeq(msg, 1, n) \in Seq(Data) /\ parcel \o SubSeq(msg, 1, n) = SubSeq(all, 1, m)
      BY <1>1, <1>4, <1>6, AppendedPrefix
    <2>2. ASSUME NEW q \in Seq(Data)
          PROVE  (drained \o rxFifo) \o q = drained \o (rxFifo \o q)
      BY <1>3, <1>5, ConcatAssociative
    <2>3. parcel' = drained \o (rxFifo \o SubSeq(msg, 1, n))
      BY <1>2, <1>9
    <2> QED BY <2>1, <2>2, <2>3
  <1> HIDE DEF parcel, all
  <1>11. m \in fit .. Len(all)
    <2>1. n \in Nat /\ n <= Len(msg) /\ m \in Nat /\ fit \in Int /\ Len(all) \in Nat
      <3>1. n \in Nat /\ n <= Len(msg)
        BY <1>1, <1>4
      <3>2. Len(parcel) \in Nat
        BY <1>3, <1>5, <1>6
      <3>3. Len(all) \in Nat
        BY <1>1, <1>7, <3>2
      <3> QED BY <3>1, <3>2, <3>3, PioSizeAssumption
    <2>2. m <= Len(all)
      BY <1>1, <1>3, <1>5, <1>6, <1>7, <2>1
    <2>3. CASE n = Len(msg)
      <3>1. m = Len(all) /\ fit <= Len(all)
        BY <1>7, <2>1, <2>3, PioSizeAssumption
      <3> QED BY <2>1, <3>1
    <2>4. CASE n = FifoSize - 1 - Len(rxFifo)
      <3>1. fit <= FifoSize - 1
        BY <2>1, PioSizeAssumption
      <3>2. FifoSize - 1 <= m
        BY <1>3, <1>5, <1>6, <2>4, PioSizeAssumption
      <3> QED BY <2>1, <2>2, <3>1, <3>2, PioSizeAssumption
    <2> QED BY <1>4, <2>3, <2>4
  <1>12. ~hasty' => m = fit
    <2>1. ~hasty' => Len(drained) = 0 /\ Len(rxFifo) = 0
      BY <1>8, EmptySeq
    <2> QED BY <1>1, <1>3, <1>4, <1>5, <1>6, <1>7, <2>1, PioSizeAssumption
  <1>13. fit \in fit .. fit
    BY <1>7, PioSizeAssumption
  <1>14. m \in fit .. (IF hasty' THEN Len(all) ELSE fit)
    BY <1>11, <1>12, <1>13
  <1>15. hasty' \in BOOLEAN
    BY <1>2 DEF ReceptionRests
  <1> HIDE DEF m, fit
  <1>16. \E j \in fit .. (IF hasty' THEN Len(all) ELSE fit) : parcel' = SubSeq(all, 1, j)
    BY <1>10, <1>14
  <1>17. UNCHANGED <<rxBuf, rxSize, ppos, got>>
    BY <1>2 DEF work, reader
  <1>18. Box!Accept(msg)
    BY <1>1, <1>9, <1>15, <1>16, <1>17, Zenon DEF Box!Accept, fit, all, parcel, drained
  <1> QED BY <1>1, <1>18

\* With nothing to drain the mail is thrown away all the same, which takes a
\* hasty host.
LEMMA WorkLockMakesRoom ==
    ASSUME BoxInv, WorkLock
    PROVE  Box!MakeRoom \/ Box!Lose
  <1>1. /\ ~Draining /\ Draining' /\ rxFifo \in Seq(Data) /\ count = 0
        /\ UNCHANGED <<rxFifo, rxBuf, count, rxSize, ppos, got, hasty>>
        /\ hasty \in BOOLEAN /\ (~hasty => rxFifo # <<>>)
    BY DEF WorkLock, Draining, BoxInv, OnItsWay, BufferFacts, PioInv, Typed,
           RegistersTyped, ReceptionTyped, registers, reader, ghosts
  <1>2. SubSeq(rxBuf', 1, count') = <<>>
    BY <1>1, SubSeqEmpty
  <1>3. <<>> \o rxFifo = rxFifo /\ SubSeq(rxBuf', 1, count') \o rxFifo' = rxFifo
    BY <1>1, <1>2, ConcatEmptySeq
  <1>4. CASE rxFifo # <<>>
    BY <1>1, <1>3, <1>4 DEF Box!MakeRoom
  <1>5. CASE hasty
    BY <1>1, <1>3, <1>5 DEF Box!Lose
  <1> QED BY <1>1, <1>4, <1>5

LEMMA UnlockDelivers ==
    ASSUME BoxInv, WorkUnlock
    PROVE  Box!Deliver \/ UNCHANGED Box!vars
  <1>1. /\ Draining /\ ~Draining' /\ rxFifo = <<>> /\ rxSize' = count /\ count \in Nat
        /\ UNCHANGED <<rxFifo, rxBuf, ppos, got, hasty>> /\ BufHolds(count)
    BY DEF WorkUnlock, Draining, BoxInv, BufferFacts, PioInv, Typed, ReceptionTyped,
           FlagFacts, registers, reader, ghosts
  <1>2. SubSeq(rxBuf, 1, count) \in Seq(Data) /\ Len(SubSeq(rxBuf, 1, count)) = count
    BY <1>1, PrefixOfBuf
  <1>3. /\ SubSeq(rxBuf, 1, count) \o rxFifo = SubSeq(rxBuf, 1, count)
        /\ <<>> \o rxFifo' = <<>>
    BY <1>1, <1>2, ConcatEmptySeq, EmptySeq
  <1>4. CASE count # 0
    <2>1. SubSeq(rxBuf, 1, count) # <<>>
      BY <1>2, <1>4, EmptySeq
    <2> QED BY <1>1, <1>3, <2>1 DEF Box!Deliver
  <1>5. CASE count = 0
    <2>1. SubSeq(rxBuf, 1, 0) = <<>>
      BY <1>1, <1>5, <1>2, EmptySeq
    <2> QED BY <1>1, <1>3, <1>5, <2>1 DEF Box!vars
  <1> QED BY <1>4, <1>5

LEMMA ReadIsRead ==
    ASSUME BoxInv, NEW len \in ReadSizes, Read(len)
    PROVE  Box!Read(len)
  <1>1. ~Draining /\ ~Draining' /\ UNCHANGED <<rxFifo, rxBuf, count, rxSize, hasty>>
    BY PioNamesAssumption
       DEF Read, Draining, BoxInv, PioInv, LockFacts, registers, work, ghosts
  <1>2. BufHolds(rxSize) /\ rxSize \in Nat
    BY <1>1 DEF BoxInv, BufferFacts, PioInv, Typed, ReceptionTyped
  <1>3. Len(SubSeq(rxBuf, 1, rxSize)) = rxSize
    BY <1>2, PrefixOfBuf
  <1>4. /\ ppos' = ppos + Len(got')
        /\ got' = SubSeq(SubSeq(rxBuf, 1, rxSize), ppos + 1,
                         IF ppos + len < rxSize THEN ppos + len ELSE rxSize)
    BY ReadCopies DEF BoxInv
  <1> QED BY <1>1, <1>3, <1>4 DEF Box!Read

\* Messages are delivered whole, once and in order, and reads return the bytes
\* of the one delivered last; a mail is lost only while the host's last message
\* did not wait for the one before it: comento_mmio_interrupt, rx_work_handler
\* and comento_mmio_read, whatever the writers that share the lock do.
THEOREM PioMailboxCorrect == Spec => IsMailbox
  <1>1. Init => Box!Init
    <2> SUFFICES ASSUME Init PROVE Box!Init
      OBVIOUS
    <2>1. ~Draining /\ rxFifo = <<>> /\ rxSize = 0 /\ ppos = 0 /\ got = <<>> /\ hasty = FALSE
      BY DEF Init, Draining
    <2>2. <<>> \o rxFifo = <<>> /\ SubSeq(rxBuf, 1, rxSize) = <<>>
      BY <2>1, ConcatEmptySeq, EmptySeq, SubSeqEmpty
    <2> QED BY <2>1, <2>2 DEF Box!Init
  <1>2. BoxInv /\ [Next]_vars => [Box!Next]_(Box!vars)
    <2> SUFFICES ASSUME BoxInv, [Next]_vars
                 PROVE  Box!Next \/ UNCHANGED Box!vars
      OBVIOUS
    <2>1. CASE HostSends
      BY <2>1, SendIsAccept DEF Box!Next, Sent
    <2>2. CASE WorkLock
      BY <2>2, WorkLockMakesRoom DEF Box!Next
    <2>3. CASE WorkUnlock
      BY <2>3, UnlockDelivers DEF Box!Next
    <2>4. CASE Drain
      <3>1. /\ Draining /\ Draining'
            /\ SubSeq(rxBuf', 1, count') \o rxFifo' = SubSeq(rxBuf, 1, count) \o rxFifo
        BY <2>4, DrainMoves DEF BoxInv
      <3>2. Draining' = Draining
        BY <3>1 DEF Draining
      <3> QED BY <2>4, <3>1, <3>2 DEF Drain, reader, ghosts, Box!vars
    <2>5. CASE \E len \in ReadSizes : Read(len)
      BY <2>5, ReadIsRead DEF Box!Next
    <2>6. CASE Open
      <3>1. ppos' = 0 /\ UNCHANGED <<work, rxFifo, got, hasty>>
        BY <2>6 DEF Open, registers, ghosts
      <3>2. Draining' = Draining
        BY <3>1 DEF Draining, work
      <3>3. Box!Open
        BY <3>1, <3>2 DEF Box!Open, work
      <3> QED BY <3>3 DEF Box!Next
    <2>7. CASE HostFetches \/ Interrupt \/ TakeWork \/ UNCHANGED vars
               \/ \E t \in Writers \cup {"rx_work", "reader"} : Spin(t)
      <3>1. UNCHANGED <<count, rxBuf, rxSize, rxFifo, ppos, got, hasty>>
        BY <2>7 DEF HostFetches, GetData, Interrupt, TakeInterrupt, ReadMIS, AckInterrupt,
           WriteICR, WakeUp, ScheduleWork, TakeWork, Spin, vars, registers, work, reader, ghosts
      <3>2. Draining' = Draining
        BY <2>7 DEF HostFetches, Interrupt, TakeInterrupt, ReadMIS, AckInterrupt,
           WakeUp, ScheduleWork, TakeWork, Spin, vars, work, Draining
      <3> QED BY <3>1, <3>2, BoxStutters
    <2>8. ASSUME NEW w \in Writers, WriterStep(w) \/ Signal(w)
          PROVE  UNCHANGED Box!vars
      <3>1. UNCHANGED <<work, rxFifo, ppos, got, hasty>>
        BY <2>8 DEF WriterStep, Call, WriteLock, WaitEvent, Put, WriteDR, WriteUnlock,
           Signal, registers, reader, ghosts
      <3> QED BY <3>1, BoxStutters DEF work, Draining
    <2> QED BY <2>1, <2>2, <2>3, <2>4, <2>5, <2>6, <2>7, <2>8 DEF Next, WorkStep
  <1> QED BY <1>1, <1>2, BoxInvCorrect, PTL DEF Spec, IsMailbox, Box!Spec
=============================================================================
