----------------------------- MODULE LogProofs -----------------------------
(***************************************************************************)
(* The log device and its drivers keep the promise of the abstract log,    *)
(* for every set of writers and messages, every size of the DMA buffer and *)
(* any number of erasures, failures, signals and restarts; and the first   *)
(* driver's handler always finds a reason for being called.                *)
(***************************************************************************)
EXTENDS LogSystem, SequenceTheorems, TLAPS

Transfers == [len : 0 .. DmaBufSize, pos : 0 .. DmaBufSize]
Filling == {"copy", "length", "prepare", "issue"}

\* What the handler may rely on: while it runs, what raised the interrupt
\* is still raised.
Serving ==
    /\ imsc = Unmasked
    /\ irqPc # "idle" => "RX" \in ris /\ ~disabled
    /\ irqPc = "ack" => version = "log"
    /\ disabled = (unclaimed = UnclaimedLimit)
    /\ version = "log" => unclaimed = 0

\* The first driver's writer is the one with the lock, and leaves the DMA
\* alone; the second's take no lock.
Locking ==
    /\ version = "log" => /\ transfers = <<>> /\ ~callback /\ ~disturbed
                          /\ holder = {w \in Writers : At(w, "put")}
                          /\ \A w \in Writers : pc[w] \in {"idle", "lock", "put"}
    /\ version = "logdma" => /\ holder = {}
                             /\ \A w \in Writers : ~At(w, "lock") /\ ~At(w, "put")

\* A message is left exactly while its bytes are being handed over.
Handing ==
    \A w \in Writers :
      /\ pc[w] \in {"idle", "last"} => todo[w] = <<>>
      /\ At(w, "wait") \/ pc[w] \in Filling => todo[w] # <<>>

\* The second driver undisturbed: one write at a time, ...
OneCaller ==
    version = "logdma" /\ ~disturbed =>
      /\ signalled = {}
      /\ \A v, w \in Writers : ~At(v, "idle") /\ ~At(w, "idle") => v = w

\* ... with one transfer, that has ended when a write fills the buffer, ...
OneTransfer ==
    version = "logdma" /\ ~disturbed =>
      /\ Len(transfers) <= 1
      /\ transfers # <<>> => txQueued /\ ~callback
      /\ callback => txQueued
      /\ txQueued => \E w \in Writers : pc[w] \in {"issue", "wait", "last"}
      /\ \A w \in Writers : pc[w] \in Filling => transfers = <<>> /\ ~callback
      /\ \A w \in Writers : At(w, "issue") => txQueued

\* ... and what it fills it with is what it sends.
OneChunk ==
    version = "logdma" /\ ~disturbed =>
      \A w \in Writers :
        /\ pc[w] \in {"length", "prepare", "issue"}
             => \A i \in 1 .. ChunkOf(w) : txBuf[i] = todo[w][i]
        /\ At(w, "prepare") => txLength = ChunkOf(w)
        /\ At(w, "issue") => chunk[w] = ChunkOf(w)

Alone == OneCaller /\ OneTransfer /\ OneChunk
LogInv == LogTypeOK /\ Serving /\ Locking /\ Handing /\ Alone
-----------------------------------------------------------------------------
(* Sequences. *)

\* Any part of a sequence is a sequence, an empty part included.
LEMMA PartIsSeq ==
    ASSUME NEW S, NEW s \in Seq(S), NEW a \in 1 .. Len(s) + 1, NEW b \in 0 .. Len(s)
    PROVE  /\ SubSeq(s, a, b) \in Seq(S)
           /\ Len(SubSeq(s, a, b)) = IF a <= b THEN b - a + 1 ELSE 0
           /\ \A i \in 1 .. b - a + 1 : SubSeq(s, a, b)[i] = s[a + i - 1]
  <1>1. Len(s) \in Nat
    BY LenProperties
  <1>2. a \in Int /\ b \in Int /\ \A k \in a .. b : k \in 1 .. Len(s)
    BY <1>1, SMT
  <1>3. \A k \in a .. b : s[k] \in S
    BY <1>2, ElementOfSeq
  <1> QED BY <1>2, <1>3, SubSeqProperties

LEMMA TransferFields ==
    ASSUME NEW q \in Seq(Transfers), NEW k \in 1 .. Len(q)
    PROVE  q[k].len \in 0 .. DmaBufSize /\ q[k].pos \in 0 .. DmaBufSize
  <1>1. q[k] \in Transfers
    BY ElementOfSeq
  <1> QED BY <1>1 DEF Transfers

\* tx.buf is a sequence of cells.
LEMMA BufferIsSeq ==
    ASSUME txBuf \in [1 .. DmaBufSize -> Cells]
    PROVE  txBuf \in Seq(Cells) /\ Len(txBuf) = DmaBufSize
  <1>1. DmaBufSize \in Nat
    BY LogSizesAssumption
  <1> QED BY <1>1, SeqDef, LenProperties, SMT

LEMMA HeadMoves ==
    ASSUME NEW S, NEW s \in Seq(S), NEW t \in Seq(S), t # <<>>
    PROVE  /\ Len(s) < Len(s \o t)
           /\ (s \o t)[Len(s) + 1] = Head(t)
           /\ Append(s, Head(t)) \o Tail(t) = s \o t
  <1>1. Len(s) \in Nat /\ Len(t) \in Nat \ {0}
    BY LenProperties, EmptySeq
  <1>2. Head(t) \in S /\ Tail(t) \in Seq(S) /\ Head(t) = t[1]
    BY HeadTailProperties
  <1>3. /\ Len(s \o t) = Len(s) + Len(t)
        /\ \A i \in 1 .. Len(s) + Len(t) :
             (s \o t)[i] = IF i <= Len(s) THEN s[i] ELSE t[i - Len(s)]
    BY ConcatProperties
  <1>4. Len(s) + 1 \in 1 .. Len(s) + Len(t) /\ ~(Len(s) + 1 <= Len(s))
        /\ Len(s) + 1 - Len(s) = 1 /\ Len(s) < Len(s) + Len(t)
    BY <1>1, SMT
  <1>5. (s \o t)[Len(s) + 1] = t[1]
    BY <1>3, <1>4
  <1>6. <<Head(t)>> \in Seq(S) /\ Append(s, Head(t)) = s \o <<Head(t)>>
    BY <1>2, AppendIsConcat
  <1>7. <<Head(t)>> \o Tail(t) = t
    <2>1. 1 \in 1 .. Len(t) /\ Len(t) \in 1 .. Len(t)
      BY <1>1, SMT
    <2>2. SubSeq(t, 1, Len(t)) = <<t[1]>> \o SubSeq(t, 1 + 1, Len(t))
      BY <2>1, SubSeqRecursiveFirst
    <2>3. SubSeq(t, 1 + 1, Len(t)) = Tail(t) /\ SubSeq(t, 1, Len(t)) = t
      BY TailIsSubSeq, SubSeqFull
    <2> QED BY <2>2, <2>3, <1>2
  <1>8. (s \o <<Head(t)>>) \o Tail(t) = s \o (<<Head(t)>> \o Tail(t))
    BY <1>2, <1>6, ConcatAssociative
  <1> QED BY <1>2, <1>3, <1>4, <1>5, <1>6, <1>7, <1>8
-----------------------------------------------------------------------------
(* The inductive invariant. *)

LEMMA VersionIs == LogTypeOK => version = "log" \/ version = "logdma"
  BY LogVersionsAssumption DEF LogTypeOK

LEMMA Nothings ==
    /\ <<>> \in Seq(Cells) /\ <<>> \in Seq(Bytes) /\ <<>> \in Seq(Transfers)
    /\ Len(<<>>) = 0
    /\ 0 \in 0 .. UnclaimedLimit /\ UnclaimedLimit # 0
    /\ 0 \in 0 .. DmaBufSize /\ DmaBufSize \in 0 .. DmaBufSize
  BY EmptySeq, LogSizesAssumption, SMT

LEMMA LogInvInit == LogInit => LogInv
  <1> SUFFICES ASSUME LogInit PROVE LogInv
    OBVIOUS
  <1>1. LogTypeOK
    <2>1. /\ pc \in [Writers -> {"idle"}] /\ todo \in [Writers -> Seq(Bytes)]
          /\ chunk \in [Writers -> 0 .. DmaBufSize]
      BY Nothings DEF LogInit, Idle, Nothing, NoChunk
    <2>2. txBuf \in [1 .. DmaBufSize -> Cells] /\ txLength \in 0 .. DmaBufSize
          /\ transfers \in Seq([len : 0 .. DmaBufSize, pos : 0 .. DmaBufSize])
      BY Nothings DEF LogInit, Fresh, Cells, Transfers
    <2>3. irq = (MIS # {}) /\ imsc \subseteq {"RX", "TX", "RX_EMPTY"}
      BY DEF LogInit, MIS, Unmasked
    <2>4. /\ logFile \in {"none", "named", "nameless"} /\ ris \subseteq {"RX"}
          /\ holder \subseteq Writers /\ \A v, w \in holder : v = w
          /\ signalled \subseteq Writers
          /\ irqPc \in {"idle", "read", "ack"} /\ unclaimed \in 0 .. UnclaimedLimit
      BY Nothings DEF LogInit
    <2>5. disturbed \in BOOLEAN /\ txQueued \in BOOLEAN /\ callback \in BOOLEAN
      BY DEF LogInit
    <2>6. pc \in [Writers -> {"idle", "lock", "put", "wait", "copy", "length", "prepare",
                              "issue", "last"}]
      BY <2>1
    <2>7. version \in Versions /\ log \in Seq(Cells) /\ left \in [Events -> Nat]
      BY Nothings, LogBudgetAssumption DEF LogInit
    <2> QED BY <2>7, <2>1, <2>2, <2>3, <2>4, <2>5, <2>6 DEF LogTypeOK
  <1>2. Serving
    BY Nothings DEF LogInit, Serving
  <1>3. Locking
    BY DEF LogInit, Locking, Idle, At
  <1>4. Handing
    BY DEF LogInit, Handing, Idle, Nothing, At, Filling
  <1>5. Alone
    BY Nothings DEF LogInit, Alone, OneCaller, OneTransfer, OneChunk, Idle, At, Filling
  <1> QED BY <1>1, <1>2, <1>3, <1>4, <1>5 DEF LogInv

\* Spending leaves a budget.
LEMMA SpendKeepsBudget ==
    ASSUME NEW what \in Events, left \in [Events -> Nat], Spend(what)
    PROVE  left' \in [Events -> Nat]
  BY DEF Spend

LEMMA LogInvRestart == ASSUME LogInv, Restart PROVE LogInv'
  <1>1. left' \in [Events -> Nat]
    BY SpendKeepsBudget DEF LogInv, LogTypeOK, Restart, Events
  <1>2. /\ version' \in Versions /\ log' \in Seq(Cells) /\ logFile' \in {"none", "named"}
        /\ imsc' = Unmasked'
    BY DEF LogInv, LogTypeOK, Restart, OpenLog, Unmasked
  <1>3. Idle' = Idle /\ Nothing' = Nothing /\ NoChunk' = NoChunk /\ Fresh' = Fresh
    BY DEF Idle, Nothing, NoChunk, Fresh
  <1>4. LogTypeOK'
    <2>1. /\ pc' \in [Writers -> {"idle", "lock", "put", "wait", "copy", "length",
                                 "prepare", "issue", "last"}]
          /\ todo' \in [Writers -> Seq(Bytes)]
          /\ chunk' \in [Writers -> 0 .. DmaBufSize]
      BY Nothings DEF Idle, Nothing, NoChunk, Restart
    <2>2. txBuf' \in [1 .. DmaBufSize -> Cells] /\ txLength' \in 0 .. DmaBufSize
          /\ transfers' \in Seq([len : 0 .. DmaBufSize, pos : 0 .. DmaBufSize])
      BY Nothings DEF Fresh, Cells, Transfers, Restart
    <2>3. irq' = (MIS' # {}) /\ imsc' \subseteq {"RX", "TX", "RX_EMPTY"}
      BY DEF MIS, Unmasked, Restart
    <2>4. /\ logFile' \in {"none", "named", "nameless"} /\ ris' \subseteq {"RX"}
          /\ holder' \subseteq Writers /\ \A v, w \in holder' : v = w
          /\ signalled' \subseteq Writers
          /\ irqPc' \in {"idle", "read", "ack"} /\ unclaimed' \in 0 .. UnclaimedLimit
      BY Nothings, <1>2 DEF Restart
    <2>5. disturbed' \in BOOLEAN /\ txQueued' \in BOOLEAN /\ callback' \in BOOLEAN
      BY DEF Restart
    <2> QED BY <1>1, <1>2, <2>1, <2>2, <2>3, <2>4, <2>5 DEF LogTypeOK
  <1>5. Serving'
    BY <1>2, Nothings DEF Restart, Serving
  <1>6. Locking'
    BY DEF Restart, Locking, Idle, At
  <1>7. Handing'
    BY DEF Restart, Handing, Idle, Nothing, At, Filling
  <1>8. Alone'
    BY Nothings DEF Restart, Alone, OneCaller, OneTransfer, OneChunk, Idle, At, Filling
  <1> QED BY <1>4, <1>5, <1>6, <1>7, <1>8 DEF LogInv

-----------------------------------------------------------------------------
(* The steps of write(). *)

LEMMA ServingStays ==
    ASSUME LogInv, UNCHANGED <<version, imsc, top>>, ris' = ris PROVE Serving'
  BY DEF LogInv, Serving, Unmasked, top

LEMMA AloneStays ==
    ASSUME LogInv, UNCHANGED <<version, pc, todo, dmaWrite, dma>> PROVE Alone'
  BY DEF LogInv, Alone, OneCaller, OneTransfer, OneChunk, At, ChunkOf, dmaWrite, dma,
         buffer, channel

\* A step at a label of the second driver is a step of its.
LEMMA DmaWriter ==
    ASSUME LogInv, NEW w \in Writers, pc[w] \in Filling \cup {"wait", "last"}
    PROVE  version = "logdma" /\ version # "log" /\ holder = {}
  BY VersionIs DEF LogInv, Locking, Filling

LEMMA LockWriter ==
    ASSUME LogInv, NEW w \in Writers, pc[w] \in {"lock", "put"}
    PROVE  version = "log" /\ version # "logdma" /\ transfers = <<>>
  BY VersionIs DEF LogInv, Locking, At

LEMMA LogInvBeginWrite ==
    ASSUME LogInv, NEW w \in Writers, NEW m \in Messages, BeginWrite(w, m)
    PROVE  LogInv'
  <1>1. m \in Seq(Bytes)
    BY LogMessagesAssumption
  <1>2. left' \in [Events -> Nat]
    BY SpendKeepsBudget DEF LogInv, LogTypeOK, BeginWrite, Events
  <1>3. /\ pc \in [Writers -> {"idle", "lock", "put", "wait", "copy", "length", "prepare",
                               "issue", "last"}]
        /\ todo \in [Writers -> Seq(Bytes)] /\ disturbed \in BOOLEAN /\ pc[w] = "idle"
        /\ pc' = [pc EXCEPT ![w] = IF version = "log" THEN "lock" ELSE Loop(m)]
        /\ todo' = [todo EXCEPT ![w] = m]
    BY DEF LogInv, LogTypeOK, BeginWrite, At, Goto
  <1>4. LogTypeOK'
    <2>1. /\ pc' \in [Writers -> {"idle", "lock", "put", "wait", "copy", "length",
                                  "prepare", "issue", "last"}]
          /\ todo' \in [Writers -> Seq(Bytes)]
      BY <1>1, <1>3 DEF Loop
    <2>2. disturbed' \in BOOLEAN
      BY DEF BeginWrite
    <2> QED BY <1>2, <2>1, <2>2
            DEF LogInv, LogTypeOK, BeginWrite, MIS, device, registers, dma, buffer,
                channel, top
  <1>5. Serving'
    BY ServingStays DEF BeginWrite, device, registers
  <1>6. Locking'
    BY <1>3, VersionIs DEF LogInv, Locking, BeginWrite, Loop, At, dma, channel
  <1>7. Handing'
    BY <1>3 DEF LogInv, Handing, Loop, At, Filling
  <1>8. Alone'
    <2>1. CASE version = "log" \/ disturbed'
      BY <2>1, VersionIs DEF LogInv, BeginWrite, Alone, OneCaller, OneTransfer, OneChunk
    <2>2. CASE version = "logdma" /\ ~disturbed'
      <3>1. ~disturbed /\ pc = Idle /\ version' = "logdma" /\ UNCHANGED <<chunk, signalled, dma>>
        BY <2>2 DEF BeginWrite
      <3>2. \A v \in Writers : v # w => pc'[v] = "idle"
        BY <1>3, <3>1 DEF Idle
      <3>3. pc'[w] \in {"wait", "last"}
        BY <1>3, <3>1, <2>2 DEF Loop
      <3>4. ~txQueued /\ transfers = <<>> /\ ~callback /\ signalled = {}
        BY <2>2, <3>1, VersionIs
           DEF LogInv, Alone, OneCaller, OneTransfer, Idle, LogTypeOK
      <3> QED BY <3>1, <3>2, <3>3, <3>4, Nothings
              DEF Alone, OneCaller, OneTransfer, OneChunk, Filling, At, dma, buffer, channel
    <2> QED BY <2>1, <2>2, VersionIs DEF LogInv
  <1> QED BY <1>4, <1>5, <1>6, <1>7, <1>8 DEF LogInv

LEMMA LogInvLock == ASSUME LogInv, NEW w \in Writers, Lock(w) PROVE LogInv'
  <1>0. version = "log" /\ version' = "log" /\ version # "logdma" /\ UNCHANGED dma
    BY LockWriter DEF Lock, At
  <1>1. LogTypeOK'
    BY DEF LogInv, Lock, Goto, LogTypeOK, MIS, device, registers, dmaWrite, dma, buffer,
           channel, top
  <1>2. Serving'
    BY ServingStays DEF Lock, device, registers
  <1>3. Locking'
    <2>1. /\ pc \in [Writers -> {"idle", "lock", "put", "wait", "copy", "length", "prepare",
                                 "issue", "last"}]
          /\ holder = {v \in Writers : pc[v] = "put"} /\ holder = {}
          /\ holder' = {w} /\ pc' = [pc EXCEPT ![w] = "put"]
      BY <1>0 DEF LogInv, LogTypeOK, Locking, Lock, Goto, At
    <2>2. holder' = {v \in Writers : At(v, "put")'}
      BY <2>1 DEF At
    <2>3. \A v \in Writers : pc'[v] \in {"idle", "lock", "put"}
      BY <1>0, <2>1 DEF LogInv, Locking
    <2>4. transfers' = <<>> /\ ~callback' /\ ~disturbed'
      BY <1>0 DEF LogInv, Locking, Lock, dma, channel, dmaWrite
    <2> QED BY <1>0, <2>2, <2>3, <2>4 DEF Locking
  <1>4. Handing'
    BY DEF LogInv, LogTypeOK, Lock, Goto, Handing, At, Filling
  <1>5. Alone'
    BY <1>0 DEF Alone, OneCaller, OneTransfer, OneChunk
  <1> QED BY <1>1, <1>2, <1>3, <1>4, <1>5 DEF LogInv

LEMMA LogInvPutByte == ASSUME LogInv, NEW w \in Writers, PutByte(w) PROVE LogInv'
  <1>0. version = "log" /\ version' = "log" /\ version # "logdma"
    BY LockWriter DEF PutByte, At
  <1>1. todo[w] \in Seq(Bytes) /\ todo[w] # <<>> /\ log \in Seq(Cells)
    BY DEF LogInv, LogTypeOK, PutByte
  <1>2. Head(todo[w]) \in Cells /\ Tail(todo[w]) \in Seq(Bytes)
    BY <1>1, HeadTailProperties DEF Cells
  <1>3. log' \in Seq(Cells)
    BY <1>1, <1>2, AppendProperties DEF PutByte, WriteDR
  <1>4. todo' = [todo EXCEPT ![w] = Tail(todo[w])]
    BY DEF PutByte
  <1>5. LogTypeOK'
    BY <1>2, <1>3, <1>4
    DEF LogInv, PutByte, WriteDR, Update, LogTypeOK, MIS, dmaWrite, dma, buffer, channel, top
  <1>6. Serving'
    BY ServingStays DEF PutByte, WriteDR, Update
  <1>7. Locking'
    BY DEF LogInv, PutByte, Locking, At, dma, channel, dmaWrite
  <1>8. Handing'
    BY <1>4 DEF LogInv, LogTypeOK, PutByte, Handing, At, Filling
  <1>9. Alone'
    BY <1>0 DEF Alone, OneCaller, OneTransfer, OneChunk
  <1> QED BY <1>5, <1>6, <1>7, <1>8, <1>9 DEF LogInv

LEMMA LogInvUnlock == ASSUME LogInv, NEW w \in Writers, Unlock(w) PROVE LogInv'
  <1>0. version = "log" /\ version' = "log" /\ version # "logdma" /\ UNCHANGED dma
    BY LockWriter DEF Unlock, At
  <1>1. LogTypeOK'
    BY DEF LogInv, Unlock, Goto, LogTypeOK, MIS, device, registers, dmaWrite, dma, buffer,
           channel, top
  <1>2. Serving'
    BY ServingStays DEF Unlock, device, registers
  <1>3. Locking'
    <2>1. /\ pc \in [Writers -> {"idle", "lock", "put", "wait", "copy", "length", "prepare",
                                 "issue", "last"}]
          /\ holder = {v \in Writers : pc[v] = "put"}
          /\ holder' = holder \ {w} /\ pc' = [pc EXCEPT ![w] = "idle"]
      BY <1>0 DEF LogInv, LogTypeOK, Locking, Unlock, Goto, At
    <2>2. holder' = {v \in Writers : At(v, "put")'}
      BY <2>1 DEF At
    <2>3. \A v \in Writers : pc'[v] \in {"idle", "lock", "put"}
      BY <1>0, <2>1 DEF LogInv, Locking
    <2>4. transfers' = <<>> /\ ~callback' /\ ~disturbed'
      BY <1>0 DEF LogInv, Locking, Unlock, dma, channel, dmaWrite
    <2> QED BY <1>0, <2>2, <2>3, <2>4 DEF Locking
  <1>4. Handing'
    BY DEF LogInv, LogTypeOK, Unlock, Goto, Handing, At, Filling
  <1>5. Alone'
    BY <1>0 DEF Alone, OneCaller, OneTransfer, OneChunk
  <1> QED BY <1>1, <1>2, <1>3, <1>4, <1>5 DEF LogInv

(* The loop of the second driver. *)

\* How long the next chunk is.
LEMMA ChunkFacts ==
    ASSUME LogInv, NEW w \in Writers, todo[w] # <<>>
    PROVE  /\ todo[w] \in Seq(Bytes)
           /\ ChunkOf(w) \in 1 .. DmaBufSize /\ ChunkOf(w) \in 0 .. DmaBufSize
           /\ ChunkOf(w) \in 1 .. Len(todo[w])
  <1>1. todo[w] \in Seq(Bytes)
    BY DEF LogInv, LogTypeOK
  <1>2. Len(todo[w]) \in Nat \ {0}
    BY <1>1, EmptySeq
  <1> QED BY <1>1, <1>2, LogSizesAssumption, SMT DEF ChunkOf

\* With one caller, nobody else is at the DMA buffer.
LEMMA OthersIdle ==
    ASSUME LogInv, version = "logdma", ~disturbed, NEW w \in Writers, ~At(w, "idle")
    PROVE  /\ signalled = {}
           /\ \A v \in Writers : v # w => pc[v] = "idle"
  BY DEF LogInv, Alone, OneCaller, At

LEMMA LogInvWaitEvent == ASSUME LogInv, NEW w \in Writers, WaitEvent(w) PROVE LogInv'
  <1>0. /\ version = "logdma" /\ version # "log" /\ holder = {} /\ version' = version
        /\ pc[w] = "wait" /\ pc' = [pc EXCEPT ![w] = "copy"]
        /\ pc \in [Writers -> {"idle", "lock", "put", "wait", "copy", "length", "prepare",
                               "issue", "last"}]
    BY DmaWriter DEF WaitEvent, At, Goto, LogInv, LogTypeOK
  <1>1. LogTypeOK'
    BY DEF LogInv, WaitEvent, Goto, LogTypeOK, MIS, device, registers, dmaWrite, dma, buffer,
           channel, top
  <1>2. Serving'
    BY ServingStays DEF WaitEvent, device, registers
  <1>3. Locking'
    BY <1>0 DEF LogInv, WaitEvent, Locking, At
  <1>4. Handing'
    BY <1>0 DEF LogInv, WaitEvent, Handing, At, Filling
  <1>5. Alone'
    <2> SUFFICES ASSUME ~disturbed PROVE Alone'
      BY DEF WaitEvent, dmaWrite, Alone, OneCaller, OneTransfer, OneChunk
    <2>1. signalled = {} /\ \A v \in Writers : v # w => pc[v] = "idle"
      BY <1>0, OthersIdle DEF At
    <2>2. ~txQueued
      BY <2>1 DEF WaitEvent
    <2>3. transfers = <<>> /\ ~callback
      BY <1>0, <2>2 DEF LogInv, LogTypeOK, Alone, OneTransfer
    <2> QED BY <1>0, <2>1, <2>2, <2>3, Nothings
            DEF WaitEvent, Alone, OneCaller, OneTransfer, OneChunk, Filling, At, dmaWrite,
                dma, channel
  <1> QED BY <1>1, <1>2, <1>3, <1>4, <1>5 DEF LogInv

LEMMA LogInvCopy == ASSUME LogInv, NEW w \in Writers, Copy(w) PROVE LogInv'
  <1>0. /\ version = "logdma" /\ version # "log" /\ holder = {} /\ version' = version
        /\ pc[w] = "copy" /\ pc' = [pc EXCEPT ![w] = "length"] /\ todo[w] # <<>>
        /\ pc \in [Writers -> {"idle", "lock", "put", "wait", "copy", "length", "prepare",
                               "issue", "last"}]
    BY DmaWriter DEF Copy, At, Goto, LogInv, LogTypeOK, Handing, Filling
  <1>1. /\ todo[w] \in Seq(Bytes) /\ ChunkOf(w) \in 1 .. DmaBufSize
        /\ ChunkOf(w) \in 1 .. Len(todo[w])
    BY <1>0, ChunkFacts
  <1>2. ASSUME NEW i \in 1 .. DmaBufSize
        PROVE  i <= ChunkOf(w) => i \in 1 .. Len(todo[w]) /\ todo[w][i] \in Cells
    <2>1. Len(todo[w]) \in Nat
      BY <1>1, LenProperties
    <2>2. i <= ChunkOf(w) => i \in 1 .. Len(todo[w])
      BY <1>1, <2>1, LogSizesAssumption
    <2> QED BY <1>1, <2>2, ElementOfSeq DEF Cells
  <1>3. txBuf' = [i \in 1 .. DmaBufSize |->
                    IF i <= ChunkOf(w) THEN todo[w][i] ELSE txBuf[i]]
    BY DEF Copy
  <1>4. txBuf' \in [1 .. DmaBufSize -> Cells]
    BY <1>2, <1>3 DEF LogInv, LogTypeOK
  <1>5. LogTypeOK'
    BY <1>4
    DEF LogInv, Copy, Goto, LogTypeOK, MIS, device, registers, dmaWrite, channel, top
  <1>6. Serving'
    BY ServingStays DEF Copy, device, registers
  <1>7. Locking'
    BY <1>0 DEF LogInv, Copy, Locking, At
  <1>8. Handing'
    BY <1>0 DEF LogInv, Copy, Handing, At, Filling
  <1>9. Alone'
    <2> SUFFICES ASSUME ~disturbed PROVE Alone'
      BY DEF Copy, dmaWrite, Alone, OneCaller, OneTransfer, OneChunk
    <2>1. signalled = {} /\ \A v \in Writers : v # w => pc[v] = "idle"
      BY <1>0, OthersIdle DEF At
    <2>2. transfers = <<>> /\ ~callback /\ ~txQueued
      BY <1>0, <2>1, Zenon DEF LogInv, LogTypeOK, Alone, OneTransfer, Filling
    <2>3. \A v \in Writers : v # w => pc'[v] = "idle"
      BY <1>0, <2>1
    <2>4. pc'[w] = "length"
      BY <1>0
    <2>5. ASSUME NEW i \in 1 .. ChunkOf(w) PROVE txBuf'[i] = todo[w][i]
      <3>1. i \in 1 .. DmaBufSize /\ i <= ChunkOf(w)
        BY <1>1, LogSizesAssumption
      <3> QED BY <1>3, <3>1
    <2>6. ChunkOf(w)' = ChunkOf(w) /\ todo' = todo /\ UNCHANGED <<channel, txQueued, signalled>>
      BY DEF Copy, ChunkOf, dmaWrite
    <2>7. OneChunk'
      BY <2>3, <2>4, <2>5, <2>6 DEF OneChunk, At
    <2> QED BY <1>0, <2>1, <2>2, <2>3, <2>4, <2>6, <2>7, Nothings
            DEF Alone, OneCaller, OneTransfer, Filling, At, channel
  <1> QED BY <1>5, <1>6, <1>7, <1>8, <1>9 DEF LogInv

LEMMA LogInvSetLength == ASSUME LogInv, NEW w \in Writers, SetLength(w) PROVE LogInv'
  <1>0. /\ version = "logdma" /\ version # "log" /\ holder = {} /\ version' = version
        /\ pc[w] = "length" /\ pc' = [pc EXCEPT ![w] = "prepare"] /\ todo[w] # <<>>
        /\ pc \in [Writers -> {"idle", "lock", "put", "wait", "copy", "length", "prepare",
                               "issue", "last"}]
    BY DmaWriter DEF SetLength, At, Goto, LogInv, LogTypeOK, Handing, Filling
  <1>1. ChunkOf(w) \in 0 .. DmaBufSize /\ ChunkOf(w)' = ChunkOf(w) /\ txLength' = ChunkOf(w)
    BY <1>0, ChunkFacts DEF SetLength, ChunkOf
  <1>5. LogTypeOK'
    BY <1>1
    DEF LogInv, SetLength, Goto, LogTypeOK, MIS, device, registers, dmaWrite, channel, top
  <1>6. Serving'
    BY ServingStays DEF SetLength, device, registers
  <1>7. Locking'
    BY <1>0 DEF LogInv, SetLength, Locking, At
  <1>8. Handing'
    BY <1>0 DEF LogInv, SetLength, Handing, At, Filling
  <1>9. Alone'
    <2> SUFFICES ASSUME ~disturbed PROVE Alone'
      BY DEF SetLength, dmaWrite, Alone, OneCaller, OneTransfer, OneChunk
    <2>1. signalled = {} /\ \A v \in Writers : v # w => pc'[v] = "idle"
      BY <1>0, OthersIdle DEF At
    <2>2. transfers = <<>> /\ ~callback /\ ~txQueued
      BY <1>0, OthersIdle, Zenon DEF LogInv, LogTypeOK, Alone, OneTransfer, Filling, At
    <2>4. pc'[w] = "prepare"
      BY <1>0
    <2>5. \A i \in 1 .. ChunkOf(w) : txBuf[i] = todo[w][i]
      BY <1>0 DEF LogInv, Alone, OneChunk
    <2>6. todo' = todo /\ txBuf' = txBuf /\ UNCHANGED <<channel, txQueued, signalled>>
      BY DEF SetLength, dmaWrite
    <2>7. OneChunk'
      BY <1>1, <2>1, <2>4, <2>5, <2>6 DEF OneChunk, At
    <2> QED BY <1>0, <2>1, <2>2, <2>4, <2>6, <2>7, Nothings
            DEF Alone, OneCaller, OneTransfer, Filling, At, channel
  <1> QED BY <1>5, <1>6, <1>7, <1>8, <1>9 DEF LogInv

LEMMA LogInvPrepare == ASSUME LogInv, NEW w \in Writers, Prepare(w) PROVE LogInv'
  <1>0. /\ version = "logdma" /\ version # "log" /\ holder = {} /\ version' = version
        /\ pc[w] = "prepare" /\ pc' = [pc EXCEPT ![w] = "issue"] /\ todo[w] # <<>>
        /\ pc \in [Writers -> {"idle", "lock", "put", "wait", "copy", "length", "prepare",
                               "issue", "last"}]
    BY DmaWriter DEF Prepare, At, Goto, LogInv, LogTypeOK, Handing, Filling
  <1>1. chunk' = [chunk EXCEPT ![w] = txLength] /\ txQueued' = TRUE
    BY DEF Prepare
  <1>5. LogTypeOK'
    BY <1>1
    DEF LogInv, Prepare, Goto, LogTypeOK, MIS, device, registers, buffer, channel, top
  <1>6. Serving'
    BY ServingStays DEF Prepare, device, registers
  <1>7. Locking'
    BY <1>0 DEF LogInv, Prepare, Locking, At
  <1>8. Handing'
    BY <1>0 DEF LogInv, Prepare, Handing, At, Filling
  <1>9. Alone'
    <2> SUFFICES ASSUME ~disturbed PROVE Alone'
      BY DEF Prepare, Alone, OneCaller, OneTransfer, OneChunk
    <2>1. signalled = {} /\ \A v \in Writers : v # w => pc'[v] = "idle"
      BY <1>0, OthersIdle DEF At
    <2>2. transfers = <<>> /\ ~callback
      BY <1>0 DEF LogInv, Alone, OneTransfer, Filling
    <2>4. pc'[w] = "issue"
      BY <1>0
    <2>5. /\ \A i \in 1 .. ChunkOf(w) : txBuf[i] = todo[w][i]
          /\ txLength = ChunkOf(w)
      BY <1>0 DEF LogInv, Alone, OneChunk, At
    <2>6. todo' = todo /\ txBuf' = txBuf /\ UNCHANGED <<channel, signalled>>
          /\ ChunkOf(w)' = ChunkOf(w)
      BY DEF Prepare, ChunkOf, buffer
    <2>7. chunk'[w] = ChunkOf(w)
      BY <1>1, <2>5 DEF LogInv, LogTypeOK
    <2>8. OneChunk'
      BY <2>1, <2>4, <2>5, <2>6, <2>7 DEF OneChunk, At
    <2> QED BY <1>0, <1>1, <2>1, <2>2, <2>4, <2>6, <2>8, Nothings
            DEF Alone, OneCaller, OneTransfer, Filling, At, channel
  <1> QED BY <1>5, <1>6, <1>7, <1>8, <1>9 DEF LogInv

LEMMA LogInvPrepareFails ==
    ASSUME LogInv, NEW w \in Writers, PrepareFails(w) PROVE LogInv'
  <1>0. /\ version = "logdma" /\ version # "log" /\ holder = {} /\ version' = version
        /\ pc[w] = "prepare" /\ pc' = [pc EXCEPT ![w] = "last"]
        /\ todo' = [todo EXCEPT ![w] = <<>>]
        /\ todo \in [Writers -> Seq(Bytes)]
        /\ pc \in [Writers -> {"idle", "lock", "put", "wait", "copy", "length", "prepare",
                               "issue", "last"}]
    BY DmaWriter DEF PrepareFails, At, Goto, LogInv, LogTypeOK, Filling
  <1>1. left' \in [Events -> Nat] /\ UNCHANGED <<device, dmaWrite, dma, top>>
    BY SpendKeepsBudget DEF LogInv, LogTypeOK, PrepareFails, Events
  <1>5. LogTypeOK'
    <2>1. /\ pc' \in [Writers -> {"idle", "lock", "put", "wait", "copy", "length",
                                  "prepare", "issue", "last"}]
          /\ todo' \in [Writers -> Seq(Bytes)]
      BY <1>0, Nothings
    <2> QED BY <1>0, <1>1, <2>1
            DEF LogInv, LogTypeOK, MIS, PrepareFails, device, registers, dmaWrite, dma,
                buffer, channel, top
  <1>6. Serving'
    BY <1>0, <1>1, ServingStays DEF device, registers
  <1>7. Locking'
    BY <1>0 DEF LogInv, PrepareFails, Locking, At
  <1>8. Handing'
    BY <1>0 DEF LogInv, Handing, At, Filling
  <1>9. Alone'
    <2> SUFFICES ASSUME ~disturbed PROVE Alone'
      BY <1>1 DEF dmaWrite, Alone, OneCaller, OneTransfer, OneChunk
    <2>1. signalled = {} /\ \A v \in Writers : v # w => pc'[v] = "idle"
      BY <1>0, OthersIdle DEF At
    <2>2. transfers = <<>> /\ ~callback
      BY <1>0 DEF LogInv, Alone, OneTransfer, Filling
    <2>4. pc'[w] = "last"
      BY <1>0
    <2> QED BY <1>0, <1>1, <2>1, <2>2, <2>4, Nothings
            DEF Alone, OneCaller, OneTransfer, OneChunk, Filling, At, dma, channel, dmaWrite
  <1> QED BY <1>5, <1>6, <1>7, <1>8, <1>9 DEF LogInv

\* What issuing a chunk leaves of the message, and what it adds.
LEMMA IssueFacts ==
    ASSUME LogInv, NEW w \in Writers, Issue(w)
    PROVE  LET rest == SubSeq(todo[w], ChunkOf(w) + 1, Len(todo[w]))
               next == [len |-> chunk[w], pos |-> 0]
           IN  /\ version = "logdma" /\ version # "log" /\ holder = {}
               /\ todo[w] # <<>> /\ pc[w] = "issue"
               /\ rest \in Seq(Bytes) /\ todo' = [todo EXCEPT ![w] = rest]
               /\ pc' = [pc EXCEPT ![w] = Loop(rest)]
               /\ next \in Transfers /\ transfers' = Append(transfers, next)
               /\ transfers \in Seq(Transfers)
  <1> DEFINE rest == SubSeq(todo[w], ChunkOf(w) + 1, Len(todo[w]))
             next == [len |-> chunk[w], pos |-> 0]
  <1>1. version = "logdma" /\ version # "log" /\ holder = {} /\ todo[w] # <<>>
        /\ pc[w] = "issue"
    BY DmaWriter DEF Issue, At, LogInv, Handing, Filling
  <1>2. todo[w] \in Seq(Bytes) /\ ChunkOf(w) \in 1 .. Len(todo[w]) /\ Len(todo[w]) \in Nat
    BY <1>1, ChunkFacts, LenProperties
  <1>3. ChunkOf(w) + 1 \in 1 .. Len(todo[w]) + 1 /\ Len(todo[w]) \in 0 .. Len(todo[w])
    BY <1>2, SMT
  <1>4. rest \in Seq(Bytes)
    BY <1>2, <1>3, PartIsSeq
  <1>5. todo' = [todo EXCEPT ![w] = rest]
    BY DEF Issue
  <1>6. todo'[w] = rest
    <2> HIDE DEF rest
    <2> QED BY <1>5 DEF LogInv, LogTypeOK
  <1>7. pc' = [pc EXCEPT ![w] = Loop(rest)]
    BY <1>6 DEF Issue, Goto
  <1>8. next \in Transfers
    BY Nothings DEF LogInv, LogTypeOK, Transfers
  <1>9. transfers' = Append(transfers, next) /\ transfers \in Seq(Transfers)
    BY DEF Issue, LogInv, LogTypeOK, Transfers
  <1> QED BY <1>1, <1>4, <1>5, <1>7, <1>8, <1>9

LEMMA LogInvIssue == ASSUME LogInv, NEW w \in Writers, Issue(w) PROVE LogInv'
  <1> DEFINE rest == SubSeq(todo[w], ChunkOf(w) + 1, Len(todo[w]))
             next == [len |-> chunk[w], pos |-> 0]
  <1>1. /\ version = "logdma" /\ version # "log" /\ holder = {}
        /\ todo[w] # <<>> /\ pc[w] = "issue"
        /\ rest \in Seq(Bytes) /\ todo' = [todo EXCEPT ![w] = rest]
        /\ pc' = [pc EXCEPT ![w] = Loop(rest)]
        /\ next \in Transfers /\ transfers' = Append(transfers, next)
        /\ transfers \in Seq(Transfers)
    BY IssueFacts
  <1> HIDE DEF rest, next
  <1>2. transfers' \in Seq(Transfers) /\ Len(transfers') = Len(transfers) + 1
        /\ Len(transfers) \in Nat
    BY <1>1, AppendProperties, LenProperties
  <1>3. /\ pc \in [Writers -> {"idle", "lock", "put", "wait", "copy", "length", "prepare",
                               "issue", "last"}]
        /\ todo \in [Writers -> Seq(Bytes)]
    BY DEF LogInv, LogTypeOK
  <1>4. UNCHANGED <<device, version, holder, dmaWrite, txQueued, buffer, callback, top, left>>
    BY DEF Issue
  <1>5. LogTypeOK'
    <2>1. /\ pc' \in [Writers -> {"idle", "lock", "put", "wait", "copy", "length",
                                  "prepare", "issue", "last"}]
          /\ todo' \in [Writers -> Seq(Bytes)]
      BY <1>1, <1>3 DEF Loop
    <2> QED BY <1>2, <1>4, <2>1
            DEF LogInv, LogTypeOK, Transfers, MIS, device, registers, dmaWrite, buffer, top
  <1>6. Serving'
    BY <1>4, ServingStays DEF device, registers
  <1>7. Locking'
    BY <1>1, <1>3, <1>4 DEF LogInv, Loop, Locking, At
  <1>8. Handing'
    BY <1>1, <1>3 DEF LogInv, Loop, Handing, At, Filling
  <1>9. Alone'
    <2> SUFFICES ASSUME ~disturbed PROVE Alone'
      BY <1>4 DEF dmaWrite, Alone, OneCaller, OneTransfer, OneChunk
    <2>1. signalled = {} /\ \A v \in Writers : v # w => pc'[v] = "idle"
      BY <1>1, <1>3, OthersIdle DEF At
    <2>2. transfers = <<>> /\ ~callback
      BY <1>1 DEF LogInv, Alone, OneTransfer, Filling
    <2>3. txQueued
      BY <1>1 DEF LogInv, Alone, OneTransfer, At
    <2>4. pc'[w] \in {"wait", "last"}
      BY <1>1, <1>3 DEF Loop
    <2>5. Len(transfers') <= 1
      BY <1>2, <2>2, Nothings
    <2> QED BY <1>1, <1>4, <2>1, <2>2, <2>3, <2>4, <2>5, Nothings
            DEF Alone, OneCaller, OneTransfer, OneChunk, Filling, At, dmaWrite
  <1> QED BY <1>5, <1>6, <1>7, <1>8, <1>9 DEF LogInv

LEMMA LogInvReturnDma == ASSUME LogInv, NEW w \in Writers, ReturnDma(w) PROVE LogInv'
  <1>0. /\ version = "logdma" /\ version # "log" /\ holder = {} /\ version' = version
        /\ pc[w] = "last" /\ pc' = [pc EXCEPT ![w] = "idle"]
        /\ pc \in [Writers -> {"idle", "lock", "put", "wait", "copy", "length", "prepare",
                               "issue", "last"}]
    BY DmaWriter DEF ReturnDma, At, Goto, LogInv, LogTypeOK
  <1>1. LogTypeOK'
    BY DEF LogInv, ReturnDma, Goto, LogTypeOK, MIS, device, registers, dma, buffer,
           channel, top
  <1>2. Serving'
    BY ServingStays DEF ReturnDma, device, registers
  <1>3. Locking'
    BY <1>0 DEF LogInv, ReturnDma, Locking, At
  <1>4. Handing'
    BY <1>0 DEF LogInv, ReturnDma, Handing, At, Filling
  <1>5. Alone'
    <2> SUFFICES ASSUME ~disturbed PROVE Alone'
      BY DEF ReturnDma, Alone, OneCaller, OneTransfer, OneChunk
    <2>1. signalled = {} /\ \A v \in Writers : pc'[v] = "idle"
      BY <1>0, OthersIdle DEF At
    <2>2. ~txQueued
      BY <2>1 DEF ReturnDma
    <2>3. transfers = <<>> /\ ~callback
      BY <1>0, <2>2 DEF LogInv, LogTypeOK, Alone, OneTransfer
    <2> QED BY <1>0, <2>1, <2>2, <2>3, Nothings
            DEF ReturnDma, Alone, OneCaller, OneTransfer, OneChunk, Filling, At, dma, channel
  <1> QED BY <1>1, <1>2, <1>3, <1>4, <1>5 DEF LogInv

LEMMA LogInvSignal == ASSUME LogInv, NEW w \in Writers, Signal(w) PROVE LogInv'
  <1>0. left' \in [Events -> Nat]
    BY SpendKeepsBudget DEF LogInv, LogTypeOK, Signal, Events
  <1>1. LogTypeOK'
    BY <1>0 DEF LogInv, Signal, LogTypeOK, MIS, device, registers, dma, buffer, channel, top
  <1>2. Serving'
    BY ServingStays DEF Signal, device, registers
  <1>3. Locking'
    BY VersionIs DEF LogInv, Signal, Locking, At
  <1>4. Handing'
    BY DEF LogInv, Signal, Handing, At, Filling
  <1>5. Alone'
    BY DEF Signal, Alone, OneCaller, OneTransfer, OneChunk
  <1> QED BY <1>1, <1>2, <1>3, <1>4, <1>5 DEF LogInv

(* The DMA channel and its callback. *)

\* The byte that moves was in the buffer, and the transfer it is of.
LEMMA MovedByte ==
    ASSUME LogInv, MoveByte
    PROVE  /\ version = "logdma" /\ version # "log" /\ holder = {}
           /\ txBuf[transfers[1].pos + 1] \in Cells
           /\ 1 \in 1 .. Len(transfers)
           /\ transfers[1] \in Transfers
           /\ transfers[1].pos + 1 \in 1 .. transfers[1].len
           /\ [transfers[1] EXCEPT !.pos = @ + 1] \in Transfers
  <1>1. transfers \in Seq(Transfers) /\ transfers # <<>>
    BY DEF LogInv, LogTypeOK, Transfers, MoveByte
  <1>2. 1 \in 1 .. Len(transfers)
    BY <1>1, EmptySeq, SMT
  <1>3. transfers[1] \in Transfers /\ transfers[1].pos < transfers[1].len
    BY <1>1, <1>2, ElementOfSeq DEF MoveByte
  <1>4. /\ transfers[1].pos + 1 \in 1 .. transfers[1].len
        /\ transfers[1].pos + 1 \in 1 .. DmaBufSize
        /\ transfers[1].pos + 1 \in 0 .. DmaBufSize
    BY <1>3, LogSizesAssumption DEF Transfers
  <1>5. txBuf[transfers[1].pos + 1] \in Cells
    BY <1>4 DEF LogInv, LogTypeOK
  <1>6. [transfers[1] EXCEPT !.pos = @ + 1] \in Transfers
    BY <1>3, <1>4 DEF Transfers
  <1>7. version = "logdma" /\ version # "log" /\ holder = {}
    BY <1>1, VersionIs DEF LogInv, Locking
  <1> QED BY <1>2, <1>3, <1>4, <1>5, <1>6, <1>7

LEMMA LogInvMoveByte == ASSUME LogInv, MoveByte PROVE LogInv'
  <1> DEFINE moved == [transfers[1] EXCEPT !.pos = @ + 1]
  <1>1. /\ version = "logdma" /\ version # "log" /\ 1 \in 1 .. Len(transfers)
        /\ txBuf[transfers[1].pos + 1] \in Cells /\ moved \in Transfers
    BY MovedByte
  <1>2. transfers' = [transfers EXCEPT ![1] = moved] /\ transfers \in Seq(Transfers)
        /\ log \in Seq(Cells)
    BY DEF MoveByte, LogInv, LogTypeOK, Transfers
  <1> HIDE DEF moved
  <1>3. transfers' \in Seq(Transfers) /\ Len(transfers') = Len(transfers)
    BY <1>1, <1>2, ExceptSeq
  <1>4. log' \in Seq(Cells)
    BY <1>1, <1>2, AppendProperties DEF MoveByte, WriteDR
  <1>5. LogTypeOK'
    BY <1>3, <1>4
    DEF LogInv, MoveByte, WriteDR, Update, LogTypeOK, Transfers, MIS, writers, dmaWrite,
        buffer, top
  <1>6. Serving'
    BY ServingStays DEF MoveByte, WriteDR, Update
  <1>7. Locking'
    BY <1>1 DEF LogInv, MoveByte, Locking, At, writers
  <1>8. Handing'
    BY DEF LogInv, MoveByte, Handing, At, Filling, writers
  <1>9. Alone'
    <2>1. transfers # <<>>
      BY DEF MoveByte
    <2>2. UNCHANGED <<version, pc, todo, chunk, signalled, disturbed, txQueued, txLength,
                      txBuf, callback>>
      BY DEF MoveByte, writers, dmaWrite, buffer
    <2>3. OneTransfer'
      BY <1>3, <2>1, <2>2 DEF LogInv, Alone, OneTransfer
    <2>4. OneCaller' /\ OneChunk'
      BY <2>2 DEF LogInv, Alone, OneCaller, OneChunk, At, ChunkOf
    <2> QED BY <2>3, <2>4 DEF Alone
  <1> QED BY <1>5, <1>6, <1>7, <1>8, <1>9 DEF LogInv

LEMMA LogInvComplete == ASSUME LogInv, Complete PROVE LogInv'
  <1>1. transfers \in Seq(Transfers) /\ transfers # <<>> /\ transfers' = Tail(transfers)
        /\ callback' = TRUE
        /\ UNCHANGED <<device, version, writers, txQueued, buffer, top, left>>
    BY DEF LogInv, LogTypeOK, Transfers, Complete
  <1>2. transfers' \in Seq(Transfers) /\ Len(transfers') = Len(transfers) - 1
    BY <1>1, HeadTailProperties
  <1>3. version = "logdma" /\ version # "log"
    BY <1>1, VersionIs DEF LogInv, Locking
  <1>5. LogTypeOK'
    BY <1>1, <1>2
    DEF LogInv, LogTypeOK, Transfers, MIS, device, registers, writers, dmaWrite, buffer, top
  <1>6. Serving'
    BY <1>1, ServingStays DEF device, registers
  <1>7. Locking'
    BY <1>1, <1>3 DEF LogInv, Locking, At, writers
  <1>8. Handing'
    BY <1>1 DEF LogInv, Handing, At, Filling, writers
  <1>9. Alone'
    <2>1. OneCaller' /\ OneChunk'
      BY <1>1 DEF LogInv, Alone, OneCaller, OneChunk, At, ChunkOf, writers, dmaWrite, buffer
    <2>2. OneTransfer'
      <3> SUFFICES ASSUME ~disturbed PROVE OneTransfer'
        BY <1>1 DEF OneTransfer, writers, dmaWrite
      <3>1. /\ Len(transfers) <= 1 /\ Len(transfers) \in Nat /\ txQueued
            /\ \A w \in Writers : pc[w] \notin Filling
            /\ \E w \in Writers : pc[w] \in {"issue", "wait", "last"}
        BY <1>1, <1>3, LenProperties DEF LogInv, Alone, OneTransfer
      <3>2. Len(transfers') = 0
        BY <1>2, <3>1, LenProperties, SMT
      <3>3. transfers' = <<>>
        BY <1>2, <3>2, EmptySeq
      <3>4. pc' = pc /\ txQueued'
        BY <1>1, <3>1 DEF writers
      <3>5. Len(transfers') <= 1
        BY <3>2
      <3>6. \A w \in Writers : pc'[w] \notin Filling /\ ~At(w, "issue")'
        BY <3>1, <3>4 DEF At, Filling
      <3>7. \E w \in Writers : pc'[w] \in {"issue", "wait", "last"}
        BY <3>1, <3>4
      <3> QED BY <3>3, <3>4, <3>5, <3>6, <3>7, Zenon DEF OneTransfer
    <2> QED BY <2>1, <2>2 DEF Alone
  <1> QED BY <1>5, <1>6, <1>7, <1>8, <1>9 DEF LogInv

LEMMA LogInvTxCallback == ASSUME LogInv, TxCallback PROVE LogInv'
  <1>1. LogTypeOK'
    BY DEF LogInv, TxCallback, LogTypeOK, MIS, device, registers, writers, dmaWrite, buffer, top
  <1>2. Serving'
    BY ServingStays DEF TxCallback, device, registers
  <1>3. Locking'
    BY DEF LogInv, TxCallback, Locking, At, writers, dmaWrite
  <1>4. Handing'
    BY DEF LogInv, TxCallback, Handing, At, Filling, writers
  <1>5. Alone'
    <2>1. OneCaller' /\ OneChunk'
      BY DEF LogInv, TxCallback, Alone, OneCaller, OneChunk, At, ChunkOf, writers, dmaWrite, buffer
    <2>2. OneTransfer'
      <3> SUFFICES ASSUME version = "logdma", ~disturbed PROVE OneTransfer'
        BY DEF TxCallback, OneTransfer, writers, dmaWrite
      <3>1. /\ transfers = <<>> /\ ~callback' /\ ~txQueued' /\ UNCHANGED <<pc, transfers>>
            /\ \A w \in Writers : pc[w] \notin Filling
        BY DEF LogInv, TxCallback, Alone, OneTransfer, writers
      <3>2. \A w \in Writers : pc'[w] \notin Filling /\ ~At(w, "issue")'
        BY <3>1 DEF At, Filling
      <3> QED BY <3>1, <3>2, Nothings DEF OneTransfer
    <2> QED BY <2>1, <2>2 DEF Alone
  <1> QED BY <1>1, <1>2, <1>3, <1>4, <1>5 DEF LogInv

-----------------------------------------------------------------------------
(* The erasure and the interrupt handler. *)

LEMMA LogInvRemoveLog == ASSUME LogInv, RemoveLog PROVE LogInv'
  <1>1. left' \in [Events -> Nat]
    BY SpendKeepsBudget DEF LogInv, LogTypeOK, RemoveLog, Events
  <1>2. LogTypeOK'
    BY <1>1, Nothings
    DEF LogInv, RemoveLog, WriteLDR, Update, LogTypeOK, MIS, writers, dmaWrite, dma, buffer,
        channel, top
  <1>3. Serving'
    BY DEF LogInv, RemoveLog, WriteLDR, Update, Serving, Unmasked, top
  <1>4. Locking'
    BY DEF LogInv, RemoveLog, Locking, At, writers, dmaWrite, dma, channel
  <1>5. Handing'
    BY DEF LogInv, RemoveLog, Handing, At, Filling, writers
  <1>6. Alone'
    BY AloneStays DEF RemoveLog, writers
  <1> QED BY <1>2, <1>3, <1>4, <1>5, <1>6 DEF LogInv

\* The handler leaves the writers and the DMA alone.
LEMMA HandlerStays ==
    ASSUME LogInv, UNCHANGED <<version, writers, dma>>
    PROVE  Locking' /\ Handing' /\ Alone'
  <1>1. Locking'
    BY DEF LogInv, Locking, At, writers, dmaWrite, dma, channel
  <1>2. Handing'
    BY DEF LogInv, Handing, At, Filling, writers
  <1>3. Alone'
    BY AloneStays DEF writers
  <1> QED BY <1>1, <1>2, <1>3

LEMMA LogInvTakeInterrupt == ASSUME LogInv, TakeInterrupt PROVE LogInv'
  <1>1. LogTypeOK'
    BY DEF LogInv, TakeInterrupt, LogTypeOK, MIS, device, registers, writers, dmaWrite, dma,
           buffer, channel
  <1>2. Serving'
    BY DEF LogInv, LogTypeOK, TakeInterrupt, Serving, MIS, Unmasked, device, registers
  <1>3. Locking' /\ Handing' /\ Alone'
    BY HandlerStays DEF TakeInterrupt
  <1> QED BY <1>1, <1>2, <1>3 DEF LogInv

\* The first driver has a branch for RX, and RX is raised; the second has
\* none for it.
LEMMA LogInvReadMIS == ASSUME LogInv, ReadMIS PROVE LogInv'
  <1>1. MIS = {"RX"}
    BY DEF LogInv, LogTypeOK, Serving, ReadMIS, MIS, Unmasked
  <1>2. MIS \cap Branches = {} <=> version # "log"
    BY <1>1 DEF Branches
  <1>3. unclaimed \in 0 .. UnclaimedLimit /\ unclaimed # UnclaimedLimit
    BY DEF LogInv, LogTypeOK, Serving, ReadMIS
  <1>4. unclaimed + 1 \in 0 .. UnclaimedLimit
    BY <1>3, LogSizesAssumption, SMT
  <1>5. LogTypeOK'
    BY <1>2, <1>4
    DEF LogInv, ReadMIS, Unclaimed, LogTypeOK, MIS, device, registers, writers, dmaWrite,
        dma, buffer, channel
  <1>6. Serving'
    BY <1>2 DEF LogInv, ReadMIS, Unclaimed, Serving, Unmasked, device, registers
  <1>7. Locking' /\ Handing' /\ Alone'
    BY HandlerStays DEF ReadMIS
  <1> QED BY <1>5, <1>6, <1>7 DEF LogInv

LEMMA LogInvAckInterrupt == ASSUME LogInv, AckInterrupt PROVE LogInv'
  <1>1. MIS = {"RX"} /\ ris = {"RX"}
    BY DEF LogInv, LogTypeOK, Serving, AckInterrupt, MIS, Unmasked
  <1>2. ris' = {} /\ irq' = FALSE /\ imsc' = imsc /\ UNCHANGED <<log, logFile>>
    BY <1>1 DEF AckInterrupt, WriteICR, Update
  <1>3. LogTypeOK'
    BY <1>2
    DEF LogInv, AckInterrupt, LogTypeOK, MIS, writers, dmaWrite, dma, buffer, channel
  <1>4. Serving'
    BY <1>2 DEF LogInv, AckInterrupt, Serving, Unmasked
  <1>5. Locking' /\ Handing' /\ Alone'
    BY HandlerStays DEF AckInterrupt
  <1> QED BY <1>3, <1>4, <1>5 DEF LogInv

LEMMA LogInvStutter == ASSUME LogInv, UNCHANGED vars PROVE LogInv'
  <1>1. LogTypeOK'
    BY DEF LogInv, LogTypeOK, MIS, vars, device, registers, writers, dmaWrite, dma, buffer,
           channel, top
  <1>2. Serving'
    BY ServingStays DEF vars, device, registers
  <1>3. Locking' /\ Handing' /\ Alone'
    BY HandlerStays DEF vars
  <1> QED BY <1>1, <1>2, <1>3 DEF LogInv

LEMMA LogInvWriter == ASSUME LogInv, NEW w \in Writers, WriterStep(w) PROVE LogInv'
  BY LogInvLock, LogInvPutByte, LogInvUnlock, LogInvWaitEvent, LogInvCopy,
     LogInvSetLength, LogInvPrepare, LogInvPrepareFails, LogInvIssue, LogInvReturnDma
     DEF WriterStep

LEMMA LogInvNext == ASSUME LogInv, [LogNext]_vars PROVE LogInv'
  <1>1. CASE \E w \in Writers, m \in Messages : BeginWrite(w, m)
    BY <1>1, LogInvBeginWrite
  <1>2. CASE \E w \in Writers : WriterStep(w) \/ Signal(w)
    BY <1>2, LogInvWriter, LogInvSignal
  <1>3. CASE DmaStep
    BY <1>3, LogInvMoveByte, LogInvComplete, LogInvTxCallback DEF DmaStep
  <1>4. CASE HandlerStep
    BY <1>4, LogInvTakeInterrupt, LogInvReadMIS, LogInvAckInterrupt DEF HandlerStep
  <1>5. CASE RemoveLog
    BY <1>5, LogInvRemoveLog
  <1>6. CASE Restart
    BY <1>6, LogInvRestart
  <1>7. CASE UNCHANGED vars
    BY <1>7, LogInvStutter
  <1> QED BY <1>1, <1>2, <1>3, <1>4, <1>5, <1>6, <1>7 DEF LogNext

\* Everything that is reachable satisfies the invariant.
LEMMA LogInvCorrect == LogSpec => []LogInv
  <1>1. LogInv /\ [LogNext]_vars => LogInv'
    BY LogInvNext
  <1> QED BY <1>1, LogInvInit, PTL DEF LogSpec

\* Type correctness of the log device and its drivers.
THEOREM LogTypeCorrect == LogSpec => []LogTypeOK
  <1>1. LogInv => LogTypeOK
    BY DEF LogInv
  <1> QED BY <1>1, LogInvCorrect, PTL

\* The kernel never takes the interrupt away from the first driver: its
\* handler (src/linux/mmio.c) finds a reason each time it is called.
THEOREM ClaimsCorrect == LogSpec => []EveryInterruptClaimed
  <1>1. LogInv => EveryInterruptClaimed
    <2>1. UnclaimedLimit # 0
      BY LogSizesAssumption, SMT
    <2> QED BY <2>1, Zenon DEF LogInv, Serving, EveryInterruptClaimed
  <1> QED BY <1>1, LogInvCorrect, PTL
-----------------------------------------------------------------------------
(* Both drivers implement the abstract log: what their steps are for it. *)

Same == UNCHANGED <<log, Owed, Deaf, KeepsApart, Ahead, Calling, Rest, disturbed>>

LEMMA SameStutters == Same => UNCHANGED AbstractLog!vars
  BY DEF Same, AbstractLog!vars, AbstractLog!outlook

LEMMA AheadStays == ASSUME UNCHANGED left PROVE Ahead' = Ahead
  BY DEF Ahead

\* What the abstract log counts, it counts as the runs do.
LEMMA AheadSpends ==
    ASSUME LogInv, NEW what \in {"erasures", "restarts", "faults", "signals"}, Spend(what)
    PROVE  /\ AbstractLog!Happens(what)
           /\ \A other \in {"erasures", "restarts", "faults", "signals"} :
                other # what => Ahead'[other] = Ahead[other]
  <1>1. /\ left \in [Events -> Nat] /\ left[what] > 0
        /\ left' = [left EXCEPT ![what] = @ - 1]
    BY DEF LogInv, LogTypeOK, Spend
  <1>2. Ahead' = [Ahead EXCEPT ![what] = @ - 1]
    BY <1>1 DEF Ahead, Events
  <1> QED BY <1>1, <1>2 DEF AbstractLog!Happens, Ahead

LEMMA WritesStay ==
    ASSUME LogInv, Spend("writes") PROVE Ahead' = Ahead
  BY DEF LogInv, LogTypeOK, Spend, Ahead, Events

\* Who holds the lock has the only thing in hand.
LEMMA InHandOfHolder == ASSUME LogInv, NEW w \in holder PROVE InHand = todo[w]
  <1>1. holder # {} /\ (CHOOSE v \in holder : TRUE) \in holder
    OBVIOUS
  <1>2. (CHOOSE v \in holder : TRUE) = w
    BY <1>1 DEF LogInv, LogTypeOK
  <1> QED BY <1>1, <1>2 DEF InHand

\* Nothing that is in hand changes with what lies outside of it.
LEMMA OwedStays ==
    ASSUME UNCHANGED <<log, logFile, holder, txBuf, transfers>>,
           \A v \in holder : todo'[v] = todo[v]
    PROVE  UNCHANGED <<log, Owed, Deaf>>
  <1>1. InTransfer' = InTransfer
    BY DEF InTransfer
  <1>2. InHand' = InHand
    <2>1. CASE holder = {}
      BY <2>1, <1>1 DEF InHand
    <2>2. CASE holder # {}
      <3>1. (CHOOSE v \in holder : TRUE) \in holder
        BY <2>2
      <3> QED BY <3>1, <2>2 DEF InHand
    <2> QED BY <2>1, <2>2
  <1> QED BY <1>2 DEF Owed, Deaf

LEMMA CallingStays ==
    ASSUME NEW w \in Writers, pc \in [Writers -> {"idle", "lock", "put", "wait", "copy",
             "length", "prepare", "issue", "last"}],
           NEW label, pc[w] # "idle", label # "idle", pc' = [pc EXCEPT ![w] = label]
    PROVE  Calling' = Calling
  BY DEF Calling, At

\* A call.
LEMMA CallBegins ==
    ASSUME LogInv, NEW w \in Writers, NEW m \in Messages, BeginWrite(w, m)
    PROVE  AbstractLog!Begin(w, m)
  <1>1. /\ pc \in [Writers -> {"idle", "lock", "put", "wait", "copy", "length", "prepare",
                               "issue", "last"}]
        /\ todo \in [Writers -> Seq(Bytes)] /\ pc[w] = "idle"
        /\ pc' = [pc EXCEPT ![w] = IF version = "log" THEN "lock" ELSE Loop(m)]
        /\ todo' = [todo EXCEPT ![w] = m]
        /\ UNCHANGED <<log, logFile, holder, txBuf, transfers, version>>
    BY DEF LogInv, LogTypeOK, BeginWrite, At, Goto, device, dma, buffer, channel
  <1>2. w \notin holder
    BY <1>1, VersionIs DEF LogInv, Locking, At
  <1>3. \A v \in holder : todo'[v] = todo[v]
    BY <1>1, <1>2 DEF LogInv, LogTypeOK
  <1>4. UNCHANGED <<log, Owed, Deaf>>
    BY <1>1, <1>3, OwedStays
  <1>5. Calling' = Calling \cup {w} /\ w \notin Calling
    BY <1>1 DEF Calling, At, Loop
  <1>6. Rest' = [Rest EXCEPT ![w] = m]
    BY <1>1, <1>2 DEF Rest
  <1>7. disturbed' = (disturbed \/ (~KeepsApart /\ Calling # {}))
    <2>1. pc # Idle <=> Calling # {}
      BY <1>1 DEF Calling, At, Idle
    <2>2. version = "logdma" <=> ~KeepsApart
      BY VersionIs DEF LogInv, KeepsApart
    <2>3. disturbed' = (disturbed \/ (version = "logdma" /\ pc # Idle))
      BY DEF BeginWrite
    <2> QED BY <2>1, <2>2, <2>3
  <1>8. KeepsApart' = KeepsApart /\ Ahead' = Ahead
    BY <1>1, WritesStay DEF BeginWrite, KeepsApart
  <1> QED BY <1>4, <1>5, <1>6, <1>7, <1>8 DEF AbstractLog!Begin, AbstractLog!outlook

\* The first driver hands a message over with the lock, ...
LEMMA LockHands ==
    ASSUME LogInv, NEW w \in Writers, Lock(w)
    PROVE  Same \/ \E n \in 1 .. Len(Rest[w]) : AbstractLog!Hand(w, n)
  <1>1. /\ UNCHANGED <<log, logFile, todo, version, left, disturbed>>
        /\ holder = {} /\ holder' = {w}
        /\ transfers = <<>> /\ log \in Seq(Cells) /\ todo[w] \in Seq(Bytes)
        /\ pc[w] = "lock" /\ pc' = [pc EXCEPT ![w] = "put"]
        /\ pc \in [Writers -> {"idle", "lock", "put", "wait", "copy", "length", "prepare",
                               "issue", "last"}]
        /\ todo \in [Writers -> Seq(Bytes)]
    BY LockWriter DEF LogInv, LogTypeOK, Lock, At, Goto, device, dmaWrite
  <1>2. InHand = <<>> /\ InHand' = todo[w]
    <2>1. InHand' = todo'[CHOOSE v \in {w} : TRUE] /\ (CHOOSE v \in {w} : TRUE) = w
      BY <1>1 DEF InHand
    <2> QED BY <2>1, <1>1 DEF InHand, InTransfer
  <1>3. Calling' = Calling /\ w \in Calling
    <2>1. Calling' = Calling
      BY <1>1, CallingStays
    <2> QED BY <2>1, <1>1 DEF Calling, At
  <1>4. Rest[w] = todo[w] /\ Rest' = [Rest EXCEPT ![w] = <<>>]
    BY <1>1 DEF Rest
  <1>5. Ahead' = Ahead /\ KeepsApart' = KeepsApart /\ Deaf' = Deaf
    BY <1>1, AheadStays DEF KeepsApart, Deaf
  <1>6. todo[w] \in Seq(Cells)
    BY <1>1 DEF Cells
  <1>7. Owed' = IF Deaf THEN Owed ELSE Owed \o todo[w]
    BY <1>1, <1>2, <1>5, <1>6, ConcatEmptySeq DEF Owed
  <1>8. CASE todo[w] = <<>>
    <2>1. Owed' = Owed
      BY <1>1, <1>7, <1>2, <1>8, ConcatEmptySeq DEF Owed
    <2>2. Rest' = Rest
      BY <1>4, <1>8 DEF Rest
    <2> QED BY <1>1, <1>3, <1>5, <2>1, <2>2 DEF Same
  <1>9. CASE todo[w] # <<>>
    <2>1. Len(todo[w]) \in Nat \ {0}
      BY <1>1, <1>9, EmptySeq
    <2>2. Len(todo[w]) \in 1 .. Len(Rest[w])
      BY <1>4, <2>1
    <2>3. SubSeq(todo[w], Len(todo[w]) + 1, Len(todo[w])) = <<>>
      <3>1. Len(todo[w]) + 1 \in Int /\ Len(todo[w]) \in Int
            /\ Len(todo[w]) < Len(todo[w]) + 1
        BY <2>1, SMT
      <3> QED BY <3>1, SubSeqEmpty
    <2>4. SubSeq(todo[w], 1, Len(todo[w])) = todo[w]
      BY <1>1, SubSeqFull
    <2>5. AbstractLog!Hand(w, Len(todo[w]))
      BY <1>1, <1>3, <1>4, <1>5, <1>7, <2>2, <2>3, <2>4
         DEF AbstractLog!Hand, AbstractLog!outlook
    <2> QED BY <2>2, <2>5
  <1> QED BY <1>8, <1>9

\* ... shows its bytes one by one, ...
LEMMA PutByteShows ==
    ASSUME LogInv, NEW w \in Writers, PutByte(w)
    PROVE  Same \/ AbstractLog!Show
  <1>1. /\ UNCHANGED <<logFile, holder, pc, version, left, disturbed>> /\ w \in holder
        /\ todo[w] \in Seq(Bytes) /\ todo[w] # <<>> /\ log \in Seq(Cells)
        /\ todo' = [todo EXCEPT ![w] = Tail(todo[w])] /\ todo'[w] = Tail(todo[w])
        /\ log' = IF logFile = "named" THEN Append(log, Head(todo[w])) ELSE log
    BY LockWriter DEF LogInv, LogTypeOK, Locking, PutByte, WriteDR, At, dmaWrite
  <1>2. InHand = todo[w]
    BY <1>1, InHandOfHolder
  <1>3. InHand' = Tail(todo[w])
    <2>1. (CHOOSE v \in holder : TRUE) \in holder
      BY <1>1
    <2>2. (CHOOSE v \in holder : TRUE) = w
      BY <1>1, <2>1 DEF LogInv, LogTypeOK
    <2> QED BY <1>1, <2>2 DEF InHand
  <1>4. Rest' = Rest /\ Calling' = Calling /\ Ahead' = Ahead
        /\ KeepsApart' = KeepsApart /\ Deaf' = Deaf
    <2>1. \A v \in Writers : v \notin holder => todo'[v] = todo[v]
      BY <1>1 DEF LogInv, LogTypeOK
    <2>2. Rest' = Rest
      BY <1>1, <2>1 DEF Rest
    <2> QED BY <1>1, <2>2, AheadStays DEF Calling, At, KeepsApart, Deaf
  <1>5. todo[w] \in Seq(Cells)
    BY <1>1 DEF Cells
  <1>6. CASE Deaf
    BY <1>1, <1>4, <1>6 DEF Same, Owed, Deaf
  <1>7. CASE ~Deaf
    BY <1>1, <1>2, <1>3, <1>4, <1>5, <1>7, HeadMoves
       DEF Owed, Deaf, AbstractLog!Show, AbstractLog!outlook
  <1> QED BY <1>6, <1>7

\* ... and returns when all are shown.
LEMMA UnlockReturns ==
    ASSUME LogInv, NEW w \in Writers, Unlock(w)
    PROVE  AbstractLog!Return(w)
  <1>1. /\ UNCHANGED <<log, logFile, transfers, txBuf, todo, version, left, disturbed>>
        /\ transfers = <<>> /\ w \in holder /\ log \in Seq(Cells)
        /\ todo[w] = <<>> /\ holder' = holder \ {w}
        /\ pc[w] = "put" /\ pc' = [pc EXCEPT ![w] = "idle"]
        /\ pc \in [Writers -> {"idle", "lock", "put", "wait", "copy", "length", "prepare",
                               "issue", "last"}]
    BY LockWriter
       DEF LogInv, LogTypeOK, Locking, Unlock, At, Goto, device, dma, buffer, channel,
           dmaWrite
  <1>2. InHand = <<>>
    BY <1>1, InHandOfHolder
  <1>3. holder' = {}
    BY <1>1 DEF LogInv, LogTypeOK
  <1>4. InHand' = <<>>
    BY <1>1, <1>3 DEF InHand, InTransfer
  <1>5. Owed = log /\ Owed' = log /\ Deaf' = Deaf
    BY <1>1, <1>2, <1>4, ConcatEmptySeq DEF Owed, Deaf
  <1>6. Calling' = Calling \ {w} /\ w \in Calling
    BY <1>1 DEF Calling, At
  <1>7. Rest' = Rest /\ Rest[w] = <<>>
    BY <1>1 DEF Rest
  <1>8. Ahead' = Ahead /\ KeepsApart' = KeepsApart
    BY <1>1, AheadStays DEF KeepsApart
  <1> QED BY <1>1, <1>5, <1>6, <1>7, <1>8
          DEF AbstractLog!Return, AbstractLog!outlook

\* The second driver's waits and copies change nothing while it is
\* undisturbed: the buffer is nobody's.
LEMMA LoopStays ==
    ASSUME LogInv, ~disturbed, NEW w \in Writers,
           WaitEvent(w) \/ Copy(w) \/ SetLength(w) \/ Prepare(w)
    PROVE  Same
  <1>1. /\ UNCHANGED <<log, logFile, holder, transfers, todo, version, left, disturbed>>
        /\ pc \in [Writers -> {"idle", "lock", "put", "wait", "copy", "length", "prepare",
                               "issue", "last"}]
        /\ pc[w] \in Filling \cup {"wait"}
    BY DEF LogInv, LogTypeOK, WaitEvent, Copy, SetLength, Prepare, At, Filling, device,
           dmaWrite, dma, buffer, channel
  <1>2. holder = {} /\ version = "logdma"
    BY <1>1, DmaWriter
  <1>3. \E label : label # "idle" /\ pc' = [pc EXCEPT ![w] = label]
    BY DEF WaitEvent, Copy, SetLength, Prepare, Goto
  <1>4. Calling' = Calling
    BY <1>1, <1>3, CallingStays DEF Filling
  <1>5. InTransfer' = InTransfer
    <2>1. CASE Copy(w)
      <3>1. transfers = <<>>
        BY <1>2, <2>1 DEF LogInv, Alone, OneTransfer, Copy, At, Filling
      <3> QED BY <1>1, <3>1 DEF InTransfer
    <2>2. CASE WaitEvent(w) \/ SetLength(w) \/ Prepare(w)
      BY <1>1, <2>2 DEF InTransfer, WaitEvent, SetLength, Prepare, dma, buffer
    <2> QED BY <2>1, <2>2
  <1>6. InHand' = InHand
    BY <1>1, <1>2, <1>5 DEF InHand
  <1>7. Owed' = Owed /\ Deaf' = Deaf /\ Rest' = Rest /\ KeepsApart' = KeepsApart
    BY <1>1, <1>6 DEF Owed, Deaf, Rest, KeepsApart
  <1> QED BY <1>1, <1>4, <1>7, AheadStays DEF Same

LEMMA FailureGivesUp ==
    ASSUME LogInv, NEW w \in Writers, PrepareFails(w)
    PROVE  AbstractLog!GiveUp(w)
  <1>1. /\ UNCHANGED <<log, logFile, holder, txBuf, transfers, version, disturbed>>
        /\ pc \in [Writers -> {"idle", "lock", "put", "wait", "copy", "length", "prepare",
                               "issue", "last"}]
        /\ todo \in [Writers -> Seq(Bytes)]
        /\ pc[w] = "prepare" /\ pc' = [pc EXCEPT ![w] = "last"]
        /\ todo' = [todo EXCEPT ![w] = <<>>]
    BY DEF LogInv, LogTypeOK, PrepareFails, At, Goto, device, dmaWrite, dma, buffer, channel
  <1>2. holder = {}
    BY <1>1, DmaWriter DEF Filling
  <1>3. UNCHANGED <<log, Owed, Deaf>>
    BY <1>1, <1>2, OwedStays
  <1>4. Calling' = Calling /\ w \in Calling
    <2>1. Calling' = Calling
      BY <1>1, CallingStays
    <2> QED BY <2>1, <1>1 DEF Calling, At
  <1>5. Rest' = [Rest EXCEPT ![w] = <<>>]
    BY <1>1, <1>2 DEF Rest
  <1>6. AbstractLog!Happens("faults")
    BY AheadSpends DEF PrepareFails
  <1> QED BY <1>1, <1>3, <1>4, <1>5, <1>6 DEF AbstractLog!GiveUp, KeepsApart

\* A chunk is handed over when its transfer is issued.
LEMMA IssueHands ==
    ASSUME LogInv, ~disturbed, NEW w \in Writers, Issue(w)
    PROVE  \E n \in 1 .. Len(Rest[w]) : AbstractLog!Hand(w, n)
  <1> DEFINE n == ChunkOf(w)
             rest == SubSeq(todo[w], n + 1, Len(todo[w]))
             next == [len |-> chunk[w], pos |-> 0]
  <1>1. /\ version = "logdma" /\ version # "log" /\ holder = {}
        /\ todo[w] # <<>> /\ pc[w] = "issue"
        /\ rest \in Seq(Bytes) /\ todo' = [todo EXCEPT ![w] = rest]
        /\ pc' = [pc EXCEPT ![w] = Loop(rest)]
        /\ next \in Transfers /\ transfers' = Append(transfers, next)
        /\ transfers \in Seq(Transfers)
    BY IssueFacts
  <1>2. /\ todo[w] \in Seq(Bytes) /\ n \in 1 .. DmaBufSize /\ n \in 1 .. Len(todo[w])
        /\ Len(todo[w]) \in Nat
    BY <1>1, ChunkFacts, LenProperties
  <1>3. /\ UNCHANGED <<log, logFile, holder, txBuf, version, left, disturbed>>
        /\ log \in Seq(Cells) /\ txBuf \in [1 .. DmaBufSize -> Cells]
        /\ todo \in [Writers -> Seq(Bytes)]
        /\ pc \in [Writers -> {"idle", "lock", "put", "wait", "copy", "length", "prepare",
                               "issue", "last"}]
    BY DEF LogInv, LogTypeOK, Issue, device, dmaWrite, buffer
  <1>4. /\ transfers = <<>> /\ chunk[w] = n
        /\ \A i \in 1 .. n : txBuf[i] = todo[w][i]
    BY <1>1 DEF LogInv, Alone, OneTransfer, OneChunk, At, Filling
  <1> HIDE DEF n
  <1>5. transfers' # <<>> /\ transfers'[1].len = n /\ transfers'[1].pos = 0
    <2>1. /\ Len(transfers) = 0
          /\ transfers' \in Seq(Transfers) /\ Len(transfers') = Len(transfers) + 1
          /\ transfers'[Len(transfers) + 1] = next
      BY <1>1, <1>4, AppendProperties, Nothings
    <2>2. Len(transfers') = 1 /\ transfers'[1] = next
      BY <2>1
    <2>3. Len(transfers') # 0
      BY <2>2
    <2>4. transfers' # <<>>
      BY <2>1, <2>3, EmptySeq
    <2> QED BY <1>4, <2>2, <2>4 DEF n
  <1>6. SubSeq(txBuf, 1, n) = SubSeq(todo[w], 1, n)
    <2>1. txBuf \in Seq(Cells) /\ Len(txBuf) = DmaBufSize /\ DmaBufSize \in Nat
      BY <1>3, BufferIsSeq, LogSizesAssumption
    <2>2. /\ todo[w] \in Seq(Cells) /\ 1 \in 1 .. Len(txBuf) + 1 /\ n \in 0 .. Len(txBuf)
          /\ 1 \in 1 .. Len(todo[w]) + 1 /\ n \in 0 .. Len(todo[w]) /\ 1 <= n
          /\ n - 1 + 1 = n
      <3>1. todo[w] \in Seq(Cells)
        BY <1>2 DEF Cells
      <3> QED BY <1>2, <2>1, <3>1
    <2>3. /\ SubSeq(txBuf, 1, n) \in Seq(Cells) /\ Len(SubSeq(txBuf, 1, n)) = n
          /\ \A i \in 1 .. n : SubSeq(txBuf, 1, n)[i] = txBuf[1 + i - 1]
      BY <2>1, <2>2, PartIsSeq
    <2>4. /\ SubSeq(todo[w], 1, n) \in Seq(Cells) /\ Len(SubSeq(todo[w], 1, n)) = n
          /\ \A i \in 1 .. n : SubSeq(todo[w], 1, n)[i] = todo[w][1 + i - 1]
      BY <2>2, PartIsSeq
    <2>5. \A i \in 1 .. n : 1 + i - 1 = i
      BY <1>2, SMT
    <2> QED BY <1>4, <2>3, <2>4, <2>5, SeqEqual
  <1>7. InTransfer = <<>> /\ InTransfer' = SubSeq(todo[w], 1, n)
    <2>1. 0 + 1 = 1
      OBVIOUS
    <2>2. InTransfer' = SubSeq(txBuf, 1, n)
      BY <1>3, <1>5, <2>1 DEF InTransfer
    <2> QED BY <1>4, <1>6, <2>2 DEF InTransfer
  <1>8. InHand = <<>> /\ InHand' = SubSeq(todo[w], 1, n)
    BY <1>1, <1>3, <1>7 DEF InHand
  <1>9. Owed' = IF Deaf THEN Owed ELSE Owed \o SubSeq(todo[w], 1, n)
    BY <1>3, <1>8, ConcatEmptySeq DEF Owed, Deaf
  <1>10. Rest[w] = todo[w] /\ Rest' = [Rest EXCEPT ![w] = rest]
    BY <1>1, <1>3 DEF Rest
  <1>11. Calling' = Calling /\ w \in Calling
    <2>1. Calling' = Calling
      BY <1>1, <1>3, CallingStays DEF Loop
    <2> QED BY <2>1, <1>1 DEF Calling, At
  <1>12. Ahead' = Ahead /\ KeepsApart' = KeepsApart /\ Deaf' = Deaf
    BY <1>3, AheadStays DEF KeepsApart, Deaf
  <1>13. n \in 1 .. Len(Rest[w])
    BY <1>2, <1>10
  <1>14. AbstractLog!Hand(w, n)
    BY <1>3, <1>9, <1>10, <1>11, <1>12, <1>13 DEF AbstractLog!Hand, AbstractLog!outlook
  <1> QED BY <1>13, <1>14

LEMMA DmaReturns ==
    ASSUME LogInv, ~disturbed, NEW w \in Writers, ReturnDma(w)
    PROVE  AbstractLog!Return(w)
  <1>1. /\ UNCHANGED <<log, logFile, holder, transfers, txBuf, todo, version, left, disturbed>>
        /\ pc[w] = "last" /\ pc' = [pc EXCEPT ![w] = "idle"] /\ todo[w] = <<>>
        /\ pc \in [Writers -> {"idle", "lock", "put", "wait", "copy", "length", "prepare",
                               "issue", "last"}]
        /\ log \in Seq(Cells)
    BY DEF LogInv, LogTypeOK, Handing, ReturnDma, At, Goto, device, dma, buffer, channel
  <1>2. holder = {} /\ version = "logdma"
    BY <1>1, DmaWriter
  <1>3. transfers = <<>>
    <2>1. ~txQueued
      BY <1>1, <1>2, OthersIdle DEF ReturnDma, At
    <2> QED BY <1>2, <2>1 DEF LogInv, Alone, OneTransfer
  <1>4. UNCHANGED <<log, Owed, Deaf>>
    BY <1>1, <1>2, OwedStays
  <1>5. Owed = log
    BY <1>1, <1>2, <1>3, ConcatEmptySeq DEF Owed, InHand, InTransfer
  <1>6. Calling' = Calling \ {w} /\ w \in Calling
    BY <1>1 DEF Calling, At
  <1>7. Rest' = Rest /\ Rest[w] = <<>>
    BY <1>1, <1>2 DEF Rest
  <1>8. Ahead' = Ahead /\ KeepsApart' = KeepsApart
    BY <1>1, AheadStays DEF KeepsApart
  <1> QED BY <1>1, <1>4, <1>5, <1>6, <1>7, <1>8
          DEF AbstractLog!Return, AbstractLog!outlook

LEMMA SignalDisturbs ==
    ASSUME LogInv, NEW w \in Writers, Signal(w)
    PROVE  AbstractLog!Signal
  <1>1. /\ UNCHANGED <<log, logFile, holder, transfers, txBuf, todo, version, pc>>
        /\ disturbed' = TRUE /\ version = "logdma" /\ ~At(w, "idle")
    BY DEF Signal, device, dma, buffer, channel
  <1>2. UNCHANGED <<log, Owed, Deaf>>
    BY <1>1, OwedStays
  <1>3. UNCHANGED <<Calling, Rest, KeepsApart>> /\ Calling # {} /\ ~KeepsApart
    BY <1>1 DEF Calling, Rest, KeepsApart, At
  <1>4. AbstractLog!Happens("signals")
    BY AheadSpends DEF Signal
  <1> QED BY <1>1, <1>2, <1>3, <1>4 DEF AbstractLog!Signal

\* The channel's bytes.
LEMMA MoveByteShows ==
    ASSUME LogInv, MoveByte
    PROVE  Same \/ AbstractLog!Show
  <1> DEFINE p == transfers[1].pos
             n == transfers[1].len
             moved == [transfers[1] EXCEPT !.pos = @ + 1]
             t == SubSeq(txBuf, p + 1, n)
  <1>1. /\ holder = {} /\ txBuf[p + 1] \in Cells /\ 1 \in 1 .. Len(transfers)
        /\ transfers[1] \in Transfers /\ p + 1 \in 1 .. n /\ moved \in Transfers
    BY MovedByte
  <1>2. /\ UNCHANGED <<logFile, holder, txBuf, pc, todo, version, left, disturbed>>
        /\ transfers # <<>> /\ transfers \in Seq(Transfers)
        /\ transfers' = [transfers EXCEPT ![1] = moved]
        /\ log \in Seq(Cells) /\ txBuf \in [1 .. DmaBufSize -> Cells]
        /\ log' = IF logFile = "named" THEN Append(log, txBuf[p + 1]) ELSE log
    BY DEF MoveByte, WriteDR, LogInv, LogTypeOK, Transfers, writers, dmaWrite, buffer
  <1>3. moved.pos = p + 1 /\ moved.len = n /\ p \in Nat /\ n \in Nat /\ n <= DmaBufSize
    BY <1>1, LogSizesAssumption DEF Transfers
  <1>4. transfers' # <<>> /\ transfers'[1] = moved
    <2> HIDE DEF moved
    <2>1. transfers' \in Seq(Transfers) /\ Len(transfers') = Len(transfers)
          /\ transfers'[1] = moved
      BY <1>1, <1>2, ExceptSeq
    <2> QED BY <1>1, <2>1, EmptySeq, SMT
  <1>5. InTransfer = t /\ InTransfer' = SubSeq(txBuf, p + 1 + 1, n)
    BY <1>2, <1>3, <1>4 DEF InTransfer
  <1>6. txBuf \in Seq(Cells) /\ Len(txBuf) = DmaBufSize /\ DmaBufSize \in Nat
    BY <1>2, BufferIsSeq, LogSizesAssumption
  <1> HIDE DEF p, n, moved
  <1>7. /\ t \in Seq(Cells) /\ Len(t) = n - p /\ Len(t) # 0
        /\ \A i \in 1 .. n - (p + 1) + 1 : t[i] = txBuf[p + 1 + i - 1]
    <2>1. p + 1 \in 1 .. Len(txBuf) + 1 /\ n \in 0 .. Len(txBuf) /\ p + 1 <= n
          /\ n - (p + 1) + 1 = n - p /\ n - p # 0
      BY <1>1, <1>3, <1>6, SMT
    <2> QED BY <1>6, <2>1, PartIsSeq
  <1>8. /\ InTransfer' \in Seq(Cells) /\ Len(InTransfer') = n - p - 1
        /\ \A i \in 1 .. n - (p + 1 + 1) + 1 : InTransfer'[i] = txBuf[p + 1 + 1 + i - 1]
    <2>1. /\ p + 1 + 1 \in 1 .. Len(txBuf) + 1 /\ n \in 0 .. Len(txBuf)
          /\ p + 1 + 1 <= n => n - (p + 1 + 1) + 1 = n - p - 1
          /\ ~(p + 1 + 1 <= n) => n - p - 1 = 0
      BY <1>1, <1>3, <1>6, SMT
    <2> QED BY <1>5, <1>6, <2>1, PartIsSeq
  <1> HIDE DEF t
  <1>9. t # <<>> /\ Head(t) = txBuf[p + 1] /\ Tail(t) = InTransfer'
    <2>1. t # <<>>
      BY <1>7, EmptySeq
    <2>2. /\ Head(t) = t[1] /\ Tail(t) \in Seq(Cells) /\ Len(Tail(t)) = Len(t) - 1
          /\ \A i \in 1 .. Len(Tail(t)) : Tail(t)[i] = t[i + 1]
      BY <1>7, <2>1, HeadTailProperties
    <2>3. t[1] = txBuf[p + 1]
      <3>1. 1 \in 1 .. n - (p + 1) + 1 /\ p + 1 + 1 - 1 = p + 1
        BY <1>1, <1>3, SMT
      <3> QED BY <1>7, <3>1
    <2>4. ASSUME NEW i \in 1 .. Len(Tail(t)) PROVE Tail(t)[i] = InTransfer'[i]
      <3>1. /\ i \in 1 .. n - (p + 1 + 1) + 1 /\ i + 1 \in 1 .. n - (p + 1) + 1
            /\ p + 1 + (i + 1) - 1 = p + 1 + 1 + i - 1
        BY <1>3, <1>7, <2>2, SMT
      <3> QED BY <1>7, <1>8, <2>2, <3>1
    <2>5. Len(Tail(t)) = Len(InTransfer')
      BY <1>3, <1>7, <1>8, <2>2, SMT
    <2> QED BY <1>8, <2>1, <2>2, <2>3, <2>4, <2>5, SeqEqual
  <1>10. InHand = t /\ InHand' = Tail(t)
    BY <1>1, <1>2, <1>5, <1>9 DEF InHand
  <1>11. UNCHANGED <<Calling, Rest, Ahead, KeepsApart, Deaf>>
    BY <1>2, AheadStays DEF Calling, Rest, KeepsApart, Deaf, At
  <1>12. CASE Deaf
    BY <1>2, <1>11, <1>12 DEF Same, Owed, Deaf
  <1>13. CASE ~Deaf
    BY <1>2, <1>7, <1>9, <1>10, <1>11, <1>13, HeadMoves
       DEF Owed, Deaf, AbstractLog!Show, AbstractLog!outlook
  <1> QED BY <1>12, <1>13

LEMMA CompletionStays ==
    ASSUME LogInv, ~disturbed, Complete
    PROVE  Same
  <1>1. /\ UNCHANGED <<log, logFile, holder, txBuf, pc, todo, version, left, disturbed>>
        /\ transfers # <<>> /\ transfers' = Tail(transfers)
        /\ transfers[1].pos = transfers[1].len
        /\ transfers \in Seq(Transfers)
    BY DEF Complete, LogInv, LogTypeOK, Transfers, device, writers, dmaWrite, buffer
  <1>2. version = "logdma" /\ holder = {}
    BY <1>1, VersionIs DEF LogInv, Locking
  <1>3. Len(transfers) = 1
    <2>1. Len(transfers) <= 1
      BY <1>2 DEF LogInv, Alone, OneTransfer
    <2>2. Len(transfers) \in Nat /\ Len(transfers) # 0
      BY <1>1, EmptySeq, LenProperties
    <2>3. \A k \in Nat : k <= 1 /\ k # 0 => k = 1
      BY SMT
    <2> QED BY <2>1, <2>2, <2>3, Zenon
  <1>4. transfers' = <<>>
    <2>1. transfers' \in Seq(Transfers) /\ Len(transfers') = 0
      BY <1>1, <1>3, HeadTailProperties
    <2> QED BY <2>1, EmptySeq
  <1>5. InTransfer = <<>> /\ InTransfer' = <<>>
    <2>1. transfers[1].len \in Nat
      <3>1. transfers[1] \in Transfers
        BY <1>1, <1>3, ElementOfSeq
      <3> QED BY <3>1, LogSizesAssumption DEF Transfers
    <2>2. transfers[1].len < transfers[1].len + 1 /\ transfers[1].len + 1 \in Int
          /\ transfers[1].len \in Int
      BY <2>1, SMT
    <2>3. SubSeq(txBuf, transfers[1].pos + 1, transfers[1].len) = <<>>
      BY <1>1, <2>2, SubSeqEmpty
    <2> QED BY <1>4, <2>3 DEF InTransfer
  <1>6. Owed' = Owed /\ Deaf' = Deaf
    BY <1>1, <1>2, <1>5 DEF Owed, Deaf, InHand
  <1> QED BY <1>1, <1>6, AheadStays DEF Same, Calling, Rest, KeepsApart, At

LEMMA OthersStay ==
    ASSUME LogInv, UNCHANGED <<version, log, logFile, writers, buffer, transfers, left>>
    PROVE  Same
  <1>1. UNCHANGED <<version, log, logFile, pc, todo, holder, disturbed, txBuf, transfers>>
    BY DEF writers, dmaWrite, buffer
  <1>2. UNCHANGED <<log, Owed, Deaf>>
    BY <1>1, OwedStays
  <1> QED BY <1>1, <1>2, AheadStays DEF Same, Calling, Rest, KeepsApart, At

LEMMA ErasureErases ==
    ASSUME LogInv, RemoveLog PROVE AbstractLog!Erase
  <1>1. /\ log' = <<>> /\ logFile' # "named"
        /\ UNCHANGED <<version, pc, todo, holder, disturbed>>
    BY DEF RemoveLog, WriteLDR, writers, dmaWrite
  <1>2. AbstractLog!Happens("erasures")
    BY AheadSpends DEF RemoveLog
  <1>3. Owed' = <<>> /\ Deaf' = TRUE
    BY <1>1 DEF Owed, Deaf
  <1> QED BY <1>1, <1>2, <1>3 DEF AbstractLog!Erase, KeepsApart, Calling, Rest, At

LEMMA RestartRestarts ==
    ASSUME LogInv, Restart PROVE AbstractLog!Restart
  <1>1. /\ log' = log /\ holder' = {} /\ transfers' = <<>> /\ log \in Seq(Cells)
        /\ pc' = Idle /\ todo' = Nothing /\ disturbed' = FALSE /\ version' = version
    BY DEF LogInv, LogTypeOK, Restart, OpenLog
  <1>2. Owed' = log
    BY <1>1, ConcatEmptySeq DEF Owed, InHand, InTransfer
  <1>3. Calling' = {} /\ Rest' = [c \in Writers |-> <<>>]
    BY <1>1 DEF Calling, Rest, Idle, Nothing, At
  <1>4. AbstractLog!Happens("restarts")
    BY AheadSpends DEF Restart
  <1> QED BY <1>1, <1>2, <1>3, <1>4 DEF AbstractLog!Restart, KeepsApart, Deaf

\* Once it is disturbed, the second driver still only adds to the log.
LEMMA DisorderOnlyAdds ==
    ASSUME LogInv, disturbed, disturbed' = TRUE, UNCHANGED <<version, logFile>>,
           log' = log \/ (\E b \in Cells : log' = Append(log, b)),
           \A what \in {"erasures", "restarts"} : left'[what] = left[what]
    PROVE  AbstractLog!Disorder
  <1>1. Deaf' = Deaf /\ KeepsApart' = KeepsApart
    BY DEF Deaf, KeepsApart
  <1>2. \A what \in {"erasures", "restarts"} : Ahead'[what] = Ahead[what]
    BY DEF Ahead
  <1> QED BY <1>1, <1>2 DEF AbstractLog!Disorder

\* A write's spending, a failure's and a signal's are not erasures.
LEMMA OtherSpending ==
    ASSUME LogInv, NEW what \in {"writes", "faults", "signals"}, Spend(what)
    PROVE  left'["erasures"] = left["erasures"] /\ left'["restarts"] = left["restarts"]
  BY DEF LogInv, LogTypeOK, Spend, Events

LEMMA WriterDisorder ==
    ASSUME LogInv, disturbed, NEW w \in Writers, WriterStep(w) \/ Signal(w)
    PROVE  AbstractLog!Disorder
  <1>1. version # "log"
    BY DEF LogInv, Locking
  <1>2. ~Lock(w) /\ ~PutByte(w) /\ ~Unlock(w)
    BY <1>1, LockWriter DEF Lock, PutByte, Unlock, At
  <1>3. CASE WaitEvent(w) \/ Copy(w) \/ SetLength(w) \/ Prepare(w) \/ Issue(w) \/ ReturnDma(w)
    <2>1. /\ UNCHANGED <<version, logFile, log, left>> /\ disturbed' = disturbed
      BY <1>3 DEF WaitEvent, Copy, SetLength, Prepare, Issue, ReturnDma, device, dmaWrite
    <2> QED BY <2>1, DisorderOnlyAdds DEF LogInv, LogTypeOK
  <1>4. CASE PrepareFails(w) \/ Signal(w)
    <2>1. /\ UNCHANGED <<version, logFile, log>> /\ disturbed' = TRUE
      BY <1>4 DEF PrepareFails, Signal, device, dmaWrite, LogInv, LogTypeOK
    <2>2. left'["erasures"] = left["erasures"] /\ left'["restarts"] = left["restarts"]
      BY <1>4, OtherSpending DEF PrepareFails, Signal
    <2> QED BY <2>1, <2>2, DisorderOnlyAdds
  <1> QED BY <1>2, <1>3, <1>4 DEF WriterStep

LEMMA DmaDisorder ==
    ASSUME LogInv, disturbed, MoveByte \/ Complete PROVE AbstractLog!Disorder
  <1>1. UNCHANGED <<version, logFile, left>> /\ disturbed' = TRUE
    BY DEF LogInv, LogTypeOK, MoveByte, Complete, WriteDR, device, writers, dmaWrite
  <1>2. log' = log \/ (\E b \in Cells : log' = Append(log, b))
    BY MovedByte DEF MoveByte, Complete, WriteDR, device
  <1> QED BY <1>1, <1>2, DisorderOnlyAdds

LEMMA LogNextIsJournal ==
    ASSUME LogInv, [LogNext]_vars
    PROVE  AbstractLog!Next \/ UNCHANGED AbstractLog!vars
  <1>1. CASE \E w \in Writers, m \in Messages : BeginWrite(w, m)
    BY <1>1, CallBegins DEF AbstractLog!Next
  <1>2. ASSUME NEW w \in Writers, WriterStep(w)
        PROVE  AbstractLog!Next \/ Same
    <2>1. CASE disturbed
      BY <1>2, <2>1, WriterDisorder DEF AbstractLog!Next
    <2>2. CASE Lock(w)
      BY <2>2, LockHands DEF AbstractLog!Next
    <2>3. CASE PutByte(w)
      BY <2>3, PutByteShows DEF AbstractLog!Next
    <2>4. CASE Unlock(w)
      BY <2>4, UnlockReturns DEF AbstractLog!Next
    <2>5. CASE ~disturbed /\ (WaitEvent(w) \/ Copy(w) \/ SetLength(w) \/ Prepare(w))
      BY <2>5, LoopStays
    <2>6. CASE PrepareFails(w)
      BY <2>6, FailureGivesUp DEF AbstractLog!Next
    <2>7. CASE ~disturbed /\ Issue(w)
      BY <2>7, IssueHands DEF AbstractLog!Next
    <2>8. CASE ~disturbed /\ ReturnDma(w)
      BY <2>8, DmaReturns DEF AbstractLog!Next
    <2> QED BY <1>2, <2>1, <2>2, <2>3, <2>4, <2>5, <2>6, <2>7, <2>8 DEF WriterStep
  <1>3. ASSUME NEW w \in Writers, Signal(w) PROVE AbstractLog!Next
    BY <1>3, SignalDisturbs DEF AbstractLog!Next
  <1>4. CASE MoveByte
    BY <1>4, MoveByteShows, SameStutters DEF AbstractLog!Next
  <1>5. CASE Complete
    <2>1. disturbed => AbstractLog!Next
      BY <1>5, DmaDisorder DEF AbstractLog!Next
    <2>2. ~disturbed => Same
      BY <1>5, CompletionStays
    <2> QED BY <2>1, <2>2, SameStutters
  <1>6. CASE TxCallback \/ TakeInterrupt \/ ReadMIS \/ AckInterrupt \/ UNCHANGED vars
    <2>1. UNCHANGED <<version, log, logFile, writers, buffer, transfers, left>>
      BY <1>6 DEF TxCallback, TakeInterrupt, ReadMIS, AckInterrupt, WriteICR, vars, device,
                  dma, channel
    <2> QED BY <2>1, OthersStay, SameStutters
  <1>7. CASE RemoveLog
    BY <1>7, ErasureErases DEF AbstractLog!Next
  <1>8. CASE Restart
    BY <1>8, RestartRestarts DEF AbstractLog!Next
  <1> QED BY <1>1, <1>2, <1>3, <1>4, <1>5, <1>6, <1>7, <1>8, SameStutters
          DEF LogNext, DmaStep, HandlerStep

LEMMA LogInitIsJournal == LogInit => AbstractLog!Init
  <1> SUFFICES ASSUME LogInit PROVE AbstractLog!Init
    OBVIOUS
  <1>1. log = <<>> /\ ~Deaf /\ Owed = <<>>
    <2>1. InHand = <<>>
      BY DEF LogInit, InHand, InTransfer
    <2> QED BY <2>1, Nothings, ConcatEmptySeq DEF LogInit, Owed, Deaf
  <1>2. Calling = {} /\ Rest = [c \in Writers |-> <<>>] /\ disturbed = FALSE
    BY DEF LogInit, Calling, Rest, Idle, Nothing, At
  <1>3. Ahead \in [{"erasures", "restarts", "faults", "signals"} -> Nat]
    <2>1. left \in [Events -> Nat]
      BY LogBudgetAssumption DEF LogInit
    <2> QED BY <2>1 DEF Ahead, Events
  <1>4. KeepsApart \in BOOLEAN
    BY DEF KeepsApart
  <1> QED BY <1>1, <1>2, <1>3, <1>4 DEF AbstractLog!Init, Deaf

\* The bytes of each write appear in the log once and in order, and are there
\* when it returns, until an erasure makes the device deaf; a restart of the
\* machine keeps what has appeared: write() and ioctl of both log drivers
\* against the device's DR and LDR.  With the lock of the first driver for
\* any number of writers at once; with the DMA of the second for writes that
\* do not overlap and are not sent a signal, and of the others only that they
\* add to the log and take nothing away.
THEOREM LogIsJournal == LogSpec => IsJournal
  <1>1. LogInv /\ [LogNext]_vars => [AbstractLog!Next]_(AbstractLog!vars)
    BY LogNextIsJournal
  <1> QED BY <1>1, LogInitIsJournal, LogInvCorrect, PTL
          DEF LogSpec, IsJournal, AbstractLog!Spec
=============================================================================
