--------------------------- MODULE SpiScaleProofs ---------------------------
(***************************************************************************)
(* The SPI scale for every set of processes and weights, every size of a   *)
(* byte and every bound.  The inductive invariant is ScaleInv: the mutex   *)
(* makes the message and the peripheral's cycle the holder's own, which is *)
(* what the types need as well (a cycle that is not the caller's own could *)
(* pass 2), and a csdev that is freed is in nobody's hands, which is what  *)
(* lets a new probe start from scratch.                                    *)
(***************************************************************************)
EXTENDS SpiScale, TLAPS

USE DEF binding

\* A csdev that is freed is in nobody's hands, and its file is gone.
FreedIsUnused ==
    /\ phase = "unbound" => /\ \A c \in Callers : At(c, "idle")
                            /\ lock = NoOne /\ bus = NoOne
    /\ file => phase \in {"bound", "destroyed"}

ScaleInv == ScaleTypeOK /\ ExchangeIsOurs /\ FreedIsUnused

-----------------------------------------------------------------------------
(* Arithmetic of bytes and words. *)

LEMMA WordType == Word \in Nat
  BY BaseAssumption, SMT DEF Word

LEMMA BytesInRange ==
    ASSUME NEW n \in Int
    PROVE  High(n) \in 0 .. Base - 1 /\ Low(n) \in 0 .. Base - 1
  <1>1. n \div Base \in Int
    BY BaseAssumption
  <1>2. \A m \in Int : m % Base \in 0 .. Base - 1
    BY BaseAssumption
  <1> QED BY <1>1, <1>2 DEF High, Low

-----------------------------------------------------------------------------
(* The initial states and the steps, one lemma for each. *)

LEMMA InitInv == Init => ScaleInv
  <1> SUFFICES ASSUME Init PROVE ScaleInv
    OBVIOUS
  <1>1. 0 \in 0 .. Word - 1 /\ 0 \in 0 .. Base - 1
    <2>1. Base * Base >= 1 /\ Base * Base \in Nat
      BY BaseAssumption, SMT
    <2> QED BY <2>1, BaseAssumption DEF Word
  <1>2. ScaleTypeOK
    <2>1. /\ scale \in 0 .. Word - 1 /\ offset \in 0 .. Word - 1 /\ cycle \in 0 .. 2
          /\ txBuf \in 0 .. 2 /\ rxBuf \in (0 .. Base - 1) \X (0 .. Base - 1)
      BY <1>1 DEF Init
    <2>2. /\ calls \in 0 .. MaxCalls /\ moves \in 0 .. MaxMoves
          /\ faults \in 0 .. MaxFaults /\ probes \in 0 .. MaxProbes
      BY BoundsAssumption DEF Init
    <2>3. answer \in [Callers -> [status : {"none", "shown", "zeroed", "error"}, value : Int]]
      BY DEF Init, Told
    <2>4. pc \in [Callers -> Labels] /\ op \in [Callers -> {"show", "zero"}]
      BY DEF Init, Labels
    <2> QED BY <2>1, <2>2, <2>3, <2>4 DEF Init, ScaleTypeOK
  <1>3. ExchangeIsOurs
    BY NoOneAssumption DEF Init, ExchangeIsOurs, Inside, At
  <1>4. FreedIsUnused
    BY DEF Init, FreedIsUnused, At
  <1> QED BY <1>2, <1>3, <1>4 DEF ScaleInv

LEMMA HostMovesInv ==
    ASSUME ScaleInv, NEW w \in Weights, HostMoves(w)
    PROVE  ScaleInv'
  <1> USE DEF HostMoves, caller, message
  <1>1. ScaleTypeOK'
    BY WeightsAssumption, BoundsAssumption, SMT DEF ScaleInv, ScaleTypeOK
  <1>2. ExchangeIsOurs'
    BY DEF ScaleInv, ExchangeIsOurs, At
  <1>3. FreedIsUnused'
    BY DEF ScaleInv, FreedIsUnused, At
  <1> QED BY <1>1, <1>2, <1>3 DEF ScaleInv

LEMMA ProbeInv == ScaleInv /\ Probe => ScaleInv'
  <1> SUFFICES ASSUME ScaleInv, Probe PROVE ScaleInv'
    OBVIOUS
  <1> USE DEF Probe, peripheral, caller
  <1>1. ScaleTypeOK'
    <2>1. faults' \in 0 .. MaxFaults /\ probes' \in 0 .. MaxProbes
      BY BoundsAssumption DEF ScaleInv, ScaleTypeOK
    <2>2. 0 \in 0 .. Base - 1
      BY BaseAssumption
    <2>3. rxBuf' \in (0 .. Base - 1) \X (0 .. Base - 1) /\ txBuf' \in 0 .. 2
      BY <2>2
    <2>4. lock' \in Callers \cup {NoOne} /\ phase' = "bound" /\ file' \in BOOLEAN
      BY DEF ScaleInv, ScaleTypeOK
    <2>5. UNCHANGED <<scale, offset, cycle, bus, pc, op, answer, moved, calls, moves>>
      OBVIOUS
    <2> QED BY <2>1, <2>3, <2>4, <2>5 DEF ScaleInv, ScaleTypeOK
  <1>2. ExchangeIsOurs'
    BY NoOneAssumption DEF ScaleInv, ExchangeIsOurs, FreedIsUnused, At, Inside
  <1>3. FreedIsUnused'
    BY DEF FreedIsUnused
  <1> QED BY <1>1, <1>2, <1>3 DEF ScaleInv

LEMMA RemoveBeginInv == ScaleInv /\ (DestroyMutex \/ RemoveGroup) => ScaleInv'
  BY DEF DestroyMutex, RemoveGroup, peripheral, message, caller, bounds, ScaleInv,
         ScaleTypeOK, ExchangeIsOurs, FreedIsUnused, At

LEMMA RemoveEndInv == ScaleInv /\ RemoveEnd => ScaleInv'
  <1> SUFFICES ASSUME ScaleInv, RemoveEnd PROVE ScaleInv'
    OBVIOUS
  <1> USE DEF RemoveEnd, peripheral, message, caller, bounds
  <1>1. ScaleTypeOK'
    BY DEF ScaleInv, ScaleTypeOK
  <1>2. ExchangeIsOurs'
    BY DEF ScaleInv, ExchangeIsOurs, At
  <1>3. lock = NoOne /\ bus = NoOne
    BY DEF ScaleInv, ScaleTypeOK, ExchangeIsOurs, At, Inside
  <1>4. FreedIsUnused'
    BY <1>3 DEF ScaleInv, FreedIsUnused, At
  <1> QED BY <1>1, <1>2, <1>4 DEF ScaleInv
-----------------------------------------------------------------------------
(* The steps of a call.  Whoever has one under way is in the file, so the  *)
(* driver is bound. *)

LEMMA CallerIsInFile ==
    ASSUME ScaleInv, NEW c \in Callers, ~At(c, "idle")
    PROVE  phase # "unbound"
  BY DEF ScaleInv, FreedIsUnused

LEMMA CallInv ==
    ASSUME ScaleInv, NEW c \in Callers, NEW what \in {"show", "zero"}, Call(c, what)
    PROVE  ScaleInv'
  <1> USE DEF Call, Goto, peripheral, message
  <1>1. ScaleTypeOK'
    BY BoundsAssumption, SMT DEF ScaleInv, ScaleTypeOK, Labels, At
  <1>2. ExchangeIsOurs'
    BY NoOneAssumption DEF ScaleInv, ScaleTypeOK, ExchangeIsOurs, At, Inside
  <1>3. FreedIsUnused'
    BY CallerIsInFile DEF ScaleInv, FreedIsUnused, At
  <1> QED BY <1>1, <1>2, <1>3 DEF ScaleInv

LEMMA LockInv ==
    ASSUME ScaleInv, NEW c \in Callers, Lock(c)
    PROVE  ScaleInv'
  <1> USE DEF Lock, Goto, peripheral, bounds
  <1>1. ScaleTypeOK'
    BY DEF ScaleInv, ScaleTypeOK, Labels, Command, GET_SCALE, SET_ZERO, At
  <1>2. ExchangeIsOurs'
    BY NoOneAssumption DEF ScaleInv, ScaleTypeOK, ExchangeIsOurs, At, Inside
  <1>3. FreedIsUnused'
    BY CallerIsInFile DEF ScaleInv, FreedIsUnused, At
  <1> QED BY <1>1, <1>2, <1>3 DEF ScaleInv

LEMMA SubmitInv ==
    ASSUME ScaleInv, NEW c \in Callers, Submit(c)
    PROVE  ScaleInv'
  <1> USE DEF Submit, Goto, peripheral, bounds
  <1>1. ScaleTypeOK'
    BY DEF ScaleInv, ScaleTypeOK, Labels, At
  <1>2. ExchangeIsOurs'
    BY NoOneAssumption DEF ScaleInv, ScaleTypeOK, ExchangeIsOurs, At, Inside
  <1>3. FreedIsUnused'
    BY CallerIsInFile DEF ScaleInv, FreedIsUnused, At
  <1> QED BY <1>1, <1>2, <1>3 DEF ScaleInv

LEMMA SendCommandInv ==
    ASSUME ScaleInv, NEW c \in Callers, SendCommand(c)
    PROVE  ScaleInv'
  <1> USE DEF SendCommand, Goto, Transfer, message, bounds
  <1>0. txBuf # 0
    BY DEF ScaleInv, ExchangeIsOurs, ScaleTypeOK, Inside, Command, GET_SCALE, SET_ZERO, At
  <1>1. ScaleTypeOK'
    <2>1. offset' \in 0 .. Word - 1 /\ cycle' = 0
      BY <1>0 DEF ScaleInv, ScaleTypeOK
    <2> QED BY <2>1 DEF ScaleInv, ScaleTypeOK, Labels
  <1>2. ExchangeIsOurs'
    BY <1>0, NoOneAssumption DEF ScaleInv, ScaleTypeOK, ExchangeIsOurs, At, Inside
  <1>3. FreedIsUnused'
    BY CallerIsInFile DEF ScaleInv, FreedIsUnused, At
  <1> QED BY <1>1, <1>2, <1>3 DEF ScaleInv

LEMMA ReceiveHighInv ==
    ASSUME ScaleInv, NEW c \in Callers, ReceiveHigh(c)
    PROVE  ScaleInv'
  <1> USE DEF ReceiveHigh, Goto, Transfer, bounds
  <1>0. cycle = 0 /\ cycle' = 1
    BY DEF ScaleInv, ScaleTypeOK, ExchangeIsOurs, At
  <1>1. ScaleTypeOK'
    <2>1. scale' - offset' \in Int
      BY WordType, SMT DEF ScaleInv, ScaleTypeOK, SET_ZERO
    <2>2. Miso \in 0 .. Base - 1
      BY <2>1, <1>0, BytesInRange DEF Miso
    <2>3. rxBuf' \in (0 .. Base - 1) \X (0 .. Base - 1)
      BY <2>2 DEF ScaleInv, ScaleTypeOK
    <2>4. offset' = offset
      BY DEF SET_ZERO
    <2>5. pc' \in [Callers -> Labels]
      BY DEF ScaleInv, ScaleTypeOK, Labels
    <2>6. cycle' \in 0 .. 2 /\ scale' = scale
      BY <1>0, SMT
    <2>7. moved' \in BOOLEAN
      BY Zenon
    <2>8. UNCHANGED <<lock, bus, txBuf, phase, op, answer, calls, moves, faults, probes>>
      OBVIOUS
    <2> QED BY <2>3, <2>4, <2>5, <2>6, <2>7, <2>8 DEF ScaleInv, ScaleTypeOK
  <1>2. ExchangeIsOurs'
    BY <1>0, NoOneAssumption DEF ScaleInv, ScaleTypeOK, ExchangeIsOurs, At, Inside
  <1>3. FreedIsUnused'
    BY CallerIsInFile DEF ScaleInv, FreedIsUnused, At
  <1> QED BY <1>1, <1>2, <1>3 DEF ScaleInv

LEMMA ReceiveLowInv ==
    ASSUME ScaleInv, NEW c \in Callers, ReceiveLow(c)
    PROVE  ScaleInv'
  <1> USE DEF ReceiveLow, Goto, Transfer, bounds
  <1>0. cycle = 1 /\ cycle' = 2
    BY DEF ScaleInv, ScaleTypeOK, ExchangeIsOurs, At
  <1>1. ScaleTypeOK'
    <2>1. scale' - offset' \in Int
      BY WordType, SMT DEF ScaleInv, ScaleTypeOK, SET_ZERO
    <2>2. Miso \in 0 .. Base - 1
      BY <2>1, <1>0, BytesInRange DEF Miso
    <2>3. rxBuf' \in (0 .. Base - 1) \X (0 .. Base - 1)
      BY <2>2 DEF ScaleInv, ScaleTypeOK
    <2>4. offset' = offset
      BY DEF SET_ZERO
    <2> QED BY <1>0, <2>3, <2>4 DEF ScaleInv, ScaleTypeOK, Labels
  <1>2. ExchangeIsOurs'
    BY <1>0, NoOneAssumption DEF ScaleInv, ScaleTypeOK, ExchangeIsOurs, At, Inside
  <1>3. FreedIsUnused'
    BY CallerIsInFile DEF ScaleInv, FreedIsUnused, At
  <1> QED BY <1>1, <1>2, <1>3 DEF ScaleInv

LEMMA SyncFailsInv ==
    ASSUME ScaleInv, NEW c \in Callers, SyncFails(c)
    PROVE  ScaleInv'
  <1> USE DEF SyncFails, Goto, peripheral
  <1>1. ScaleTypeOK'
    BY BoundsAssumption, SMT DEF ScaleInv, ScaleTypeOK, Labels, At
  <1>2. ExchangeIsOurs'
    BY NoOneAssumption DEF ScaleInv, ScaleTypeOK, ExchangeIsOurs, At, Inside
  <1>3. FreedIsUnused'
    BY CallerIsInFile DEF ScaleInv, FreedIsUnused, At
  <1> QED BY <1>1, <1>2, <1>3 DEF ScaleInv

LEMMA UnlockInv ==
    ASSUME ScaleInv, NEW c \in Callers, Unlock(c)
    PROVE  ScaleInv'
  <1> USE DEF Unlock, Goto, peripheral, message, bounds
  <1>1. ScaleTypeOK'
    <2>1. rxBuf[1] \in 0 .. Base - 1 /\ rxBuf[2] \in 0 .. Base - 1
      BY DEF ScaleInv, ScaleTypeOK
    <2>2. Short(rxBuf[1], rxBuf[2]) \in Int
      BY <2>1, WordType, BaseAssumption, SMT DEF Short
    <2>3. answer' \in [Callers -> [status : {"none", "shown", "zeroed", "error"}, value : Int]]
      BY <2>2 DEF ScaleInv, ScaleTypeOK, Told
    <2> QED BY <2>3 DEF ScaleInv, ScaleTypeOK, Labels
  <1>2. ExchangeIsOurs'
    BY NoOneAssumption DEF ScaleInv, ScaleTypeOK, ExchangeIsOurs, At, Inside
  <1>3. FreedIsUnused'
    BY CallerIsInFile DEF ScaleInv, FreedIsUnused, At
  <1> QED BY <1>1, <1>2, <1>3 DEF ScaleInv

LEMMA UnlockFailedInv ==
    ASSUME ScaleInv, NEW c \in Callers, UnlockFailed(c)
    PROVE  ScaleInv'
  <1> USE DEF UnlockFailed, Goto, peripheral, message, bounds
  <1>1. ScaleTypeOK'
    BY DEF ScaleInv, ScaleTypeOK, Labels, Told, At
  <1>2. ExchangeIsOurs'
    BY NoOneAssumption DEF ScaleInv, ScaleTypeOK, ExchangeIsOurs, At, Inside
  <1>3. FreedIsUnused'
    BY CallerIsInFile DEF ScaleInv, FreedIsUnused, At
  <1> QED BY <1>1, <1>2, <1>3 DEF ScaleInv

LEMMA ReturnInv ==
    ASSUME ScaleInv, NEW c \in Callers, Return(c)
    PROVE  ScaleInv'
  <1> USE DEF Return, Goto, peripheral, message, bounds
  <1>1. ScaleTypeOK'
    BY DEF ScaleInv, ScaleTypeOK, Labels, At
  <1>2. ExchangeIsOurs'
    BY NoOneAssumption DEF ScaleInv, ScaleTypeOK, ExchangeIsOurs, At, Inside
  <1>3. FreedIsUnused'
    BY CallerIsInFile DEF ScaleInv, FreedIsUnused, At
  <1> QED BY <1>1, <1>2, <1>3 DEF ScaleInv
-----------------------------------------------------------------------------
LEMMA NextInv == ScaleInv /\ [Next]_vars => ScaleInv'
  <1> SUFFICES ASSUME ScaleInv, [Next]_vars PROVE ScaleInv'
    OBVIOUS
  <1>1. ASSUME NEW w \in Weights, HostMoves(w) PROVE ScaleInv'
    BY <1>1, HostMovesInv
  <1>2. CASE Probe
    BY <1>2, ProbeInv
  <1>3. CASE DestroyMutex \/ RemoveGroup
    BY <1>3, RemoveBeginInv
  <1>4. CASE RemoveEnd
    BY <1>4, RemoveEndInv
  <1>5. ASSUME NEW c \in Callers, NEW what \in {"show", "zero"}, Call(c, what)
        PROVE  ScaleInv'
    BY <1>5, CallInv
  <1>6. ASSUME NEW c \in Callers, CallStep(c) PROVE ScaleInv'
    BY <1>6, LockInv, SubmitInv, SendCommandInv, ReceiveHighInv, ReceiveLowInv,
       UnlockInv, UnlockFailedInv, ReturnInv DEF CallStep
  <1>7. ASSUME NEW c \in Callers, SyncFails(c) PROVE ScaleInv'
    BY <1>7, SyncFailsInv
  <1>8. CASE UNCHANGED vars
    BY <1>8 DEF vars, peripheral, message, caller, bounds, ScaleInv, ScaleTypeOK,
                ExchangeIsOurs, FreedIsUnused, At
  <1> QED BY <1>1, <1>2, <1>3, <1>4, <1>5, <1>6, <1>7, <1>8 DEF Next, AllQuiet

(* Every variable keeps its type; in particular the peripheral's cycle     *)
(* never passes 2, whoever calls and whatever fails.                       *)
THEOREM ScaleTypeCorrect == Spec => []ScaleTypeOK
  <1>1. ScaleInv => ScaleTypeOK
    BY DEF ScaleInv
  <1> QED BY <1>1, InitInv, NextInv, PTL DEF Spec

(* The mutex does its work: message and cycle belong to the holder.        *)
THEOREM ExchangeCorrect == Spec => []ExchangeIsOurs
  <1>1. ScaleInv => ExchangeIsOurs
    BY DEF ScaleInv
  <1> QED BY <1>1, InitInv, NextInv, PTL DEF Spec

FreshBytes ==
    \A c \in Callers : op[c] = "show" /\ ~moved =>
        /\ At(c, "low") => rxBuf[1] = High(scale - offset)
        /\ At(c, "unlock") => /\ rxBuf[1] = High(scale - offset)
                              /\ rxBuf[2] = Low(scale - offset)

LEMMA ReceiveHighFresh ==
    ASSUME ScaleInv, NEW c \in Callers, ReceiveHigh(c)
    PROVE  FreshBytes'
  <1>1. cycle' = 1 /\ offset' = offset /\ scale' = scale
    BY DEF ReceiveHigh, Transfer, SET_ZERO, ScaleInv, ExchangeIsOurs, At
  <1>2. rxBuf'[1] = High(scale' - offset')
    BY <1>1 DEF ReceiveHigh, Miso, ScaleInv, ScaleTypeOK
  <1>3. \A d \in Callers : pc'[d] \in {"low", "unlock"} => d = c /\ pc'[d] = "low"
    BY DEF ReceiveHigh, Goto, At, ScaleInv, ScaleTypeOK, ExchangeIsOurs, Inside
  <1> QED BY <1>2, <1>3 DEF FreshBytes, At

LEMMA ReceiveLowFresh ==
    ASSUME ScaleInv, FreshBytes, NEW c \in Callers, ReceiveLow(c)
    PROVE  FreshBytes'
  <1>1. cycle' = 2 /\ offset' = offset /\ scale' = scale
    BY DEF ReceiveLow, Transfer, SET_ZERO, ScaleInv, ExchangeIsOurs, At
  <1>2. rxBuf'[2] = Low(scale' - offset') /\ rxBuf'[1] = rxBuf[1]
    BY <1>1 DEF ReceiveLow, Miso, ScaleInv, ScaleTypeOK
  <1>3. \A d \in Callers : pc'[d] \in {"low", "unlock"} => d = c /\ pc'[d] = "unlock"
    BY DEF ReceiveLow, Goto, At, ScaleInv, ScaleTypeOK, ExchangeIsOurs, Inside
  <1>4. op' = op /\ moved' = moved /\ At(c, "low")
    BY DEF ReceiveLow
  <1> QED BY <1>1, <1>2, <1>3, <1>4 DEF FreshBytes, At

LEMMA NextFresh == ScaleInv /\ FreshBytes /\ [Next]_vars => FreshBytes'
  <1> SUFFICES ASSUME ScaleInv, FreshBytes, [Next]_vars PROVE FreshBytes'
    OBVIOUS
  <1>1. ASSUME NEW w \in Weights, HostMoves(w) PROVE FreshBytes'
    BY <1>1 DEF HostMoves, FreshBytes
  <1>2. CASE Probe
    BY <1>2 DEF Probe, caller, FreshBytes, ScaleInv, FreedIsUnused, At
  <1>3. CASE DestroyMutex \/ RemoveGroup \/ RemoveEnd
    BY <1>3 DEF DestroyMutex, RemoveGroup, RemoveEnd, peripheral, message, caller, FreshBytes, At
  <1>4. ASSUME NEW c \in Callers, NEW what \in {"show", "zero"}, Call(c, what)
        PROVE  FreshBytes'
    BY <1>4 DEF Call, Goto, peripheral, message, FreshBytes, ScaleInv, ScaleTypeOK, At
  <1>5. ASSUME NEW c \in Callers, Lock(c) \/ Submit(c) \/ Return(c) \/ UnlockFailed(c) \/ Unlock(c)
        PROVE  FreshBytes'
    BY <1>5 DEF Lock, Submit, Return, Unlock, UnlockFailed, Goto, peripheral, message,
                FreshBytes, ScaleInv, ScaleTypeOK, At
  <1>6. ASSUME NEW c \in Callers, SendCommand(c) PROVE FreshBytes'
    BY <1>6 DEF SendCommand, Goto, message, FreshBytes, ScaleInv, ScaleTypeOK,
                ExchangeIsOurs, Inside, At
  <1>7. ASSUME NEW c \in Callers, SyncFails(c) PROVE FreshBytes'
    BY <1>7 DEF SyncFails, Goto, peripheral, FreshBytes, ScaleInv, ScaleTypeOK, At
  <1>8. ASSUME NEW c \in Callers, ReceiveHigh(c) \/ ReceiveLow(c) PROVE FreshBytes'
    BY <1>8, ReceiveHighFresh, ReceiveLowFresh
  <1>9. CASE UNCHANGED vars
    BY <1>9 DEF vars, peripheral, message, caller, FreshBytes, At
  <1> QED BY <1>1, <1>2, <1>3, <1>4, <1>5, <1>6, <1>7, <1>8, <1>9
      DEF Next, CallStep, AllQuiet

\* The sign of a word is that of its high byte: Base is even.
LEMMA SignIsHighHalf ==
    ASSUME NEW h \in 0 .. Base - 1, NEW l \in 0 .. Base - 1
    PROVE  Short(h, l) = Display!Signed(h, l)
  <1>1. PICK k \in Nat : Base = 2 * k /\ k >= 2
    <2>1. Base = 2 * (Base \div 2)
      BY BaseAssumption, SMT
    <2>2. Base \div 2 \in Int
      BY BaseAssumption, SMT
    <2> QED BY <2>1, <2>2, BaseAssumption, SMT
  <1>2. 2 * (h * Base + l) < Word <=> 2 * h < Base
    <2>1. h * Base \in Nat /\ Word = 2 * (k * Base) /\ k * Base \in Nat
      BY <1>1, BaseAssumption, SMTT(30) DEF Word
    <2>2. CASE h < k
      <3>1. h * Base <= k * Base - Base
        <4>1. (h + 1) * Base <= k * Base
          BY <2>2, <1>1, BaseAssumption, SMTT(30)
        <4>2. (h + 1) * Base = h * Base + Base
          BY BaseAssumption, SMT
        <4> QED BY <4>1, <4>2, <2>1, BaseAssumption, SMT
      <3>2. 2 * h < Base
        BY <2>2, <1>1, SMT
      <3> QED BY <3>1, <3>2, <2>1, BaseAssumption, SMT
    <2>3. CASE h >= k
      <3>1. h * Base >= k * Base
        BY <2>3, <1>1, BaseAssumption, SMTT(30)
      <3>2. ~(2 * h < Base)
        BY <2>3, <1>1, SMT
      <3> QED BY <3>1, <3>2, <2>1, BaseAssumption, SMT
    <2> QED BY <2>2, <2>3, <1>1
  <1> DEFINE n == h * Base + l
  <1>3. Short(h, l) = IF 2 * n < Word THEN n ELSE n - Word
    BY DEF Short
  <1>4. Display!Signed(h, l) = IF 2 * h < Base THEN n ELSE n - Word
    BY DEF Display!Signed, Word
  <1>5. 2 * n < Word <=> 2 * h < Base
    BY <1>2
  <1> HIDE DEF n
  <1> QED BY <1>3, <1>4, <1>5

LEMMA BytesMakeWord ==
    ASSUME NEW n \in Int, -Word < n, n < Word
    PROVE  Short(High(n), Low(n)) = Wrapped(n)
  <1> DEFINE q == n \div Base
             r == n % Base
             p == q \div Base
             t == q % Base
  <1>1. q \in Int /\ r \in 0 .. Base - 1 /\ n = Base * q + r
    BY BaseAssumption, SMT
  <1>2. p \in Int /\ t \in 0 .. Base - 1 /\ q = Base * p + t
    BY <1>1, BaseAssumption, SMT
  <1>3. n = Base * (Base * p + t) + r
    BY <1>1, <1>2
  <1> HIDE DEF q, r, p, t
  <1>4. n = Word * p + (t * Base + r)
    BY <1>1, <1>2, <1>3, BaseAssumption, SMTT(30) DEF Word
  <1>5. t * Base + r \in 0 .. Word - 1
    <2>1. t * Base \in Int /\ t * Base <= (Base - 1) * Base /\ 0 <= t * Base
      BY <1>2, BaseAssumption, SMTT(30)
    <2>2. (Base - 1) * Base = Word - Base
      BY BaseAssumption, SMT DEF Word
    <2> QED BY <2>1, <2>2, <1>1, WordType, BaseAssumption, SMT
  <1>6. p = 0 \/ p = -1
    <2>1. \A k \in Int : k >= 1 => Word * k >= Word
      BY WordType, SMTT(30)
    <2>2. \A k \in Int : k <= -2 => Word * k <= -2 * Word
      BY WordType, SMTT(30)
    <2>3. Word * p \in Int
      BY <1>2, WordType
    <2> QED BY <2>1, <2>2, <2>3, <1>2, <1>4, <1>5, WordType, SMT
  <1>7. High(n) = t /\ Low(n) = r
    BY DEF High, Low, q, r, t
  <1>8. CASE p = 0
    <2>1. n = t * Base + r
      BY <1>4, <1>5, <1>8, WordType, SMT
    <2> QED BY <2>1, <1>5, <1>7, WordType, SMT DEF Short, Wrapped
  <1>9. CASE p = -1
    <2> DEFINE m == t * Base + r
    <2>1. m \in 0 .. Word - 1 /\ n = Word * p + m
      BY <1>4, <1>5
    <2>2. Short(t, r) = IF 2 * m < Word THEN m ELSE m - Word
      BY DEF Short
    <2> HIDE DEF m
    <2>3. Word * p = 0 - Word
      BY <1>9, WordType, SMT
    <2>4. n = m - Word
      BY <2>1, <2>3, WordType, SMT
    <2>5. Wrapped(n) = IF 2 * m < Word THEN m ELSE m - Word
      BY <2>1, <2>4, WordType, SMT DEF Wrapped
    <2> QED BY <2>2, <2>5, <1>7
  <1> QED BY <1>6, <1>8, <1>9

(* While the host keeps still a reading is the weight less the zero point, *)
(* as a short can hold it: for every size of a byte, every set of callers  *)
(* and whatever failed before.                                             *)
THEOREM StillWeightCorrect == Spec => []StillWeightIsShown
  <1>1. Init => FreshBytes
    BY DEF Init, FreshBytes, At
  <1>2. ScaleTypeOK /\ FreshBytes => StillWeightIsShown
    <2> SUFFICES ASSUME ScaleTypeOK, FreshBytes,
                        NEW c \in Callers, At(c, "unlock"), op[c] = "show", ~moved
                 PROVE  Short(rxBuf[1], rxBuf[2]) = Wrapped(scale - offset)
      BY DEF StillWeightIsShown
    <2>1. scale - offset \in Int /\ -Word < scale - offset /\ scale - offset < Word
      BY WordType, SMT DEF ScaleTypeOK
    <2>2. rxBuf[1] = High(scale - offset) /\ rxBuf[2] = Low(scale - offset)
      BY DEF FreshBytes
    <2> QED BY <2>1, <2>2, BytesMakeWord
  <1>3. ScaleInv => ScaleTypeOK
    BY DEF ScaleInv
  <1> QED BY <1>1, <1>2, <1>3, InitInv, NextInv, NextFresh, PTL DEF Spec
-----------------------------------------------------------------------------
(* The refinement of Balance.  The mapped variables, by name. *)

askedOf  == [c \in Callers |-> Asked(c)]
digitsOf == [c \in Callers |-> Digits(c)]
answerOf == [c \in Callers |-> IF At(c, "fail") THEN Told("error", 0) ELSE answer[c]]

\* A step that only moves callers between labels that the mapping does not
\* tell apart is no step of Balance.
LEMMA SilentSteps ==
    ASSUME ScaleInv, NEW c \in Callers,
           Lock(c) \/ Submit(c) \/ UnlockFailed(c) \/ Return(c)
    PROVE  UNCHANGED Display!vars
  <1>1. UNCHANGED <<scale, offset, op, rxBuf>>
    BY DEF Lock, Submit, UnlockFailed, Return, peripheral, message, bounds
  <1>2. askedOf' = askedOf /\ digitsOf' = digitsOf
    BY <1>1 DEF Lock, Submit, UnlockFailed, Return, askedOf, digitsOf, Asked, Digits, At,
              Goto, ScaleInv, ScaleTypeOK
  <1>3. answerOf' = answerOf
    BY DEF Lock, Submit, UnlockFailed, Return, answerOf, At, Goto, ScaleInv, ScaleTypeOK
  <1> QED BY <1>1, <1>2, <1>3 DEF Display!vars, askedOf, digitsOf, answerOf

LEMMA CallAsks ==
    ASSUME ScaleInv, NEW c \in Callers, NEW what \in {"show", "zero"}, Call(c, what)
    PROVE  Display!Ask(c, what)
  <1>1. UNCHANGED <<scale, offset, rxBuf, answer>>
    BY DEF Call, peripheral, message
  <1>2. askedOf[c] = "nothing" /\ askedOf' = [askedOf EXCEPT ![c] = what]
    BY DEF Call, askedOf, Asked, At, Goto, ScaleInv, ScaleTypeOK
  <1>3. digitsOf' = digitsOf
    BY <1>1 DEF Call, digitsOf, Digits, At, Goto, ScaleInv, ScaleTypeOK
  <1>4. answerOf' = answerOf
    BY <1>1 DEF Call, answerOf, At, Goto, ScaleInv, ScaleTypeOK
  <1> QED BY <1>1, <1>2, <1>3, <1>4 DEF Display!Ask, askedOf, digitsOf, answerOf

\* The command byte: zeroing, or nothing that a user could see.
LEMMA CommandZeroes ==
    ASSUME ScaleInv, NEW c \in Callers, SendCommand(c)
    PROVE  Display!Zero(c) \/ UNCHANGED Display!vars
  <1>1. txBuf = Command(op[c]) /\ op[c] \in {"show", "zero"}
    BY DEF SendCommand, At, ScaleInv, ScaleTypeOK, ExchangeIsOurs, Inside
  <1>2. digitsOf' = digitsOf
    BY DEF SendCommand, message, digitsOf, Digits, At, Goto, ScaleInv, ScaleTypeOK
  <1>3. answerOf' = answerOf
    BY DEF SendCommand, answerOf, At, Goto, ScaleInv, ScaleTypeOK
  <1>4. CASE op[c] = "zero"
    <2>1. offset' = scale /\ scale' = scale
      BY <1>1, <1>4 DEF SendCommand, Transfer, Command, SET_ZERO
    <2>2. askedOf[c] = "zero" /\ askedOf' = [askedOf EXCEPT ![c] = "zeroed"]
      BY <1>4 DEF SendCommand, askedOf, Asked, At, Goto, ScaleInv, ScaleTypeOK
    <2>3. \A d \in Callers : pc[d] \notin {"low", "unlock"}
      BY DEF SendCommand, At, ScaleInv, ExchangeIsOurs, Inside
    <2>4. \A d \in Callers : digitsOf[d] = <<>>
      BY <2>3 DEF digitsOf, Digits, At
    <2>5. \A d \in Callers : Len(digitsOf[d]) # 1
      <3>1. Len(<<>>) # 1
        OBVIOUS
      <3> QED BY <2>4, <3>1, Zenon
    <2> QED BY <2>1, <2>2, <2>5, <1>2, <1>3 DEF Display!Zero, askedOf, digitsOf, answerOf
  <1>5. CASE op[c] = "show"
    <2>1. offset' = offset /\ scale' = scale
      BY <1>1, <1>5 DEF SendCommand, Transfer, Command, SET_ZERO, GET_SCALE
    <2>2. askedOf' = askedOf
      BY <1>5 DEF SendCommand, askedOf, Asked, At, Goto, ScaleInv, ScaleTypeOK
    <2> QED BY <2>1, <2>2, <1>2, <1>3 DEF Display!vars, askedOf, digitsOf, answerOf
  <1> QED BY <1>1, <1>4, <1>5

\* A received byte: a digit for a reader, nothing for who zeroes.
LEMMA HighIsTaken ==
    ASSUME ScaleInv, NEW c \in Callers, ReceiveHigh(c)
    PROVE  Display!TakeHigh(c) \/ UNCHANGED Display!vars
  <1>1. cycle' = 1 /\ offset' = offset /\ scale' = scale
    BY DEF ReceiveHigh, Transfer, SET_ZERO, ScaleInv, ExchangeIsOurs, At
  <1>2. rxBuf'[1] = Display!High(scale - offset)
    BY <1>1 DEF ReceiveHigh, Miso, High, Display!High, ScaleInv, ScaleTypeOK
  <1>3. askedOf' = askedOf
    BY DEF ReceiveHigh, askedOf, Asked, At, Goto, ScaleInv, ScaleTypeOK
  <1>4. answerOf' = answerOf
    BY DEF ReceiveHigh, answerOf, At, Goto, ScaleInv, ScaleTypeOK
  <1>5. \A d \in Callers : pc[d] \notin {"low", "unlock"}
    BY DEF ReceiveHigh, At, ScaleInv, ExchangeIsOurs, Inside
  <1>6. \A d \in Callers : digitsOf[d] = <<>>
    BY <1>5 DEF digitsOf, Digits, At
  <1>7. \A d \in Callers \ {c} : digitsOf'[d] = <<>>
    BY <1>5 DEF ReceiveHigh, Goto, digitsOf, Digits, At, ScaleInv, ScaleTypeOK
  <1>8. CASE op[c] = "show"
    <2>1. digitsOf'[c] = <<Display!High(scale - offset)>>
      BY <1>8, <1>2 DEF ReceiveHigh, Goto, digitsOf, Digits, At, ScaleInv, ScaleTypeOK
    <2>2. digitsOf' = [digitsOf EXCEPT ![c] = <<Display!High(scale - offset)>>]
      BY <2>1, <1>6, <1>7 DEF digitsOf
    <2>3. askedOf[c] = "show"
      BY <1>8 DEF ReceiveHigh, askedOf, Asked, At
    <2> QED BY <2>2, <2>3, <1>1, <1>3, <1>4, <1>6
        DEF Display!TakeHigh, askedOf, digitsOf, answerOf
  <1>9. CASE op[c] # "show"
    <2>1. digitsOf'[c] = <<>>
      BY <1>9 DEF ReceiveHigh, digitsOf, Digits
    <2>2. digitsOf' = digitsOf
      BY <2>1, <1>6, <1>7 DEF digitsOf
    <2> QED BY <2>2, <1>1, <1>3, <1>4 DEF Display!vars, askedOf, digitsOf, answerOf
  <1> QED BY <1>8, <1>9

LEMMA LowIsTaken ==
    ASSUME ScaleInv, NEW c \in Callers, ReceiveLow(c)
    PROVE  Display!TakeLow(c) \/ UNCHANGED Display!vars
  <1>1. cycle' = 2 /\ offset' = offset /\ scale' = scale
    BY DEF ReceiveLow, Transfer, SET_ZERO, ScaleInv, ExchangeIsOurs, At
  <1>2. rxBuf' = <<rxBuf[1], Display!Low(scale - offset)>>
    BY <1>1 DEF ReceiveLow, Miso, Low, Display!Low, ScaleInv, ScaleTypeOK
  <1>3. askedOf' = askedOf
    BY DEF ReceiveLow, askedOf, Asked, At, Goto, ScaleInv, ScaleTypeOK
  <1>4. answerOf' = answerOf
    BY DEF ReceiveLow, answerOf, At, Goto, ScaleInv, ScaleTypeOK
  <1>5. \A d \in Callers \ {c} : pc[d] \notin {"low", "unlock"}
    BY DEF ReceiveLow, At, ScaleInv, ExchangeIsOurs, Inside
  <1>6. \A d \in Callers \ {c} : digitsOf[d] = <<>> /\ digitsOf'[d] = <<>>
    BY <1>5 DEF ReceiveLow, Goto, digitsOf, Digits, At, ScaleInv, ScaleTypeOK
  <1>7. CASE op[c] = "show"
    <2>1. digitsOf[c] = <<rxBuf[1]>> /\ askedOf[c] = "show"
      BY <1>7 DEF ReceiveLow, digitsOf, Digits, askedOf, Asked, At
    <2>2. digitsOf'[c] = <<rxBuf[1], Display!Low(scale - offset)>>
      BY <1>7, <1>2 DEF ReceiveLow, Goto, digitsOf, Digits, At, ScaleInv, ScaleTypeOK
    <2>3. digitsOf'[c] = Append(digitsOf[c], Display!Low(scale - offset))
      BY <2>1, <2>2
    <2>4. digitsOf' = [digitsOf EXCEPT ![c] = Append(@, Display!Low(scale - offset))]
      BY <2>3, <1>6 DEF digitsOf
    <2>5. Len(digitsOf[c]) = 1
      BY <2>1
    <2> QED BY <2>1, <2>4, <2>5, <1>1, <1>3, <1>4
        DEF Display!TakeLow, askedOf, digitsOf, answerOf
  <1>8. CASE op[c] # "show"
    <2>1. digitsOf'[c] = <<>> /\ digitsOf[c] = <<>>
      BY <1>8 DEF ReceiveLow, digitsOf, Digits
    <2>2. digitsOf' = digitsOf
      BY <2>1, <1>6 DEF digitsOf
    <2> QED BY <2>2, <1>1, <1>3, <1>4 DEF Display!vars, askedOf, digitsOf, answerOf
  <1> QED BY <1>7, <1>8

\* The end of a call: a number, a confirmation or an error.
LEMMA UnlockTells ==
    ASSUME ScaleInv, NEW c \in Callers, Unlock(c)
    PROVE  Display!Show(c) \/ Display!Confirm(c)
  <1>1. UNCHANGED <<scale, offset, rxBuf, op>>
    BY DEF Unlock, peripheral, message
  <1>2. askedOf' = [askedOf EXCEPT ![c] = "nothing"]
    BY DEF Unlock, askedOf, Asked, At, Goto, ScaleInv, ScaleTypeOK
  <1>3. digitsOf' = [digitsOf EXCEPT ![c] = <<>>]
    BY <1>1 DEF Unlock, digitsOf, Digits, At, Goto, ScaleInv, ScaleTypeOK
  <1>4. CASE op[c] = "show"
    <2>1. askedOf[c] = "show" /\ digitsOf[c] = rxBuf
      BY <1>4 DEF Unlock, askedOf, Asked, digitsOf, Digits, At
    <2>2. rxBuf = <<rxBuf[1], rxBuf[2]>> /\ rxBuf[1] \in 0 .. Base - 1 /\ rxBuf[2] \in 0 .. Base - 1
      BY DEF ScaleInv, ScaleTypeOK
    <2>3. Len(digitsOf[c]) = 2
      BY <2>1, <2>2
    <2>4. Short(rxBuf[1], rxBuf[2]) = Display!Signed(rxBuf[1], rxBuf[2])
      BY <2>2, SignIsHighHalf
    <2>5. answerOf' = [answerOf EXCEPT ![c] =
                          Told("shown", Display!Signed(rxBuf[1], rxBuf[2]))]
      BY <1>4, <2>4 DEF Unlock, answerOf, At, Goto, ScaleInv, ScaleTypeOK
    <2> QED BY <1>1, <1>2, <1>3, <2>1, <2>3, <2>5
        DEF Display!Show, Display!Tell, Display!Told, Told, askedOf, digitsOf, answerOf
  <1>5. CASE op[c] = "zero"
    <2>1. askedOf[c] = "zeroed"
      BY <1>5 DEF Unlock, askedOf, Asked, At
    <2>2. answerOf' = [answerOf EXCEPT ![c] = Told("zeroed", 0)]
      BY <1>5 DEF Unlock, answerOf, At, Goto, ScaleInv, ScaleTypeOK
    <2> QED BY <1>1, <1>2, <1>3, <2>1, <2>2
        DEF Display!Confirm, Display!Tell, Display!Told, Told, askedOf, digitsOf, answerOf
  <1> QED BY <1>4, <1>5 DEF ScaleInv, ScaleTypeOK

LEMMA FailureRefuses ==
    ASSUME ScaleInv, NEW c \in Callers, SyncFails(c)
    PROVE  Display!Refuse(c)
  <1>1. UNCHANGED <<scale, offset, rxBuf, op, answer>>
    BY DEF SyncFails, peripheral
  <1>2. askedOf[c] # "nothing" /\ askedOf' = [askedOf EXCEPT ![c] = "nothing"]
    BY <1>1 DEF SyncFails, askedOf, Asked, At, Goto, ScaleInv, ScaleTypeOK
  <1>3. digitsOf' = [digitsOf EXCEPT ![c] = <<>>]
    BY <1>1 DEF SyncFails, digitsOf, Digits, At, Goto, ScaleInv, ScaleTypeOK
  <1>4. answerOf' = [answerOf EXCEPT ![c] = Told("error", 0)]
    BY <1>1 DEF SyncFails, answerOf, At, Goto, ScaleInv, ScaleTypeOK
  <1> QED BY <1>1, <1>2, <1>3, <1>4
      DEF Display!Refuse, Display!Tell, Display!Told, Told, askedOf, digitsOf, answerOf

LEMMA StepsOfBalance == ScaleInv /\ [Next]_vars => [Display!Next]_(Display!vars)
  <1> SUFFICES ASSUME ScaleInv, [Next]_vars PROVE [Display!Next]_(Display!vars)
    OBVIOUS
  <1>1. ASSUME NEW w \in Weights, HostMoves(w) PROVE Display!Next
    <2>1. Display!Move(w)
      BY <1>1 DEF HostMoves, message, caller, Display!Move, Asked, Digits, At
    <2> QED BY <2>1 DEF Display!Next
  <1>2. CASE Probe
    <2>1. \A c \in Callers : At(c, "idle")
      BY <1>2 DEF Probe, ScaleInv, FreedIsUnused
    <2>2. pc' = pc /\ op' = op /\ answer' = answer /\ scale' = scale /\ offset' = offset
      BY <1>2 DEF Probe, caller, peripheral
    <2>3. \A c \in Callers : digitsOf'[c] = <<>> /\ digitsOf[c] = <<>>
      BY <2>1, <2>2 DEF digitsOf, Digits, At
    <2>4. digitsOf' = digitsOf
      BY <2>3 DEF digitsOf
    <2>5. askedOf' = askedOf /\ answerOf' = answerOf
      BY <2>2 DEF askedOf, answerOf, Asked, At
    <2> QED BY <2>2, <2>4, <2>5 DEF Display!vars, askedOf, digitsOf, answerOf
  <1>3. CASE DestroyMutex \/ RemoveGroup \/ RemoveEnd
    BY <1>3 DEF DestroyMutex, RemoveGroup, RemoveEnd, peripheral, message, caller, Display!vars,
                Asked, Digits, At
  <1>4. ASSUME NEW c \in Callers, NEW what \in {"show", "zero"}, Call(c, what)
        PROVE  Display!Next
    BY <1>4, CallAsks DEF Display!Next
  <1>5. ASSUME NEW c \in Callers, CallStep(c)
        PROVE  [Display!Next]_(Display!vars)
    BY <1>5, SilentSteps, CommandZeroes, HighIsTaken, LowIsTaken, UnlockTells
       DEF CallStep, Display!Next
  <1>6. ASSUME NEW c \in Callers, SyncFails(c) PROVE Display!Next
    BY <1>6, FailureRefuses DEF Display!Next
  <1>7. CASE UNCHANGED vars
    BY <1>7 DEF vars, peripheral, message, caller, Display!vars, Asked, Digits, At
  <1> QED BY <1>1, <1>2, <1>3, <1>4, <1>5, <1>6, <1>7 DEF Next, AllQuiet

(* Users of the file have a Balance before them: for every set of users,   *)
(* every set of weights, every size of a byte and however spi_sync fails.  *)
THEOREM ScaleImplementsBalance == Spec => IsBalance
  <1>1. Init => Display!Init
    <2> SUFFICES ASSUME Init PROVE Display!Init
      OBVIOUS
    <2>1. askedOf = [c \in Callers |-> "nothing"]
      BY DEF Init, askedOf, Asked
    <2>2. digitsOf = [c \in Callers |-> <<>>]
      BY DEF Init, digitsOf, Digits, At
    <2>3. answerOf = [c \in Callers |-> Display!Told("none", 0)]
      BY DEF Init, answerOf, At, Told, Display!Told
    <2> QED BY <2>1, <2>2, <2>3 DEF Init, Display!Init, askedOf, digitsOf, answerOf
  <1> QED BY <1>1, InitInv, NextInv, StepsOfBalance, PTL
      DEF Spec, IsBalance, Display!Spec
=============================================================================
