-------------------------- MODULE LifecycleProofs --------------------------
(***************************************************************************)
(* Binding and unbinding, in whichever versions, however often, whatever   *)
(* fails and whatever runs meanwhile: the types, the nodes in /dev that    *)
(* match the hash table, what unbinding gives back, what each version has  *)
(* repaired, and that nothing goes wrong while a device is bound.          *)
(***************************************************************************)
EXTENDS Lifecycle, SequenceTheorems, TLAPS

-----------------------------------------------------------------------------
(* The steps of probe() and remove(), whatever the version. *)

PrologueThings == {"regions", "major", "class", "memory", "base", "node", "entry"}

\* Step i of probe() comes after a step that obtains the thing or, with an
\* error, ends the probe.
After(thing, i) == \E j \in 1 .. i - 1 : Probe[j].gets = thing /\ (Probe[j].leave \/ ~Probe[j].fails)

\* Every version begins alike, and does no step of this beginning again.
ProbeBegins ==
    /\ Len(Probe) \in Nat /\ Len(Probe) > 7
    /\ Probe[1].gets = "regions" /\ Probe[2].gets = "major" /\ Probe[3].gets = "class"
    /\ Probe[4].gets = "memory" /\ Probe[5].gets = "base"
    /\ Probe[6].gets = "node" /\ Probe[7].gets = "entry"
    /\ \A i \in 1 .. Len(Probe) : i > 7 => Probe[i].gets \notin PrologueThings

\* Without the class or the node a probe ends; the entry cannot fail; and
\* the interrupt of a button that is not there does not matter.
BeginsOrEnds ==
    /\ Probe[3].leave /\ Probe[6].leave /\ ~Probe[7].fails
    /\ \A i \in 1 .. Len(Probe) : Probe[i].gets = "button_irq" => ~Probe[i].leave

\* What an error path releases are channels.
UndoesChannels == \A i \in 1 .. Len(Probe) : Probe[i].undo \subseteq {"tx", "rx"}

\* A channel is requested by one step, which ends the probe on an error, in
\* the versions with DMA, and only they use the interrupt that goes with it.
ChannelsOnce ==
    /\ \A i, j \in 1 .. Len(Probe) :
         Probe[i].gets \in {"tx", "rx"} /\ Probe[i].gets = Probe[j].gets => i = j
    /\ \A i \in 1 .. Len(Probe) :
         /\ Probe[i].gets \in {"tx", "rx"} => HasDma /\ Probe[i].leave
         /\ Probe[i].gets = "unmask_empty" => HasDma

\* The queue is there before the LEDs are, and before the channel in the
\* versions that have repaired the order.
QueueComesFirst ==
    \A i \in 1 .. Len(Probe) :
        /\ Probe[i].gets = "leds" => After("tx_wq", i)
        /\ version \in {"memcpy", "logdma"} /\ Probe[i].gets = "tx" => After("tx_wq", i)

\* An error path releases only what was obtained.
ReleasesItsOwn ==
    version \in {"week02", "memcpy", "log"} =>
        \A i \in 1 .. Len(Probe) : \A thing \in Probe[i].undo : After(thing, i)

\* What a probe that succeeds has certainly obtained.
IsComplete ==
    LET end == Len(Probe) + 1 IN
        /\ After("memory", end) /\ After("tx_wq", end)
        /\ After("lock", end) /\ After("base", end)
        /\ ~IsLog => After("rx_work", end)
        /\ HasDma => After("rx_dma_work", end) /\ After("rx", end) /\ After("tx", end)
        /\ version = "memcpy" => After("rx.buf", end) /\ After("tx.buf", end)

\* The button belongs to the versions with GPIO.
ButtonOnce == \A i \in 1 .. Len(Probe) : Probe[i].gets = "button_irq" => HasGpio

\* Only the memcpy version tests itself, once, before the last steps.
TestsOnce ==
    /\ \A i \in 1 .. Len(Probe) : Probe[i].gets = "self_test" <=> version = "memcpy" /\ i = 21
    /\ version = "memcpy" => Len(Probe) > 21 /\ ~Probe[21].fails

ProbeFacts ==
    /\ ProbeBegins
    /\ BeginsOrEnds
    /\ UndoesChannels
    /\ ChannelsOnce
    /\ QueueComesFirst
    /\ ReleasesItsOwn
    /\ IsComplete
    /\ ButtonOnce
    /\ TestsOnce

LEMMA Week02Facts ==
    ASSUME version = "week02"
    PROVE  ProbeFacts
  <1> USE DEF ProbeWeek02, Unmasked, Prologue,
              Sure, Ignored, Checked, Undoing
  <1>0. Probe = ProbeWeek02
    BY DEF Probe
  <1>1. ProbeBegins
    BY <1>0 DEF ProbeBegins, PrologueThings
  <1>7. BeginsOrEnds
    BY <1>0 DEF BeginsOrEnds
  <1>2. UndoesChannels
    BY <1>0 DEF UndoesChannels
  <1>9. ButtonOnce
    BY <1>0 DEF ButtonOnce, HasGpio
  <1>8. TestsOnce
    BY <1>0, SMTT(30) DEF TestsOnce
  <1>3. ChannelsOnce
    BY <1>0 DEF ChannelsOnce, HasDma
  <1>4. QueueComesFirst
    BY <1>0, SMTT(30) DEF QueueComesFirst, After
  <1>5. ReleasesItsOwn
    BY <1>0, SMTT(30) DEF ReleasesItsOwn, After
  <1>6. IsComplete
    BY <1>0, SMTT(30) DEF IsComplete, After, HasDma, IsLog
  <1> QED BY <1>1, <1>2, <1>3, <1>4, <1>5, <1>6, <1>7, <1>8, <1>9 DEF ProbeFacts

LEMMA Week03Facts ==
    ASSUME version = "week03"
    PROVE  ProbeFacts
  <1> USE DEF ProbeWeek03, Unmasked, Prologue, DmaProbeWeek03, DmaInitWeek03,
              DmaReady, Buffer,
              Sure, Ignored, Checked, Undoing
  <1>0. Probe = ProbeWeek03
    BY DEF Probe
  <1>1. ProbeBegins
    BY <1>0 DEF ProbeBegins, PrologueThings
  <1>7. BeginsOrEnds
    BY <1>0 DEF BeginsOrEnds
  <1>2. UndoesChannels
    BY <1>0 DEF UndoesChannels
  <1>9. ButtonOnce
    BY <1>0 DEF ButtonOnce, HasGpio
  <1>8. TestsOnce
    BY <1>0, SMTT(30) DEF TestsOnce
  <1>3. ChannelsOnce
    BY <1>0 DEF ChannelsOnce, HasDma
  <1>4. QueueComesFirst
    BY <1>0, SMTT(30) DEF QueueComesFirst, After
  <1>5. ReleasesItsOwn
    BY <1>0, SMTT(30) DEF ReleasesItsOwn, After
  <1>6. IsComplete
    <2> DEFINE end == Len(Probe) + 1
    <2>1. After("memory", end) /\ After("tx_wq", end)
      BY <1>0 DEF After
    <2>5. After("lock", end) /\ After("base", end)
      BY <1>0 DEF After
    <2>2. After("rx_work", end) /\ After("rx_dma_work", end)
      BY <1>0 DEF After
    <2>3. After("rx", end) /\ After("tx", end)
      BY <1>0 DEF After
    <2>4. version # "memcpy"
      OBVIOUS
    <2> QED BY <2>1, <2>2, <2>3, <2>4, <2>5 DEF IsComplete
  <1> QED BY <1>1, <1>2, <1>3, <1>4, <1>5, <1>6, <1>7, <1>8, <1>9 DEF ProbeFacts

LEMMA Week04Facts ==
    ASSUME version = "week04"
    PROVE  ProbeFacts
  <1> USE DEF ProbeWeek04, Unmasked, Prologue, DmaProbeWeek04, DmaInitWeek04,
              DmaReady, Buffer,
              Sure, Ignored, Checked, Undoing
  <1>0. Probe = ProbeWeek04
    BY DEF Probe
  <1>1. ProbeBegins
    BY <1>0 DEF ProbeBegins, PrologueThings
  <1>7. BeginsOrEnds
    BY <1>0 DEF BeginsOrEnds
  <1>2. UndoesChannels
    BY <1>0 DEF UndoesChannels
  <1>9. ButtonOnce
    BY <1>0 DEF ButtonOnce, HasGpio
  <1>8. TestsOnce
    BY <1>0, SMTT(30) DEF TestsOnce
  <1>3. ChannelsOnce
    BY <1>0 DEF ChannelsOnce, HasDma
  <1>4. QueueComesFirst
    <2>1. 19 \in 1 .. Len(Probe) /\ Probe[19].gets = "tx_wq" /\ ~Probe[19].fails
      BY <1>0
    <2>2. \A i \in 1 .. Len(Probe) : Probe[i].gets = "leds" => 19 \in 1 .. i - 1
      BY <1>0
    <2> QED BY <2>1, <2>2 DEF QueueComesFirst, After
  <1>5. ReleasesItsOwn
    BY <1>0, SMTT(30) DEF ReleasesItsOwn, After
  <1>6. IsComplete
    <2> DEFINE end == Len(Probe) + 1
    <2>1. After("memory", end) /\ After("tx_wq", end)
      BY <1>0 DEF After
    <2>5. After("lock", end) /\ After("base", end)
      BY <1>0 DEF After
    <2>2. After("rx_work", end) /\ After("rx_dma_work", end)
      BY <1>0 DEF After
    <2>3. After("rx", end) /\ After("tx", end)
      BY <1>0 DEF After
    <2>4. version # "memcpy"
      OBVIOUS
    <2> QED BY <2>1, <2>2, <2>3, <2>4, <2>5 DEF IsComplete
  <1> QED BY <1>1, <1>2, <1>3, <1>4, <1>5, <1>6, <1>7, <1>8, <1>9 DEF ProbeFacts

LEMMA MemcpyFacts ==
    ASSUME version = "memcpy"
    PROVE  ProbeFacts
  <1> USE DEF ProbeMemcpy, Prologue, DmaProbeMemcpy, DmaInitMemcpy, DmaReady, Buffer,
              Sure, Ignored, Checked, Undoing
  <1>0. Probe = ProbeMemcpy
    BY DEF Probe
  <1>1. ProbeBegins
    BY <1>0 DEF ProbeBegins, PrologueThings
  <1>7. BeginsOrEnds
    BY <1>0 DEF BeginsOrEnds
  <1>2. UndoesChannels
    BY <1>0 DEF UndoesChannels
  <1>9. ButtonOnce
    BY <1>0 DEF ButtonOnce, HasGpio
  <1>8. TestsOnce
    BY <1>0, SMTT(30) DEF TestsOnce
  <1>3. ChannelsOnce
    BY <1>0 DEF ChannelsOnce, HasDma
  <1>4. QueueComesFirst
    <2>1. 10 \in 1 .. Len(Probe) /\ Probe[10].gets = "tx_wq" /\ ~Probe[10].fails
      BY <1>0
    <2>2. \A i \in 1 .. Len(Probe) : Probe[i].gets \in {"leds", "tx"} => 10 \in 1 .. i - 1
      BY <1>0
    <2> QED BY <2>1, <2>2 DEF QueueComesFirst, After
  <1>5. ReleasesItsOwn
    BY <1>0, SMTT(30) DEF ReleasesItsOwn, After
  <1>6. IsComplete
    <2> DEFINE end == Len(Probe) + 1
    <2>1. After("memory", end) /\ After("tx_wq", end)
      BY <1>0 DEF After
    <2>5. After("lock", end) /\ After("base", end)
      BY <1>0 DEF After
    <2>2. After("rx_work", end) /\ After("rx_dma_work", end)
      BY <1>0 DEF After
    <2>3. After("rx", end) /\ After("tx", end)
      BY <1>0 DEF After
    <2>4. After("rx.buf", end) /\ After("tx.buf", end)
      BY <1>0 DEF After
    <2> QED BY <2>1, <2>2, <2>3, <2>4, <2>5 DEF IsComplete
  <1> QED BY <1>1, <1>2, <1>3, <1>4, <1>5, <1>6, <1>7, <1>8, <1>9 DEF ProbeFacts

LEMMA LogFacts ==
    ASSUME version = "log"
    PROVE  ProbeFacts
  <1> USE DEF ProbeLog, Unmasked, Prologue,
              Sure, Ignored, Checked, Undoing
  <1>0. Probe = ProbeLog
    BY DEF Probe
  <1>1. ProbeBegins
    BY <1>0 DEF ProbeBegins, PrologueThings
  <1>7. BeginsOrEnds
    BY <1>0 DEF BeginsOrEnds
  <1>2. UndoesChannels
    BY <1>0 DEF UndoesChannels
  <1>9. ButtonOnce
    BY <1>0 DEF ButtonOnce, HasGpio
  <1>8. TestsOnce
    BY <1>0, SMTT(30) DEF TestsOnce
  <1>3. ChannelsOnce
    BY <1>0 DEF ChannelsOnce, HasDma
  <1>4. QueueComesFirst
    BY <1>0, SMTT(30) DEF QueueComesFirst, After
  <1>5. ReleasesItsOwn
    BY <1>0, SMTT(30) DEF ReleasesItsOwn, After
  <1>6. IsComplete
    BY <1>0, SMTT(30) DEF IsComplete, After, HasDma, IsLog
  <1> QED BY <1>1, <1>2, <1>3, <1>4, <1>5, <1>6, <1>7, <1>8, <1>9 DEF ProbeFacts

LEMMA LogDmaFacts ==
    ASSUME version = "logdma"
    PROVE  ProbeFacts
  <1> USE DEF ProbeLogDma, Unmasked, Prologue, DmaProbeLogDma, DmaInitLogDma,
              DmaReady, Buffer,
              Sure, Ignored, Checked, Undoing
  <1>0. Probe = ProbeLogDma
    BY DEF Probe
  <1>1. ProbeBegins
    BY <1>0 DEF ProbeBegins, PrologueThings
  <1>7. BeginsOrEnds
    BY <1>0 DEF BeginsOrEnds
  <1>2. UndoesChannels
    BY <1>0 DEF UndoesChannels
  <1>9. ButtonOnce
    BY <1>0 DEF ButtonOnce, HasGpio
  <1>8. TestsOnce
    BY <1>0, SMTT(30) DEF TestsOnce
  <1>3. ChannelsOnce
    BY <1>0 DEF ChannelsOnce, HasDma
  <1>4. QueueComesFirst
    <2>1. 12 \in 1 .. Len(Probe) /\ Probe[12].gets = "tx_wq" /\ ~Probe[12].fails
      BY <1>0
    <2>2. \A i \in 1 .. Len(Probe) : Probe[i].gets \in {"leds", "tx"} => 12 \in 1 .. i - 1
      BY <1>0
    <2> QED BY <2>1, <2>2 DEF QueueComesFirst, After
  <1>5. ReleasesItsOwn
    BY <1>0, SMTT(30) DEF ReleasesItsOwn, After
  <1>6. IsComplete
    BY <1>0, SMTT(30) DEF IsComplete, After, HasDma, IsLog
  <1> QED BY <1>1, <1>2, <1>3, <1>4, <1>5, <1>6, <1>7, <1>8, <1>9 DEF ProbeFacts

LEMMA ProbeFactsHold ==
    ASSUME version \in AllVersions
    PROVE  ProbeFacts
  BY Week02Facts, Week03Facts, Week04Facts, MemcpyFacts, LogFacts, LogDmaFacts
     DEF AllVersions

\* What remove() gives back at each of its steps.
RemovalFacts ==
    /\ Removal[1] = "node" /\ Removal[2] = "entry"
    /\ Removal[3] = "wakeup" /\ Removal[4] = "wake_irq"
    /\ HasDma  => Len(Removal) = 7 /\ Removal[5] = "rx" /\ Removal[6] = "tx" /\ Removal[7] = "regions"
    /\ ~HasDma => Len(Removal) = 5 /\ Removal[5] = "regions"

LEMMA RemovalFactsHold ==
    ASSUME version \in AllVersions
    PROVE  RemovalFacts
  BY DEF AllVersions, RemovalFacts, Removal, HasDma, RemoveWeek02, RemoveWeek03,
         RemoveWeek04, RemoveMemcpy, RemoveLog, RemoveLogDma

LEMMA SameVersion ==
    ASSUME version' = version
    PROVE  /\ Probe' = Probe /\ Removal' = Removal /\ Things' = Things
           /\ HasDma' <=> HasDma
           /\ IsLog' <=> IsLog
  <1>1. Probe' = Probe
    BY DEF Probe
  <1>2. Removal' = Removal
    BY DEF Removal
  <1>3. Things' = Things
    BY <1>1 DEF Things
  <1> QED BY <1>1, <1>2, <1>3 DEF HasDma, IsLog
-----------------------------------------------------------------------------
(* The invariant.  What the driver core guarantees about a binding. *)

Spendable == {"probes", "faults", "mails", "opens", "calls"}

\* How far probe() or remove() is.
Progress ==
    /\ pc = "unbound" => at = 1 /\ held = {}
    /\ pc = "probing" => at \in 1 .. Len(Probe)
    /\ pc = "bound" => at = Len(Probe) + 1
    /\ pc = "removing" => at \in 1 .. Len(Removal)

\* Every binding has a structure of its own, and at most one minor.
Counts ==
    /\ left \in [Spendable -> Nat]
    /\ cmdev + left.probes = Budget.probes /\ left.faults <= Budget.faults
    /\ pc # "unbound" => cmdev > 0
    /\ minor <= cmdev
    /\ pc = "probing" /\ at <= 7 => minor < cmdev

TypeInv == LifecycleTypeOK /\ Progress /\ Counts

\* What is neither a step of probe() or remove() nor of the driver core.
MeanwhileStep ==
    \/ Mail \/ Interrupt \/ Press
    \/ \E w \in pending \cup active : StartWork(w) \/ EndWork(w)
    \/ \E m \in nodes : OpenNode(m)
    \/ CloseNode
    \/ \E op \in Operations : BeginCall(op)
    \/ EndCall

LEMMA SpendFacts ==
    ASSUME left \in [Spendable -> Nat], NEW what \in Spendable, Spend(what)
    PROVE  /\ left' \in [Spendable -> Nat]
           /\ left[what] > 0 /\ left'[what] = left[what] - 1
           /\ \A other \in Spendable \ {what} : left'[other] = left[other]
  BY DEF Spend, Spendable

LEMMA MeanwhileFrame ==
    ASSUME left \in [Spendable -> Nat], MeanwhileStep
    PROVE  /\ UNCHANGED <<version, binding, statics, outside, mask>>
           /\ left' \in [Spendable -> Nat]
           /\ left'.probes = left.probes /\ left'.faults = left.faults
  <1> USE DEF binding, statics, outside, irqs, works, user
  <1>1. CASE Mail
    BY <1>1, SpendFacts DEF Mail, Spendable
  <1>2. CASE Interrupt \/ Press \/ CloseNode \/ EndCall
    BY <1>2 DEF Interrupt, Press, CloseNode, EndCall
  <1>3. ASSUME NEW w, StartWork(w) \/ EndWork(w)
        PROVE  UNCHANGED <<version, binding, statics, outside, mask, left>>
    BY <1>3 DEF StartWork, EndWork
  <1>4. ASSUME NEW m, OpenNode(m)
        PROVE  /\ UNCHANGED <<version, binding, statics, outside, mask>>
               /\ Spend("opens")
    BY <1>4 DEF OpenNode
  <1>5. ASSUME NEW op, BeginCall(op)
        PROVE  /\ UNCHANGED <<version, binding, statics, outside, mask>>
               /\ Spend("calls")
    BY <1>5 DEF BeginCall
  <1>6. ASSUME Spend("opens") \/ Spend("calls")
        PROVE  /\ left' \in [Spendable -> Nat]
               /\ left'.probes = left.probes /\ left'.faults = left.faults
    BY <1>6, SpendFacts DEF Spendable
  <1> QED BY <1>1, <1>2, <1>3, <1>4, <1>5, <1>6 DEF MeanwhileStep

\* A step of probe() obtains its thing, or goes on without, or ends the
\* probe.
Obtains   == Advance /\ held' = held \cup {Step.gets}
GoesOn    == /\ Advance /\ held' = held
             /\ Step.gets \in {"major", "class"} \/ (Step.fails /\ ~Step.leave)
GivesUp   == /\ Step.leave /\ Step.fails
             /\ pc' = "freeing" /\ UNCHANGED <<at, cmdev>>
             /\ held' = held \ ({"regions"} \cup Step.undo)

LEMMA ProbeStepOutcome ==
    ASSUME ProbeStep
    PROVE  /\ AllIsWell /\ pc = "probing"
           /\ UNCHANGED <<version, ris, works, user>>
           /\ UNCHANGED left \/ Spend("faults")
           /\ Obtains \/ GoesOn \/ GivesUp
  <1> USE DEF Probing, Phase, Gain, Obtains, binding, statics, outside, irqs, works, user
  <1>1. CASE GetStatic
    BY <1>1 DEF GetStatic, GoesOn
  <1>2. CASE GetPlain \/ GetButtonIrq \/ GetNode \/ GetEntry
    BY <1>2 DEF GetPlain, GetButtonIrq, GetNode, GetEntry
  <1>3. CASE GetChannel \/ GetWake \/ Unmask \/ SelfTest
    BY <1>3 DEF GetChannel, GetWake, Unmask, SelfTest
  <1>4. CASE Fail
    BY <1>4 DEF Fail, MayFail, GoesOn, GivesUp
  <1> QED BY <1>1, <1>2, <1>3, <1>4 DEF ProbeStep

LEMMA TypeInvInit ==
    ASSUME LifeInit
    PROVE  TypeInv
  <1>1. version \in AllVersions
    BY VersionsAssumption DEF LifeInit
  <1>2. ProbeBegins
    BY <1>1, ProbeFactsHold DEF ProbeFacts
  <1>3. Budget.probes \in Nat /\ Spare \in Nat
    BY SpareAssumption, LifeBudgetAssumption
  <1>a. major \in BOOLEAN
    BY DEF LifeInit
  <1>b. at \in 1 .. Len(Probe) + 1 /\ spare \in 0 .. Spare
    BY <1>2, <1>3 DEF LifeInit, ProbeBegins
  <1>4. LifecycleTypeOK
    BY <1>3, <1>a, <1>b DEF LifeInit, LifecycleTypeOK, Structures, Minors
  <1>5. Progress
    BY DEF LifeInit, Progress
  <1>6. Counts
    BY <1>3, LifeBudgetAssumption DEF LifeInit, Counts, Spendable
  <1> QED BY <1>4, <1>5, <1>6 DEF TypeInv

LEMMA VersionFacts ==
    ASSUME TypeInv
    PROVE  /\ version \in AllVersions
           /\ ProbeBegins /\ BeginsOrEnds /\ UndoesChannels /\ ChannelsOnce
           /\ QueueComesFirst /\ ReleasesItsOwn /\ IsComplete
           /\ ButtonOnce /\ TestsOnce
           /\ RemovalFacts /\ (Len(Removal) = 5 \/ Len(Removal) = 7)
  <1>1. version \in AllVersions
    BY VersionsAssumption DEF TypeInv, LifecycleTypeOK
  <1>2. (Len(Removal) = 5 \/ Len(Removal) = 7)
    BY <1>1, RemovalFactsHold DEF RemovalFacts
  <1> QED BY <1>1, <1>2, ProbeFactsHold, RemovalFactsHold DEF ProbeFacts

LEMMA Lengths ==
    ASSUME TypeInv
    PROVE  /\ Len(Probe) \in Nat /\ Len(Probe) > 7
           /\ 6 # Len(Probe) /\ 7 # Len(Probe)
           /\ Len(Removal) \in Nat /\ Len(Removal) > 0 /\ Len(Removal) <= Len(Probe)
  <1>1. Len(Probe) \in Nat /\ Len(Probe) > 7
    <2>1. ProbeBegins
      BY VersionFacts
    <2> QED BY <2>1 DEF ProbeBegins
  <1>2. (Len(Removal) = 5 \/ Len(Removal) = 7)
    BY VersionFacts
  <1>3. \A m, n : m \in Nat /\ m > 7 /\ (n = 5 \/ n = 7) =>
                    6 # m /\ 7 # m /\ n \in Nat /\ n > 0 /\ n <= m
    OBVIOUS
  <1> QED BY <1>1, <1>2, <1>3, Zenon

LEMMA RemovalSteps ==
    ASSUME TypeInv, NEW i \in 1 .. Len(Removal)
    PROVE  \/ i = 1 /\ Removal[i] = "node"
           \/ i = 2 /\ Removal[i] = "entry"
           \/ i = 3 /\ Removal[i] = "wakeup"
           \/ i = 4 /\ Removal[i] = "wake_irq"
           \/ HasDma /\ i = 5 /\ Removal[i] = "rx"
           \/ HasDma /\ i = 6 /\ Removal[i] = "tx"
           \/ i = Len(Removal) /\ Removal[i] = "regions"
  <1>1. \A n : (n = 5 => \A k \in 1 .. n : k = 1 \/ k = 2 \/ k = 3 \/ k = 4 \/ k = n)
            /\ (n = 7 => \A k \in 1 .. n : k = 1 \/ k = 2 \/ k = 3 \/ k = 4 \/ k = 5 \/ k = 6 \/ k = n)
    OBVIOUS
  <1>2. HasDma => Len(Removal) = 7 /\ (i = 1 \/ i = 2 \/ i = 3 \/ i = 4 \/ i = 5 \/ i = 6 \/ i = Len(Removal))
    BY <1>1, VersionFacts, Zenon DEF RemovalFacts
  <1>3. ~HasDma => Len(Removal) = 5 /\ (i = 1 \/ i = 2 \/ i = 3 \/ i = 4 \/ i = Len(Removal))
    BY <1>1, VersionFacts, Zenon DEF RemovalFacts
  <1> QED BY <1>2, <1>3, VersionFacts, Zenon DEF RemovalFacts

LEMMA TypeFacts ==
    ASSUME TypeInv
    PROVE  /\ Budget.probes \in Nat /\ Budget.faults \in Nat /\ Spare \in Nat
           /\ cmdev \in 0 .. Budget.probes /\ minor \in 0 .. Budget.probes /\ at \in Nat
           /\ left.probes \in Nat /\ left.faults \in Nat
  <1>1. ProbeBegins
    BY VersionFacts
  <1>2. Budget.probes \in Nat /\ Budget.faults \in Nat /\ Spare \in Nat
    BY SpareAssumption, LifeBudgetAssumption
  <1>3. at \in 1 .. Len(Probe) + 1 /\ cmdev \in {0} \cup Structures /\ minor \in Minors
    BY DEF TypeInv, LifecycleTypeOK
  <1>4. left.probes \in Nat /\ left.faults \in Nat
    BY DEF TypeInv, Counts, Spendable
  <1> QED BY <1>1, <1>2, <1>3, <1>4 DEF ProbeBegins, Structures, Minors

\* Only two steps of probe() touch the nodes, the hash table and the minor.
MakesNode   == /\ at = 6 /\ Obtains
               /\ minor \notin nodes /\ nodes' = nodes \cup {minor}
               /\ UNCHANGED <<minor, table>>
MakesEntry  == /\ at = 7 /\ Obtains
               /\ table' = table \cup {<<minor, cmdev>>} /\ minor' = minor + 1
               /\ UNCHANGED nodes
LeavesTable == /\ at # 7 /\ (at = 6 => pc' = "freeing")
               /\ UNCHANGED <<minor, table, nodes>>

LEMMA NodeAndEntry ==
    ASSUME TypeInv, ProbeStep
    PROVE  MakesNode \/ MakesEntry \/ LeavesTable
  <1>1. ProbeBegins
    BY VersionFacts
  <1>2. at \in 1 .. Len(Probe) /\ pc = "probing"
    BY ProbeStepOutcome DEF TypeInv, Progress
  <1>3. /\ Step.gets = "node" <=> at = 6
        /\ Step.gets = "entry" <=> at = 7
    <2>1. at > 7 \/ at = 1 \/ at = 2 \/ at = 3 \/ at = 4 \/ at = 5 \/ at = 6 \/ at = 7
      BY <1>1, <1>2 DEF ProbeBegins
    <2> QED BY <1>1, <1>2, <2>1 DEF ProbeBegins, PrologueThings, Step
  <1> USE DEF statics, outside, Probing
  <1>4. CASE GetNode
    BY <1>3, <1>4 DEF GetNode, MakesNode, Gain, Obtains
  <1>5. CASE GetEntry
    BY <1>3, <1>5 DEF GetEntry, MakesEntry, Gain, Obtains
  <1>6. CASE GetStatic \/ GetPlain \/ GetButtonIrq
    BY <1>3, <1>6 DEF GetStatic, GetPlain, GetButtonIrq, LeavesTable
  <1>7. CASE GetChannel \/ GetWake \/ Unmask \/ SelfTest
    BY <1>3, <1>7 DEF GetChannel, GetWake, Unmask, SelfTest, LeavesTable
  <1>8. CASE Fail
    <2>1. at # 7 /\ (at = 6 => pc' = "freeing")
      BY <1>1, <1>8, VersionFacts DEF Fail, MayFail, Step, ProbeBegins, BeginsOrEnds
    <2> QED BY <1>8, <2>1 DEF Fail, LeavesTable
  <1> QED BY <1>4, <1>5, <1>6, <1>7, <1>8 DEF ProbeStep

\* The driver core and the steps of probe() keep count.
LEMMA ProbeStepProgress ==
    ASSUME TypeInv, ProbeStep
    PROVE  /\ Progress' /\ Counts'
           /\ pc' \in {"probing", "bound", "freeing"} /\ at' \in 1 .. Len(Probe) + 1
           /\ UNCHANGED cmdev /\ held' \subseteq Things
  <1>1. ProbeBegins
    BY VersionFacts
  <1>2. Probe' = Probe /\ Removal' = Removal
    BY ProbeStepOutcome, SameVersion
  <1>3. at \in 1 .. Len(Probe) /\ pc = "probing"
    BY ProbeStepOutcome DEF TypeInv, Progress
  <1>4. Step.gets \in Things
    BY <1>3 DEF Step, Things
  <1>5. /\ pc' \in {"probing", "bound", "freeing"} /\ at' \in 1 .. Len(Probe) + 1
        /\ UNCHANGED cmdev /\ held' \subseteq Things
    BY <1>1, <1>3, <1>4, ProbeStepOutcome
       DEF Obtains, GoesOn, GivesUp, Advance, TypeInv, LifecycleTypeOK, ProbeBegins
  <1>6. Progress'
    BY <1>1, <1>2, <1>3, ProbeStepOutcome
       DEF Obtains, GoesOn, GivesUp, Advance, Progress, ProbeBegins
  <1>7. /\ left' \in [Spendable -> Nat]
        /\ left'.probes = left.probes
        /\ left'.faults \in Nat /\ left'.faults <= left.faults
    BY ProbeStepOutcome, SpendFacts DEF TypeInv, Counts, Spendable
  <1>8. minor' <= cmdev /\ (pc' = "probing" /\ at' <= 7 => minor' < cmdev)
    <2>1. \/ UNCHANGED minor /\ at # 7
          \/ at = 7 /\ at' = 8 /\ minor' = minor + 1
      BY NodeAndEntry DEF MakesNode, MakesEntry, LeavesTable, Obtains, Advance
    <2>2. pc' = "probing" => at' = at + 1
      BY ProbeStepOutcome DEF Obtains, GoesOn, GivesUp, Advance
    <2> QED BY <1>3, <2>1, <2>2, TypeFacts DEF TypeInv, Counts
  <1>9. Counts'
    BY <1>3, <1>5, <1>7, <1>8, TypeFacts DEF Counts, TypeInv
  <1> QED BY <1>5, <1>6, <1>9

\* The types of what no binding owns.
StaticsTyped ==
    /\ major \in BOOLEAN /\ class \in {"none", "made"}
    /\ taken \subseteq {"tx", "rx"} /\ spare \in 0 .. Spare
    /\ wake \subseteq {"wakeup", "wake_irq"}

RunningTyped ==
    /\ mask \cup ris \subseteq {"RX", "TX", "RX_EMPTY"}
    /\ pending \cup active \subseteq {"rx_work", "rx_dma_work"} \X Structures
    /\ file \subseteq Minors

TableTyped ==
    /\ minor \in Minors /\ table \subseteq Minors \X Structures /\ nodes \subseteq Minors
    /\ AllIsWell => \A e \in table : e[1] < minor

BindingTyped ==
    /\ version \in Versions
    /\ pc \in {"unbound", "probing", "bound", "removing", "freeing"}
    /\ at \in 1 .. Len(Probe) + 1 /\ cmdev \in {0} \cup Structures
    /\ held \subseteq Things

LEMMA TypeParts ==
    /\ LifecycleTypeOK <=> StaticsTyped /\ RunningTyped /\ TableTyped /\ BindingTyped
    /\ LifecycleTypeOK' <=> StaticsTyped' /\ RunningTyped' /\ TableTyped' /\ BindingTyped'
  BY DEF LifecycleTypeOK, StaticsTyped, RunningTyped, TableTyped, BindingTyped, AllIsWell

LEMMA ProbeStepStatics ==
    ASSUME TypeInv, ProbeStep
    PROVE  StaticsTyped'
  <1>0. StaticsTyped
    BY TypeParts DEF TypeInv
  <1> USE DEF statics, outside, Probing
  <1>1. major' \in BOOLEAN
    <2>1. major' = major \/ major' = TRUE
      BY DEF ProbeStep, GetStatic, GetPlain, GetButtonIrq, GetNode, GetEntry, GetChannel,
             GetWake, Unmask, SelfTest, Fail
    <2> QED BY <1>0, <2>1 DEF StaticsTyped
  <1>2. class' \in {"none", "made"}
    <2>1. class' = class \/ class' = "made"
      BY DEF ProbeStep, GetStatic, GetPlain, GetButtonIrq, GetNode, GetEntry, GetChannel,
             GetWake, Unmask, SelfTest, Fail
    <2> QED BY <1>0, <2>1 DEF StaticsTyped
  <1>3. taken' \subseteq {"tx", "rx"}
    <2>1. taken' = taken \/ taken' = taken \cup ({Step.gets} \cap {"tx", "rx"})
          \/ taken' = taken \ Step.undo
      BY DEF ProbeStep, GetStatic, GetPlain, GetButtonIrq, GetNode, GetEntry, GetChannel,
             GetWake, Unmask, SelfTest, Fail
    <2> QED BY <1>0, <2>1 DEF StaticsTyped
  <1>4. wake' \subseteq {"wakeup", "wake_irq"}
    <2>1. wake' = wake \/ wake' = wake \cup ({Step.gets} \cap {"wakeup", "wake_irq"})
      BY DEF ProbeStep, GetStatic, GetPlain, GetButtonIrq, GetNode, GetEntry, GetChannel,
             GetWake, Unmask, SelfTest, Fail
    <2> QED BY <1>0, <2>1 DEF StaticsTyped
  <1>5. spare' \in 0 .. Spare
    <2>1. spare' = spare \/ (spare > 0 /\ spare' = spare - 1)
      BY DEF ProbeStep, GetStatic, GetPlain, GetButtonIrq, GetNode, GetEntry, GetChannel,
             GetWake, Unmask, SelfTest, Fail
    <2> QED BY <1>0, <2>1, SpareAssumption DEF StaticsTyped
  <1> QED BY <1>1, <1>2, <1>3, <1>4, <1>5 DEF StaticsTyped

LEMMA ProbeStepTypes ==
    ASSUME TypeInv, ProbeStep
    PROVE  TypeInv'
  <1>1. StaticsTyped /\ RunningTyped /\ TableTyped /\ BindingTyped
    BY TypeParts DEF TypeInv
  <1>2. Probe' = Probe /\ Things' = Things /\ UNCHANGED <<version, ris, works, user>>
    BY ProbeStepOutcome, SameVersion
  <1>3. BindingTyped'
    BY <1>1, <1>2, ProbeStepProgress DEF BindingTyped
  <1>4. RunningTyped'
    <2>1. mask' = mask \/ mask' = mask \cup {"RX", "TX"} \/ mask' = mask \cup {"RX_EMPTY"}
      BY DEF ProbeStep, GetStatic, GetPlain, GetButtonIrq, GetNode, GetEntry, GetChannel,
             GetWake, Unmask, SelfTest, Fail, irqs
    <2> QED BY <1>1, <1>2, <2>1 DEF RunningTyped, works, user
  <1>5. TableTyped'
    <2>1. cmdev \in 0 .. Budget.probes /\ minor \in 0 .. Budget.probes /\ Budget.probes \in Nat
      BY TypeFacts
    <2>2. AllIsWell /\ cmdev > 0 /\ (at = 7 => minor < cmdev)
      BY ProbeStepOutcome DEF TypeInv, Counts
    <2>3. CASE MakesEntry
      <3>1. cmdev \in Structures /\ minor \in Minors /\ minor' \in Minors
        BY <2>1, <2>2, <2>3 DEF MakesEntry, Structures, Minors
      <3>2. table' \subseteq Minors \X Structures
        BY <1>1, <2>3, <3>1 DEF MakesEntry, TableTyped
      <3>3. \A e \in table : e[1] \in Nat /\ e[1] < minor
        BY <1>1, <2>1, <2>2 DEF TableTyped, Minors
      <3>4. \A e \in table' : e[1] < minor'
        BY <2>1, <2>3, <3>3 DEF MakesEntry
      <3> QED BY <1>1, <2>3, <3>1, <3>2, <3>4 DEF MakesEntry, TableTyped
    <2>4. CASE MakesNode \/ LeavesTable
      BY <1>1, <2>2, <2>4 DEF MakesNode, LeavesTable, TableTyped
    <2> QED BY <2>3, <2>4, NodeAndEntry
  <1>6. LifecycleTypeOK'
    BY <1>3, <1>4, <1>5, ProbeStepStatics, TypeParts
  <1> QED BY <1>6, ProbeStepProgress DEF TypeInv

LEMMA GiveBackTypes ==
    ASSUME TypeInv, GiveBack
    PROVE  TypeInv'
  <1>1. StaticsTyped /\ RunningTyped /\ TableTyped /\ BindingTyped
    BY TypeParts DEF TypeInv
  <1>2. /\ AllIsWell /\ pc = "removing" /\ at \in 1 .. Len(Removal)
        /\ UNCHANGED <<version, cmdev, major, class, minor, spare, irqs, works, user, trouble, left>>
    BY DEF GiveBack, Phase, TypeInv, Progress
  <1>3. Probe' = Probe /\ Things' = Things /\ Removal' = Removal
    BY <1>2, SameVersion
  <1>4. Len(Removal) \in Nat /\ Len(Probe) \in Nat /\ Len(Removal) <= Len(Probe)
    BY Lengths
  <1>5. /\ table' \subseteq table /\ nodes' \subseteq nodes
        /\ wake' \subseteq wake /\ taken' \subseteq taken /\ held' \subseteq held
    BY DEF GiveBack
  <1>6. /\ pc' = IF at = Len(Removal) THEN "freeing" ELSE "removing"
        /\ at' = at + 1
    BY DEF GiveBack
  <1>7. StaticsTyped'
    <2>1. major' \in BOOLEAN
      BY <1>1, <1>2 DEF StaticsTyped
    <2> QED BY <1>1, <1>2, <1>5, <2>1 DEF StaticsTyped
  <1>8. RunningTyped'
    BY <1>1, <1>2 DEF RunningTyped, irqs, works, user
  <1>9. TableTyped'
    BY <1>1, <1>2, <1>5 DEF TableTyped
  <1>10. BindingTyped'
    BY <1>1, <1>2, <1>3, <1>4, <1>5, <1>6 DEF BindingTyped
  <1>11. Progress'
    BY <1>2, <1>3, <1>4, <1>6 DEF Progress
  <1>12. Counts'
    BY <1>2, <1>6 DEF Counts, TypeInv
  <1> QED BY <1>7, <1>8, <1>9, <1>10, <1>11, <1>12, TypeParts DEF TypeInv

LEMMA CoreTypes ==
    ASSUME TypeInv, Bind \/ Unbind \/ FreeDevres \/ EndBinding
    PROVE  TypeInv'
  <1>1. StaticsTyped /\ RunningTyped /\ TableTyped /\ BindingTyped
    BY TypeParts DEF TypeInv
  <1>2. UNCHANGED <<version, statics, outside, irqs, works, user, trouble>>
    BY DEF Bind, Unbind, FreeDevres, EndBinding
  <1>3. Probe' = Probe /\ Things' = Things /\ Removal' = Removal
    BY <1>2, SameVersion
  <1>4. /\ Len(Removal) \in Nat /\ Len(Removal) > 0
        /\ Len(Probe) \in Nat /\ Len(Probe) > 7
    BY Lengths
  <1>5. StaticsTyped' /\ RunningTyped' /\ TableTyped'
    <2>1. major' \in BOOLEAN
      BY <1>1, <1>2 DEF StaticsTyped, statics
    <2> QED BY <1>1, <1>2, <2>1
            DEF StaticsTyped, RunningTyped, TableTyped, AllIsWell, statics, outside, irqs, works, user
  <1>6. /\ cmdev \in 0 .. Budget.probes /\ minor \in 0 .. Budget.probes /\ at \in Nat
        /\ Budget.probes \in Nat /\ left.probes \in Nat /\ left.faults \in Nat
    BY TypeFacts
  <1>7. CASE Bind
    <2>1. /\ pc = "unbound" /\ pc' = "probing" /\ cmdev' = cmdev + 1
          /\ at' = at /\ held' = held /\ Spend("probes")
      BY <1>7 DEF Bind, Phase
    <2>2. /\ left' \in [Spendable -> Nat] /\ left'.probes = left.probes - 1
          /\ left.probes > 0 /\ left'.faults = left.faults
      BY <2>1, SpendFacts DEF TypeInv, Counts, Spendable
    <2>3. cmdev' \in Structures
      BY <1>6, <2>1, <2>2 DEF TypeInv, Counts, Structures
    <2>4. BindingTyped'
      BY <1>1, <1>2, <1>3, <2>1, <2>3 DEF BindingTyped
    <2>5. Progress'
      BY <1>3, <1>4, <2>1 DEF Progress, TypeInv
    <2>6. Counts'
      BY <1>2, <1>6, <2>1, <2>2 DEF Counts, TypeInv, statics
    <2> QED BY <1>5, <2>4, <2>5, <2>6, TypeParts DEF TypeInv
  <1>8. CASE Unbind \/ FreeDevres \/ EndBinding
    <2>1. UNCHANGED <<cmdev, left>> /\ pc # "unbound"
      BY <1>8 DEF Unbind, FreeDevres, EndBinding, Phase
    <2>2. /\ pc' \in {"removing", "freeing", "unbound"} /\ (at' = at \/ at' = 1)
          /\ held' \subseteq held
          /\ pc' = "removing" => at' = 1
          /\ pc' = "unbound" => at' = 1 /\ held' = {}
      BY <1>8 DEF Unbind, FreeDevres, EndBinding, Phase
    <2>3. BindingTyped'
      BY <1>1, <1>2, <1>3, <1>4, <2>1, <2>2 DEF BindingTyped
    <2>4. Progress'
      BY <1>3, <1>4, <2>2 DEF Progress
    <2>5. Counts'
      BY <1>2, <2>1, <2>2 DEF Counts, TypeInv, statics
    <2> QED BY <1>5, <2>3, <2>4, <2>5, TypeParts DEF TypeInv
  <1> QED BY <1>7, <1>8

LEMMA MeanwhileRuns ==
    ASSUME TypeInv, MeanwhileStep
    PROVE  RunningTyped'
  <1>1. RunningTyped /\ TableTyped /\ BindingTyped
    BY TypeParts DEF TypeInv
  <1>2. mask' = mask
    BY MeanwhileFrame DEF TypeInv, Counts
  <1> USE DEF irqs, works, user
  <1>3. CASE Mail
    BY <1>1, <1>3 DEF Mail, RunningTyped
  <1>4. CASE Interrupt
    <2>1. ris' \subseteq ris /\ UNCHANGED <<active, user>>
      BY <1>4 DEF Interrupt
    <2>2. pending' = pending \/ pending' = pending \cup {<<"rx_work", cmdev>>}
                             \/ pending' = pending \cup {<<"rx_dma_work", cmdev>>}
      BY <1>4 DEF Interrupt, Schedule
    <2>3. cmdev \in Structures
      <3>1. pc # "unbound"
        BY <1>4 DEF Interrupt, TypeInv, Progress
      <3>2. cmdev > 0
        BY <3>1 DEF TypeInv, Counts
      <3> QED BY <1>1, <3>2 DEF BindingTyped
    <2> QED BY <1>1, <1>2, <2>1, <2>2, <2>3 DEF RunningTyped
  <1>5. CASE Press \/ CloseNode
    BY <1>1, <1>2, <1>5 DEF Press, CloseNode, RunningTyped
  <1>6. ASSUME NEW w \in pending \cup active, StartWork(w) \/ EndWork(w)
        PROVE  RunningTyped'
    <2>1. pending' \subseteq pending \cup {w} /\ active' \subseteq active \cup {w}
          /\ ris' \subseteq ris \cup {"RX_EMPTY"} /\ UNCHANGED user
      BY <1>6 DEF StartWork, EndWork
    <2> QED BY <1>1, <1>2, <2>1 DEF RunningTyped
  <1>7. ASSUME NEW m \in nodes, OpenNode(m)
        PROVE  RunningTyped'
    BY <1>1, <1>2, <1>7 DEF OpenNode, RunningTyped, TableTyped
  <1>8. ASSUME NEW op, BeginCall(op)
        PROVE  RunningTyped'
    BY <1>1, <1>2, <1>8 DEF BeginCall, RunningTyped
  <1>9. CASE EndCall
    <2>1. ris' = ris \/ ris' = ris \cup {"TX"} \/ ris' = ris \cup {"RX"}
      BY <1>9 DEF EndCall
    <2> QED BY <1>1, <1>2, <1>9, <2>1 DEF EndCall, RunningTyped
  <1> QED BY <1>3, <1>4, <1>5, <1>6, <1>7, <1>8, <1>9 DEF MeanwhileStep

LEMMA MeanwhileTypes ==
    ASSUME TypeInv, MeanwhileStep
    PROVE  TypeInv'
  <1>1. StaticsTyped /\ TableTyped /\ BindingTyped
    BY TypeParts DEF TypeInv
  <1>2. /\ UNCHANGED <<version, binding, statics, outside, mask>>
        /\ left' \in [Spendable -> Nat]
        /\ left'.probes = left.probes /\ left'.faults = left.faults
    BY MeanwhileFrame DEF TypeInv, Counts
  <1>3. Probe' = Probe /\ Things' = Things /\ Removal' = Removal
    BY <1>2, SameVersion
  <1>4. AllIsWell
    BY DEF MeanwhileStep, Mail, Interrupt, Press, StartWork, EndWork, OpenNode, CloseNode,
           BeginCall, EndCall
  <1> USE DEF binding, statics, outside
  <1>5. StaticsTyped'
    <2>1. major' \in BOOLEAN
      BY <1>1, <1>2 DEF StaticsTyped
    <2> QED BY <1>1, <1>2, <2>1 DEF StaticsTyped
  <1>6. TableTyped' /\ BindingTyped'
    BY <1>1, <1>2, <1>3, <1>4 DEF TableTyped, BindingTyped
  <1>7. Progress' /\ Counts'
    BY <1>2, <1>3 DEF Progress, Counts, TypeInv
  <1> QED BY <1>5, <1>6, <1>7, MeanwhileRuns, TypeParts DEF TypeInv

LEMMA NextSteps ==
    ASSUME LifeNext
    PROVE  ProbeStep \/ GiveBack \/ Bind \/ Unbind \/ FreeDevres \/ EndBinding \/ MeanwhileStep
  BY DEF LifeNext, CoreStep, MeanwhileStep

LEMMA TypeInvNext ==
    ASSUME TypeInv, [LifeNext]_vars
    PROVE  TypeInv'
  <1>1. CASE LifeNext
    BY <1>1, NextSteps, ProbeStepTypes, GiveBackTypes, CoreTypes, MeanwhileTypes
  <1>2. CASE UNCHANGED vars
    <2>1. UNCHANGED <<version, binding, statics, outside, irqs, works, user, trouble, left>>
      BY <1>2 DEF vars
    <2>2. Probe' = Probe /\ Things' = Things /\ Removal' = Removal
      BY <2>1, SameVersion
    <2>3. StaticsTyped /\ RunningTyped /\ TableTyped /\ BindingTyped
      BY TypeParts DEF TypeInv
    <2> USE DEF binding, statics, outside, irqs, works, user
    <2>4. StaticsTyped'
      <3>1. major' \in BOOLEAN
        BY <2>1, <2>3 DEF StaticsTyped
      <3> QED BY <2>1, <2>3, <3>1 DEF StaticsTyped
    <2>5. RunningTyped' /\ TableTyped' /\ BindingTyped'
      BY <2>1, <2>2, <2>3 DEF RunningTyped, TableTyped, BindingTyped, AllIsWell
    <2>6. Progress' /\ Counts'
      BY <2>1, <2>2 DEF Progress, Counts, TypeInv
    <2> QED BY <2>4, <2>5, <2>6, TypeParts DEF TypeInv
  <1> QED BY <1>1, <1>2
-----------------------------------------------------------------------------
(* The nodes and the hash table.  Between device_create and hash_add a node *)
(* has no entry, and during remove() an entry has no node.                  *)

Shown == {e[1] : e \in table}

\* The minor of this binding is the last one handed out, and in the table.
HasEntry == \/ pc = "bound"
            \/ pc = "probing" /\ at > 7
            \/ pc = "removing" /\ at <= 2

OneEntryPerMinor == \A e, f \in table : e[1] = f[1] => e = f

EntriesAreOld == \A e \in table : e[1] \in Nat /\ e[1] < minor

NodesFollowTable ==
    /\ pc = "probing" /\ at = 7 => nodes = Shown \cup {minor}
    /\ pc = "removing" /\ at = 2 => nodes = Shown \ {minor - 1}
    /\ ~(pc = "probing" /\ at = 7) /\ ~(pc = "removing" /\ at = 2) => nodes = Shown

TableInv ==
    /\ OneEntryPerMinor
    /\ EntriesAreOld
    /\ NodesFollowTable
    /\ HasEntry => <<minor - 1, cmdev>> \in table

LEMMA TableInvInit ==
    ASSUME LifeInit
    PROVE  TableInv
  BY DEF LifeInit, TableInv, OneEntryPerMinor, EntriesAreOld, NodesFollowTable, HasEntry, Shown

LEMMA TableUnchanged ==
    ASSUME TableInv, UNCHANGED <<minor, table, nodes, cmdev>>,
           pc' = "probing" /\ at' = 7 <=> pc = "probing" /\ at = 7,
           pc' = "removing" /\ at' = 2 <=> pc = "removing" /\ at = 2,
           HasEntry' => HasEntry
    PROVE  TableInv'
  BY DEF TableInv, OneEntryPerMinor, EntriesAreOld, NodesFollowTable, HasEntry, Shown

LEMMA TableInvProbe ==
    ASSUME TypeInv, TableInv, ProbeStep
    PROVE  TableInv'
  <1>1. pc = "probing" /\ at \in Nat
    BY ProbeStepOutcome, TypeFacts
  <1>2. minor \in Nat /\ cmdev' = cmdev
    BY TypeFacts, ProbeStepProgress
  <1>3. CASE MakesNode
    <2>1. pc' = "probing" /\ at' = 7
      <3>1. at # Len(Probe) /\ at' = at + 1 /\ at = 6
        BY <1>3, Lengths DEF MakesNode, Obtains, Advance
      <3> QED BY <1>3, <3>1 DEF MakesNode, Obtains, Advance
    <2>2. nodes = Shown /\ UNCHANGED Shown
      BY <1>1, <1>3 DEF MakesNode, TableInv, NodesFollowTable, Shown
    <2> QED BY <1>3, <2>1, <2>2
            DEF MakesNode, TableInv, OneEntryPerMinor, EntriesAreOld, NodesFollowTable, HasEntry
  <1>4. CASE MakesEntry
    <2>1. pc' = "probing" /\ at' = 8
      <3>1. at # Len(Probe) /\ at' = at + 1 /\ at = 7
        BY <1>4, Lengths DEF MakesEntry, Obtains, Advance
      <3> QED BY <1>4, <3>1 DEF MakesEntry, Obtains, Advance
    <2>2. nodes = Shown \cup {minor}
      BY <1>1, <1>4 DEF MakesEntry, TableInv, NodesFollowTable
    <2>3. Shown' = Shown \cup {minor}
      <3> DEFINE entry == <<minor, cmdev>>
      <3>1. table' = table \cup {entry} /\ entry[1] = minor
        BY <1>4 DEF MakesEntry
      <3> HIDE DEF entry
      <3>2. {e[1] : e \in table \cup {entry}} = {e[1] : e \in table} \cup {entry[1]}
        OBVIOUS
      <3> QED BY <3>1, <3>2 DEF Shown
    <2>4. OneEntryPerMinor'
      BY <1>2, <1>4 DEF MakesEntry, TableInv, OneEntryPerMinor, EntriesAreOld
    <2>5. EntriesAreOld'
      BY <1>2, <1>4 DEF MakesEntry, TableInv, EntriesAreOld
    <2>6. <<minor' - 1, cmdev'>> \in table'
      <3>1. minor' - 1 = minor
        BY <1>2, <1>4 DEF MakesEntry
      <3> QED BY <1>2, <1>4, <3>1 DEF MakesEntry
    <2> QED BY <1>4, <2>1, <2>2, <2>3, <2>4, <2>5, <2>6
            DEF MakesEntry, TableInv, NodesFollowTable
  <1>5. CASE LeavesTable
    <2>1. pc' # "removing" /\ (pc' = "probing" /\ at' = 7 => FALSE)
      BY <1>1, <1>5, ProbeStepOutcome
         DEF LeavesTable, Obtains, GoesOn, GivesUp, Advance
    <2>2. HasEntry' => HasEntry
      BY <1>1, <1>5, ProbeStepOutcome, Lengths
         DEF LeavesTable, Obtains, GoesOn, GivesUp, Advance, HasEntry
    <2> QED BY <1>1, <1>2, <1>5, <2>1, <2>2, TableUnchanged DEF LeavesTable
  <1> QED BY <1>3, <1>4, <1>5, NodeAndEntry

LEMMA TableInvGiveBack ==
    ASSUME TypeInv, TableInv, GiveBack
    PROVE  TableInv'
  <1>1. pc = "removing" /\ at \in 1 .. Len(Removal) /\ UNCHANGED <<minor, cmdev>>
    BY DEF GiveBack, Phase, TypeInv, Progress
  <1>2. at \in Nat /\ minor \in Nat /\ cmdev \in Nat
    BY TypeFacts
  <1>3. at' = at + 1 /\ pc' = IF at = Len(Removal) THEN "freeing" ELSE "removing"
    BY DEF GiveBack
  <1>4. Len(Removal) = 5 \/ Len(Removal) = 7
    BY VersionFacts
  <1>5. CASE at = 1
    <2>1. nodes' = nodes \ {minor - 1} /\ table' = table
      BY <1>5, VersionFacts DEF GiveBack, RemovalFacts
    <2>2. pc' = "removing" /\ at' = 2
      BY <1>3, <1>4, <1>5
    <2>3. nodes = Shown /\ <<minor - 1, cmdev>> \in table /\ UNCHANGED Shown
      BY <1>1, <1>5, <2>1 DEF TableInv, NodesFollowTable, HasEntry, Shown
    <2> QED BY <1>1, <2>1, <2>2, <2>3
            DEF TableInv, OneEntryPerMinor, EntriesAreOld, NodesFollowTable, HasEntry
  <1>6. CASE at = 2
    <2>1. nodes' = nodes /\ table' = table \ {<<minor - 1, cmdev>>}
      BY <1>6, VersionFacts DEF GiveBack, RemovalFacts
    <2>2. pc' = "removing" /\ at' = 3
      BY <1>3, <1>4, <1>6
    <2>3. nodes = Shown \ {minor - 1} /\ <<minor - 1, cmdev>> \in table
      BY <1>1, <1>6 DEF TableInv, NodesFollowTable, HasEntry
    <2>4. Shown' = Shown \ {minor - 1}
      BY <2>1, <2>3 DEF TableInv, OneEntryPerMinor, Shown
    <2> QED BY <1>1, <2>1, <2>2, <2>3, <2>4
            DEF TableInv, OneEntryPerMinor, EntriesAreOld, NodesFollowTable, HasEntry
  <1>7. CASE at > 2
    <2>1. Removal[at] \notin {"node", "entry"}
      BY <1>1, <1>2, <1>7, VersionFacts DEF RemovalFacts
    <2>2. UNCHANGED <<nodes, table>>
      BY <2>1 DEF GiveBack
    <2>3. /\ ~(pc' = "removing" /\ at' = 2) /\ ~(pc = "removing" /\ at = 2)
          /\ pc' # "probing" /\ ~HasEntry'
      BY <1>1, <1>2, <1>3, <1>7 DEF HasEntry
    <2> QED BY <1>1, <2>2, <2>3, TableUnchanged
  <1> QED BY <1>1, <1>2, <1>5, <1>6, <1>7

LEMMA TableInvNext ==
    ASSUME TypeInv, TableInv, [LifeNext]_vars
    PROVE  TableInv'
  <1> USE DEF binding, statics, outside
  <1>1. CASE Bind
    <2>1. pc = "unbound" /\ at = 1 /\ pc' = "probing" /\ at' = 1
          /\ UNCHANGED <<minor, table, nodes>>
      BY <1>1 DEF Bind, Phase, TypeInv, Progress
    <2> QED BY <2>1 DEF TableInv, OneEntryPerMinor, EntriesAreOld, NodesFollowTable, HasEntry, Shown
  <1>2. CASE Unbind
    <2>1. pc = "bound" /\ pc' = "removing" /\ at' = 1 /\ UNCHANGED <<minor, table, nodes, cmdev>>
      BY <1>2 DEF Unbind, Phase
    <2> QED BY <2>1, TableUnchanged DEF HasEntry
  <1>3. CASE FreeDevres \/ EndBinding
    <2>1. pc = "freeing" /\ pc' \in {"freeing", "unbound"} /\ UNCHANGED <<minor, table, nodes, cmdev>>
      BY <1>3 DEF FreeDevres, EndBinding, Phase
    <2> QED BY <2>1, TableUnchanged DEF HasEntry
  <1>4. CASE MeanwhileStep \/ UNCHANGED vars
    <2>1. UNCHANGED <<pc, at, cmdev, minor, table, nodes>>
      BY <1>4, MeanwhileFrame DEF vars, TypeInv, Counts
    <2> QED BY <2>1, TableUnchanged DEF HasEntry
  <1> QED BY <1>1, <1>2, <1>3, <1>4, NextSteps, TableInvProbe, TableInvGiveBack

\* The steps that make a node find its name free.
LEMMA TableInvImplies ==
    ASSUME TypeInv, TableInv
    PROVE  NodesMatchTable
  <1>1. ASSUME Probing({"node"})
        PROVE  minor \notin nodes
    <2>1. pc = "probing" /\ at \in 1 .. Len(Probe) /\ Step.gets = "node"
      BY <1>1 DEF Probing, Phase, TypeInv, Progress
    <2>2. at # 7
      BY <2>1, VersionFacts DEF ProbeBegins, Step
    <2>3. nodes = Shown
      BY <2>1, <2>2 DEF TableInv, NodesFollowTable
    <2>4. minor \in Nat
      BY TypeFacts
    <2> QED BY <2>3, <2>4 DEF TableInv, EntriesAreOld, Shown
  <1>2. pc \in {"unbound", "bound"} => nodes = Shown
    BY DEF TableInv, NodesFollowTable
  <1> QED BY <1>1, <1>2 DEF TableInv, OneEntryPerMinor, NodesMatchTable, Shown
-----------------------------------------------------------------------------
(* What a probe has obtained so far, and a bound device has. *)

\* Step i is of a static, or was not looked at, or has left what it obtains.
Done(i) == \/ Probe[i].gets \in {"major", "class"}
           \/ Probe[i].fails /\ ~Probe[i].leave
           \/ Probe[i].gets \in held

StepsDone == pc \in {"probing", "bound"} => \A i \in 1 .. at - 1 : Done(i)

\* There is a queue whenever there are LEDs and, in the versions that have
\* repaired the order, whenever there is a channel.
QueueWaits ==
    /\ "leds" \in held => "tx_wq" \in held
    /\ version \in {"memcpy", "logdma"} /\ "tx" \in held => "tx_wq" \in held

RegionsGone == pc \in {"freeing", "unbound"} => "regions" \notin held

HeldInv == StepsDone /\ QueueWaits /\ RegionsGone

LEMMA HeldInvInit ==
    ASSUME LifeInit
    PROVE  HeldInv
  <1>1. at = 1 /\ held = {}
    BY DEF LifeInit
  <1>2. 1 .. at - 1 = {}
    BY <1>1
  <1> QED BY <1>1, <1>2 DEF HeldInv, StepsDone, QueueWaits, RegionsGone

\* What comes before a step that has been reached is there.
LEMMA AfterIsHeld ==
    ASSUME StepsDone, pc \in {"probing", "bound"}, at \in Nat,
           NEW thing, thing \notin {"major", "class"}, After(thing, at)
    PROVE  thing \in held
  <1>1. PICK j \in 1 .. at - 1 : Probe[j].gets = thing /\ (Probe[j].leave \/ ~Probe[j].fails)
    BY DEF After
  <1>2. Done(j)
    BY DEF StepsDone
  <1> QED BY <1>1, <1>2 DEF Done

LEMMA StepsDoneProbe ==
    ASSUME TypeInv, StepsDone, ProbeStep
    PROVE  StepsDone'
  <1>1. pc = "probing" /\ at \in Nat /\ at \in 1 .. Len(Probe)
    BY ProbeStepOutcome, TypeFacts DEF TypeInv, Progress
  <1>2. Probe' = Probe
    BY ProbeStepOutcome, SameVersion
  <1>3. \A i \in 1 .. at - 1 : Done(i)
    BY <1>1 DEF StepsDone
  <1>4. CASE Obtains \/ GoesOn
    <2>1. at' = at + 1 /\ held \subseteq held'
      BY <1>4 DEF Obtains, GoesOn, Advance
    <2>2. \/ Step.gets \in {"major", "class"}
          \/ Step.fails /\ ~Step.leave
          \/ Step.gets \in held'
      BY <1>4 DEF Obtains, GoesOn
    <2>3. \A i \in 1 .. at' - 1 : i \in 1 .. at - 1 \/ i = at
      BY <1>1, <2>1
    <2>4. \A i \in 1 .. at' - 1 : Done(i)'
      <3> SUFFICES ASSUME NEW i \in 1 .. at' - 1 PROVE Done(i)'
        OBVIOUS
      <3>1. CASE i \in 1 .. at - 1
        BY <1>2, <1>3, <2>1, <3>1 DEF Done
      <3>2. CASE i = at
        BY <1>2, <2>2, <3>2 DEF Done, Step
      <3> QED BY <2>3, <3>1, <3>2
    <2> QED BY <2>4 DEF StepsDone
  <1>5. CASE GivesUp
    BY <1>5 DEF GivesUp, StepsDone
  <1> QED BY <1>4, <1>5, ProbeStepOutcome

LEMMA StepsDoneNext ==
    ASSUME TypeInv, StepsDone, [LifeNext]_vars
    PROVE  StepsDone'
  <1>1. CASE Bind
    <2>1. at' = 1
      BY <1>1 DEF Bind, Phase, TypeInv, Progress
    <2>2. 1 .. at' - 1 = {}
      BY <2>1
    <2> QED BY <2>2 DEF StepsDone
  <1>2. CASE Unbind \/ GiveBack \/ FreeDevres \/ EndBinding
    BY <1>2 DEF Unbind, GiveBack, FreeDevres, EndBinding, Phase, StepsDone
  <1>3. CASE MeanwhileStep \/ UNCHANGED vars
    <2>1. UNCHANGED <<version, pc, at, held>>
      BY <1>3, MeanwhileFrame DEF vars, binding, TypeInv, Counts
    <2>2. Probe' = Probe
      BY <2>1, SameVersion
    <2> QED BY <2>1, <2>2 DEF StepsDone, Done
  <1> QED BY <1>1, <1>2, <1>3, NextSteps, StepsDoneProbe

LEMMA QueueWaitsNext ==
    ASSUME TypeInv, HeldInv, [LifeNext]_vars
    PROVE  QueueWaits'
  <1>1. version' = version
    <2>1. CASE MeanwhileStep \/ UNCHANGED vars
      BY <2>1, MeanwhileFrame DEF vars, TypeInv, Counts
    <2>2. CASE Bind \/ Unbind \/ GiveBack \/ FreeDevres \/ EndBinding
      BY <2>2 DEF Bind, Unbind, GiveBack, FreeDevres, EndBinding
    <2> QED BY <2>1, <2>2, NextSteps, ProbeStepOutcome
  <1>2. QueueWaits
    BY DEF HeldInv
  <1>3. CASE ProbeStep
    <2>1. pc = "probing" /\ at \in Nat /\ at \in 1 .. Len(Probe)
      BY <1>3, ProbeStepOutcome, TypeFacts DEF TypeInv, Progress
    <2>2. CASE Obtains
      <3>1. /\ Step.gets = "leds" => "tx_wq" \in held
            /\ version \in {"memcpy", "logdma"} /\ Step.gets = "tx" => "tx_wq" \in held
        BY <2>1, VersionFacts, AfterIsHeld DEF HeldInv, QueueComesFirst, Step
      <3> QED BY <1>1, <1>2, <2>2, <3>1 DEF Obtains, QueueWaits
    <2>3. CASE GoesOn
      BY <1>1, <1>2, <2>3 DEF GoesOn, QueueWaits
    <2>4. CASE GivesUp
      <3>1. Step.undo \subseteq {"tx", "rx"}
        BY <2>1, VersionFacts DEF UndoesChannels, Step
      <3> QED BY <1>1, <1>2, <2>4, <3>1 DEF GivesUp, QueueWaits
    <2> QED BY <1>3, <2>2, <2>3, <2>4, ProbeStepOutcome
  <1>4. CASE GiveBack
    <2>1. held' = held \ {Removal[at]} /\ at \in 1 .. Len(Removal)
      BY <1>4 DEF GiveBack, Phase, TypeInv, Progress
    <2>4. Removal[at] # "tx_wq"
      BY <2>1, RemovalSteps
    <2> QED BY <1>1, <1>2, <2>1, <2>4 DEF QueueWaits
  <1>5. CASE FreeDevres
    <2>1. PICK h \in Managed : held' = held \ {h}
      BY <1>5 DEF FreeDevres
    <2> QED BY <1>1, <1>2, <2>1 DEF Managed, Devres, QueueWaits
  <1>6. CASE EndBinding
    BY <1>6 DEF EndBinding, QueueWaits
  <1>7. CASE Bind \/ Unbind \/ MeanwhileStep \/ UNCHANGED vars
    <2>1. held' = held
      BY <1>7, MeanwhileFrame DEF Bind, Unbind, vars, binding, TypeInv, Counts
    <2> QED BY <1>1, <1>2, <2>1 DEF QueueWaits
  <1> QED BY <1>3, <1>4, <1>5, <1>6, <1>7, NextSteps

LEMMA RegionsGoneNext ==
    ASSUME TypeInv, RegionsGone, [LifeNext]_vars
    PROVE  RegionsGone'
  <1>1. CASE ProbeStep
    BY <1>1, ProbeStepOutcome DEF Obtains, GoesOn, GivesUp, Advance, RegionsGone
  <1>2. CASE GiveBack
    <2>1. pc' \in {"freeing", "unbound"} => at = Len(Removal)
      BY <1>2 DEF GiveBack
    <2>2. at = Len(Removal) => Removal[at] = "regions"
      BY VersionFacts DEF RemovalFacts
    <2> QED BY <1>2, <2>1, <2>2 DEF GiveBack, RegionsGone
  <1>3. CASE Bind \/ Unbind \/ FreeDevres \/ EndBinding
    BY <1>3 DEF Bind, Unbind, FreeDevres, EndBinding, Phase, RegionsGone
  <1>4. CASE MeanwhileStep \/ UNCHANGED vars
    BY <1>4, MeanwhileFrame DEF vars, binding, TypeInv, Counts, RegionsGone
  <1> QED BY <1>1, <1>2, <1>3, <1>4, NextSteps

LEMMA HeldInvNext ==
    ASSUME TypeInv, HeldInv, [LifeNext]_vars
    PROVE  HeldInv'
  BY StepsDoneNext, QueueWaitsNext, RegionsGoneNext DEF HeldInv
-----------------------------------------------------------------------------
(* As long as nothing has failed, whatever outlives a binding is there only *)
(* while a binding needs it.                                                *)

Faultless == left.faults = Budget.faults

ClassIsMade == pc = "probing" /\ at > 3 => class = "made"

\* Channels and the interrupt that goes with them exist only with DMA, and
\* the interrupt of the button only in the versions with GPIO.
DmaOnly == /\ taken # {} => HasDma
           /\ "RX_EMPTY" \in mask => HasDma
           /\ "button_irq" \in held => HasGpio

Earlier == {Probe[i].gets : i \in 1 .. at - 1}
OwnEntry == {<<minor - 1, cmdev>>}

BalancedTable ==
    /\ pc \in {"unbound", "freeing"} => table = {}
    /\ pc = "probing" => table \subseteq OwnEntry /\ (at <= 7 => table = {})
    /\ pc = "bound" => table \subseteq OwnEntry
    /\ pc = "removing" => table \subseteq OwnEntry /\ (at > 2 => table = {})

BalancedChannels ==
    /\ pc \in {"unbound", "freeing"} => taken = {}
    /\ pc = "probing" => taken \subseteq Earlier
    /\ pc = "removing" /\ at > 5 => "rx" \notin taken
    /\ pc = "removing" /\ at > 6 => "tx" \notin taken

BalancedWake ==
    /\ pc \in {"unbound", "freeing"} => wake = {}
    /\ pc = "removing" /\ at > 3 => "wakeup" \notin wake
    /\ pc = "removing" /\ at > 4 => "wake_irq" \notin wake

\* The channels that the self tests have kept, unless the last was missing.
Kept == IF version # "memcpy" THEN 0
        ELSE IF pc = "probing" /\ at <= 21 THEN cmdev - 1 ELSE cmdev
BalancedSpare == AllIsWell \/ pc # "probing" => spare = Spare - Kept

Balanced == Faultless => BalancedTable /\ BalancedChannels /\ BalancedWake /\ BalancedSpare

BalanceInv == ClassIsMade /\ DmaOnly /\ Balanced

LEMMA BalanceInvInit ==
    ASSUME LifeInit
    PROVE  BalanceInv
  BY SpareAssumption
     DEF LifeInit, BalanceInv, ClassIsMade, DmaOnly, Balanced, BalancedTable,
         BalancedChannels, BalancedWake, BalancedSpare, Kept

LEMMA StepIs ==
    ASSUME TypeInv, pc = "probing"
    PROVE  /\ at \in Nat /\ at \in 1 .. Len(Probe) /\ Step = Probe[at]
           /\ at = 3 <=> Step.gets = "class"
           /\ at = 6 <=> Step.gets = "node"
  <1>1. at \in 1 .. Len(Probe) /\ at \in Nat
    BY TypeFacts DEF TypeInv, Progress
  <1>2. ProbeBegins
    BY VersionFacts
  <1>3. at > 7 \/ at = 1 \/ at = 2 \/ at = 3 \/ at = 4 \/ at = 5 \/ at = 6 \/ at = 7
    BY <1>1
  <1> QED BY <1>1, <1>2, <1>3 DEF ProbeBegins, PrologueThings, Step

LEMMA ClassIsMadeNext ==
    ASSUME TypeInv, ClassIsMade, [LifeNext]_vars
    PROVE  ClassIsMade'
  <1> USE DEF binding, statics, outside
  <1>1. CASE ProbeStep
    <2>1. pc = "probing" /\ at \in Nat /\ (at = 3 <=> Step.gets = "class")
      BY <1>1, ProbeStepOutcome, StepIs
    <2>2. CASE at = 3
      <3>1. Step.leave
        BY <2>2, VersionFacts DEF BeginsOrEnds, Step
      <3>2. CASE GetStatic
        <4>1. class \in {"none", "made"}
          BY DEF TypeInv, LifecycleTypeOK
        <4>2. class' = "made"
          BY <2>1, <2>2, <3>2, <4>1 DEF GetStatic
        <4> QED BY <4>2 DEF ClassIsMade
      <3>3. CASE Fail
        BY <3>1, <3>3 DEF Fail, ClassIsMade
      <3> QED BY <1>1, <2>1, <2>2, <3>2, <3>3
              DEF ProbeStep, GetPlain, GetButtonIrq, GetNode, GetEntry, GetChannel, GetWake,
                  Unmask, SelfTest, Probing
    <2>3. CASE at # 3
      <3>1. class' = class \/ class' = "made"
        BY <1>1 DEF ProbeStep, GetStatic, GetPlain, GetButtonIrq, GetNode, GetEntry,
               GetChannel, GetWake, Unmask, SelfTest, Fail
      <3>2. pc' = "probing" => at' = at + 1
        BY <1>1, ProbeStepOutcome DEF Obtains, GoesOn, GivesUp, Advance
      <3> QED BY <2>1, <2>3, <3>1, <3>2 DEF ClassIsMade
    <2> QED BY <2>2, <2>3
  <1>2. CASE Bind
    BY <1>2 DEF Bind, Phase, TypeInv, Progress, ClassIsMade
  <1>3. CASE Unbind \/ GiveBack \/ FreeDevres \/ EndBinding
    BY <1>3 DEF Unbind, GiveBack, FreeDevres, EndBinding, Phase, ClassIsMade
  <1>4. CASE MeanwhileStep \/ UNCHANGED vars
    BY <1>4, MeanwhileFrame DEF vars, TypeInv, Counts, ClassIsMade
  <1> QED BY <1>1, <1>2, <1>3, <1>4, NextSteps

LEMMA DmaOnlyNext ==
    ASSUME TypeInv, DmaOnly, [LifeNext]_vars
    PROVE  DmaOnly'
  <1> USE DEF binding, statics, outside
  <1>1. CASE ProbeStep
    <2>1. at \in 1 .. Len(Probe) /\ (HasDma' <=> HasDma) /\ Step = Probe[at] /\ version' = version
      BY <1>1, ProbeStepOutcome, SameVersion, StepIs
    <2>2. Step.gets \in {"tx", "rx", "unmask_empty"} => HasDma
      BY <2>1, VersionFacts DEF ChannelsOnce
    <2>4. held' \subseteq held \cup {Step.gets}
      BY <1>1, ProbeStepOutcome DEF Obtains, GoesOn, GivesUp
    <2>5. Step.gets = "button_irq" => HasGpio
      BY <2>1, VersionFacts DEF ButtonOnce
    <2>6. ("button_irq" \in held => HasGpio)'
      BY <2>1, <2>4, <2>5 DEF DmaOnly, HasGpio
    <2>3. /\ taken' \subseteq taken \cup ({Step.gets} \cap {"tx", "rx"})
          /\ \/ mask' = mask
             \/ mask' = mask \cup {"RX", "TX"}
             \/ Step.gets = "unmask_empty"
      BY <1>1 DEF ProbeStep, GetStatic, GetPlain, GetButtonIrq, GetNode, GetEntry, GetChannel,
             GetWake, Unmask, SelfTest, Fail, Probing, irqs
    <2> QED BY <2>1, <2>2, <2>3, <2>6 DEF DmaOnly
  <1>2. CASE Bind \/ Unbind \/ GiveBack \/ FreeDevres \/ EndBinding
    <2>1. taken' \subseteq taken /\ held' \subseteq held /\ UNCHANGED <<version, mask>>
      BY <1>2 DEF Bind, Unbind, GiveBack, FreeDevres, EndBinding, irqs
    <2> QED BY <2>1, SameVersion DEF DmaOnly, HasGpio
  <1>3. CASE MeanwhileStep \/ UNCHANGED vars
    <2>1. UNCHANGED <<taken, held, version, mask>>
      BY <1>3, MeanwhileFrame DEF vars, TypeInv, Counts, irqs
    <2> QED BY <2>1, SameVersion DEF DmaOnly, HasGpio
  <1> QED BY <1>1, <1>2, <1>3, NextSteps

\* A step that ends the probe fails for a reason of its own.
LEMMA FailureIsSpent ==
    ASSUME TypeInv, TableInv, BalanceInv, Faultless, Fail, Step.leave
    PROVE  ~Faultless'
  <1>1. pc = "probing"
    BY DEF Fail, Phase
  <1>2. /\ at \in Nat /\ at \in 1 .. Len(Probe) /\ Step = Probe[at]
        /\ at = 6 <=> Step.gets = "node"
    BY <1>1, StepIs
  <1>3. ASSUME Step.gets = "node"
        PROVE  minor \notin nodes /\ class = "made"
    <2>1. at = 6
      BY <1>2, <1>3
    <2>2. minor \notin nodes
      BY <1>1, <1>3, TableInvImplies DEF NodesMatchTable, Probing, Phase, Fail
    <2>3. class = "made"
      BY <1>1, <2>1 DEF BalanceInv, ClassIsMade
    <2> QED BY <2>2, <2>3
  <1>4. ASSUME Step.gets \in {"tx", "rx"}
        PROVE  Step.gets \notin taken
    <2> SUFFICES ASSUME Step.gets \in taken PROVE FALSE
      OBVIOUS
    <2>1. PICK i \in 1 .. at - 1 : Probe[i].gets = Step.gets
      BY <1>1 DEF BalanceInv, Balanced, BalancedChannels, Earlier
    <2>2. i \in 1 .. Len(Probe) /\ i # at
      BY <1>2, <2>1, Lengths
    <2> QED BY <1>2, <1>4, <2>1, <2>2, VersionFacts DEF ChannelsOnce
  <1>5. Step.gets # "button_irq"
    BY <1>2, VersionFacts DEF BeginsOrEnds
  <1>6. Spend("faults")
    BY <1>3, <1>4, <1>5 DEF Fail, MustFail
  <1>7. left'.faults = left.faults - 1 /\ left.faults \in Nat
    BY <1>6, SpendFacts, TypeFacts DEF TypeInv, Counts, Spendable
  <1> QED BY <1>7 DEF Faultless

LEMMA FaultlessProbe ==
    ASSUME TypeInv, TableInv, BalanceInv, ProbeStep, Faultless'
    PROVE  Faultless /\ (Obtains \/ GoesOn)
  <1>1. left' = left \/ Spend("faults")
    BY ProbeStepOutcome
  <1>2. left.faults \in Nat /\ Budget.faults \in Nat /\ left.faults <= Budget.faults
    BY TypeFacts DEF TypeInv, Counts
  <1>3. Faultless
    <2>1. CASE Spend("faults")
      <3>1. left'.faults = left.faults - 1
        BY <2>1, SpendFacts DEF TypeInv, Counts, Spendable
      <3> QED BY <1>2, <3>1 DEF Faultless
    <2> QED BY <1>1, <2>1 DEF Faultless
  <1>4. ASSUME GivesUp
        PROVE  FALSE
    <2>1. ~Advance
      BY <1>4 DEF GivesUp, Advance
    <2>2. Fail
      BY <2>1 DEF ProbeStep, GetStatic, GetPlain, GetButtonIrq, GetNode, GetEntry, GetChannel,
             GetWake, Unmask, SelfTest, Gain
    <2> QED BY <1>3, <1>4, <2>2, FailureIsSpent DEF GivesUp
  <1> QED BY <1>3, <1>4, ProbeStepOutcome

LEMMA SpareProbe ==
    ASSUME TypeInv, BalanceInv, ProbeStep, Faultless, Obtains \/ GoesOn
    PROVE  BalancedSpare'
  <1>1. /\ AllIsWell /\ pc = "probing" /\ version' = version /\ cmdev' = cmdev
        /\ at \in Nat /\ at \in 1 .. Len(Probe) /\ Step = Probe[at] /\ at' = at + 1
        /\ pc' = IF at = Len(Probe) THEN "bound" ELSE "probing"
    BY ProbeStepOutcome, StepIs DEF Obtains, GoesOn, Advance
  <1>2. /\ Step.gets = "self_test" <=> version = "memcpy" /\ at = 21
        /\ version = "memcpy" => Len(Probe) > 21 /\ ~Probe[21].fails
    BY <1>1, VersionFacts DEF TestsOnce
  <1>3. spare = Spare - Kept
    BY <1>1 DEF BalanceInv, Balanced, BalancedSpare
  <1>4. spare \in Nat /\ Spare \in Nat /\ cmdev \in Nat
    BY TypeFacts DEF TypeInv, LifecycleTypeOK
  <1>5. CASE Step.gets = "self_test"
    <2>1. SelfTest
      BY <1>1, <1>2, <1>5 DEF ProbeStep, GetStatic, GetPlain, GetButtonIrq, GetNode, GetEntry,
             GetChannel, GetWake, Unmask, Fail, MayFail, Probing
    <2>2. \/ spare > 0 /\ spare' = spare - 1
          \/ trouble' # "none"
      BY <2>1 DEF SelfTest
    <2>3. pc' = "probing" /\ at' = 22
      <3>1. at = 21 /\ Len(Probe) > 21 /\ Len(Probe) \in Nat
        BY <1>2, <1>5, Lengths
      <3>3. \A m \in Nat : m > 21 => 21 # m
        OBVIOUS
      <3>2. at # Len(Probe)
        BY <3>1, <3>3, Zenon
      <3> QED BY <1>1, <3>1, <3>2
    <2>4. Kept' = cmdev /\ Kept = cmdev - 1
      BY <1>1, <1>2, <1>5, <2>3 DEF Kept
    <2> QED BY <1>3, <1>4, <2>2, <2>3, <2>4 DEF BalancedSpare, AllIsWell
  <1>6. CASE Step.gets # "self_test"
    <2>1. spare' = spare
      BY <1>6 DEF ProbeStep, GetStatic, GetPlain, GetButtonIrq, GetNode, GetEntry,
             GetChannel, GetWake, Unmask, Fail, SelfTest, Probing, outside
    <2>2. version = "memcpy" => (at <= 21 <=> at' <= 21) /\ (at <= 21 => pc' = "probing")
      BY <1>1, <1>2, <1>6
    <2>3. Kept' = Kept
      BY <1>1, <2>2 DEF Kept
    <2> QED BY <1>3, <2>1, <2>3 DEF BalancedSpare
  <1> QED BY <1>5, <1>6

LEMMA BalancedProbe ==
    ASSUME TypeInv, TableInv, BalanceInv, ProbeStep
    PROVE  Balanced'
  <1> SUFFICES ASSUME Faultless'
               PROVE  BalancedTable' /\ BalancedChannels' /\ BalancedWake' /\ BalancedSpare'
    BY DEF Balanced
  <1>1. Faultless /\ pc = "probing" /\ pc' \in {"probing", "bound"} /\ at' = at + 1
    BY FaultlessProbe, ProbeStepOutcome DEF Obtains, GoesOn, Advance
  <1>2. BalancedTable /\ BalancedChannels
    BY <1>1 DEF BalanceInv, Balanced
  <1>3. at \in Nat /\ minor \in Nat /\ UNCHANGED cmdev
    BY TypeFacts, ProbeStepProgress
  <1>4. BalancedTable'
    <2>1. CASE MakesNode \/ LeavesTable
      BY <1>1, <1>2, <1>3, <2>1 DEF MakesNode, LeavesTable, BalancedTable, OwnEntry
    <2>2. CASE MakesEntry
      <3>1. table = {} /\ table' = table \cup {<<minor, cmdev>>} /\ minor' = minor + 1 /\ at' = 8
        BY <1>1, <1>2, <2>2 DEF MakesEntry, BalancedTable
      <3>2. minor' - 1 = minor
        BY <1>3, <3>1
      <3>3. table' \subseteq OwnEntry'
        BY <1>3, <3>1, <3>2 DEF OwnEntry
      <3> QED BY <1>1, <3>1, <3>3 DEF BalancedTable
    <2> QED BY <2>1, <2>2, NodeAndEntry
  <1>5. BalancedChannels'
    <2>1. Probe' = Probe /\ Step = Probe[at]
      BY <1>1, ProbeStepOutcome, SameVersion, StepIs
    <2>2. taken' \subseteq taken \cup {Step.gets}
      BY DEF ProbeStep, GetStatic, GetPlain, GetButtonIrq, GetNode, GetEntry, GetChannel,
             GetWake, Unmask, SelfTest, Fail, outside
    <2>3. 1 .. at' - 1 = (1 .. at - 1) \cup {at}
      <3>1. at > 0
        BY <1>1, StepIs
      <3> QED BY <1>1, <1>3, <3>1
    <2>4. Earlier' = Earlier \cup {Step.gets}
      BY <2>1, <2>3 DEF Earlier
    <2> QED BY <1>1, <1>2, <2>2, <2>4 DEF BalancedChannels
  <1>6. BalancedWake'
    BY <1>1 DEF BalancedWake
  <1>7. BalancedSpare'
    BY FaultlessProbe, SpareProbe
  <1> QED BY <1>4, <1>5, <1>6, <1>7

LEMMA BalancedGiveBack ==
    ASSUME TypeInv, BalanceInv, GiveBack
    PROVE  Balanced'
  <1>1. /\ pc = "removing" /\ at \in 1 .. Len(Removal) /\ at' = at + 1
        /\ pc' = IF at = Len(Removal) THEN "freeing" ELSE "removing"
        /\ UNCHANGED <<version, minor, cmdev, spare, left>>
        /\ wake' = wake \ {Removal[at]} /\ taken' = taken \ {Removal[at]}
        /\ table' = IF Removal[at] = "entry" THEN table \ OwnEntry ELSE table
    BY DEF GiveBack, Phase, TypeInv, Progress, OwnEntry
  <1> SUFFICES ASSUME Faultless
               PROVE  BalancedTable' /\ BalancedChannels' /\ BalancedWake' /\ BalancedSpare'
    BY <1>1 DEF Balanced, Faultless
  <1>2. BalancedTable /\ BalancedChannels /\ BalancedWake
    BY DEF BalanceInv, Balanced
  <1>3. /\ taken \subseteq {"tx", "rx"} /\ wake \subseteq {"wakeup", "wake_irq"}
        /\ taken # {} => HasDma
    BY DEF TypeInv, LifecycleTypeOK, BalanceInv, DmaOnly
  <1>4. at \in Nat
    BY TypeFacts
  <1>5. pc' = "freeing" => at > 4 /\ (HasDma => at > 6)
    BY <1>1, <1>4, VersionFacts DEF RemovalFacts
  <1>6. BalancedTable'
    <2>1. CASE at = 2
      <3>1. Removal[at] = "entry"
        BY <2>1, VersionFacts DEF RemovalFacts
      <3>2. table' = {}
        BY <1>1, <1>2, <3>1 DEF BalancedTable
      <3> QED BY <1>1, <3>2 DEF BalancedTable
    <2>2. CASE at = 1
      BY <1>1, <1>2, <1>5, <2>2 DEF BalancedTable, OwnEntry
    <2>3. CASE at > 2
      BY <1>1, <1>2, <1>4, <2>3 DEF BalancedTable
    <2> QED BY <1>1, <1>4, <2>1, <2>2, <2>3
  <1>7. BalancedChannels'
    <2>1. at' > 5 => at > 5 \/ at = 5
      BY <1>1, <1>4
    <2>2. at' > 6 => at > 6 \/ at = 6
      BY <1>1, <1>4
    <2>3. at = 5 /\ HasDma => Removal[at] = "rx"
      BY VersionFacts DEF RemovalFacts
    <2>4. at = 6 /\ HasDma => Removal[at] = "tx"
      BY VersionFacts DEF RemovalFacts
    <2>5. at > 6 => at > 5
      BY <1>4
    <2> QED BY <1>1, <1>2, <1>3, <1>5, <2>1, <2>2, <2>3, <2>4, <2>5 DEF BalancedChannels
  <1>8. BalancedWake'
    <2>1. at' > 3 => at > 3 \/ at = 3
      BY <1>1, <1>4
    <2>2. at' > 4 => at > 4 \/ at = 4
      BY <1>1, <1>4
    <2>3. at = 3 => Removal[at] = "wakeup"
      BY VersionFacts DEF RemovalFacts
    <2>4. at = 4 => Removal[at] = "wake_irq"
      BY VersionFacts DEF RemovalFacts
    <2>5. at > 4 => at > 3
      BY <1>4
    <2> QED BY <1>1, <1>2, <1>3, <1>5, <2>1, <2>2, <2>3, <2>4, <2>5 DEF BalancedWake
  <1>9. BalancedSpare'
    BY <1>1 DEF BalanceInv, Balanced, BalancedSpare, Kept
  <1> QED BY <1>6, <1>7, <1>8, <1>9

LEMMA BalanceInvNext ==
    ASSUME TypeInv, TableInv, BalanceInv, [LifeNext]_vars
    PROVE  BalanceInv'
  <1> USE DEF binding, statics, outside
  <1>1. CASE Bind
    <2>1. /\ pc = "unbound" /\ pc' = "probing" /\ UNCHANGED <<at, minor, table, taken, wake>>
          /\ UNCHANGED <<version, spare>> /\ cmdev' = cmdev + 1
          /\ Spend("probes")
      BY <1>1 DEF Bind, Phase
    <2>2. left'.faults = left.faults
      BY <2>1, SpendFacts DEF TypeInv, Counts, Spendable
    <2>4. at = 1 /\ cmdev \in Nat
      BY <2>1, TypeFacts DEF TypeInv, Progress
    <2>5. Faultless => BalancedSpare'
      <3>1. Kept' = Kept
        BY <2>1, <2>4 DEF Kept
      <3> QED BY <2>1, <3>1 DEF BalanceInv, Balanced, BalancedSpare
    <2>3. Balanced'
      BY <2>1, <2>2, <2>5 DEF BalanceInv, Balanced, Faultless, BalancedTable, BalancedChannels, BalancedWake
    <2> QED BY <2>3, ClassIsMadeNext, DmaOnlyNext DEF BalanceInv
  <1>2. CASE Unbind
    <2>1. /\ pc = "bound" /\ pc' = "removing" /\ at' = 1
          /\ UNCHANGED <<version, minor, cmdev, table, taken, spare, wake, left>>
      BY <1>2 DEF Unbind, Phase
    <2>2. Balanced'
      BY <2>1 DEF BalanceInv, Balanced, Faultless, BalancedTable, BalancedChannels, BalancedWake,
             BalancedSpare, Kept, OwnEntry
    <2> QED BY <2>2, ClassIsMadeNext, DmaOnlyNext DEF BalanceInv
  <1>3. CASE FreeDevres \/ EndBinding
    <2>1. /\ pc = "freeing" /\ pc' \in {"freeing", "unbound"}
          /\ UNCHANGED <<version, cmdev, table, taken, spare, wake, left>>
      BY <1>3 DEF FreeDevres, EndBinding, Phase
    <2>2. Balanced'
      BY <2>1 DEF BalanceInv, Balanced, Faultless, BalancedTable, BalancedChannels, BalancedWake,
             BalancedSpare, Kept
    <2> QED BY <2>2, ClassIsMadeNext, DmaOnlyNext DEF BalanceInv
  <1>4. CASE MeanwhileStep \/ UNCHANGED vars
    <2>1. UNCHANGED <<version, pc, at, minor, cmdev, table, taken, spare, wake>> /\ left'.faults = left.faults
      BY <1>4, MeanwhileFrame DEF vars, TypeInv, Counts
    <2>4. AllIsWell' => AllIsWell
      BY <1>4 DEF MeanwhileStep, Mail, Interrupt, Press, StartWork, EndWork, OpenNode, CloseNode,
             BeginCall, EndCall, vars, AllIsWell
    <2>2. Probe' = Probe
      BY <2>1, SameVersion
    <2>3. Balanced'
      BY <2>1, <2>2, <2>4 DEF BalanceInv, Balanced, Faultless, BalancedTable, BalancedChannels,
             BalancedWake, BalancedSpare, Kept, OwnEntry, Earlier
    <2> QED BY <2>3, ClassIsMadeNext, DmaOnlyNext DEF BalanceInv
  <1>5. CASE ProbeStep \/ GiveBack
    BY <1>5, BalancedProbe, BalancedGiveBack, ClassIsMadeNext, DmaOnlyNext DEF BalanceInv
  <1> QED BY <1>1, <1>2, <1>3, <1>4, <1>5, NextSteps
-----------------------------------------------------------------------------
(* What goes wrong, and where it cannot. *)

Needed == {"lock", "base", "tx", "rx", "tx.buf", "rx.buf", "leds", "tx_wq"}

LEMMA LeastIndex ==
    ASSUME NEW L, L \subseteq 1 .. 5, L # {}
    PROVE  \E i \in L : \A j \in L : i <= j
  <1>1. \A i \in L : i = 1 \/ i = 2 \/ i = 3 \/ i = 4 \/ i = 5
    OBVIOUS
  <1>2. CASE 1 \in L
    BY <1>1, <1>2
  <1>3. CASE 1 \notin L /\ 2 \in L
    BY <1>1, <1>3
  <1>4. CASE 1 \notin L /\ 2 \notin L /\ 3 \in L
    BY <1>1, <1>4
  <1>6. CASE 1 \notin L /\ 2 \notin L /\ 3 \notin L /\ 4 \in L
    BY <1>1, <1>6
  <1>5. CASE 1 \notin L /\ 2 \notin L /\ 3 \notin L /\ 4 \notin L
    <2>1. PICK k \in L : TRUE
      OBVIOUS
    <2>2. \A i \in L : i = 5
      BY <1>1, <1>5
    <2>3. \A i \in L : k <= i
      BY <2>1, <2>2
    <2> QED BY <2>1, <2>3
  <1> QED BY <1>2, <1>3, <1>4, <1>5, <1>6

Lacks == {"no lock", "no base", "no channel", "no buffer", "no leds", "no queue"}

LEMMA MissingThing ==
    ASSUME NEW thing \in Needed
    PROVE  /\ Missing(thing) \in Lacks
           /\ Missing(thing) = "no queue" <=> thing = "tx_wq"
  BY DEF Missing, Needed, Lacks

\* The first thing that is missing is the one that is told.
LEMMA MeetsTrouble ==
    ASSUME NEW d, NEW needs, Len(needs) \in 1 .. 5, NEW n \in 1 .. Len(needs),
           \A i \in 1 .. Len(needs) : needs[i] \in Needed
    PROVE  /\ Meets(d, needs, n) \in Lacks \cup {"none", "freed"}
           /\ Meets(d, needs, n) \in {"none", "freed", "no lock", "no base", "no channel",
                                      "no buffer", "no leds", "no queue"}
           /\ Meets(d, needs, n) = "no queue" =>
                \E i \in 1 .. Len(needs) :
                    /\ needs[i] = "tx_wq" /\ "tx_wq" \notin held
                    /\ \A j \in 1 .. Len(needs) : j < i => needs[j] \in held
  <1> DEFINE lacking == {i \in 1 .. n : needs[i] \notin held}
             first == CHOOSE i \in lacking : \A j \in lacking : i <= j
  <1>0. n \in 1 .. 5 /\ 1 .. n \subseteq 1 .. Len(needs) /\ 1 .. n \subseteq 1 .. 5
    OBVIOUS
  <1>1. CASE ~Alive(d) \/ lacking = {}
    BY <1>1 DEF Meets
  <1>2. CASE Alive(d) /\ lacking # {}
    <2>1. \E i \in lacking : \A j \in lacking : i <= j
      <3> HIDE DEF lacking
      <3>1. lacking \subseteq 1 .. 5
        BY <1>0 DEF lacking
      <3> QED BY <1>2, <3>1, LeastIndex
    <2>2. first \in lacking /\ \A j \in lacking : first <= j
      BY <2>1
    <2>3. Meets(d, needs, n) = Missing(needs[first])
      BY <1>2 DEF Meets
    <2>4. first \in 1 .. n /\ first \in 1 .. Len(needs) /\ needs[first] \in Needed /\ needs[first] \notin held
      BY <1>0, <2>2
    <2>5. \A j \in 1 .. Len(needs) : j < first => needs[j] \in held
      <3> SUFFICES ASSUME NEW j \in 1 .. Len(needs), j < first PROVE needs[j] \in held
        OBVIOUS
      <3>1. first \in Int /\ first <= n /\ j \in Int /\ n \in Int /\ 1 <= j
        <4> HIDE DEF first
        <4> QED BY <1>0, <2>4
      <3>2. j \in 1 .. n
        <4> HIDE DEF first
        <4> QED BY <3>1
      <3>3. j \notin lacking
        <4> HIDE DEF first
        <4>1. ~(first <= j)
          BY <3>1
        <4> QED BY <2>2, <4>1
      <3> QED BY <3>2, <3>3
    <2> HIDE DEF first
    <2>6. PICK f \in 1 .. Len(needs) :
            /\ Meets(d, needs, n) = Missing(needs[f]) /\ needs[f] \in Needed /\ needs[f] \notin held
            /\ \A j \in 1 .. Len(needs) : j < f => needs[j] \in held
      BY <2>3, <2>4, <2>5, Zenon
    <2>7. Meets(d, needs, n) \in Lacks
      BY <2>6, MissingThing
    <2>8. Meets(d, needs, n) = "no queue" => needs[f] = "tx_wq"
      BY <2>6, MissingThing, Zenon
    <2> QED BY <2>6, <2>7, <2>8 DEF Lacks
  <1> QED BY <1>1, <1>2

LEMMA MeetsNothing ==
    ASSUME NEW d, NEW needs, Len(needs) \in 1 .. 5, NEW n \in 1 .. Len(needs),
           Alive(d), \A i \in 1 .. Len(needs) : needs[i] \in held
    PROVE  Meets(d, needs, n) = "none"
  <1>1. \A i \in 1 .. n : i \in 1 .. Len(needs)
    OBVIOUS
  <1>2. {i \in 1 .. n : needs[i] \notin held} = {}
    BY <1>1
  <1> QED BY <1>2 DEF Meets

LEMMA ButtonNeedsAre ==
    /\ Len(ButtonNeeds) \in 1 .. 5
    /\ \A i \in 1 .. Len(ButtonNeeds) : ButtonNeeds[i] \in {"lock", "leds"}
  BY DEF ButtonNeeds

LEMMA WorkNeedsAre ==
    ASSUME NEW work \in {"rx_work", "rx_dma_work"}, version \in AllVersions
    PROVE  /\ Len(WorkNeeds(work)) \in 1 .. 5
           /\ \A i \in 1 .. Len(WorkNeeds(work)) :
                \/ WorkNeeds(work)[i] \in {"lock", "base"}
                \/ HasDma /\ WorkNeeds(work)[i] \in {"rx", "rx.buf"}
                \/ HasGpio /\ WorkNeeds(work)[i] = "leds"
                \/ IsLog /\ WorkNeeds(work)[i] \in {"rx", "rx.buf"}
  <1> DEFINE needs == WorkNeeds(work)
  <1>0. HasGpio => HasDma
    BY DEF HasDma, HasGpio
  <1>1. CASE version = "week02"
    <2>1. needs = <<"lock", "base">>
      BY <1>1 DEF WorkNeeds
    <2>2. Len(needs) = 2 /\ \A i \in 1 .. Len(needs) : needs[i] \in {"lock", "base"}
      BY <2>1
    <2> QED BY <2>2
  <1>2. CASE version # "week02" /\ work = "rx_work" /\ HasGpio
    <2>1. needs = <<"lock", "rx.buf", "rx">> \o <<"leds">>
      BY <1>2 DEF WorkNeeds, Leds
    <2>2. Len(needs) = 4 /\ \A i \in 1 .. Len(needs) : needs[i] \in {"lock", "rx.buf", "rx", "leds"}
      BY <2>1
    <2> HIDE DEF needs
    <2>3. Len(needs) \in 1 .. 5
      BY <2>2
    <2> QED BY <1>0, <1>2, <2>2, <2>3 DEF needs
  <1>3. CASE version # "week02" /\ work = "rx_work" /\ ~HasGpio
    <2>1. needs = <<"lock", "rx.buf", "rx">> \o <<>>
      BY <1>3 DEF WorkNeeds, Leds
    <2>a. needs = <<"lock", "rx.buf", "rx">>
      BY <2>1, ConcatEmptySeq
    <2>2. Len(needs) = 3 /\ \A i \in 1 .. Len(needs) : needs[i] \in {"lock", "rx.buf", "rx"}
      BY <2>a
    <2>3. HasDma \/ IsLog
      BY <1>3 DEF HasDma, IsLog
    <2> HIDE DEF needs
    <2>4. Len(needs) \in 1 .. 5
      BY <2>2
    <2> QED BY <2>2, <2>3, <2>4 DEF needs
  <1>4. CASE version # "week02" /\ work = "rx_dma_work" /\ HasGpio
    <2>1. needs = <<"rx">> \o <<"leds">>
      BY <1>4 DEF WorkNeeds, Leds
    <2>2. Len(needs) = 2 /\ \A i \in 1 .. Len(needs) : needs[i] \in {"rx", "leds"}
      BY <2>1
    <2> HIDE DEF needs
    <2>3. Len(needs) \in 1 .. 5
      BY <2>2
    <2> QED BY <1>0, <1>4, <2>2, <2>3 DEF needs
  <1>5. CASE version # "week02" /\ work = "rx_dma_work" /\ ~HasGpio
    <2>1. needs = <<"rx">> \o <<>>
      BY <1>5 DEF WorkNeeds, Leds
    <2>a. needs = <<"rx">>
      BY <2>1, ConcatEmptySeq
    <2>2. Len(needs) = 1 /\ \A i \in 1 .. Len(needs) : needs[i] = "rx"
      BY <2>a
    <2>3. HasDma \/ IsLog
      BY <1>5 DEF HasDma, IsLog
    <2> HIDE DEF needs
    <2>4. Len(needs) \in 1 .. 5
      BY <2>2
    <2> QED BY <2>2, <2>3, <2>4 DEF needs
  <1> QED BY <1>1, <1>2, <1>3, <1>4, <1>5

\* Only a write() that may have to wait needs the queue, after the rest.
LEMMA CallNeedsAre ==
    ASSUME NEW op, version \in AllVersions
    PROVE  LET needs == CallNeeds(op) IN
             /\ Len(needs) \in 1 .. 5
             /\ \A i \in 1 .. Len(needs) :
                  \/ needs[i] \in {"lock", "base"}
                  \/ needs[i] = "tx_wq" /\ version # "log"
                  \/ HasGpio /\ needs[i] = "leds"
                  \/ HasDma /\ needs[i] \in {"tx", "tx.buf", "rx.buf"}
             /\ version \notin {"week02", "log"} =>
                  \A i \in 1 .. Len(needs) : needs[i] = "tx_wq" =>
                    /\ \E j \in 1 .. Len(needs) : j < i /\ needs[j] = "tx"
                    /\ HasGpio => \E j \in 1 .. Len(needs) : j < i /\ needs[j] = "leds"
  <1> DEFINE needs == CallNeeds(op)
  <1>0. HasGpio => HasDma
    BY DEF HasDma, HasGpio
  <1>1. CASE op \notin {"read", "write"} \/ (op = "write" /\ version = "log")
    <2>1. needs = <<"lock", "base">>
      BY <1>1 DEF CallNeeds
    <2>2. Len(needs) = 2 /\ \A i \in 1 .. Len(needs) : needs[i] \in {"lock", "base"}
      BY <2>1
    <2> HIDE DEF needs
    <2>3. Len(needs) \in 1 .. 5
      BY <2>2
    <2> QED BY <2>2, <2>3 DEF needs
  <1>2. CASE op = "read" /\ HasDma
    <2>1. needs = <<"lock", "rx.buf">>
      BY <1>2 DEF CallNeeds
    <2>2. Len(needs) = 2 /\ \A i \in 1 .. Len(needs) : needs[i] \in {"lock", "rx.buf"}
      BY <2>1
    <2> HIDE DEF needs
    <2>3. Len(needs) \in 1 .. 5
      BY <2>2
    <2> QED BY <1>2, <2>2, <2>3 DEF needs
  <1>3. CASE op = "read" /\ ~HasDma
    <2>1. needs = <<"lock">>
      BY <1>3 DEF CallNeeds
    <2>2. Len(needs) = 1 /\ \A i \in 1 .. Len(needs) : needs[i] = "lock"
      BY <2>1
    <2> HIDE DEF needs
    <2>3. Len(needs) \in 1 .. 5
      BY <2>2
    <2> QED BY <2>2, <2>3 DEF needs
  <1>4. CASE op = "write" /\ version = "week02"
    <2>1. needs = <<"lock", "base", "tx_wq">>
      BY <1>4 DEF CallNeeds
    <2>2. Len(needs) = 3 /\ \A i \in 1 .. Len(needs) : needs[i] \in {"lock", "base", "tx_wq"}
      BY <2>1
    <2> HIDE DEF needs
    <2>3. Len(needs) \in 1 .. 5
      BY <2>2
    <2> QED BY <1>4, <2>2, <2>3 DEF needs
  <1>5. CASE op = "write" /\ version = "memcpy"
    <2>1. needs = <<"lock", "tx.buf", "tx", "leds", "tx_wq">>
      BY <1>5 DEF CallNeeds
    <2>2. HasDma /\ HasGpio
      BY <1>5 DEF HasDma, HasGpio
    <2>3. Len(needs) = 5 /\ \A i \in 1 .. Len(needs) : needs[i] \in {"lock", "tx.buf", "tx", "leds", "tx_wq"}
      BY <2>1
    <2>4. needs[3] = "tx" /\ needs[4] = "leds" /\ \A i \in 1 .. Len(needs) : needs[i] = "tx_wq" => i = 5
      BY <2>1
    <2> HIDE DEF needs
    <2>5. Len(needs) \in 1 .. 5
      BY <2>3
    <2>6. \A i \in 1 .. Len(needs) : needs[i] = "tx_wq" =>
             /\ \E j \in 1 .. Len(needs) : j < i /\ needs[j] = "tx"
             /\ \E j \in 1 .. Len(needs) : j < i /\ needs[j] = "leds"
      BY <2>3, <2>4
    <2> QED BY <1>5, <2>2, <2>3, <2>5, <2>6 DEF needs
  <1>6. CASE op = "write" /\ version = "week04"
    <2>1. needs = <<"tx.buf", "tx">> \o <<"leds">> \o <<"tx_wq">>
      BY <1>6 DEF CallNeeds, Leds, HasGpio
    <2>2. HasDma /\ HasGpio
      BY <1>6 DEF HasDma, HasGpio
    <2>3. Len(needs) = 4 /\ \A i \in 1 .. Len(needs) : needs[i] \in {"tx.buf", "tx", "leds", "tx_wq"}
      BY <2>1
    <2>4. needs[2] = "tx" /\ needs[3] = "leds" /\ \A i \in 1 .. Len(needs) : needs[i] = "tx_wq" => i = 4
      BY <2>1
    <2> HIDE DEF needs
    <2>5. Len(needs) \in 1 .. 5
      BY <2>3
    <2>6. \A i \in 1 .. Len(needs) : needs[i] = "tx_wq" =>
             /\ \E j \in 1 .. Len(needs) : j < i /\ needs[j] = "tx"
             /\ \E j \in 1 .. Len(needs) : j < i /\ needs[j] = "leds"
      BY <2>3, <2>4
    <2> QED BY <1>6, <2>2, <2>3, <2>5, <2>6 DEF needs
  <1>7. CASE op = "write" /\ version \in {"week03", "logdma"}
    <2>1. needs = <<"tx.buf", "tx">> \o <<>> \o <<"tx_wq">>
      BY <1>7 DEF CallNeeds, Leds, HasGpio
    <2>a. needs = <<"tx.buf", "tx">> \o <<"tx_wq">>
      BY <2>1, ConcatEmptySeq
    <2>2. HasDma /\ ~HasGpio
      BY <1>7 DEF HasDma, HasGpio
    <2>3. Len(needs) = 3 /\ \A i \in 1 .. Len(needs) : needs[i] \in {"tx.buf", "tx", "tx_wq"}
      BY <2>a
    <2>4. needs[2] = "tx" /\ \A i \in 1 .. Len(needs) : needs[i] = "tx_wq" => i = 3
      BY <2>a
    <2> HIDE DEF needs
    <2>5. Len(needs) \in 1 .. 5
      BY <2>3
    <2>6. \A i \in 1 .. Len(needs) : needs[i] = "tx_wq" =>
             \E j \in 1 .. Len(needs) : j < i /\ needs[j] = "tx"
      BY <2>3, <2>4
    <2> QED BY <1>7, <2>2, <2>3, <2>5, <2>6 DEF needs
  <1> QED BY <1>1, <1>2, <1>3, <1>4, <1>5, <1>6, <1>7 DEF AllVersions

\* Nobody schedules work of a log driver.
LogIsIdle == IsLog => pending \cup active = {}

RepairInv == RepairsHold /\ LogIsIdle

LEMMA LogIsIdleNext ==
    ASSUME LogIsIdle, [LifeNext]_vars, TypeInv
    PROVE  LogIsIdle'
  <1>1. CASE ProbeStep \/ GiveBack \/ Bind \/ Unbind \/ FreeDevres \/ EndBinding \/ UNCHANGED vars
    <2>1. UNCHANGED <<version, pending, active>>
      BY <1>1, ProbeStepOutcome DEF GiveBack, Bind, Unbind, FreeDevres, EndBinding, vars, works
    <2> QED BY <2>1, SameVersion DEF LogIsIdle
  <1>2. CASE MeanwhileStep
    <2>1. IsLog' <=> IsLog
      BY <1>2, MeanwhileFrame, SameVersion DEF TypeInv, Counts
    <2>2. CASE Interrupt
      BY <2>1, <2>2 DEF Interrupt, LogIsIdle
    <2>3. ASSUME NEW w \in pending \cup active, StartWork(w) \/ EndWork(w)
          PROVE  LogIsIdle'
      BY <2>1, <2>3 DEF LogIsIdle
    <2>4. CASE UNCHANGED works
      BY <2>1, <2>4 DEF works, LogIsIdle
    <2> QED BY <1>2, <2>2, <2>3, <2>4
            DEF MeanwhileStep, Mail, Press, OpenNode, CloseNode, BeginCall, EndCall
  <1> QED BY <1>1, <1>2, NextSteps

LEMMA RepairInvInit ==
    ASSUME LifeInit
    PROVE  RepairInv
  BY DEF LifeInit, RepairInv, RepairsHold, LogIsIdle

\* The error path of a version that has been repaired, or needs no repair,
\* releases what was obtained.
LEMMA ProbeStepTrouble ==
    ASSUME TypeInv, HeldInv, ProbeStep
    PROVE  RepairsHold'
  <1>1. /\ AllIsWell /\ pc = "probing" /\ version' = version
        /\ at \in Nat /\ at \in 1 .. Len(Probe) /\ Step = Probe[at]
    BY ProbeStepOutcome, StepIs
  <1>2. version \in AllVersions
    BY VersionFacts
  <1>3. version \in {"week02", "memcpy", "log"} => Step.undo \subseteq held
    <2> SUFFICES ASSUME version \in {"week02", "memcpy", "log"}, NEW thing \in Step.undo
                 PROVE  thing \in held
      OBVIOUS
    <2>1. After(thing, at) /\ thing \in {"tx", "rx"}
      BY <1>1, VersionFacts DEF ReleasesItsOwn, UndoesChannels
    <2> QED BY <1>1, <2>1, AfterIsHeld DEF HeldInv
  <1>4. CASE Fail
    <2>1. trouble' = "none" \/ (trouble' = "released an error" /\ ~(Step.undo \subseteq held))
      BY <1>1, <1>4 DEF Fail, AllIsWell
    <2> QED BY <1>1, <1>2, <1>3, <2>1 DEF RepairsHold, AllVersions
  <1>5. CASE ~Fail
    <2>1. trouble' \in {"none", "no channel", "no buffer", "no descriptor"}
      BY <1>1, <1>5 DEF ProbeStep, GetStatic, GetPlain, GetButtonIrq, GetNode, GetEntry,
             GetChannel, GetWake, Unmask, SelfTest, AllIsWell
    <2> QED BY <2>1 DEF RepairsHold
  <1> QED BY <1>4, <1>5

LEMMA MeanwhileTrouble ==
    ASSUME TypeInv, HeldInv, RepairInv, MeanwhileStep
    PROVE  RepairsHold'
  <1>1. version' = version /\ version \in AllVersions
    BY MeanwhileFrame, VersionFacts DEF TypeInv, Counts
  <1>2. (IsLog' <=> IsLog) /\ QueueWaits
    BY <1>1, SameVersion DEF HeldInv
  <1> DEFINE Harmless == {"none", "freed", "no lock", "no base", "no channel", "no buffer", "no leds"}
  <1>3. ASSUME trouble' \in Harmless
        PROVE  RepairsHold'
    BY <1>3 DEF RepairsHold
  <1>4. CASE Mail \/ CloseNode \/ \E m \in nodes : OpenNode(m)
    <2>1. trouble' = "none"
      BY <1>4 DEF Mail, CloseNode, OpenNode, AllIsWell
    <2> QED BY <1>3, <2>1
  <1>5. CASE Interrupt
    <2>1. \/ trouble' = "none"
          \/ trouble' = "no work" /\ ~IsLog
          \/ version = "week02" /\ trouble' = Meets(cmdev, <<"tx_wq">>, 1)
      BY <1>5 DEF Interrupt, Schedule, AllIsWell
    <2>2. Meets(cmdev, <<"tx_wq">>, 1) \in Harmless \cup {"no queue"}
      <3> DEFINE needs == <<"tx_wq">>
      <3>1. Len(needs) = 1 /\ \A i \in 1 .. Len(needs) : needs[i] \in Needed
        BY DEF Needed
      <3> HIDE DEF needs
      <3>3. 1 \in 1 .. Len(needs) /\ Len(needs) \in 1 .. 5
        BY <3>1
      <3>2. Meets(cmdev, needs, 1) \in Harmless \cup {"no queue"}
        BY <3>1, <3>3, MeetsTrouble
      <3> QED BY <3>2 DEF needs
    <2> QED BY <1>1, <1>2, <2>1, <2>2 DEF RepairsHold
  <1>6. CASE Press
    <2>1. PICK n \in 1 .. Len(ButtonNeeds) : trouble' = Meets(cmdev, ButtonNeeds, n)
      BY <1>6 DEF Press, Touches
    <2>2. trouble' \in Harmless \cup {"no queue"} /\ trouble' # "no queue"
      BY <2>1, MeetsTrouble, ButtonNeedsAre DEF Needed
    <2> QED BY <1>3, <2>2
  <1>7. ASSUME NEW w \in pending \cup active, StartWork(w) \/ EndWork(w)
        PROVE  RepairsHold'
    <2>1. w[1] \in {"rx_work", "rx_dma_work"}
      BY DEF TypeInv, LifecycleTypeOK
    <2>2. ~IsLog
      BY DEF RepairInv, LogIsIdle
    <2> DEFINE needs == WorkNeeds(w[1])
    <2>3. PICK n \in 1 .. Len(needs) : trouble' = Meets(w[2], needs, n)
      BY <1>7 DEF StartWork, EndWork, Touches
    <2>4. /\ Len(needs) \in 1 .. 5
          /\ \A i \in 1 .. Len(needs) : needs[i] \in Needed /\ needs[i] # "tx_wq"
      BY <1>1, <2>1, <2>2, WorkNeedsAre DEF Needed
    <2> HIDE DEF needs
    <2>5. trouble' \in Harmless \cup {"no queue"} /\ trouble' # "no queue"
      BY <2>3, <2>4, MeetsTrouble
    <2> QED BY <1>3, <2>5
  <1>8. ASSUME NEW op \in Operations, BeginCall(op)
        PROVE  RepairsHold'
    <2>1. \/ trouble' \in {"none", "freed"}
          \/ trouble' = "no device" /\ ~TestsDevice(op)
      BY <1>8 DEF BeginCall
    <2>2. ~TestsDevice(op) => version \in {"week02", "log", "logdma"}
      BY DEF TestsDevice
    <2> QED BY <1>1, <2>1, <2>2 DEF RepairsHold
  <1>9. CASE EndCall
    <2> DEFINE needs == CallNeeds(call[1])
    <2>1. PICK n \in 1 .. Len(needs) : trouble' = Meets(call[2], needs, n)
      BY <1>9 DEF EndCall, Touches
    <2>2. /\ Len(needs) \in 1 .. 5
          /\ \A i \in 1 .. Len(needs) : needs[i] \in Needed
      BY <1>1, CallNeedsAre DEF Needed
    <2>3. Meets(call[2], needs, n) = "no queue" => version \in {"week02", "week03"}
      <3> SUFFICES ASSUME Meets(call[2], needs, n) = "no queue", version \notin {"week02", "week03"}
                   PROVE  FALSE
        OBVIOUS
      <3> HIDE DEF needs
      <3>1. PICK i \in 1 .. Len(needs) :
               /\ needs[i] = "tx_wq" /\ "tx_wq" \notin held
               /\ \A j \in 1 .. Len(needs) : j < i => needs[j] \in held
        BY <2>1, <2>2, MeetsTrouble
      <3>2. version # "log"
        BY <1>1, <3>1, CallNeedsAre DEF needs
      <3>3. /\ \E j \in 1 .. Len(needs) : j < i /\ needs[j] = "tx"
            /\ HasGpio => \E j \in 1 .. Len(needs) : j < i /\ needs[j] = "leds"
        BY <1>1, <3>1, <3>2, CallNeedsAre DEF needs
      <3>4. "tx" \in held /\ (HasGpio => "leds" \in held)
        BY <3>1, <3>3
      <3> QED BY <1>1, <1>2, <3>1, <3>2, <3>4 DEF QueueWaits, HasGpio, AllVersions
    <2>4. trouble' \in Harmless \cup {"no queue"}
      BY <2>1, <2>2, MeetsTrouble
    <2> QED BY <1>1, <2>1, <2>3, <2>4 DEF RepairsHold
  <1> QED BY <1>4, <1>5, <1>6, <1>7, <1>8, <1>9 DEF MeanwhileStep

LEMMA RepairInvNext ==
    ASSUME TypeInv, HeldInv, RepairInv, [LifeNext]_vars
    PROVE  RepairInv'
  <1>1. CASE GiveBack \/ Bind \/ Unbind \/ FreeDevres \/ EndBinding \/ UNCHANGED vars
    <2>1. UNCHANGED <<version, trouble>>
      BY <1>1 DEF GiveBack, Bind, Unbind, FreeDevres, EndBinding, vars
    <2>2. RepairsHold'
      BY <2>1, SameVersion DEF RepairInv, RepairsHold
    <2> QED BY <2>2, LogIsIdleNext DEF RepairInv
  <1>2. CASE ProbeStep \/ MeanwhileStep
    BY <1>2, ProbeStepTrouble, MeanwhileTrouble, LogIsIdleNext DEF RepairInv
  <1> QED BY <1>1, <1>2, NextSteps
-----------------------------------------------------------------------------
(* A bound device. *)

LEMMA BoundHas ==
    ASSUME TypeInv, HeldInv, pc = "bound", Untested \subseteq held
    PROVE  /\ {"memory", "tx_wq", "lock", "base"} \subseteq held
           /\ ~IsLog => "rx_work" \in held
           /\ HasDma => {"rx_dma_work", "rx", "tx", "rx.buf", "tx.buf"} \subseteq held
           /\ HasGpio => "leds" \in held
  <1>1. at = Len(Probe) + 1 /\ at \in Nat /\ version \in AllVersions
    BY TypeFacts, VersionFacts DEF TypeInv, Progress
  <1>2. /\ After("memory", at) /\ After("tx_wq", at) /\ After("lock", at) /\ After("base", at)
        /\ ~IsLog => After("rx_work", at)
        /\ HasDma => After("rx_dma_work", at) /\ After("rx", at) /\ After("tx", at)
        /\ version = "memcpy" => After("rx.buf", at) /\ After("tx.buf", at)
    BY <1>1, VersionFacts DEF IsComplete
  <1>3. /\ "memory" \in held /\ "tx_wq" \in held /\ "lock" \in held /\ "base" \in held
        /\ ~IsLog => "rx_work" \in held
        /\ HasDma => "rx_dma_work" \in held /\ "rx" \in held /\ "tx" \in held
        /\ version = "memcpy" => "rx.buf" \in held /\ "tx.buf" \in held
    BY <1>1, <1>2, AfterIsHeld DEF HeldInv
  <1>4. HasGpio => "leds" \in held
    BY DEF Untested, HasGpio
  <1>5. HasDma /\ version # "memcpy" => {"rx.buf", "tx.buf"} \subseteq held
    <2>1. CASE version = "week04"
      BY <2>1 DEF Untested
    <2>2. CASE version \in {"week03", "logdma"}
      BY <2>2 DEF Untested
    <2> QED BY <1>1, <2>1, <2>2 DEF HasDma, AllVersions
  <1> QED BY <1>3, <1>4, <1>5

LEMMA BoundStep ==
    ASSUME TypeInv, TableInv, HeldInv, BalanceInv, RepairInv, LifeNext,
           pc = "bound", OnlyThisBinding, Untested \subseteq held
    PROVE  trouble' = "none"
  <1>1. /\ {"memory", "tx_wq", "lock", "base"} \subseteq held
        /\ ~IsLog => "rx_work" \in held
        /\ HasDma => {"rx_dma_work", "rx", "tx", "rx.buf", "tx.buf"} \subseteq held
        /\ HasGpio => "leds" \in held
    BY BoundHas
  <1>2. Alive(cmdev) /\ version \in AllVersions
    BY <1>1, VersionFacts DEF Alive
  <1>3. CASE ProbeStep \/ GiveBack \/ Bind \/ FreeDevres \/ EndBinding
    BY <1>3, ProbeStepOutcome DEF GiveBack, Bind, FreeDevres, EndBinding, Phase
  <1>4. CASE Unbind \/ Mail \/ CloseNode \/ \E m \in nodes : OpenNode(m)
    BY <1>4 DEF Unbind, Phase, Mail, CloseNode, OpenNode, AllIsWell
  <1>5. CASE Interrupt
    <2>1. \/ trouble' = "none"
          \/ version = "week02" /\ trouble' = Meets(cmdev, <<"tx_wq">>, 1)
          \/ ~IsLog /\ Schedule("rx_work")
          \/ ~IsLog /\ "RX_EMPTY" \in mask /\ Schedule("rx_dma_work")
      <3> DEFINE mis == ris \cap mask
                 bit == IF "TX" \in mis THEN "TX" ELSE IF "RX" \in mis THEN "RX" ELSE "RX_EMPTY"
      <3>1. mis \subseteq {"RX", "TX", "RX_EMPTY"} /\ mis # {}
        BY <1>5 DEF Interrupt, TypeInv, LifecycleTypeOK
      <3>2. bit \in mis
        BY <3>1
      <3>3. CASE IsLog
        BY <1>5, <3>3 DEF Interrupt, AllIsWell
      <3>4. CASE ~IsLog /\ bit = "TX"
        BY <1>5, <3>4 DEF Interrupt
      <3>5. CASE ~IsLog /\ bit = "RX"
        BY <1>5, <3>5 DEF Interrupt
      <3>6. CASE ~IsLog /\ bit = "RX_EMPTY"
        BY <1>5, <3>2, <3>6 DEF Interrupt
      <3> QED BY <3>3, <3>4, <3>5, <3>6
    <2>2. Meets(cmdev, <<"tx_wq">>, 1) = "none"
      <3> DEFINE needs == <<"tx_wq">>
      <3>1. Len(needs) = 1 /\ \A i \in 1 .. 1 : needs[i] \in held
        BY <1>1
      <3> HIDE DEF needs
      <3>2. Meets(cmdev, needs, 1) = "none"
        BY <1>2, <3>1, MeetsNothing
      <3> QED BY <3>2 DEF needs
    <2>3. "RX_EMPTY" \in mask => "rx_dma_work" \in held
      BY <1>1 DEF BalanceInv, DmaOnly
    <2>4. trouble = "none"
      BY <1>5 DEF Interrupt, AllIsWell
    <2> QED BY <1>1, <2>1, <2>2, <2>3, <2>4 DEF Schedule
  <1>6. CASE Press
    <2>1. PICK n \in 1 .. Len(ButtonNeeds) : trouble' = Meets(cmdev, ButtonNeeds, n)
      BY <1>6 DEF Press, Touches
    <2>2. HasGpio
      BY <1>6 DEF Press, BalanceInv, DmaOnly
    <2>3. \A i \in 1 .. Len(ButtonNeeds) : ButtonNeeds[i] \in held
      BY <1>1, <2>2, ButtonNeedsAre
    <2> QED BY <1>2, <2>1, <2>3, MeetsNothing, ButtonNeedsAre
  <1>7. ASSUME NEW w \in pending \cup active, StartWork(w) \/ EndWork(w)
        PROVE  trouble' = "none"
    <2>1. w[1] \in {"rx_work", "rx_dma_work"} /\ w[2] = cmdev
      BY DEF TypeInv, LifecycleTypeOK, OnlyThisBinding
    <2>2. ~IsLog
      BY DEF RepairInv, LogIsIdle
    <2>3. \A i \in 1 .. Len(WorkNeeds(w[1])) : WorkNeeds(w[1])[i] \in held
      BY <1>1, <1>2, <2>1, <2>2, WorkNeedsAre
    <2> DEFINE needs == WorkNeeds(w[1])
    <2>4. PICK n \in 1 .. Len(needs) : trouble' = Meets(w[2], needs, n)
      BY <1>7 DEF StartWork, EndWork, Touches
    <2>5. Len(needs) \in 1 .. 5
      BY <1>2, <2>1, <2>2, WorkNeedsAre
    <2> HIDE DEF needs
    <2> QED BY <1>2, <2>1, <2>3, <2>4, <2>5, MeetsNothing DEF needs
  <1>8. ASSUME NEW op \in Operations, BeginCall(op)
        PROVE  trouble' = "none"
    <2>1. file = {minor - 1} /\ <<minor - 1, cmdev>> \in table
      BY <1>8 DEF BeginCall, OnlyThisBinding, TableInv, HasEntry
    <2>2. \A e \in table : e[1] \in file => e = <<minor - 1, cmdev>>
      BY <2>1 DEF TableInv, OneEntryPerMinor
    <2>3. {e \in table : e[1] \in file} = {<<minor - 1, cmdev>>}
      BY <2>1, <2>2
    <2>4. PICK e \in {e \in table : e[1] \in file} : trouble' = IF Alive(e[2]) THEN "none" ELSE "freed"
      BY <1>8, <2>3 DEF BeginCall
    <2>5. e = <<minor - 1, cmdev>>
      BY <2>3
    <2>6. e[2] = cmdev
      BY <2>5
    <2> QED BY <1>2, <2>4, <2>6
  <1>9. CASE EndCall
    <2>1. call[2] = cmdev
      BY <1>9 DEF EndCall, OnlyThisBinding
    <2>2. \A i \in 1 .. Len(CallNeeds(call[1])) : CallNeeds(call[1])[i] \in held
      BY <1>1, <1>2, CallNeedsAre
    <2> DEFINE needs == CallNeeds(call[1])
    <2>3. PICK n \in 1 .. Len(needs) : trouble' = Meets(call[2], needs, n)
      BY <1>9 DEF EndCall, Touches
    <2>4. Len(needs) \in 1 .. 5
      BY <1>2, CallNeedsAre
    <2> HIDE DEF needs
    <2> QED BY <1>2, <2>1, <2>2, <2>3, <2>4, MeetsNothing DEF needs
  <1> QED BY <1>3, <1>4, <1>5, <1>6, <1>7, <1>8, <1>9, NextSteps DEF MeanwhileStep
-----------------------------------------------------------------------------
(* The theorems.  One invariant carries them all. *)

LifeInv == TypeInv /\ TableInv /\ HeldInv /\ BalanceInv /\ RepairInv

\* The bookkeeping of bindings, nodes, table, channels and steps done is
\* kept by every step of the driver core, the driver and its users.
THEOREM LifeInvCorrect == LifeSpec => []LifeInv
  <1>1. LifeInit => LifeInv
    BY TypeInvInit, TableInvInit, HeldInvInit, BalanceInvInit, RepairInvInit DEF LifeInv
  <1>2. LifeInv /\ [LifeNext]_vars => LifeInv'
    BY TypeInvNext, TableInvNext, HeldInvNext, BalanceInvNext, RepairInvNext DEF LifeInv
  <1> QED BY <1>1, <1>2, PTL DEF LifeSpec

\* Every variable keeps its type, and the hash table knows only minors that
\* have been handed out, for all versions and any budget of failures.
THEOREM LifecycleTypeCorrect == LifeSpec => []LifecycleTypeOK
  <1>1. LifeInv => LifecycleTypeOK
    BY DEF LifeInv, TypeInv
  <1> QED BY <1>1, LifeInvCorrect, PTL

\* Between bindings and while a device is bound, /dev and the hash table of
\* comento_mmio_get_device agree, and device_create never meets a name that
\* is left over.
THEOREM NodesMatchTableCorrect == LifeSpec => []NodesMatchTable
  <1>1. LifeInv => NodesMatchTable
    BY TableInvImplies DEF LifeInv
  <1> QED BY <1>1, LifeInvCorrect, PTL

\* As long as nothing has failed, unbinding gives back the nodes, the
\* entries, the slave channels and the wake-up settings, and exactly one
\* other channel is lost for each binding that has tested itself; the
\* regions are given back even when something has failed.
THEOREM UnbindGivesBackCorrect == LifeSpec => []UnbindGivesBack
  <1>1. LifeInv => UnbindGivesBack
    <2> SUFFICES ASSUME LifeInv PROVE UnbindGivesBack
      OBVIOUS
    <2>1. pc \in {"freeing", "unbound"} => "regions" \notin held
      BY DEF LifeInv, HeldInv, RegionsGone
    <2>2. ASSUME pc \in {"freeing", "unbound"}, Faultless
          PROVE  /\ nodes = {} /\ table = {} /\ taken = {} /\ wake = {}
                 /\ spare = Spare - (IF version = "memcpy" THEN cmdev ELSE 0)
      <3>1. table = {} /\ taken = {} /\ wake = {}
        BY <2>2 DEF LifeInv, BalanceInv, Balanced, BalancedTable, BalancedChannels, BalancedWake
      <3>2. nodes = Shown
        BY <2>2 DEF LifeInv, TableInv, NodesFollowTable
      <3>3. spare = Spare - Kept
        BY <2>2 DEF LifeInv, BalanceInv, Balanced, BalancedSpare
      <3>4. Kept = IF version = "memcpy" THEN cmdev ELSE 0
        BY <2>2 DEF Kept
      <3> QED BY <3>1, <3>2, <3>3, <3>4 DEF Shown
    <2> QED BY <2>1, <2>2 DEF UnbindGivesBack, Faultless
  <1> QED BY <1>1, LifeInvCorrect, PTL

\* What a version has repaired stays repaired, whatever fails and whoever
\* is in the middle of something.
THEOREM RepairsHoldCorrect == LifeSpec => []RepairsHold
  <1>1. LifeInv => RepairsHold
    BY DEF LifeInv, RepairInv
  <1> QED BY <1>1, LifeInvCorrect, PTL

\* While a device is bound nothing goes wrong that the device itself, its
\* bottom halves and its callers do, if probe() got what it does not test.
THEOREM BoundIsSafeCorrect == LifeSpec => BoundIsSafe
  <1>1. LifeInv /\ [LifeNext]_vars =>
          [pc = "bound" /\ OnlyThisBinding /\ Untested \subseteq held
             => trouble' = "none"]_vars
    BY BoundStep DEF LifeInv
  <1> QED BY <1>1, LifeInvCorrect, PTL DEF LifeSpec, BoundIsSafe
=============================================================================
