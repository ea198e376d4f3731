----------------------------- MODULE Lifecycle -----------------------------
(***************************************************************************)
(* Binding and unbinding the Linux driver: probe() and remove() of its six *)
(* versions (week02, week03, week04, week04/mmio-memcpy.c, and the two log *)
(* drivers), with everything that can run meanwhile - the interrupt        *)
(* handler, the bottom halves, a user's call on the device node - and any  *)
(* step of probe() that can fail.                                          *)
(*                                                                         *)
(* A probe is a sequence of steps; each obtains one thing.  What belongs   *)
(* to one binding is in `held`; what is not tied to a binding (the statics *)
(* of the file, /dev, the hash table, DMA channels, wake-up settings,      *)
(* device registers) has a variable of its own.  The handler, a bottom     *)
(* half and a call only count by what they touch: RxPath, TxPath,          *)
(* PioDriver and LogSystem say what they do.                               *)
(*                                                                         *)
(* The first access to something that is not there is recorded in          *)
(* `trouble`, and the model stops.                                         *)
(*                                                                         *)
(* External: devres releases what devm_ functions obtained, latest first,  *)
(* when probe() has failed or remove() has returned; an exclusive DMA      *)
(* channel cannot be requested twice; udev makes the node as soon as       *)
(* device_create has announced it.                                         *)
(***************************************************************************)
EXTENDS Integers, Sequences

CONSTANTS
    Versions,   \* the versions to check
    Spare,      \* DMA channels that can copy memory and that nobody uses
    Budget      \* how often a probe starts, a step fails, the host sends,
                \* a user opens a node and calls: bounds the runs

AllVersions == {"week02", "week03", "week04", "memcpy", "log", "logdma"}

ASSUME VersionsAssumption == Versions \subseteq AllVersions
ASSUME SpareAssumption == Spare \in Nat
ASSUME LifeBudgetAssumption ==
    Budget \in [{"probes", "faults", "mails", "opens", "calls"} -> Nat]

VARIABLES
    version,    \* the driver the kernel was built with
    pc,         \* "unbound", "probing", "bound", "removing" or "freeing"
    at,         \* the step of probe() or remove() that is next
    cmdev,      \* number of the device structure of this binding
    held,       \* what this binding has obtained and still has
    major,      \* comento_mmio_major is set
    class,      \* comento_mmio_class: "none", "made" or an error code
    minor,      \* comento_mmio_minor
    table,      \* comento_mmio_table: which structure answers to a minor
    nodes,      \* the minors with a node in /dev
    taken,      \* the slave channels that are in use
    spare,      \* the other channels that are not
    wake,       \* the wake-up settings of the amba device
    mask, ris,  \* IMSC, and the interrupts raised in the device
    pending,    \* bottom halves scheduled: <<work, structure>>
    active,     \* bottom halves running
    file,       \* the minor the user has open: a set of at most one
    call,       \* the user's call under way: <<operation, structure>>
    trouble,    \* what went wrong first
    left        \* what remains of Budget

binding == <<pc, at, cmdev, held>>
statics == <<major, class, minor, table>>
outside == <<nodes, taken, spare, wake>>
irqs    == <<mask, ris>>
works   == <<pending, active>>
user    == <<file, call>>
vars    == <<version, binding, statics, outside, irqs, works, user, trouble, left>>

NoCall == <<>>

HasDma == version \notin {"week02", "log"}
HasGpio == version \in {"week04", "memcpy"}
IsLog == version \in {"log", "logdma"}

Spend(what) == left[what] > 0 /\ left' = [left EXCEPT ![what] = @ - 1]

\* Nothing has gone wrong yet; and the binding is in this phase.
AllIsWell    == trouble = "none"
Phase(phase) == AllIsWell /\ pc = phase
-----------------------------------------------------------------------------
(* The steps.  `fails`: the call can fail; `leave`: probe() tests its       *)
(* result and goes to the error path; `undo`: the channels it releases      *)
(* before it does.                                                          *)

Sure(thing)          == [gets |-> thing, fails |-> FALSE, leave |-> FALSE, undo |-> {}]
Ignored(thing)       == [gets |-> thing, fails |-> TRUE, leave |-> FALSE, undo |-> {}]
Checked(thing)       == [gets |-> thing, fails |-> TRUE, leave |-> TRUE, undo |-> {}]
Undoing(thing, undo) == [gets |-> thing, fails |-> TRUE, leave |-> TRUE, undo |-> undo]

\* comento_dma_init: the channel, then its buffer, whose allocation only
\* the memcpy version tests.  `undo` is what the caller does on an error.
Buffer(chan) == IF chan = "tx" THEN "tx.buf" ELSE "rx.buf"
DmaInitWeek04(chan, undo) == <<Undoing(chan, undo), Ignored(Buffer(chan))>>
DmaInitWeek03(chan, undo) == <<Undoing(chan, undo), Ignored(Buffer(chan))>>
DmaInitLogDma(chan, undo) == <<Undoing(chan, undo), Ignored(Buffer(chan))>>

DmaInitMemcpy(chan)   == <<Checked(chan), Undoing(Buffer(chan), {chan})>>

\* comento_dma_probe.  All but the memcpy version release rx.chan when it
\* could not be had.
DmaReady == <<Sure("unmask_empty"), Sure("rx_dma_work")>>
DmaProbeWeek04 == DmaInitWeek04("tx", {}) \o DmaInitWeek04("rx", {"rx"}) \o DmaReady
DmaProbeWeek03 == DmaInitWeek03("tx", {}) \o DmaInitWeek03("rx", {"rx"}) \o DmaReady
DmaProbeLogDma == DmaInitLogDma("tx", {}) \o DmaInitLogDma("rx", {"rx"}) \o DmaReady

\* Mutant: the memcpy version has not repaired the error path.
DmaProbeReleasing == <<Checked("tx"), Undoing("tx.buf", {"tx"}),
                       Undoing("rx", {"rx"}), Undoing("rx.buf", {"rx"})>> \o DmaReady

DmaProbeMemcpy == DmaInitMemcpy("tx") \o DmaInitMemcpy("rx") \o DmaReady

\* How every version begins: up to the node and the hash table.
Prologue == <<Checked("regions"), Checked("major"), Checked("class"),
              Checked("memory"), Checked("base"), Checked("node"), Sure("entry")>>

\* How all but the memcpy version go on.
Unmasked == Prologue \o <<Sure("lock"), Sure("wakeup"), Sure("unmask")>>

ProbeWeek02 == Unmasked \o
    <<Checked("irq"), Sure("wake_irq"), Sure("tx_wq"), Sure("unmask"), Sure("rx_work")>>

ProbeWeek03 == Unmasked \o DmaProbeWeek03 \o
    <<Checked("irq"), Sure("wake_irq"), Sure("tx_wq"), Sure("rx_work")>>

\* Mutant: rx_work is never initialised.
ProbeWithoutRxWork == Unmasked \o DmaProbeWeek04 \o
    <<Checked("irq"), Sure("wake_irq"), Sure("tx_wq"),
      Ignored("leds"), Ignored("button"), Ignored("button_irq")>>

ProbeWeek04 == Unmasked \o DmaProbeWeek04 \o
    <<Checked("irq"), Sure("wake_irq"), Sure("tx_wq"), Sure("rx_work"),
      Ignored("leds"), Ignored("button"), Ignored("button_irq")>>

ProbeMemcpy == Prologue \o
    <<Sure("rx_work"), Sure("lock"), Sure("tx_wq"), Sure("wakeup"), Sure("unmask"),
      Checked("irq"), Sure("wake_irq")>> \o DmaProbeMemcpy \o
    <<Sure("self_test"), Ignored("leds"), Ignored("button"), Ignored("button_irq")>>

ProbeLog == Unmasked \o <<Checked("irq"), Sure("tx_wq"), Sure("unmask")>>

ProbeLogDma == Unmasked \o
    <<Checked("irq"), Sure("tx_wq"), Sure("unmask")>> \o DmaProbeLogDma

Probe ==
    CASE version = "week02" -> ProbeWeek02
      [] version = "week03" -> ProbeWeek03
      [] version = "week04" -> ProbeWeek04
      [] version = "memcpy" -> ProbeMemcpy
      [] version = "log"    -> ProbeLog
      [] version = "logdma" -> ProbeLogDma

\* comento_mmio_remove: what it gives back, in order.
RemoveWeek02 == <<"node", "entry", "wakeup", "wake_irq", "regions">>
RemoveLog    == <<"node", "entry", "wakeup", "wake_irq", "regions">>
RemoveWeek03 == <<"node", "entry", "wakeup", "wake_irq", "rx", "tx", "regions">>
RemoveWeek04 == <<"node", "entry", "wakeup", "wake_irq", "rx", "tx", "regions">>

\* Mutant: the transmit channel is kept.
RemoveKeepsTx == <<"node", "entry", "wakeup", "wake_irq", "rx", "regions">>

RemoveMemcpy == <<"node", "entry", "wakeup", "wake_irq", "rx", "tx", "regions">>

RemoveLogDma == <<"node", "entry", "wakeup", "wake_irq", "rx", "tx", "regions">>

Removal ==
    CASE version = "week02" -> RemoveWeek02
      [] version = "week03" -> RemoveWeek03
      [] version = "week04" -> RemoveWeek04
      [] version = "memcpy" -> RemoveMemcpy
      [] version = "log"    -> RemoveLog
      [] version = "logdma" -> RemoveLogDma
-----------------------------------------------------------------------------
(* What goes wrong when something is missing. *)

\* The structure has not been freed.
Alive(d) == d = cmdev /\ "memory" \in held

Missing(thing) ==
    CASE thing = "lock"                -> "no lock"
      [] thing = "base"                -> "no base"
      [] thing \in {"tx", "rx"}         -> "no channel"
      [] thing \in {"tx.buf", "rx.buf"} -> "no buffer"
      [] thing = "leds"                 -> "no leds"
      [] thing = "tx_wq"                -> "no queue"

\* The trouble that code of structure d meets when it touches the first n
\* of `needs` in this order; "none" when all of them are there.
Meets(d, needs, n) ==
    IF ~Alive(d) THEN "freed"
    ELSE LET lacking == {i \in 1 .. n : needs[i] \notin held}
         IN  IF lacking = {} THEN "none"
             ELSE Missing(needs[CHOOSE i \in lacking : \A j \in lacking : i <= j])

\* The code may be done before it comes to the last of its needs: a write()
\* that need not wait, a transfer that cannot be mapped, an empty message.
Touches(d, needs) == \E n \in 1 .. Len(needs) : trouble' = Meets(d, needs, n)

Leds == IF HasGpio THEN <<"leds">> ELSE <<>>

\* The handlers of the bottom halves; rx_dma_work takes no lock.
WorkNeeds(work) ==
    IF version = "week02" THEN <<"lock", "base">>
    ELSE (IF work = "rx_work" THEN <<"lock", "rx.buf", "rx">> ELSE <<"rx">>) \o Leds

\* What a call needs, in the order in which it comes to it: the queue only
\* when it has to wait.  The write() of most versions with DMA is unlocked.
CallNeeds(op) ==
    CASE op = "read" -> IF HasDma THEN <<"lock", "rx.buf">> ELSE <<"lock">>
      [] op = "write" /\ version = "week02" -> <<"lock", "base", "tx_wq">>
      [] op = "write" /\ version = "memcpy" -> <<"lock", "tx.buf", "tx", "leds", "tx_wq">>
      [] op = "write" /\ version \in {"week03", "week04", "logdma"} ->
             <<"tx.buf", "tx">> \o Leds \o <<"tx_wq">>
      [] OTHER -> <<"lock", "base">>      \* ioctl, and write() to the log

\* The operations of each version, and those that test what
\* comento_mmio_get_device returns.
Operations == IF IsLog THEN {"write", "ioctl"} ELSE {"read", "write"}
TestsDevice(op) ==
    CASE version \in {"week02", "log"} -> FALSE
      [] version = "logdma"            -> op = "write"
      [] OTHER                         -> TRUE
-----------------------------------------------------------------------------
LifeInit ==
    /\ version \in Versions
    /\ pc = "unbound" /\ at = 1 /\ cmdev = 0 /\ held = {}
    /\ major = FALSE /\ class = "none" /\ minor = 0 /\ table = {}
    /\ nodes = {} /\ taken = {} /\ spare = Spare /\ wake = {}
    /\ mask = {} /\ ris = {}
    /\ pending = {} /\ active = {}
    /\ file = {} /\ call = NoCall
    /\ trouble = "none"
    /\ left = Budget

\* The driver core calls probe().
Bind ==
    /\ Phase("unbound")
    /\ Spend("probes")
    /\ pc' = "probing" /\ cmdev' = cmdev + 1
    /\ UNCHANGED <<version, at, held, statics, outside, irqs, works, user, trouble>>

Step == Probe[at]
Probing(things) == Phase("probing") /\ Step.gets \in things

Advance == /\ pc' = IF at = Len(Probe) THEN "bound" ELSE "probing"
           /\ at' = at + 1
           /\ UNCHANGED cmdev

\* The step has its effect on this binding.
Gain == held' = held \cup {Step.gets} /\ Advance

\* register_chrdev and class_create, once for all bindings.
GetStatic ==
    /\ Probing({"major", "class"})
    /\ major' = TRUE
    /\ class' = IF Step.gets = "class" /\ class = "none" THEN "made" ELSE class
    /\ Advance
    /\ UNCHANGED <<version, held, minor, table, outside, irqs, works, user, trouble, left>>

\* Whatever needs nothing but itself.
GetPlain ==
    /\ Probing({"regions", "memory", "base", "lock", "irq", "tx_wq", "rx_work",
                "rx_dma_work", "tx.buf", "rx.buf", "leds", "button"})
    /\ Gain
    /\ UNCHANGED <<version, statics, outside, irqs, works, user, trouble, left>>

\* gpiod_to_irq and devm_request_irq, for a button that is there.
GetButtonIrq ==
    /\ Probing({"button_irq"}) /\ "button" \in held
    /\ Gain
    /\ UNCHANGED <<version, statics, outside, irqs, works, user, trouble, left>>

\* device_create
GetNode ==
    /\ Probing({"node"}) /\ minor \notin nodes /\ class = "made"
    /\ Gain
    /\ nodes' = nodes \cup {minor}
    /\ UNCHANGED <<version, statics, taken, spare, wake, irqs, works, user, trouble, left>>

\* Mutant: the minor is used again by the next probe.
GetEntrySameMinor ==
    /\ Probing({"entry"})
    /\ Gain
    /\ table' = table \cup {<<minor, cmdev>>}
    /\ UNCHANGED <<version, major, class, minor, outside, irqs, works, user, trouble, left>>

\* cmdev->minor = comento_mmio_minor++ and hash_add
GetEntry ==
    /\ Probing({"entry"})
    /\ Gain
    /\ table' = table \cup {<<minor, cmdev>>}
    /\ minor' = minor + 1
    /\ UNCHANGED <<version, major, class, outside, irqs, works, user, trouble, left>>

\* dma_request_chan
GetChannel ==
    /\ Probing({"tx", "rx"}) /\ Step.gets \notin taken
    /\ Gain
    /\ taken' = taken \cup {Step.gets}
    /\ UNCHANGED <<version, statics, nodes, spare, wake, irqs, works, user, trouble, left>>

\* device_init_wakeup, dev_pm_set_wake_irq
GetWake ==
    /\ Probing({"wakeup", "wake_irq"})
    /\ Gain
    /\ wake' = wake \cup {Step.gets}
    /\ UNCHANGED <<version, statics, nodes, taken, spare, irqs, works, user, trouble, left>>

\* writel to IMSC, by probe() and by comento_dma_probe
Unmask ==
    /\ Probing({"unmask", "unmask_empty"})
    /\ Gain
    /\ mask' = mask \cup (IF Step.gets = "unmask" THEN {"RX", "TX"} ELSE {"RX_EMPTY"})
    /\ UNCHANGED <<version, statics, outside, ris, works, user, trouble, left>>

\* comento_dma_memcpy: takes a channel for good, and tests neither it nor
\* its buffers nor the descriptor.
SelfTest ==
    /\ Probing({"self_test"})
    /\ Gain
    /\ spare' = IF spare > 0 THEN spare - 1 ELSE spare
    /\ \/ spare > 0 /\ UNCHANGED <<trouble, left>>
       \/ spare = 0 /\ trouble' = "no channel" /\ UNCHANGED left
       \/ Spend("faults") /\ trouble' \in {"no channel", "no buffer"}
       \/ spare > 0 /\ Spend("faults") /\ trouble' = "no descriptor"
    /\ UNCHANGED <<version, statics, nodes, taken, wake, irqs, works, user>>

\* A static that is set already is not registered again.
MayFail == Step.fails /\ ~(Step.gets = "major" /\ major)
                      /\ ~(Step.gets = "class" /\ class # "none")

\* The step cannot succeed: the name or the channel is in use, the class or
\* the button is not there.
MustFail == \/ Step.gets = "node" /\ (minor \in nodes \/ class # "made")
            \/ Step.gets \in {"tx", "rx"} /\ Step.gets \in taken
            \/ Step.gets = "button_irq" /\ "button" \notin held

\* Mutant: the error code stays in comento_mmio_class.
FailKeepsClass ==
    /\ Phase("probing") /\ MayFail
    /\ IF MustFail THEN UNCHANGED left ELSE Spend("faults")
    /\ IF ~Step.leave
       THEN Advance /\ UNCHANGED <<held, taken, trouble>>
       ELSE /\ pc' = "freeing" /\ UNCHANGED <<at, cmdev>>
            /\ held' = held \ ({"regions"} \cup Step.undo)
            /\ taken' = taken \ Step.undo
            /\ trouble' = IF Step.undo \subseteq held THEN "none" ELSE "released an error"
    /\ class' = IF Step.gets = "class" THEN "error" ELSE class
    /\ UNCHANGED <<version, major, minor, table, nodes, spare, wake, irqs, works, user>>

\* The step fails: nothing is obtained, and probe() goes on or undoes what
\* it undoes, releases the regions and returns the error.
Fail ==
    /\ Phase("probing") /\ MayFail
    /\ IF MustFail THEN UNCHANGED left ELSE Spend("faults")
    /\ IF ~Step.leave
       THEN Advance /\ UNCHANGED <<held, taken, trouble>>
       ELSE /\ pc' = "freeing" /\ UNCHANGED <<at, cmdev>>
            /\ held' = held \ ({"regions"} \cup Step.undo)
            /\ taken' = taken \ Step.undo
            /\ trouble' = IF Step.undo \subseteq held THEN "none" ELSE "released an error"
    /\ UNCHANGED <<version, statics, nodes, spare, wake, irqs, works, user>>
-----------------------------------------------------------------------------
\* The driver core calls remove().
Unbind ==
    /\ Phase("bound")
    /\ pc' = "removing" /\ at' = 1
    /\ UNCHANGED <<version, cmdev, held, statics, outside, irqs, works, user, trouble, left>>

\* One thing that remove() gives back; the minor of the bound device is the
\* last one handed out.
GiveBack ==
    /\ Phase("removing")
    /\ LET thing == Removal[at] IN
         /\ nodes' = IF thing = "node" THEN nodes \ {minor - 1} ELSE nodes
         /\ table' = IF thing = "entry" THEN table \ {<<minor - 1, cmdev>>} ELSE table
         /\ wake'  = wake \ {thing}
         /\ taken' = taken \ {thing}
         /\ held'  = held \ {thing}
    /\ pc' = IF at = Len(Removal) THEN "freeing" ELSE "removing"
    /\ at' = at + 1
    /\ UNCHANGED <<version, cmdev, major, class, minor, spare, irqs, works, user, trouble, left>>

Devres == {"memory", "base", "irq", "tx.buf", "rx.buf", "leds", "button", "button_irq"}
Managed == held \cap Devres
Order(thing) == CHOOSE i \in 1 .. Len(Probe) : Probe[i].gets = thing

\* devres releases the latest of what it manages (external).
FreeDevres ==
    /\ Phase("freeing")
    /\ \E h \in Managed : /\ \A g \in Managed : Order(g) <= Order(h)
                          /\ held' = held \ {h}
    /\ UNCHANGED <<version, pc, at, cmdev, statics, outside, irqs, works, user, trouble, left>>

EndBinding ==
    /\ Phase("freeing") /\ Managed = {}
    /\ pc' = "unbound" /\ at' = 1 /\ held' = {}
    /\ UNCHANGED <<version, cmdev, statics, outside, irqs, works, user, trouble, left>>
-----------------------------------------------------------------------------
(* What may run meanwhile. *)

\* The host sends; nobody sends to the log devices.
Mail ==
    /\ AllIsWell
    /\ ~IsLog
    /\ Spend("mails")
    /\ ris' = ris \cup {"RX"}
    /\ UNCHANGED <<version, binding, statics, outside, mask, works, user, trouble>>

Schedule(work) ==
    IF work \in held
    THEN pending' = pending \cup {<<work, cmdev>>} /\ UNCHANGED trouble
    ELSE trouble' = "no work" /\ UNCHANGED pending

\* comento_mmio_interrupt, once the line is up and the interrupt requested;
\* the handler of the log driver with DMA returns before its RX branch.
Interrupt ==
    /\ AllIsWell
    /\ "irq" \in held
    /\ LET mis == ris \cap mask
           bit == IF "TX" \in mis THEN "TX" ELSE IF "RX" \in mis THEN "RX" ELSE "RX_EMPTY"
       IN  /\ mis # {}
           /\ version = "logdma" => bit = "TX"
           /\ ris' = ris \ {bit}
           /\ CASE IsLog -> UNCHANGED <<pending, trouble>>
                [] ~IsLog /\ bit = "TX" ->
                     /\ trouble' = IF version = "week02" THEN Meets(cmdev, <<"tx_wq">>, 1) ELSE "none"
                     /\ UNCHANGED pending
                [] ~IsLog /\ bit = "RX" -> Schedule("rx_work")
                [] ~IsLog /\ bit = "RX_EMPTY" -> Schedule("rx_dma_work")
    /\ UNCHANGED <<version, binding, statics, outside, mask, active, user, left>>

\* A worker starts a bottom half, one run of each at a time.
StartWork(w) ==
    /\ AllIsWell
    /\ w \in pending /\ w \notin active
    /\ pending' = pending \ {w}
    /\ active' = active \cup {w}
    /\ Touches(w[2], WorkNeeds(w[1]))
    /\ UNCHANGED <<version, binding, statics, outside, irqs, user, left>>

\* It ends; until then it has touched what it needs.  What rx_work starts
\* empties the FIFO.
EndWork(w) ==
    /\ AllIsWell
    /\ w \in active
    /\ active' = active \ {w}
    /\ Touches(w[2], WorkNeeds(w[1]))
    /\ ris' = IF w[1] = "rx_work" /\ HasDma THEN ris \cup {"RX_EMPTY"} ELSE ris
    /\ UNCHANGED <<version, binding, statics, outside, mask, pending, user, left>>

\* comento_button_interrupt
ButtonNeeds == <<"lock", "leds">>
Press ==
    /\ AllIsWell
    /\ "button_irq" \in held
    /\ Touches(cmdev, ButtonNeeds)
    /\ UNCHANGED <<version, binding, statics, outside, irqs, works, user, left>>

\* A user opens a node of /dev, and closes it.
OpenNode(m) ==
    /\ AllIsWell
    /\ file = {} /\ m \in nodes
    /\ Spend("opens")
    /\ file' = {m}
    /\ UNCHANGED <<version, binding, statics, outside, irqs, works, call, trouble>>

CloseNode ==
    /\ AllIsWell
    /\ file # {} /\ call = NoCall
    /\ file' = {}
    /\ UNCHANGED <<version, binding, statics, outside, irqs, works, call, trouble, left>>

\* Mutant: comento_mmio_get_device is believed to find a device.
BeginCallUntested(op) ==
    /\ AllIsWell
    /\ file # {} /\ call = NoCall
    /\ Spend("calls")
    /\ LET found == {e \in table : e[1] \in file} IN
         IF found = {}
         THEN /\ trouble' = "no device"
              /\ UNCHANGED call
         ELSE \E e \in found : /\ trouble' = IF Alive(e[2]) THEN "none" ELSE "freed"
                               /\ call' = <<op, e[2]>>
    /\ UNCHANGED <<version, binding, statics, outside, irqs, works, file>>

\* A call looks its device up; with none a version that tests for it
\* returns 0.
BeginCall(op) ==
    /\ AllIsWell
    /\ file # {} /\ call = NoCall
    /\ Spend("calls")
    /\ LET found == {e \in table : e[1] \in file} IN
         IF found = {}
         THEN /\ trouble' = IF TestsDevice(op) THEN "none" ELSE "no device"
              /\ UNCHANGED call
         ELSE \E e \in found : /\ trouble' = IF Alive(e[2]) THEN "none" ELSE "freed"
                               /\ call' = <<op, e[2]>>
    /\ UNCHANGED <<version, binding, statics, outside, irqs, works, file>>

\* The call ends; it may have slept.  Erasing the log raises RX, writing to
\* the log raises nothing.
EndCall ==
    /\ AllIsWell
    /\ call # NoCall
    /\ call' = NoCall
    /\ Touches(call[2], CallNeeds(call[1]))
    /\ ris' = CASE call[1] = "write" /\ ~IsLog -> ris \cup {"TX"}
                [] call[1] = "ioctl"            -> ris \cup {"RX"}
                [] OTHER                        -> ris
    /\ UNCHANGED <<version, binding, statics, outside, mask, works, file, left>>
-----------------------------------------------------------------------------
ProbeStep ==
    \/ GetStatic \/ GetPlain \/ GetButtonIrq \/ GetNode \/ GetEntry \/ GetChannel
    \/ GetWake \/ Unmask \/ SelfTest \/ Fail

CoreStep == ProbeStep \/ GiveBack \/ FreeDevres \/ EndBinding

LifeNext ==
    \/ Bind \/ Unbind \/ CoreStep
    \/ Mail \/ Interrupt \/ Press
    \/ \E w \in pending \cup active : StartWork(w) \/ EndWork(w)
    \/ \E m \in nodes : OpenNode(m)
    \/ CloseNode
    \/ \E op \in Operations : BeginCall(op)
    \/ EndCall

\* A probe() or remove() that has begun goes on to its end.
LifeSpec == LifeInit /\ [][LifeNext]_vars /\ WF_vars(CoreStep)
-----------------------------------------------------------------------------
Structures == 1 .. Budget.probes
Minors == 0 .. Budget.probes
Things == {Probe[i].gets : i \in 1 .. Len(Probe)}

\* Type invariant.
LifecycleTypeOK ==
    /\ version \in Versions
    /\ pc \in {"unbound", "probing", "bound", "removing", "freeing"}
    /\ at \in 1 .. Len(Probe) + 1 /\ cmdev \in {0} \cup Structures
    /\ held \subseteq Things
    /\ major \in BOOLEAN /\ class \in {"none", "made"} /\ minor \in Minors
    /\ table \subseteq Minors \X Structures /\ nodes \subseteq Minors
    /\ taken \subseteq {"tx", "rx"} /\ spare \in 0 .. Spare
    /\ wake \subseteq {"wakeup", "wake_irq"}
    /\ mask \cup ris \subseteq {"RX", "TX", "RX_EMPTY"}
    /\ pending \cup active \subseteq {"rx_work", "rx_dma_work"} \X Structures
    /\ file \subseteq Minors
    /\ trouble = "none" => \A e \in table : e[1] < minor

\* When probe() or remove() is over, a node in /dev has exactly one entry
\* in the hash table, also when a failed probe has left the node behind;
\* and device_create never meets a name that an earlier binding left, so
\* that a failed probe does not keep the next one from succeeding.
NodesMatchTable ==
    /\ pc \in {"unbound", "bound"} =>
         /\ nodes = {e[1] : e \in table}
         /\ \A e, f \in table : e[1] = f[1] => e = f
    /\ Probing({"node"}) => minor \notin nodes

\* What a binding costs.  The regions are back when devres begins, whatever
\* has failed.  As long as nothing has, an unbinding also gives back the
\* node, the entry, the slave channels and the wake-up settings, so that
\* one can bind and unbind for ever - but for the channel of the self test,
\* one for each binding of the memcpy version, which never comes back.
\* (The interrupts stay unmasked and scheduled work stays scheduled.)
UnbindGivesBack ==
    /\ pc \in {"freeing", "unbound"} => "regions" \notin held
    /\ pc \in {"freeing", "unbound"} /\ left.faults = Budget.faults =>
         /\ nodes = {} /\ table = {} /\ taken = {} /\ wake = {}
         /\ spare = Spare - (IF version = "memcpy" THEN cmdev ELSE 0)

\* Everything that can still run or be called belongs to this binding.
OnlyThisBinding ==
    /\ \A w \in pending \cup active : w[2] = cmdev
    /\ call # NoCall => call[2] = cmdev
    /\ file \subseteq {minor - 1}

\* What a version uses without having tested that it got it.
Untested ==
    CASE version \in {"week02", "log"} -> {}
      [] version = "memcpy"            -> {"leds"}
      [] version = "week04"            -> {"leds", "tx.buf", "rx.buf"}
      [] OTHER                         -> {"tx.buf", "rx.buf"}

\* While a device is bound, nothing that its own interrupts, bottom halves
\* and calls do can go wrong, unless one of the results that probe() does
\* not look at was an error: all trouble comes from the time before
\* probe() or after remove() has begun, or from what has outlived it.
BoundIsSafe ==
    [][pc = "bound" /\ OnlyThisBinding /\ Untested \subseteq held
         => trouble' = "none"]_vars

\* Some trouble is out of reach of some versions, whatever fails and
\* whoever is in the middle of something: a call that tests its device
\* never uses a missing one, only the older error path of comento_dma_probe
\* releases an error code, and a log driver schedules no work.
RepairsHold ==
    /\ trouble = "no device" => version \in {"week02", "log", "logdma"}
    /\ trouble = "released an error" => version \in {"week03", "week04", "logdma"}
    /\ trouble = "no work" => ~IsLog
    /\ trouble = "no queue" => version \in {"week02", "week03"}

\* A probe that starts when no channel has been lost and in which nothing
\* fails binds the device, whatever failed in the probes before it.
RetrySucceeds ==
    (pc = "probing" /\ at = 1 /\ taken = {} /\ left.faults = 0)
        ~> (pc = "bound" \/ trouble # "none")
=============================================================================
