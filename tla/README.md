# Verification of the mmio-comento device and its Linux driver

This directory holds TLA+ specifications of the code in this repository: a
memory-mapped character device emulated in QEMU (`week02/mmio.c`,
`week03/mmio.c`), the Linux drivers for it (`week02/mmio-driver.c`,
`week03/mmio-driver.c`, `week04/mmio.c`, `week04/mmio-memcpy.c`), the log
device of the exercises with its two drivers (`src/qemu/mmio.c`,
`src/linux/mmio.c`, `week03/과제03`), and the SPI scale of week 5. TLC checks
the specifications on small instances, and TLAPS proves the safety properties
for every value of the constants: of the peripheral, of both directions of the
DMA driver, of the programmed-I/O driver, of probe and remove, of the log system
and of the SPI scale. Paths below
are relative to the directory of the weekly sources; `W2` is
`week02/mmio-driver.c` (the first driver), `W3` is `week03/mmio.c` (the
peripheral) and `W4` is `week04/mmio.c` (the driver with DMA).

`PROJECT.json` is the machine-readable side of this file: components, runs,
the mutants every property is tested against, the source lines of every
definition, findings, hazards and theorems.

## 1. The system

    host: QMP              QEMU process                  guest kernel              guest user
                     +-----------------------+     +------------------------+
    qom-get data <---| transmit FIFO <- DR   |<-DMA| tx.buf  <- write()     |<--- echo > /dev/comento-mmio0
                     | receive FIFO  -> DR   |-DMA>| rx.buf  -> read()      |---> cat /dev/comento-mmio0
    qom-set data --->| FR RIS IMSC MIS ICR   |irq->| top half -> rx_work    |
                     | dma_tx_busy dma_rx_busy     |          -> rx_dma_work|
                     +-----------------------+     | LEDs, button interrupt |
                                                   +------------------------+

### 1.1 Inventory

| Component | State | Operations | Speaks with | What is hard |
|---|---|---|---|---|
| FIFO ring (W3:22-70) | `front`, `rear`, `buf` | enqueue, dequeue, is_full, is_empty | the peripheral only | wrap, the unused slot |
| Peripheral (W3) | `flag`, `ris`, `imsc`, the two FIFOs, irq line, two busy lines | reads and writes of DR, ICR, IMSC; QMP get/set of `data` | CPU and DMA controller through registers, host through QMP, interrupt controller, DMA controller through the busy lines | four handlers maintain five pieces of redundant state by hand; ICR toggles |
| Top half (W4:270) | nothing of its own | MIS, ICR, schedule a bottom half | peripheral, work queue | the device moves between the read of MIS and the write of ICR |
| Reception (W4:86-122, 306-372) | `rx.queued`, `rx_size`, `rx.buf`, mapping, channel | rx_work, rx_dma_work, DMA callback, read() | peripheral through DMA, readers, button | rx_dma_work takes no lock; pause/status/terminate of a moving transfer |
| Button (W4:126) | `rx_size`, blue LED | edge interrupt | reception | takes write_lock in interrupt context, also on the CPU of the lock's holder |
| Transmission (W4:195-267) | `tx.queued`, `tx.buf`, `tx.sg.length`, mapping, red LED | write(), DMA callback, wait queue | peripheral through DMA, several writers, signals | check-then-act without a lock, interruptible waits, lost wake-ups |
| Probe, remove, in six versions of the driver (W4:64-84, 145-179, 380-515 and the like) | major/minor, hash table, nodes, DMA channels, registrations | probe with its error paths, remove, get_device | everything above | order of registrations, clean-up of half a probe, running work and open files at remove |
| Programmed-I/O driver (`week02/mmio-driver.c`) | `rx_buf[32]`, `rx_size` | write(), read(), rx_work, top half | peripheral without DMA | sleeps inside a spinlock for which others keep their CPUs; a signal makes it write to a full FIFO |
| Locked variant (`week04/mmio-memcpy.c`) | as W4 | as W4, write() under the lock; a DMA memcpy tried once in probe | as W4 | as above, and an interrupt handler spins too |
| Log device and driver (`src/qemu/mmio.c`, `src/linux/mmio.c`, `ioctl.c`; with DMA `week03/과제03`) | log file, `ris`, `imsc`; the lock, `tx.queued` | log a byte, remove the log; write(), ioctl, interrupt | user through write() and ioctl, host's file system | the file is removed while it is open; it outlives the machine; the second driver writes without a lock and its handler returns before its RX branch |
| SPI scale (`week05/qemu-ssi.c`, `week05/spi.c`) | `scale`, `offset`, `cycle`; message buffers, mutex | transfer; show, store; QMP get/set | SPI bus, sysfs, host | two-byte reading torn by the host, the mutex destroyed before the file is removed |
| GPIO LED/button (`week04/gpio.c`, `user-gpio.c`) | pins | probe, interrupt, tool | GPIO controller | little |
| Boards and device trees (`week*/comento.c`, `*.dts`) | wiring | start-up | - | addresses and interrupt numbers must agree |

What makes each correct, in a sentence: the ring is a queue; the peripheral's
registers and lines tell the truth about its FIFOs; the interrupt handler
neither loses an interrupt nor runs for ever; reception delivers messages whole
and once and never leaves a buffer mapped or a lock held; transmission is a
byte stream that write() reports truthfully; probe and remove leave nothing
behind that an interrupt or a system call can still reach.

### 1.2 Concurrency in the code

QEMU runs every register access and every QMP property access under one lock,
so a handler of the peripheral is atomic. Everything in the guest is
concurrent: the interrupt handler (never twice at a time), two work items
(each never twice at a time, but next to each other), the DMA tasklet, any number
of system calls, the button's interrupt handler, and the DMA controller, which
moves bytes at any time a busy line allows.

## 2. Modules

| Module | Role | Code |
|---|---|---|
| `BoundedFifo` | abstract: a bounded queue | - |
| `RingFifo` | the ring, with the guards of all callers | W3:22-70 |
| `MmioDevice` | the peripheral, one action per handler | W3 |
| `MmioIrq` | top half of the driver on top of `MmioDevice` | W4:270-300, probe's final state |
| `Mailbox` | abstract: what reception promises | - |
| `RxPath` | reception, button and LEDs on top of `MmioIrq` | W4:86-143, 306-372 |
| `ByteStream` | abstract: what transmission promises | - |
| `TxPath` | transmission on top of `MmioIrq` | W4:195-267 |
| `PioDriver` | the programmed-I/O driver together with its peripheral | W2:47-170, `week02/mmio.c` |
| `LockedDriver` | both directions of the variant that locks write(), around one lock | `week04/mmio-memcpy.c` |
| `Lifecycle` | probe and remove of all six versions, with what runs meanwhile | `week02/mmio-driver.c`, `week03/mmio-driver.c`, W4, `week04/mmio-memcpy.c`, `src/linux/mmio.c`, `week03/과제03/mmio-driver.c` |
| `Journal` | abstract: what the log device promises | - |
| `LogDevice` | the log device and its file | `src/qemu/mmio.c`, `week03/과제03/mmio.c` |
| `LogSystem` | the log device with either of its drivers, and restarts | `src/linux/mmio.c`, `week03/과제03/mmio-driver.c` |
| `Balance` | abstract: what the scale promises | - |
| `SpiScale` | the scale's peripheral and driver | `week05/qemu-ssi.c`, `week05/spi.c` |
| `*MC` | instances for TLC | - |
| `RingFifoProofs`, `MmioDeviceProofs` (with the lemmas about the interrupt of `MmioIrq` that both directions use), `RxPathProofs`, `TxPathProofs`, `PioDriverProofs`, `LifecycleProofs`, `LogProofs`, `SpiScaleProofs` | theorems | - |

`MmioDevice` <- `MmioIrq` <- `RxPath`, `TxPath` (EXTENDS), and `LockedDriver`
composes the two: it EXTENDS `RxPath` and instantiates `TxPath`, which share
the peripheral, the interrupt handler and the lock. `LogDevice` <- `LogSystem`.
`Lifecycle` stands alone: it says what is there when, the other modules say
what is done with it.

`LogSystem` implements `Journal`, `LockedDriver` implements `Mailbox` and
`ByteStream` at the same time, `RingFifo` implements `BoundedFifo`, `RxPath`
implements `Mailbox`, `TxPath` implements `ByteStream`, `SpiScale` implements
`Balance`, and `PioDriver` implements both `Mailbox` and `ByteStream` (INSTANCE
... WITH and the abstract specification as a property): the driver of week 4
replaced that of week 2 by DMA.

An abstract specification lets something go wrong only for a reason, and the
reason is part of its state, so that the refinement has to supply it:

* `Mailbox`: a mail is taken away by `Clear` after a `Press`, one for one
  (`pressed`); it is lost by `Lose` only when the last message was sent before
  the box was ready for it (`hasty`). `RxPath` and `LockedDriver` supply
  `hasty <- FALSE`, `PioDriver` supplies `pressed <- FALSE` and its own `hasty`.
* `ByteStream`: a write returns short by `GiveUp`, each time at the cost of one
  of the `faults` still to come; a byte is dropped by `Lose` only under a
  signal (`disturbed`). `TxPath` and `LockedDriver` supply `disturbed <- FALSE`,
  `PioDriver` supplies `faults <- 0`: its calls are never short.
* `Journal`: erasures, restarts, failures and signals are counted down
  (`ahead`), each with the step it explains. A restart drops what is owed and
  not shown. A driver that does not keep its callers apart (`keepsApart`) is
  held to the order of bytes until two calls have overlapped or one was sent a
  signal (`disturbed`); from then on until the next restart any byte may
  appear (`Disorder`), but none that has appeared is lost or changed.

### 2.1 How state and actions correspond to the code

*Peripheral.* A register is the set of its bits; `|=`, `&= ~` and `^=` are
union, difference and symmetric difference. A FIFO is a sequence with room for
`FifoSize - 1` bytes, which `RingFifo` justifies. Each handler is one action,
including the final `comento_mmio_update`. Reads of FR, RIS, IMSC and MIS
change nothing and appear where the driver makes them. `qom-set` of an empty
string returns early and is no step. The host's string holds no zero byte
(`strlen`).

*Threads.* A thread is a program counter; a step is the code between two
accesses to state that another thread can touch. These accesses share a step,
because no other thread can tell the difference: acquiring the lock with the
first access under it, releasing it with the last; mapping or unmapping the
buffer with the access next to it (the mapping count is read by nobody; it is
there for the properties); `dmaengine_submit` with
`dma_async_issue_pending`, since a submitted transfer that is not issued does
nothing and its cookie is read only by rx_dma_work, which in both orders finds
either the old or the new transfer.

*DMA controller (external).* `transfers` is the queue of issued transfers with
the bytes moved so far. A byte moves while the channel runs and the busy line is
low; reception calls `ReadDR` and stores what it returns, transmission calls
`WriteDR`. A full buffer (reception) or a finished length (transmission)
completes the transfer in the tasklet, which removes it and calls the callback.
`dmaengine_pause` stops the channel, `dmaengine_terminate_sync` drops all
transfers, `dmaengine_tx_status` of the last cookie gives the bytes left, and
nothing left for a transfer that is gone. What the emulated controller does
beyond that, and the latency of the busy lines, is not modelled.

*Lock.* `holders` is the set of threads that hold `cmdev->lock`. There is one
reader thread, so the sharing of the read lock never shows. The lock leaves
interrupts enabled, hence the two ways of the button's interrupt in `RxPath`: on
a CPU that has nothing to do with the lock (`Press`), or on the CPU of the
thread that holds it (`PressOnHolder`). In the second case neither the handler
nor the thread gets any further (`Wedged`); all others may.

*read().* `Read` is the call, `ReadLock` takes the lock and looks at `rx_size`
for the first time (W4:361), `ReadLength` for the second (362), `ReadCopy` is the
copy and the unlock. rx_dma_work, which takes no lock (113), may come between
the two looks, and a read may then return more than it was asked for;
`ReadStaysInBuffer` says that even so it does not pass the end of `rx.buf`.

*Callbacks.* `comento_dma_rx_callback` runs in the tasklet and is also called
by both bottom halves; `CallbackStep(t)` is the same code in thread `t`.

*write().* `Call` is the entry and the first test of `len`; each round of the loop is
`WaitEvent`, `Copy`, `SetLength`, `Prepare` (or `PrepareFails`, the `break`), `LedOn`,
`Issue`; then the last `WaitEvent` and `Return`. A sleeper is woken by the
callback or by a signal and tests its condition again; a pending signal ends
the wait, and the code ignores that it did.

*Programmed I/O (`PioDriver`).* The peripheral of week 2 has neither DMA nor
RX_EMPTY, so it is modelled anew and not taken from `MmioDevice`. Probe unmasks
both interrupts for good, hence MIS is RIS and the line is high while RIS is not
empty. write() holds `lock` from `WriteLock` to `WriteUnlock` and has one round
of `WaitEvent`, `Put` per byte. The bottom half is `TakeWork`, `WorkLock`, one
`Drain` per byte, `WorkUnlock`. Once it has the lock, read() is a step of its
own: the lock keeps the bottom half out, and a writer touches nothing that
read() reads. `irqBit` and `count` are put back to a fixed value when nobody
uses them any more, which merges states that differ in dead variables only. The
host need not wait for anything before it sends; `hasty` remembers whether its
last message did. The one thing it does not do in the model is to refill the
FIFO under the loop of rx_work so often that the loop runs over the end of
`rx_buf` (3.1).

*CPUs (`PioDriver`, `LockedDriver`).* `onCpu` is who keeps a CPU to itself: the
threads that spin on the lock (`Spin`) and the one that holds it awake. All
others share what is left, and can take a step while `onCpu` has fewer than
`Cpus` members. A writer that goes to sleep with the lock leaves its CPU, and
needs one again to go on. With as many spinners as CPUs it gets none, and
nothing moves any more but interrupts (`Wedged`, `LockedUp`).

*Locked variant (`LockedDriver`).* `week04/mmio-memcpy.c` differs from W4 in two
places: write() takes `write_lock` before its loop and releases it after the
last wait, and rx_dma_work lights the blue LED whatever it received. The threads
of `RxPath` and `TxPath` are used as they are; `BeginWrite` and `EndWrite` add
the lock to `Call` and `Return`, and each thread needs a CPU. The button's
interrupt comes to a free CPU or interrupts one that spins or holds the lock
(`victim`); and that CPU may be the one that serves the DMA's interrupt and
tasklet (`onIrqCpu`), which then wait for the button's handler to end
(`IrqsServed`). `LockedUp` lists what stops the machine for good: the handler on
the holder's CPU; the handler on the CPU that would have to wake the holder; a
spinner on every CPU, and a holder that has none. The host fetches only when
there is something to fetch: each fetch raises TX, the handler serves TX before
RX, and a host that polls in step with the handler would keep RX from being
served.

*Probe and remove (`Lifecycle`).* A probe is the sequence of the things it
obtains, in the order of the code; each step says whether it can fail, whether
probe() tests the result, and which channels it releases before it leaves.
`Probe` and `Removal` pick the sequences of the version that the kernel was
built with. `held` is what belongs to this binding; the statics, `/dev`, the
hash table, channels and wake-up settings live on. What may run meanwhile is
reduced to what it touches: the handler to the work it schedules, a bottom half
(`StartWork`, `EndWork`) to the channel, buffer and LEDs it uses from beginning
to end, a call (`BeginCall`, `EndCall`) to the structure that `get_device` found
and what its operation needs: the lock, the register base, buffers, channels,
LEDs, the wait queue, in the order in which the code comes to them (`CallNeeds`,
`WorkNeeds`, `ButtonNeeds`). It may be done before it comes to the last of them
(`Touches`). The first access to something that is not there becomes `trouble`,
and the model stops: what follows is undefined behaviour. The self test of the
memcpy variant tests neither the channel nor the buffers nor the descriptor, so
each can be missing when it is used (`SelfTest`). devres releases what the
`devm_` functions obtained, latest first, after a failed probe or a remove
(external).

*Log (`LogDevice`, `LogSystem`).* The peripheral's FIFOs, flags and busy lines
are commented out in these files or never used; what is left is the file, RIS,
IMSC and the line. `log` is what the file holds under its name; `logFile` tells
a removed file that QEMU still has open ("nameless") from the one that everybody
can read. `version` is the driver of the guest. In "log" a writer moves one byte
a step under the lock. In "logdma" there is no lock, and a step is the code
between two accesses to what another writer or the callback can touch:
`WaitEvent`, `Copy`, `SetLength`, `Prepare` (with `tx.queued = true`) or
`PrepareFails`, `Issue`, `ReturnDma`; on the other side the channel's `MoveByte`
and `Complete`, and `TxCallback`. Any number of writers may be anywhere in it,
and a signal ends their waits. `disturbed` is history: since the start of the
machine, two such calls have overlapped or one was sent a signal. The lines
after the early `return IRQ_NONE` in the handler of "logdma" are unreachable,
hence `Branches`. `Restart` is the end of QEMU and its start, with the file as
it is, whether or not it can be opened.

*Scale (`SpiScale`).* A call of show or store is `Call`, `Lock` (with the
command byte put into `tx_buf`), `Submit` (the message gets the bus), three byte
transfers `SendCommand`, `ReceiveHigh`, `ReceiveLow`, then `Unlock` and
`Return`; `SyncFails` and `UnlockFailed` are the error path, which may begin at
any byte and leaves the peripheral where it is. The host changes the weight
between any two steps. An unbound driver has no state; `Probe` starts from
zeroed buffers and a free mutex, and sysfs_create_group may fail, which is not
tested: the driver is then bound without its file. remove() is `DestroyMutex`,
`RemoveGroup`, which keeps newcomers out of the file, and `RemoveEnd`, when
those inside have left. Between the first two a call may still come and take the
destroyed mutex; in a kernel without mutex debugging `mutex_destroy` does
nothing, and the mutex still locks and unlocks. `char` is unsigned on ARM, the
platform of the boards, and `short` has the width of two bytes (`Short`).
`moved` is history: whether the weight changed since the high byte was read.

### 2.2 Names that bound the instances

| Name | Module | Meaning |
|---|---|---|
| `FifoSize`, `RxBufSize`, `TxBufSize` | all | COMENTO_FIFO_SIZE (32) and COMENTO_DMA_BUFFER_SIZE (4096), small |
| `Messages`, `ReadSizes`, `Script` | | what the host sends, a reader asks for, a writer writes |
| `Budget` | `RxPath` | how often the host sends and fetches, the button is pressed, the file is opened and read, and mapping or preparing fails |
| `MaxSignals`, `MaxFaults` | `TxPath` | the same for signals and failures |
| `Letters` | `PioDriver` | the messages of the host, in order |
| `Cpus` | `PioDriver`, `LockedDriver` | the CPUs of the guest |
| `MaxReads`, `MaxSignals`, `MaxActs` | `PioDriver` | reads and openings, signals, and how often host, reader and signals act in all |
| `Base`, `Weights` | `SpiScale` | the values of a byte (256), the weights the host puts on |
| `MaxCalls`, `MaxMoves`, `MaxFaults`, `MaxProbes` | `SpiScale` | calls, changes of the weight, failing transfers or files, bindings |
| `Paced` | `RxPath` | the parties (host, reader, button) that act only while the driver is at rest |
| `Versions` | `Lifecycle`, `LogSystem` | the versions of the driver that are checked |
| `Spare` | `Lifecycle` | DMA channels for copies of memory that nobody uses |
| `Budget` | `Lifecycle` | probes, failing steps, messages, opened files, calls |
| `Budgets` | `LogSystem` | combinations of how many writes, erasures, restarts, failures and signals |
| `DmaBufSize` | `LogSystem` | COMENTO_DMA_BUFFER_SIZE, small |
| `Junk` | all | what a buffer holds that was never written |
| `UnclaimedLimit` | `LogSystem` | unclaimed interrupts before the kernel disables the line (99,900 of 100,000) |

`Paced` separates two questions. With all three parties paced the driver's own
threads, the interrupt and the DMA controller still interleave freely, and the
question is whether that alone can go wrong (`rx_paced`: it cannot). With none
paced, the question is what survives anything (`rx_crowd`). The findings below
are what lies between.

## 3. Runs

| Run | Shows | Instance |
|---|---|---|
| `ring_fifo` | the ring is a queue | five slots, two bytes; every pair of indices |
| `device` | flags tell the FIFOs, the busy lines and the interrupt line follow the state; a pending interrupt stays true until a late acknowledgement | 4 slots (3 bytes), messages of 0 to 4 bytes, all masks, any ICR write |
| `rx_paced` | reception implements `Mailbox`; transfers are owned; rest is clean, also after a failure to map or prepare | FIFO of 2, buffer of 3; messages that fit, fill and overrun; 3 sends, 2 reads, a press, a reopen, a fetch (TX interrupt), a failure |
| `rx_crowd` | types, reads inside the buffer, everything ends but for a press on the CPU of the lock's holder | nobody paced, 2 sends, 2 reads, a press |
| `tx_stream` | transmission implements `ByteStream`, one transfer at a time | writes of 3, 1, 0 and 2 bytes with a buffer of 2 and a FIFO of 2; two failures |
| `tx_crowd` | every write returns, also after a signal or a transfer that cannot be prepared | two writers, one signal, one failure |
| `spi_scale` | the scale implements `Balance`: a reading mixes two weights at most and never two zero points; a still weight is shown as it is; every call has the buffers and the cycle for itself, also between mutex_destroy and the removal of the file; every call and every remove() ends | bytes of four values, weights 0 (at first), 3 and 8; two callers, three calls, two moves, one failure, two bindings |
| `pio` | the driver of week 2 implements `Mailbox`, with losses to a hasty host only, and `ByteStream`, with losses to signals only and no short writes; everybody gets the lock, or both CPUs spin on it | FIFO of 2; two CPUs, two writers (3 bytes and 1 byte); two messages, the first too long, two reads and a signal, any three of these |
| `locked` | the locked variant implements `ByteStream` and `Mailbox` at once; nobody spins for ever on the lock of a sleeping writer, unless spinners or the button lock the machine up | two CPUs; FIFO of 1 byte, buffers of 1 and 2; two writers (two chunks, one chunk), a message, a read, a press |
| `lifecycle` | see below | six versions; three probes, one failing step, one message, one open file, one call; two spare channels |
| `log` | both drivers implement `Journal` through erasures and restarts, the one with DMA as long as calls neither overlap nor are sent signals; every interrupt of the first is claimed; storms end; every write() returns | two writers, messages of 3 and 1 bytes, DMA buffer of 2; one write with two erasures and a restart; two with an erasure, a restart and a failure, or with a restart, a failure and a signal; or three writes |
| `tx_two_writers` | the finding of section 3.1 | two writers |

`lifecycle` asks what binding can do to a system that is in use. While a device
is bound, nothing that belongs to this binding can meet trouble, unless a result
that probe() does not test was an error (`BoundIsSafe`): trouble comes from
before, from after, or from something that has outlived its binding. When
probe() or remove() is over, every node has one entry in the table, also after a
failed probe, and no probe ever finds its name taken (`NodesMatchTable`). As
long as nothing has failed, an unbinding leaves no node, entry, slave channel or
wake-up setting behind; the memcpy variant loses the channel of its self test,
exactly one for each binding, and the others lose none (`UnbindGivesBack`). Some
trouble is out of reach of some versions for good (`RepairsHold`): each version
repairs one thing of the one before. And a failed probe does not spoil the next
(`RetrySucceeds`), but for the channels, see 3.1.

The bounds are enough for the cases that matter: the FIFO fills in the middle of
a transfer, a message overruns it, two writers wait, copy and prepare side by
side, spinners and the button take every CPU, a write needs several transfers,
the last of which does not fill the buffer, the DMA buffer of reception can fill
up and complete on its own when messages follow one another, two messages
overlap, and a transfer can be overtaken by the interrupt of the one before it.
A binding can fail at any step, be undone and be repeated while a file, a call
or a bottom half of the one before is still there. Erasures come before, between
and after restarts, with a transfer under way or a writer at the lock. Neither
the code nor the properties look at anything larger: sizes enter only in
comparisons with "full" and "empty". The proofs of section 5 remove the bounds
for every safety property of every run but `locked`.

`Lifecycle.cfg` and `Log.cfg` are without TLC's deadlock check: `Lifecycle`
stops at the first trouble, and both come to rest when their budget is spent. At
rest `RxPath` may take the step `Wait`, so that TLC's deadlock check reports
only a system stuck in the middle of something; in `TxPath` the host can always
fetch.

### 3.1 Findings

A run in which TLC finds the wording of a comment violated:

| Run | What the code does | Where |
|---|---|---|
| `tx_two_writers` | a second writer overwrites `tx.buf` under a running transfer; the comment (W4:223) says write() waits until the DMA has ended | W4:224 |

Not checked by runs of their own, but worth knowing:

* rx_work of week 2 drains the FIFO into `rx_buf[32]` for as long as the host
  refills it (W2:146), and nothing bounds the index. In `PioDriver` the host
  does not go that far.
* rx_dma_work acts on an RX_EMPTY interrupt that may be out of date, and
  terminates a transfer although new data has come in (W4:119).
* write() of week 2 (W2:70) and of the memcpy variant
  (`week04/mmio-memcpy.c:129`) sleeps with a spinlock held. Those who want the
  lock keep their CPUs while they wait for it: with as many of them as CPUs, the
  sleeper never runs again, whatever wakes it. The guests of the repository's
  `README.md` have two CPUs (`-smp 2`, lines 77, 160, 229, 295) or four (`-smp
  4`, lines 377, 443, 612); rx_work and a reader are enough for two, and two
  more writers for four. `Wedged` and `LockedUp` are reachable in `pio` and
  `locked`, and `LockIsShared` and `NobodySpinsForEver` say that nothing less
  stops the machine.
* The button's handler takes `write_lock` in interrupt context (W4:131,
  `week04/mmio-memcpy.c:320`), while the threads that hold the lock have
  interrupts enabled. On the CPU of the lock's holder it spins for ever
  (`PressOnHolder`, `LockedUp`). In the memcpy variant it also does so on the
  CPU that takes the interrupt of the DMA for which the holder sleeps.
* In all versions with DMA, a probe that fails after the transmit channel was
  had keeps it (W4:460), and later probes find it taken. All but the memcpy
  variant also release the error code that stands for a receive channel which
  could not be had (W4:142-179).
* remove() does not wait for bottom halves, and an open file lets a call begin
  before and end after it: `lifecycle` reaches a use of freed memory in every
  version. What each can reach besides: `week02` no work, no queue, no device;
  `week03` no channel, no work, no queue, no buffer, a released error; `week04`
  the same without the queue, and no LEDs; `memcpy` no channel, no LEDs, no
  work, no buffer; `log` no device; `logdma` no channel, no buffer, no device, a
  released error. `RepairsHold` pins the absence of the others.
* The handler of the log driver with DMA returns before its RX branch
  (`week03/과제03/mmio-driver.c:285`), so the interrupt of an erasure is never
  acknowledged and ends in the kernel disabling the line. Nothing else of the
  driver needs it.
* write() of that driver has no lock either. Between its wait for `tx.queued`
  (`week03/과제03/mmio-driver.c:184`) and the setting of it (216) a second writer
  passes the same wait: one overwrites `tx.buf` or its length under the other,
  and bytes get lost, doubled or mixed, or are those of no message at all. A
  signal lets a single writer do that to its own transfer. `IsJournal` promises
  the order of bytes only before that (`disturbed`); that every write() returns
  (`WriteReturns`) holds all the same.
* comento_spi_remove destroys the mutex (`week05/spi.c:116`) before it removes
  the file whose handlers take it (117). The calls that come in between are in
  `SpiScale`, and its properties hold over them, since `mutex_destroy` changes
  nothing in a kernel that does not debug mutexes.
* After an erasure the log device goes on writing into a file without a name
  until QEMU is started again (`Journal` calls it deaf).
* ICR toggles (W3:133), so an acknowledgement that comes after the FIFO was
  drained raises the interrupt again. With DMA what follows is bounded:
  whatever the raised interrupt starts comes to an end (`SettlesDown` holds in
  `rx_crowd`, `PendingStaysTrue` names the one register write that does it).
* In week 2 the same toggle loses a message: when a second one arrives while the
  first is served, the bottom half may drain both before the second interrupt is
  acknowledged; the interrupt raised by that acknowledgement finds an empty FIFO
  and sets `rx_size` to 0 before anybody has read. `PioDriver` does that when
  the host is `hasty`, and `IsMailbox` allows it then and only then; a host that
  waits for reception to rest before it sends never loses a mail.
* A host that fetches without end raises TX again and again, and the handler of
  week 2 serves TX before RX: the bottom half may then never be scheduled.
  `LockIsShared` speaks of work that has been scheduled.
* A signal makes write() of week 2 put a byte into a full FIFO (W2:73); the
  device drops it and write() counts it. `LostToSignalsOnly` says that this is
  the only way to lose one, and `IsByteStream` that the call under the signal is
  the one that loses it.
* A reading of the scale may take its high byte from one weight and its low byte
  from the next (`week05/qemu-ssi.c:35`). `Balance` allows exactly that, and
  `StillWeightIsShown` says when it cannot happen.

The same lack of a lock in rx_dma_work also lets `rx_size` change under a reader
(W4:113), also between the two looks of one read (`ReadLength`), the blue LED
come on after a press of the button (W4:115) and `rx.queued` be cleared for a
transfer that has just been started (W4:118); the transmit callback may turn off
the LED of the next transfer (W4:203), and a signal has the effect of a second
writer (W4:224). These are the reasons why `TransferIsOwned`, `RestIsClean` and
`IsMailbox` of reception are claimed for paced parties and `OneTransferAtATime`
and `IsByteStream` of `TxPath` for one writer without signals.

## 4. Fairness

Safety runs use no fairness except where one specification serves several
questions. Liveness (`SettlesDown`, `WritesReturn`, `IsByteStream`, `LockIsShared`,
`EverythingEnds`, `NobodySpinsForEver`, `StormEnds`,
`WriteReturns`, `RetrySucceeds`) assumes weak fairness of:

* in `TxPath`, the DMA controller's move of a byte while its busy line is low,
  the tasklet, and the thread of each write: the kernel schedules runnable threads;
* in `RxPath` and `LockedDriver`, the machine as a whole: of all that was
  started, something goes on as long as anything can. That is weaker than
  fairness of each thread, and enough because messages, reads, presses and
  writes are finite in number. What is wedged, or gets no CPU, cannot go on, and
  no fairness moves it;
* in `PioDriver`, each writer, the bottom half, a read that spins on the lock
  and the interrupt, each only as long as a CPU is left for it: the sleeping
  holder of the lock has no claim to one;
* in `TxPath`, `PioDriver` and `LockedDriver`, the host's fetch: without it the
  device stays full and a writer sleeps, by design (where it holds the lock, the
  bottom half and readers wait with it);
* in `SpiScale`, each call that is under way, and a remove() that has begun,
  which ends once those inside have left: the mutex is not fair in the model,
  but calls are finite in number, so whoever waits gets it;
* in `LogSystem`, each writer, the DMA and the handler; the rwlock is not fair
  in the model, but writes are finite in number;
* in `Lifecycle`, the driver core: a probe() or remove() that has begun goes
  on to its end.

The two properties of a lock that is held asleep, `LockIsShared` and
`NobodySpinsForEver`, therefore depend on the number of CPUs. They are checked
for two, the number with which the repository runs the guest of week 2; the
guest of week 4 has four. With k CPUs it takes k spinners to lock the machine
up, so more CPUs need more writers to reach what two reach with the writers of
the runs. The scheduler of the models may run any thread and any worker on any
CPU.

No fairness is assumed of anybody who sends, reads, opens, presses or calls.

## 5. Proofs

All are checked by TLAPS for every value of the constants under the named
assumptions (`SizeAssumption`, `ZeroAssumption`, `FifoSizeAssumption`,
`MessagesAssumption`, `RxBufAssumption`, `PacedAssumption`, `JunkAssumption`,
`RxReadSizesAssumption`, `BudgetAssumption`, `TxBufAssumption`,
`ScriptAssumption`, `TxBoundsAssumption`, `PioSizeAssumption`,
`PioLettersAssumption`, `PioReadSizesAssumption`, `PioScriptAssumption`,
`PioNamesAssumption`, `PioBoundsAssumption`, `VersionsAssumption`,
`SpareAssumption`, `LifeBudgetAssumption`, `BaseAssumption`,
`WeightsAssumption`, `NoOneAssumption`, `BoundsAssumption`,
`LogVersionsAssumption`, `LogMessagesAssumption`, `LogSizesAssumption`,
`LogBudgetAssumption`), which say that a ring has at least one slot, the
peripheral's at least two, that messages are sequences of bytes, a writer's
script is a sequence of such messages and a read asks for a `size_t`, that the
receive buffer holds a full FIFO (4096 bytes against 32) and every other DMA
buffer a byte, that what was never written to a buffer is told apart from bytes
and a lock without holder from threads, that the versions are among the six of
the repository, that a byte has an even number of values, four at least, that
weights fit into two bytes, that the kernel bears one unclaimed interrupt at
least, and that the bounds are natural numbers.

Some theorems have a hypothesis about who acts when. It is the one of the run
that checks the property, and the run next to it shows that the property needs
it: `Writers = {w}` and `MaxSignals = 0` (`tx_two_writers` violates
`WaitsForDma` without it), and `Paced = Parties` (the reasons are in section
3.1). The programmed-I/O driver and the log need no such hypothesis: what a
hasty host, a signal or a second writer may cost is said by the abstract
specification.

| Theorem | Says |
|---|---|
| `RingFifoProofs!TypeCorrect` | `Spec => []TypeOK` for the ring |
| `RingFifoProofs!RingImplementsFifo` | `Spec => IsBoundedFifo`: the ring implements the queue |
| `MmioDeviceProofs!DeviceTypeCorrect` | `DeviceSpec => []DeviceTypeOK` |
| `MmioDeviceProofs!FlagsAndBusyLinesCorrect` | `DeviceSpec => [](FlagsTellFifos /\ BusyLinesThrottle)` |
| `MmioDeviceProofs!LinesCorrect` | `DeviceSpec => []LinesFollowState` |
| `MmioDeviceProofs!PendingCorrect` | `DeviceSpec => PendingStaysTrue` |
| `RxPathProofs!RxTypeCorrect` | `Spec => []RxTypeOK`, whoever acts when |
| `RxPathProofs!ReadsStayInBuffer` | `Spec => []ReadStaysInBuffer`, whoever acts when |
| `RxPathProofs!TransferOwned` | `Spec => []TransferIsOwned` when `Paced = Parties` |
| `RxPathProofs!RestCorrect` | `Spec => []RestIsClean` when `Paced = Parties` |
| `RxPathProofs!MailboxCorrect` | `Spec => IsMailbox` when `Paced = Parties` |
| `TxPathProofs!TxTypeCorrect` | `Spec => []TxTypeOK`, for any writers and signals |
| `TxPathProofs!OneTransferCorrect` | `Spec => []OneTransferAtATime` for one writer without signals |
| `TxPathProofs!WaitsForDmaCorrect` | `Spec => WaitsForDma` for one writer without signals |
| `TxPathProofs!StreamCorrect` | `Spec => Stream!Spec` for one writer without signals |
| `PioDriverProofs!LostToSignalsCorrect` | `Spec => LostToSignalsOnly`, for any writers, host and signals |
| `PioDriverProofs!PioStreamCorrect` | `Spec => IsByteStream`, for any writers, host and signals |
| `PioDriverProofs!PioTypeCorrect` | `Spec => []PioTypeOK`, for any writers, host and signals |
| `PioDriverProofs!PioMailboxCorrect` | `Spec => IsMailbox`, for any host, hasty or not |
| `LifecycleProofs!LifecycleTypeCorrect` | `LifeSpec => []LifecycleTypeOK` |
| `LifecycleProofs!NodesMatchTableCorrect` | `LifeSpec => []NodesMatchTable` |
| `LifecycleProofs!UnbindGivesBackCorrect` | `LifeSpec => []UnbindGivesBack`, the self-test channels counted |
| `LifecycleProofs!RepairsHoldCorrect` | `LifeSpec => []RepairsHold` |
| `LifecycleProofs!BoundIsSafeCorrect` | `LifeSpec => BoundIsSafe` |
| `LogProofs!LogTypeCorrect` | `LogSpec => []LogTypeOK` |
| `LogProofs!ClaimsCorrect` | `LogSpec => []EveryInterruptClaimed` |
| `LogProofs!LogIsJournal` | `LogSpec => IsJournal`: the locked driver implements the journal for any writers, the one with DMA until two calls overlap or one is sent a signal |
| `SpiScaleProofs!ScaleTypeCorrect` | `Spec => []ScaleTypeOK` for the scale |
| `SpiScaleProofs!ExchangeCorrect` | `Spec => []ExchangeIsOurs` |
| `SpiScaleProofs!StillWeightCorrect` | `Spec => []StillWeightIsShown` |
| `SpiScaleProofs!ScaleImplementsBalance` | `Spec => IsBalance` |

*The ring.* `TypeOK` is inductive. The refinement needs it for the arithmetic:
the number of bytes grows by one on enqueue and shrinks by one on dequeue
modulo the size, and the contents after the step are an append or a tail of
those before; these are lemmas about `%` and about `Contents`, one per case of
a wrapped and an unwrapped ring.

*The peripheral.* `DeviceTypeOK` is inductive; the bound on the FIFO lengths
follows from the tests of `IsFull`. `FlagsTellFifos` and `BusyLinesThrottle`
need each other and the types: a write of DR, for example, keeps "TXFF iff full"
only because a FIFO that is not full loses no flag it had. The line needs
nothing but the fact that every action ends with `Update`. `PendingStaysTrue` is
an action property: given the types, every handler keeps `PendingIsTrue`, except
a write of ICR with a bit that is not pending.

*Reception.* `RxInv`, the types and `ReadStaysInBuffer` together, is inductive
without any hypothesis, although `rx_size` may change between two reads of a
file and so fall below its offset, and between the two looks of one read. After
the first look the length is the one asked for, and the copy ends at or before
`rx_size`; after the second (`ReadLength`) it is what `rx_size` leaves behind
the offset, and where that is negative copy_to_user refuses it and nothing is
copied. In both cases the copy ends within `RxBufSize`, which bounds `rx_size`,
whoever changes it. The other three properties are false when host, reader and
button are not paced, so they have an invariant of their own, `PacedInv`: the
system is in one of six stages (`Stage`) that follow one another. `Calm`; a
message has `Arrived` and its interrupt or rx_work is on its way; rx_work is
`Starting` a transfer; the channel is `Moving` bytes; the FIFO is `Emptied` and
the interrupt for that is on its way; rx_dma_work is `Finishing`. Each stage
says who is at rest, who has the lock, which interrupt is pending and where the
transfer is. The other interrupt, TX of a host's fetch, only occurs in `Calm`. A
transfer never completes on its own, because what it moved and what is in the
FIFO are less than `FifoSize` together, and `RxBufAssumption` gives the buffer
more room than that. What a failed bottom half left in the FIFO is why `Calm`
has `StuckByFault`. A press on the CPU of the lock's holder cannot happen, since
nobody holds the lock when a paced button is pressed. The refinement needs the
stages to know that a message joins a parcel only in the FIFO, that the mail is
thrown away (`MakeRoom`) by the issue of the transfer and replaced (`Deliver`)
when rx_dma_work takes the size; a move of a byte is a stutter, since it takes
the head of the FIFO to the end of what is in `rx.buf`.

*Transmission.* `TxInv` is `TxTypeOK` and `SentWasCopied`: the part of `tx.buf`
that a transfer or a writer counts on was copied from a user before. The types
need it, since a byte the controller moves has to be a byte and not what the
buffer held at probe. It holds for any writers and signals. With one writer and
no signals `InTurn` adds that `tx.queued`, the mapping, the LED and the queue of
transfers tell where the writer is; hence one transfer at a time, and `Copy`
only finds an empty queue. `InHand` adds which bytes the chunk has: those of
`tx.buf` from the position of the transfer, followed by the rest of the user's
string, are what has not reached the FIFO. The refinement maps a move of a byte
to `Emit`, a failure to prepare to `GiveUp` and the return to `Return`; copying
and issuing are stutters, since the bytes of the transfer followed by those of
the user stay the same.

*Programmed I/O.* `PioInv` are the types (`Typed`), flags that agree with the
FIFOs (`FlagFacts`), the lock tied to the program counters (`LockFacts`), a
writer at `Put` that finds the FIFO full only when it has been signalled
(`WriterFacts`): it saw room under the lock, and of all others only the host
touches the FIFO, which makes room; and `rx_buf` with room for what is still to
be drained (`BufferFacts`). None of it has a hypothesis, and it is what
`LostToSignalsOnly` and the byte stream need: there `Put` is an `Emit`, or a
`Lose` with the signal at hand, and `GiveUp` never happens, since `faults` is 0.
For the mailbox `BoxInv` adds `OnItsWay`, for as long as the host is not
`hasty`: the message is at one place between interrupt and bottom half, and
whenever rx_work begins to drain there is something to drain. So the drain of an
empty FIFO, which throws the mail away, is a `Lose` of a hasty host or does not
happen; and a host that waits for reception to rest makes `OnItsWay` true again.

*Probe and remove.* The proofs look at the steps of the six versions only
through `ProbeFacts` and `RemovalFacts`, properties of the twelve sequences that
are proved once for each, for example that an error path releases only what was
obtained or that the queue comes before what uses it. `LifeInv` has five parts.
`TypeInv` are types and how far probe() or remove() is. `TableInv` relates
table, nodes and minors, also during the two steps in which they differ.
`HeldInv` says that every step of probe() that is behind has left what it
obtains, unless it can fail without being tested, and that whoever has LEDs or,
in the versions that repaired the order, a channel has the queue. `BalanceInv`
bounds what survives a binding (entries, channels, wake-up settings) by the
steps of probe() done and those of remove() to come, as long as nothing has
failed; `BalancedSpare` counts the channels that self tests have kept, one for
every binding that has got so far. `RepairInv` is `RepairsHold` with the fact
that nobody schedules work of a log driver. None is inductive alone: that an
error path releases no error code, for example, needs `HeldInv`, and that needs
the steps of `TypeInv`. `BoundIsSafe` follows from `HeldInv`: while bound, all
that a call or an interrupt needs is held or untested.

*The log.* The inductive invariant is `LogInv`: types, `Serving`, `Locking`,
`Handing` and `Alone`. `Serving` says that RX is raised for as long as the
handler runs, since only its own acknowledgement withdraws it; hence a branch
for RX always finds its reason, and a handler without one never acknowledges.
`Locking` says who can have something in hand: the first driver's writer with
the lock, or the second's channel, never both. `Handing` says that whatever is
on its way is part of a message. `Alone` is what the second driver has in place
of a lock, and has only while it is not `disturbed`: one caller (`OneCaller`),
one transfer, which has ended whenever a writer fills the buffer
(`OneTransfer`), and a buffer, a length and a chunk that are the message's own
(`OneChunk`). Under the refinement `owed` is the file followed by what is in
hand; `ShowHead` says that moving the first byte from the hand to the file
leaves `owed` as it is, so a byte is a `Show`, taking the lock or issuing a
transfer is a `Hand` (nothing, when the device is deaf), and a restart drops
exactly what is in hand. Once the driver is disturbed, every step but an erasure
or a restart is a `Disorder`, for which it is enough that the file grows by one
byte at most.

*The scale.* The inductive invariant is `ScaleInv`: types, `ExchangeIsOurs` and
the auxiliary `FreedIsUnused` (an unbound driver has no caller inside, no lock
and no file) together. None is inductive alone: that `cycle` stays below 3 needs
to know that whoever receives the low byte finds `cycle` 1, that the command on
the bus is the caller's own needs the mutex, and that a new `Probe` may reset
the mutex and the buffers needs `FreedIsUnused`, which rests on sysfs waiting
for those inside (external). `StillWeightIsShown` adds `FreshBytes`: while
`moved` is false, the bytes received so far are those of the weight and zero
point of now; only the host's move and a zeroing could break it, and the first
sets `moved`, the second is kept out by the mutex. The lemmas `BytesMakeWord`
and `SignIsHighHalf` say that the two digits of a number are that number modulo
a word, and that its sign is that of its high digit. The refinement maps the
steps of the exchange to the abstract ones: `SendCommand` of "zero" to `Zero`,
which needs that no other call is between its two bytes, `ReceiveHigh` and
`ReceiveLow` to the taking of a digit, the rest to asking, telling or nothing.

*Only model-checked.*

* Liveness, which is outside the prover's reach (fairness and ENABLED): `SettlesDown`,
  `WritesReturn`, `EverythingEnds`, `RetrySucceeds`, `StormEnds`,
  `WriteReturns`, `LockIsShared`, `NobodySpinsForEver`.
* The fairness of `ByteStream`: in `TxPath`, `IsByteStream` also asks that
  whatever is written comes out in the end (`FairSpec`). `StreamCorrect` proves
  the rest of it, `Stream!Spec`: that initial states map to initial states and
  every step to a step or a stutter of `ByteStream`.
* `FullDuplex` of `LockedDriver`: its directions are those of `RxPath` and
  `TxPath` step by step, but the proofs of these do not carry over as they are:
  the lock takes the place of the hypothesis about writers, and TX interrupts
  may come between any two steps of reception.

## 6. Not modelled

* The handlers, bottom halves, read() and write() of `week03/mmio-driver.c`:
  they are those of W4 without LEDs and button. Its probe and remove are in
  `Lifecycle`.
* Programmed I/O in `week04/mmio-memcpy.c`, chosen when the kernel has no DMA
  engine (`PioDriver` has the same loops), and the bytes its self test copies,
  which are only printed.
* Suspend, resume and wake-up, which the drivers enable and the kernel carries out.
* An ioctl with an unknown command (it returns an error and changes nothing).
* The GPIO driver and tool of week 4: they mirror a button on an LED; the part
  that the driver took over is in `RxPath`.
* `copy_from_user` and `copy_to_user` that fault; the one refusal of
  `copy_to_user` that the driver provokes itself (a negative length) is modelled.
* Sleeping under a spinlock (`dmaengine_terminate_sync` under `write_lock`, the
  waits of write() in `week02/mmio-driver.c` and `week04/mmio-memcpy.c`) is
  against the kernel's rules. The model lets it succeed and has what follows for
  the CPUs; what a kernel says of it that checks ("scheduling while atomic"),
  and the preemption count it leaves behind, is not modelled.
* The scheduler's binding of work to the CPU that scheduled it, and of
  interrupts to a CPU other than in `LockedDriver`: a thread or worker may run
  on any.
* A kernel that debugs mutexes, where a call between `mutex_destroy` and the
  removal of the file would be reported.
* Boards, device trees, kernel configurations, scripts: no behaviour of their own.
* Weak memory: accesses are sequentially consistent.

## 7. Plan

Order of work, most important behaviour first; all but 10, 12 and 13 are done.

1. `RingFifo`/`BoundedFifo`, `MmioDevice`, with proofs.
2. `MmioIrq`: the top half.
3. `RxPath`/`Mailbox`.
4. `TxPath`/`ByteStream`.
5. `SpiScale`/`Balance`: mutex, three-byte exchange, a host that moves the
   weight in between, width of `short` and `char`.
6. `PioDriver`: write() under the lock against rx_work, read() and signals, on
   as many CPUs as there are.
7. `Lifecycle`: probe with every error path, interrupts and system calls
   during probe, remove with pending work, in six versions.
8. `LogDevice`, `LogSystem`/`Journal`: log and ioctl, the removed file, the
   interrupt that follows, restarts; the DMA version of it; with proofs.
9. `LockedDriver`: the locked variant, both directions at once.
10. A transfer of no bytes in `TxPath`, after a `copy_from_user` that faults,
    with both outcomes of the controller.
11. Proofs of the safety properties of `TxPath`, `PioDriver`, `Lifecycle` and
    `RxPath`, of the safety part of `ByteStream` and of `Mailbox`.
12. A proof of `FullDuplex`: for transmission an invariant that ties write_lock
    to the program counters (as `LockFacts` does in `PioDriverProofs`) in place
    of the single writer; for reception the stages, with a TX interrupt in any
    of them.
13. What the unpaced receive path still promises of a mail: `RxPath` with the
    guarantees of `Mailbox` given up one by one, each for its race (W4:113, 115,
    118), as `hasty` does in `PioDriver`.
