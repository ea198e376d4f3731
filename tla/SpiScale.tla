------------------------------ MODULE SpiScale ------------------------------
(***************************************************************************)
(* The SPI scale of week 5: the peripheral ssi-comento (week05/qemu-ssi.c) *)
(* and the Linux driver comento-spi (week05/spi.c), whose file "scale"     *)
(* shows the weight when read and takes "zero" when written.               *)
(*                                                                         *)
(* A call is an exchange of three bytes under csdev->lock: a command out,  *)
(* two bytes in.  The host may change the weight between any two bytes,    *)
(* and the driver may be unbound and bound again.                          *)
(*                                                                         *)
(* External: spi_sync runs one message at a time on the bus, sends zeros   *)
(* while it receives, and may fail before or between bytes; sysfs lets     *)
(* nobody into a removed file and waits for those who are inside; a mutex  *)
(* that is destroyed goes on working, but for a kernel that debugs them.   *)
(***************************************************************************)
EXTENDS Integers, Sequences

CONSTANTS
    Callers,    \* the processes that use the file
    NoOne,      \* not one of them
    Weights,    \* what the host puts on the scale (uint16_t)
    Base,       \* how many values a byte has: 256
    MaxCalls,   \* bound: calls of all processes
    MaxMoves,   \* bound: how often the host changes the weight
    MaxFaults,  \* bound: how often spi_sync or sysfs_create_group fails
    MaxProbes   \* bound: how often the driver is bound

Word == Base * Base

ASSUME BaseAssumption == Base \in Nat /\ Base >= 4 /\ Base % 2 = 0
ASSUME WeightsAssumption == Weights \subseteq 0 .. Word - 1
ASSUME NoOneAssumption == NoOne \notin Callers
ASSUME BoundsAssumption ==
    MaxCalls \in Nat /\ MaxMoves \in Nat /\ MaxFaults \in Nat /\ MaxProbes \in Nat

VARIABLES
    scale, offset, cycle,   \* struct SSI_COMENTO_State
    lock,       \* the holder of csdev->lock
    bus,        \* whose message spi_sync is transferring
    txBuf,      \* csdev->tx_buf[0]: the command
    rxBuf,      \* csdev->rx_buf
    phase,      \* "unbound", "bound", and in remove() "destroyed", "draining"
    file,       \* the file is there
    pc,         \* where each caller is
    op,         \* what it called: "show" or "zero"
    answer,     \* what its last call returned
    moved,      \* history: the weight changed after the high byte was read
    calls, moves, faults, probes    \* what is left of the bounds

peripheral == <<scale, offset, cycle>>
message == <<bus, txBuf, rxBuf>>
binding == <<phase, file>>
caller  == <<pc, op, answer>>
bounds  == <<calls, moves, faults, probes>>
vars    == <<peripheral, lock, message, binding, caller, moved, bounds>>

GET_SCALE == 1      \* COMENTO_SPI_GET_SCALE, COMENTO_SSI_GET_SCALE
SET_ZERO  == 2      \* COMENTO_SPI_SET_ZERO, COMENTO_SSI_SET_ZERO

High(n) == (n \div Base) % Base
Low(n)  == n % Base

\* Mutant: char is signed, so that a low byte in the upper half brings its
\* sign along and sets every bit of the high one.
ShortOfSignedBytes(h, l) ==
    LET n == h * Base + l
    IN  IF 2 * l >= Base THEN l - Base ELSE IF 2 * n < Word THEN n ELSE n - Word

\* val = (rx_buf[0] << 8) | rx_buf[1], a short; char is unsigned on ARM.
Short(h, l) == LET n == h * Base + l IN IF 2 * n < Word THEN n ELSE n - Word

Told(status, value) == [status |-> status, value |-> value]

Init ==
    /\ scale = 0 /\ offset = 0 /\ cycle = 0
    /\ lock = NoOne /\ bus = NoOne
    /\ txBuf = 0 /\ rxBuf = <<0, 0>>
    /\ phase = "unbound" /\ file = FALSE
    /\ pc = [c \in Callers |-> "idle"]
    /\ op = [c \in Callers |-> "show"]
    /\ answer = [c \in Callers |-> Told("none", 0)]
    /\ moved = FALSE
    /\ calls = MaxCalls
    /\ moves = MaxMoves /\ faults = MaxFaults /\ probes = MaxProbes

At(c, label) == pc[c] = label
Goto(c, label) == pc' = [pc EXCEPT ![c] = label]
-----------------------------------------------------------------------------
(* The peripheral: ssi_comento_transfer of one byte, and the host. *)

\* Mutant: a command does not start a new cycle.
TransferKeepsCycle(data) ==
    /\ offset' = IF data = SET_ZERO THEN scale ELSE offset
    /\ cycle' = IF data = 0 THEN cycle + 1 ELSE cycle
    /\ UNCHANGED scale

Transfer(data) ==
    /\ offset' = IF data = SET_ZERO THEN scale ELSE offset
    /\ cycle' = IF data = 0 THEN cycle + 1 ELSE 0
    /\ UNCHANGED scale

\* What the transfer returns, from the state it leaves.
Miso == IF cycle' = 1 THEN High(scale' - offset')
        ELSE IF cycle' = 2 THEN Low(scale' - offset')
        ELSE 0

\* ssi_comento_set_scale (qom-set); a string that is no number changes nothing.
HostMoves(w) ==
    /\ moves > 0 /\ w # scale
    /\ moves' = moves - 1
    /\ scale' = w
    /\ moved' = TRUE
    /\ UNCHANGED <<offset, cycle, lock, message, binding, caller, calls, faults, probes>>
-----------------------------------------------------------------------------
(* comento_spi_probe and comento_spi_remove. *)

\* A probe that succeeds: a zeroed csdev, its mutex, and last the file; that
\* it was made is not tested.  One that fails (spi_setup, devm_kzalloc) leaves
\* nothing.
Probe ==
    /\ phase = "unbound" /\ probes > 0
    /\ probes' = probes - 1
    /\ phase' = "bound"
    /\ \/ file' = TRUE /\ UNCHANGED faults
       \/ faults > 0 /\ faults' = faults - 1 /\ file' = FALSE
    /\ lock' = NoOne
    /\ txBuf' = 0 /\ rxBuf' = <<0, 0>>
    /\ UNCHANGED <<peripheral, bus, caller, moved, calls, moves>>

\* mutex_destroy; the file is still there.
DestroyMutex ==
    /\ phase = "bound"
    /\ phase' = "destroyed"
    /\ UNCHANGED <<peripheral, lock, message, file, caller, moved, bounds>>

\* sysfs_remove_group keeps newcomers out,
RemoveGroup ==
    /\ phase = "destroyed"
    /\ phase' = "draining" /\ file' = FALSE
    /\ UNCHANGED <<peripheral, lock, message, caller, moved, bounds>>

\* and waits until those who are inside have left.  csdev is freed.
RemoveEnd ==
    /\ phase = "draining"
    /\ \A c \in Callers : At(c, "idle")
    /\ phase' = "unbound"
    /\ UNCHANGED <<peripheral, lock, message, file, caller, moved, bounds>>
-----------------------------------------------------------------------------
(* comento_show_scale, comento_store_zero. *)

Command(what) == IF what = "show" THEN GET_SCALE ELSE SET_ZERO

\* The file is read, or "zero" written to it.  Anything else that is written
\* is accepted without a step.
Call(c, what) ==
    /\ file
    /\ At(c, "idle") /\ calls > 0
    /\ calls' = calls - 1
    /\ op' = [op EXCEPT ![c] = what]
    /\ Goto(c, "lock")
    /\ UNCHANGED <<peripheral, lock, message, binding, answer, moved, moves, faults, probes>>

\* Mutant: the mutex is not taken by the writer of "zero".
LockReadersOnly(c) ==
    /\ At(c, "lock") /\ (op[c] = "show" => lock = NoOne)
    /\ lock' = c
    /\ txBuf' = Command(op[c])
    /\ Goto(c, "submit")
    /\ UNCHANGED <<peripheral, bus, rxBuf, binding, op, answer, moved, bounds>>

\* mutex_lock, tx_buf
Lock(c) ==
    /\ At(c, "lock") /\ lock = NoOne
    /\ lock' = c
    /\ txBuf' = Command(op[c])
    /\ Goto(c, "submit")
    /\ UNCHANGED <<peripheral, bus, rxBuf, binding, op, answer, moved, bounds>>

\* spi_sync: the message gets the bus,
Submit(c) ==
    /\ At(c, "submit") /\ bus = NoOne
    /\ bus' = c
    /\ Goto(c, "command")
    /\ UNCHANGED <<peripheral, lock, txBuf, rxBuf, binding, op, answer, moved, bounds>>

\* xfer[0] sends tx_buf,
SendCommand(c) ==
    /\ At(c, "command")
    /\ Transfer(txBuf)
    /\ Goto(c, "high")
    /\ UNCHANGED <<lock, message, binding, op, answer, moved, bounds>>

\* xfer[1] receives two bytes into rx_buf.
ReceiveHigh(c) ==
    /\ At(c, "high")
    /\ Transfer(0)
    /\ rxBuf' = [rxBuf EXCEPT ![1] = Miso]
    /\ moved' = FALSE
    /\ Goto(c, "low")
    /\ UNCHANGED <<lock, bus, txBuf, binding, op, answer, bounds>>

ReceiveLow(c) ==
    /\ At(c, "low")
    /\ Transfer(0)
    /\ rxBuf' = [rxBuf EXCEPT ![2] = Miso]
    /\ bus' = NoOne
    /\ Goto(c, "unlock")
    /\ UNCHANGED <<lock, txBuf, binding, op, answer, moved, bounds>>

\* spi_sync returns an error, at whatever byte it came to.
SyncFails(c) ==
    /\ pc[c] \in {"submit", "command", "high", "low"} /\ faults > 0
    /\ faults' = faults - 1
    /\ bus' = IF bus = c THEN NoOne ELSE bus
    /\ Goto(c, "fail")
    /\ UNCHANGED <<peripheral, lock, txBuf, rxBuf, binding, op, answer, moved,
                   calls, moves, probes>>

\* val, mutex_unlock
Unlock(c) ==
    /\ At(c, "unlock")
    /\ answer' = [answer EXCEPT ![c] = IF op[c] = "show"
                                       THEN Told("shown", Short(rxBuf[1], rxBuf[2]))
                                       ELSE Told("zeroed", 0)]
    /\ lock' = NoOne
    /\ Goto(c, "return")
    /\ UNCHANGED <<peripheral, message, binding, op, moved, bounds>>

\* Mutant: the error path returns with the mutex held.
UnlockFailedKeepsLock(c) ==
    /\ At(c, "fail")
    /\ answer' = [answer EXCEPT ![c] = Told("error", 0)]
    /\ Goto(c, "return")
    /\ UNCHANGED <<peripheral, lock, message, binding, op, moved, bounds>>

\* Mutant: the result of spi_sync is not looked at.
UnlockFailedUnseen(c) ==
    /\ At(c, "fail")
    /\ answer' = [answer EXCEPT ![c] = Told("shown", Short(rxBuf[1], rxBuf[2]))]
    /\ lock' = NoOne
    /\ Goto(c, "return")
    /\ UNCHANGED <<peripheral, message, binding, op, moved, bounds>>

\* if (ret < 0): mutex_unlock, return ret
UnlockFailed(c) ==
    /\ At(c, "fail")
    /\ answer' = [answer EXCEPT ![c] = Told("error", 0)]
    /\ lock' = NoOne
    /\ Goto(c, "return")
    /\ UNCHANGED <<peripheral, message, binding, op, moved, bounds>>

\* sprintf of the local val; the caller leaves the file.
Return(c) ==
    /\ At(c, "return")
    /\ Goto(c, "idle")
    /\ UNCHANGED <<peripheral, lock, message, binding, op, answer, moved, bounds>>

CallStep(c) ==
    \/ Lock(c) \/ Submit(c) \/ SendCommand(c) \/ ReceiveHigh(c) \/ ReceiveLow(c)
    \/ Unlock(c) \/ UnlockFailed(c) \/ Return(c)

\* Nothing left to do: no call, no move and no probe within the bounds.
AllQuiet ==
    /\ \A c \in Callers : At(c, "idle")
    /\ UNCHANGED vars

Next ==
    \/ \E w \in Weights : HostMoves(w)
    \/ Probe \/ DestroyMutex \/ RemoveGroup \/ RemoveEnd
    \/ \E c \in Callers :
         \/ \E what \in {"show", "zero"} : Call(c, what)
         \/ CallStep(c) \/ SyncFails(c)
    \/ AllQuiet

Spec == Init /\ [][Next]_vars

(***************************************************************************)
(* Fairness: processes that can run do, and a remove() that has begun goes *)
(* on.  Nobody has to call, bind or unbind.                                *)
(***************************************************************************)
FairSpec ==
    Spec /\ (\A c \in Callers : WF_vars(CallStep(c))) /\ WF_vars(RemoveGroup \/ RemoveEnd)
-----------------------------------------------------------------------------
Labels == {"idle", "lock", "submit", "command", "high", "low", "unlock", "fail", "return"}

\* The code between mutex_lock and mutex_unlock.
Inside == {"submit", "command", "high", "low", "unlock", "fail"}

(***************************************************************************)
(* Type invariant.                                                         *)
(***************************************************************************)
ScaleTypeOK ==
    /\ scale \in 0 .. Word - 1 /\ offset \in 0 .. Word - 1
    /\ cycle \in 0 .. 2
    /\ lock \in Callers \cup {NoOne} /\ bus \in Callers \cup {NoOne}
    /\ txBuf \in 0 .. 2
    /\ rxBuf \in (0 .. Base - 1) \X (0 .. Base - 1)
    /\ phase \in {"unbound", "bound", "destroyed", "draining"} /\ file \in BOOLEAN
    /\ pc \in [Callers -> Labels]
    /\ op \in [Callers -> {"show", "zero"}]
    /\ answer \in [Callers -> [status : {"none", "shown", "zeroed", "error"}, value : Int]]
    /\ moved \in BOOLEAN
    /\ calls \in 0 .. MaxCalls
    /\ moves \in 0 .. MaxMoves /\ faults \in 0 .. MaxFaults /\ probes \in 0 .. MaxProbes

(***************************************************************************)
(* The message buffers and the peripheral's cycle belong to the call that  *)
(* holds the mutex, also after calls that failed between two bytes: the    *)
(* command on its way is the caller's own, and the byte the peripheral     *)
(* returns next is the one rx_buf has the place for.  remove() ends that   *)
(* for nobody: those whom the destroyed mutex still keeps apart finish     *)
(* before the next probe initialises it and the buffers again.             *)
(***************************************************************************)
ExchangeIsOurs ==
    \A c \in Callers :
        /\ pc[c] \in Inside <=> lock = c
        /\ pc[c] \in {"command", "high", "low"} <=> bus = c
        /\ pc[c] \in Inside => txBuf = Command(op[c])
        /\ At(c, "high") => cycle = 0
        /\ At(c, "low") => cycle = 1

\* The weight less the zero point, as the driver's short can hold it.
Wrapped(n) == IF 2 * n >= Word THEN n - Word ELSE IF 2 * n < -Word THEN n + Word ELSE n

(***************************************************************************)
(* The weight on display: when the host keeps still between the two bytes  *)
(* and until the call has read them, what comento_show_scale returns is    *)
(* the weight less the zero point, modulo the width of short, whatever     *)
(* other callers do and however calls before it failed.                    *)
(***************************************************************************)
StillWeightIsShown ==
    \A c \in Callers :
        At(c, "unlock") /\ op[c] = "show" /\ ~moved
          => Short(rxBuf[1], rxBuf[2]) = Wrapped(scale - offset)

(***************************************************************************)
(* Every call returns, failed or not, whoever else calls, and a driver     *)
(* that is being removed is removed in the end.                            *)
(***************************************************************************)
EverythingEnds ==
    /\ \A c \in Callers : At(c, "lock") ~> At(c, "idle")
    /\ phase \in {"destroyed", "draining"} ~> phase = "unbound"

(***************************************************************************)
(* What users of the file see: a Balance.                                  *)
(***************************************************************************)
Asked(c) ==
    IF pc[c] \in {"idle", "fail", "return"} THEN "nothing"
    ELSE IF op[c] = "zero" /\ pc[c] \in {"high", "low", "unlock"} THEN "zeroed"
    ELSE op[c]

Digits(c) ==
    IF op[c] # "show" THEN <<>>
    ELSE IF At(c, "low") THEN <<rxBuf[1]>>
    ELSE IF At(c, "unlock") THEN rxBuf
    ELSE <<>>

Display == INSTANCE Balance WITH
    Users <- Callers,
    weight <- scale,
    zero <- offset,
    asked <- [c \in Callers |-> Asked(c)],
    digits <- [c \in Callers |-> Digits(c)],
    answer <- [c \in Callers |-> IF At(c, "fail") THEN Told("error", 0) ELSE answer[c]]

(***************************************************************************)
(* The driver and the peripheral implement Balance: a reading mixes two    *)
(* weights at most, both of which lay on the scale during the call, and    *)
(* never two zero points; a zeroing that succeeds took effect.             *)
(***************************************************************************)
IsBalance == Display!Spec
=============================================================================
