----------------------------- MODULE ByteStream -----------------------------
(***************************************************************************)
(* What the transmit path promises to a process that writes to the device  *)
(* and to the host that fetches what was written: the host gets the bytes  *)
(* of all writes, once and in order; a write returns only when its bytes   *)
(* are in the device's FIFO or beyond.  Two things may go wrong, each for  *)
(* a reason: a failure makes a write give up its rest, and then it reports *)
(* how many bytes it did get out; a signal that ends a wait for room lets  *)
(* bytes be counted that the full device drops.                            *)
(***************************************************************************)
EXTENDS Integers, Sequences

CONSTANTS
    Calls,      \* the writes a process may make
    Capacity    \* how many bytes the device holds for the host

VARIABLES
    pending,    \* bytes of the current write that have not reached the device
    sent,       \* how many bytes of it have
    busy,       \* a write is in progress
    disturbed,  \* a signal is pending for it
    faults,     \* failures still to come
    fifo,       \* bytes in the device
    fetched,    \* bytes the host has fetched
    reported    \* how many bytes the writes reported between them

vars == <<pending, sent, busy, disturbed, faults, fifo, fetched, reported>>

Init == /\ pending = <<>> /\ sent = 0 /\ busy = FALSE /\ disturbed = FALSE
        /\ faults \in Nat
        /\ fifo = <<>> /\ fetched = <<>> /\ reported = 0

\* The caller may have been sent a signal before its turn came.
Call(msg) == /\ ~busy
             /\ busy' = TRUE
             /\ disturbed' \in BOOLEAN
             /\ pending' = msg
             /\ sent' = 0
             /\ UNCHANGED <<faults, fifo, fetched, reported>>

Signal == /\ busy
          /\ disturbed' = TRUE
          /\ UNCHANGED <<pending, sent, busy, faults, fifo, fetched, reported>>

Emit == /\ pending # <<>> /\ Len(fifo) < Capacity
        /\ fifo' = Append(fifo, Head(pending))
        /\ pending' = Tail(pending)
        /\ sent' = sent + 1
        /\ UNCHANGED <<busy, disturbed, faults, fetched, reported>>

\* The byte does not wait for room and is dropped.
Lose == /\ disturbed /\ pending # <<>> /\ Len(fifo) = Capacity
        /\ pending' = Tail(pending)
        /\ sent' = sent + 1
        /\ UNCHANGED <<busy, disturbed, faults, fifo, fetched, reported>>

GiveUp == /\ pending # <<>> /\ faults > 0
          /\ faults' = faults - 1
          /\ pending' = <<>>
          /\ UNCHANGED <<sent, busy, disturbed, fifo, fetched, reported>>

Return == /\ busy /\ pending = <<>>
          /\ busy' = FALSE
          /\ disturbed' = FALSE
          /\ reported' = reported + sent
          /\ sent' = 0
          /\ UNCHANGED <<pending, faults, fifo, fetched>>

Fetch == /\ fetched' = fetched \o fifo
         /\ fifo' = <<>>
         /\ UNCHANGED <<pending, sent, busy, disturbed, faults, reported>>

Next == (\E msg \in Calls : Call(msg)) \/ Signal \/ Emit \/ Lose \/ GiveUp
        \/ Return \/ Fetch

Spec == Init /\ [][Next]_vars

\* Every byte gets out, unless it is given up, and every write returns; the
\* two are never possible at once.
Fairness == WF_vars(Emit \/ Return)

FairSpec == Spec /\ Fairness
=============================================================================
