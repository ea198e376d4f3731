---------------------------- MODULE BoundedFifo ----------------------------
(***************************************************************************)
(* What a FIFO of the "comento" peripheral promises to its two sides: a    *)
(* queue of at most Capacity bytes.  The side that fills it loses a byte   *)
(* that finds the queue full; the side that empties it gets the bytes in   *)
(* the order in which they were accepted.  RingFifo implements it, and     *)
(* MmioDevice uses a queue of this kind for each direction.                *)
(***************************************************************************)
EXTENDS Naturals, Sequences

CONSTANTS
    Data,       \* the bytes
    Zero,       \* the byte a zeroed object holds
    Capacity    \* how many bytes the queue holds at most

VARIABLES
    queue,      \* the bytes accepted and not yet taken
    out         \* the byte the last Take returned

vars == <<queue, out>>

Init == /\ queue = <<>>
        /\ out = Zero

Put(x) == /\ Len(queue) < Capacity
          /\ queue' = Append(queue, x)
          /\ UNCHANGED out

Take == /\ queue # <<>>
        /\ queue' = Tail(queue)
        /\ out' = Head(queue)

Next == (\E x \in Data : Put(x)) \/ Take

Spec == Init /\ [][Next]_vars
=============================================================================
