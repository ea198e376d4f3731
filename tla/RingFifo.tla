------------------------------ MODULE RingFifo ------------------------------
(***************************************************************************)
(* struct fifo and its four functions (week03/mmio.c), used with the       *)
(* guards of every caller: comento_mmio_write and comento_set_data enqueue *)
(* only when the FIFO is not full, comento_mmio_read and comento_get_data  *)
(* dequeue only when it is not empty.  The object is zeroed when QEMU      *)
(* creates it, so both indices start at 0.                                 *)
(***************************************************************************)
EXTENDS Integers, Sequences

CONSTANTS
    Data,       \* the bytes
    Zero,       \* the byte a zeroed object holds
    Size        \* COMENTO_FIFO_SIZE

ASSUME SizeAssumption == Size \in Nat \ {0}
ASSUME ZeroAssumption == Zero \in Data

VARIABLES
    front,      \* fifo->front: the slot of the oldest byte
    rear,       \* fifo->rear: the slot the next byte goes to
    buf,        \* fifo->buf
    out         \* what the last comento_fifo_dequeue returned

vars == <<front, rear, buf, out>>

Slots == 0 .. Size - 1

Init == /\ front = 0
        /\ rear = 0
        /\ buf = [s \in Slots |-> Zero]
        /\ out = Zero

\* Mutant: the last free slot is filled too, after which full reads as empty.
IsFullNever == front = (rear + 1) % (Size + 1)

IsFull  == front = (rear + 1) % Size
IsEmpty == front = rear

Enqueue(x) == /\ buf' = [buf EXCEPT ![rear] = x]
              /\ rear' = (rear + 1) % Size
              /\ UNCHANGED <<front, out>>

\* Mutant: the front index runs past the ring before it wraps.
DequeueWrapsLate == /\ out' = buf[front]
                    /\ front' = (front + 1) % (Size + 1)
                    /\ UNCHANGED <<rear, buf>>

Dequeue == /\ out' = buf[front]
           /\ front' = (front + 1) % Size
           /\ UNCHANGED <<rear, buf>>

\* if (!comento_fifo_is_full(f)) comento_fifo_enqueue(f, x)
EnqueueUnlessFull(x) == ~IsFull /\ Enqueue(x)

\* if (!comento_fifo_is_empty(f)) r = comento_fifo_dequeue(f)
DequeueUnlessEmpty == ~IsEmpty /\ Dequeue

Next == (\E x \in Data : EnqueueUnlessFull(x)) \/ DequeueUnlessEmpty

Spec == Init /\ [][Next]_vars
-----------------------------------------------------------------------------
\* How many bytes the ring holds, and the queue those bytes form.
Count == IF front <= rear THEN rear - front ELSE rear - front + Size

Contents == [i \in 1 .. Count |-> buf[(front + i - 1) % Size]]

Fifo == INSTANCE BoundedFifo WITH queue <- Contents, Capacity <- Size - 1

TypeOK == /\ front \in Slots
          /\ rear \in Slots
          /\ buf \in [Slots -> Data]
          /\ out \in Data

(***************************************************************************)
(* The ring is a queue of Size - 1 bytes: wrapping the indices never       *)
(* reorders, duplicates or overwrites a byte, and "full" and "empty" are   *)
(* never confused (one slot of the array stays unused on purpose).         *)
(***************************************************************************)
IsBoundedFifo == Fifo!Spec
=============================================================================
