--------------------------- MODULE RingFifoProofs ---------------------------
(***************************************************************************)
(* The ring of week03/mmio.c implements a queue of Size - 1 bytes, for     *)
(* every ring size and every set of bytes.                                 *)
(***************************************************************************)
EXTENDS RingFifo, SequenceTheorems, TLAPS

-----------------------------------------------------------------------------
(* Arithmetic of the indices. *)

\* The remainder leaves an index of the ring alone.
LEMMA ModInside ==
    ASSUME NEW x \in Slots
    PROVE  x % Size = x
  BY SizeAssumption, SMT DEF Slots

\* The remainder wraps an index that ran past the ring by less than a turn.
LEMMA ModWraps ==
    ASSUME NEW x \in Size .. 2 * Size - 1
    PROVE  x % Size = x - Size
  BY SizeAssumption, SMT

\* Every index that a ring operation computes falls back into the ring.
LEMMA ModInRing ==
    ASSUME NEW x \in Int
    PROVE  x % Size \in Slots
  BY SizeAssumption, SMT DEF Slots

\* The successor of a slot, without the remainder.
LEMMA NextSlot ==
    ASSUME NEW s \in Slots
    PROVE  (s + 1) % Size = IF s + 1 = Size THEN 0 ELSE s + 1
  <1>1. CASE s + 1 = Size
    BY <1>1, ModWraps, SizeAssumption, SMT DEF Slots
  <1>2. CASE s + 1 # Size
    BY <1>2, ModInside, SizeAssumption, SMT DEF Slots
  <1> QED BY <1>1, <1>2

\* The slot that holds the i-th byte of the queue, without the remainder.
LEMMA SlotOfByte ==
    ASSUME NEW s \in Slots, NEW i \in 1 .. Size
    PROVE  /\ (s + i - 1) % Size = IF s + i - 1 < Size THEN s + i - 1
                                                       ELSE s + i - 1 - Size
           /\ (s + i - 1) % Size \in Slots
  <1>1. CASE s + i - 1 < Size
    BY <1>1, ModInside, SizeAssumption, SMT DEF Slots
  <1>2. CASE ~(s + i - 1 < Size)
    BY <1>2, ModWraps, SizeAssumption, SMT DEF Slots
  <1> QED BY <1>1, <1>2
-----------------------------------------------------------------------------
(* The indices stay in the ring and the slots hold bytes. *)
THEOREM TypeCorrect == Spec => []TypeOK
  <1>1. Init => TypeOK
    BY SizeAssumption, ZeroAssumption, SMT DEF Init, TypeOK, Slots
  <1>2. TypeOK /\ [Next]_vars => TypeOK'
    <2> SUFFICES ASSUME TypeOK, [Next]_vars PROVE TypeOK'
      OBVIOUS
    <2>1. ASSUME NEW x \in Data, EnqueueUnlessFull(x) PROVE TypeOK'
      <3>1. rear \in Slots /\ rear + 1 \in Int
        BY SizeAssumption, SMT DEF TypeOK, Slots
      <3>2. (rear + 1) % Size \in Slots
        BY <3>1, ModInRing, Zenon
      <3> QED BY <2>1, <3>2 DEF TypeOK, EnqueueUnlessFull, Enqueue
    <2>2. ASSUME DequeueUnlessEmpty PROVE TypeOK'
      <3>1. front \in Slots /\ front + 1 \in Int
        BY SizeAssumption, SMT DEF TypeOK, Slots
      <3>2. (front + 1) % Size \in Slots
        BY <3>1, ModInRing, Zenon
      <3> QED BY <2>2, <3>2 DEF TypeOK, DequeueUnlessEmpty, Dequeue
    <2>3. CASE UNCHANGED vars
      BY <2>3 DEF TypeOK, vars
    <2> QED BY <2>1, <2>2, <2>3 DEF Next
  <1> QED BY <1>1, <1>2, PTL DEF Spec
-----------------------------------------------------------------------------
(* The queue that the ring holds. *)

LEMMA CountBounds ==
    ASSUME TypeOK
    PROVE  /\ Count \in 0 .. Size - 1
           /\ IsEmpty <=> Count = 0
           /\ IsFull <=> Count = Size - 1
  <1>1. (rear + 1) % Size = IF rear + 1 = Size THEN 0 ELSE rear + 1
    BY NextSlot DEF TypeOK
  <1> QED BY <1>1, SizeAssumption, SMT DEF TypeOK, Slots, Count, IsEmpty, IsFull

LEMMA ContentsType ==
    ASSUME TypeOK
    PROVE  /\ Contents \in Seq(Data)
           /\ Len(Contents) = Count
           /\ DOMAIN Contents = 1 .. Count
  <1>1. Count \in Nat /\ 1 .. Count \subseteq 1 .. Size
    BY CountBounds, SizeAssumption, SMT
  <1>2. \A i \in 1 .. Count : buf[(front + i - 1) % Size] \in Data
    BY <1>1, SlotOfByte DEF TypeOK
  <1>3. Contents \in [1 .. Count -> Data]
    BY <1>2 DEF Contents
  <1> QED BY <1>1, <1>3, SMT

(* comento_fifo_enqueue on a ring that is not full appends to the queue.   *)
LEMMA EnqueueAppends ==
    ASSUME TypeOK, NEW x \in Data, EnqueueUnlessFull(x)
    PROVE  Fifo!Put(x)
  <1> USE DEF EnqueueUnlessFull, Enqueue
  <1>1. rear' = IF rear + 1 = Size THEN 0 ELSE rear + 1
    BY NextSlot DEF TypeOK
  <1>2. front \in Slots /\ rear \in Slots /\ rear' \in Slots /\ front' = front
    BY <1>1, SizeAssumption, SMT DEF TypeOK, Slots
  <1>3. Count \in 0 .. Size - 2
    BY CountBounds, SizeAssumption, SMT
  <1>4. Count' = Count + 1
    BY <1>1, <1>2, <1>3, SizeAssumption, SMT DEF Count, Slots, IsFull
  <1>5. (front + (Count + 1) - 1) % Size = rear
    BY <1>2, <1>3, SlotOfByte, SizeAssumption, SMT DEF Count, Slots
  <1>6. ASSUME NEW i \in 1 .. Count
        PROVE  (front + i - 1) % Size # rear /\ (front + i - 1) % Size \in Slots
    BY <1>2, <1>3, SlotOfByte, SizeAssumption, SMT DEF Count, Slots
  <1>7. Contents' = [i \in 1 .. Count + 1 |-> buf'[(front + i - 1) % Size]]
    BY <1>2, <1>4 DEF Contents
  <1>8. Append(Contents, x) =
          [i \in 1 .. Count + 1 |-> IF i = Count + 1 THEN x ELSE Contents[i]]
    <2>1. /\ Append(Contents, x) \in Seq(Data)
          /\ Len(Append(Contents, x)) = Count + 1
          /\ \A i \in 1 .. Count : Append(Contents, x)[i] = Contents[i]
          /\ Append(Contents, x)[Count + 1] = x
      BY ContentsType, AppendProperties
    <2>2. Append(Contents, x) \in [1 .. Count + 1 -> Data]
      BY <2>1, LenProperties
    <2>3. \A i \in 1 .. Count + 1 : i = Count + 1 \/ i \in 1 .. Count
      BY <1>3, SMT
    <2> QED BY <2>1, <2>2, <2>3
  <1>9. ASSUME NEW i \in 1 .. Count + 1
        PROVE  buf'[(front + i - 1) % Size]
                 = IF i = Count + 1 THEN x ELSE Contents[i]
    <2>1. CASE i = Count + 1
      BY <2>1, <1>2, <1>5 DEF TypeOK
    <2>2. CASE i # Count + 1
      <3>1. i \in 1 .. Count
        BY <2>2, <1>3, SMT
      <3>2. buf'[(front + i - 1) % Size] = buf[(front + i - 1) % Size]
        BY <1>6, <3>1 DEF TypeOK
      <3> QED BY <2>2, <3>1, <3>2 DEF Contents
    <2> QED BY <2>1, <2>2
  <1>10. Contents' = Append(Contents, x)
    BY <1>7, <1>8, <1>9
  <1>11. Len(Contents) < Size - 1
    BY ContentsType, <1>3, SizeAssumption, SMT
  <1> QED BY <1>10, <1>11 DEF Fifo!Put

(* comento_fifo_dequeue on a ring that is not empty takes the oldest byte. *)
LEMMA DequeueTakes ==
    ASSUME TypeOK, DequeueUnlessEmpty
    PROVE  Fifo!Take
  <1> USE DEF DequeueUnlessEmpty, Dequeue
  <1>1. front' = IF front + 1 = Size THEN 0 ELSE front + 1
    BY NextSlot DEF TypeOK
  <1>2. front \in Slots /\ front' \in Slots /\ rear \in Slots /\ rear' = rear
    BY <1>1, SizeAssumption, SMT DEF TypeOK, Slots
  <1>3. Count \in 1 .. Size - 1
    BY CountBounds, SizeAssumption, SMT
  <1>4. Count' = Count - 1
    BY <1>1, <1>2, <1>3, SizeAssumption, SMT DEF Count, Slots, IsEmpty
  <1>5. ASSUME NEW i \in 1 .. Count - 1
        PROVE  (front' + i - 1) % Size = (front + (i + 1) - 1) % Size
    <2>1. /\ (front' + i - 1) % Size = IF front' + i - 1 < Size
                 THEN front' + i - 1 ELSE front' + i - 1 - Size
          /\ i + 1 \in 1 .. Count
      BY <1>2, <1>3, SlotOfByte, SizeAssumption, SMT DEF Slots
    <2>2. (front + (i + 1) - 1) % Size = IF front + (i + 1) - 1 < Size
                 THEN front + (i + 1) - 1 ELSE front + (i + 1) - 1 - Size
      BY <1>2, <1>3, SlotOfByte, SizeAssumption, SMT DEF Slots
    <2> QED BY <1>1, <1>2, <1>3, <2>1, <2>2, SizeAssumption, SMT DEF Slots
  <1>6. Contents' = [i \in 1 .. Count - 1 |-> buf[(front' + i - 1) % Size]]
    BY <1>4 DEF Contents
  <1>7. Tail(Contents) = [i \in 1 .. Count - 1 |-> Contents[i + 1]]
    <2>1. Contents # <<>>
      BY ContentsType, EmptySeq, <1>3, SMT
    <2>2. /\ Tail(Contents) \in Seq(Data)
          /\ Len(Tail(Contents)) = Count - 1
          /\ \A i \in 1 .. Count - 1 : Tail(Contents)[i] = Contents[i + 1]
      BY <2>1, ContentsType, HeadTailProperties
    <2>3. Tail(Contents) \in [1 .. Count - 1 -> Data]
      BY <2>2, LenProperties
    <2> QED BY <2>2, <2>3
  <1>8. ASSUME NEW i \in 1 .. Count - 1
        PROVE  buf[(front' + i - 1) % Size] = Contents[i + 1]
    <2>1. i + 1 \in 1 .. Count
      BY <1>3, SMT
    <2> QED BY <2>1, <1>5 DEF Contents
  <1>9. Contents' = Tail(Contents)
    BY <1>6, <1>7, <1>8
  <1>10. Head(Contents) = Contents[1] /\ Contents # <<>>
    BY ContentsType, <1>3, SMT
  <1>11. Contents[1] = buf[front]
    <2>1. (front + 1 - 1) % Size = front
      BY <1>2, ModInside, SMT DEF Slots
    <2> QED BY <2>1, <1>3, SMT DEF Contents
  <1> QED BY <1>9, <1>10, <1>11 DEF Fifo!Take
-----------------------------------------------------------------------------
(* The ring implements the bounded queue. *)
THEOREM RingImplementsFifo == Spec => IsBoundedFifo
  <1>1. Init => Fifo!Init
    <2> SUFFICES ASSUME Init PROVE Fifo!Init
      OBVIOUS
    <2>1. TypeOK /\ Count = 0
      BY SizeAssumption, ZeroAssumption, SMT DEF Init, TypeOK, Slots, Count
    <2>2. Contents = <<>>
      BY <2>1, ContentsType, SMT
    <2> QED BY <2>2 DEF Init, Fifo!Init
  <1>2. TypeOK /\ [Next]_vars => [Fifo!Next]_(Fifo!vars)
    <2> SUFFICES ASSUME TypeOK, [Next]_vars PROVE [Fifo!Next]_(Fifo!vars)
      OBVIOUS
    <2>1. ASSUME NEW x \in Data, EnqueueUnlessFull(x) PROVE Fifo!Next
      BY <2>1, EnqueueAppends DEF Fifo!Next
    <2>2. ASSUME DequeueUnlessEmpty PROVE Fifo!Next
      BY <2>2, DequeueTakes DEF Fifo!Next
    <2>3. CASE UNCHANGED vars
      BY <2>3 DEF vars, Fifo!vars, Contents, Count
    <2> QED BY <2>1, <2>2, <2>3 DEF Next
  <1> QED BY <1>1, <1>2, TypeCorrect, PTL DEF Spec, IsBoundedFifo, Fifo!Spec
=============================================================================
