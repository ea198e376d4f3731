--------------------------- MODULE LockedDriverMC ---------------------------
(* Two writers, one of two chunks and one of part of a buffer; a message,  *)
(* a read and a press of the button, which wait for reception to rest but  *)
(* not for the writers.  Two CPUs, which the second writer and one of the  *)
(* other three can fill up; more of them only take more spinners.          *)
EXTENDS LockedDriver, TLC

CONSTANTS w1, w2

MCScript == w1 :> <<<<1, 2>>>> @@ w2 :> <<<<2>>>>
MCMessages == {<<1>>}
MCBudget == [sends |-> 1, fetches |-> 0, presses |-> 1, opens |-> 0,
             reads |-> 1, faults |-> 0]
=============================================================================
