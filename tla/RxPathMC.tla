------------------------------ MODULE RxPathMC ------------------------------
(* A FIFO of two bytes and a DMA buffer of three: a message may fill the   *)
(* FIFO or overrun it, and a buffer may fill up when messages follow one   *)
(* another without a pause.                                                *)
EXTENDS RxPath

MCMessages == {<<1>>, <<2, 1>>, <<1, 2, 2>>}

MCBudget(sends, fetches, presses, opens, reads, faults) ==
    [sends |-> sends, fetches |-> fetches, presses |-> presses,
     opens |-> opens, reads |-> reads, faults |-> faults]

PacedBudget  == MCBudget(3, 1, 1, 1, 2, 1)
CrowdBudget  == MCBudget(2, 0, 1, 0, 2, 0)

\* One byte value is enough where only the lengths matter.
MCLengths == {<<1, 1>>}
=============================================================================
