------------------------------ MODULE TxPathMC ------------------------------
(* A FIFO of two bytes and a DMA buffer of two: a write may need two       *)
(* transfers and a transfer may have to wait for the host.                 *)
EXTENDS TxPath

\* Writes of two chunks, of part of a buffer, of nothing and of a buffer.
OneScript == [w \in Writers |-> <<<<1, 2, 3>>, <<1>>, <<>>, <<3, 2>>>>]

\* One write for each of several writers.
ShortScript == [w \in Writers |-> <<<<1, 2, 3>>>>]

\* The same where only lengths matter: one write of two chunks, the others of
\* one that does not fill the buffer.
LengthScript ==
    [w \in Writers |-> IF w = TheWriter THEN <<<<1, 1, 1>>>> ELSE <<<<1>>>>]
=============================================================================
