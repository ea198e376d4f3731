---------------------------- MODULE PioDriverMC ----------------------------
(* A FIFO of two bytes in either direction: the first write has to wait    *)
(* for the host in the middle, the host's last message overruns the FIFO.  *)
EXTENDS PioDriver

CONSTANTS w1, w2

MCData     == {1, 2, 3}
MCLetters  == <<<<3, 1, 2>>, <<1>>>>
MCScript   == [w \in Writers |-> IF w = w1 THEN <<<<1, 2, 3>>>> ELSE <<<<2>>>>]
=============================================================================
