----------------------------- MODULE RingFifoMC -----------------------------
(* A ring of five slots over two bytes: both indices wrap, and every fill  *)
(* level is met at every position of the front index.                      *)
EXTENDS RingFifo

MCData == {0, 1}
=============================================================================
