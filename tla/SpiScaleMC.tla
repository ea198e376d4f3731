----------------------------- MODULE SpiScaleMC -----------------------------
(* Bytes of four values, so that a word has sixteen: the weights lie on    *)
(* both sides of the sign and of the carry between the bytes.              *)
EXTENDS SpiScale

MCWeights == {3, 8}
=============================================================================
