---------------------------- MODULE MmioDeviceMC ----------------------------
(* Messages of every length from nothing to one byte more than a FIFO of   *)
(* FifoSize slots holds, over bytes that tell their order apart.           *)
EXTENDS MmioDevice

MCMessages == UNION {[1 .. n -> Data] : n \in 0 .. FifoSize}
=============================================================================
