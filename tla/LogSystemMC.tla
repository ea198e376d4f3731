---------------------------- MODULE LogSystemMC ----------------------------
(* Two writers, of messages longer and shorter than a DMA buffer of two    *)
(* bytes, that may write at the same time.  One write goes with an erasure *)
(* before and one after a restart; two with an erasure, a restart and a    *)
(* failure, or with a restart, a failure and a signal; three with none of  *)
(* these.                                                                  *)
EXTENDS LogSystem

MCMessages == {<<1, 2, 2>>, <<2>>}

Budget(writes, erasures, restarts, faults, signals) ==
    [writes |-> writes, erasures |-> erasures, restarts |-> restarts,
     faults |-> faults, signals |-> signals]

MCBudgets == {Budget(1, 2, 1, 0, 0), Budget(2, 1, 1, 1, 0), Budget(2, 0, 1, 1, 1),
              Budget(3, 0, 0, 0, 0)}
=============================================================================
