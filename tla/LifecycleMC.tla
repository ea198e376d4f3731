---------------------------- MODULE LifecycleMC ----------------------------
(* All six versions.  Three probes: one that fails, one that is undone,    *)
(* one more; one failure, one message, one open file, one call.           *)
EXTENDS Lifecycle

MCBudget == [probes |-> 3, faults |-> 1, mails |-> 1, opens |-> 1, calls |-> 1]
=============================================================================
