------------------------------ MODULE Journal ------------------------------
(***************************************************************************)
(* What the log device promises: the bytes of every write appear in the    *)
(* log file, in order and each once, after what the file held before, and  *)
(* a write returns when all it has handed over is there.  Erasing empties  *)
(* the file and makes the device deaf: it takes bytes, but they appear     *)
(* nowhere, until the machine is started again.  A restart keeps what has  *)
(* appeared and loses what has not; it may leave the device deaf, when the *)
(* file cannot be opened.  A failure makes a write give up its rest.       *)
(*                                                                         *)
(* A driver that does not keep its callers apart promises this to one      *)
(* caller at a time that is left in peace.  Once two calls have overlapped *)
(* or a call has been sent a signal, only what has appeared is safe, until *)
(* the next restart.                                                       *)
(***************************************************************************)
EXTENDS Naturals, Sequences

CONSTANTS
    Callers,  \* who may write
    Texts,    \* what
    Cells     \* bytes, those of no text included

VARIABLES
    shown,     \* what the log file holds
    owed,      \* what it has to hold in the end
    deaf,      \* bytes are taken and dropped
    keepsApart,\* the driver keeps its callers apart
    calling,   \* the callers whose write is in progress
    rest,      \* what each of them has not handed over
    disturbed, \* the promise of order is off
    ahead      \* how many erasures, restarts, failures, signals are to come

outlook == <<deaf, keepsApart, ahead>>
vars == <<shown, owed, outlook, calling, rest, disturbed>>

Init ==
    /\ shown = <<>> /\ owed = <<>> /\ deaf = FALSE /\ keepsApart \in BOOLEAN
    /\ calling = {} /\ rest = [c \in Callers |-> <<>>] /\ disturbed = FALSE
    /\ ahead \in [{"erasures", "restarts", "faults", "signals"} -> Nat]

Happens(what) == ahead[what] > 0 /\ ahead' = [ahead EXCEPT ![what] = @ - 1]

Begin(c, t) ==
    /\ c \notin calling
    /\ calling' = calling \cup {c}
    /\ rest' = [rest EXCEPT ![c] = t]
    /\ disturbed' = (disturbed \/ (~keepsApart /\ calling # {}))
    /\ UNCHANGED <<shown, owed, outlook>>

\* The next n bytes of the write are handed over.
Hand(c, n) ==
    /\ c \in calling
    /\ n \in 1 .. Len(rest[c])
    /\ rest' = [rest EXCEPT ![c] = SubSeq(@, n + 1, Len(@))]
    /\ owed' = IF deaf THEN owed ELSE owed \o SubSeq(rest[c], 1, n)
    /\ UNCHANGED <<shown, outlook, calling, disturbed>>

\* The next byte appears.
Show ==
    /\ Len(shown) < Len(owed)
    /\ shown' = Append(shown, owed[Len(shown) + 1])
    /\ UNCHANGED <<owed, outlook, calling, rest, disturbed>>

GiveUp(c) ==
    /\ c \in calling
    /\ Happens("faults")
    /\ rest' = [rest EXCEPT ![c] = <<>>]
    /\ UNCHANGED <<shown, owed, deaf, keepsApart, calling, disturbed>>

Return(c) ==
    /\ c \in calling
    /\ rest[c] = <<>> /\ shown = owed
    /\ calling' = calling \ {c}
    /\ UNCHANGED <<shown, owed, outlook, rest, disturbed>>

Signal ==
    /\ ~keepsApart /\ calling # {}
    /\ Happens("signals")
    /\ disturbed' = TRUE
    /\ UNCHANGED <<shown, owed, deaf, keepsApart, calling, rest>>

\* Any byte appears or none, whatever the callers do and have handed over.
Disorder ==
    /\ disturbed /\ disturbed'
    /\ shown' = shown \/ \E b \in Cells : shown' = Append(shown, b)
    /\ \A what \in {"erasures", "restarts"} : ahead'[what] = ahead[what]
    /\ UNCHANGED <<deaf, keepsApart>>

Erase ==
    /\ Happens("erasures")
    /\ shown' = <<>> /\ owed' = <<>> /\ deaf' = TRUE
    /\ UNCHANGED <<keepsApart, calling, rest, disturbed>>

Restart ==
    /\ Happens("restarts")
    /\ owed' = shown /\ deaf' \in BOOLEAN
    /\ calling' = {} /\ rest' = [c \in Callers |-> <<>>] /\ disturbed' = FALSE
    /\ UNCHANGED <<shown, keepsApart>>

Next ==
    \/ \E c \in Callers : \/ \E t \in Texts : Begin(c, t)
                          \/ \E n \in 1 .. Len(rest[c]) : Hand(c, n)
                          \/ GiveUp(c) \/ Return(c)
    \/ Show \/ Signal \/ Disorder \/ Erase \/ Restart

Spec == Init /\ [][Next]_vars
=============================================================================
