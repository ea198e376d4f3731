------------------------------ MODULE Balance ------------------------------
(***************************************************************************)
(* What the scale promises to those who read and write its file: a reading *)
(* is the weight less the zero point as a signed number of two digits, the *)
(* high digit taken at one moment of the call and the low one at a later   *)
(* moment, with no zeroing in between; a zeroing that is reported as done  *)
(* took the weight of some moment of the call; an error promises nothing,  *)
(* not even that the zero point stayed.  SpiScale implements it.           *)
(***************************************************************************)
EXTENDS Integers, Sequences

CONSTANTS Users, Weights, Base

VARIABLES
    weight,     \* what lies on the scale
    zero,       \* the weight that counts as nothing
    asked,      \* what each user waits for
    digits,     \* the digits taken for it so far
    answer      \* what each user was told last

vars == <<weight, zero, asked, digits, answer>>

High(n) == (n \div Base) % Base
Low(n)  == n % Base

\* Two digits as a signed number, two's complement.
Signed(h, l) == IF 2 * h < Base THEN h * Base + l ELSE (h * Base + l) - Base * Base

Told(status, value) == [status |-> status, value |-> value]

Init == /\ weight = 0 /\ zero = 0
        /\ asked = [u \in Users |-> "nothing"]
        /\ digits = [u \in Users |-> <<>>]
        /\ answer = [u \in Users |-> Told("none", 0)]

Move(w) == /\ weight' = w
           /\ UNCHANGED <<zero, asked, digits, answer>>

Ask(u, what) == /\ asked[u] = "nothing"
                /\ asked' = [asked EXCEPT ![u] = what]
                /\ UNCHANGED <<weight, zero, digits, answer>>

Zero(u) == /\ asked[u] = "zero"
           /\ \A v \in Users : Len(digits[v]) # 1
           /\ zero' = weight
           /\ asked' = [asked EXCEPT ![u] = "zeroed"]
           /\ UNCHANGED <<weight, digits, answer>>

TakeHigh(u) == /\ asked[u] = "show" /\ digits[u] = <<>>
               /\ digits' = [digits EXCEPT ![u] = <<High(weight - zero)>>]
               /\ UNCHANGED <<weight, zero, asked, answer>>

TakeLow(u) == /\ asked[u] = "show" /\ Len(digits[u]) = 1
              /\ digits' = [digits EXCEPT ![u] = Append(@, Low(weight - zero))]
              /\ UNCHANGED <<weight, zero, asked, answer>>

Tell(u, what) == /\ answer' = [answer EXCEPT ![u] = what]
                 /\ asked' = [asked EXCEPT ![u] = "nothing"]
                 /\ digits' = [digits EXCEPT ![u] = <<>>]
                 /\ UNCHANGED <<weight, zero>>

Show(u) == /\ asked[u] = "show" /\ Len(digits[u]) = 2
           /\ Tell(u, Told("shown", Signed(digits[u][1], digits[u][2])))

Confirm(u) == asked[u] = "zeroed" /\ Tell(u, Told("zeroed", 0))

Refuse(u) == asked[u] # "nothing" /\ Tell(u, Told("error", 0))

Next == \/ \E w \in Weights : Move(w)
        \/ \E u \in Users :
             \/ Ask(u, "show") \/ Ask(u, "zero")
             \/ Zero(u) \/ TakeHigh(u) \/ TakeLow(u)
             \/ Show(u) \/ Confirm(u) \/ Refuse(u)

Spec == Init /\ [][Next]_vars
=============================================================================
