------------------------------ MODULE Mailbox ------------------------------
(***************************************************************************)
(* What the receive path promises to the two people who use it, the one at *)
(* the host's qom-set and the one at the guest's "cat": a mailbox.  What   *)
(* is sent is in transit until it is delivered, whole, in place of the     *)
(* mail before it; a message sent on top of one in transit joins it.  A    *)
(* press of the button empties the box, and a read returns the next bytes  *)
(* of the mail.  A host may be hasty, and then its last message may be     *)
(* lost; a message of a patient one never is.                              *)
(***************************************************************************)
EXTENDS Integers, Sequences

CONSTANTS
    Messages,   \* what the host may send
    BoxSize,    \* the longest message that can be delivered
    ReadSizes   \* how many bytes a read may ask for

VARIABLES
    parcel,     \* what is in transit
    mail,       \* the message in the box
    pos,        \* the reader's file offset
    got,        \* what the last read returned
    pressed,    \* the button was pressed and the box is not emptied yet
    hasty       \* the last message was sent before the box was ready for it

vars == <<parcel, mail, pos, got, pressed, hasty>>

Init == /\ parcel = <<>> /\ mail = <<>> /\ pos = 0 /\ got = <<>>
        /\ pressed = FALSE /\ hasty = FALSE

\* What does not fit is lost; more than BoxSize fits only where a hasty
\* message finds room that the one before it has left.
Accept(msg) ==
    /\ msg # <<>>
    /\ hasty' \in BOOLEAN
    /\ LET all == parcel \o msg
           fit == IF Len(all) <= BoxSize THEN Len(all) ELSE BoxSize
       IN  \E n \in fit .. (IF hasty' THEN Len(all) ELSE fit) : parcel' = SubSeq(all, 1, n)
    /\ UNCHANGED <<mail, pos, got, pressed>>

\* The old mail is thrown away when delivery begins.
MakeRoom == /\ parcel # <<>>
            /\ mail' = <<>>
            /\ UNCHANGED <<parcel, pos, got, pressed, hasty>>

Deliver == /\ parcel # <<>>
           /\ mail' = parcel
           /\ parcel' = <<>>
           /\ UNCHANGED <<pos, got, pressed, hasty>>

\* The mail is gone, and nothing came in its place.
Lose == /\ hasty
        /\ mail' = <<>>
        /\ UNCHANGED <<parcel, pos, got, pressed, hasty>>

Press == /\ pressed' = TRUE
         /\ UNCHANGED <<parcel, mail, pos, got, hasty>>

Clear == /\ pressed
         /\ mail' = <<>>
         /\ pressed' = FALSE
         /\ UNCHANGED <<parcel, pos, got, hasty>>

Open == /\ pos' = 0
        /\ UNCHANGED <<parcel, mail, got, pressed, hasty>>

Read(n) == /\ got' = SubSeq(mail, pos + 1,
                            IF pos + n < Len(mail) THEN pos + n ELSE Len(mail))
           /\ pos' = pos + Len(got')
           /\ UNCHANGED <<parcel, mail, pressed, hasty>>

Next == \/ \E msg \in Messages : Accept(msg)
        \/ MakeRoom
        \/ Deliver
        \/ Lose
        \/ Press
        \/ Clear
        \/ Open
        \/ \E n \in ReadSizes : Read(n)

Spec == Init /\ [][Next]_vars
=============================================================================
