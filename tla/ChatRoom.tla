------------------------------ MODULE ChatRoom ------------------------------
(***************************************************************************)
(* What the chat server promises: a room where one guest speaks at a time, *)
(* and everybody else who is in the room at that moment hears all of it    *)
(* before anyone speaks again, unless the guest's connection is lost.      *)
(***************************************************************************)
EXTENDS Naturals, Sequences

CONSTANTS Guests, Text

VARIABLES
    up,      \* FALSE once the service has ended
    line,    \* guest -> state of its connection
    place,   \* guest -> "outside", "inside" or "gone"
    said,    \* guest -> how much of its Text it has said in the room
    due,     \* guest -> all that others said while it was inside
    heard    \* guest -> what it was told

vars == <<up, line, place, said, due, heard>>

Inside == {c \in Guests : place[c] = "inside"}

RInit ==
    /\ up = TRUE
    /\ line = [c \in Guests |-> "new"]
    /\ place = [c \in Guests |-> "outside"]
    /\ said = [c \in Guests |-> 0]
    /\ due = [c \in Guests |-> <<>>]
    /\ heard = [c \in Guests |-> <<>>]

Dial(c) ==
    /\ line[c] = "new"
    /\ line' = [line EXCEPT ![c] = "open"]
    /\ UNCHANGED <<up, place, said, due, heard>>

HangUp(c) ==
    /\ line[c] = "open"
    /\ line' = [line EXCEPT ![c] = "fin"]
    /\ UNCHANGED <<up, place, said, due, heard>>

Break(c) ==
    /\ line[c] \in {"open", "fin"}
    /\ line' = [line EXCEPT ![c] = "reset"]
    /\ UNCHANGED <<up, place, said, due, heard>>

Enter(c) ==
    /\ line[c] # "new" /\ place[c] = "outside"
    /\ place' = [place EXCEPT ![c] = "inside"]
    /\ UNCHANGED <<up, line, said, due, heard>>

\* Nobody is shown the door.
Leave(c) ==
    /\ line[c] \in {"fin", "reset"} /\ place[c] = "inside"
    /\ place' = [place EXCEPT ![c] = "gone"]
    /\ UNCHANGED <<up, line, said, due, heard>>

\* One guest says its next n units to all the others inside.
Speak(c, n) ==
    /\ place[c] = "inside"
    /\ said[c] + n <= Len(Text[c])
    /\ \A d \in Inside : line[d] # "reset" => heard[d] = due[d]
    /\ said' = [said EXCEPT ![c] = @ + n]
    /\ due' = [d \in Guests |->
                 IF d \in Inside \ {c}
                 THEN due[d] \o SubSeq(Text[c], said[c] + 1, said[c] + n)
                 ELSE due[d]]
    /\ UNCHANGED <<up, line, place, heard>>

Hear(d) ==
    /\ place[d] = "inside" /\ line[d] # "reset"
    /\ Len(heard[d]) < Len(due[d])
    /\ heard' = [heard EXCEPT ![d] = Append(@, due[d][Len(@) + 1])]
    /\ UNCHANGED <<up, line, place, said, due>>

End ==
    /\ up' = FALSE
    /\ UNCHANGED <<line, place, said, due, heard>>

RNext ==
    /\ up
    /\ \/ End
       \/ \E c \in Guests :
            \/ Dial(c) \/ HangUp(c) \/ Break(c) \/ Enter(c) \/ Leave(c) \/ Hear(c)
            \/ \E n \in 1 .. Len(Text[c]) : Speak(c, n)

Room == RInit /\ [][RNext]_vars
=============================================================================
