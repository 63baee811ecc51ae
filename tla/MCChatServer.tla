---------------------------- MODULE MCChatServer ----------------------------
(* Small instances of ChatServer. *)
EXTENDS ChatRefinement, TLC

\* Every unit says who said it and when, so that all are distinct.
MCUnits == Conns \X (1 .. 2)
OneUnitEach == [c \in Conns |-> <<<<c, 1>>>>]
TwoUnitsEach == [c \in Conns |-> <<<<c, 1>>, <<c, 2>>>>]
OneSpeaker ==
    LET first == CHOOSE c \in Conns : TRUE
    IN  [c \in Conns |-> IF c = first THEN <<<<c, 1>>, <<c, 2>>>> ELSE <<>>]

ConnSymmetry == Permutations(Conns)
=============================================================================
