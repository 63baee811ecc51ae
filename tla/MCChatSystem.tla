---------------------------- MODULE MCChatSystem ----------------------------
(* Small instances of ChatSystem. *)
EXTENDS ChatSystem, TLC

\* Every unit says who said it and when, so that all are distinct.
MCUnits == Conns \X (1 .. 4)
Said(c, n) == [k \in 1 .. n |-> <<c, k>>]
FourUnitsEach == [c \in Conns |-> Said(c, 4)]
TwoAndOne ==
    LET first == CHOOSE c \in Conns : TRUE
    IN  [c \in Conns |-> Said(c, IF c = first THEN 2 ELSE 1)]

ConnSymmetry == Permutations(Conns)
=============================================================================
