-------------------------- MODULE MCToupperServer --------------------------
(* Small instances of ToupperServer. *)
EXTENDS ToupperServer, TLC

MCUnits == {"a", "A", "1", "b", "B"}
MCToupper == ("a" :> "A") @@ ("b" :> "B") @@ [u \in {"A", "1", "B"} |-> u]

\* Peers with different texts, so that no one's echo passes for another's.
TwoTexts ==
    LET first == CHOOSE c \in Conns : TRUE
    IN  [c \in Conns |-> IF c = first THEN <<"a", "1", "b">> ELSE <<"A", "b", "a">>]
ShortTexts == [c \in Conns |-> SubSeq(TwoTexts[c], 1, 2)]
=============================================================================
