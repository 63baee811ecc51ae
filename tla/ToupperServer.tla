--------------------------- MODULE ToupperServer ---------------------------
(***************************************************************************)
(* The server of C/tcp_serve_toupper/tcp_serve_toupper.c: what a client    *)
(* sends comes back in upper case.                                         *)
(***************************************************************************)
EXTENDS SelectLoop

CONSTANT Toupper  \* toupper() of the C library, on the units of text

ASSUME ToupperAssumption == Toupper \in [Units -> Units]

\* for (j = 0; j < bytes_received; ++j) read[j] = toupper(read[j])
Bug_UpperFromOne(text) ==
    [k \in DOMAIN text |-> IF k = 1 THEN text[k] ELSE Toupper[text[k]]]
Upper(text) == [k \in DOMAIN text |-> Toupper[text[k]]]

Echo == Receive(Upper(Received), {i}, {sock[i]})

Serve ==
    \/ Select
    \/ Accept \/ AcceptFails
    \/ Echo \/ Disconnect
    \/ Send \/ SendIgnored \/ SendKilled \/ Sent({i})

Server == Serve \/ SelectFails

Next == Server \/ Peers

Spec == Init /\ [][Next]_vars

\* The process keeps running, no failure of select() is forced on it, and every
\* peer keeps reading what it is sent.
FairSpec == Spec /\ WF_vars(Serve) /\ \A c \in Conns : WF_vars(Read(c))

-----------------------------------------------------------------------------
\* A peer is sent its own text, in upper case, in order and nothing else,
\* whichever descriptor it has; between two visits, all that was taken of it.
EchoIsOwnText ==
    \A c \in Conns :
        /\ Len(out[c]) <= taken[c]
        /\ out[c] = Upper(SubSeq(Text[c], 1, Len(out[c])))
        /\ pc \in {"select", "scan"} /\ peer[c] # "reset" => Len(out[c]) = taken[c]

\* What a peer sends comes back to it, if it stays, although the server serves
\* one client at a time.
TextComesBack ==
    \A c \in Conns : \A n \in 1 .. Len(Text[c]) :
        (c \in InRoom /\ n <= sent[c])
        ~> (seen[c] >= n \/ peer[c] # "open" \/ ~ Up)
=============================================================================
