----------------------------- MODULE ChatServer -----------------------------
(***************************************************************************)
(* The chat server of C/tcp_serve_chat/tcp_serve_chat.c: what one client   *)
(* says is sent to every other client.                                     *)
(***************************************************************************)
EXTENDS SelectLoop

\* for (j = 1; j <= max_socket; ++j): all of master but the listening socket
\* and the client that spoke.
Bug_OthersReady == reads \ {socket_listen, i}
Bug_OthersWithSpeaker == master \ {socket_listen}
Others == master \ {socket_listen, i}

Broadcast == Receive(Received, Others, InRoom \ {sock[i]})

Serve ==
    \/ Select
    \/ Accept \/ AcceptFails
    \/ Broadcast \/ Disconnect
    \/ Send \/ SendIgnored \/ SendKilled \/ Sent(Others)

Server == Serve \/ SelectFails

Next == Server \/ Peers

Spec == Init /\ [][Next]_vars

\* The process keeps running, no failure of select() is forced on it, and every
\* peer keeps reading what it is sent.
FairSpec == Spec /\ WF_vars(Serve) /\ \A c \in Conns : WF_vars(Read(c))

-----------------------------------------------------------------------------
\* What the n-th unit c says is heard by d, if both are in the room and stay:
\* no client, slow, silent, joining or leaving, starves another.
SaidIsHeard ==
    \A c, d \in Conns : \A n \in 1 .. Len(Text[c]) :
        ( /\ {c, d} \subseteq InRoom /\ c # d
          /\ taken[c] < n /\ n <= sent[c] )
        ~> ( \/ \E k \in 1 .. seen[d] : out[d][k] = Text[c][n]
             \/ "reset" \in {peer[c], peer[d]} \/ peer[d] = "fin"
             \/ ~ Up )

\* A client that closed or reset leaves the room, and its descriptor is free.
QuitterLeaves ==
    \A c \in Conns : (peer[c] \in {"fin", "reset"} /\ c \in InRoom)
                        ~> (c \notin InRoom \/ ~ Up)
=============================================================================
