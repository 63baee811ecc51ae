----------------------------- MODULE ChatSystem -----------------------------
(* The chat server with copies of tcp_client.c as its peers. *)
EXTENDS ChatServer, TcpClient

SystemInit == Init /\ ClientInit

SystemNext ==
    \/ Server /\ UNCHANGED cvars
    \/ \E c \in Conns : Client(c)

System == SystemInit /\ [][SystemNext]_<<vars, cvars>>

\* All processes keep running.  That the clients go on reading is no longer
\* assumed: it is for tcp_client.c to do.
FairSystem ==
    /\ System
    /\ WF_<<vars, cvars>>(Serve /\ UNCHANGED cvars)
    /\ \A c \in Conns : WF_<<vars, cvars>>(Work(c))

\* The system is a chat server with peers of the kind ChatServer allows.
IsChatServer == Spec

-----------------------------------------------------------------------------
\* A line entered at one client is printed by every other client of the room,
\* as long as both stay.
EnteredIsHeard ==
    \A c, d \in Conns : \A n \in 1 .. Len(Text[c]) :
        ( /\ {c, d} \subseteq InRoom /\ c # d
          /\ sent[c] < n /\ n <= typed[c] )
        ~> ( \/ \E k \in 1 .. seen[d] : out[d][k] = Text[c][n]
             \/ "gone" \in {at[c], at[d]}
             \/ ~ Up )
=============================================================================
