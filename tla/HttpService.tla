---------------------------- MODULE HttpService ----------------------------
(***************************************************************************)
(* What web_server.c promises, without descriptors, buffers or rounds: one *)
(* connection is served at a time, from its first segment to its close,    *)
(* with the answer its whole request calls for; a connection is given up   *)
(* without an answer only when its peer has gone.                          *)
(***************************************************************************)
EXTENDS HttpRequest

CONSTANTS
    Connections,
    Scripts,     \* what a peer may send
    Scarce       \* TRUE where an existing page may fail to be opened

VARIABLES
    up,        \* the service is there
    asked,     \* what the peer of a connection wants to send
    status,    \* "none", "waiting", "served" or "closed"
    gone,      \* connections whose peer has closed, reset or been cut off
    told       \* segments the connection has been sent

svars == <<up, asked, status, gone, told>>

SInit ==
    /\ up = TRUE
    /\ asked = [c \in Connections |-> <<>>]
    /\ status = [c \in Connections |-> "none"]
    /\ gone = {}
    /\ told = [c \in Connections |-> <<>>]

Come(c, r) ==
    /\ up /\ status[c] = "none"
    /\ asked' = [asked EXCEPT ![c] = r]
    /\ status' = [status EXCEPT ![c] = "waiting"]
    /\ UNCHANGED <<up, gone, told>>

Go(c) ==
    /\ up /\ status[c] # "none" /\ c \notin gone
    /\ gone' = gone \cup {c}
    /\ UNCHANGED <<up, asked, status, told>>

\* The whole answers a peer that sends all of r may get.
Owed(r) == {Promise(r, canOpen) : canOpen \in IF Scarce THEN BOOLEAN ELSE {TRUE}}

\* Serving begins only when nobody else is being served.
Begin(c) ==
    /\ up /\ status[c] = "waiting"
    /\ \A d \in Connections : status[d] # "served"
    /\ status' = [status EXCEPT ![c] = "served"]
    /\ UNCHANGED <<up, asked, gone, told>>

Tell(c) ==
    /\ up /\ status[c] = "served"
    /\ \E whole \in Owed(asked[c]) :
          /\ IsStrictPrefix(told[c], whole)
          /\ told' = [told EXCEPT ![c] = Append(@, whole[Len(@) + 1])]
    /\ UNCHANGED <<up, asked, status, gone>>

Close(c) ==
    /\ up
    /\ \/ status[c] = "served" /\ told[c] \in Owed(asked[c])
       \/ status[c] \in {"waiting", "served"} /\ c \in gone
    /\ status' = [status EXCEPT ![c] = "closed"]
    /\ UNCHANGED <<up, asked, gone, told>>

\* A call fails, or SIGPIPE for a peer that has gone.
Stop == up /\ up' = FALSE /\ UNCHANGED <<asked, status, gone, told>>

SNext ==
    \/ Stop
    \/ \E c \in Connections :
          \/ \E r \in Scripts : Come(c, r)
          \/ Go(c) \/ Begin(c) \/ Tell(c) \/ Close(c)

Service == SInit /\ [][SNext]_svars
=============================================================================
