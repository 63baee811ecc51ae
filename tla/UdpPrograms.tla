----------------------------- MODULE UdpPrograms -----------------------------
(***************************************************************************)
(* C/chapter 4: a server that answers every datagram with its text in upper *)
(* case (udp_serve_toupper.c), a client that sends what is typed and prints *)
(* what comes (udp_client_send.c), and two programs for one datagram        *)
(* (udp_client_sendto.c, udp_recvfrom.c).  The network may lose, delay,      *)
(* reorder and duplicate datagrams.                                        *)
(***************************************************************************)
EXTENDS Naturals, Sequences

CONSTANTS
    UdpClient,     \* processes running udp_client_send
    OneShot,       \* a process running udp_client_sendto
    READ_SIZE,     \* bytes that recvfrom() takes of a datagram (1024)
    Lines,         \* what fgets() may return to a client
    HelloWorld,    \* the message of udp_client_sendto
    toupper,       \* toupper(): a function of the characters
    MaxTyped       \* lines a client is given, at most: a bound of the model

ASSUME UdpAssumption ==
    /\ OneShot \notin UdpClient
    /\ READ_SIZE \in Nat \ {0} /\ MaxTyped \in Nat
    /\ Lines \subseteq Seq(DOMAIN toupper) /\ HelloWorld \in Seq(DOMAIN toupper)

VARIABLES
    udpServer,   \* on the port: "off", "toupper", "recvfrom", "failed", "finished"
    udpClient,   \* "off", "up", "failed", "finished" for each client
    typedLines,  \* how many lines each client has been given
    air,         \* datagrams that are or were under way, [to, peer, data]
    udpSent,     \* history: what each client has sent
    printed,     \* what each client has printed as received
    overheard    \* what udp_recvfrom has printed, with its sender

udpVars == <<udpServer, udpClient, typedLines, air, udpSent, printed, overheard>>

Sender == UdpClient \cup {OneShot}

-----------------------------------------------------------------------------
\* What recvfrom() takes of a datagram: the rest is lost.
Received(data) == SubSeq(data, 1, IF Len(data) < READ_SIZE THEN Len(data) ELSE READ_SIZE)

Bug_Upper(data) == [k \in 1 .. Len(data) |-> IF k = Len(data) THEN data[k] ELSE toupper[data[k]]]
\* The loop over the bytes received.
Upper(data) == [k \in 1 .. Len(data) |-> toupper[data[k]]]

ToServer(c, data) == [to |-> "server", peer |-> c, data |-> data]
ToClient(c, data) == [to |-> "client", peer |-> c, data |-> data]

-----------------------------------------------------------------------------
UdpInit ==
    /\ udpServer = "off" /\ air = {} /\ overheard = <<>>
    /\ udpClient = [c \in Sender |-> "off"] /\ typedLines = [c \in Sender |-> 0]
    /\ udpSent = [c \in Sender |-> {}] /\ printed = [c \in Sender |-> {}]

\* A server's socket is created and bound to the port, or that fails.
UdpServerStart ==
    /\ udpServer = "off"
    /\ udpServer' \in {"toupper", "recvfrom", "failed"}
    /\ UNCHANGED <<udpClient, typedLines, air, udpSent, printed, overheard>>

\* udp_serve_toupper: a datagram is read and answered.  An empty one ends the server.
ServeToupper ==
    /\ udpServer = "toupper"
    /\ \E d \in air :
          /\ d.to = "server"
          /\ IF d.data = <<>>
             THEN udpServer' = "failed" /\ UNCHANGED air
             ELSE air' = air \cup {ToClient(d.peer, Upper(Received(d.data)))} /\ UNCHANGED udpServer
    /\ UNCHANGED <<udpClient, typedLines, udpSent, printed, overheard>>

\* udp_recvfrom: one datagram is read and printed with its sender.
RecvfromOnce ==
    /\ udpServer = "recvfrom"
    /\ \E d \in air :
          /\ d.to = "server"
          /\ overheard' = <<d.peer, Received(d.data)>>
    /\ udpServer' = "finished"
    /\ UNCHANGED <<udpClient, typedLines, air, udpSent, printed>>

\* udp_client_sendto, from its start to its end.
SendtoOnce ==
    /\ udpClient[OneShot] = "off"
    /\ \/ /\ udpClient' = [udpClient EXCEPT ![OneShot] = "finished"]
          /\ udpSent' = [udpSent EXCEPT ![OneShot] = @ \cup {HelloWorld}]
          /\ air' = air \cup {ToServer(OneShot, HelloWorld)}
       \/ /\ udpClient' = [udpClient EXCEPT ![OneShot] = "failed"]
          /\ UNCHANGED <<udpSent, air>>
    /\ UNCHANGED <<udpServer, typedLines, printed, overheard>>

UdpClientStart(c) ==
    /\ udpClient[c] = "off"
    /\ \E result \in {"up", "failed"} : udpClient' = [udpClient EXCEPT ![c] = result]
    /\ UNCHANGED <<udpServer, typedLines, air, udpSent, printed, overheard>>

\* udp_client_send, the socket is readable: a datagram of the server, or the error
\* that a datagram found nobody on the port, taken for a closed connection.
UdpClientReceives(c) ==
    /\ udpClient[c] = "up"
    /\ \/ /\ \E d \in air :
                /\ d.to = "client" /\ d.peer = c
                /\ printed' = [printed EXCEPT ![c] = @ \cup {d.data}]
          /\ UNCHANGED udpClient
       \/ /\ udpServer \notin {"toupper", "recvfrom"} /\ udpSent[c] # {}
          /\ udpClient' = [udpClient EXCEPT ![c] = "finished"]
          /\ UNCHANGED printed
    /\ UNCHANGED <<udpServer, typedLines, air, udpSent, overheard>>

\* udp_client_send, the terminal is readable: a line, which is empty for send()
\* when it begins with a zero byte, or the end of the input.
UdpClientTypes(c) ==
    /\ udpClient[c] = "up"
    /\ \/ /\ typedLines[c] < MaxTyped
          /\ typedLines' = [typedLines EXCEPT ![c] = @ + 1]
          /\ \E line \in Lines :
                /\ udpSent' = [udpSent EXCEPT ![c] = @ \cup {line}]
                /\ air' = air \cup {ToServer(c, line)}
          /\ UNCHANGED udpClient
       \/ /\ udpClient' = [udpClient EXCEPT ![c] = "finished"]
          /\ UNCHANGED <<typedLines, udpSent, air>>
    /\ UNCHANGED <<udpServer, printed, overheard>>

UdpNext ==
    \/ UdpServerStart \/ ServeToupper \/ RecvfromOnce \/ SendtoOnce
    \/ \E c \in UdpClient : UdpClientStart(c) \/ UdpClientReceives(c) \/ UdpClientTypes(c)

UdpSpec == UdpInit /\ [][UdpNext]_udpVars

-----------------------------------------------------------------------------
UdpTypeOK ==
    /\ udpServer \in {"off", "toupper", "recvfrom", "failed", "finished"}
    /\ udpClient \in [Sender -> {"off", "up", "failed", "finished"}]
    /\ typedLines \in [Sender -> 0 .. MaxTyped]
    /\ \A d \in air : d.to \in {"server", "client"} /\ d.peer \in Sender
    /\ DOMAIN udpSent = Sender /\ DOMAIN printed = Sender

\* All of a line, or as much as the server's buffer holds.
AsLongAs(text, line) ==
    \/ Len(text) = Len(line) /\ Len(line) <= READ_SIZE
    \/ Len(text) = READ_SIZE /\ Len(line) > READ_SIZE

\* Whatever the network does to datagrams and however the clients' datagrams mix
\* at the server, a client prints only answers to what it has itself sent: the
\* beginning of one of its lines that fits in the server's buffer, in upper case;
\* and what udp_recvfrom prints is the beginning of what the sender it names sent.
EchoIsOwn ==
    /\ \A c \in Sender : \A text \in printed[c] : \E line \in udpSent[c] :
          AsLongAs(text, line) /\ \A k \in 1 .. Len(text) : text[k] = toupper[line[k]]
    /\ overheard # <<>> => \E line \in udpSent[overheard[1]] :
          AsLongAs(overheard[2], line) /\ \A k \in 1 .. Len(overheard[2]) : overheard[2][k] = line[k]
=============================================================================
