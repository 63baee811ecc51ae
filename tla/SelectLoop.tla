----------------------------- MODULE SelectLoop -----------------------------
(***************************************************************************)
(* What C/tcp_serve_chat/tcp_serve_chat.c and C/tcp_serve_toupper/         *)
(* tcp_serve_toupper.c have in common: one process, the fd_set `master`    *)
(* of the listening socket and of every client, select() on a copy of it,  *)
(* a visit of the ready descriptors in ascending order, and blocking       *)
(* send().  ChatServer and ToupperServer say who is sent what.             *)
(***************************************************************************)
EXTENDS Naturals, Sequences, FiniteSets, FiniteSetsExt

CONSTANTS
    Conns,          \* connections peers may open, each used once
    Fds,            \* descriptors the process may still get
    socket_listen,  \* the listening descriptor
    NULL,
    Units,          \* the pieces of text a peer sends
    Text,           \* connection -> all its peer may ever send
    ReadSize,       \* units one recv() returns at most (1024 bytes)
    Backlog,        \* connections the kernel queues for accept (10)
    Window,         \* units the kernel buffers for a slow peer
    Sigpipe,        \* TRUE where send() to a reset peer may raise SIGPIPE
    SysErrors       \* calls of the server that may fail

\* Descriptor 0 is standard input: both loops over descriptors start at 1.
ASSUME FdsAssumption ==
    /\ Fds \subseteq Nat \ {0}
    /\ socket_listen \in Nat \ {0}
    /\ socket_listen \notin Fds
    /\ NULL \notin Fds
ASSUME ConnsAssumption == NULL \notin Conns
ASSUME TextAssumption == Text \in [Conns -> Seq(Units)]
ASSUME LimitsAssumption == {ReadSize, Backlog, Window} \subseteq Nat \ {0}
ASSUME FailuresAssumption ==
    Sigpipe \in BOOLEAN /\ SysErrors \subseteq {"select", "accept"}

VARIABLES
    \* The process; locals that main() no longer reads are 0 or empty.
    pc,          \* where main() is
    master,      \* the fd_set of all sockets
    max_socket,  \* the highest descriptor ever put in it
    sock,        \* descriptor -> its connection, NULL when closed
    reads,       \* the copy of master that select() left
    i,           \* the ready descriptor being visited
    j,           \* the descriptor being sent to
    read,        \* what recv() returned
    left,        \* what send() has not yet copied for j
    \* The network and the peers.
    backlog,     \* connections established but not accepted
    sent,        \* how many units of its text the peer has sent
    taken,       \* how many of them recv() has returned
    peer,        \* "new", "open", "fin" (closed its side) or "reset"
    out,         \* units send() has accepted for the peer
    seen,        \* how many of them the peer has read
    \* History, for the properties only.
    due          \* what the peer should be sent, from its accept() on

process == <<pc, master, max_socket, sock, reads, i, j, read, left>>
network == <<backlog, sent, taken, peer, out, seen>>
vars == <<process, network, due>>

-----------------------------------------------------------------------------
Open == {fd \in Fds : sock[fd] # NULL}
Free == Fds \ Open
InRoom == {sock[fd] : fd \in Open}
Unread(c) == sent[c] - taken[c]
Readable(fd) ==
    IF fd = socket_listen
    THEN backlog # <<>>
    ELSE Unread(sock[fd]) > 0 \/ peer[sock[fd]] \in {"fin", "reset"}

\* What a loop `for (k = fd + 1; k <= top; ++k) if (FD_ISSET(k, &set))` visits.
After(fd, set, top) == {k \in set : fd < k /\ k <= top}

Init ==
    /\ pc = "select"
    /\ master = {socket_listen}
    /\ max_socket = socket_listen
    /\ sock = [fd \in Fds |-> NULL]
    /\ reads = {}
    /\ i = 0 /\ j = 0
    /\ read = <<>> /\ left = <<>>
    /\ backlog = <<>>
    /\ sent = [c \in Conns |-> 0]
    /\ taken = [c \in Conns |-> 0]
    /\ peer = [c \in Conns |-> "new"]
    /\ out = [c \in Conns |-> <<>>]
    /\ seen = [c \in Conns |-> 0]
    /\ due = [c \in Conns |-> <<>>]

-----------------------------------------------------------------------------
\* ++i: on to the next ready descriptor, or back to select().
Advance ==
    LET rest == After(i, reads, max_socket')
    IN  /\ i' = IF rest = {} THEN 0 ELSE Min(rest)
        /\ pc' = IF rest = {} THEN "select" ELSE "scan"

\* Text goes to the first of the targets above fd; after the last, ++i.
Deliver(text, fd, targets) ==
    LET rest == After(fd, targets, max_socket)
    IN  IF rest = {}
        THEN /\ j' = 0 /\ read' = <<>> /\ left' = <<>>
             /\ Advance
        ELSE /\ j' = Min(rest) /\ read' = text /\ left' = text
             /\ i' = i /\ pc' = "send"

Exit ==
    /\ pc' = "exited"
    /\ UNCHANGED <<master, max_socket, sock, reads, i, j, read, left, network, due>>

Bug_SelectAccumulates ==
    /\ pc = "select"
    /\ reads' = reads \cup {fd \in master : fd <= max_socket /\ Readable(fd)}
    /\ reads' # {}
    /\ i' = Min(reads')
    /\ pc' = "scan"
    /\ UNCHANGED <<master, max_socket, sock, j, read, left, network, due>>
\* select() on a fresh copy of master.
Select ==
    /\ pc = "select"
    /\ reads' = {fd \in master : fd <= max_socket /\ Readable(fd)}
    /\ reads' # {}
    /\ i' = Min(reads')
    /\ pc' = "scan"
    /\ UNCHANGED <<master, max_socket, sock, j, read, left, network, due>>

SelectFails == pc = "select" /\ "select" \in SysErrors /\ Exit

Bug_AcceptKeepsMax ==
    /\ pc = "scan" /\ i = socket_listen
    /\ Free # {} /\ backlog # <<>>
    /\ LET socket_client == Min(Free)
       IN  /\ sock' = [sock EXCEPT ![socket_client] = Head(backlog)]
           /\ master' = master \cup {socket_client}
           /\ max_socket' = max_socket
    /\ backlog' = Tail(backlog)
    /\ Advance
    /\ UNCHANGED <<reads, j, read, left, sent, taken, peer, out, seen, due>>

\* accept() gives the new client the lowest free descriptor.
Accept ==
    /\ pc = "scan" /\ i = socket_listen
    /\ Free # {} /\ backlog # <<>>
    /\ LET socket_client == Min(Free)
       IN  /\ sock' = [sock EXCEPT ![socket_client] = Head(backlog)]
           /\ master' = master \cup {socket_client}
           /\ max_socket' = IF socket_client > max_socket
                            THEN socket_client ELSE max_socket
    /\ backlog' = Tail(backlog)
    /\ Advance
    /\ UNCHANGED <<reads, j, read, left, sent, taken, peer, out, seen, due>>

\* accept() fails: the server exits.
AcceptFails ==
    /\ pc = "scan" /\ i = socket_listen
    /\ Free = {} \/ "accept" \in SysErrors
    /\ Exit

\* The whole buffer, read[0 .. 1023], instead of its first bytes_received bytes.
Bug_ReceivedWholeBuffer ==
    LET c == sock[i]
    IN  SubSeq(Text[c], taken[c] + 1, taken[c] + Min({Len(Text[c]) - taken[c], ReadSize}))
\* What recv() returns of the text of the client being visited.
Received ==
    LET c == sock[i]
    IN  SubSeq(Text[c], taken[c] + 1, taken[c] + Min({Unread(c), ReadSize}))

\* recv() succeeds; text, made of what it returned, is sent to the targets and
\* is due to the hearers.
Receive(text, targets, hearers) ==
    /\ pc = "scan" /\ i # socket_listen
    /\ Unread(sock[i]) > 0
    /\ taken' = [taken EXCEPT ![sock[i]] = @ + Len(Received)]
    /\ due' = [c \in Conns |-> IF c \in hearers THEN due[c] \o text ELSE due[c]]
    /\ max_socket' = max_socket
    /\ Deliver(text, 0, targets)
    /\ UNCHANGED <<master, sock, reads, backlog, sent, peer, out, seen>>

\* `bytes_received < 0` instead of `bytes_received < 1`.
Bug_DisconnectOnErrorOnly ==
    /\ pc = "scan" /\ i # socket_listen
    /\ peer[sock[i]] = "reset"
    /\ master' = master \ {i}
    /\ sock' = [sock EXCEPT ![i] = NULL]
    /\ max_socket' = max_socket
    /\ Advance
    /\ UNCHANGED <<reads, j, read, left, network, due>>

\* recv() returns 0 at the end of the stream, -1 on a reset connection.
Disconnect ==
    /\ pc = "scan" /\ i # socket_listen
    /\ \/ peer[sock[i]] = "fin" /\ Unread(sock[i]) = 0
       \/ peer[sock[i]] = "reset"
    /\ master' = master \ {i}
    /\ sock' = [sock EXCEPT ![i] = NULL]
    /\ max_socket' = max_socket
    /\ Advance
    /\ UNCHANGED <<reads, j, read, left, network, due>>

\* The blocking send() copies one more unit.
Send ==
    /\ pc = "send" /\ left # <<>>
    /\ LET c == sock[j]
       IN  /\ peer[c] # "reset"
           /\ Len(out[c]) - seen[c] < Window
           /\ out' = [out EXCEPT ![c] = Append(@, Head(left))]
    /\ left' = Tail(left)
    /\ UNCHANGED <<pc, master, max_socket, sock, reads, i, j, read, backlog,
                   sent, taken, peer, seen, due>>

\* A send() that would block gives up, as on a non-blocking socket.
Bug_SendGivesUp ==
    /\ pc = "send" /\ left # <<>>
    /\ \/ peer[sock[j]] = "reset"
       \/ Len(out[sock[j]]) - seen[sock[j]] >= Window
    /\ left' = <<>>
    /\ UNCHANGED <<pc, master, max_socket, sock, reads, i, j, read, network, due>>

\* send() on a reset connection fails, which nobody looks at ...
SendIgnored ==
    /\ pc = "send" /\ left # <<>>
    /\ peer[sock[j]] = "reset"
    /\ left' = <<>>
    /\ UNCHANGED <<pc, master, max_socket, sock, reads, i, j, read, network, due>>

\* ... or raises SIGPIPE, which ends the process.
SendKilled ==
    /\ pc = "send" /\ left # <<>>
    /\ peer[sock[j]] = "reset"
    /\ Sigpipe
    /\ pc' = "killed"
    /\ UNCHANGED <<master, max_socket, sock, reads, i, j, read, left, network, due>>

\* send() has returned: on to the next target.
Sent(targets) ==
    /\ pc = "send" /\ left = <<>>
    /\ max_socket' = max_socket
    /\ Deliver(read, j, targets)
    /\ UNCHANGED <<master, sock, reads, network, due>>

-----------------------------------------------------------------------------
\* The peers.  Nothing is modelled after the process has ended.
Up == pc \notin {"exited", "killed"}

Connect(c) ==
    /\ Up
    /\ peer[c] = "new"
    /\ Len(backlog) < Backlog
    /\ backlog' = Append(backlog, c)
    /\ peer' = [peer EXCEPT ![c] = "open"]
    /\ UNCHANGED <<process, sent, taken, out, seen, due>>

\* More of its text arrives.
Say(c) ==
    /\ Up
    /\ peer[c] = "open"
    /\ \E n \in 1 .. Len(Text[c]) - sent[c] : sent' = [sent EXCEPT ![c] = @ + n]
    /\ UNCHANGED <<process, backlog, taken, peer, out, seen, due>>

Shutdown(c) ==
    /\ Up
    /\ peer[c] = "open"
    /\ peer' = [peer EXCEPT ![c] = "fin"]
    /\ UNCHANGED <<process, backlog, sent, taken, out, seen, due>>

Reset(c) ==
    /\ Up
    /\ peer[c] \in {"open", "fin"}
    /\ peer' = [peer EXCEPT ![c] = "reset"]
    /\ UNCHANGED <<process, backlog, sent, taken, out, seen, due>>

\* The peer reads some of what has arrived.
Read(c) ==
    /\ Up
    /\ peer[c] \in {"open", "fin"}
    /\ \E n \in 1 .. Len(out[c]) - seen[c] : seen' = [seen EXCEPT ![c] = @ + n]
    /\ UNCHANGED <<process, backlog, sent, taken, peer, out, due>>

Peers ==
    \E c \in Conns : Connect(c) \/ Say(c) \/ Shutdown(c) \/ Reset(c) \/ Read(c)

-----------------------------------------------------------------------------
TypeOK ==
    /\ pc \in {"select", "scan", "send", "exited", "killed"}
    /\ master \subseteq Fds \cup {socket_listen}
    /\ max_socket \in Fds \cup {socket_listen}
    /\ sock \in [Fds -> Conns \cup {NULL}]
    /\ reads \subseteq Fds \cup {socket_listen}
    /\ i \in Fds \cup {socket_listen, 0}
    /\ j \in Fds \cup {0}
    /\ read \in Seq(Units)
    /\ left \in Seq(Units)
    /\ backlog \in Seq(Conns)
    /\ sent \in [Conns -> Nat]
    /\ taken \in [Conns -> Nat]
    /\ \A c \in Conns : taken[c] <= sent[c] /\ sent[c] <= Len(Text[c])
    /\ peer \in [Conns -> {"new", "open", "fin", "reset"}]
    /\ out \in [Conns -> Seq(Units)]
    /\ seen \in [Conns -> Nat]
    /\ \A c \in Conns : seen[c] <= Len(out[c])
    /\ due \in [Conns -> Seq(Units)]

\* `master` is the listening socket and every open client, `max_socket` is
\* never below one of them although it is only ever raised, and no connection
\* has two descriptors: select() watches all clients and no closed one.
MasterIsOpen ==
    /\ master = Open \cup {socket_listen}
    /\ \A fd \in master : fd <= max_socket
    /\ \A fd, gd \in Open : sock[fd] = sock[gd] => fd = gd

\* The server never blocks in accept() or recv(): what it has still to visit
\* in `reads` is open and ready, although connections were accepted and closed,
\* and descriptors given again, since select() filled it.
NeverBlocksOnReady ==
    pc \in {"scan", "send"} =>
        \A fd \in reads :
            fd > i \/ (fd = i /\ pc = "scan") => fd \in master /\ Readable(fd)

\* What a peer was sent is a beginning of what it is due: nothing is doubled,
\* reordered, skipped or sent to the wrong one, also for peers that left.
SentIsDue == \A c \in Conns : \E n \in 0 .. Len(due[c]) : out[c] = SubSeq(due[c], 1, n)

\* Between two visits nobody lags behind: every client that has not reset has
\* been sent all it is due, whatever the others do and however slowly it reads.
NobodyLagsBehind ==
    pc \in {"select", "scan"} =>
        \A c \in InRoom : peer[c] # "reset" => out[c] = due[c]
=============================================================================
