----------------------------- MODULE WebServer -----------------------------
(***************************************************************************)
(* The HTTP server of C/chapter 7/web_server.c: one process that waits in  *)
(* select() on its listening socket and on every client, accepts at most   *)
(* one connection a round, then visits the list of clients from the newest *)
(* to the oldest.  A client is named by its descriptor.  The rest of the   *)
(* module is what the code talks to: TCP connections whose peers send a    *)
(* fixed script of bytes in any pieces, close, reset, and read slowly.     *)
(***************************************************************************)
EXTENDS HttpRequest, FiniteSets

CONSTANTS
    Conns,       \* connections peers may open, each used once
    Fds,         \* descriptors the process may still get
    server,      \* the listening descriptor
    NULL,
    Requests,    \* the byte scripts a peer may send
    Backlog,     \* connections the kernel queues for accept (10)
    Window,      \* answer segments the kernel buffers for a slow peer
    Sigpipe,     \* TRUE where send() to a reset peer may raise SIGPIPE
    SysErrors    \* calls of the server that may fail

ASSUME FdsAssumption == Fds \subseteq Nat /\ server \notin Fds /\ NULL \notin Fds
ASSUME ConnsAssumption == NULL \notin Conns /\ IsFiniteSet(Conns)
ASSUME RequestsAssumption == \A r \in Requests : r \in Seq(STRING)
ASSUME LimitsAssumption == Backlog \in Nat \ {0} /\ Window \in Nat \ {0}
ASSUME FailuresAssumption ==
    Sigpipe \in BOOLEAN /\ SysErrors \subseteq {"select", "calloc", "accept"}

VARIABLES
    \* The process.
    pc,          \* where main() is
    clients,     \* the linked list, newest client first
    sock,        \* descriptor -> its connection, NULL when closed
    request,     \* descriptor -> client_info.request[0 .. received - 1]
    reads,       \* the fd_set of the last select()
    client,      \* the client being visited
    next,        \* client->next, saved before the visit
    sending,     \* segments of the answer still to pass to send()
    \* The network and the peers.
    backlog,     \* connections established but not accepted
    script,      \* all the bytes the peer will ever send
    sent,        \* how many of them it has sent
    taken,       \* how many of them recv() has returned
    peer,        \* "new", "open", "fin" (closed its side) or "reset"
    closed,      \* how the server closed: "no", "fin" or "rst"
    answer,      \* segments send() has accepted
    seen         \* how many of them the peer has read

process == <<pc, clients, sock, request, reads, client, next, sending>>
network == <<backlog, script, sent, taken, peer, closed, answer, seen>>
vars == <<process, network>>

-----------------------------------------------------------------------------
Open == {fd \in Fds : sock[fd] # NULL}
Free == Fds \ Open
Unread(c) == sent[c] - taken[c]
Readable(fd) == Unread(sock[fd]) > 0 \/ peer[sock[fd]] \in {"fin", "reset"}

\* Bytes recv() may still add: MAX_REQUEST_SIZE - client->received.
Bug_RoomForZeroByte(fd) == MAX_REQUEST_SIZE + 1 - Len(request[fd])
Room(fd) == MAX_REQUEST_SIZE - Len(request[fd])

First(list) == IF list = <<>> THEN NULL ELSE list[1]

\* client->next in a list.
Successor(list, fd) ==
    LET i == CHOOSE i \in 1 .. Len(list) : list[i] = fd
    IN  IF i = Len(list) THEN NULL ELSE list[i + 1]

\* The list without fd: `*p = client->next` with p left at the head.
Bug_UnlinkFromHead(list, fd) ==
    LET i == CHOOSE i \in 1 .. Len(list) : list[i] = fd
    IN  SubSeq(list, i + 1, Len(list))
\* The list without fd: `*p = client->next`.
Unlink(list, fd) ==
    LET i == CHOOSE i \in 1 .. Len(list) : list[i] = fd
    IN  RemoveAt(list, i)

Init ==
    /\ pc = "select"
    /\ clients = <<>>
    /\ sock = [fd \in Fds |-> NULL]
    /\ request = [fd \in Fds |-> <<>>]
    /\ reads = {}
    /\ client = NULL /\ next = NULL
    /\ sending = <<>>
    /\ backlog = <<>>
    /\ script = [c \in Conns |-> <<>>]
    /\ sent = [c \in Conns |-> 0]
    /\ taken = [c \in Conns |-> 0]
    /\ peer = [c \in Conns |-> "new"]
    /\ closed = [c \in Conns |-> "no"]
    /\ answer = [c \in Conns |-> <<>>]
    /\ seen = [c \in Conns |-> 0]

-----------------------------------------------------------------------------
\* The loop head `while (client)`: go to fd, or back to select() after the
\* last client, saving the successor.
Bug_VisitSavesNoNext(fd, list) ==
    /\ pc' = IF fd = NULL THEN "select" ELSE "scan"
    /\ client' = fd
    /\ next' = next
Visit(fd, list) ==
    /\ pc' = IF fd = NULL THEN "select" ELSE "scan"
    /\ client' = fd
    /\ next' = IF fd = NULL THEN NULL ELSE Successor(list, fd)

\* get_client(-1): no client has descriptor -1, so a zeroed client_info is
\* linked in front of the others.
Bug_GetClientMalloc(fd) ==
    /\ clients' = <<fd>> \o clients
    /\ request' = request
GetClient(fd) ==
    /\ clients' = <<fd>> \o clients
    /\ request' = [request EXCEPT ![fd] = <<>>]

\* drop_client, `while (*p)`: is the client in the list?
Bug_InListBeforeLast(list, fd) == list # <<>> /\ fd \in Range(Front(list))
InList(list, fd) == fd \in Range(list)

\* drop_client, and back in the scan the saved successor; a client that is not
\* found ends the process.  Closing with bytes unread makes TCP reset the
\* connection.
Drop ==
    /\ LET c == sock[client]
       IN  closed' = [closed EXCEPT ![c] = IF Unread(c) > 0 THEN "rst" ELSE "fin"]
    /\ sock' = [sock EXCEPT ![client] = NULL]
    /\ IF InList(clients, client)
       THEN clients' = Unlink(clients, client) /\ Visit(next, clients')
       ELSE pc' = "exited" /\ UNCHANGED <<clients, client, next>>
    /\ UNCHANGED <<request, reads, sending, backlog, script, sent, taken, peer,
                   answer, seen>>

Exit ==
    /\ pc' = "exited"
    /\ UNCHANGED <<clients, sock, request, reads, client, next, sending, network>>

Bug_WaitWithoutFdZero ==
    /\ pc = "select"
    /\ reads' = reads \cup {fd \in Range(clients) : Readable(fd)}
                  \cup (IF backlog = <<>> THEN {} ELSE {server})
    /\ reads' # {}
    /\ pc' = "accept"
    /\ UNCHANGED <<clients, sock, request, client, next, sending, network>>
WaitOnClients ==
    /\ pc = "select"
    /\ reads' = {fd \in Range(clients) : Readable(fd)}
                  \cup (IF backlog = <<>> THEN {} ELSE {server})
    /\ reads' # {}
    /\ pc' = "accept"
    /\ UNCHANGED <<clients, sock, request, client, next, sending, network>>

SelectFails == pc = "select" /\ "select" \in SysErrors /\ Exit

NothingToAccept ==
    /\ pc = "accept"
    /\ server \notin reads
    /\ Visit(First(clients), clients)
    /\ UNCHANGED <<clients, sock, request, reads, sending, network>>

\* accept() gives the new client the lowest free descriptor.
Accept ==
    /\ pc = "accept"
    /\ server \in reads
    /\ Free # {}
    /\ backlog # <<>>
    /\ LET fd == Min(Free)
       IN  /\ sock' = [sock EXCEPT ![fd] = Head(backlog)]
           /\ GetClient(fd)
           /\ Visit(fd, clients')
    /\ backlog' = Tail(backlog)
    /\ UNCHANGED <<reads, sending, script, sent, taken, peer, closed, answer, seen>>

\* calloc() or accept() fails: the server exits.
AcceptFails ==
    /\ pc = "accept"
    /\ server \in reads
    /\ Free = {} \/ SysErrors \cap {"calloc", "accept"} # {}
    /\ Exit

NotReady ==
    /\ pc = "scan"
    /\ client \notin reads
    /\ Visit(next, clients)
    /\ UNCHANGED <<clients, sock, request, reads, sending, network>>

Bug_TooLongOneEarly ==
    /\ pc = "scan"
    /\ client \in reads
    /\ Room(client) <= 1
    /\ sending' = BadRequest
    /\ pc' = "send"
    /\ UNCHANGED <<clients, sock, request, reads, client, next, network>>

\* Without the test, recv() of 0 bytes returns 0.
Bug_TooLongUntested ==
    /\ pc = "scan"
    /\ client \in reads
    /\ Room(client) = 0
    /\ Drop

\* received == MAX_REQUEST_SIZE: 400, without reading what has arrived.
TooLong ==
    /\ pc = "scan"
    /\ client \in reads
    /\ Room(client) = 0
    /\ sending' = BadRequest
    /\ pc' = "send"
    /\ UNCHANGED <<clients, sock, request, reads, client, next, network>>

\* recv() returns what has arrived and fits; a complete request is answered.
Receive ==
    /\ pc = "scan"
    /\ client \in reads
    /\ Room(client) > 0
    /\ LET c == sock[client]
           r == Min({Unread(c), Room(client)})
       IN  /\ Unread(c) > 0
           /\ request' = [request EXCEPT ![client] =
                            @ \o SubSeq(script[c], taken[c] + 1, taken[c] + r)]
           /\ taken' = [taken EXCEPT ![c] = @ + r]
    /\ IF Complete(request'[client])
       THEN /\ sending' = Response(request'[client], Free # {})
            /\ pc' = "send"
            /\ UNCHANGED <<client, next>>
       ELSE /\ sending' = sending
            /\ Visit(next, clients)
    /\ UNCHANGED <<clients, sock, reads, backlog, script, sent, peer, closed,
                   answer, seen>>

\* `r < 0` instead of `r < 1`.
Bug_DisconnectOnErrorOnly ==
    /\ pc = "scan"
    /\ client \in reads
    /\ Room(client) > 0
    /\ peer[sock[client]] = "reset"
    /\ Drop

\* recv() returns 0 at the end of the stream, -1 on a reset connection.
Disconnect ==
    /\ pc = "scan"
    /\ client \in reads
    /\ Room(client) > 0
    /\ \/ peer[sock[client]] = "fin" /\ Unread(sock[client]) = 0
       \/ peer[sock[client]] = "reset"
    /\ Drop

\* One blocking send() of the next segment.
Send ==
    /\ pc = "send"
    /\ sending # <<>>
    /\ LET c == sock[client]
       IN  /\ peer[c] # "reset"
           /\ Len(answer[c]) - seen[c] < Window
           /\ answer' = [answer EXCEPT ![c] = Append(@, Head(sending))]
    /\ sending' = Tail(sending)
    /\ UNCHANGED <<pc, clients, sock, request, reads, client, next, backlog,
                   script, sent, taken, peer, closed, seen>>

\* A send() that would block loses its segment, as on a non-blocking socket.
Bug_SendLosesBlocked ==
    /\ pc = "send"
    /\ sending # <<>>
    /\ \/ peer[sock[client]] = "reset"
       \/ Len(answer[sock[client]]) - seen[sock[client]] >= Window
    /\ sending' = Tail(sending)
    /\ UNCHANGED <<pc, clients, sock, request, reads, client, next, network>>

\* send() on a reset connection returns an error nobody looks at ...
SendIgnored ==
    /\ pc = "send"
    /\ sending # <<>>
    /\ peer[sock[client]] = "reset"
    /\ sending' = Tail(sending)
    /\ UNCHANGED <<pc, clients, sock, request, reads, client, next, network>>

\* ... or raises SIGPIPE, which ends the process.
SendKilled ==
    /\ pc = "send"
    /\ sending # <<>>
    /\ peer[sock[client]] = "reset"
    /\ Sigpipe
    /\ pc' = "killed"
    /\ UNCHANGED <<clients, sock, request, reads, client, next, sending, network>>

Bug_FinishWithoutDrop ==
    /\ pc = "send"
    /\ sending = <<>>
    /\ Visit(next, clients)
    /\ UNCHANGED <<clients, sock, request, reads, sending, network>>

\* After the last send(): drop_client and on to the saved successor.
Finish ==
    /\ pc = "send"
    /\ sending = <<>>
    /\ Drop

Serve ==
    \/ WaitOnClients
    \/ NothingToAccept \/ Accept \/ AcceptFails
    \/ NotReady \/ TooLong \/ Receive \/ Disconnect
    \/ Send \/ SendIgnored \/ SendKilled \/ Finish

Server == Serve \/ SelectFails

-----------------------------------------------------------------------------
\* The peers.  Nothing is modelled after the process has ended.
Up == pc \notin {"exited", "killed"}

Connect(c, r) ==
    /\ Up
    /\ peer[c] = "new"
    /\ Len(backlog) < Backlog
    /\ backlog' = Append(backlog, c)
    /\ script' = [script EXCEPT ![c] = r]
    /\ peer' = [peer EXCEPT ![c] = "open"]
    /\ UNCHANGED <<process, sent, taken, closed, answer, seen>>

\* One more byte of the script arrives.
SendMore(c) ==
    /\ Up
    /\ peer[c] = "open" /\ closed[c] = "no"
    /\ sent[c] < Len(script[c])
    /\ sent' = [sent EXCEPT ![c] = @ + 1]
    /\ UNCHANGED <<process, backlog, script, taken, peer, closed, answer, seen>>

Shutdown(c) ==
    /\ Up
    /\ peer[c] = "open" /\ closed[c] = "no"
    /\ peer' = [peer EXCEPT ![c] = "fin"]
    /\ UNCHANGED <<process, backlog, script, sent, taken, closed, answer, seen>>

Reset(c) ==
    /\ Up
    /\ peer[c] \in {"open", "fin"} /\ closed[c] = "no"
    /\ peer' = [peer EXCEPT ![c] = "reset"]
    /\ UNCHANGED <<process, backlog, script, sent, taken, closed, answer, seen>>

Read(c) ==
    /\ Up
    /\ peer[c] \in {"open", "fin"}
    /\ seen[c] < Len(answer[c])
    /\ seen' = [seen EXCEPT ![c] = @ + 1]
    /\ UNCHANGED <<process, backlog, script, sent, taken, peer, closed, answer>>

\* The reset of a close with bytes unread reaches the peer: what it has not
\* read of the answer is lost.
LoseAnswer(c) ==
    /\ Up
    /\ closed[c] = "rst" /\ peer[c] \in {"open", "fin"}
    /\ peer' = [peer EXCEPT ![c] = "reset"]
    /\ UNCHANGED <<process, backlog, script, sent, taken, closed, answer, seen>>

Peer(c) ==
    \/ \E r \in Requests : Connect(c, r)
    \/ SendMore(c) \/ Shutdown(c) \/ Reset(c) \/ Read(c) \/ LoseAnswer(c)

Next == Server \/ \E c \in Conns : Peer(c)

Spec == Init /\ [][Next]_vars

\* The process keeps running, no failure of select() is forced on it, and every
\* peer keeps reading what it is sent.
FairSpec == Spec /\ WF_vars(Serve) /\ \A c \in Conns : WF_vars(Read(c))

-----------------------------------------------------------------------------
TypeOK ==
    /\ pc \in {"select", "accept", "scan", "send", "exited", "killed"}
    /\ clients \in Seq(Fds)
    /\ sock \in [Fds -> Conns \cup {NULL}]
    /\ request \in [Fds -> Seq(STRING)]
    /\ \A fd \in Fds : Len(request[fd]) <= MAX_REQUEST_SIZE
    /\ reads \subseteq Fds \cup {server}
    /\ client \in Fds \cup {NULL}
    /\ next \in Fds \cup {NULL}
    /\ sending \in Seq(Segments)
    /\ backlog \in Seq(Conns)
    /\ script \in [Conns -> Seq(STRING)]
    /\ sent \in [Conns -> Nat]
    /\ taken \in [Conns -> Nat]
    /\ \A c \in Conns : taken[c] <= sent[c] /\ sent[c] <= Len(script[c])
    /\ peer \in [Conns -> {"new", "open", "fin", "reset"}]
    /\ closed \in [Conns -> {"no", "fin", "rst"}]
    /\ answer \in [Conns -> Seq(Segments)]
    /\ seen \in [Conns -> Nat]
    /\ \A c \in Conns : seen[c] <= Len(answer[c])

\* The list of clients holds every open descriptor exactly once, and two
\* descriptors are never the same connection: neither get_client nor
\* drop_client, called in the middle of a scan, loses or doubles a client.
ListIsOpenDescriptors ==
    /\ Range(clients) = Open
    /\ IsInjective(clients)
    /\ \A fd, gd \in Open : sock[fd] = sock[gd] => fd = gd

\* During a scan the client being visited is alive, and the saved successor
\* is the one that follows it now: `client = next` never follows a client_info
\* that drop_client has freed.
CursorIsValid ==
    pc \in {"scan", "send"} =>
        /\ client \in Range(clients)
        /\ next = Successor(clients, client)

\* The server never blocks in recv(): a client it is about to read, in this
\* or a later visit of the scan, has bytes, an end of stream or an error
\* waiting, although `reads` was filled before accept() and earlier drops.
NeverBlocksInRecv ==
    pc = "scan" =>
        \A i \in 1 .. Len(clients) : \A j \in i .. Len(clients) :
            clients[i] = client /\ clients[j] \in reads => Readable(clients[j])

\* The server never goes back to select() with a complete request in a buffer,
\* in whatever pieces the terminator arrived: no event would answer it later.
CompleteNeverIdle ==
    pc = "select" => \A fd \in Open : ~ Complete(request[fd])

\* A client's buffer holds what its own peer sent and nothing else, also when
\* its descriptor was used before by another client.
BufferIsWhatWasSent ==
    \A fd \in Open :
        request[fd] = SubSeq(script[sock[fd]], 1, taken[sock[fd]])

\* What a peer is sent is what its whole script calls for, however it was
\* split and whatever the other peers do; only when every descriptor may be in
\* use can fopen fail and turn a page into a 404.
AnswerIsPromise ==
    \A c \in Conns :
        \/ IsPrefix(answer[c], Promise(script[c], TRUE))
        \/ /\ Cardinality(Conns) >= Cardinality(Fds)
           /\ IsPrefix(answer[c], Promise(script[c], FALSE))

\* A connection closed by the server with its peer still there has the whole
\* answer in the kernel's hands: no path drops a client half served.
ClosedIsAnswered ==
    \A c \in Conns : closed[c] # "no" /\ peer[c] = "open" =>
        answer[c] \in {Promise(script[c], TRUE), Promise(script[c], FALSE)}

\* The answer can be destroyed by a TCP reset only when the peer sent more
\* than one well formed request: a peer whose request ends with its first
\* terminator and fits in the buffer is always closed in order.
ExactRequestNotReset ==
    \A c \in Conns :
        /\ closed[c] = "rst" /\ peer[c] # "reset"
        /\ Len(script[c]) <= MAX_REQUEST_SIZE
        => Terminators(script[c]) # {Len(script[c]) - 1}

\* No visit to a client ends the server: whatever was accepted and dropped
\* before, drop_client finds the client it has closed in the list.  (Only the
\* calls of a round's beginning exit.)
DropFindsClient ==
    [][(pc \in {"scan", "send"}) => pc' # "exited"]_vars

\* While the server is up, a peer that stays and has sent a whole request is
\* answered, whatever the other connections do meanwhile, and reads all of the
\* answer unless bytes it sent beyond the request made the close a reset.
RequestIsAnswered ==
    \A c \in Conns :
        ( /\ peer[c] = "open"
          /\ Complete(SubSeq(script[c], 1, Min({sent[c], MAX_REQUEST_SIZE}))) )
        ~> ( \/ closed[c] = "fin" /\ answer[c] # <<>> /\ seen[c] = Len(answer[c])
             \/ closed[c] = "rst" /\ answer[c] # <<>>
             \/ peer[c] \in {"fin", "reset"}
             \/ ~ Up )

\* A peer that has sent more than a buffer holds without a request in it is
\* sent the 400 and closed; the close is a reset, so that it may never see the
\* answer.  One byte less and it may wait for ever.
OverrunIsAnswered ==
    \A c \in Conns :
        ( /\ peer[c] = "open"
          /\ sent[c] > MAX_REQUEST_SIZE
          /\ ~ Complete(SubSeq(script[c], 1, MAX_REQUEST_SIZE)) )
        ~> ( \/ closed[c] = "rst" /\ answer[c] = BadRequest
             \/ peer[c] \in {"fin", "reset"}
             \/ ~ Up )

\* The descriptor of a peer that closed or reset is given back.
DeadPeerIsDropped ==
    \A c \in Conns : (peer[c] \in {"fin", "reset"})
                        ~> (closed[c] # "no" \/ ~ Up)
=============================================================================
