--------------------------- MODULE WebServerProofs ---------------------------
(***************************************************************************)
(* Proofs about WebServer for any number of connections and descriptors,   *)
(* any requests and any sizes: first the list of clients, the descriptors  *)
(* and the buffers, then the answers.                                      *)
(***************************************************************************)
EXTENDS WebServerRefinement, ListLemmas, FiniteSetTheorems

\* A connection is new, in the backlog, or has been accepted; nothing has been
\* sent on a new one, nothing has been read from one in the backlog.
BacklogIsFresh ==
    /\ IsInjective(backlog)
    /\ \A c \in Range(backlog) :
          /\ peer[c] # "new" /\ taken[c] = 0
          /\ \A fd \in Fds : sock[fd] # c
    /\ \A fd \in Open : peer[sock[fd]] # "new"
    /\ \A c \in Conns : peer[c] = "new" => sent[c] = 0 /\ taken[c] = 0

\* What select() found is still there when accept() returns.
ReadsAreReady ==
    pc = "accept" =>
        /\ reads \subseteq Open \cup {server}
        /\ \A fd \in Open \cap reads : Readable(fd)

\* Position i of the list is the client being visited, the successor is saved,
\* and every client still to be read is readable.
CursorAt(i) ==
    /\ clients[i] = client
    /\ next = IF i = Len(clients) THEN NULL ELSE clients[i + 1]
    /\ \A j \in 1 .. Len(clients) :
          clients[j] \in reads /\ (j > i \/ (j = i /\ pc = "scan"))
              => Readable(clients[j])

\* The client being visited is somewhere in the list.
CursorInv == pc \in {"scan", "send"} => \E i \in 1 .. Len(clients) : CursorAt(i)

\* The inductive invariant of the list, the descriptors and the backlog.
Inv ==
    /\ TypeOK
    /\ ListIsOpenDescriptors
    /\ BacklogIsFresh
    /\ ReadsAreReady
    /\ CursorInv

-----------------------------------------------------------------------------
\* An answer is a text of the units that are sent.
LEMMA ResponseType ==
    ASSUME NEW buf, NEW b \in BOOLEAN
    PROVE  Response(buf, b) \in Seq(Segments)
<1>1. BadRequest \in Seq(Segments) /\ NotFound \in Seq(Segments)
    BY DEF BadRequest, NotFound, Segments
<1>2. ASSUME NEW path \in DOMAIN Pages
      PROVE  Page(path) \in Seq(Segments)
    <2>1. Pages[path] \in Nat
        BY PagesAssumption
    <2>2. "body" \in Segments
        BY DEF Segments
    <2> DEFINE bodies == [i \in 1 .. Pages[path] |-> "body"]
    <2>3. bodies \in Seq(Segments)
        BY <2>1, <2>2, IsASeq
    <2>4. <<"200", "connection", "length", "type", "blank">> \in Seq(Segments)
        BY DEF Segments
    <2> HIDE DEF bodies
    <2>5. <<"200", "connection", "length", "type", "blank">> \o bodies
              \in Seq(Segments)
        BY <2>3, <2>4, ConcatProperties
    <2> QED BY <2>5 DEF Page, bodies
<1>3. ASSUME NEW path PROVE Resource(path, b) \in Seq(Segments)
    BY <1>1, <1>2 DEF Resource
<1> QED BY <1>1, <1>3 DEF Response

\* In a list without repetition a client has one position.
LEMMA Position ==
    ASSUME NEW S, NEW s \in Seq(S), IsInjective(s), NEW i \in 1 .. Len(s)
    PROVE  (CHOOSE k \in 1 .. Len(s) : s[k] = s[i]) = i
<1>1. DOMAIN s = 1 .. Len(s)
    BY LenProperties
<1> QED BY <1>1 DEF IsInjective

LEMMA SuccessorAt ==
    ASSUME NEW s \in Seq(Fds), IsInjective(s), NEW i \in 1 .. Len(s)
    PROVE  Successor(s, s[i]) = IF i = Len(s) THEN NULL ELSE s[i + 1]
<1>1. (CHOOSE k \in 1 .. Len(s) : s[k] = s[i]) = i
    BY Position
<1> QED BY <1>1, Zenon DEF Successor

LEMMA UnlinkAt ==
    ASSUME NEW s \in Seq(Fds), IsInjective(s), NEW i \in 1 .. Len(s)
    PROVE  Unlink(s, s[i]) = RemoveAt(s, i)
BY Position DEF Unlink

\* The client of a visit is an open descriptor.
LEMMA CursorIsOpen ==
    ASSUME TypeOK, ListIsOpenDescriptors, NEW i \in 1 .. Len(clients), CursorAt(i)
    PROVE  /\ client \in Open /\ client \in Fds
           /\ sock[client] \in Conns
           /\ next \in Fds \cup {NULL}
           /\ DOMAIN clients = 1 .. Len(clients) /\ Len(clients) \in Nat
<1>1. DOMAIN clients = 1 .. Len(clients) /\ Len(clients) \in Nat
    BY LenProperties DEF TypeOK
<1>2. client \in Range(clients)
    BY <1>1 DEF CursorAt, Range
<1>3. client \in Open
    BY <1>2 DEF ListIsOpenDescriptors
<1>4. next \in Fds \cup {NULL}
    BY <1>1 DEF CursorAt, TypeOK
<1> QED BY <1>1, <1>3, <1>4 DEF Open, TypeOK

\* drop_client finds the visited client, whose place is in the list.
LEMMA DropIsFound ==
    ASSUME TypeOK, NEW i \in 1 .. Len(clients), CursorAt(i), Drop
    PROVE  /\ clients' = Unlink(clients, client)
           /\ Visit(next, clients')
           /\ UNCHANGED <<request, reads, sending, backlog, script, sent, taken, peer,
                          answer, seen>>
<1>1. DOMAIN clients = 1 .. Len(clients)
    BY LenProperties DEF TypeOK
<1>2. InList(clients, client)
    BY <1>1 DEF CursorAt, Range, InList
<1> QED BY <1>2, Zenon DEF Drop

\* drop_client of the client at position i: the saved successor moves to i.
LEMMA DropFacts ==
    ASSUME TypeOK, ListIsOpenDescriptors, NEW i \in 1 .. Len(clients),
           CursorAt(i), Drop
    PROVE  /\ clients' \in Seq(Fds) /\ IsInjective(clients')
           /\ Len(clients') = Len(clients) - 1
           /\ Range(clients') = Range(clients) \ {client}
           /\ \A j \in 1 .. i - 1 : clients'[j] = clients[j]
           /\ \A j \in i .. Len(clients) - 1 : clients'[j] = clients[j + 1]
           /\ sock' \in [Fds -> Conns \cup {NULL}]
           /\ closed' \in [Conns -> {"no", "fin", "rst"}]
           /\ Open' = Open \ {client}
           /\ \A fd \in Fds : sock'[fd] = IF fd = client THEN NULL ELSE sock[fd]
<1>1. clients \in Seq(Fds) /\ IsInjective(clients) /\ clients[i] = client
    BY DEF TypeOK, ListIsOpenDescriptors, CursorAt
<1>2. clients' = RemoveAt(clients, i)
    BY <1>1, UnlinkAt, DropIsFound
<1>3. client \in Fds /\ sock[client] \in Conns
    BY CursorIsOpen
<1>4. /\ sock' \in [Fds -> Conns \cup {NULL}]
      /\ closed' \in [Conns -> {"no", "fin", "rst"}]
      /\ \A fd \in Fds : sock'[fd] = IF fd = client THEN NULL ELSE sock[fd]
    BY <1>3 DEF Drop, TypeOK
<1>5. Open' = Open \ {client}
    BY <1>4 DEF Open
<1> DEFINE L == RemoveAt(clients, i)
<1>6. /\ L \in Seq(Fds) /\ IsInjective(L)
      /\ Len(L) = Len(clients) - 1
      /\ Range(L) = Range(clients) \ {clients[i]}
      /\ \A j \in 1 .. i - 1 : L[j] = clients[j]
      /\ \A j \in i .. Len(clients) - 1 : L[j] = clients[j + 1]
    BY <1>1, RemoveFacts
<1> HIDE DEF L
<1>7. clients' = L
    BY <1>2 DEF L
<1> QED BY <1>1, <1>4, <1>5, <1>6, <1>7

\* Going to position p of the list, or to its end.
LEMMA VisitFacts ==
    ASSUME NEW L, L \in Seq(Fds), IsInjective(L), NEW p \in 1 .. Len(L) + 1,
           NEW fd, fd = IF p = Len(L) + 1 THEN NULL ELSE L[p], Visit(fd, L)
    PROVE  /\ client' = fd /\ client' \in Fds \cup {NULL}
           /\ next' \in Fds \cup {NULL}
           /\ p = Len(L) + 1 => pc' = "select"
           /\ p # Len(L) + 1 =>
                /\ p \in 1 .. Len(L) /\ pc' = "scan" /\ L[p] = client'
                /\ next' = IF p = Len(L) THEN NULL ELSE L[p + 1]
<1>1. Len(L) \in Nat /\ \A i \in 1 .. Len(L) : L[i] \in Fds
    BY LenProperties, ElementOfSeq
<1>2. CASE p = Len(L) + 1
    BY <1>1, <1>2 DEF Visit
<1>3. CASE p # Len(L) + 1
    <2>1. p \in 1 .. Len(L) /\ fd = L[p] /\ fd \in Fds /\ fd # NULL
        BY <1>1, <1>3, FdsAssumption
    <2>2. Successor(L, fd) = IF p = Len(L) THEN NULL ELSE L[p + 1]
        BY <2>1, SuccessorAt
    <2>3. p # Len(L) => L[p + 1] \in Fds
        BY <1>1, <2>1
    <2> QED BY <1>3, <2>1, <2>2, <2>3 DEF Visit
<1> QED BY <1>2, <1>3

\* Arithmetic of positions in a list of length n, before and after a removal.
LEMMA NextPosition ==
    ASSUME NEW n \in Nat, NEW i \in 1 .. n
    PROVE  i + 1 \in 1 .. n + 1 /\ (i + 1 = n + 1 <=> i = n)
OBVIOUS

LEMMA SamePosition ==
    ASSUME NEW n \in Nat, NEW i \in 1 .. n, NEW m, m = n - 1
    PROVE  /\ i \in 1 .. m + 1
           /\ i = m + 1 <=> i = n
           /\ i # n => i \in i .. n - 1
OBVIOUS

\* After a visit starts at position p of the new list, the cursor is right if
\* everything from p on that is in `reads` is readable.
LEMMA VisitInv ==
    ASSUME clients' \in Seq(Fds), IsInjective(clients'),
           NEW p \in 1 .. Len(clients') + 1,
           NEW fd, fd = IF p = Len(clients') + 1 THEN NULL ELSE clients'[p],
           Visit(fd, clients'),
           \A j \in 1 .. Len(clients') :
               j >= p /\ clients'[j] \in reads' => Readable(clients[j])'
    PROVE  /\ CursorInv' /\ ReadsAreReady'
           /\ pc' \in {"select", "scan"}
           /\ client' \in Fds \cup {NULL} /\ next' \in Fds \cup {NULL}
<1>0. Len(clients') \in Nat
    BY LenProperties
<1>1. /\ client' = fd /\ client' \in Fds \cup {NULL}
      /\ next' \in Fds \cup {NULL}
      /\ p = Len(clients') + 1 => pc' = "select"
      /\ p # Len(clients') + 1 =>
           /\ p \in 1 .. Len(clients') /\ pc' = "scan" /\ clients'[p] = client'
           /\ next' = IF p = Len(clients') THEN NULL ELSE clients'[p + 1]
    BY VisitFacts
<1>2. pc' \in {"select", "scan"}
    BY <1>1
<1>3. ReadsAreReady'
    BY <1>2 DEF ReadsAreReady
<1>4. CursorInv'
    <2>1. CASE p = Len(clients') + 1
        BY <1>1, <2>1 DEF CursorInv
    <2>2. CASE p # Len(clients') + 1
        <3>1. \A j \in 1 .. Len(clients') : j > p \/ j = p => j >= p
            BY <1>0
        <3>2. CursorAt(p)'
            BY <1>1, <2>2, <3>1 DEF CursorAt
        <3> QED BY <1>1, <2>2, <3>2 DEF CursorInv
    <2> QED BY <2>1, <2>2
<1> QED BY <1>1, <1>2, <1>3, <1>4

\* Going on to the saved successor in an unchanged list.
LEMMA AdvanceInv ==
    ASSUME TypeOK, ListIsOpenDescriptors, NEW i \in 1 .. Len(clients), CursorAt(i),
           Visit(next, clients), UNCHANGED <<clients, reads>>,
           \A fd \in Open \ {client} : Readable(fd) => Readable(fd)'
    PROVE  /\ CursorInv' /\ ReadsAreReady'
           /\ pc' \in {"select", "scan"}
           /\ client' \in Fds \cup {NULL} /\ next' \in Fds \cup {NULL}
<1>1. clients \in Seq(Fds) /\ IsInjective(clients) /\ Range(clients) = Open
    BY DEF TypeOK, ListIsOpenDescriptors
<1>2. DOMAIN clients = 1 .. Len(clients) /\ Len(clients) \in Nat
    BY CursorIsOpen
<1>3. i + 1 \in 1 .. Len(clients) + 1
      /\ next = IF i + 1 = Len(clients) + 1 THEN NULL ELSE clients[i + 1]
    <2>1. i + 1 \in 1 .. Len(clients) + 1 /\ (i + 1 = Len(clients) + 1 <=> i = Len(clients))
        BY <1>2, NextPosition
    <2>2. next = IF i = Len(clients) THEN NULL ELSE clients[i + 1]
        BY Zenon DEF CursorAt
    <2> QED BY <2>1, <2>2
<1>4. ASSUME NEW j \in 1 .. Len(clients), j >= i + 1, clients[j] \in reads
      PROVE  Readable(clients[j])'
    <2>1. j > i /\ j # i
        BY <1>2, <1>4
    <2>2. Readable(clients[j])
        BY <1>4, <2>1 DEF CursorAt
    <2>3. clients[j] \in Open
        BY <1>1, <1>2 DEF Range
    <2>4. clients[j] # client
        BY <1>1, <1>2, <2>1 DEF CursorAt, IsInjective
    <2>5. Readable(clients[j]) => Readable(clients[j])'
        <3> DEFINE fd == clients[j]
        <3>1. fd' = fd
            OBVIOUS
        <3>2. fd \in Open \ {client}
            BY <2>3, <2>4
        <3> QED BY <3>1, <3>2 DEF Readable, Unread
    <2> QED BY <2>2, <2>5
<1> QED BY <1>1, <1>2, <1>3, <1>4, VisitInv

LEMMA RangeOfBacklog ==
    ASSUME TypeOK
    PROVE  Range(backlog) \subseteq Conns
<1>1. backlog \in Seq(Conns) /\ DOMAIN backlog = 1 .. Len(backlog)
    BY LenProperties DEF TypeOK
<1> QED BY <1>1, ElementOfSeq DEF Range

\* Dropping the visited client and going on to the saved successor.
LEMMA DropInv ==
    ASSUME TypeOK, ListIsOpenDescriptors, BacklogIsFresh,
           NEW i \in 1 .. Len(clients), CursorAt(i), Drop
    PROVE  Inv'
<1>0. /\ Visit(next, clients')
      /\ UNCHANGED <<request, reads, sending, backlog, script, sent, taken, peer,
                     answer, seen>>
    BY DropIsFound
<1>1. clients \in Seq(Fds) /\ IsInjective(clients) /\ Range(clients) = Open
    BY DEF TypeOK, ListIsOpenDescriptors
<1>2. /\ client \in Open /\ client \in Fds /\ sock[client] \in Conns
      /\ DOMAIN clients = 1 .. Len(clients) /\ Len(clients) \in Nat
    BY CursorIsOpen
<1>3. /\ clients' \in Seq(Fds) /\ IsInjective(clients')
      /\ Len(clients') = Len(clients) - 1
      /\ Range(clients') = Range(clients) \ {client}
      /\ \A j \in i .. Len(clients) - 1 : clients'[j] = clients[j + 1]
      /\ sock' \in [Fds -> Conns \cup {NULL}]
      /\ closed' \in [Conns -> {"no", "fin", "rst"}]
      /\ Open' = Open \ {client}
      /\ \A fd \in Fds : sock'[fd] = IF fd = client THEN NULL ELSE sock[fd]
    BY DropFacts
<1>4. i \in 1 .. Len(clients') + 1
      /\ next = IF i = Len(clients') + 1 THEN NULL ELSE clients'[i]
    <2>1. /\ i \in 1 .. Len(clients') + 1
          /\ i = Len(clients') + 1 <=> i = Len(clients)
          /\ i # Len(clients) => i \in i .. Len(clients) - 1
        BY <1>2, <1>3, SamePosition
    <2>2. next = IF i = Len(clients) THEN NULL ELSE clients[i + 1]
        BY Zenon DEF CursorAt
    <2> QED BY <1>3, <2>1, <2>2
<1>5. ASSUME NEW j \in 1 .. Len(clients'), j >= i, clients'[j] \in reads
      PROVE  Readable(clients[j])'
    <2>1. j + 1 \in 1 .. Len(clients) /\ j + 1 > i /\ j \in i .. Len(clients) - 1
        BY <1>2, <1>3, <1>5
    <2>2. clients'[j] = clients[j + 1] /\ Readable(clients[j + 1])
        BY <1>3, <1>5, <2>1 DEF CursorAt
    <2>3. clients[j + 1] \in Fds /\ clients[j + 1] # client
        <3>1. clients[j + 1] \in Fds
            BY <1>1, <2>1, ElementOfSeq
        <3>2. j + 1 # i /\ i \in DOMAIN clients /\ j + 1 \in DOMAIN clients
            BY <1>2, <2>1
        <3>3. clients[i] = client
            BY Zenon DEF CursorAt
        <3> QED BY <1>1, <3>1, <3>2, <3>3, Zenon DEF IsInjective
    <2>4. sock'[clients'[j]] = sock[clients[j + 1]]
        BY <1>3, <2>2, <2>3
    <2> QED BY <1>0, <2>2, <2>4 DEF Readable, Unread
<1>6. /\ CursorInv' /\ ReadsAreReady' /\ pc' \in {"select", "scan"}
      /\ client' \in Fds \cup {NULL} /\ next' \in Fds \cup {NULL}
    BY <1>0, <1>3, <1>4, <1>5, VisitInv
<1>7. TypeOK'
    BY <1>0, <1>3, <1>6 DEF TypeOK
<1>8. ListIsOpenDescriptors'
    BY <1>1, <1>3 DEF ListIsOpenDescriptors, Open
<1>9. BacklogIsFresh'
    <2>1. Range(backlog) \subseteq Conns /\ NULL \notin Conns
        BY RangeOfBacklog, ConnsAssumption
    <2>2. IsInjective(backlog)'
        BY <1>0 DEF BacklogIsFresh
    <2>3. \A c \in Range(backlog) :
              /\ peer[c] # "new" /\ taken[c] = 0
              /\ \A fd \in Fds : sock'[fd] # c
        BY <1>0, <1>3, <2>1 DEF BacklogIsFresh
    <2>4. \A fd \in Open' : peer[sock'[fd]] # "new"
        BY <1>0, <1>3 DEF BacklogIsFresh, Open
    <2> QED BY <1>0, <2>2, <2>3, <2>4 DEF BacklogIsFresh
<1> QED BY <1>6, <1>7, <1>8, <1>9 DEF Inv

-----------------------------------------------------------------------------
\* One lemma per action.

LEMMA InitInv == Init => Inv
<1> SUFFICES ASSUME Init PROVE Inv
    OBVIOUS
<1>1. TypeOK
    BY SizeAssumption DEF Init, TypeOK
<1>2. Open = {} /\ Range(clients) = {} /\ IsInjective(clients)
    BY DEF Init, Open, Range, IsInjective
<1>3. BacklogIsFresh
    BY <1>2 DEF Init, BacklogIsFresh, Range, IsInjective
<1> QED BY <1>1, <1>2, <1>3 DEF Init, Inv, ListIsOpenDescriptors, ReadsAreReady,
           CursorInv

LEMMA StutterInv == Inv /\ UNCHANGED vars => Inv'
BY DEF Inv, vars, process, network, TypeOK, ListIsOpenDescriptors, Open,
       BacklogIsFresh, ReadsAreReady, CursorInv, CursorAt, Readable, Unread

LEMMA ExitInv == Inv /\ Exit => Inv'
BY DEF Exit, Inv, network, TypeOK, ListIsOpenDescriptors, Open,
       BacklogIsFresh, ReadsAreReady, CursorInv

LEMMA KilledInv == Inv /\ SendKilled => Inv'
<1> SUFFICES ASSUME Inv, SendKilled PROVE Inv'
    OBVIOUS
<1>1. TypeOK'
    BY DEF Inv, SendKilled, TypeOK, network
<1>2. ListIsOpenDescriptors' /\ BacklogIsFresh'
    BY DEF Inv, SendKilled, ListIsOpenDescriptors, BacklogIsFresh, Open, network
<1>3. ReadsAreReady' /\ CursorInv'
    BY DEF SendKilled, ReadsAreReady, CursorInv
<1> QED BY <1>1, <1>2, <1>3 DEF Inv

LEMMA WaitOnClientsInv == Inv /\ WaitOnClients => Inv'
<1> SUFFICES ASSUME Inv, WaitOnClients PROVE Inv'
    OBVIOUS
<1>1. Range(clients) = Open /\ Open \subseteq Fds
    BY DEF Inv, ListIsOpenDescriptors, Open
<1>2. TypeOK'
    BY <1>1 DEF Inv, WaitOnClients, TypeOK, network
<1>3. ListIsOpenDescriptors' /\ BacklogIsFresh'
    BY DEF Inv, WaitOnClients, ListIsOpenDescriptors, BacklogIsFresh, Open, network
<1>4. ReadsAreReady'
    BY <1>1, FdsAssumption
       DEF WaitOnClients, ReadsAreReady, Readable, Unread, Open, network
<1>5. CursorInv'
    BY DEF WaitOnClients, CursorInv
<1> QED BY <1>2, <1>3, <1>4, <1>5 DEF Inv

LEMMA NothingToAcceptInv == Inv /\ NothingToAccept => Inv'
<1> SUFFICES ASSUME Inv, NothingToAccept PROVE Inv'
    OBVIOUS
<1>1. /\ clients \in Seq(Fds) /\ IsInjective(clients) /\ Range(clients) = Open
      /\ DOMAIN clients = 1 .. Len(clients) /\ Len(clients) \in Nat
    BY LenProperties DEF Inv, TypeOK, ListIsOpenDescriptors
<1>2. clients' = clients /\ reads' = reads
    BY DEF NothingToAccept
<1>3. 1 \in 1 .. Len(clients) + 1
      /\ First(clients) = IF 1 = Len(clients) + 1 THEN NULL ELSE clients[1]
    BY <1>1, EmptySeq DEF First
<1>4. \A j \in 1 .. Len(clients) : clients[j] \in reads => Readable(clients[j])'
    BY <1>1 DEF Inv, ReadsAreReady, NothingToAccept, Range, Readable, Unread, network
<1>5. /\ CursorInv' /\ ReadsAreReady' /\ pc' \in {"select", "scan"}
      /\ client' \in Fds \cup {NULL} /\ next' \in Fds \cup {NULL}
    BY <1>1, <1>2, <1>3, <1>4, VisitInv DEF NothingToAccept
<1>6. TypeOK'
    BY <1>5 DEF Inv, NothingToAccept, TypeOK, network
<1>7. ListIsOpenDescriptors' /\ BacklogIsFresh'
    BY DEF Inv, NothingToAccept, ListIsOpenDescriptors, BacklogIsFresh, Open, network
<1> QED BY <1>5, <1>6, <1>7 DEF Inv

LEMMA NotReadyInv == Inv /\ NotReady => Inv'
<1> SUFFICES ASSUME Inv, NotReady PROVE Inv'
    OBVIOUS
<1>1. PICK i \in 1 .. Len(clients) : CursorAt(i)
    BY DEF Inv, NotReady, CursorInv
<1>2. /\ CursorInv' /\ ReadsAreReady' /\ pc' \in {"select", "scan"}
      /\ client' \in Fds \cup {NULL} /\ next' \in Fds \cup {NULL}
    BY <1>1, AdvanceInv DEF Inv, NotReady, Readable, Unread, network
<1>3. TypeOK'
    BY <1>2 DEF Inv, NotReady, TypeOK, network
<1>4. ListIsOpenDescriptors' /\ BacklogIsFresh'
    BY DEF Inv, NotReady, ListIsOpenDescriptors, BacklogIsFresh, Open, network
<1> QED BY <1>2, <1>3, <1>4 DEF Inv

LEMMA DisconnectInv == Inv /\ Disconnect => Inv'
<1> SUFFICES ASSUME Inv, Disconnect PROVE Inv'
    OBVIOUS
<1>1. PICK i \in 1 .. Len(clients) : CursorAt(i)
    BY DEF Inv, Disconnect, CursorInv
<1> QED BY <1>1, DropInv DEF Inv, Disconnect

LEMMA FinishInv == Inv /\ Finish => Inv'
<1> SUFFICES ASSUME Inv, Finish PROVE Inv'
    OBVIOUS
<1>1. PICK i \in 1 .. Len(clients) : CursorAt(i)
    BY DEF Inv, Finish, CursorInv
<1> QED BY <1>1, DropInv DEF Inv, Finish

\* Taking the first connection off the backlog.
LEMMA BacklogTail ==
    ASSUME TypeOK, BacklogIsFresh, backlog # <<>>
    PROVE  /\ Head(backlog) \in Conns /\ Head(backlog) \in Range(backlog)
           /\ Tail(backlog) \in Seq(Conns) /\ IsInjective(Tail(backlog))
           /\ Range(Tail(backlog)) \subseteq Range(backlog) \ {Head(backlog)}
<1>1. backlog \in Seq(Conns) /\ IsInjective(backlog)
    BY DEF TypeOK, BacklogIsFresh
<1> QED BY <1>1, DequeueFacts

LEMMA AcceptInv == Inv /\ Accept => Inv'
<1> SUFFICES ASSUME Inv, Accept PROVE Inv'
    OBVIOUS
<1> DEFINE fd == Min(Free)
           c == Head(backlog)
<1>1. fd \in Free
    BY FdsAssumption, MinOfNats DEF Accept, Free
<1>2. /\ c \in Conns /\ c \in Range(backlog)
      /\ backlog' \in Seq(Conns) /\ IsInjective(backlog')
      /\ Range(backlog') \subseteq Range(backlog) \ {c}
    BY BacklogTail DEF Accept, Inv
<1>3. /\ sock' = [sock EXCEPT ![fd] = c]
      /\ clients' = <<fd>> \o clients /\ request' = [request EXCEPT ![fd] = <<>>]
      /\ Visit(fd, clients') /\ reads' = reads
      /\ UNCHANGED <<sending, script, sent, taken, peer, closed, answer, seen>>
    BY DEF Accept, GetClient
<1> HIDE DEF fd, c
<1>4. fd \in Fds /\ fd \notin Open /\ c # NULL /\ fd # server
    BY <1>1, <1>2, ConnsAssumption, FdsAssumption DEF Free
<1>5. /\ clients \in Seq(Fds) /\ IsInjective(clients) /\ Range(clients) = Open
      /\ DOMAIN clients = 1 .. Len(clients) /\ Len(clients) \in Nat
    BY LenProperties DEF Inv, TypeOK, ListIsOpenDescriptors
<1>6. /\ clients' \in Seq(Fds) /\ Len(clients') = Len(clients) + 1
      /\ clients'[1] = fd
      /\ \A i \in 1 .. Len(clients) : clients'[i + 1] = clients[i]
      /\ Range(clients') = Open \cup {fd}
      /\ IsInjective(clients')
    BY <1>3, <1>4, <1>5, PrependFacts
<1>7. /\ sock' \in [Fds -> Conns \cup {NULL}]
      /\ \A gd \in Fds : sock'[gd] = IF gd = fd THEN c ELSE sock[gd]
      /\ Open' = Open \cup {fd}
    BY <1>2, <1>3, <1>4 DEF Inv, TypeOK, Open
<1>8. ASSUME NEW j \in 1 .. Len(clients'), clients'[j] \in reads
      PROVE  Readable(clients[j])'
    <2>1. reads \subseteq Open \cup {server} /\ \A gd \in Open \cap reads : Readable(gd)
        BY DEF Inv, Accept, ReadsAreReady
    <2>2. clients'[j] \in Fds
        BY <1>6, ElementOfSeq
    <2>3. clients'[j] \in Open /\ clients'[j] # fd /\ Readable(clients'[j])
        BY <1>4, <1>8, <2>1, <2>2, FdsAssumption
    <2>4. sock'[clients'[j]] = sock[clients'[j]]
        BY <1>7, <2>2, <2>3
    <2> QED BY <1>3, <2>3, <2>4 DEF Readable, Unread
<1>9. 1 \in 1 .. Len(clients') + 1
      /\ fd = IF 1 = Len(clients') + 1 THEN NULL ELSE clients'[1]
    BY <1>5, <1>6
<1>10. /\ CursorInv' /\ ReadsAreReady' /\ pc' \in {"select", "scan"}
       /\ client' \in Fds \cup {NULL} /\ next' \in Fds \cup {NULL}
    BY <1>3, <1>6, <1>8, <1>9, VisitInv
<1>11. TypeOK'
    <2>1. request' \in [Fds -> Seq(STRING)]
          /\ \A gd \in Fds : Len(request'[gd]) <= MAX_REQUEST_SIZE
        <3>1. <<>> \in Seq(STRING) /\ Len(<<>>) = 0 /\ 0 <= MAX_REQUEST_SIZE
            BY EmptySeq, SizeAssumption
        <3> QED BY <1>3, <1>4, <3>1 DEF Inv, TypeOK
    <2> QED BY <1>2, <1>3, <1>6, <1>7, <1>10, <2>1 DEF Inv, TypeOK
<1>12. ListIsOpenDescriptors'
    <2>1. \A gd \in Open : sock[gd] # c
        BY <1>2 DEF Inv, BacklogIsFresh, Open
    <2>2. \A gd, hd \in Open' : sock'[gd] = sock'[hd] => gd = hd
        BY <1>4, <1>7, <2>1 DEF Inv, ListIsOpenDescriptors, Open
    <2> QED BY <1>6, <1>7, <2>2 DEF ListIsOpenDescriptors
<1>13. BacklogIsFresh'
    <2>1. \A d \in Range(backlog') :
              /\ peer[d] # "new" /\ taken[d] = 0
              /\ \A gd \in Fds : sock'[gd] # d
        BY <1>2, <1>7 DEF Inv, BacklogIsFresh
    <2>2. \A gd \in Open' : peer[sock'[gd]] # "new"
        BY <1>2, <1>4, <1>7 DEF Inv, BacklogIsFresh, Open
    <2>3. \A d \in Conns : peer'[d] = "new" => sent'[d] = 0 /\ taken'[d] = 0
        BY <1>3 DEF Inv, BacklogIsFresh
    <2> QED BY <1>2, <1>3, <2>1, <2>2, <2>3 DEF BacklogIsFresh
<1> QED BY <1>10, <1>11, <1>12, <1>13 DEF Inv

\* Serving the visited client leaves the list and the other clients alone.
LEMMA TooLongInv == Inv /\ TooLong => Inv'
<1> SUFFICES ASSUME Inv, TooLong PROVE Inv'
    OBVIOUS
<1>0. BadRequest \in Seq(Segments)
    BY DEF BadRequest, Segments
<1>1. TypeOK'
    BY <1>0 DEF Inv, TooLong, TypeOK, network
<1>2. ListIsOpenDescriptors' /\ BacklogIsFresh' /\ ReadsAreReady'
    BY DEF Inv, TooLong, ListIsOpenDescriptors, BacklogIsFresh, Open,
           ReadsAreReady, network
<1>3. CursorInv'
    BY DEF Inv, TooLong, CursorInv, CursorAt, Readable, Unread, network
<1> QED BY <1>1, <1>2, <1>3 DEF Inv

LEMMA SendIgnoredInv == Inv /\ SendIgnored => Inv'
<1> SUFFICES ASSUME Inv, SendIgnored PROVE Inv'
    OBVIOUS
<1>1. sending' \in Seq(Segments)
    BY HeadTailProperties DEF Inv, SendIgnored, TypeOK
<1>2. TypeOK'
    BY <1>1 DEF Inv, SendIgnored, TypeOK, network
<1>3. ListIsOpenDescriptors' /\ BacklogIsFresh' /\ ReadsAreReady'
    BY DEF Inv, SendIgnored, ListIsOpenDescriptors, BacklogIsFresh, Open,
           ReadsAreReady, network
<1>4. CursorInv'
    BY DEF Inv, SendIgnored, CursorInv, CursorAt, Readable, Unread, network
<1> QED BY <1>2, <1>3, <1>4 DEF Inv

LEMMA SendInv == Inv /\ Send => Inv'
<1> SUFFICES ASSUME Inv, Send PROVE Inv'
    OBVIOUS
<1>1. PICK i \in 1 .. Len(clients) : CursorAt(i)
    BY DEF Inv, Send, CursorInv
<1>2. sock[client] \in Conns
    BY <1>1, CursorIsOpen DEF Inv
<1>3. Head(sending) \in Segments /\ sending' \in Seq(Segments)
    BY HeadTailProperties DEF Inv, Send, TypeOK
<1>4. /\ answer' \in [Conns -> Seq(Segments)]
      /\ \A d \in Conns : seen'[d] <= Len(answer'[d])
    <2> DEFINE c == sock[client]
               a == Append(answer[c], Head(sending))
    <2>1. answer[c] \in Seq(Segments) /\ seen[c] \in Nat /\ seen[c] <= Len(answer[c])
        BY <1>2 DEF Inv, TypeOK
    <2>2. a \in Seq(Segments) /\ Len(a) = Len(answer[c]) + 1
        BY <1>3, <2>1, AppendProperties
    <2>3. seen[c] <= Len(a)
        BY <2>1, <2>2, LenProperties
    <2>4. answer' = [answer EXCEPT ![c] = a] /\ seen' = seen
        BY DEF Send
    <2> HIDE DEF a, c
    <2> QED BY <2>2, <2>3, <2>4 DEF Inv, TypeOK
<1>5. TypeOK'
    BY <1>3, <1>4 DEF Inv, Send, TypeOK
<1>6. ListIsOpenDescriptors' /\ BacklogIsFresh' /\ ReadsAreReady'
    BY DEF Inv, Send, ListIsOpenDescriptors, BacklogIsFresh, Open, ReadsAreReady
<1>7. CursorInv'
    BY DEF Inv, Send, CursorInv, CursorAt, Readable, Unread
<1> QED BY <1>5, <1>6, <1>7 DEF Inv

\* What recv() appends fits in the buffer and comes from the script.
LEMMA ReceiveTypes ==
    ASSUME Inv, NEW i \in 1 .. Len(clients), CursorAt(i), Room(client) > 0, Receive,
           NEW c, c = sock[client], NEW r, r = Min({Unread(c), Room(client)})
    PROVE  /\ c \in Conns /\ client \in Fds
           /\ r \in Nat /\ taken[c] + r <= sent[c]
           /\ taken[c] + r <= Len(script[c])
           /\ request' \in [Fds -> Seq(STRING)]
           /\ request'[client] =
                 request[client] \o SubSeq(script[c], taken[c] + 1, taken[c] + r)
           /\ \A fd \in Fds : Len(request'[fd]) <= MAX_REQUEST_SIZE
           /\ \A fd \in Fds \ {client} : request'[fd] = request[fd]
           /\ taken' = [taken EXCEPT ![c] = taken[c] + r]
<1>1. c \in Conns /\ client \in Fds
    BY CursorIsOpen DEF Inv
<1>2. /\ taken[c] \in Nat /\ sent[c] \in Nat /\ script[c] \in Seq(STRING)
      /\ taken[c] <= sent[c] /\ sent[c] <= Len(script[c])
      /\ request[client] \in Seq(STRING)
      /\ Len(request[client]) \in Nat /\ Len(script[c]) \in Nat
      /\ Len(request[client]) <= MAX_REQUEST_SIZE
    BY <1>1, LenProperties DEF Inv, TypeOK
<1>3. Unread(c) \in Nat /\ Room(client) \in Nat
    BY <1>2, SizeAssumption DEF Unread, Room
<1>4. r \in Nat /\ r <= Unread(c) /\ r <= Room(client)
    <2> DEFINE a == Unread(c)
               b == Room(client)
    <2>1. a \in Nat /\ b \in Nat /\ a \in Int /\ b \in Int /\ r = Min({a, b})
        BY <1>3
    <2> HIDE DEF a, b
    <2>2. r \in {a, b} /\ r <= a /\ r <= b
        <3>1. Min({a, b}) \in {a, b} /\ Min({a, b}) <= a /\ Min({a, b}) <= b
            BY <2>1, MinOfTwo, Zenon
        <3> QED BY <2>1, <3>1, Zenon
    <2>3. r \in Nat /\ r <= a /\ r <= b
        BY <2>1, <2>2
    <2> QED BY <2>3 DEF a, b
<1>5. taken[c] + r <= sent[c] /\ taken[c] + r <= Len(script[c])
    BY <1>2, <1>4 DEF Unread
<1> DEFINE got == SubSeq(script[c], taken[c] + 1, taken[c] + r)
           buf == request[client] \o got
<1>6. got \in Seq(STRING) /\ Len(got) = r
    <2>1. \A k \in taken[c] + 1 .. taken[c] + r : script[c][k] \in STRING
        <3> TAKE k \in taken[c] + 1 .. taken[c] + r
        <3>1. k \in 1 .. Len(script[c])
            BY <1>2, <1>4, <1>5
        <3> QED BY <1>2, <3>1, ElementOfSeq
    <2> DEFINE s == script[c]
               m == taken[c] + 1
               n == taken[c] + r
    <2>2. /\ m \in Int /\ n \in Int /\ got = SubSeq(s, m, n)
          /\ \A k \in m .. n : s[k] \in STRING
          /\ (IF m <= n THEN n - m + 1 ELSE 0) = r
        <3>1. m \in Int /\ n \in Int
            BY <1>2, <1>4
        <3>2. (IF m <= n THEN n - m + 1 ELSE 0) = r
            BY <1>2, <1>4
        <3>3. got = SubSeq(s, m, n)
            BY Zenon
        <3>4. \A k \in m .. n : s[k] \in STRING
            BY <2>1, Zenon
        <3> QED BY <3>1, <3>2, <3>3, <3>4
    <2> HIDE DEF s, m, n, got
    <2>3. got \in Seq(STRING) /\ Len(got) = IF m <= n THEN n - m + 1 ELSE 0
        BY <2>2, SubSeqProperties
    <2> QED BY <2>2, <2>3
<1>7. /\ request' = [request EXCEPT ![client] = buf]
      /\ taken' = [taken EXCEPT ![c] = taken[c] + r]
    BY DEF Receive
<1> HIDE DEF got
<1>8. buf \in Seq(STRING) /\ Len(buf) = Len(request[client]) + r
    <2> DEFINE q == request[client]
    <2>1. q \in Seq(STRING) /\ got \in Seq(STRING) /\ buf = q \o got
        BY <1>2, <1>6
    <2> HIDE DEF q, buf
    <2>2. buf \in Seq(STRING) /\ Len(buf) = Len(q) + Len(got)
        BY <2>1, ConcatProperties
    <2> QED BY <1>6, <2>2 DEF q
<1>9. Len(buf) <= MAX_REQUEST_SIZE
    BY <1>2, <1>4, <1>8, SizeAssumption DEF Room
<1> HIDE DEF buf
<1>10. /\ request' \in [Fds -> Seq(STRING)] /\ request'[client] = buf
       /\ \A fd \in Fds : Len(request'[fd]) <= MAX_REQUEST_SIZE
       /\ \A fd \in Fds \ {client} : request'[fd] = request[fd]
    BY <1>1, <1>7, <1>8, <1>9 DEF Inv, TypeOK
<1> QED BY <1>1, <1>4, <1>5, <1>7, <1>10 DEF buf, got

LEMMA ReceiveInv == Inv /\ Receive => Inv'
<1> SUFFICES ASSUME Inv, Receive PROVE Inv'
    OBVIOUS
<1> DEFINE c == sock[client]
           r == Min({Unread(c), Room(client)})
<1>1. PICK i \in 1 .. Len(clients) : CursorAt(i)
    BY DEF Inv, Receive, CursorInv
<1>2. /\ c \in Conns /\ client \in Fds
      /\ r \in Nat /\ taken[c] + r <= sent[c]
      /\ request' \in [Fds -> Seq(STRING)]
      /\ \A fd \in Fds : Len(request'[fd]) <= MAX_REQUEST_SIZE
      /\ taken' = [taken EXCEPT ![c] = taken[c] + r]
    <2>1. Room(client) > 0
        BY DEF Receive
    <2> QED BY <1>1, <2>1, ReceiveTypes
<1>3. client \in Open /\ DOMAIN clients = 1 .. Len(clients)
    BY <1>1, CursorIsOpen DEF Inv
<1> HIDE DEF r
<1>4. /\ taken' \in [Conns -> Nat]
      /\ \A d \in Conns : taken'[d] <= sent[d]
      /\ \A d \in Conns \ {c} : taken'[d] = taken[d]
    <2>1. taken \in [Conns -> Nat] /\ \A d \in Conns : taken[d] <= sent[d]
        BY DEF Inv, TypeOK
    <2>2. \A d \in Conns : taken'[d] = IF d = c THEN taken[c] + r ELSE taken[d]
        BY <1>2, <2>1
    <2> QED BY <1>2, <2>1, <2>2
<1>5. UNCHANGED <<clients, sock, reads, backlog, script, sent, peer, closed,
                  answer, seen>>
    BY DEF Receive
<1>6. \A fd \in Open \ {client} : Readable(fd) => Readable(fd)'
    <2> TAKE fd \in Open \ {client}
    <2>1. sock[fd] # c /\ sock[fd] \in Conns /\ fd \in Fds
        BY <1>3 DEF Inv, ListIsOpenDescriptors, Open, TypeOK
    <2> QED BY <1>4, <1>5, <2>1 DEF Readable, Unread
<1>7. /\ CursorInv' /\ ReadsAreReady' /\ pc' \in {"select", "scan", "send"}
      /\ client' \in Fds \cup {NULL} /\ next' \in Fds \cup {NULL}
      /\ sending' \in Seq(Segments)
    <2>1. CASE Complete(request'[client])
        <3>1. pc' = "send" /\ client' = client /\ next' = next
            BY <2>1 DEF Receive
        <3>2. sending' \in Seq(Segments)
            BY <2>1, ResponseType DEF Receive
        <3>3. ASSUME NEW j \in 1 .. Len(clients), clients[j] \in reads, j > i
              PROVE  Readable(clients[j])'
            <4>1. Readable(clients[j])
                BY <1>1, <3>3 DEF CursorAt
            <4>2. clients[j] \in Open
                BY <1>3 DEF Inv, ListIsOpenDescriptors, Range
            <4>3. clients[j] # client
                <5>1. clients[i] = client /\ i # j /\ IsInjective(clients)
                    BY <1>1, <3>3 DEF CursorAt, Inv, ListIsOpenDescriptors
                <5> QED BY <1>3, <5>1 DEF IsInjective
            <4> DEFINE fd == clients[j]
            <4>4. fd' = fd /\ fd \in Open \ {client}
                BY <1>5, <4>2, <4>3
            <4> QED BY <1>5, <1>6, <4>1, <4>4 DEF Readable, Unread
        <3>4. CursorAt(i)'
            BY <1>1, <1>5, <3>1, <3>3 DEF CursorAt
        <3>5. CursorInv' /\ ReadsAreReady'
            BY <1>5, <3>1, <3>4 DEF CursorInv, ReadsAreReady
        <3> QED BY <3>1, <3>2, <3>5 DEF Inv, TypeOK
    <2>2. CASE ~ Complete(request'[client])
        <3>1. Visit(next, clients) /\ sending' = sending
            BY <2>2 DEF Receive
        <3>2. /\ CursorInv' /\ ReadsAreReady' /\ pc' \in {"select", "scan"}
              /\ client' \in Fds \cup {NULL} /\ next' \in Fds \cup {NULL}
            BY <1>1, <1>5, <1>6, <3>1, AdvanceInv DEF Inv
        <3> QED BY <3>1, <3>2 DEF Inv, TypeOK
    <2> QED BY <2>1, <2>2
<1>8. TypeOK'
    BY <1>2, <1>4, <1>5, <1>7 DEF Inv, TypeOK
<1>9. ListIsOpenDescriptors'
    BY <1>5 DEF Inv, ListIsOpenDescriptors, Open
<1>10. BacklogIsFresh'
    <2>1. c \notin Range(backlog)
        BY <1>2 DEF Inv, BacklogIsFresh
    <2>2. Range(backlog) \subseteq Conns
        BY RangeOfBacklog DEF Inv
    <2> QED BY <1>4, <1>5, <2>1, <2>2 DEF Inv, BacklogIsFresh, Open
<1> QED BY <1>7, <1>8, <1>9, <1>10 DEF Inv

\* What the peers do leaves every open descriptor that is readable readable.
LEMMA PeerKeepsInv ==
    ASSUME Inv, TypeOK', BacklogIsFresh', UNCHANGED process,
           \A fd \in Open : Readable(fd) => Readable(fd)'
    PROVE  Inv'
<1>1. ListIsOpenDescriptors'
    BY DEF Inv, process, ListIsOpenDescriptors, Open
<1>2. ReadsAreReady'
    <2>1. \A fd \in Open \cap reads : Readable(fd) => Readable(fd)'
        OBVIOUS
    <2> QED BY <2>1 DEF Inv, process, ReadsAreReady, Open
<1>3. CursorInv'
    <2> SUFFICES ASSUME pc \in {"scan", "send"}
                 PROVE  CursorInv'
        BY DEF CursorInv, process
    <2>1. PICK i \in 1 .. Len(clients) : CursorAt(i)
        BY DEF Inv, CursorInv
    <2>2. ASSUME NEW j \in 1 .. Len(clients), Readable(clients[j])
          PROVE  Readable(clients[j])'
        <3>1. clients[j] \in Open
            <4>1. j \in DOMAIN clients
                BY <2>1, CursorIsOpen DEF Inv
            <4> QED BY <4>1 DEF Inv, ListIsOpenDescriptors, Range
        <3> DEFINE fd == clients[j]
        <3>2. fd' = fd /\ fd \in Open
            BY <3>1 DEF process
        <3> QED BY <2>2, <3>2 DEF process, Readable, Unread
    <2>3. CursorAt(i)'
        BY <2>1, <2>2 DEF CursorAt, process
    <2> QED BY <2>3 DEF CursorInv, process
<1> QED BY <1>1, <1>2, <1>3 DEF Inv

\* An open descriptor belongs to a connection that has come in.
LEMMA OpenIsConnected ==
    ASSUME Inv, NEW fd \in Open
    PROVE  sock[fd] \in Conns /\ fd \in Fds /\ peer[sock[fd]] # "new"
BY DEF Inv, TypeOK, Open, BacklogIsFresh

LEMMA ConnectInv ==
    ASSUME NEW c \in Conns, NEW r \in Requests, Inv, Connect(c, r)
    PROVE  Inv'
<1>1. c \notin Range(backlog) /\ peer[c] = "new" /\ Range(backlog) \subseteq Conns
    BY RangeOfBacklog DEF Inv, BacklogIsFresh, Connect
<1>2. backlog \in Seq(Conns) /\ IsInjective(backlog)
    BY DEF Inv, TypeOK, BacklogIsFresh
<1>3. backlog' \in Seq(Conns)
    BY <1>1, <1>2, EnqueueFacts DEF Connect
<1>6. Range(backlog') \subseteq Range(backlog) \cup {c}
    BY <1>1, <1>2, EnqueueFacts DEF Connect
<1>7. IsInjective(backlog')
    BY <1>1, <1>2, EnqueueFacts DEF Connect
<1>8. \A fd \in Fds : sock[fd] # c
    BY <1>1, ConnsAssumption DEF Inv, BacklogIsFresh, Open
<1>9. /\ script' = [script EXCEPT ![c] = r] /\ peer' = [peer EXCEPT ![c] = "open"]
      /\ UNCHANGED <<process, sent, taken, closed, answer, seen>>
    BY DEF Connect
<1>10. taken[c] = 0 /\ sent[c] = 0
    BY <1>1 DEF Inv, BacklogIsFresh
<1>11. TypeOK'
    <2>1. r \in Seq(STRING) /\ Len(r) \in Nat
        BY RequestsAssumption, LenProperties
    <2>2. script' \in [Conns -> Seq(STRING)]
          /\ \A d \in Conns : sent[d] <= Len(script'[d])
        BY <1>9, <1>10, <2>1 DEF Inv, TypeOK
    <2> QED BY <1>3, <1>9, <2>2 DEF Inv, TypeOK, process
<1>12. /\ BacklogIsFresh'
    <2>1. \A d \in Range(backlog') :
              peer'[d] # "new" /\ taken[d] = 0 /\ \A fd \in Fds : sock[fd] # d
        BY <1>1, <1>6, <1>8, <1>9, <1>10 DEF Inv, BacklogIsFresh, TypeOK
    <2>2. \A fd \in Open : peer'[sock[fd]] # "new"
        BY <1>8, <1>9, OpenIsConnected DEF Inv, TypeOK
    <2>3. \A d \in Conns : peer'[d] = "new" => sent[d] = 0 /\ taken[d] = 0
        BY <1>9 DEF Inv, BacklogIsFresh, TypeOK
    <2> QED BY <1>7, <1>9, <2>1, <2>2, <2>3 DEF BacklogIsFresh, process, Open
<1>13. \A fd \in Open : Readable(fd) => Readable(fd)'
    <2> TAKE fd \in Open
    <2>1. sock[fd] \in Conns /\ sock[fd] # c
        BY <1>8, OpenIsConnected
    <2> QED BY <1>9, <2>1 DEF Inv, TypeOK, process, Readable, Unread
<1> QED BY <1>9, <1>11, <1>12, <1>13, PeerKeepsInv

LEMMA SendMoreInv ==
    ASSUME NEW c \in Conns, Inv, SendMore(c)
    PROVE  Inv'
<1>1. UNCHANGED <<process, backlog, script, taken, peer, closed, answer, seen>>
      /\ sent' = [sent EXCEPT ![c] = sent[c] + 1]
    BY DEF SendMore
<1>2. TypeOK'
    <2>1. /\ sent[c] \in Nat /\ taken[c] \in Nat /\ taken[c] <= sent[c]
          /\ sent[c] < Len(script[c]) /\ Len(script[c]) \in Nat
        BY LenProperties DEF Inv, TypeOK, SendMore
    <2>2. /\ sent' \in [Conns -> Nat]
          /\ \A d \in Conns : taken[d] <= sent'[d] /\ sent'[d] <= Len(script[d])
        BY <1>1, <2>1 DEF Inv, TypeOK
    <2> QED BY <1>1, <2>2 DEF Inv, TypeOK, process
<1>3. BacklogIsFresh'
    BY <1>1 DEF Inv, BacklogIsFresh, Open, process, SendMore, TypeOK
<1>4. \A fd \in Open : Readable(fd) => Readable(fd)'
    <2> TAKE fd \in Open
    <2>1. sock[fd] \in Conns
        BY OpenIsConnected
    <2>2. sent[sock[fd]] \in Nat /\ taken[sock[fd]] \in Nat
        BY <2>1 DEF Inv, TypeOK
    <2>3. sent'[sock[fd]] >= sent[sock[fd]]
        <3>1. DOMAIN sent = Conns
            BY DEF Inv, TypeOK
        <3> QED BY <1>1, <2>1, <2>2, <3>1
    <2>4. sent'[sock[fd]] \in Nat
        BY <1>2, <1>1, <2>1 DEF TypeOK
    <2> QED BY <1>1, <2>2, <2>3, <2>4 DEF process, Readable, Unread
<1> QED BY <1>1, <1>2, <1>3, <1>4, PeerKeepsInv

LEMMA LeaveInv ==
    ASSUME NEW c \in Conns, Inv, Shutdown(c) \/ Reset(c) \/ LoseAnswer(c)
    PROVE  Inv'
<1>1. PICK how \in {"fin", "reset"} : peer' = [peer EXCEPT ![c] = how]
    BY DEF Shutdown, Reset, LoseAnswer
<1>2. UNCHANGED <<process, backlog, script, sent, taken, closed, answer, seen>>
      /\ peer[c] # "new"
    BY DEF Shutdown, Reset, LoseAnswer
<1>3. TypeOK'
    BY <1>1, <1>2 DEF Inv, TypeOK, process
<1>4. \A d \in Conns : peer'[d] = IF d = c THEN how ELSE peer[d]
    BY <1>1 DEF Inv, TypeOK
<1>5. BacklogIsFresh'
    <2>1. Range(backlog) \subseteq Conns
        BY RangeOfBacklog DEF Inv
    <2>2. \A d \in Conns : peer[d] # "new" => peer'[d] # "new"
        BY <1>4
    <2>3. \A d \in Range(backlog) : peer'[d] # "new"
        BY <2>1, <2>2 DEF Inv, BacklogIsFresh
    <2>4. \A fd \in Open : peer'[sock[fd]] # "new"
        BY <2>2, OpenIsConnected
    <2>5. \A d \in Conns : peer'[d] = "new" => sent[d] = 0 /\ taken[d] = 0
        BY <1>2, <1>4 DEF Inv, BacklogIsFresh
    <2> QED BY <1>2, <2>3, <2>4, <2>5 DEF Inv, BacklogIsFresh, Open, process
<1>6. \A fd \in Open : Readable(fd) => Readable(fd)'
    BY <1>2, <1>4, OpenIsConnected DEF process, Readable, Unread
<1> QED BY <1>2, <1>3, <1>5, <1>6, PeerKeepsInv

LEMMA ReadInv ==
    ASSUME NEW c \in Conns, Inv, Read(c)
    PROVE  Inv'
<1>1. UNCHANGED <<process, backlog, script, sent, taken, peer, closed, answer>>
      /\ seen' = [seen EXCEPT ![c] = seen[c] + 1]
    BY DEF Read
<1>2. TypeOK'
    <2>1. seen[c] \in Nat /\ seen[c] < Len(answer[c]) /\ Len(answer[c]) \in Nat
        BY LenProperties DEF Inv, TypeOK, Read
    <2>2. seen' \in [Conns -> Nat] /\ \A d \in Conns : seen'[d] <= Len(answer[d])
        BY <1>1, <2>1 DEF Inv, TypeOK
    <2> QED BY <1>1, <2>2 DEF Inv, TypeOK, process
<1>3. BacklogIsFresh'
    BY <1>1 DEF Inv, BacklogIsFresh, Open, process
<1>4. \A fd \in Open : Readable(fd) => Readable(fd)'
    BY <1>1 DEF process, Readable, Unread
<1> QED BY <1>1, <1>2, <1>3, <1>4, PeerKeepsInv

-----------------------------------------------------------------------------
\* A drop goes back to the scan or to select().
LEMMA DropGoesOn ==
    ASSUME Inv, Drop, pc \in {"scan", "send"}
    PROVE  /\ pc' \in {"select", "scan"}
           /\ UNCHANGED <<request, backlog, script, taken, peer, answer>>
<1>1. PICK i \in 1 .. Len(clients) : CursorAt(i)
    BY DEF Inv, CursorInv
<1> QED BY <1>1, DropIsFound DEF Inv, Visit

-----------------------------------------------------------------------------
\* Every step of the server and of its peers keeps the invariant.
LEMMA NextInv == Inv /\ [Next]_vars => Inv'
<1> SUFFICES ASSUME Inv, [Next]_vars PROVE Inv'
    OBVIOUS
<1>1. CASE UNCHANGED vars
    BY <1>1, StutterInv
<1>2. CASE Server
    <2>1. CASE WaitOnClients BY <2>1, WaitOnClientsInv
    <2>2. CASE SelectFails BY <2>2, ExitInv DEF SelectFails
    <2>3. CASE NothingToAccept BY <2>3, NothingToAcceptInv
    <2>4. CASE Accept BY <2>4, AcceptInv
    <2>5. CASE AcceptFails BY <2>5, ExitInv DEF AcceptFails
    <2>6. CASE NotReady BY <2>6, NotReadyInv
    <2>7. CASE TooLong BY <2>7, TooLongInv
    <2>8. CASE Receive BY <2>8, ReceiveInv
    <2>9. CASE Disconnect BY <2>9, DisconnectInv
    <2>10. CASE Send BY <2>10, SendInv
    <2>11. CASE SendIgnored BY <2>11, SendIgnoredInv
    <2>12. CASE SendKilled BY <2>12, KilledInv
    <2>13. CASE Finish BY <2>13, FinishInv
    <2> QED BY <1>2, <2>1, <2>2, <2>3, <2>4, <2>5, <2>6, <2>7, <2>8, <2>9,
               <2>10, <2>11, <2>12, <2>13 DEF Server, Serve
<1>3. ASSUME NEW c \in Conns, Peer(c) PROVE Inv'
    BY <1>3, ConnectInv, SendMoreInv, LeaveInv, ReadInv DEF Peer
<1> QED BY <1>1, <1>2, <1>3 DEF Next

\* The inductive invariant is one.
LEMMA SpecInv == Spec => []Inv
<1>1. Init => Inv
    BY InitInv
<1>2. Inv /\ [Next]_vars => Inv'
    BY NextInv
<1> QED BY <1>1, <1>2, PTL DEF Spec

\* Type correctness: in particular recv() never writes past the buffer and no
\* more is read from a connection than its peer has sent.
THEOREM TypeCorrect == Spec => []TypeOK
<1>1. Inv => TypeOK
    BY DEF Inv
<1> QED BY <1>1, SpecInv, PTL

\* get_client, drop_client and the scan never lose or double a client.
THEOREM ListCorrect == Spec => []ListIsOpenDescriptors
<1>1. Inv => ListIsOpenDescriptors
    BY DEF Inv
<1> QED BY <1>1, SpecInv, PTL

\* `client = next` never follows a client_info that has been freed.
THEOREM CursorCorrect == Spec => []CursorIsValid
<1>1. Inv => CursorIsValid
    <2> SUFFICES ASSUME Inv, pc \in {"scan", "send"}
                 PROVE  client \in Range(clients) /\ next = Successor(clients, client)
        BY DEF CursorIsValid
    <2>1. PICK i \in 1 .. Len(clients) : CursorAt(i)
        BY DEF Inv, CursorInv
    <2>2. client \in Range(clients)
        BY <2>1, CursorIsOpen DEF Inv, ListIsOpenDescriptors
    <2>3. Successor(clients, clients[i]) =
              IF i = Len(clients) THEN NULL ELSE clients[i + 1]
        BY SuccessorAt DEF Inv, TypeOK, ListIsOpenDescriptors
    <2> QED BY <2>1, <2>2, <2>3 DEF CursorAt
<1> QED BY <1>1, SpecInv, PTL

\* No recv() of the scan blocks, for any number of clients.
THEOREM NeverBlocks == Spec => []NeverBlocksInRecv
<1>1. Inv => NeverBlocksInRecv
    <2> SUFFICES ASSUME Inv, pc = "scan",
                        NEW i \in 1 .. Len(clients), NEW j \in i .. Len(clients),
                        clients[i] = client, clients[j] \in reads
                 PROVE  Readable(clients[j])
        BY DEF NeverBlocksInRecv
    <2>1. PICK k \in 1 .. Len(clients) : CursorAt(k)
        BY DEF Inv, CursorInv
    <2>2. DOMAIN clients = 1 .. Len(clients) /\ IsInjective(clients)
        BY <2>1, CursorIsOpen DEF Inv, ListIsOpenDescriptors
    <2>3. i = k
        BY <2>1, <2>2 DEF CursorAt, IsInjective
    <2>4. j \in 1 .. Len(clients) /\ (j > k \/ j = k)
        BY <2>3
    <2> QED BY <2>1, <2>4 DEF CursorAt
<1> QED BY <1>1, SpecInv, PTL

-----------------------------------------------------------------------------
\* recv() appends the next bytes of the script.
LEMMA ReceiveBuffer ==
    ASSUME Inv, BufferIsWhatWasSent, Receive
    PROVE  BufferIsWhatWasSent'
<1> DEFINE c == sock[client]
           r == Min({Unread(c), Room(client)})
<1>1. PICK i \in 1 .. Len(clients) : CursorAt(i)
    BY DEF Inv, Receive, CursorInv
<1>2. /\ c \in Conns /\ client \in Fds
      /\ r \in Nat /\ taken[c] + r <= Len(script[c])
      /\ request'[client] =
            request[client] \o SubSeq(script[c], taken[c] + 1, taken[c] + r)
      /\ \A fd \in Fds \ {client} : request'[fd] = request[fd]
      /\ taken' = [taken EXCEPT ![c] = taken[c] + r]
    <2>1. Room(client) > 0
        BY DEF Receive
    <2> QED BY <1>1, <2>1, ReceiveTypes
<1> HIDE DEF r
<1>3. client \in Open
    BY <1>1, CursorIsOpen DEF Inv
<1>4. UNCHANGED <<sock, script>>
    BY DEF Receive
<1>5. script[c] \in Seq(STRING) /\ taken[c] \in Nat /\ Len(script[c]) \in Nat
    BY <1>2, LenProperties DEF Inv, TypeOK
<1>6. request'[client] = SubSeq(script[c], 1, taken[c] + r)
    <2> DEFINE s == script[c]
               k == taken[c]
               n == taken[c] + r
    <2>1. request[client] = SubSeq(s, 1, k)
        BY <1>3 DEF BufferIsWhatWasSent
    <2>2. /\ s \in Seq(STRING) /\ 1 \in 1 .. Len(s) + 1
          /\ k \in 1 - 1 .. Len(s) /\ n \in k .. Len(s)
        BY <1>2, <1>5
    <2>3. request'[client] = SubSeq(s, 1, k) \o SubSeq(s, k + 1, n)
        BY <1>2, <2>1
    <2> HIDE DEF s, k, n
    <2>4. SubSeq(s, 1, k) \o SubSeq(s, k + 1, n) = SubSeq(s, 1, n)
        BY <2>2, ConcatAdjacentSubSeq
    <2> QED BY <2>3, <2>4 DEF s, n
<1>7. taken'[c] = taken[c] + r /\ \A d \in Conns \ {c} : taken'[d] = taken[d]
    BY <1>2 DEF Inv, TypeOK
<1>8. ASSUME NEW fd \in Open, fd # client
      PROVE  request'[fd] = SubSeq(script[sock[fd]], 1, taken'[sock[fd]])
    <2>1. fd \in Fds /\ sock[fd] \in Conns \ {c}
        BY <1>3, <1>8, OpenIsConnected DEF Inv, ListIsOpenDescriptors
    <2>2. request'[fd] = request[fd] /\ taken'[sock[fd]] = taken[sock[fd]]
        BY <1>2, <1>7, <1>8, <2>1
    <2> QED BY <2>2 DEF BufferIsWhatWasSent
<1> QED BY <1>4, <1>6, <1>7, <1>8 DEF BufferIsWhatWasSent, Open

\* get_client zeroes the buffer of the new client.
LEMMA AcceptBuffer ==
    ASSUME Inv, BufferIsWhatWasSent, Accept
    PROVE  BufferIsWhatWasSent'
<1> DEFINE fd == Min(Free)
           c == Head(backlog)
<1>1. fd \in Free
    BY FdsAssumption, MinOfNats DEF Accept, Free
<1>2. c \in Range(backlog)
    BY BacklogTail DEF Accept, Inv
<1>3. /\ sock' = [sock EXCEPT ![fd] = c] /\ request' = [request EXCEPT ![fd] = <<>>]
      /\ UNCHANGED <<script, taken>>
    BY DEF Accept, GetClient
<1> HIDE DEF fd, c
<1>4. fd \in Fds /\ fd \notin Open
    BY <1>1 DEF Free
<1>5. taken[c] = 0
    BY <1>2 DEF Inv, BacklogIsFresh
<1>6. SubSeq(script[c], 1, taken[c]) = <<>>
    BY <1>5, SubSeqEmpty
<1>7. /\ \A gd \in Fds : sock'[gd] = IF gd = fd THEN c ELSE sock[gd]
      /\ \A gd \in Fds : request'[gd] = IF gd = fd THEN <<>> ELSE request[gd]
    <2>1. DOMAIN sock = Fds /\ DOMAIN request = Fds
        BY DEF Inv, TypeOK
    <2> QED BY <1>3, <2>1
<1>8. ASSUME NEW gd \in Open'
      PROVE  request'[gd] = SubSeq(script'[sock'[gd]], 1, taken'[sock'[gd]])
    <2>1. CASE gd = fd
        BY <1>3, <1>4, <1>6, <1>7, <2>1
    <2>2. CASE gd # fd
        <3>1. gd \in Open /\ sock'[gd] = sock[gd] /\ request'[gd] = request[gd]
            BY <1>7, <1>8, <2>2 DEF Open
        <3> QED BY <1>3, <3>1 DEF BufferIsWhatWasSent
    <2> QED BY <2>1, <2>2
<1> QED BY <1>8 DEF BufferIsWhatWasSent

LEMMA DropBuffer ==
    ASSUME Inv, BufferIsWhatWasSent, Drop, pc \in {"scan", "send"}
    PROVE  BufferIsWhatWasSent'
<1>1. PICK i \in 1 .. Len(clients) : CursorAt(i)
    BY DEF Inv, CursorInv
<1>2. /\ Open' = Open \ {client} /\ Open \subseteq Fds
      /\ \A fd \in Fds : sock'[fd] = IF fd = client THEN NULL ELSE sock[fd]
    BY <1>1, DropFacts DEF Inv, Open
<1>3. UNCHANGED <<request, script, taken>>
    BY DropGoesOn
<1> QED BY <1>2, <1>3 DEF BufferIsWhatWasSent

LEMMA ConnectBuffer ==
    ASSUME Inv, BufferIsWhatWasSent, NEW c \in Conns, NEW r \in Requests, Connect(c, r)
    PROVE  BufferIsWhatWasSent'
<1>1. /\ script' = [script EXCEPT ![c] = r] /\ peer[c] = "new"
      /\ UNCHANGED <<sock, request, taken>>
    BY DEF Connect, process
<1>2. \A fd \in Open : sock[fd] \in Conns /\ sock[fd] # c
    BY <1>1, OpenIsConnected
<1>3. \A fd \in Open : script'[sock[fd]] = script[sock[fd]]
    BY <1>1, <1>2 DEF Inv, TypeOK
<1> QED BY <1>1, <1>3 DEF BufferIsWhatWasSent, Open

\* A buffer never holds anything but the beginning of its own peer's script,
\* for any interleaving of peers and any reuse of descriptors.
THEOREM BufferCorrect == Spec => []BufferIsWhatWasSent
<1>1. Init => BufferIsWhatWasSent
    BY DEF Init, BufferIsWhatWasSent, Open
<1>2. ASSUME Inv, BufferIsWhatWasSent, UNCHANGED <<sock, request, script, taken>>
      PROVE  BufferIsWhatWasSent'
    BY <1>2 DEF BufferIsWhatWasSent, Open
<1>3. Inv /\ BufferIsWhatWasSent /\ [Next]_vars => BufferIsWhatWasSent'
    <2> SUFFICES ASSUME Inv, BufferIsWhatWasSent, [Next]_vars
                 PROVE  BufferIsWhatWasSent'
        OBVIOUS
    <2>1. CASE UNCHANGED vars
        BY <1>2, <2>1 DEF vars, process, network
    <2>2. CASE Server
        <3>1. CASE \/ WaitOnClients \/ SelectFails \/ NothingToAccept \/ AcceptFails
                   \/ NotReady \/ TooLong \/ Send \/ SendIgnored \/ SendKilled
            BY <1>2, <3>1 DEF WaitOnClients, SelectFails, NothingToAccept,
               AcceptFails, NotReady, TooLong, Send, SendIgnored, SendKilled,
               Exit, network
        <3>2. CASE Accept BY <3>2, AcceptBuffer
        <3>3. CASE Receive BY <3>3, ReceiveBuffer
        <3>4. CASE Disconnect BY <3>4, DropBuffer DEF Disconnect
        <3>5. CASE Finish BY <3>5, DropBuffer DEF Finish
        <3> QED BY <2>2, <3>1, <3>2, <3>3, <3>4, <3>5 DEF Server, Serve
    <2>3. ASSUME NEW c \in Conns, Peer(c) PROVE BufferIsWhatWasSent'
        <3>1. CASE SendMore(c) \/ Shutdown(c) \/ Reset(c) \/ Read(c) \/ LoseAnswer(c)
            BY <1>2, <3>1 DEF SendMore, Shutdown, Reset, Read, LoseAnswer, process
        <3>2. CASE \E r \in Requests : Connect(c, r)
            BY <3>2, ConnectBuffer
        <3> QED BY <2>3, <3>1, <3>2 DEF Peer
    <2> QED BY <2>1, <2>2, <2>3 DEF Next
<1> QED BY <1>1, <1>3, SpecInv, PTL DEF Spec

\* drop_client never comes to its exit(1): whatever get_client and drop_client
\* did to the list, the client of a visit is in it.
THEOREM DropAlwaysFinds == Spec => DropFindsClient
<1>1. Inv /\ [Next]_vars => [(pc \in {"scan", "send"}) => pc' # "exited"]_vars
    <2> SUFFICES ASSUME Inv, [Next]_vars, pc \in {"scan", "send"}
                 PROVE  pc' # "exited"
        OBVIOUS
    <2>1. CASE UNCHANGED vars
        BY <2>1 DEF vars, process
    <2>2. CASE WaitOnClients \/ SelectFails \/ NothingToAccept \/ Accept \/ AcceptFails
        BY <2>2 DEF WaitOnClients, SelectFails, NothingToAccept, Accept, AcceptFails
    <2>3. CASE \/ NotReady \/ TooLong \/ Receive \/ Send \/ SendIgnored \/ SendKilled
        BY <2>3 DEF NotReady, TooLong, Receive, Send, SendIgnored, SendKilled, Visit
    <2>4. CASE Disconnect \/ Finish
        BY <2>4, DropGoesOn DEF Disconnect, Finish
    <2>5. ASSUME NEW c \in Conns, Peer(c) PROVE pc' = pc
        BY <2>5 DEF Peer, Connect, SendMore, Shutdown, Reset, Read, LoseAnswer, process
    <2> QED BY <2>1, <2>2, <2>3, <2>4, <2>5 DEF Next, Server, Serve
<1> QED BY <1>1, SpecInv, PTL DEF Spec, DropFindsClient

-----------------------------------------------------------------------------
(* The answers: what a peer is sent is what its whole script calls for,    *)
(* and the server implements the service of HttpService.                   *)

(* What strstr() finds in a buffer, position by position. *)

\* The C string in a buffer is its beginning up to the first zero byte.
LEMMA CStringIsBeginning ==
    ASSUME NEW buf \in Seq(STRING)
    PROVE  \E n \in 0 .. Len(buf) :
              /\ CString(buf) = SubSeq(buf, 1, n)
              /\ \A k \in 1 .. n : buf[k] # "nul"
              /\ n = Len(buf) \/ buf[n + 1] = "nul"
<1> DEFINE Zeros == {i \in 1 .. Len(buf) : buf[i] = "nul"}
           z == SelectInSeq(buf, LAMBDA t : t = "nul")
<1>1. Len(buf) \in Nat /\ DOMAIN buf = 1 .. Len(buf)
    BY LenProperties
<1>2. z = IF Zeros # {} THEN Min(Zeros) ELSE 0
    BY DEF SelectInSeq
<1>3. CString(buf) = IF z = 0 THEN buf ELSE SubSeq(buf, 1, z - 1)
    BY Zenon DEF CString
<1>4. CASE Zeros = {}
    <2>1. CString(buf) = SubSeq(buf, 1, Len(buf))
        BY <1>2, <1>3, <1>4, SubSeqFull
    <2>2. Len(buf) \in 0 .. Len(buf)
        BY <1>1
    <2> QED BY <1>4, <2>1, <2>2
<1>5. CASE Zeros # {}
    <2>1. Zeros \in SUBSET Nat
        BY <1>1
    <2>2. Min(Zeros) \in Zeros /\ \A y \in Zeros : Min(Zeros) <= y
        BY <1>5, <2>1, MinOfNats
    <2> HIDE DEF z
    <2>3. z \in 1 .. Len(buf) /\ buf[z] = "nul" /\ \A y \in Zeros : z <= y
        BY <1>2, <1>5, <2>2
    <2>4. z - 1 \in 0 .. Len(buf) /\ z - 1 + 1 = z /\ z # 0
        BY <1>1, <2>3
    <2>5. \A k \in 1 .. z - 1 : buf[k] # "nul"
        BY <1>1, <2>3
    <2> QED BY <1>3, <2>3, <2>4, <2>5
<1> QED BY <1>4, <1>5

\* A terminator is two line ends with no zero byte before them.
LEMMA TerminatorsAre ==
    ASSUME NEW buf \in Seq(STRING)
    PROVE  Terminators(buf) =
              {i \in 1 .. Len(buf) - 1 :
                  /\ buf[i] = "crlf" /\ buf[i + 1] = "crlf"
                  /\ \A k \in 1 .. i + 1 : buf[k] # "nul"}
<1> DEFINE text == CString(buf)
<1>1. PICK n \in 0 .. Len(buf) :
          /\ text = SubSeq(buf, 1, n)
          /\ \A k \in 1 .. n : buf[k] # "nul"
          /\ n = Len(buf) \/ buf[n + 1] = "nul"
    BY CStringIsBeginning
<1>2. Len(buf) \in Nat /\ \A k \in 1 .. Len(buf) : buf[k] \in STRING
    BY LenProperties, ElementOfSeq
<1>3. Len(text) = n /\ \A k \in 1 .. n : text[k] = buf[k]
    <2>1. \A k \in 1 .. n : buf[k] \in STRING
        BY <1>2
    <2> HIDE DEF text
    <2>2. Len(text) = (IF 1 <= n THEN n - 1 + 1 ELSE 0)
          /\ \A k \in 1 .. n - 1 + 1 : text[k] = buf[1 + k - 1]
        BY <1>1, <2>1, SubSeqProperties
    <2> QED BY <1>2, <2>2
<1>4. Terminators(buf) = {i \in 1 .. n - 1 : buf[i] = "crlf" /\ buf[i + 1] = "crlf"}
    <2>1. Terminators(buf) =
              {i \in 1 .. Len(text) - 1 : text[i] = "crlf" /\ text[i + 1] = "crlf"}
        BY Zenon DEF Terminators
    <2> HIDE DEF text
    <2>2. \A i \in 1 .. n - 1 : text[i] = buf[i] /\ text[i + 1] = buf[i + 1]
        BY <1>3
    <2> QED BY <1>3, <2>1, <2>2
<1> HIDE DEF text
<1>5. \A i \in 1 .. Len(buf) - 1 :
          (\A k \in 1 .. i + 1 : buf[k] # "nul") => i \in 1 .. n - 1
    <2> SUFFICES ASSUME NEW i \in 1 .. Len(buf) - 1, i \notin 1 .. n - 1,
                        \A k \in 1 .. i + 1 : buf[k] # "nul"
                 PROVE  FALSE
        OBVIOUS
    <2>1. n # Len(buf) /\ n + 1 \in 1 .. i + 1
        BY <1>2
    <2> QED BY <1>1, <2>1
<1>6. \A i \in 1 .. n - 1 :
          i \in 1 .. Len(buf) - 1 /\ \A k \in 1 .. i + 1 : buf[k] # "nul"
    BY <1>1, <1>2
<1> QED BY <1>4, <1>5, <1>6

\* The terminators of a beginning are those that lie in it.
LEMMA TerminatorsOfBeginning ==
    ASSUME NEW r \in Seq(STRING), NEW m \in 0 .. Len(r),
           NEW a, a = SubSeq(r, 1, m)
    PROVE  /\ a \in Seq(STRING) /\ Len(a) = m
           /\ \A k \in 1 .. m : a[k] = r[k]
           /\ Terminators(a) = {i \in Terminators(r) : i + 1 <= m}
<1>1. Len(r) \in Nat /\ \A k \in 1 .. m : r[k] \in STRING
    BY LenProperties, ElementOfSeq
<1>2. a \in Seq(STRING) /\ Len(a) = m /\ \A k \in 1 .. m : a[k] = r[k]
    <2>1. /\ a \in Seq(STRING)
          /\ Len(a) = (IF 1 <= m THEN m - 1 + 1 ELSE 0)
          /\ \A k \in 1 .. m - 1 + 1 : a[k] = r[1 + k - 1]
        BY <1>1, SubSeqProperties
    <2> QED BY <1>1, <2>1
<1>3. /\ Terminators(a) =
            {i \in 1 .. m - 1 : /\ a[i] = "crlf" /\ a[i + 1] = "crlf"
                                /\ \A k \in 1 .. i + 1 : a[k] # "nul"}
      /\ Terminators(r) =
            {i \in 1 .. Len(r) - 1 : /\ r[i] = "crlf" /\ r[i + 1] = "crlf"
                                     /\ \A k \in 1 .. i + 1 : r[k] # "nul"}
    BY <1>2, TerminatorsAre
<1>4. ASSUME NEW i \in Terminators(a)
      PROVE  i \in Terminators(r) /\ i + 1 <= m
    <2>1. i \in 1 .. m - 1 /\ i \in 1 .. Len(r) - 1 /\ i + 1 <= m
        BY <1>1, <1>3, <1>4
    <2>2. a[i] = r[i] /\ a[i + 1] = r[i + 1] /\ \A k \in 1 .. i + 1 : a[k] = r[k]
        BY <1>2, <2>1
    <2> QED BY <1>3, <1>4, <2>1, <2>2
<1>5. ASSUME NEW i \in Terminators(r), i + 1 <= m
      PROVE  i \in Terminators(a)
    <2>1. i \in 1 .. m - 1
        BY <1>1, <1>3, <1>5
    <2>2. a[i] = r[i] /\ a[i + 1] = r[i + 1] /\ \A k \in 1 .. i + 1 : a[k] = r[k]
        BY <1>2, <2>1
    <2> QED BY <1>3, <1>5, <2>1, <2>2
<1>6. Terminators(a) = {i \in Terminators(r) : i + 1 <= m}
    BY <1>4, <1>5
<1> QED BY <1>2, <1>6

\* Once complete, a request stays the same whatever arrives after it.
LEMMA AnswerOfBeginning ==
    ASSUME NEW r \in Seq(STRING), NEW m \in 0 .. Len(r),
           NEW a, a = SubSeq(r, 1, m), Complete(a)
    PROVE  Complete(r) /\ RequestText(a) = RequestText(r)
<1>1. /\ Len(a) = m /\ \A k \in 1 .. m : a[k] = r[k]
      /\ Terminators(a) = {i \in Terminators(r) : i + 1 <= m}
    BY TerminatorsOfBeginning
<1>2. Terminators(r) \in SUBSET Nat /\ Terminators(a) \in SUBSET Nat
    BY <1>1, TerminatorsAre
<1>3. Terminators(a) # {} /\ Terminators(r) # {}
    BY <1>1 DEF Complete
<1> DEFINE p == Min(Terminators(a))
           q == Min(Terminators(r))
<1>4. /\ p \in Terminators(a) /\ \A i \in Terminators(a) : p <= i
      /\ q \in Terminators(r) /\ \A i \in Terminators(r) : q <= i
    BY <1>2, <1>3, MinOfNats
<1> HIDE DEF p, q
<1>5. p \in Nat /\ q \in Nat /\ q <= p /\ p + 1 <= m
    BY <1>1, <1>2, <1>4
<1>6. q \in Terminators(a)
    BY <1>1, <1>4, <1>5
<1>7. p = q
    BY <1>4, <1>5, <1>6
<1>8. SubSeq(a, 1, p - 1) = SubSeq(r, 1, q - 1)
    <2> DEFINE n == p - 1
    <2>1. n \in Nat /\ n \in 0 .. m
        BY <1>4, <1>5, <1>2, <1>1, TerminatorsAre
    <2>2. n = q - 1
        BY <1>7
    <2> HIDE DEF n
    <2>3. \A k \in 1 .. n : a[1 + k - 1] = r[1 + k - 1]
        BY <1>1, <2>1
    <2>4. SubSeq(a, 1, n) = SubSeq(r, 1, n)
        BY <2>1, <2>3
    <2> QED BY <2>2, <2>4 DEF n
<1>9. RequestText(a) = RequestText(r)
    BY <1>8 DEF RequestText, p, q
<1> QED BY <1>3, <1>9 DEF Complete

\* What the server answers to a buffer is what the whole script calls for.
LEMMA BufferAnswer ==
    ASSUME NEW r \in Seq(STRING), NEW k \in 0 .. Len(r), k <= MAX_REQUEST_SIZE,
           NEW buf, buf = SubSeq(r, 1, k), NEW canOpen
    PROVE  /\ Complete(buf) => Response(buf, canOpen) = Promise(r, canOpen)
           /\ ~ Complete(buf) /\ k = MAX_REQUEST_SIZE => BadRequest = Promise(r, canOpen)
<1> DEFINE n == Min({Len(r), MAX_REQUEST_SIZE})
           head == SubSeq(r, 1, n)
<1>1. Len(r) \in Nat /\ MAX_REQUEST_SIZE \in Nat
    BY LenProperties, SizeAssumption
<1>2. n \in {Len(r), MAX_REQUEST_SIZE} /\ n <= Len(r) /\ n <= MAX_REQUEST_SIZE
    <2>1. Len(r) \in Int /\ MAX_REQUEST_SIZE \in Int
        BY <1>1
    <2> QED BY <2>1, MinOfTwo, Zenon
<1>3. Promise(r, canOpen) = IF Complete(head) THEN Response(head, canOpen) ELSE BadRequest
    BY Zenon DEF Promise
<1> HIDE DEF n
<1>4. n \in 0 .. Len(r) /\ k \in 0 .. n /\ (k = MAX_REQUEST_SIZE => k = n)
    BY <1>1, <1>2
<1>5. head \in Seq(STRING) /\ Len(head) = n /\ \A j \in 1 .. n : head[j] = r[j]
    BY <1>4, TerminatorsOfBeginning
<1>6. buf = SubSeq(head, 1, k)
    <2>1. \A j \in 1 .. k : r[1 + j - 1] = head[1 + j - 1]
        BY <1>4, <1>5
    <2> HIDE DEF head
    <2> QED BY <1>4, <2>1
<1>7. ASSUME Complete(buf)
      PROVE  Complete(head) /\ Response(buf, canOpen) = Response(head, canOpen)
    <2>1. k \in 0 .. Len(head)
        BY <1>4, <1>5
    <2> HIDE DEF head
    <2>2. Complete(head) /\ RequestText(buf) = RequestText(head)
        BY <1>5, <1>6, <1>7, <2>1, AnswerOfBeginning
    <2> QED BY <2>2, Zenon DEF Response
<1>8. k = MAX_REQUEST_SIZE => buf = head
    BY <1>4
<1> HIDE DEF head
<1> QED BY <1>3, <1>7, <1>8

-----------------------------------------------------------------------------
(* What a peer is owed, in the words of the server and of the service. *)

\* Whether fopen() may find no descriptor left, and the answers a request may get.
Scarcity == IF Cardinality(Conns) >= Cardinality(Fds) THEN BOOLEAN ELSE {TRUE}
Owed(r) == {Promise(r, canOpen) : canOpen \in Scarcity}

\* The service reads requests the way the server does.
LEMMA AbstractPromise ==
    ASSUME NEW r, NEW canOpen
    PROVE  Abstract!Promise(r, canOpen) = Promise(r, canOpen)
<1>1. ASSUME NEW S PROVE Abstract!Min(S) = Min(S)
    BY Zenon DEF Abstract!Min, Min
<1>2. ASSUME NEW b
      PROVE  /\ Abstract!Terminators(b) = Terminators(b)
             /\ Abstract!Complete(b) = Complete(b)
    BY Zenon DEF Abstract!CString, CString, Abstract!SelectInSeq, SelectInSeq,
       Abstract!Min, Min, Abstract!Terminators, Terminators,
       Abstract!Complete, Complete
<1>3. ASSUME NEW b PROVE Abstract!RequestText(b) = RequestText(b)
    BY <1>1, <1>2, Zenon DEF Abstract!RequestText, RequestText
<1>4. Abstract!BadRequest = BadRequest
    BY DEF Abstract!BadRequest, BadRequest
<1>5. ASSUME NEW p PROVE Abstract!Resource(p, canOpen) = Resource(p, canOpen)
    BY Zenon DEF Abstract!Resource, Resource, Abstract!BadRequest, BadRequest,
       Abstract!NotFound, NotFound, Abstract!Page, Page, Abstract!Contains, Contains
<1>6. ASSUME NEW b PROVE Abstract!Response(b, canOpen) = Response(b, canOpen)
    BY <1>1, <1>3, <1>4, <1>5, Zenon DEF Abstract!Response, Response
<1> QED BY <1>1, <1>2, <1>4, <1>6, Zenon DEF Abstract!Promise, Promise

LEMMA AbstractOwed ==
    ASSUME NEW r
    PROVE  Abstract!Owed(r) = Owed(r)
BY AbstractPromise, Zenon DEF Abstract!Owed, Owed, Scarcity

\* A promise is a sequence of segments, the whole text of one or the bad request.
LEMMA PromiseType ==
    ASSUME NEW r, NEW whole \in Owed(r)
    PROVE  whole \in Seq(Segments)
<1>1. PICK canOpen \in BOOLEAN : whole = Promise(r, canOpen)
    BY Zenon DEF Owed, Scarcity
<1>2. BadRequest \in Seq(Segments)
    BY DEF BadRequest, Segments
<1> QED BY <1>1, <1>2, ResponseType, Zenon DEF Promise

\* When every descriptor is in use there are at least as many connections.
LEMMA FullMeansScarce ==
    ASSUME TypeOK, ListIsOpenDescriptors, Free = {}
    PROVE  Cardinality(Conns) >= Cardinality(Fds)
<1>1. Open = Fds
    BY DEF Free, Open
<1>2. sock \in [Fds -> Conns]
    BY <1>1 DEF TypeOK, Open
<1>3. sock \in Injection(Fds, Conns)
    BY <1>1, <1>2 DEF ListIsOpenDescriptors, Injection, IsInjective
<1>4. IsFiniteSet(Conns)
    BY ConnsAssumption
<1>5. Cardinality(Fds) <= Cardinality(Conns)
    BY <1>3, <1>4, FS_Injection
<1> QED BY <1>5

\* What the server picks for a buffer it has just completed is owed.
LEMMA ResponseIsOwed ==
    ASSUME TypeOK, ListIsOpenDescriptors,
           NEW r \in Seq(STRING), NEW k \in 0 .. Len(r), k <= MAX_REQUEST_SIZE,
           NEW buf, buf = SubSeq(r, 1, k), Complete(buf)
    PROVE  Response(buf, Free # {}) \in Owed(r)
<1> DEFINE canOpen == Free # {}
<1>1. canOpen \in Scarcity
    BY FullMeansScarce DEF Scarcity
<1>2. Response(buf, canOpen) = Promise(r, canOpen)
    BY BufferAnswer
<1> HIDE DEF canOpen
<1> QED BY <1>1, <1>2, Zenon DEF Owed, canOpen

LEMMA BadRequestIsOwed ==
    ASSUME NEW r \in Seq(STRING), NEW k \in 0 .. Len(r), k = MAX_REQUEST_SIZE,
           NEW buf, buf = SubSeq(r, 1, k), ~ Complete(buf)
    PROVE  BadRequest \in Owed(r)
<1>1. TRUE \in Scarcity
    BY DEF Scarcity
<1>2. k <= MAX_REQUEST_SIZE
    BY SizeAssumption
<1>3. BadRequest = Promise(r, TRUE)
    BY <1>2, BufferAnswer
<1> QED BY <1>1, <1>3, Zenon DEF Owed

-----------------------------------------------------------------------------
(* The invariant: where each answer stands. *)

\* The client at `client` is being answered.
BeingServed == pc \in {"send", "killed"}

\* A complete request is being answered: none waits in a buffer.
CompleteIsServed ==
    \A fd \in Open : Complete(request[fd]) => BeingServed /\ fd = client

\* What the server has closed is neither open nor in the backlog nor new.
OpenIsNotClosed ==
    /\ \A fd \in Open : closed[sock[fd]] = "no"
    /\ \A c \in Range(backlog) : closed[c] = "no"
    /\ \A c \in Conns : peer[c] = "new" => closed[c] = "no"

\* Nobody has been sent anything before its turn.
AnsweredInTurn ==
    \A c \in Conns :
        answer[c] # <<>> => closed[c] # "no" \/ (BeingServed /\ c = sock[client])

\* What has been sent to the peer being served begins an answer it is owed, and
\* what is still to be sent is the rest, unless the peer has reset.
ServedIsOwed ==
    BeingServed =>
        /\ client \in Open
        /\ Complete(request[client]) \/ Len(request[client]) = MAX_REQUEST_SIZE
        /\ \E whole \in Owed(script[sock[client]]) :
              /\ IsPrefix(answer[sock[client]], whole)
              /\ \/ peer[sock[client]] = "reset"
                 \/ answer[sock[client]] \o sending = whole

\* A closed connection has got the whole of an answer it is owed, or its
\* beginning if the peer has gone.
ClosedIsOwed ==
    \A c \in Conns : closed[c] # "no" =>
        \E whole \in Owed(script[c]) :
           /\ IsPrefix(answer[c], whole)
           /\ peer[c] \in {"fin", "reset"} \/ answer[c] = whole

\* The inductive invariant of the answers.
AnswerInv ==
    /\ CompleteIsServed
    /\ OpenIsNotClosed
    /\ AnsweredInTurn
    /\ ServedIsOwed
    /\ ClosedIsOwed
    /\ ExactRequestNotReset

\* An empty buffer is not complete, an empty answer begins every other.
LEMMA NothingYet ==
    /\ ~ Complete(<<>>)
    /\ \A s \in Seq(Segments) : IsPrefix(<<>>, s) /\ <<>> \o s = s /\ s \o <<>> = s
<1>1. <<>> \in Seq(STRING) /\ Len(<<>>) = 0
    BY EmptySeq
<1>2. ~ Complete(<<>>)
    <2>1. ASSUME NEW e \in Seq(STRING), Len(e) = 0
          PROVE  ~ Complete(e)
        <3>1. Terminators(e) \subseteq 1 .. Len(e) - 1
            BY TerminatorsAre
        <3>2. 1 .. Len(e) - 1 = {}
            BY <2>1
        <3> QED BY <3>1, <3>2 DEF Complete
    <2> QED BY <1>1, <2>1
<1>3. \A s \in Seq(Segments) : IsPrefix(<<>>, s)
    <2> TAKE s \in Seq(Segments)
    <2>1. Len(s) \in Nat /\ SubSeq(s, 1, 0) = <<>> /\ SubSeq(<<>>, 1, 0) = <<>>
        BY LenProperties, SubSeqEmpty
    <2> QED BY <1>1, <2>1 DEF IsPrefix
<1> QED BY <1>2, <1>3, ConcatEmptySeq

\* A first part is a beginning of the whole.
LEMMA PartIsPrefix ==
    ASSUME NEW s \in Seq(Segments), NEW u \in Seq(Segments)
    PROVE  IsPrefix(s, s \o u)
<1>1. Len(s) \in Nat /\ Len(s) \in 0 .. Len(s \o u) /\ s = SubSeq(s \o u, 1, Len(s))
    BY LenProperties, FirstIsPrefix
<1>2. s = SubSeq(s, 1, Len(s))
    BY SubSeqFull
<1> QED BY <1>1, <1>2 DEF IsPrefix

\* Nothing has been asked at the start.
LEMMA InitAnswer == Init => AnswerInv
<1> SUFFICES ASSUME Init PROVE AnswerInv
    OBVIOUS
<1>1. Open = {} /\ ~ BeingServed
    BY DEF Init, Open, BeingServed
<1> QED BY <1>1 DEF Init, AnswerInv, CompleteIsServed, OpenIsNotClosed, AnsweredInTurn,
           ServedIsOwed, ClosedIsOwed, ExactRequestNotReset, Range

\* Steps that leave buffers, connections and answers alone.
LEMMA QuietAnswer ==
    ASSUME AnswerInv,
           UNCHANGED <<sock, request, backlog, script, peer, closed, answer>>,
           BeingServed' = BeingServed, BeingServed => UNCHANGED <<client, sending>>
    PROVE  AnswerInv'
<1>1. OpenIsNotClosed' /\ ClosedIsOwed' /\ ExactRequestNotReset'
    BY DEF AnswerInv, OpenIsNotClosed, ClosedIsOwed, ExactRequestNotReset, Open
<1>2. CASE ~ BeingServed
    BY <1>1, <1>2 DEF AnswerInv, CompleteIsServed, AnsweredInTurn, ServedIsOwed, Open
<1>3. CASE BeingServed
    BY <1>1, <1>3 DEF AnswerInv, CompleteIsServed, AnsweredInTurn, ServedIsOwed, Open
<1> QED BY <1>2, <1>3

\* A client about to be served has not been sent anything yet.
LEMMA ClientIsFresh ==
    ASSUME Inv, AnswerInv, pc = "scan"
    PROVE  /\ client \in Open /\ client \in Fds /\ sock[client] \in Conns
           /\ closed[sock[client]] = "no" /\ answer[sock[client]] = <<>>
           /\ ~ Complete(request[client]) /\ ~ BeingServed
<1>1. client \in Open /\ client \in Fds /\ sock[client] \in Conns
    BY CursorIsOpen DEF Inv, CursorInv
<1>2. ~ BeingServed
    BY DEF BeingServed
<1> QED BY <1>1, <1>2 DEF AnswerInv, OpenIsNotClosed, AnsweredInTurn, CompleteIsServed

\* The buffer and the script of an open descriptor.
LEMMA BufferFacts ==
    ASSUME Inv, BufferIsWhatWasSent, NEW fd \in Open
    PROVE  /\ script[sock[fd]] \in Seq(STRING)
           /\ taken[sock[fd]] \in 0 .. Len(script[sock[fd]])
           /\ taken[sock[fd]] = Len(request[fd])
           /\ Len(request[fd]) <= MAX_REQUEST_SIZE
           /\ request[fd] = SubSeq(script[sock[fd]], 1, taken[sock[fd]])
<1> DEFINE c == sock[fd]
<1>1. c \in Conns /\ fd \in Fds
    BY OpenIsConnected
<1>2. /\ script[c] \in Seq(STRING) /\ taken[c] \in Nat /\ sent[c] \in Nat
      /\ taken[c] <= sent[c] /\ sent[c] <= Len(script[c])
      /\ Len(request[fd]) <= MAX_REQUEST_SIZE
    BY <1>1 DEF Inv, TypeOK
<1>3. taken[c] \in 0 .. Len(script[c])
    <2>1. Len(script[c]) \in Nat
        BY <1>2, LenProperties
    <2> QED BY <1>2, <2>1
<1>4. request[fd] = SubSeq(script[c], 1, taken[c])
    BY DEF BufferIsWhatWasSent
<1>5. Len(request[fd]) = taken[c]
    BY <1>2, <1>3, <1>4, TerminatorsOfBeginning
<1> QED BY <1>2, <1>3, <1>4, <1>5

\* accept() takes a connection that is not closed, with an empty buffer.
LEMMA AcceptAnswer ==
    ASSUME Inv, AnswerInv, Accept
    PROVE  AnswerInv'
<1> DEFINE fd == Min(Free)
           c == Head(backlog)
<1>1. fd \in Free
    BY FdsAssumption, MinOfNats DEF Accept, Free
<1>2. /\ c \in Conns /\ c \in Range(backlog)
      /\ Range(backlog') \subseteq Range(backlog) \ {c}
    BY BacklogTail DEF Accept, Inv
<1>3. /\ sock' = [sock EXCEPT ![fd] = c] /\ request' = [request EXCEPT ![fd] = <<>>]
      /\ pc = "accept" /\ pc' \in {"select", "scan"}
      /\ UNCHANGED <<script, peer, closed, answer>>
    BY DEF Accept, GetClient, Visit
<1> HIDE DEF fd, c
<1>4. ~ BeingServed /\ ~ BeingServed'
    BY <1>3 DEF BeingServed
<1>5. /\ \A gd \in Fds : sock'[gd] = IF gd = fd THEN c ELSE sock[gd]
      /\ \A gd \in Fds : request'[gd] = IF gd = fd THEN <<>> ELSE request[gd]
    BY <1>3 DEF Inv, TypeOK
<1>6. \A gd \in Open' : gd = fd \/ gd \in Open
    BY <1>5 DEF Open
<1>7. CompleteIsServed'
    BY <1>4, <1>5, <1>6, NothingYet DEF AnswerInv, CompleteIsServed, Open
<1>8. OpenIsNotClosed'
    <2>1. \A gd \in Open' : closed[sock'[gd]] = "no"
        BY <1>2, <1>5, <1>6 DEF AnswerInv, OpenIsNotClosed, Open
    <2> QED BY <1>2, <1>3, <2>1 DEF AnswerInv, OpenIsNotClosed
<1>9. AnsweredInTurn' /\ ServedIsOwed'
    BY <1>3, <1>4 DEF AnswerInv, AnsweredInTurn, ServedIsOwed
<1>10. ClosedIsOwed' /\ ExactRequestNotReset'
    BY <1>3 DEF AnswerInv, ClosedIsOwed, ExactRequestNotReset
<1> QED BY <1>7, <1>8, <1>9, <1>10 DEF AnswerInv

\* The service of the visited client begins with the whole of an answer it is
\* owed still to be sent.
LEMMA BeginAnswer ==
    ASSUME Inv, AnswerInv, pc = "scan", pc' = "send",
           UNCHANGED <<client, sock, backlog, script, peer, closed, answer>>,
           \A fd \in Fds \ {client} : request'[fd] = request[fd],
           Complete(request'[client]) \/ Len(request'[client]) = MAX_REQUEST_SIZE,
           sending' \in Owed(script[sock[client]])
    PROVE  AnswerInv'
<1> DEFINE c == sock[client]
<1>1. /\ client \in Open /\ c \in Conns /\ closed[c] = "no" /\ answer[c] = <<>>
      /\ ~ BeingServed
    BY ClientIsFresh
<1>2. BeingServed'
    BY DEF BeingServed
<1>3. CompleteIsServed'
    <2>1. \A fd \in Open : fd # client => ~ Complete(request'[fd])
        BY <1>1 DEF AnswerInv, CompleteIsServed, Open
    <2> QED BY <1>2, <2>1 DEF CompleteIsServed, Open
<1>4. OpenIsNotClosed' /\ ClosedIsOwed' /\ ExactRequestNotReset'
    BY DEF AnswerInv, OpenIsNotClosed, ClosedIsOwed, ExactRequestNotReset, Open
<1>5. AnsweredInTurn'
    BY <1>1, <1>2 DEF AnswerInv, AnsweredInTurn
<1>6. IsPrefix(<<>>, sending') /\ <<>> \o sending' = sending'
    BY PromiseType, NothingYet
<1>7. ServedIsOwed'
    BY <1>1, <1>2, <1>6 DEF ServedIsOwed, Open
<1> QED BY <1>3, <1>4, <1>5, <1>7 DEF AnswerInv

\* A full buffer without a terminator is owed a bad request.
LEMMA TooLongAnswer ==
    ASSUME Inv, BufferIsWhatWasSent, AnswerInv, TooLong
    PROVE  AnswerInv'
<1> DEFINE c == sock[client]
           k == taken[c]
<1>1. /\ pc = "scan" /\ pc' = "send" /\ Room(client) = 0 /\ sending' = BadRequest
      /\ UNCHANGED <<client, sock, request, backlog, script, peer, closed, answer>>
    BY DEF TooLong, network
<1>2. client \in Open /\ ~ Complete(request[client])
    BY <1>1, ClientIsFresh
<1>3. /\ script[c] \in Seq(STRING) /\ k \in 0 .. Len(script[c])
      /\ k = Len(request[client]) /\ request[client] = SubSeq(script[c], 1, k)
    BY <1>2, BufferFacts
<1>4. Len(request[client]) = MAX_REQUEST_SIZE
    <2>1. Len(request[client]) \in Nat
        BY <1>2, OpenIsConnected, LenProperties DEF Inv, TypeOK
    <2> QED BY <1>1, <2>1, SizeAssumption DEF Room
<1> HIDE DEF k
<1>5. BadRequest \in Owed(script[c])
    BY <1>2, <1>3, <1>4, BadRequestIsOwed
<1> QED BY <1>1, <1>4, <1>5, BeginAnswer

\* recv() completes the request, which is then answered as its script calls
\* for, or leaves it incomplete.
LEMMA ReceiveAnswer ==
    ASSUME Inv, BufferIsWhatWasSent, AnswerInv, Receive
    PROVE  AnswerInv'
<1> DEFINE c == sock[client]
           k == taken'[c]
           buf == request'[client]
<1>1. /\ pc = "scan" /\ Room(client) > 0
      /\ UNCHANGED <<sock, backlog, script, peer, closed, answer>>
    BY DEF Receive
<1>2. PICK i \in 1 .. Len(clients) : CursorAt(i)
    BY <1>1 DEF Inv, CursorInv
<1>3. \A fd \in Fds \ {client} : request'[fd] = request[fd]
    BY <1>1, <1>2, ReceiveTypes
<1>4. client \in Open /\ c \in Conns /\ ~ BeingServed
    BY <1>1, ClientIsFresh
<1>5. /\ script[c] \in Seq(STRING) /\ k \in 0 .. Len(script[c])
      /\ k <= MAX_REQUEST_SIZE /\ buf = SubSeq(script[c], 1, k)
    <2>1. Inv' /\ BufferIsWhatWasSent'
        BY ReceiveInv, ReceiveBuffer
    <2>2. client \in Open' /\ client \in Fds /\ UNCHANGED <<sock, script>>
        BY <1>1, <1>4 DEF Open
    <2>3. /\ script[c] \in Seq(STRING) /\ k \in Nat /\ sent'[c] \in Nat
          /\ k <= sent'[c] /\ sent'[c] <= Len(script[c])
          /\ Len(buf) <= MAX_REQUEST_SIZE
        BY <1>4, <2>1, <2>2 DEF Inv, TypeOK
    <2>4. k \in 0 .. Len(script[c])
        BY <2>3, LenProperties
    <2>5. buf = SubSeq(script[c], 1, k)
        BY <2>1, <2>2 DEF BufferIsWhatWasSent
    <2>6. k = Len(buf)
        BY <2>3, <2>4, <2>5, TerminatorsOfBeginning
    <2> QED BY <2>3, <2>4, <2>5, <2>6
<1>6. CASE Complete(buf)
    <2>1. pc' = "send" /\ client' = client /\ sending' = Response(buf, Free # {})
        BY <1>6 DEF Receive
    <2> HIDE DEF k, buf
    <2>2. Response(buf, Free # {}) \in Owed(script[c])
        BY <1>5, <1>6, ResponseIsOwed DEF Inv
    <2> QED BY <1>1, <1>3, <1>6, <2>1, <2>2, BeginAnswer DEF buf
<1>7. CASE ~ Complete(buf)
    <2>1. pc' \in {"select", "scan"}
        BY <1>7 DEF Receive, Visit
    <2>2. ~ BeingServed'
        BY <2>1 DEF BeingServed
    <2>3. CompleteIsServed'
        BY <1>1, <1>3, <1>4, <1>7 DEF AnswerInv, CompleteIsServed, Open
    <2>4. OpenIsNotClosed' /\ ClosedIsOwed' /\ ExactRequestNotReset'
        BY <1>1 DEF AnswerInv, OpenIsNotClosed, ClosedIsOwed, ExactRequestNotReset, Open
    <2>5. AnsweredInTurn' /\ ServedIsOwed'
        BY <1>1, <1>4, <2>2 DEF AnswerInv, AnsweredInTurn, ServedIsOwed
    <2> QED BY <2>3, <2>4, <2>5 DEF AnswerInv
<1> QED BY <1>6, <1>7

\* drop_client closes a connection that has got what it is owed or whose peer
\* has gone, without unread bytes if its request was exact.
LEMMA DropAnswer ==
    ASSUME Inv, AnswerInv, Drop, pc \in {"scan", "send"}, pc' \in {"select", "scan"},
           UNCHANGED <<request, backlog, script, peer, answer>>,
           NEW c, c = sock[client],
           \E whole \in Owed(script[c]) :
              /\ IsPrefix(answer[c], whole)
              /\ peer[c] \in {"fin", "reset"} \/ answer[c] = whole,
           Unread(c) > 0 /\ peer[c] # "reset" /\ Len(script[c]) <= MAX_REQUEST_SIZE
              => Terminators(script[c]) # {Len(script[c]) - 1}
    PROVE  AnswerInv'
<1>1. PICK i \in 1 .. Len(clients) : CursorAt(i)
    BY DEF Inv, CursorInv
<1>2. client \in Open /\ client \in Fds /\ c \in Conns
    BY <1>1, CursorIsOpen DEF Inv
<1>3. /\ Open' = Open \ {client} /\ Open \subseteq Fds
      /\ \A fd \in Fds : sock'[fd] = IF fd = client THEN NULL ELSE sock[fd]
    BY <1>1, DropFacts DEF Inv, Open
<1>4. \A d \in Conns : closed'[d] =
          IF d = c THEN IF Unread(c) > 0 THEN "rst" ELSE "fin" ELSE closed[d]
    BY DEF Drop, Inv, TypeOK
<1>5. ~ BeingServed'
    BY DEF BeingServed
<1>6. CompleteIsServed'
    <2>1. \A fd \in Open : fd # client => ~ Complete(request[fd])
        BY DEF AnswerInv, CompleteIsServed
    <2> QED BY <1>3, <2>1 DEF CompleteIsServed
<1>7. OpenIsNotClosed'
    <2>1. \A fd \in Open' : sock'[fd] = sock[fd] /\ sock[fd] \in Conns /\ sock[fd] # c
        BY <1>2, <1>3, OpenIsConnected DEF Inv, ListIsOpenDescriptors
    <2>2. \A fd \in Open' : closed'[sock'[fd]] = "no"
        BY <1>3, <1>4, <2>1 DEF AnswerInv, OpenIsNotClosed
    <2>3. \A d \in Range(backlog) : d \in Conns /\ d # c
        BY <1>2, RangeOfBacklog DEF Inv, BacklogIsFresh
    <2>4. peer[c] # "new"
        BY <1>2 DEF Inv, BacklogIsFresh
    <2> QED BY <1>4, <2>2, <2>3, <2>4 DEF AnswerInv, OpenIsNotClosed
<1>8. AnsweredInTurn'
    BY <1>4 DEF AnswerInv, AnsweredInTurn
<1>9. ServedIsOwed'
    BY <1>5 DEF ServedIsOwed
<1>10. ClosedIsOwed'
    BY <1>4 DEF AnswerInv, ClosedIsOwed
<1>11. ExactRequestNotReset'
    BY <1>4 DEF AnswerInv, ExactRequestNotReset
<1> QED BY <1>6, <1>7, <1>8, <1>9, <1>10, <1>11 DEF AnswerInv

\* recv() tells the end of a peer: nothing has been sent, and what is left
\* unread is that of a peer that has reset.
LEMMA DisconnectAnswer ==
    ASSUME Inv, BufferIsWhatWasSent, AnswerInv, Disconnect
    PROVE  AnswerInv'
<1> DEFINE c == sock[client]
<1>1. /\ pc = "scan" /\ Drop /\ pc' \in {"select", "scan"}
      /\ (peer[c] = "fin" /\ Unread(c) = 0) \/ peer[c] = "reset"
      /\ UNCHANGED <<request, backlog, script, peer, answer>>
    BY DropGoesOn DEF Disconnect
<1>2. client \in Open /\ answer[c] = <<>>
    BY <1>1, ClientIsFresh
<1>3. PICK whole : whole \in Owed(script[c])
    BY DEF Owed, Scarcity
<1>4. IsPrefix(answer[c], whole)
    BY <1>2, <1>3, PromiseType, NothingYet
<1>5. ~ (Unread(c) > 0 /\ peer[c] # "reset")
    BY <1>1
<1> QED BY <1>1, <1>3, <1>4, <1>5, DropAnswer

\* Each send() moves one segment from what is left to what has been sent.
LEMMA SendAnswer ==
    ASSUME Inv, AnswerInv, Send
    PROVE  AnswerInv'
<1> DEFINE c == sock[client]
           a == Append(answer[c], Head(sending))
<1>1. /\ pc = "send" /\ sending # <<>> /\ peer[c] # "reset"
      /\ answer' = [answer EXCEPT ![c] = a] /\ sending' = Tail(sending)
      /\ UNCHANGED <<pc, sock, request, client, backlog, script, peer, closed>>
    BY DEF Send
<1>2. BeingServed /\ BeingServed'
    BY <1>1 DEF BeingServed
<1>3. client \in Open /\ c \in Conns /\ closed[c] = "no"
    BY <1>2, OpenIsConnected DEF AnswerInv, ServedIsOwed, OpenIsNotClosed
<1>4. PICK whole \in Owed(script[c]) : answer[c] \o sending = whole
    BY <1>1, <1>2 DEF AnswerInv, ServedIsOwed
<1>5. answer[c] \in Seq(Segments) /\ sending \in Seq(Segments)
    BY <1>3 DEF Inv, TypeOK
<1>6. a \in Seq(Segments) /\ sending' \in Seq(Segments) /\ a \o sending' = whole
    <2> DEFINE s == answer[c]
    <2>1. s \in Seq(Segments) /\ s \o sending = whole /\ a = Append(s, Head(sending))
        BY <1>4, <1>5
    <2> HIDE DEF s, a
    <2>2. /\ Append(s, Head(sending)) \in Seq(Segments) /\ Tail(sending) \in Seq(Segments)
          /\ Append(s, Head(sending)) \o Tail(sending) = s \o sending
        BY <1>1, <1>5, <2>1, MoveOne
    <2> QED BY <1>1, <2>1, <2>2
<1> HIDE DEF a
<1>7. IsPrefix(a, whole)
    BY <1>6, PartIsPrefix
<1>8. \A d \in Conns : answer'[d] = IF d = c THEN a ELSE answer[d]
    BY <1>1 DEF Inv, TypeOK
<1>9. CompleteIsServed' /\ OpenIsNotClosed' /\ ExactRequestNotReset'
    BY <1>1, <1>2 DEF AnswerInv, CompleteIsServed, OpenIsNotClosed,
       ExactRequestNotReset, Open
<1>10. AnsweredInTurn'
    BY <1>1, <1>2, <1>8 DEF AnswerInv, AnsweredInTurn
<1>11. ServedIsOwed'
    BY <1>1, <1>2, <1>3, <1>6, <1>7, <1>8 DEF AnswerInv, ServedIsOwed, Open
<1>12. ClosedIsOwed'
    BY <1>1, <1>3, <1>8 DEF AnswerInv, ClosedIsOwed
<1> QED BY <1>9, <1>10, <1>11, <1>12 DEF AnswerInv

\* What send() loses is lost to a peer that has reset.
LEMMA SendIgnoredAnswer ==
    ASSUME Inv, AnswerInv, SendIgnored
    PROVE  AnswerInv'
<1>1. /\ pc = "send" /\ peer[sock[client]] = "reset"
      /\ UNCHANGED <<pc, sock, request, client, backlog, script, peer, closed, answer>>
    BY DEF SendIgnored, network
<1>2. BeingServed /\ BeingServed'
    BY <1>1 DEF BeingServed
<1>3. CompleteIsServed' /\ OpenIsNotClosed' /\ ExactRequestNotReset' /\ ClosedIsOwed'
    BY <1>1, <1>2 DEF AnswerInv, CompleteIsServed, OpenIsNotClosed,
       ExactRequestNotReset, ClosedIsOwed, Open
<1>4. AnsweredInTurn' /\ ServedIsOwed'
    BY <1>1, <1>2 DEF AnswerInv, AnsweredInTurn, ServedIsOwed, Open
<1> QED BY <1>3, <1>4 DEF AnswerInv

\* An exact request has been read to its end when it is answered.
LEMMA ExactIsRead ==
    ASSUME Inv, BufferIsWhatWasSent, NEW fd \in Open, NEW c, c = sock[fd],
           Complete(request[fd]) \/ Len(request[fd]) = MAX_REQUEST_SIZE,
           Terminators(script[c]) = {Len(script[c]) - 1},
           Len(script[c]) <= MAX_REQUEST_SIZE
    PROVE  ~ (Unread(c) > 0)
<1> DEFINE k == taken[c]
<1>1. /\ script[c] \in Seq(STRING) /\ k \in 0 .. Len(script[c])
      /\ k = Len(request[fd]) /\ request[fd] = SubSeq(script[c], 1, k)
    BY BufferFacts
<1>2. c \in Conns
    BY OpenIsConnected
<1>3. sent[c] \in Nat /\ sent[c] <= Len(script[c]) /\ Len(script[c]) \in Nat /\ k \in Nat
    BY <1>1, <1>2, LenProperties DEF Inv, TypeOK
<1>4. k >= Len(script[c])
    <2>1. CASE Len(request[fd]) = MAX_REQUEST_SIZE
        BY <1>1, <1>3, <2>1, SizeAssumption
    <2>2. CASE Complete(request[fd])
        <3> DEFINE r == script[c]
                   buf == request[fd]
        <3>0. r \in Seq(STRING) /\ k \in 0 .. Len(r) /\ buf = SubSeq(r, 1, k)
            BY <1>1
        <3> HIDE DEF r, buf, k
        <3>1. Terminators(buf) = {i \in Terminators(r) : i + 1 <= k}
            BY <3>0, TerminatorsOfBeginning
        <3>2. PICK i \in Terminators(script[c]) : i + 1 <= k
            BY <2>2, <3>1 DEF Complete, r, buf
        <3>3. i = Len(script[c]) - 1
            BY <3>2
        <3> QED BY <1>3, <3>2, <3>3
    <2> QED BY <2>1, <2>2
<1> QED BY <1>3, <1>4 DEF Unread

\* After the last send() the connection is closed with its whole answer.
LEMMA FinishAnswer ==
    ASSUME Inv, BufferIsWhatWasSent, AnswerInv, Finish
    PROVE  AnswerInv'
<1> DEFINE c == sock[client]
<1>1. /\ pc = "send" /\ sending = <<>> /\ Drop /\ pc' \in {"select", "scan"}
      /\ UNCHANGED <<request, backlog, script, peer, answer>>
    BY DropGoesOn DEF Finish
<1>2. /\ client \in Open
      /\ Complete(request[client]) \/ Len(request[client]) = MAX_REQUEST_SIZE
      /\ \E whole \in Owed(script[c]) :
            /\ IsPrefix(answer[c], whole)
            /\ peer[c] = "reset" \/ answer[c] \o sending = whole
    BY <1>1 DEF AnswerInv, ServedIsOwed, BeingServed
<1>3. answer[c] \in Seq(Segments)
    BY <1>2, OpenIsConnected DEF Inv, TypeOK
<1>4. answer[c] \o sending = answer[c]
    BY <1>1, <1>3, NothingYet
<1>5. \E whole \in Owed(script[c]) :
          /\ IsPrefix(answer[c], whole)
          /\ peer[c] \in {"fin", "reset"} \/ answer[c] = whole
    BY <1>2, <1>4
<1>6. Unread(c) > 0 /\ Len(script[c]) <= MAX_REQUEST_SIZE
          => Terminators(script[c]) # {Len(script[c]) - 1}
    BY <1>2, ExactIsRead
<1> QED BY <1>1, <1>5, <1>6, DropAnswer

\* A new connection has no answer and no descriptor yet.
LEMMA ConnectAnswer ==
    ASSUME Inv, AnswerInv, NEW c \in Conns, NEW r \in Requests, Connect(c, r)
    PROVE  AnswerInv'
<1>1. /\ peer[c] = "new" /\ backlog' = Append(backlog, c)
      /\ script' = [script EXCEPT ![c] = r] /\ peer' = [peer EXCEPT ![c] = "open"]
      /\ UNCHANGED <<pc, sock, request, client, sending, closed, answer>>
    BY DEF Connect, process
<1>2. closed[c] = "no" /\ \A fd \in Open : sock[fd] # c /\ sock[fd] \in Conns
    BY <1>1, OpenIsConnected DEF AnswerInv, OpenIsNotClosed
<1>3. /\ \A d \in Conns : d # c => script'[d] = script[d] /\ peer'[d] = peer[d]
      /\ peer'[c] = "open"
    BY <1>1 DEF Inv, TypeOK
<1>4. Range(backlog') = Range(backlog) \cup {c}
    <2>1. c \notin Range(backlog)
        BY <1>1 DEF Inv, BacklogIsFresh
    <2> QED BY <1>1, <2>1, EnqueueFacts DEF Inv, TypeOK, BacklogIsFresh
<1>5. BeingServed' = BeingServed
    BY <1>1 DEF BeingServed
<1>6. CompleteIsServed'
    BY <1>1, <1>5 DEF AnswerInv, CompleteIsServed, Open
<1>7. OpenIsNotClosed'
    BY <1>1, <1>2, <1>3, <1>4 DEF AnswerInv, OpenIsNotClosed, Open
<1>8. AnsweredInTurn'
    BY <1>1, <1>5 DEF AnswerInv, AnsweredInTurn
<1>9. ServedIsOwed'
    <2> SUFFICES ASSUME BeingServed PROVE ServedIsOwed'
        BY <1>5 DEF ServedIsOwed
    <2>1. client \in Open
        BY DEF AnswerInv, ServedIsOwed
    <2>2. script'[sock[client]] = script[sock[client]] /\ peer'[sock[client]] = peer[sock[client]]
        BY <1>2, <1>3, <2>1
    <2> QED BY <1>1, <2>1, <2>2 DEF AnswerInv, ServedIsOwed, Open
<1>10. ClosedIsOwed' /\ ExactRequestNotReset'
    BY <1>1, <1>2, <1>3 DEF AnswerInv, ClosedIsOwed, ExactRequestNotReset
<1> QED BY <1>6, <1>7, <1>8, <1>9, <1>10 DEF AnswerInv

\* A peer that has reset stays so, and only a reset comes to a closed connection.
LEMMA LeaveAnswer ==
    ASSUME Inv, AnswerInv, NEW c \in Conns, Shutdown(c) \/ Reset(c) \/ LoseAnswer(c)
    PROVE  AnswerInv'
<1>1. /\ peer[c] \notin {"new", "reset"}
      /\ UNCHANGED <<pc, sock, request, client, sending, backlog, script, closed, answer>>
    BY DEF Shutdown, Reset, LoseAnswer, process
<1>2. /\ \A d \in Conns : d # c => peer'[d] = peer[d]
      /\ peer'[c] # "new"
      /\ closed[c] = "no" \/ peer'[c] = "reset"
    BY DEF Shutdown, Reset, LoseAnswer, Inv, TypeOK
<1>3. BeingServed' = BeingServed
    BY <1>1 DEF BeingServed
<1>4. CompleteIsServed' /\ OpenIsNotClosed' /\ AnsweredInTurn'
    BY <1>1, <1>2, <1>3 DEF AnswerInv, CompleteIsServed, OpenIsNotClosed,
       AnsweredInTurn, Open
<1>5. ServedIsOwed'
    <2> SUFFICES ASSUME BeingServed PROVE ServedIsOwed'
        BY <1>3 DEF ServedIsOwed
    <2>1. client \in Open /\ sock[client] \in Conns
        BY OpenIsConnected DEF AnswerInv, ServedIsOwed
    <2>2. peer[sock[client]] = "reset" => peer'[sock[client]] = "reset"
        BY <1>1, <1>2, <2>1
    <2> QED BY <1>1, <2>1, <2>2 DEF AnswerInv, ServedIsOwed, Open
<1>6. ClosedIsOwed' /\ ExactRequestNotReset'
    BY <1>1, <1>2 DEF AnswerInv, ClosedIsOwed, ExactRequestNotReset
<1> QED BY <1>4, <1>5, <1>6 DEF AnswerInv

-----------------------------------------------------------------------------
\* Every step of the server and of its peers keeps it.
LEMMA NextAnswer ==
    ASSUME Inv, BufferIsWhatWasSent, AnswerInv, [Next]_vars
    PROVE  AnswerInv'
<1>1. CASE UNCHANGED vars
    BY <1>1, QuietAnswer DEF vars, process, network, BeingServed
<1>2. CASE \/ WaitOnClients \/ SelectFails \/ NothingToAccept \/ AcceptFails \/ NotReady
    <2>1. /\ pc \in {"select", "accept", "scan"}
          /\ pc' \in {"select", "accept", "scan", "exited"}
          /\ UNCHANGED <<sock, request, network>>
        BY <1>2 DEF WaitOnClients, SelectFails, NothingToAccept, AcceptFails,
           NotReady, Exit, Visit
    <2> QED BY <2>1, QuietAnswer DEF network, BeingServed
<1>3. CASE SendKilled
    BY <1>3, QuietAnswer DEF SendKilled, network, BeingServed
<1>4. CASE Accept BY <1>4, AcceptAnswer
<1>5. CASE TooLong BY <1>5, TooLongAnswer
<1>6. CASE Receive BY <1>6, ReceiveAnswer
<1>7. CASE Disconnect BY <1>7, DisconnectAnswer
<1>8. CASE Send BY <1>8, SendAnswer
<1>9. CASE SendIgnored BY <1>9, SendIgnoredAnswer
<1>10. CASE Finish BY <1>10, FinishAnswer
<1>11. ASSUME NEW c \in Conns, Peer(c) PROVE AnswerInv'
    <2>1. CASE SendMore(c) \/ Read(c)
        BY <2>1, QuietAnswer DEF SendMore, Read, process, BeingServed
    <2>2. CASE Shutdown(c) \/ Reset(c) \/ LoseAnswer(c)
        BY <2>2, LeaveAnswer
    <2>3. CASE \E r \in Requests : Connect(c, r)
        BY <2>3, ConnectAnswer
    <2> QED BY <1>11, <2>1, <2>2, <2>3 DEF Peer
<1> QED BY <1>1, <1>2, <1>3, <1>4, <1>5, <1>6, <1>7, <1>8, <1>9, <1>10, <1>11
        DEF Next, Server, Serve

\* The invariant of the answers is one.
LEMMA SpecAnswer == Spec => []AnswerInv
<1>1. Init => AnswerInv
    BY InitAnswer
<1>2. Inv /\ BufferIsWhatWasSent /\ AnswerInv /\ [Next]_vars => AnswerInv'
    BY NextAnswer
<1> QED BY <1>1, <1>2, SpecInv, BufferCorrect, PTL DEF Spec

\* No complete request waits in a buffer while the server waits in select():
\* no event would answer it any more.
THEOREM NoCompleteRequestIdle == Spec => []CompleteNeverIdle
<1>1. AnswerInv => CompleteNeverIdle
    BY DEF AnswerInv, CompleteIsServed, BeingServed, CompleteNeverIdle
<1> QED BY <1>1, SpecAnswer, PTL

\* An owed answer is the promise with or without a descriptor for fopen.
LEMMA OwedIsPromise ==
    ASSUME NEW r, NEW whole \in Owed(r)
    PROVE  \/ whole = Promise(r, TRUE)
           \/ /\ Cardinality(Conns) >= Cardinality(Fds)
              /\ whole = Promise(r, FALSE)
<1>1. PICK canOpen \in Scarcity : whole = Promise(r, canOpen)
    BY Zenon DEF Owed
<1>2. CASE Cardinality(Conns) >= Cardinality(Fds)
    <2>1. canOpen = TRUE \/ canOpen = FALSE
        BY <1>2 DEF Scarcity
    <2> QED BY <1>1, <1>2, <2>1, Zenon
<1>3. CASE ~ (Cardinality(Conns) >= Cardinality(Fds))
    <2>1. canOpen = TRUE
        BY <1>3 DEF Scarcity
    <2> QED BY <1>1, <2>1, Zenon
<1> QED BY <1>2, <1>3

\* Whatever a peer has been sent begins the answer its whole script calls for,
\* however the script was split and whatever the others do.
THEOREM AnswersArePromised == Spec => []AnswerIsPromise
<1>1. Inv /\ AnswerInv => AnswerIsPromise
    <2> SUFFICES ASSUME Inv, AnswerInv, NEW c \in Conns
                 PROVE  \E whole \in Owed(script[c]) : IsPrefix(answer[c], whole)
        BY OwedIsPromise, Zenon DEF AnswerIsPromise
    <2>1. CASE answer[c] = <<>>
        <3>1. PICK whole : whole \in Owed(script[c])
            BY DEF Owed, Scarcity
        <3> QED BY <2>1, <3>1, PromiseType, NothingYet
    <2>2. CASE closed[c] # "no"
        BY <2>2 DEF AnswerInv, ClosedIsOwed
    <2>3. CASE BeingServed /\ c = sock[client]
        BY <2>3 DEF AnswerInv, ServedIsOwed
    <2> QED BY <2>1, <2>2, <2>3 DEF AnswerInv, AnsweredInTurn
<1> QED BY <1>1, SpecInv, SpecAnswer, PTL

\* A peer that is still there when the server closes has been sent everything.
THEOREM ClosedAfterAnswer == Spec => []ClosedIsAnswered
<1>1. AnswerInv => ClosedIsAnswered
    <2> SUFFICES ASSUME AnswerInv, NEW c \in Conns, closed[c] # "no", peer[c] = "open"
                 PROVE  answer[c] \in {Promise(script[c], TRUE), Promise(script[c], FALSE)}
        BY DEF ClosedIsAnswered
    <2>1. answer[c] \in Owed(script[c])
        BY DEF AnswerInv, ClosedIsOwed
    <2> QED BY <2>1, OwedIsPromise
<1> QED BY <1>1, SpecAnswer, PTL

\* A request that ends with its first terminator is read whole before the close.
THEOREM ExactRequestsClosed == Spec => []ExactRequestNotReset
<1>1. AnswerInv => ExactRequestNotReset
    BY DEF AnswerInv
<1> QED BY <1>1, SpecAnswer, PTL

-----------------------------------------------------------------------------
(* The server implements the service. *)

\* The abstract variables, as functions of the state.
Statuses == [c \in Conns |-> StatusOf(c)]
Gone == {c \in Conns : peer[c] \in {"fin", "reset"}}

\* The status of a connection, case by case.
LEMMA StatusFacts ==
    ASSUME AnswerInv, NEW c \in Conns
    PROVE  /\ peer[c] = "new" => Statuses[c] = "none"
           /\ closed[c] # "no" => Statuses[c] = "closed"
           /\ peer[c] # "new" /\ closed[c] = "no" =>
                Statuses[c] = IF BeingServed /\ sock[client] = c
                              THEN "served" ELSE "waiting"
<1>1. peer[c] = "new" => closed[c] = "no"
    BY DEF AnswerInv, OpenIsNotClosed
<1>2. CASE peer[c] = "new"
    BY <1>1, <1>2 DEF Statuses, StatusOf
<1>3. CASE closed[c] # "no"
    BY <1>1, <1>3 DEF Statuses, StatusOf
<1>4. CASE peer[c] # "new" /\ closed[c] = "no"
    BY <1>4 DEF Statuses, StatusOf, BeingServed
<1> QED BY <1>1, <1>2, <1>3, <1>4

\* Steps that change neither peers nor closings nor who is being served.
LEMMA SameStatuses ==
    ASSUME UNCHANGED <<peer, closed>>, BeingServed' = BeingServed,
           BeingServed => sock'[client'] = sock[client]
    PROVE  Statuses' = Statuses /\ Gone' = Gone
<1>1. ASSUME NEW c \in Conns PROVE StatusOf(c)' = StatusOf(c)
    BY DEF StatusOf, BeingServed
<1> QED BY <1>1 DEF Statuses, Gone

\* Initial states are initial states of the service.
LEMMA InitRefines == Init => Abstract!SInit
<1> SUFFICES ASSUME Init PROVE Abstract!SInit
    OBVIOUS
<1>1. Statuses = [c \in Conns |-> "none"]
    BY DEF Init, Statuses, StatusOf
<1>2. Gone = {}
    BY DEF Init, Gone
<1> QED BY <1>1, <1>2 DEF Init, Abstract!SInit, Statuses, Gone, Up

\* Picking an answer begins the service.
LEMMA BeginRefines ==
    ASSUME Inv, AnswerInv, pc = "scan", pc' = "send",
           UNCHANGED <<client, sock, script, peer, closed, answer>>
    PROVE  \E c \in Conns : Abstract!Begin(c)
<1> DEFINE c == sock[client]
<1>1. /\ client \in Open /\ c \in Conns /\ closed[c] = "no" /\ ~ BeingServed
      /\ peer[c] # "new"
    BY ClientIsFresh, OpenIsConnected
<1>2. BeingServed' /\ Up /\ Up'
    BY DEF BeingServed, Up
<1>3. Statuses[c] = "waiting" /\ \A d \in Conns : Statuses[d] # "served"
    BY <1>1, StatusFacts
<1>4. Gone' = Gone
    BY DEF Gone
<1>5. Statuses' = [Statuses EXCEPT ![c] = "served"]
    <2>1. ASSUME NEW d \in Conns
          PROVE  StatusOf(d)' = IF d = c THEN "served" ELSE StatusOf(d)
        BY <1>1, <1>2 DEF StatusOf, BeingServed
    <2> QED BY <1>1, <2>1 DEF Statuses
<1> HIDE DEF c
<1>6. Abstract!Begin(c)
    BY <1>1, <1>2, <1>3, <1>4, <1>5 DEF Abstract!Begin, Statuses, Gone
<1> QED BY <1>1, <1>6

\* Each segment that send() copies is told: the next one of an owed answer.
LEMMA SendRefines ==
    ASSUME Inv, AnswerInv, Send
    PROVE  \E c \in Conns : Abstract!Tell(c)
<1> DEFINE c == sock[client]
<1>1. /\ pc = "send" /\ sending # <<>> /\ peer[c] # "reset"
      /\ answer' = [answer EXCEPT ![c] = Append(answer[c], Head(sending))]
      /\ UNCHANGED <<pc, sock, client, script, peer, closed>>
    BY DEF Send
<1>2. BeingServed /\ BeingServed' /\ Up /\ Up'
    BY <1>1 DEF BeingServed, Up
<1>3. client \in Open /\ c \in Conns /\ closed[c] = "no" /\ peer[c] # "new"
    BY <1>2, OpenIsConnected DEF AnswerInv, ServedIsOwed, OpenIsNotClosed
<1>4. PICK whole \in Owed(script[c]) :
          IsPrefix(answer[c], whole) /\ answer[c] \o sending = whole
    BY <1>1, <1>2 DEF AnswerInv, ServedIsOwed
<1>5. answer[c] \in Seq(Segments) /\ sending \in Seq(Segments)
    BY <1>3 DEF Inv, TypeOK
<1>6. answer[c] # whole /\ Head(sending) = whole[Len(answer[c]) + 1]
    <2> DEFINE s == answer[c]
    <2>1. s \in Seq(Segments)
        BY <1>5
    <2> HIDE DEF s
    <2>2. /\ Len(s) \in Nat /\ Len(sending) \in Nat \ {0}
          /\ Head(sending) = sending[1]
        BY <1>1, <1>5, <2>1, LenProperties, EmptySeq, HeadTailProperties
    <2>3. /\ Len(s \o sending) = Len(s) + Len(sending)
          /\ \A i \in 1 .. Len(s) + Len(sending) :
                (s \o sending)[i] = IF i <= Len(s) THEN s[i] ELSE sending[i - Len(s)]
        BY <1>5, <2>1, ConcatProperties
    <2>4. Len(s) + 1 \in 1 .. Len(s) + Len(sending) /\ ~ (Len(s) + 1 <= Len(s))
          /\ Len(s) + 1 - Len(s) = 1 /\ Len(s) + Len(sending) # Len(s)
        BY <2>2
    <2>5. (s \o sending)[Len(s) + 1] = sending[1] /\ s \o sending # s
        BY <2>3, <2>4
    <2> QED BY <1>4, <2>2, <2>5 DEF s
<1>7. whole \in Abstract!Owed(script[c])
    BY <1>4, AbstractOwed
<1>8. Statuses[c] = "served"
    BY <1>2, <1>3, StatusFacts
<1>9. Statuses' = Statuses /\ Gone' = Gone
    BY <1>1, <1>2, SameStatuses
<1> HIDE DEF c
<1>10. Abstract!IsStrictPrefix(answer[c], whole)
    BY <1>4, <1>6 DEF Abstract!IsStrictPrefix, Abstract!IsPrefix, IsPrefix
<1>11. Abstract!Tell(c)
    BY <1>1, <1>2, <1>3, <1>6, <1>7, <1>8, <1>9, <1>10 DEF Abstract!Tell, Statuses, Gone
<1> QED BY <1>3, <1>11

\* close() of a connection that has got what it is owed, or whose peer has gone.
LEMMA DropRefines ==
    ASSUME Inv, AnswerInv, Drop, pc \in {"scan", "send"}, pc' \in {"select", "scan"},
           UNCHANGED <<script, peer, answer>>,
           NEW c, c = sock[client],
           \/ BeingServed /\ answer[c] \in Owed(script[c])
           \/ c \in Gone
    PROVE  \E d \in Conns : Abstract!Close(d)
<1>1. PICK i \in 1 .. Len(clients) : CursorAt(i)
    BY DEF Inv, CursorInv
<1>2. client \in Open /\ c \in Conns /\ closed[c] = "no" /\ peer[c] # "new"
    BY <1>1, CursorIsOpen, OpenIsConnected DEF Inv, AnswerInv, OpenIsNotClosed
<1>3. \A d \in Conns : closed'[d] =
          IF d = c THEN IF Unread(c) > 0 THEN "rst" ELSE "fin" ELSE closed[d]
    BY DEF Drop, Inv, TypeOK
<1>4. Statuses[c] = IF BeingServed THEN "served" ELSE "waiting"
    BY <1>2, StatusFacts
<1>5. ~ BeingServed' /\ Up /\ Up' /\ Gone' = Gone
    BY DEF BeingServed, Up, Gone
<1>6. Statuses' = [Statuses EXCEPT ![c] = "closed"]
    <2>1. ASSUME NEW d \in Conns
          PROVE  StatusOf(d)' = IF d = c THEN "closed" ELSE StatusOf(d)
        BY <1>2, <1>3, <1>5 DEF StatusOf, BeingServed
    <2> QED BY <1>2, <2>1 DEF Statuses
<1>7. Abstract!Close(c)
    BY <1>2, <1>4, <1>5, <1>6, AbstractOwed DEF Abstract!Close, Statuses, Gone
<1> QED BY <1>2, <1>7

\* What a peer does is a step of the service, or nothing it can see.
LEMMA PeerRefines ==
    ASSUME Inv, AnswerInv, NEW c \in Conns, Peer(c)
    PROVE  \/ UNCHANGED Abstract!svars
           \/ (\E r \in Requests : Abstract!Come(c, r)) \/ Abstract!Go(c)
<1>1. Up /\ Up' /\ UNCHANGED process
    BY DEF Peer, Connect, SendMore, Shutdown, Reset, Read, LoseAnswer, process, Up
<1>2. UNCHANGED <<closed, answer>> /\ BeingServed' = BeingServed
      /\ sock'[client'] = sock[client]
    BY <1>1 DEF Peer, Connect, SendMore, Shutdown, Reset, Read, LoseAnswer, process,
       BeingServed
<1>3. BeingServed => sock[client] \in Conns /\ peer[sock[client]] # "new"
    BY OpenIsConnected DEF AnswerInv, ServedIsOwed
<1>4. ASSUME NEW r \in Requests, Connect(c, r)
      PROVE  Abstract!Come(c, r)
    <2>1. /\ peer[c] = "new" /\ script' = [script EXCEPT ![c] = r]
          /\ peer' = [peer EXCEPT ![c] = "open"]
        BY <1>4 DEF Connect
    <2>2. closed[c] = "no" /\ Statuses[c] = "none"
        BY <2>1, StatusFacts DEF AnswerInv, OpenIsNotClosed
    <2>3. \A d \in Conns : peer'[d] = IF d = c THEN "open" ELSE peer[d]
        BY <2>1 DEF Inv, TypeOK
    <2>4. Gone' = Gone
        BY <2>1, <2>3 DEF Gone
    <2>5. Statuses' = [Statuses EXCEPT ![c] = "waiting"]
        <3>1. ASSUME NEW d \in Conns
              PROVE  StatusOf(d)' = IF d = c THEN "waiting" ELSE StatusOf(d)
            BY <1>2, <1>3, <2>1, <2>2, <2>3 DEF StatusOf, BeingServed
        <3> QED BY <3>1 DEF Statuses
    <2> QED BY <1>1, <1>2, <2>1, <2>2, <2>4, <2>5 DEF Abstract!Come, Statuses, Gone
<1>5. CASE SendMore(c) \/ Read(c)
    <2>1. UNCHANGED <<peer, script>>
        BY <1>5 DEF SendMore, Read
    <2>2. Statuses' = Statuses /\ Gone' = Gone
        BY <1>2, <2>1, SameStatuses
    <2> QED BY <1>1, <1>2, <2>1, <2>2 DEF Abstract!svars, Statuses, Gone
<1>6. CASE Shutdown(c) \/ Reset(c) \/ LoseAnswer(c)
    <2>1. /\ peer[c] \in {"open", "fin"} /\ UNCHANGED script
          /\ \A d \in Conns : d # c => peer'[d] = peer[d]
          /\ peer'[c] \in {"fin", "reset"}
        BY <1>6 DEF Shutdown, Reset, LoseAnswer, Inv, TypeOK
    <2>2. Statuses' = Statuses
        <3>1. ASSUME NEW d \in Conns PROVE StatusOf(d)' = StatusOf(d)
            BY <1>2, <2>1 DEF StatusOf, BeingServed
        <3> QED BY <3>1 DEF Statuses
    <2>3. Gone' = Gone \cup {c}
        BY <2>1 DEF Gone
    <2>4. Statuses[c] # "none"
        BY <2>1, StatusFacts
    <2>5. CASE c \in Gone
        BY <1>1, <1>2, <2>1, <2>2, <2>3, <2>5 DEF Abstract!svars, Statuses, Gone
    <2>6. CASE c \notin Gone
        <3>1. Abstract!Go(c)
            BY <1>1, <1>2, <2>1, <2>2, <2>3, <2>4, <2>6 DEF Abstract!Go, Statuses, Gone
        <3> QED BY <3>1
    <2> QED BY <2>5, <2>6
<1> QED BY <1>4, <1>5, <1>6 DEF Peer

\* Every step of the server and of its peers is a step of the service or a
\* stutter.
LEMMA NextRefines ==
    ASSUME Inv, BufferIsWhatWasSent, AnswerInv, [Next]_vars
    PROVE  [Abstract!SNext]_Abstract!svars
<1>1. ASSUME UNCHANGED <<script, peer, closed, answer>>, Up' = Up,
             BeingServed' = BeingServed, BeingServed => sock'[client'] = sock[client]
      PROVE  UNCHANGED Abstract!svars
    BY <1>1, SameStatuses DEF Abstract!svars, Statuses, Gone
<1>2. CASE UNCHANGED vars
    BY <1>1, <1>2 DEF vars, process, network, Up, BeingServed
<1>3. CASE WaitOnClients \/ NothingToAccept \/ NotReady \/ Accept
    <2>1. /\ pc \in {"select", "accept", "scan"} /\ pc' \in {"select", "accept", "scan"}
          /\ UNCHANGED <<script, peer, closed, answer>>
        BY <1>3 DEF WaitOnClients, NothingToAccept, NotReady, Accept, Visit, network
    <2> QED BY <1>1, <2>1 DEF Up, BeingServed
<1>4. CASE SendIgnored
    BY <1>1, <1>4 DEF SendIgnored, network, Up, BeingServed
<1>5. CASE SelectFails \/ AcceptFails \/ SendKilled
    <2>1. /\ Up /\ ~ Up' /\ UNCHANGED <<script, peer, closed, answer>>
          /\ BeingServed' = BeingServed /\ sock'[client'] = sock[client]
        BY <1>5 DEF SelectFails, AcceptFails, SendKilled, Exit, network, Up, BeingServed
    <2>2. Statuses' = Statuses /\ Gone' = Gone
        BY <2>1, SameStatuses
    <2>3. Up = TRUE /\ Up' = FALSE
        BY <2>1 DEF Up
    <2>4. Abstract!Stop
        BY <2>1, <2>2, <2>3 DEF Abstract!Stop, Statuses, Gone
    <2> QED BY <2>4 DEF Abstract!SNext
<1>6. CASE TooLong
    <2>1. \E c \in Conns : Abstract!Begin(c)
        BY <1>6, BeginRefines DEF TooLong, network
    <2> QED BY <2>1 DEF Abstract!SNext
<1>7. CASE Receive
    <2>1. pc = "scan" /\ UNCHANGED <<sock, script, peer, closed, answer>>
        BY <1>7 DEF Receive
    <2>2. CASE Complete(request'[client])
        <3>1. pc' = "send" /\ client' = client
            BY <1>7, <2>2 DEF Receive
        <3>2. \E c \in Conns : Abstract!Begin(c)
            BY <2>1, <3>1, BeginRefines
        <3> QED BY <3>2 DEF Abstract!SNext
    <2>3. CASE ~ Complete(request'[client])
        <3>1. pc' \in {"select", "scan"}
            BY <1>7, <2>3 DEF Receive, Visit
        <3> QED BY <1>1, <2>1, <3>1 DEF Up, BeingServed
    <2> QED BY <2>2, <2>3
<1>8. CASE Disconnect
    <2> DEFINE c == sock[client]
    <2>1. /\ Drop /\ pc = "scan" /\ pc' \in {"select", "scan"}
          /\ UNCHANGED <<script, peer, answer>> /\ peer[c] \in {"fin", "reset"}
        BY <1>8, DropGoesOn DEF Disconnect
    <2>2. c \in Gone
        BY <2>1, ClientIsFresh DEF Gone
    <2>3. \E d \in Conns : Abstract!Close(d)
        BY <2>1, <2>2, DropRefines
    <2> QED BY <2>3 DEF Abstract!SNext
<1>9. CASE Send
    <2>1. \E c \in Conns : Abstract!Tell(c)
        BY <1>9, SendRefines
    <2> QED BY <2>1 DEF Abstract!SNext
<1>10. CASE Finish
    <2> DEFINE c == sock[client]
    <2>1. /\ Drop /\ pc = "send" /\ pc' \in {"select", "scan"} /\ sending = <<>>
          /\ UNCHANGED <<script, peer, answer>>
        BY <1>10, DropGoesOn DEF Finish
    <2>2. BeingServed /\ c \in Conns /\ answer[c] \in Seq(Segments)
        BY <2>1, OpenIsConnected DEF BeingServed, AnswerInv, ServedIsOwed, Inv, TypeOK
    <2>3. peer[c] = "reset" \/ answer[c] \o sending \in Owed(script[c])
        BY <2>2 DEF AnswerInv, ServedIsOwed
    <2>4. answer[c] \o sending = answer[c]
        BY <2>1, <2>2, NothingYet
    <2>5. c \in Gone \/ answer[c] \in Owed(script[c])
        BY <2>2, <2>3, <2>4 DEF Gone
    <2>6. \E d \in Conns : Abstract!Close(d)
        BY <2>1, <2>2, <2>5, DropRefines
    <2> QED BY <2>6 DEF Abstract!SNext
<1>11. ASSUME NEW c \in Conns, Peer(c)
       PROVE  [Abstract!SNext]_Abstract!svars
    BY <1>11, PeerRefines DEF Abstract!SNext
<1> QED BY <1>2, <1>3, <1>4, <1>5, <1>6, <1>7, <1>8, <1>9, <1>10, <1>11
        DEF Next, Server, Serve

\* The server keeps every promise of the service: one connection is served at a
\* time, from its first segment to its close, with an answer its whole request
\* calls for, and none is given up whose peer has not gone.
THEOREM ServerImplementsService == Spec => ImplementsService
<1>1. Init => Abstract!SInit
    BY InitRefines
<1>2. Inv /\ BufferIsWhatWasSent /\ AnswerInv /\ [Next]_vars
          => [Abstract!SNext]_Abstract!svars
    BY NextRefines
<1> QED BY <1>1, <1>2, SpecInv, BufferCorrect, SpecAnswer, PTL
        DEF Spec, ImplementsService, Abstract!Service
=============================================================================
