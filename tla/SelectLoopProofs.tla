-------------------------- MODULE SelectLoopProofs --------------------------
(***************************************************************************)
(* An invariant of the loop that the chat server and the toupper server    *)
(* share, kept by every step, whoever is sent what was received.           *)
(***************************************************************************)
EXTENDS SelectLoop, ListLemmas

\* A connection is new, in the backlog, or has been accepted; only then is
\* anything read from it, or due to it.
BacklogIsFresh ==
    /\ IsInjective(backlog)
    /\ \A c \in Range(backlog) : peer[c] # "new" /\ \A fd \in Fds : sock[fd] # c
    /\ \A fd \in Open : peer[sock[fd]] # "new"
    /\ \A c \in Conns : peer[c] = "new" \/ c \in Range(backlog) =>
          taken[c] = 0 /\ out[c] = <<>> /\ due[c] = <<>>

\* What is left to visit is open and ready; what is sent to is open.
PassInv ==
    /\ pc \in {"scan", "send"} =>
          /\ i \in reads
          /\ \A fd \in reads :
                fd > i \/ (fd = i /\ pc = "scan") => fd \in master /\ Readable(fd)
    /\ pc = "send" => i \in Open /\ j \in Open

Inv == TypeOK /\ MasterIsOpen /\ BacklogIsFresh /\ PassInv

-----------------------------------------------------------------------------
LEMMA Descriptors ==
    /\ Fds \subseteq Nat /\ socket_listen \in Nat /\ 0 \notin Fds
    /\ socket_listen # 0 /\ socket_listen \notin Fds
    /\ Fds \cup {socket_listen} \subseteq Nat
BY FdsAssumption

LEMMA OpenIsConnected ==
    ASSUME Inv, NEW fd \in Open
    PROVE  /\ fd \in Fds /\ sock[fd] \in Conns /\ peer[sock[fd]] # "new"
           /\ sock[fd] \notin Range(backlog)
BY DEF Inv, TypeOK, BacklogIsFresh, Open

\* The client of a visit.
LEMMA VisitIsOpen ==
    ASSUME Inv, pc = "scan", i # socket_listen
    PROVE  i \in Open /\ i \in Fds /\ sock[i] \in Conns
<1>1. i \in master
    BY DEF Inv, PassInv
<1>2. i \in Open
    BY <1>1 DEF Inv, MasterIsOpen
<1> QED BY <1>2, OpenIsConnected

\* ++i keeps what concerns the pass.
LEMMA AdvanceFacts ==
    ASSUME TypeOK, Advance, reads' = reads, max_socket' \in Nat,
           \A fd \in reads : fd > i => fd \in master' /\ Readable(fd)'
    PROVE  /\ PassInv' /\ pc' \in {"select", "scan"}
           /\ i' \in Fds \cup {socket_listen, 0}
<1> DEFINE rest == After(i, reads, max_socket')
<1>1. /\ rest \subseteq reads /\ rest \in SUBSET Nat
      /\ i \in Nat /\ reads \subseteq Fds \cup {socket_listen}
    <2>1. reads \subseteq Fds \cup {socket_listen} /\ i \in Fds \cup {socket_listen, 0}
        BY DEF TypeOK
    <2>2. reads \subseteq Nat /\ i \in Nat
        BY <2>1, Descriptors
    <2> QED BY <2>1, <2>2 DEF After
<1>2. CASE rest = {}
    <2>1. i' = 0 /\ pc' = "select"
        BY <1>2 DEF Advance
    <2> QED BY <2>1 DEF PassInv
<1>3. CASE rest # {}
    <2>1. i' = Min(rest) /\ pc' = "scan"
        BY <1>3 DEF Advance
    <2>2. Min(rest) \in rest
        BY <1>1, <1>3, MinOfNats
    <2> HIDE DEF rest
    <2>3. i' \in reads /\ i' \in Nat
        BY <1>1, <2>1, <2>2
    <2>4. i' > i
        BY <2>1, <2>2, <1>1 DEF rest, After
    <2>5. ASSUME NEW fd \in reads, fd > i' \/ fd = i'
          PROVE  fd \in master' /\ Readable(fd)'
        <3>1. fd \in Nat
            BY <1>1, Descriptors
        <3>2. fd > i
            BY <2>3, <2>4, <2>5, <3>1, <1>1
        <3> QED BY <3>2
    <2>6. i' \in reads'
        BY <2>3
    <2>7. PassInv'
        BY <2>1, <2>5, <2>6 DEF PassInv
    <2> QED BY <1>1, <2>1, <2>3, <2>7
<1> QED BY <1>2, <1>3

\* The next target, or ++i.
LEMMA DeliverFacts ==
    ASSUME TypeOK, NEW text \in Seq(Units), NEW fd \in Nat,
           NEW targets, targets \subseteq Fds, Deliver(text, fd, targets)
    PROVE  /\ j' \in Fds \cup {0} /\ read' \in Seq(Units) /\ left' \in Seq(Units)
           /\ \/ /\ \A k \in targets : k <= max_socket => k <= fd
                 /\ Advance
              \/ /\ j' \in targets /\ j' > fd
                 /\ \A k \in targets : k <= max_socket => k <= fd \/ j' <= k
                 /\ read' = text /\ left' = text /\ i' = i /\ pc' = "send"
<1> DEFINE rest == After(fd, targets, max_socket)
<1>1. rest \in SUBSET Nat /\ rest \subseteq targets /\ max_socket \in Nat
    BY Descriptors DEF TypeOK, After
<1>2. <<>> \in Seq(Units)
    BY EmptySeq
<1>3. \A k \in targets : k \in Nat
    BY Descriptors
<1>4. CASE rest = {}
    <2>1. j' = 0 /\ read' = <<>> /\ left' = <<>> /\ Advance
        BY <1>4 DEF Deliver
    <2>2. \A k \in targets : k <= max_socket => k <= fd
        BY <1>3, <1>4 DEF After
    <2> QED BY <1>2, <2>1, <2>2
<1>5. CASE rest # {}
    <2>1. j' = Min(rest) /\ read' = text /\ left' = text /\ i' = i /\ pc' = "send"
        BY <1>5 DEF Deliver
    <2>2. Min(rest) \in rest /\ \A k \in rest : Min(rest) <= k
        BY <1>1, <1>5, MinOfNats
    <2> HIDE DEF rest
    <2>3. j' \in targets /\ j' > fd
        BY <1>1, <2>1, <2>2 DEF rest, After
    <2>4. ASSUME NEW k \in targets, k <= max_socket, ~ (k <= fd)
          PROVE  j' <= k
        <3>1. k \in rest
            BY <1>3, <2>4 DEF rest, After
        <3> QED BY <2>1, <2>2, <3>1
    <2> QED BY <2>1, <2>3, <2>4
<1> QED BY <1>4, <1>5

-----------------------------------------------------------------------------
LEMMA InitInv == Init => Inv
<1> SUFFICES ASSUME Init PROVE Inv
    OBVIOUS
<1>1. <<>> \in Seq(Units) /\ <<>> \in Seq(Conns) /\ Range(<<>>) = {}
      /\ IsInjective(<<>>) /\ Len(<<>>) = 0
    BY EmptySeq DEF Range, IsInjective
<1>2. \A c \in Conns : Len(Text[c]) \in Nat
    BY TextAssumption, LenProperties
<1>3. TypeOK
    BY <1>1, <1>2 DEF Init, TypeOK
<1>4. MasterIsOpen
    BY Descriptors DEF Init, MasterIsOpen, Open
<1>5. BacklogIsFresh
    BY <1>1 DEF Init, BacklogIsFresh, Open
<1>6. PassInv
    BY DEF Init, PassInv
<1> QED BY <1>3, <1>4, <1>5, <1>6 DEF Inv

LEMMA StutterInv == Inv /\ UNCHANGED vars => Inv'
BY DEF Inv, TypeOK, MasterIsOpen, BacklogIsFresh, PassInv, Open, Readable, Unread,
   vars, process, network

\* The end of the process leaves everything as it was.
LEMMA EndInv ==
    ASSUME Inv, pc' \in {"exited", "killed"},
           UNCHANGED <<master, max_socket, sock, reads, i, j, read, left, network, due>>
    PROVE  Inv'
BY DEF Inv, TypeOK, MasterIsOpen, BacklogIsFresh, PassInv, Open, network

LEMMA SelectInv == Inv /\ Select => Inv'
<1> SUFFICES ASSUME Inv, Select PROVE Inv'
    OBVIOUS
<1>1. /\ reads' = {fd \in master : fd <= max_socket /\ Readable(fd)}
      /\ reads' # {} /\ i' = Min(reads') /\ pc' = "scan"
      /\ UNCHANGED <<master, max_socket, sock, j, read, left, network, due>>
    BY DEF Select
<1>2. reads' \subseteq master /\ master \subseteq Fds \cup {socket_listen}
    BY <1>1 DEF Inv, TypeOK
<1>3. reads' \in SUBSET Nat
    BY <1>2, Descriptors
<1>4. i' \in reads'
    BY <1>1, <1>3, MinOfNats
<1>5. TypeOK'
    BY <1>1, <1>2, <1>4 DEF Inv, TypeOK, network
<1>6. PassInv'
    <2>1. \A fd \in reads' : fd \in master' /\ Readable(fd)'
        BY <1>1, <1>2 DEF Readable, Unread, network
    <2> QED BY <1>1, <1>4, <2>1 DEF PassInv
<1>7. MasterIsOpen' /\ BacklogIsFresh'
    BY <1>1 DEF Inv, MasterIsOpen, BacklogIsFresh, Open, network
<1> QED BY <1>5, <1>6, <1>7 DEF Inv

LEMMA AcceptInv == Inv /\ Accept => Inv'
<1> SUFFICES ASSUME Inv, Accept PROVE Inv'
    OBVIOUS
<1> DEFINE fd == Min(Free)
           c == Head(backlog)
<1>1. fd \in Free
    BY FdsAssumption, MinOfNats DEF Accept, Free
<1>2. /\ sock' = [sock EXCEPT ![fd] = c]
      /\ master' = master \cup {fd}
      /\ max_socket' = IF fd > max_socket THEN fd ELSE max_socket
      /\ backlog' = Tail(backlog)
      /\ UNCHANGED <<reads, j, read, left, sent, taken, peer, out, seen, due>>
    BY DEF Accept
<1>3. pc = "scan" /\ i = socket_listen /\ Advance /\ backlog # <<>>
    BY DEF Accept
<1>4. /\ c \in Conns /\ c \in Range(backlog)
      /\ backlog' \in Seq(Conns) /\ IsInjective(backlog')
      /\ Range(backlog') = Range(backlog) \ {c}
    BY <1>2, <1>3, DequeueFacts DEF Inv, TypeOK, BacklogIsFresh
<1> HIDE DEF fd, c
<1>5. /\ fd \in Fds /\ fd \notin Open /\ sock[fd] = NULL
      /\ \A gd \in Fds : sock[gd] # c
      /\ \A gd \in Fds : sock'[gd] = IF gd = fd THEN c ELSE sock[gd]
      /\ c # NULL
    BY <1>1, <1>2, <1>4, ConnsAssumption DEF Inv, TypeOK, BacklogIsFresh, Free, Open
<1>6. Open' = Open \cup {fd}
    BY <1>5 DEF Open
<1>7. max_socket \in Nat /\ fd \in Nat /\ max_socket' \in Fds \cup {socket_listen}
    BY <1>2, <1>5, Descriptors DEF Inv, TypeOK
<1>8. MasterIsOpen'
    <2>1. master' = Open' \cup {socket_listen}
        BY <1>2, <1>6 DEF Inv, MasterIsOpen
    <2>2. \A gd \in master' : gd <= max_socket'
        <3>1. \A gd \in master : gd \in Nat /\ gd <= max_socket
            BY Descriptors DEF Inv, TypeOK, MasterIsOpen
        <3> QED BY <1>2, <1>7, <3>1
    <2>3. \A gd, hd \in Open' : sock'[gd] = sock'[hd] => gd = hd
        BY <1>5, <1>6 DEF Inv, MasterIsOpen, Open
    <2> QED BY <2>1, <2>2, <2>3 DEF MasterIsOpen
<1>9. BacklogIsFresh'
    <2>1. \A d \in Range(backlog') : peer'[d] # "new" /\ \A gd \in Fds : sock'[gd] # d
        BY <1>2, <1>4, <1>5 DEF Inv, BacklogIsFresh
    <2>2. peer'[c] # "new"
        BY <1>2, <1>4 DEF Inv, BacklogIsFresh
    <2>3. \A gd \in Open' : peer'[sock'[gd]] # "new"
        BY <1>2, <1>5, <1>6, <2>2 DEF Inv, BacklogIsFresh, Open
    <2> QED BY <1>2, <1>4, <2>1, <2>3 DEF Inv, BacklogIsFresh
<1>10. \A gd \in reads : gd > i => gd \in master' /\ Readable(gd)'
    <2> SUFFICES ASSUME NEW gd \in reads, gd > i
                 PROVE  gd \in master' /\ Readable(gd)'
        OBVIOUS
    <2>1. gd \in master /\ Readable(gd)
        BY <1>3 DEF Inv, PassInv
    <2>2. gd # socket_listen
        BY <1>3, Descriptors
    <2>3. gd \in Open
        BY <2>1, <2>2 DEF Inv, MasterIsOpen
    <2>4. sock'[gd] = sock[gd]
        BY <1>5, <2>3 DEF Open
    <2> QED BY <1>2, <2>1, <2>2, <2>4 DEF Readable, Unread
<1>11. max_socket' \in Nat
    BY <1>7, Descriptors
<1>12. /\ PassInv' /\ pc' \in {"select", "scan"}
       /\ i' \in Fds \cup {socket_listen, 0}
    BY <1>2, <1>3, <1>10, <1>11, AdvanceFacts DEF Inv
<1>13. TypeOK'
    <2>1. sock' \in [Fds -> Conns \cup {NULL}]
        BY <1>2, <1>4, <1>5 DEF Inv, TypeOK
    <2>2. master' \subseteq Fds \cup {socket_listen}
        BY <1>2, <1>5 DEF Inv, TypeOK
    <2> QED BY <1>2, <1>4, <1>7, <1>12, <2>1, <2>2 DEF Inv, TypeOK
<1> QED BY <1>8, <1>9, <1>12, <1>13 DEF Inv

LEMMA DisconnectInv == Inv /\ Disconnect => Inv'
<1> SUFFICES ASSUME Inv, Disconnect PROVE Inv'
    OBVIOUS
<1>1. /\ pc = "scan" /\ i # socket_listen /\ Advance
      /\ master' = master \ {i}
      /\ sock' = [sock EXCEPT ![i] = NULL]
      /\ max_socket' = max_socket
      /\ UNCHANGED <<reads, j, read, left, network, due>>
    BY DEF Disconnect
<1>2. i \in Open /\ i \in Fds
    BY <1>1, VisitIsOpen
<1>3. /\ Open' = Open \ {i}
      /\ \A fd \in Fds : sock'[fd] = IF fd = i THEN NULL ELSE sock[fd]
    BY <1>1, <1>2 DEF Inv, TypeOK, Open
<1>4. MasterIsOpen'
    <2>1. master' = Open' \cup {socket_listen}
        BY <1>1, <1>3 DEF Inv, MasterIsOpen
    <2> QED BY <1>1, <1>3, <2>1 DEF Inv, MasterIsOpen, Open
<1>5. BacklogIsFresh'
    <2>1. \A d \in Range(backlog) : \A fd \in Fds : sock'[fd] # d
        BY <1>3, OpenIsConnected, ConnsAssumption, RangeIsIn DEF Inv, TypeOK, BacklogIsFresh
    <2>2. \A fd \in Open' : peer[sock'[fd]] # "new"
        BY <1>3 DEF Inv, BacklogIsFresh, Open
    <2> QED BY <1>1, <2>1, <2>2 DEF Inv, BacklogIsFresh, network
<1>6. \A fd \in reads : fd > i => fd \in master' /\ Readable(fd)'
    <2> SUFFICES ASSUME NEW fd \in reads, fd > i
                 PROVE  fd \in master' /\ Readable(fd)'
        OBVIOUS
    <2>1. fd \in master /\ Readable(fd)
        BY <1>1 DEF Inv, PassInv
    <2>2. fd # i /\ (fd # socket_listen => fd \in Fds)
        BY Descriptors DEF Inv, TypeOK
    <2>3. fd # socket_listen => sock'[fd] = sock[fd]
        BY <1>3, <2>2
    <2> QED BY <1>1, <2>1, <2>2, <2>3 DEF Readable, Unread, network
<1>7. max_socket' \in Nat
    BY <1>1, Descriptors DEF Inv, TypeOK
<1>8. /\ PassInv' /\ pc' \in {"select", "scan"}
      /\ i' \in Fds \cup {socket_listen, 0}
    BY <1>1, <1>6, <1>7, AdvanceFacts DEF Inv
<1>9. TypeOK'
    BY <1>1, <1>2, <1>8 DEF Inv, TypeOK, network
<1> QED BY <1>4, <1>5, <1>8, <1>9 DEF Inv

-----------------------------------------------------------------------------
\* recv() returns between one and ReadSize units that the peer has sent.
LEMMA ReceivedFacts ==
    ASSUME Inv, pc = "scan", i # socket_listen, Unread(sock[i]) > 0
    PROVE  /\ Received \in Seq(Units)
           /\ Len(Received) \in 1 .. Unread(sock[i])
           /\ Received = SubSeq(Text[sock[i]], taken[sock[i]] + 1,
                                taken[sock[i]] + Len(Received))
<1> DEFINE c == sock[i]
           r == Min({Unread(c), ReadSize})
           t == Text[c]
           m == taken[c] + 1
           n == taken[c] + r
<1>1. /\ c \in Conns /\ taken[c] \in Nat /\ sent[c] \in Nat
      /\ t \in Seq(Units) /\ Len(t) \in Nat /\ sent[c] <= Len(t)
    BY VisitIsOpen, TextAssumption, LenProperties DEF Inv, TypeOK
<1>2. Unread(c) \in Nat \ {0} /\ Unread(c) = sent[c] - taken[c] /\ ReadSize \in Nat \ {0}
    BY <1>1, LimitsAssumption DEF Unread
<1>3. r \in 1 .. Unread(c)
    <2>1. r \in {Unread(c), ReadSize} /\ r <= Unread(c)
        <3>1. Unread(c) \in Int /\ ReadSize \in Int
            BY <1>2
        <3> QED BY <3>1, MinOfTwo
    <2> HIDE DEF r
    <2> QED BY <1>2, <2>1
<1> HIDE DEF r
<1>4. m \in Nat \ {0} /\ n \in Int /\ m <= n /\ n - m + 1 = r /\ n <= Len(t)
    <2>1. r \in Nat \ {0} /\ r <= sent[c] - taken[c]
        BY <1>1, <1>2, <1>3
    <2>2. /\ taken[c] \in Nat /\ sent[c] \in Nat /\ Len(t) \in Nat
          /\ sent[c] <= Len(t)
        BY <1>1
    <2>3. m = taken[c] + 1 /\ n = taken[c] + r
        OBVIOUS
    <2> HIDE DEF c, t, m, n
    <2>4. m \in Nat \ {0} /\ n \in Int
        BY <2>1, <2>2, <2>3
    <2>5. m <= n /\ n - m + 1 = r
        BY <2>1, <2>2, <2>3
    <2>6. n <= Len(t)
        BY <2>1, <2>2, <2>3
    <2> QED BY <2>4, <2>5, <2>6
<1> HIDE DEF m, n, t
<1>5. \A k \in m .. n : t[k] \in Units
    <2>1. \A k \in m .. n : k \in 1 .. Len(t)
        BY <1>1, <1>4
    <2> QED BY <1>1, <2>1, ElementOfSeq
<1>6. SubSeq(t, m, n) \in Seq(Units) /\ Len(SubSeq(t, m, n)) = n - m + 1
    BY <1>4, <1>5, SubSeqProperties
<1>7. Received = SubSeq(t, m, n)
    BY DEF Received, r, m, n, t
<1> QED BY <1>3, <1>4, <1>6, <1>7 DEF m, n, t

LEMMA ReceiveInv ==
    ASSUME Inv, NEW text \in Seq(Units), NEW targets \in SUBSET Open,
           NEW hearers \in SUBSET InRoom, Receive(text, targets, hearers)
    PROVE  Inv'
<1> DEFINE c == sock[i]
<1>1. /\ pc = "scan" /\ i # socket_listen /\ Unread(c) > 0
      /\ taken' = [taken EXCEPT ![c] = taken[c] + Len(Received)]
      /\ due' = [d \in Conns |-> IF d \in hearers THEN due[d] \o text ELSE due[d]]
      /\ max_socket' = max_socket
      /\ Deliver(text, 0, targets)
      /\ UNCHANGED <<master, sock, reads, backlog, sent, peer, out, seen>>
    BY DEF Receive
<1>2. i \in Open /\ i \in Fds /\ c \in Conns
    BY <1>1, VisitIsOpen
<1>3. Len(Received) \in Nat /\ taken[c] + Len(Received) <= sent[c]
    <2>1. Len(Received) \in 1 .. Unread(c)
        BY <1>1, ReceivedFacts
    <2> QED BY <1>2, <2>1 DEF Inv, TypeOK, Unread
<1>4. /\ taken' \in [Conns -> Nat] /\ \A d \in Conns : taken'[d] <= sent[d]
      /\ \A d \in Conns \ {c} : taken'[d] = taken[d]
    BY <1>1, <1>2, <1>3 DEF Inv, TypeOK
<1>5. due' \in [Conns -> Seq(Units)]
    <2>1. \A d \in Conns : due[d] \in Seq(Units) /\ due[d] \o text \in Seq(Units)
        BY ConcatProperties DEF Inv, TypeOK
    <2> QED BY <1>1, <2>1
<1>6. MasterIsOpen'
    BY <1>1 DEF Inv, MasterIsOpen, Open
<1>7. BacklogIsFresh'
    <2>1. ASSUME NEW d \in Conns, peer[d] = "new" \/ d \in Range(backlog)
          PROVE  d # c /\ d \notin hearers
        BY <1>2, <2>1, OpenIsConnected DEF InRoom
    <2>2. ASSUME NEW d \in Conns, peer[d] = "new" \/ d \in Range(backlog)
          PROVE  taken'[d] = 0 /\ out'[d] = <<>> /\ due'[d] = <<>>
        BY <1>1, <1>4, <2>1, <2>2 DEF Inv, BacklogIsFresh
    <2> QED BY <1>1, <2>2 DEF Inv, BacklogIsFresh, Open
<1>8. \A fd \in reads : fd > i => fd \in master' /\ Readable(fd)'
    <2> SUFFICES ASSUME NEW fd \in reads, fd > i
                 PROVE  fd \in master' /\ Readable(fd)'
        OBVIOUS
    <2>1. fd \in master /\ Readable(fd)
        BY <1>1 DEF Inv, PassInv
    <2>2. fd # i
        BY <1>2, Descriptors
    <2>3. fd # socket_listen => sock[fd] \in Conns \ {c}
        BY <1>2, <2>1, <2>2, OpenIsConnected DEF Inv, MasterIsOpen
    <2>4. fd # socket_listen => taken'[sock[fd]] = taken[sock[fd]]
        BY <1>4, <2>3
    <2> QED BY <1>1, <2>1, <2>4 DEF Readable, Unread
<1>9. targets \subseteq Fds
    BY DEF Open
<1>10. /\ j' \in Fds \cup {0} /\ read' \in Seq(Units) /\ left' \in Seq(Units)
       /\ \/ Advance
          \/ j' \in targets /\ i' = i /\ pc' = "send"
    BY <1>1, <1>9, DeliverFacts DEF Inv
<1>11. /\ PassInv' /\ pc' \in {"select", "scan", "send"}
       /\ i' \in Fds \cup {socket_listen, 0}
    <2>1. max_socket' \in Nat
        BY <1>1, Descriptors DEF Inv, TypeOK
    <2>2. CASE Advance
        BY <1>1, <1>8, <2>1, <2>2, AdvanceFacts DEF Inv
    <2>3. CASE j' \in targets /\ i' = i /\ pc' = "send"
        <3>1. i \in reads
            BY <1>1 DEF Inv, PassInv
        <3>2. Open' = Open
            BY <1>1 DEF Open
        <3>3. PassInv'
            BY <1>1, <1>2, <1>8, <2>3, <3>1, <3>2 DEF PassInv
        <3> QED BY <1>2, <2>3, <3>3
    <2> QED BY <1>10, <2>2, <2>3
<1>12. TypeOK'
    BY <1>1, <1>4, <1>5, <1>10, <1>11 DEF Inv, TypeOK
<1> QED BY <1>6, <1>7, <1>11, <1>12 DEF Inv

LEMMA SendInv == Inv /\ Send => Inv'
<1> SUFFICES ASSUME Inv, Send PROVE Inv'
    OBVIOUS
<1> DEFINE c == sock[j]
<1>1. /\ pc = "send" /\ left # <<>>
      /\ out' = [out EXCEPT ![c] = Append(out[c], Head(left))]
      /\ left' = Tail(left)
      /\ UNCHANGED <<pc, master, max_socket, sock, reads, i, j, read, backlog,
                     sent, taken, peer, seen, due>>
    BY DEF Send
<1>2. j \in Open /\ c \in Conns /\ peer[c] # "new" /\ c \notin Range(backlog)
    BY <1>1, OpenIsConnected DEF Inv, PassInv
<1>3. out[c] \in Seq(Units) /\ left \in Seq(Units)
    BY <1>2 DEF Inv, TypeOK
<1>4. /\ Head(left) \in Units /\ Tail(left) \in Seq(Units)
      /\ Append(out[c], Head(left)) \in Seq(Units)
      /\ Len(Append(out[c], Head(left))) = Len(out[c]) + 1
    BY <1>1, <1>3, HeadTailProperties, AppendProperties
<1>5. Len(out[c]) \in Nat /\ seen[c] \in Nat /\ seen[c] <= Len(out[c])
    BY <1>2, <1>3, LenProperties DEF Inv, TypeOK
<1>6. /\ out' \in [Conns -> Seq(Units)]
      /\ \A d \in Conns : seen[d] <= Len(out'[d])
      /\ \A d \in Conns \ {c} : out'[d] = out[d]
    BY <1>1, <1>2, <1>4, <1>5 DEF Inv, TypeOK
<1>7. TypeOK'
    BY <1>1, <1>4, <1>6 DEF Inv, TypeOK
<1>8. BacklogIsFresh'
    BY <1>1, <1>2, <1>6 DEF Inv, BacklogIsFresh, Open
<1>9. MasterIsOpen' /\ PassInv'
    BY <1>1 DEF Inv, MasterIsOpen, PassInv, Open, Readable, Unread
<1> QED BY <1>7, <1>8, <1>9 DEF Inv

LEMMA SendIgnoredInv == Inv /\ SendIgnored => Inv'
<1> SUFFICES ASSUME Inv, SendIgnored PROVE Inv'
    OBVIOUS
<1>1. /\ left' = <<>>
      /\ UNCHANGED <<pc, master, max_socket, sock, reads, i, j, read, network, due>>
    BY DEF SendIgnored
<1>2. left' \in Seq(Units)
    BY <1>1, EmptySeq
<1> QED BY <1>1, <1>2 DEF Inv, TypeOK, MasterIsOpen, BacklogIsFresh, PassInv, Open,
           Readable, Unread, network

LEMMA SentInv ==
    ASSUME Inv, NEW targets \in SUBSET Open, Sent(targets)
    PROVE  Inv'
<1>1. /\ pc = "send" /\ max_socket' = max_socket /\ Deliver(read, j, targets)
      /\ UNCHANGED <<master, sock, reads, network, due>>
    BY DEF Sent
<1>2. read \in Seq(Units) /\ j \in Nat /\ targets \subseteq Fds
    BY Descriptors DEF Inv, TypeOK, Open
<1>3. /\ j' \in Fds \cup {0} /\ read' \in Seq(Units) /\ left' \in Seq(Units)
      /\ \/ Advance
         \/ j' \in targets /\ i' = i /\ pc' = "send"
    BY <1>1, <1>2, DeliverFacts DEF Inv
<1>4. Open' = Open /\ \A fd \in reads : Readable(fd) => Readable(fd)'
    BY <1>1 DEF Open, Readable, Unread, network
<1>5. \A fd \in reads : fd > i => fd \in master' /\ Readable(fd)'
    BY <1>1, <1>4 DEF Inv, PassInv
<1>6. /\ PassInv' /\ pc' \in {"select", "scan", "send"}
      /\ i' \in Fds \cup {socket_listen, 0}
    <2>1. max_socket' \in Nat
        BY <1>1, Descriptors DEF Inv, TypeOK
    <2>2. CASE Advance
        BY <1>1, <1>5, <2>1, <2>2, AdvanceFacts DEF Inv
    <2>3. CASE j' \in targets /\ i' = i /\ pc' = "send"
        <3>1. i \in reads /\ i \in Open
            BY <1>1 DEF Inv, PassInv
        <3>2. PassInv'
            BY <1>1, <1>4, <1>5, <2>3, <3>1 DEF PassInv
        <3> QED BY <2>3, <3>2 DEF Inv, TypeOK
    <2> QED BY <1>3, <2>2, <2>3
<1>7. TypeOK'
    BY <1>1, <1>3, <1>6 DEF Inv, TypeOK, network
<1>8. MasterIsOpen' /\ BacklogIsFresh'
    BY <1>1, <1>4 DEF Inv, MasterIsOpen, BacklogIsFresh, network
<1> QED BY <1>6, <1>7, <1>8 DEF Inv

-----------------------------------------------------------------------------
\* A peer only adds to what the server may find ready.
LEMMA PeerKeepsInv ==
    ASSUME Inv, UNCHANGED process, TypeOK', BacklogIsFresh',
           \A fd \in master : Readable(fd) => Readable(fd)'
    PROVE  Inv'
<1>1. Open' = Open /\ MasterIsOpen'
    BY DEF Inv, MasterIsOpen, Open, process
<1>2. PassInv'
    BY <1>1 DEF Inv, PassInv, process
<1> QED BY <1>1, <1>2 DEF Inv

LEMMA ConnectInv ==
    ASSUME NEW c \in Conns, Inv, Connect(c)
    PROVE  Inv'
<1>1. /\ peer[c] = "new" /\ backlog' = Append(backlog, c)
      /\ peer' = [peer EXCEPT ![c] = "open"]
      /\ UNCHANGED <<process, sent, taken, out, seen, due>>
    BY DEF Connect
<1>2. backlog \in Seq(Conns) /\ IsInjective(backlog) /\ c \notin Range(backlog)
    BY <1>1 DEF Inv, TypeOK, BacklogIsFresh
<1>3. /\ backlog' \in Seq(Conns) /\ IsInjective(backlog')
      /\ Range(backlog') = Range(backlog) \cup {c}
    BY <1>1, <1>2, EnqueueFacts
<1>4. \A d \in Conns : peer'[d] = IF d = c THEN "open" ELSE peer[d]
    BY <1>1 DEF Inv, TypeOK
<1>5. TypeOK'
    BY <1>1, <1>3 DEF Inv, TypeOK, process
<1>6. \A fd \in Fds : sock[fd] # c
    BY <1>1, OpenIsConnected, ConnsAssumption DEF Open
<1>7. BacklogIsFresh'
    <2>1. \A d \in Range(backlog') : peer'[d] # "new" /\ \A fd \in Fds : sock[fd] # d
        BY <1>2, <1>3, <1>4, <1>6, RangeIsIn DEF Inv, BacklogIsFresh
    <2>2. \A fd \in Open : peer'[sock[fd]] # "new"
        BY <1>4, OpenIsConnected
    <2>3. \A d \in Conns : peer'[d] = "new" \/ d \in Range(backlog') =>
              taken[d] = 0 /\ out[d] = <<>> /\ due[d] = <<>>
        BY <1>1, <1>3, <1>4 DEF Inv, BacklogIsFresh
    <2> QED BY <1>1, <1>3, <2>1, <2>2, <2>3 DEF BacklogIsFresh, Open, process
<1>8. \A fd \in master : Readable(fd) => Readable(fd)'
    <2> SUFFICES ASSUME NEW fd \in master, Readable(fd) PROVE Readable(fd)'
        OBVIOUS
    <2>1. CASE fd = socket_listen
        <3>1. backlog' # <<>>
            BY <1>1, <1>2, AppendProperties, EmptySeq
        <3> QED BY <2>1, <3>1 DEF Readable
    <2>2. CASE fd # socket_listen
        <3>1. fd \in Open
            BY <2>2 DEF Inv, MasterIsOpen
        <3>2. sock[fd] \in Conns /\ sock[fd] # c
            BY <1>1, <3>1, OpenIsConnected
        <3> QED BY <1>1, <1>4, <2>2, <3>2 DEF Readable, Unread, process
    <2> QED BY <2>1, <2>2
<1> QED BY <1>1, <1>5, <1>7, <1>8, PeerKeepsInv

LEMMA SayInv ==
    ASSUME NEW c \in Conns, Inv, Say(c)
    PROVE  Inv'
<1>1. PICK n \in 1 .. Len(Text[c]) - sent[c] :
        /\ sent' = [sent EXCEPT ![c] = sent[c] + n]
        /\ UNCHANGED <<process, backlog, taken, peer, out, seen, due>>
    BY DEF Say
<1>2. Len(Text[c]) \in Nat
    BY TextAssumption, LenProperties
<1>3. TypeOK'
    <2>1. sent' \in [Conns -> Nat]
        BY <1>1, <1>2 DEF Inv, TypeOK
    <2>2. \A d \in Conns : taken[d] <= sent'[d] /\ sent'[d] <= Len(Text[d])
        <3>1. \A d \in Conns : sent'[d] = IF d = c THEN sent[c] + n ELSE sent[d]
            BY <1>1 DEF Inv, TypeOK
        <3>2. \A d \in Conns : /\ taken[d] \in Nat /\ sent[d] \in Nat
                                /\ taken[d] <= sent[d] /\ sent[d] <= Len(Text[d])
            BY DEF Inv, TypeOK
        <3> QED BY <1>1, <1>2, <3>1, <3>2
    <2> QED BY <1>1, <2>1, <2>2 DEF Inv, TypeOK, process
<1>4. BacklogIsFresh'
    BY <1>1 DEF Inv, BacklogIsFresh, Open, process
<1>5. \A fd \in master : Readable(fd) => Readable(fd)'
    <2> SUFFICES ASSUME NEW fd \in master, Readable(fd) PROVE Readable(fd)'
        OBVIOUS
    <2>1. fd # socket_listen => sock[fd] \in Conns
        BY OpenIsConnected DEF Inv, MasterIsOpen
    <2>2. \A d \in Conns : sent'[d] = IF d = c THEN sent[c] + n ELSE sent[d]
        BY <1>1 DEF Inv, TypeOK
    <2>3. \A d \in Conns : sent[d] \in Nat /\ taken[d] \in Nat
        BY DEF Inv, TypeOK
    <2>4. n \in Nat
        BY <1>2, <2>3
    <2>5. \A d \in Conns : sent'[d] \in Nat /\ sent'[d] >= sent[d]
        BY <2>2, <2>3, <2>4
    <2> QED BY <1>1, <2>1, <2>3, <2>5 DEF Readable, Unread, process
<1> QED BY <1>1, <1>3, <1>4, <1>5, PeerKeepsInv

LEMMA HangUpInv ==
    ASSUME NEW c \in Conns, Inv, Shutdown(c) \/ Reset(c)
    PROVE  Inv'
<1>1. PICK p \in {"fin", "reset"} : peer' = [peer EXCEPT ![c] = p]
    BY DEF Shutdown, Reset
<1>2. /\ peer[c] # "new"
      /\ UNCHANGED <<process, backlog, sent, taken, out, seen, due>>
    BY DEF Shutdown, Reset
<1>3. TypeOK'
    BY <1>1, <1>2 DEF Inv, TypeOK, process
<1>4. \A d \in Conns : peer'[d] = IF d = c THEN p ELSE peer[d]
    BY <1>1 DEF Inv, TypeOK
<1>5. BacklogIsFresh'
    <2>1. \A d \in Range(backlog) : d \in Conns /\ peer'[d] # "new"
        BY <1>4, RangeIsIn DEF Inv, TypeOK, BacklogIsFresh
    <2>2. \A fd \in Open : peer'[sock[fd]] # "new"
        BY <1>4, OpenIsConnected
    <2>3. \A d \in Conns : peer'[d] = "new" => peer[d] = "new"
        BY <1>4
    <2> QED BY <1>2, <2>1, <2>2, <2>3 DEF Inv, BacklogIsFresh, Open, process
<1>6. \A fd \in master : Readable(fd) => Readable(fd)'
    <2> SUFFICES ASSUME NEW fd \in master, Readable(fd) PROVE Readable(fd)'
        OBVIOUS
    <2>1. fd # socket_listen => sock[fd] \in Conns
        BY OpenIsConnected DEF Inv, MasterIsOpen
    <2> QED BY <1>2, <1>4, <2>1 DEF Readable, Unread, process
<1> QED BY <1>2, <1>3, <1>5, <1>6, PeerKeepsInv

LEMMA ReadInv ==
    ASSUME NEW c \in Conns, Inv, Read(c)
    PROVE  Inv'
<1>1. PICK n \in 1 .. Len(out[c]) - seen[c] :
        /\ seen' = [seen EXCEPT ![c] = seen[c] + n]
        /\ UNCHANGED <<process, backlog, sent, taken, peer, out, due>>
    BY DEF Read
<1>2. Len(out[c]) \in Nat
    BY LenProperties DEF Inv, TypeOK
<1>3. TypeOK'
    <2>1. seen \in [Conns -> Nat] /\ \A d \in Conns : seen[d] <= Len(out[d])
        BY DEF Inv, TypeOK
    <2>2. seen' \in [Conns -> Nat]
        BY <1>1, <1>2, <2>1
    <2>3. \A d \in Conns : seen'[d] = IF d = c THEN seen[c] + n ELSE seen[d]
        BY <1>1, <2>1
    <2>4. \A d \in Conns : seen'[d] <= Len(out[d])
        BY <1>1, <1>2, <2>1, <2>3
    <2> QED BY <1>1, <2>2, <2>4 DEF Inv, TypeOK, process
<1>4. BacklogIsFresh'
    BY <1>1 DEF Inv, BacklogIsFresh, Open, process
<1>5. \A fd \in master : Readable(fd) => Readable(fd)'
    BY <1>1 DEF Readable, Unread, process
<1> QED BY <1>1, <1>3, <1>4, <1>5, PeerKeepsInv

LEMMA PeersInv == Inv /\ Peers => Inv'
BY ConnectInv, SayInv, HangUpInv, ReadInv DEF Peers

-----------------------------------------------------------------------------
\* What the invariant says of what is left of a pass.
LEMMA InvNeverBlocks == Inv => NeverBlocksOnReady
BY DEF Inv, PassInv, NeverBlocksOnReady

=============================================================================
