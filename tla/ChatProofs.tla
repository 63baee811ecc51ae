----------------------------- MODULE ChatProofs -----------------------------
(***************************************************************************)
(* The chat server, for any number of connections and descriptors, any     *)
(* texts and any sizes: what its members are sent; that it implements the  *)
(* room; and that what is proved of it for any peers holds when its peers  *)
(* are copies of tcp_client.c.                                             *)
(***************************************************************************)
EXTENDS ChatRefinement, ChatSystem, SelectLoopProofs

LEMMA OthersAreOpen == Inv => Others \in SUBSET Open
BY DEF Inv, MasterIsOpen, Others

LEMMA BroadcastInv == Inv /\ Broadcast => Inv'
<1> SUFFICES ASSUME Inv, Broadcast PROVE Inv'
    OBVIOUS
<1>1. Receive(Received, Others, InRoom \ {sock[i]})
    BY DEF Broadcast
<1>2. Received \in Seq(Units)
    BY <1>1, ReceivedFacts DEF Receive
<1> QED BY <1>1, <1>2, OthersAreOpen, ReceiveInv

\* Every step of the server and of its peers keeps the invariant.
LEMMA NextInv == Inv /\ [Next]_vars => Inv'
<1> SUFFICES ASSUME Inv, [Next]_vars PROVE Inv'
    OBVIOUS
<1>1. CASE UNCHANGED vars BY <1>1, StutterInv
<1>2. CASE Peers BY <1>2, PeersInv
<1>3. CASE Select BY <1>3, SelectInv
<1>4. CASE SelectFails \/ AcceptFails
    BY <1>4, EndInv DEF SelectFails, AcceptFails, Exit
<1>5. CASE Accept BY <1>5, AcceptInv
<1>6. CASE Broadcast BY <1>6, BroadcastInv
<1>7. CASE Disconnect BY <1>7, DisconnectInv
<1>8. CASE Send BY <1>8, SendInv
<1>9. CASE SendIgnored BY <1>9, SendIgnoredInv
<1>10. CASE SendKilled BY <1>10, EndInv DEF SendKilled
<1>11. CASE Sent(Others) BY <1>11, OthersAreOpen, SentInv
<1> QED BY <1>1, <1>2, <1>3, <1>4, <1>5, <1>6, <1>7, <1>8, <1>9, <1>10, <1>11
        DEF Next, Server, Serve

LEMMA SpecInv == Spec => []Inv
<1>1. Init => Inv
    BY InitInv
<1>2. Inv /\ [Next]_vars => Inv'
    BY NextInv
<1> QED BY <1>1, <1>2, PTL DEF Spec

\* Type correctness: in particular no more is read from a connection than its
\* peer has sent, nor read by a peer than it was sent.
THEOREM ChatTypeCorrect == Spec => []TypeOK
<1>1. Inv => TypeOK
    BY DEF Inv
<1> QED BY <1>1, SpecInv, PTL

\* `master` and `max_socket` always cover the open descriptors and no other.
THEOREM ChatMasterCorrect == Spec => []MasterIsOpen
<1>1. Inv => MasterIsOpen
    BY DEF Inv
<1> QED BY <1>1, SpecInv, PTL

\* No accept() or recv() of a pass blocks, for any number of clients.
THEOREM ChatNeverBlocks == Spec => []NeverBlocksOnReady
BY InvNeverBlocks, SpecInv, PTL

-----------------------------------------------------------------------------
\* What is still to be copied for descriptor fd of the text being broadcast.
Owing(fd) ==
    IF fd = i \/ fd < j THEN <<>> ELSE IF fd = j THEN left ELSE read

\* Nobody lags behind except those the running loop has not come to.
DeliveryInv ==
    /\ NobodyLagsBehind
    /\ pc = "send" =>
          /\ j \in Others
          /\ \A fd \in Open : peer[sock[fd]] # "reset" =>
                out[sock[fd]] \o Owing(fd) = due[sock[fd]]

\* The two parts of DeliveryInv in terms of descriptors.
LEMMA NobodyLags ==
    NobodyLagsBehind <=>
        (pc \in {"select", "scan"} =>
            \A fd \in Open : peer[sock[fd]] # "reset" => out[sock[fd]] = due[sock[fd]])
BY DEF NobodyLagsBehind, InRoom

\* Steps that neither send nor receive.
LEMMA QuietDelivery ==
    ASSUME DeliveryInv, UNCHANGED <<out, due, sock, i, j, read, left, master>>,
           pc' = pc,
           \A fd \in Open : peer[sock[fd]] = "reset" => peer'[sock[fd]] = "reset"
    PROVE  DeliveryInv'
<1>1. Open' = Open /\ Others' = Others
    BY DEF Open, Others
<1>2. NobodyLagsBehind'
    BY <1>1 DEF DeliveryInv, NobodyLagsBehind, InRoom
<1>3. \A fd : Owing(fd)' = Owing(fd)
    BY DEF Owing
<1>4. (pc = "send")' =>
          /\ (j \in Others)'
          /\ \A fd \in Open' : peer'[sock[fd]] # "reset" =>
                out[sock[fd]] \o Owing(fd) = due[sock[fd]]
    BY <1>1 DEF DeliveryInv
<1> QED BY <1>1, <1>2, <1>3, <1>4 DEF DeliveryInv

\* Back in the scan: enough that nobody lags behind.
LEMMA ScanDelivery ==
    ASSUME pc' \in {"select", "scan", "exited", "killed"},
           pc' \in {"select", "scan"} =>
              \A fd \in Open' : peer'[sock'[fd]] # "reset" =>
                  out'[sock'[fd]] = due'[sock'[fd]]
    PROVE  DeliveryInv'
BY DEF DeliveryInv, NobodyLagsBehind, InRoom

LEMMA AdvancePc == Advance => pc' \in {"select", "scan"}
BY DEF Advance

LEMMA AcceptDelivery ==
    ASSUME Inv, DeliveryInv, Accept
    PROVE  DeliveryInv'
<1> DEFINE fd == Min(Free)
           c == Head(backlog)
<1>1. fd \in Free
    BY FdsAssumption, MinOfNats DEF Accept, Free
<1>2. /\ sock' = [sock EXCEPT ![fd] = c] /\ pc = "scan" /\ Advance
      /\ UNCHANGED <<peer, out, due>> /\ backlog # <<>>
    BY DEF Accept
<1>3. c \in Range(backlog) /\ c \in Conns
    BY <1>2, DequeueFacts DEF Inv, TypeOK, BacklogIsFresh
<1> HIDE DEF fd, c
<1>4. out[c] = <<>> /\ due[c] = <<>>
    BY <1>3 DEF Inv, BacklogIsFresh
<1>5. \A gd \in Fds : sock'[gd] = IF gd = fd THEN c ELSE sock[gd]
    BY <1>2 DEF Inv, TypeOK
<1>6. \A gd \in Open' : gd = fd \/ gd \in Open
    BY <1>5 DEF Open
<1>7. \A gd \in Open' : peer'[sock'[gd]] # "reset" => out'[sock'[gd]] = due'[sock'[gd]]
    BY <1>2, <1>4, <1>5, <1>6 DEF DeliveryInv, NobodyLagsBehind, InRoom, Open
<1> QED BY <1>2, <1>7, AdvancePc, ScanDelivery

LEMMA DisconnectDelivery ==
    ASSUME Inv, DeliveryInv, Disconnect
    PROVE  DeliveryInv'
<1>1. /\ sock' = [sock EXCEPT ![i] = NULL] /\ pc = "scan" /\ Advance
      /\ UNCHANGED <<peer, out, due>>
    BY DEF Disconnect, network
<1>2. \A fd \in Open' : fd \in Open /\ sock'[fd] = sock[fd]
    BY <1>1 DEF Inv, TypeOK, Open
<1>3. \A fd \in Open' : peer'[sock'[fd]] # "reset" => out'[sock'[fd]] = due'[sock'[fd]]
    BY <1>1, <1>2 DEF DeliveryInv, NobodyLagsBehind, InRoom
<1> QED BY <1>1, <1>3, AdvancePc, ScanDelivery

\* One segment moves from what is left to what was sent.
LEMMA SendDelivery ==
    ASSUME Inv, DeliveryInv, Send
    PROVE  DeliveryInv'
<1> DEFINE c == sock[j]
<1>1. /\ pc = "send" /\ left # <<>> /\ peer[c] # "reset"
      /\ out' = [out EXCEPT ![c] = Append(out[c], Head(left))]
      /\ left' = Tail(left)
      /\ UNCHANGED <<pc, master, max_socket, sock, i, j, read, peer, due>>
    BY DEF Send
<1>2. j \in Open /\ j \in Others /\ c \in Conns
    BY <1>1, OpenIsConnected DEF Inv, PassInv, DeliveryInv
<1>3. Open' = Open /\ Others' = Others /\ j # i /\ ~ (j < j)
    BY <1>1, <1>2, Descriptors DEF Open, Others
<1>4. out[c] \in Seq(Units) /\ left \in Seq(Units)
    BY <1>2 DEF Inv, TypeOK
<1>5. out'[c] \o left' = out[c] \o left
    <2>1. Append(out[c], Head(left)) \o Tail(left) = out[c] \o left
        BY <1>1, <1>4, MoveOne
    <2>2. out'[c] = Append(out[c], Head(left))
        BY <1>1, <1>2 DEF Inv, TypeOK
    <2> QED BY <1>1, <2>1, <2>2
<1>6. ASSUME NEW fd \in Open, peer[sock[fd]] # "reset"
      PROVE  out'[sock[fd]] \o Owing(fd)' = due[sock[fd]]
    <2>1. out[sock[fd]] \o Owing(fd) = due[sock[fd]]
        BY <1>1, <1>6 DEF DeliveryInv
    <2>2. CASE fd = j
        <3>1. Owing(fd) = left /\ Owing(fd)' = left'
            BY <1>1, <1>3, <2>2 DEF Owing
        <3> QED BY <1>5, <2>1, <2>2, <3>1
    <2>3. CASE fd # j
        <3>1. Owing(fd)' = Owing(fd)
            BY <1>1, <2>3 DEF Owing
        <3>2. sock[fd] \in Conns /\ sock[fd] # c
            BY <1>2, <2>3, OpenIsConnected DEF Inv, MasterIsOpen
        <3>3. out'[sock[fd]] = out[sock[fd]]
            BY <1>1, <3>2 DEF Inv, TypeOK
        <3> QED BY <2>1, <3>1, <3>3
    <2> QED BY <2>2, <2>3
<1> QED BY <1>1, <1>2, <1>3, <1>6 DEF DeliveryInv, NobodyLagsBehind

LEMMA SendIgnoredDelivery ==
    ASSUME Inv, DeliveryInv, SendIgnored
    PROVE  DeliveryInv'
<1>1. /\ pc = "send" /\ peer[sock[j]] = "reset"
      /\ UNCHANGED <<pc, master, max_socket, sock, i, j, read, network, due>>
    BY DEF SendIgnored
<1>2. Open' = Open /\ Others' = Others
    BY <1>1 DEF Open, Others
<1>3. ASSUME NEW fd \in Open, peer[sock[fd]] # "reset"
      PROVE  out'[sock[fd]] \o Owing(fd)' = due[sock[fd]]
    <2>1. fd # j
        BY <1>1, <1>3
    <2>2. Owing(fd)' = Owing(fd)
        BY <1>1, <2>1 DEF Owing
    <2> QED BY <1>1, <1>3, <2>2 DEF DeliveryInv, network
<1> QED BY <1>1, <1>2, <1>3 DEF DeliveryInv, NobodyLagsBehind, network

\* recv(): everyone but the speaker is owed the whole text, from the lowest
\* descriptor on.
LEMMA BroadcastDelivery ==
    ASSUME Inv, DeliveryInv, Broadcast
    PROVE  DeliveryInv'
<1> DEFINE c == sock[i]
<1>1. /\ pc = "scan" /\ i # socket_listen /\ Unread(c) > 0
      /\ due' = [d \in Conns |->
                   IF d \in InRoom \ {c} THEN due[d] \o Received ELSE due[d]]
      /\ Deliver(Received, 0, Others)
      /\ UNCHANGED <<master, sock, peer, out>>
    BY DEF Broadcast, Receive
<1>2. /\ Received \in Seq(Units) /\ Others \subseteq Open /\ Others \subseteq Fds
      /\ i \in Open
    BY <1>1, ReceivedFacts, VisitIsOpen, OthersAreOpen DEF Open
<1>3. \A fd \in Open : peer[sock[fd]] # "reset" => out[sock[fd]] = due[sock[fd]]
    BY <1>1, NobodyLags DEF DeliveryInv
<1>4. ASSUME NEW fd \in Open
      PROVE  /\ fd = i => due'[sock[fd]] = due[sock[fd]]
             /\ fd # i => due'[sock[fd]] = due[sock[fd]] \o Received
             /\ out[sock[fd]] \in Seq(Units) /\ fd \in Nat \ {0}
    <2>1. sock[fd] \in Conns /\ fd \in Nat \ {0} /\ sock[fd] \in InRoom
        BY OpenIsConnected, FdsAssumption DEF InRoom
    <2>2. fd # i => sock[fd] # c
        BY <1>2 DEF Inv, MasterIsOpen
    <2> QED BY <1>1, <2>1, <2>2 DEF Inv, TypeOK
<1>5. Open' = Open
    BY <1>1 DEF Open
<1>6. \/ /\ \A k \in Others : k <= max_socket => k <= 0
         /\ Advance
      \/ /\ j' \in Others /\ j' > 0
         /\ \A k \in Others : k <= max_socket => k <= 0 \/ j' <= k
         /\ read' = Received /\ left' = Received /\ i' = i /\ pc' = "send"
    BY <1>1, <1>2, DeliverFacts DEF Inv
<1>7. \A k \in Others : k <= max_socket /\ k \in Nat \ {0} /\ k # i
    BY <1>2, <1>4 DEF Inv, MasterIsOpen, Others
<1>8. CASE Advance /\ \A k \in Others : k <= max_socket => k <= 0
    <2>1. Others = {}
        BY <1>7, <1>8
    <2>2. \A fd \in Open : fd = i
        BY <2>1, Descriptors DEF Inv, MasterIsOpen, Others, Open
    <2>3. \A fd \in Open' : peer'[sock'[fd]] # "reset" => out'[sock'[fd]] = due'[sock'[fd]]
        BY <1>1, <1>3, <1>4, <1>5, <2>2
    <2> QED BY <1>8, <2>3, AdvancePc, ScanDelivery
<1>9. CASE /\ j' \in Others
           /\ \A k \in Others : k <= max_socket => k <= 0 \/ j' <= k
           /\ read' = Received /\ left' = Received /\ i' = i /\ pc' = "send"
    <2>1. Others' = Others
        BY <1>1, <1>9 DEF Others
    <2>2. ASSUME NEW fd \in Open, peer[sock[fd]] # "reset"
          PROVE  out[sock[fd]] \o Owing(fd)' = due'[sock[fd]]
        <3>1. CASE fd = i
            <4>1. Owing(fd)' = <<>>
                BY <1>9, <3>1 DEF Owing
            <4> QED BY <1>3, <1>4, <2>2, <3>1, <4>1, ConcatEmptySeq
        <3>2. CASE fd # i
            <4>1. fd \in Others
                BY <3>2, Descriptors DEF Inv, MasterIsOpen, Others, Open
            <4>2. j' <= fd /\ j' \in Nat /\ fd \in Nat
                BY <1>7, <1>9, <4>1
            <4>3. Owing(fd)' = Received
                BY <1>9, <3>2, <4>2 DEF Owing
            <4> QED BY <1>3, <1>4, <2>2, <3>2, <4>3
        <3> QED BY <3>1, <3>2
    <2>3. UNCHANGED <<sock, peer, out>> /\ Open' = Open
        BY <1>1, <1>5
    <2>4. NobodyLagsBehind'
        BY <1>9 DEF NobodyLagsBehind
    <2>5. j' \in Others'
        BY <1>9, <2>1
    <2>6. ASSUME NEW fd \in Open', peer'[sock'[fd]] # "reset"
          PROVE  out'[sock'[fd]] \o Owing(fd)' = due'[sock'[fd]]
        BY <2>2, <2>3, <2>6
    <2> QED BY <2>4, <2>5, <2>6 DEF DeliveryInv
<1> QED BY <1>6, <1>8, <1>9

\* send() has returned: those up to j are served.
LEMMA SentDelivery ==
    ASSUME Inv, DeliveryInv, Sent(Others)
    PROVE  DeliveryInv'
<1>1. /\ pc = "send" /\ left = <<>> /\ Deliver(read, j, Others)
      /\ UNCHANGED <<master, sock, network, due>>
    BY DEF Sent
<1>2. /\ read \in Seq(Units) /\ Others \subseteq Open /\ Others \subseteq Fds
      /\ i \in Open /\ j \in Open /\ j \in Others /\ j \in Nat
    BY <1>1, OthersAreOpen, Descriptors DEF Inv, TypeOK, PassInv, DeliveryInv, Open
<1>3. Open' = Open /\ \A fd \in Open : fd \in Nat /\ fd # socket_listen
    BY <1>1, Descriptors DEF Open
<1>4. \/ /\ \A k \in Others : k <= max_socket => k <= j
         /\ Advance
      \/ /\ j' \in Others /\ j' > j
         /\ \A k \in Others : k <= max_socket => k <= j \/ j' <= k
         /\ read' = read /\ left' = read /\ i' = i /\ pc' = "send"
    BY <1>1, <1>2, DeliverFacts DEF Inv
<1>5. \A fd \in Open : fd <= max_socket /\ (fd # i => fd \in Others)
    BY <1>3 DEF Inv, MasterIsOpen, Others
<1>6. ASSUME NEW fd \in Open, peer[sock[fd]] # "reset"
      PROVE  /\ out[sock[fd]] \o Owing(fd) = due[sock[fd]]
             /\ fd = i \/ fd <= j => out[sock[fd]] = due[sock[fd]]
             /\ out[sock[fd]] \in Seq(Units)
    <2>1. out[sock[fd]] \o Owing(fd) = due[sock[fd]] /\ out[sock[fd]] \in Seq(Units)
        BY <1>1, <1>6, OpenIsConnected DEF DeliveryInv, Inv, TypeOK
    <2>2. fd = i \/ fd <= j => Owing(fd) = <<>>
        BY <1>1, <1>2, <1>3 DEF Owing
    <2> QED BY <2>1, <2>2, ConcatEmptySeq
<1>7. CASE Advance /\ \A k \in Others : k <= max_socket => k <= j
    <2>1. \A fd \in Open : fd = i \/ fd <= j
        BY <1>5, <1>7
    <2>2. \A fd \in Open' : peer'[sock'[fd]] # "reset" => out'[sock'[fd]] = due'[sock'[fd]]
        BY <1>1, <1>3, <1>6, <2>1 DEF network
    <2> QED BY <1>7, <2>2, AdvancePc, ScanDelivery
<1>8. CASE /\ j' \in Others /\ j' > j
           /\ \A k \in Others : k <= max_socket => k <= j \/ j' <= k
           /\ read' = read /\ left' = read /\ i' = i /\ pc' = "send"
    <2>1. Others' = Others
        BY <1>1, <1>8 DEF Others
    <2>2. ASSUME NEW fd \in Open, peer[sock[fd]] # "reset"
          PROVE  out[sock[fd]] \o Owing(fd)' = due[sock[fd]]
        <3>0. j' \in Nat /\ fd \in Nat /\ j \in Nat
            BY <1>2, <1>3, <1>8
        <3>1. CASE fd = i \/ fd <= j
            <4>1. Owing(fd)' = <<>>
                BY <1>8, <3>0, <3>1 DEF Owing
            <4> QED BY <1>6, <2>2, <3>1, <4>1, ConcatEmptySeq
        <3>2. CASE fd # i /\ ~ (fd <= j)
            <4>1. fd >= j'
                BY <1>5, <1>8, <3>0, <3>2
            <4>2. Owing(fd)' = read /\ Owing(fd) = read
                BY <1>8, <3>0, <3>2, <4>1 DEF Owing
            <4> QED BY <1>6, <2>2, <4>2
        <3> QED BY <3>1, <3>2
    <2> QED BY <1>1, <1>3, <1>8, <2>1, <2>2 DEF DeliveryInv, NobodyLagsBehind, network
<1> QED BY <1>4, <1>7, <1>8

LEMMA PeersDelivery ==
    ASSUME Inv, DeliveryInv, Peers
    PROVE  DeliveryInv'
<1>1. UNCHANGED <<process, out, due>>
    BY DEF Peers, Connect, Say, Shutdown, Reset, Read
<1>2. \A c \in Conns : peer[c] = "reset" => peer'[c] = "reset"
    BY DEF Peers, Connect, Say, Shutdown, Reset, Read, Inv, TypeOK
<1>3. \A fd \in Open : sock[fd] \in Conns
    BY OpenIsConnected
<1> QED BY <1>1, <1>2, <1>3, QuietDelivery DEF process

LEMMA NextDelivery == Inv /\ DeliveryInv /\ [Next]_vars => DeliveryInv'
<1> SUFFICES ASSUME Inv, DeliveryInv, [Next]_vars PROVE DeliveryInv'
    OBVIOUS
<1>1. CASE UNCHANGED vars
    BY <1>1, QuietDelivery DEF vars, process, network
<1>2. CASE Peers BY <1>2, PeersDelivery
<1>3. CASE Select
    <2>1. \A fd \in Open : peer[sock[fd]] # "reset" => out[sock[fd]] = due[sock[fd]]
        BY <1>3, NobodyLags DEF DeliveryInv, Select
    <2> QED BY <1>3, <2>1, ScanDelivery DEF Select, Open, network
<1>4. CASE SelectFails \/ AcceptFails \/ SendKilled
    BY <1>4, ScanDelivery DEF SelectFails, AcceptFails, SendKilled, Exit
<1>5. CASE Accept BY <1>5, AcceptDelivery
<1>6. CASE Broadcast BY <1>6, BroadcastDelivery
<1>7. CASE Disconnect BY <1>7, DisconnectDelivery
<1>8. CASE Send BY <1>8, SendDelivery
<1>9. CASE SendIgnored BY <1>9, SendIgnoredDelivery
<1>10. CASE Sent(Others) BY <1>10, SentDelivery
<1> QED BY <1>1, <1>2, <1>3, <1>4, <1>5, <1>6, <1>7, <1>8, <1>9, <1>10
        DEF Next, Server, Serve

LEMMA SpecDelivery == Spec => []DeliveryInv
<1>1. Init => DeliveryInv
    BY DEF Init, DeliveryInv, NobodyLagsBehind, InRoom, Open
<1>2. Inv /\ DeliveryInv /\ [Next]_vars => DeliveryInv'
    BY NextDelivery
<1> QED BY <1>1, <1>2, SpecInv, PTL DEF Spec

\* Whenever the server is between two visits, every client that has not reset
\* has been sent all that the others said since it was accepted.
THEOREM ChatNobodyLagsBehind == Spec => []NobodyLagsBehind
<1>1. DeliveryInv => NobodyLagsBehind
    BY DEF DeliveryInv
<1> QED BY <1>1, SpecDelivery, PTL

-----------------------------------------------------------------------------
\* What a send() copies is the next unit that is due.
LEMMA NextIsDue ==
    ASSUME Inv, DeliveryInv, Send
    PROVE  /\ Len(out[sock[j]]) + 1 \in 1 .. Len(due[sock[j]])
           /\ Head(left) = due[sock[j]][Len(out[sock[j]]) + 1]
           /\ out'[sock[j]] = SubSeq(due[sock[j]], 1, Len(out'[sock[j]]))
           /\ Len(out'[sock[j]]) \in 0 .. Len(due[sock[j]])
<1> DEFINE s == out[sock[j]]
           t == due[sock[j]]
<1>1. /\ j \in Open /\ j \in Others /\ j # i /\ ~ (j < j) /\ sock[j] \in Conns
      /\ left # <<>> /\ left \in Seq(Units) /\ s \in Seq(Units) /\ t \in Seq(Units)
    BY OpenIsConnected, Descriptors
       DEF Inv, TypeOK, PassInv, DeliveryInv, Others, Open, Send
<1>2. s \o left = t
    <2>1. Owing(j) = left
        BY <1>1 DEF Owing
    <2>2. s \o Owing(j) = t
        BY <1>1 DEF DeliveryInv, Send
    <2> QED BY <2>1, <2>2
<1>3. out'[sock[j]] = Append(s, Head(left))
    BY <1>1 DEF Send, Inv, TypeOK
<1> HIDE DEF s, t
<1>4. /\ Len(left) \in Nat \ {0} /\ Len(s) \in Nat
      /\ Len(t) = Len(s) + Len(left)
      /\ \A k \in 1 .. Len(s) + Len(left) :
            t[k] = IF k <= Len(s) THEN s[k] ELSE left[k - Len(s)]
    BY <1>1, <1>2, EmptySeq, LenProperties, ConcatProperties
<1>5. Len(s) + 1 \in 1 .. Len(t) /\ t[Len(s) + 1] = left[1]
    BY <1>4
<1>6. Head(left) = left[1]
    BY <1>1
<1>7. /\ Append(s, Head(left)) \in Seq(Units) /\ Tail(left) \in Seq(Units)
      /\ Append(s, Head(left)) \o Tail(left) = t
    BY <1>1, <1>2, MoveOne
<1>8. /\ Len(Append(s, Head(left))) \in 0 .. Len(t)
      /\ Append(s, Head(left)) = SubSeq(t, 1, Len(Append(s, Head(left))))
    BY <1>7, FirstIsPrefix
<1> QED BY <1>3, <1>5, <1>6, <1>8 DEF s, t

\* What a peer was sent is always a beginning of what it is due, also for a
\* peer that has gone.
THEOREM ChatSentIsDue == Spec => []SentIsDue
<1>1. Init => SentIsDue
    <2> SUFFICES ASSUME Init, NEW c \in Conns
                 PROVE  \E n \in 0 .. Len(due[c]) : out[c] = SubSeq(due[c], 1, n)
        BY DEF SentIsDue
    <2>1. out[c] = <<>> /\ due[c] = <<>> /\ Len(<<>>) = 0 /\ SubSeq(<<>>, 1, 0) = <<>>
        BY SubSeqEmpty DEF Init
    <2> QED BY <2>1
<1>2. Inv /\ DeliveryInv /\ SentIsDue /\ [Next]_vars => SentIsDue'
    <2> SUFFICES ASSUME Inv, DeliveryInv, SentIsDue, [Next]_vars
                 PROVE  SentIsDue'
        OBVIOUS
    <2>1. CASE UNCHANGED <<out, due>>
        BY <2>1 DEF SentIsDue
    <2>2. CASE Broadcast
        <3> SUFFICES ASSUME NEW c \in Conns
                     PROVE  \E n \in 0 .. Len(due'[c]) : out'[c] = SubSeq(due'[c], 1, n)
            BY DEF SentIsDue
        <3>1. /\ Received \in Seq(Units) /\ out' = out
              /\ due'[c] \in {due[c], due[c] \o Received}
            BY <2>2, ReceivedFacts DEF Broadcast, Receive
        <3>2. out[c] \in Seq(Units) /\ due[c] \in Seq(Units)
            BY DEF Inv, TypeOK
        <3>3. PICK n \in 0 .. Len(due[c]) : out[c] = SubSeq(due[c], 1, n)
            BY DEF SentIsDue
        <3>4. /\ n \in 0 .. Len(due[c] \o Received)
              /\ out[c] = SubSeq(due[c] \o Received, 1, n)
            BY <3>1, <3>2, <3>3, PrefixOfLonger
        <3> QED BY <3>1, <3>3, <3>4
    <2>3. CASE Send
        <3>1. /\ out'[sock[j]] = SubSeq(due[sock[j]], 1, Len(out'[sock[j]]))
              /\ Len(out'[sock[j]]) \in 0 .. Len(due[sock[j]])
            BY <2>3, NextIsDue
        <3>2. due' = due /\ \A c \in Conns \ {sock[j]} : out'[c] = out[c]
            BY <2>3 DEF Send, Inv, TypeOK
        <3> QED BY <3>1, <3>2 DEF SentIsDue
    <2>4. CASE \/ Select \/ SelectFails \/ Accept \/ AcceptFails \/ Disconnect
               \/ SendIgnored \/ SendKilled \/ Sent(Others) \/ Peers
        BY <2>1, <2>4 DEF Select, SelectFails, Accept, AcceptFails, Disconnect,
           SendIgnored, SendKilled, Sent, Exit, network,
           Peers, Connect, Say, Shutdown, Reset, Read
    <2> QED BY <2>1, <2>2, <2>3, <2>4 DEF Next, Server, Serve, vars, network
<1> QED BY <1>1, <1>2, SpecInv, SpecDelivery, PTL DEF Spec

-----------------------------------------------------------------------------
(* The room, and the clients. *)


Places == [c \in Conns |-> PlaceOf(c)]

\* A connection inside has a place of its own, apart from those outside.
LEMMA PlaceFacts ==
    ASSUME Inv
    PROVE  /\ \A c \in InRoom : peer[c] # "new" /\ c \notin Range(backlog) /\ c \in Conns
           /\ Abstract!Inside = InRoom
<1>1. \A c \in InRoom : peer[c] # "new" /\ c \notin Range(backlog) /\ c \in Conns
    BY OpenIsConnected DEF InRoom
<1>2. \A c \in Conns : PlaceOf(c) = "inside" <=> c \in InRoom
    BY DEF PlaceOf
<1> QED BY <1>1, <1>2 DEF Abstract!Inside

LEMMA SamePlaces ==
    ASSUME UNCHANGED <<sock, backlog>>,
           \A c \in Conns : peer'[c] = "new" <=> peer[c] = "new"
    PROVE  Places' = Places
BY DEF Places, PlaceOf, InRoom, Open

LEMMA InitRefines == Init => Abstract!RInit
<1> SUFFICES ASSUME Init PROVE Abstract!RInit
    OBVIOUS
<1>1. Places = [c \in Conns |-> "outside"]
    BY DEF Init, Places, PlaceOf, InRoom, Open
<1> QED BY <1>1 DEF Init, Abstract!RInit, Places, Up

\* accept() is entering.
LEMMA AcceptRefines ==
    ASSUME Inv, Accept
    PROVE  \E c \in Conns : Abstract!Enter(c)
<1> DEFINE fd == Min(Free)
           c == Head(backlog)
<1>1. fd \in Free
    BY FdsAssumption, MinOfNats DEF Accept, Free
<1>2. /\ sock' = [sock EXCEPT ![fd] = c] /\ pc = "scan" /\ Advance
      /\ backlog # <<>> /\ backlog' = Tail(backlog)
      /\ UNCHANGED <<peer, taken, out, due>>
    BY DEF Accept
<1>3. c \in Range(backlog) /\ c \in Conns /\ Range(backlog') = Range(backlog) \ {c}
    BY <1>2, DequeueFacts DEF Inv, TypeOK, BacklogIsFresh
<1> HIDE DEF fd, c
<1>4. /\ fd \in Fds /\ sock[fd] = NULL /\ c # NULL
      /\ \A gd \in Fds : sock'[gd] = IF gd = fd THEN c ELSE sock[gd]
    BY <1>1, <1>2, <1>3, ConnsAssumption DEF Inv, TypeOK, Free, Open
<1>5. InRoom' = InRoom \cup {c}
    <2>1. Open' = Open \cup {fd} /\ fd \notin Open
        BY <1>4 DEF Open
    <2> QED BY <1>4, <2>1 DEF InRoom, Open
<1>6. Places' = [Places EXCEPT ![c] = "inside"]
    BY <1>2, <1>3, <1>5 DEF Places, PlaceOf
<1>7. peer[c] # "new" /\ Places[c] = "outside"
    BY <1>3, PlaceFacts DEF Inv, BacklogIsFresh, Places, PlaceOf
<1>8. Up /\ Up'
    BY <1>2, AdvancePc DEF Up
<1> QED BY <1>2, <1>3, <1>6, <1>7, <1>8 DEF Abstract!Enter, Places

\* close() after the end of a peer is leaving.
LEMMA DisconnectRefines ==
    ASSUME Inv, Disconnect
    PROVE  \E c \in Conns : Abstract!Leave(c)
<1> DEFINE c == sock[i]
<1>1. /\ pc = "scan" /\ i # socket_listen /\ Advance
      /\ sock' = [sock EXCEPT ![i] = NULL] /\ peer[c] \in {"fin", "reset"}
      /\ UNCHANGED <<backlog, peer, taken, out, due>>
    BY DEF Disconnect, network
<1>2. i \in Open /\ i \in Fds /\ c \in Conns /\ c \in InRoom
    BY <1>1, VisitIsOpen DEF InRoom
<1>3. \A fd \in Fds : sock'[fd] = IF fd = i THEN NULL ELSE sock[fd]
    BY <1>1, <1>2 DEF Inv, TypeOK
<1>4. InRoom' = InRoom \ {c}
    <2>1. Open' = Open \ {i}
        BY <1>2, <1>3 DEF Open
    <2>2. \A fd \in Open' : sock'[fd] = sock[fd] /\ sock[fd] # c
        BY <1>2, <1>3, <2>1 DEF Open, Inv, MasterIsOpen
    <2> QED BY <1>2, <2>1, <2>2 DEF InRoom
<1>5. peer[c] # "new" /\ c \notin Range(backlog)
    BY <1>2, PlaceFacts
<1> HIDE DEF c
<1>6. Places' = [Places EXCEPT ![c] = "gone"]
    BY <1>1, <1>2, <1>4, <1>5 DEF Places, PlaceOf
<1>7. Places[c] = "inside"
    BY <1>2 DEF Places, PlaceOf
<1>8. Up /\ Up'
    BY <1>1, AdvancePc DEF Up
<1> QED BY <1>1, <1>2, <1>6, <1>7, <1>8 DEF Abstract!Leave, Places

\* recv() is speaking: by then everybody inside has heard everything.
LEMMA BroadcastRefines ==
    ASSUME Inv, DeliveryInv, Broadcast
    PROVE  \E c \in Conns : \E n \in 1 .. Len(Text[c]) : Abstract!Speak(c, n)
<1> DEFINE c == sock[i]
           n == Len(Received)
<1>1. /\ pc = "scan" /\ i # socket_listen /\ Unread(c) > 0
      /\ taken' = [taken EXCEPT ![c] = taken[c] + n]
      /\ due' = [d \in Conns |->
                   IF d \in InRoom \ {c} THEN due[d] \o Received ELSE due[d]]
      /\ Deliver(Received, 0, Others)
      /\ UNCHANGED <<sock, backlog, peer, out>>
    BY DEF Broadcast, Receive
<1>2. c \in Conns /\ c \in InRoom
    BY <1>1, VisitIsOpen DEF InRoom
<1>3. n \in 1 .. Unread(c) /\ Received = SubSeq(Text[c], taken[c] + 1, taken[c] + n)
    BY <1>1, ReceivedFacts
<1>4. /\ Len(Text[c]) \in Nat /\ sent[c] \in Nat /\ taken[c] \in Nat
      /\ sent[c] <= Len(Text[c])
    BY <1>2, TextAssumption, LenProperties DEF Inv, TypeOK
<1> HIDE DEF c, n
<1>5. n \in 1 .. Len(Text[c]) /\ taken[c] + n <= Len(Text[c])
    <2>1. n \in Nat \ {0} /\ n <= sent[c] - taken[c]
        BY <1>3, <1>4 DEF Unread
    <2> QED BY <1>4, <2>1
<1>6. \A d \in InRoom : peer[d] # "reset" => out[d] = due[d]
    BY <1>1 DEF DeliveryInv, NobodyLagsBehind
<1>7. Places' = Places
    BY <1>1, SamePlaces
<1>8. Places[c] = "inside"
    BY <1>2 DEF Places, PlaceOf
<1>9. Up /\ Up'
    BY <1>1 DEF Up, Deliver, Advance
<1>10. due' = [d \in Conns |->
                 IF d \in Abstract!Inside \ {c}
                 THEN due[d] \o SubSeq(Text[c], taken[c] + 1, taken[c] + n)
                 ELSE due[d]]
    BY <1>1, <1>3, PlaceFacts
<1>11. Abstract!Speak(c, n)
    BY <1>1, <1>5, <1>6, <1>7, <1>8, <1>9, <1>10, PlaceFacts
       DEF Abstract!Speak, Places
<1> QED BY <1>2, <1>5, <1>11

\* Each unit that send() copies is heard.
LEMMA SendRefines ==
    ASSUME Inv, DeliveryInv, Send
    PROVE  \E c \in Conns : Abstract!Hear(c)
<1> DEFINE c == sock[j]
<1>1. /\ pc = "send" /\ peer[c] # "reset"
      /\ out' = [out EXCEPT ![c] = Append(out[c], Head(left))]
      /\ UNCHANGED <<pc, sock, backlog, taken, peer, due>>
    BY DEF Send
<1>2. c \in Conns /\ c \in InRoom
    BY <1>1, OpenIsConnected DEF Inv, PassInv, InRoom
<1>3. /\ Len(out[c]) + 1 \in 1 .. Len(due[c])
      /\ Head(left) = due[c][Len(out[c]) + 1]
    BY NextIsDue
<1>4. Len(out[c]) < Len(due[c])
    <2>1. Len(out[c]) \in Nat /\ Len(due[c]) \in Nat
        BY <1>2, LenProperties DEF Inv, TypeOK
    <2> QED BY <1>3, <2>1
<1> HIDE DEF c
<1>5. Places' = Places /\ Places[c] = "inside"
    BY <1>1, <1>2, SamePlaces DEF Places, PlaceOf
<1>6. Up /\ Up'
    BY <1>1 DEF Up
<1>7. Abstract!Hear(c)
    BY <1>1, <1>2, <1>3, <1>4, <1>5, <1>6 DEF Abstract!Hear, Places
<1> QED BY <1>2, <1>7

\* What peers do is a step of the room, or nothing it can see.
LEMMA PeersRefine ==
    ASSUME Inv, Peers
    PROVE  \/ UNCHANGED Abstract!vars
           \/ \E c \in Conns : Abstract!Dial(c) \/ Abstract!HangUp(c) \/ Abstract!Break(c)
<1>1. PICK c \in Conns : Connect(c) \/ Say(c) \/ Shutdown(c) \/ Reset(c) \/ Read(c)
    BY DEF Peers
<1>2. UNCHANGED <<process, taken, out, due>> /\ Up' = Up
    BY <1>1 DEF Connect, Say, Shutdown, Reset, Read, process, Up
<1>3. CASE Connect(c)
    <2>1. /\ peer[c] = "new" /\ peer' = [peer EXCEPT ![c] = "open"]
          /\ backlog' = Append(backlog, c)
        BY <1>3 DEF Connect
    <2>2. Range(backlog') = Range(backlog) \cup {c}
        BY <2>1, EnqueueFacts DEF Inv, TypeOK, BacklogIsFresh
    <2>3. \A d \in Conns : peer'[d] = IF d = c THEN "open" ELSE peer[d]
        BY <2>1 DEF Inv, TypeOK
    <2>4. Places' = Places
        BY <1>2, <2>1, <2>2, <2>3 DEF Places, PlaceOf, InRoom, Open, process
    <2>5. Abstract!Dial(c)
        BY <1>2, <2>1, <2>4 DEF Abstract!Dial, Places
    <2> QED BY <2>5
<1>4. CASE Shutdown(c) \/ Reset(c)
    <2>1. backlog' = backlog /\ \A d \in Conns : peer'[d] = "new" <=> peer[d] = "new"
        BY <1>4 DEF Shutdown, Reset, Inv, TypeOK
    <2>2. Places' = Places
        BY <1>2, <2>1, SamePlaces DEF process
    <2>3. Abstract!HangUp(c) \/ Abstract!Break(c)
        BY <1>2, <1>4, <2>2 DEF Shutdown, Reset, Abstract!HangUp, Abstract!Break, Places
    <2> QED BY <2>3
<1>5. CASE Say(c) \/ Read(c)
    <2>1. backlog' = backlog /\ peer' = peer
        BY <1>5 DEF Say, Read
    <2>2. Places' = Places
        BY <1>2, <2>1, SamePlaces DEF process
    <2> QED BY <1>2, <2>1, <2>2 DEF Abstract!vars, Places
<1> QED BY <1>1, <1>3, <1>4, <1>5

\* Every step of the server and of its peers is a step of the room or a stutter.
LEMMA NextRefines ==
    ASSUME Inv, DeliveryInv, [Next]_vars
    PROVE  [Abstract!RNext]_Abstract!vars
<1> DEFINE Quiet == UNCHANGED Abstract!vars
<1>1. ASSUME UNCHANGED <<sock, backlog, taken, peer, out, due>>
      PROVE  Places' = Places
    BY <1>1, SamePlaces
<1>2. ASSUME UNCHANGED <<sock, backlog, taken, peer, out, due>>, Up' = Up
      PROVE  Quiet
    BY <1>1, <1>2 DEF Abstract!vars, Places
<1>3. CASE UNCHANGED vars
    BY <1>2, <1>3 DEF vars, process, network, Up
<1>4. CASE Select \/ SendIgnored \/ Sent(Others)
    <2>1. UNCHANGED <<sock, backlog, taken, peer, out, due>>
        BY <1>4 DEF Select, SendIgnored, Sent, network
    <2>2. Up' = Up
        BY <1>4 DEF Select, SendIgnored, Sent, Deliver, Advance, Up
    <2> QED BY <1>2, <2>1, <2>2
<1>5. CASE SelectFails \/ AcceptFails \/ SendKilled
    <2>1. UNCHANGED <<sock, backlog, taken, peer, out, due>>
        BY <1>5 DEF SelectFails, AcceptFails, SendKilled, Exit, network
    <2>2. Up /\ Up' = FALSE
        BY <1>5 DEF SelectFails, AcceptFails, SendKilled, Exit, Up
    <2>3. Abstract!End
        BY <1>1, <2>1, <2>2 DEF Abstract!End, Places
    <2> QED BY <2>2, <2>3 DEF Abstract!RNext
<1>6. CASE Accept
    BY <1>6, AcceptRefines DEF Accept, Up, Abstract!RNext
<1>7. CASE Broadcast
    BY <1>7, BroadcastRefines DEF Broadcast, Receive, Up, Abstract!RNext
<1>8. CASE Disconnect
    BY <1>8, DisconnectRefines DEF Disconnect, Up, Abstract!RNext
<1>9. CASE Send
    BY <1>9, SendRefines DEF Send, Up, Abstract!RNext
<1>10. CASE Peers
    <2>1. Up
        BY <1>10 DEF Peers, Connect, Say, Shutdown, Reset, Read
    <2> QED BY <1>10, <2>1, PeersRefine DEF Abstract!RNext
<1> QED BY <1>3, <1>4, <1>5, <1>6, <1>7, <1>8, <1>9, <1>10 DEF Next, Server, Serve

\* The server keeps every promise of the room: nobody speaks before all have
\* heard the last speaker, nobody hears himself, hears anything twice, out of
\* order or from before he came, and nobody leaves who did not hang up.
THEOREM ChatImplementsRoom == Spec => ImplementsRoom
<1>1. Init => Abstract!RInit
    BY InitRefines
<1>2. Inv /\ DeliveryInv /\ [Next]_vars => [Abstract!RNext]_Abstract!vars
    BY NextRefines
<1> QED BY <1>1, <1>2, SpecInv, SpecDelivery, PTL DEF Spec, ImplementsRoom, Abstract!Room

-----------------------------------------------------------------------------
\* Whatever a client does is, to the server, something a peer may do.
LEMMA ClientIsPeer ==
    ASSUME NEW c \in Conns, Client(c)
    PROVE  Peers \/ UNCHANGED vars
<1>1. CASE Type(c) \/ EndInput(c)
    BY <1>1 DEF Type, EndInput
<1>2. CASE Start(c)
    BY <1>2 DEF Start, Peers
<1>3. CASE RecvText(c)
    BY <1>3 DEF RecvText, Peers
<1>4. CASE GetLine(c)
    BY <1>4 DEF GetLine
<1>5. CASE SendText(c)
    BY <1>5 DEF SendText, Peers
<1>6. CASE EndOfInput(c) \/ Interrupt(c)
    BY <1>6 DEF EndOfInput, Interrupt, Close, Peers
<1>7. CASE Refuse(c)
    BY <1>7 DEF Refuse, Peers
<1> QED BY <1>1, <1>2, <1>3, <1>4, <1>5, <1>6, <1>7 DEF Client, Work

\* The system is a chat server with peers: the clients of the repository do
\* nothing that the model of the server alone left out.
THEOREM SystemIsChatServer == System => IsChatServer
<1>1. SystemInit => Init
    BY DEF SystemInit
<1>2. [SystemNext]_<<vars, cvars>> => [Next]_vars
    BY ClientIsPeer DEF SystemNext, Next
<1> QED BY <1>1, <1>2, PTL DEF System, Spec, IsChatServer

\* So with any number of clients of the repository, whatever their users enter,
\* nobody lags behind when the server is back in its scan.
THEOREM SystemNobodyLags == System => []NobodyLagsBehind
BY SystemIsChatServer, ChatNobodyLagsBehind, PTL DEF IsChatServer

\* Nor do they see more of it than the room.
THEOREM SystemImplementsRoom == System => ImplementsRoom
BY SystemIsChatServer, ChatImplementsRoom, PTL DEF IsChatServer

\* Likewise no accept() or recv() of the server blocks.
THEOREM SystemNeverBlocks == System => []NeverBlocksOnReady
BY SystemIsChatServer, ChatNeverBlocks, PTL DEF IsChatServer
-----------------------------------------------------------------------------
\* A number of whole lines: what a user enters and fgets() returns.
WholeLines(n) == \E k \in Nat : n = k * LineSize

\* The last send() of a line is at its end only because input, buffer and line are
\* all counted in whole lines.
ClientInv ==
    /\ {sent, typed, fetched, given} \subseteq [Conns -> Nat]
    /\ \A c \in Conns : WholeLines(typed[c]) /\ WholeLines(fetched[c]) /\ WholeLines(given[c])
    /\ ClientTypeOK

\* Where there is more there is a line more.
LEMMA NextLine ==
    ASSUME NEW m \in Nat, NEW n \in Nat, WholeLines(m), WholeLines(n)
    PROVE  /\ WholeLines(m + LineSize)
           /\ m < n => m + LineSize <= n
<1>1. LineSize \in Nat /\ LineSize > 0
    BY ClientAssumption
<1>2. PICK a \in Nat : m = a * LineSize
    BY DEF WholeLines
<1>3. PICK b \in Nat : n = b * LineSize
    BY DEF WholeLines
<1>4. (a + 1) * LineSize = m + LineSize /\ a + 1 \in Nat
    BY <1>1, <1>2
<1>5. m < n => m + LineSize <= n
    <2>1. CASE b <= a
        <3>1. b * LineSize <= a * LineSize
            BY <1>1, <2>1
        <3> QED BY <1>2, <1>3, <3>1
    <2>2. CASE a + 1 <= b
        <3>1. (a + 1) * LineSize <= b * LineSize
            BY <1>1, <2>2
        <3> QED BY <1>3, <1>4, <3>1
    <2> QED BY <2>1, <2>2
<1> QED BY <1>4, <1>5 DEF WholeLines

\* Nothing is typed at the start.
LEMMA ClientInitInv == SystemInit => ClientInv
<1> SUFFICES ASSUME SystemInit PROVE ClientInv
    OBVIOUS
<1>1. /\ at = [c \in Conns |-> "off"] /\ ended = {}
      /\ \A f \in {sent, typed, fetched, given} : f = [c \in Conns |-> 0]
    BY DEF SystemInit, Init, ClientInit
<1>2. WholeLines(0)
    <2>1. 0 = 0 * LineSize
        BY ClientAssumption
    <2> QED BY <2>1 DEF WholeLines
<1>3. \A c \in Conns : Len(Text[c]) \in Nat
    BY TextAssumption, LenProperties
<1> QED BY <1>1, <1>2, <1>3 DEF ClientInv, ClientTypeOK

\* Every step of a client, and of the server, which touches nothing of it.
LEMMA ClientNextInv == Inv /\ ClientInv /\ [SystemNext]_<<vars, cvars>> => ClientInv'
<1> SUFFICES ASSUME Inv, ClientInv, [SystemNext]_<<vars, cvars>> PROVE ClientInv'
    OBVIOUS
<1>0. /\ sent \in [Conns -> Nat] /\ typed \in [Conns -> Nat]
      /\ fetched \in [Conns -> Nat] /\ given \in [Conns -> Nat]
      /\ \A c \in Conns : Len(Text[c]) \in Nat
      /\ LineSize \in Nat /\ LineSize > 0
    BY TextAssumption, LenProperties, ClientAssumption DEF ClientInv
<1>1. CASE UNCHANGED <<sent, cvars>>
    BY <1>1 DEF ClientInv, ClientTypeOK, cvars
<1>2. CASE Server /\ UNCHANGED cvars
    <2>1. sent' = sent
        BY <1>2 DEF Server, Serve, Select, SelectFails, Accept, AcceptFails, Broadcast, Receive,
                    Disconnect, Send, SendIgnored, SendKilled, Sent, Exit, network
    <2> QED BY <1>1, <1>2, <2>1
<1>3. ASSUME NEW c \in Conns, Client(c) PROVE ClientInv'
    <2>1. CASE Type(c)
        <3>1. /\ typed' = [typed EXCEPT ![c] = typed[c] + LineSize]
              /\ typed[c] + LineSize <= Min({Len(Text[c]), given[c] + TypeAhead})
              /\ UNCHANGED <<sent, at, fetched, given, ended>>
            BY <2>1 DEF Type, vars, network
        <3>2. typed[c] + LineSize <= Len(Text[c])
            <4>1. Len(Text[c]) \in Int /\ given[c] + TypeAhead \in Int
                BY <1>0, ClientAssumption
            <4>2. /\ Min({Len(Text[c]), given[c] + TypeAhead}) \in Int
                  /\ Min({Len(Text[c]), given[c] + TypeAhead}) <= Len(Text[c])
                BY <4>1, MinOfTwo
            <4> QED BY <1>0, <3>1, <4>2
        <3>3. WholeLines(typed[c] + LineSize)
            BY <1>0, NextLine DEF ClientInv
        <3> QED BY <1>0, <3>1, <3>2, <3>3, SMTT(40) DEF ClientInv, ClientTypeOK
    <2>2. CASE EndInput(c)
        BY <2>2 DEF EndInput, vars, network, ClientInv, ClientTypeOK
    <2>3. CASE Start(c) \/ RecvText(c)
        <3>1. /\ at[c] \in {"off", "loop"} /\ UNCHANGED <<sent, typed, fetched, given, ended>>
              /\ \E p \in {"loop", "line"} : at' = [at EXCEPT ![c] = p]
            BY <2>3 DEF Start, Connect, RecvText, Read
        <3> QED BY <3>1 DEF ClientInv, ClientTypeOK
    <2>4. CASE GetLine(c)
        <3>1. /\ given[c] < typed[c]
              /\ given' = [given EXCEPT ![c] = given[c] + LineSize]
              /\ \E n \in {fetched[c], given[c] + LineSize, typed[c]} :
                    /\ fetched' = [fetched EXCEPT ![c] = n]
                    /\ given[c] < fetched[c] => n = fetched[c]
                    /\ ~ (given[c] < fetched[c]) => n \in {given[c] + LineSize, typed[c]}
              /\ at' = [at EXCEPT ![c] = "send"]
              /\ UNCHANGED <<sent, typed, ended>>
            BY <1>0, <2>4 DEF GetLine, vars, network
        <3>2. PICK n \in {fetched[c], given[c] + LineSize, typed[c]} :
                    /\ fetched' = [fetched EXCEPT ![c] = n]
                    /\ given[c] < fetched[c] => n = fetched[c]
                    /\ ~ (given[c] < fetched[c]) => n \in {given[c] + LineSize, typed[c]}
            BY <3>1
        <3>3. /\ sent[c] <= given[c] /\ given[c] <= fetched[c] /\ fetched[c] <= typed[c]
              /\ WholeLines(given[c]) /\ WholeLines(fetched[c]) /\ WholeLines(typed[c])
            BY DEF ClientInv, ClientTypeOK
        <3>4. /\ WholeLines(given[c] + LineSize)
              /\ given[c] + LineSize <= typed[c]
              /\ given[c] < fetched[c] => given[c] + LineSize <= fetched[c]
            BY <1>0, <3>1, <3>3, NextLine
        <3>5. n \in Nat /\ WholeLines(n) /\ given[c] + LineSize <= n /\ n <= typed[c]
            BY <1>0, <3>2, <3>3, <3>4
        <3>6. sent[c] <= given[c] + LineSize /\ given[c] + LineSize \in Nat
            BY <1>0, <3>3
        <3> QED BY <1>0, <3>1, <3>2, <3>4, <3>5, <3>6 DEF ClientInv, ClientTypeOK
    <2>5. CASE SendText(c)
        <3>1. /\ at[c] = "send"
              /\ \E n \in 1 .. Len(Text[c]) - sent[c] : sent' = [sent EXCEPT ![c] = sent[c] + n]
              /\ sent'[c] = Min({given[c], taken[c] + RcvBuf})
              /\ at' = [at EXCEPT ![c] = IF sent'[c] = given[c] THEN "loop" ELSE "send"]
              /\ UNCHANGED <<typed, fetched, given, ended>>
            BY <2>5 DEF SendText, Say
        <3>2. sent'[c] <= given[c]
            <4>1. given[c] \in Int /\ taken[c] + RcvBuf \in Int
                BY <1>0, ClientAssumption DEF Inv, TypeOK
            <4> QED BY <3>1, <4>1, MinOfTwo
        <3>3. sent' \in [Conns -> Nat] /\ \A d \in Conns : d # c => sent'[d] = sent[d]
            BY <1>0, <3>1
        <3> QED BY <1>0, <3>1, <3>2, <3>3 DEF ClientInv, ClientTypeOK
    <2>6. CASE EndOfInput(c) \/ Interrupt(c)
        <3>1. /\ UNCHANGED <<sent, typed, fetched, given, ended>>
              /\ at' = [at EXCEPT ![c] = "gone"]
            BY <2>6 DEF EndOfInput, Interrupt, Close, Shutdown, Reset
        <3> QED BY <3>1 DEF ClientInv, ClientTypeOK
    <2>7. CASE Refuse(c)
        BY <1>1, <2>7 DEF Refuse, Reset
    <2> QED BY <1>3, <2>1, <2>2, <2>3, <2>4, <2>5, <2>6, <2>7 DEF Client, Work
<1> QED BY <1>1, <1>2, <1>3 DEF SystemNext, vars, network

\* Nothing typed is lost, doubled or sent early, for any number of clients, any size
\* of lines and buffers, and standard input of either kind.
THEOREM SystemClientsSend == System => []ClientTypeOK
<1>1. System => []Inv
    BY SystemIsChatServer, SpecInv, PTL DEF IsChatServer
<1>2. System => []ClientInv
    BY <1>1, ClientInitInv, ClientNextInv, PTL DEF System
<1>3. ClientInv => ClientTypeOK
    BY DEF ClientInv
<1> QED BY <1>2, <1>3, PTL

-----------------------------------------------------------------------------
\* The hypotheses of the last theorem: two clients, and buffers that hold a line
\* with two reads of the server to spare.
TwoClients == \A c, d, e \in Conns : c = d \/ d = e \/ c = e
RoomToSpare ==
    /\ LineSize <= ClientRead
    /\ LineSize + 2 * ReadSize <= Window + 1
    /\ LineSize + 2 * ReadSize <= RcvBuf + 1

\* What the client has been sent and has not read.
Unseen(c) == Len(out[c]) - seen[c]

\* What the client has read of its input, or will before it looks at its socket
\* again, and the server has not received.
Committed(c) == given[c] - taken[c] + (IF at[c] = "line" THEN LineSize ELSE 0)

\* What the running send() still has for it.
Coming(c) == IF pc = "send" /\ sock[j] = c THEN Len(left) ELSE 0

\* What each buffer holds at most.  A client is sent only what the other has said.
FlowInv ==
    /\ \A c \in Conns : /\ Unread(c) <= RcvBuf
                         /\ Unseen(c) <= Window
                         /\ given[c] <= sent[c] + LineSize
    /\ pc = "send" => Len(left) <= ReadSize
    /\ \A c, d \in Conns :
          c # d /\ taken[d] = 0 => out[c] = <<>> /\ ~ (pc = "send" /\ sock[j] = c)

\* The sizes are positive numbers.
LEMMA Sizes == {ReadSize, Window, RcvBuf, LineSize, ClientRead} \subseteq Nat \ {0}
BY LimitsAssumption, ClientAssumption

\* With two clients no three descriptors are open.
LEMMA TwoOpen ==
    ASSUME TwoClients, Inv, NEW d \in Open, NEW e \in Open, NEW f \in Open
    PROVE  d = e \/ e = f \/ d = f
<1>1. {sock[d], sock[e], sock[f]} \subseteq Conns
    BY OpenIsConnected
<1>2. sock[d] = sock[e] \/ sock[e] = sock[f] \/ sock[d] = sock[f]
    BY <1>1 DEF TwoClients
<1> QED BY <1>2 DEF Inv, MasterIsOpen

\* What the invariants count are natural numbers.
LEMMA Quantities ==
    ASSUME Inv, ClientInv, NEW c \in Conns
    PROVE  /\ {Len(out[c]), seen[c], sent[c], taken[c], given[c], Len(left)} \subseteq Nat
           /\ seen[c] <= Len(out[c]) /\ taken[c] <= sent[c] /\ sent[c] <= given[c]
           /\ Unseen(c) \in Nat /\ Committed(c) \in Nat /\ Coming(c) \in Nat
           /\ Unread(c) \in Nat
<1>1. /\ {Len(out[c]), seen[c], sent[c], taken[c], given[c], Len(left)} \subseteq Nat
      /\ seen[c] <= Len(out[c]) /\ taken[c] <= sent[c] /\ sent[c] <= given[c]
    BY LenProperties DEF Inv, TypeOK, ClientInv, ClientTypeOK
<1>2. LineSize \in Nat
    BY Sizes
<1>3. Unseen(c) \in Nat /\ Unread(c) \in Nat
    BY <1>1 DEF Unseen, Unread
<1>4. given[c] - taken[c] \in Nat
    BY <1>1
<1>5. Committed(c) \in Nat /\ Coming(c) \in Nat
    BY <1>1, <1>2, <1>4 DEF Committed, Coming
<1> QED BY <1>1, <1>3, <1>5

\* recv() returns at most ReadSize units, and all there are where it returns fewer.
LEMMA ReceivedSize ==
    ASSUME Inv, pc = "scan", i # socket_listen, Unread(sock[i]) > 0
    PROVE  Len(Received) <= ReadSize /\ Len(Received) \in {Unread(sock[i]), ReadSize}
<1> DEFINE c == sock[i]
           r == Min({Unread(c), ReadSize})
<1>1. /\ c \in Conns /\ taken[c] \in Nat /\ sent[c] \in Nat
      /\ Text[c] \in Seq(Units) /\ Len(Text[c]) \in Nat /\ sent[c] <= Len(Text[c])
      /\ Unread(c) \in Nat \ {0}
    BY VisitIsOpen, TextAssumption, LenProperties DEF Inv, TypeOK, Unread
<1>2. r \in {Unread(c), ReadSize} /\ r <= Unread(c) /\ r <= ReadSize
    <2>1. Unread(c) \in Int /\ ReadSize \in Int
        BY <1>1, Sizes
    <2> QED BY <2>1, MinOfTwo
<1> HIDE DEF r
<1>3. r \in Nat \ {0} /\ taken[c] + r <= Len(Text[c])
    BY <1>1, <1>2, Sizes DEF Unread
<1>4. Len(SubSeq(Text[c], taken[c] + 1, taken[c] + r)) = r
    BY <1>1, <1>3, PartFacts
<1> QED BY <1>2, <1>4 DEF Received, r

\* With two clients the send() to the other is the last of a broadcast.
LEMMA LastOfTwo ==
    ASSUME TwoClients, Inv, DeliveryInv, Sent(Others)
    PROVE  Advance /\ pc' \in {"select", "scan"}
<1>1. pc = "send" /\ Deliver(read, j, Others)
    BY DEF Sent
<1>2. /\ read \in Seq(Units) /\ Others \subseteq Fds /\ Others \subseteq Open
      /\ j \in Others /\ i \in Open /\ i \notin Others /\ j \in Nat
    BY <1>1, OthersAreOpen, Descriptors DEF Inv, TypeOK, PassInv, DeliveryInv, Others, Open
<1>3. ASSUME j' \in Others, j' > j PROVE FALSE
    <2>1. j' \in Open /\ j \in Open /\ j' # i /\ j # i
        BY <1>2, <1>3
    <2>2. j' = j
        BY <1>2, <2>1, TwoOpen
    <2> QED BY <1>2, <1>3, <2>2
<1> QED BY <1>1, <1>2, <1>3, DeliverFacts, AdvancePc DEF Inv

\* The bounds of the buffers hold at the start.
LEMMA FlowInit == SystemInit => FlowInv
<1> SUFFICES ASSUME SystemInit PROVE FlowInv
    OBVIOUS
<1>1. /\ \A f \in {sent, taken, seen, given} : f = [c \in Conns |-> 0]
      /\ out = [c \in Conns |-> <<>>] /\ pc = "select" /\ Len(<<>>) = 0
    BY DEF SystemInit, Init, ClientInit
<1> QED BY <1>1, Sizes DEF FlowInv, Unread, Unseen

\* A broadcast goes to the other client, as much of it as recv() returned.
LEMMA BroadcastTargets ==
    ASSUME Inv, Broadcast
    PROVE  /\ i \in Open /\ sock[i] \in Conns /\ UNCHANGED <<sock, reads, out, seen, sent>>
           /\ taken' = [taken EXCEPT ![sock[i]] = taken[sock[i]] + Len(Received)]
           /\ Len(Received) \in Nat \ {0} /\ Len(Received) <= ReadSize
           /\ Len(Received) \in {Unread(sock[i]), ReadSize}
           /\ pc' \in {"select", "scan", "send"}
           /\ pc' = "send" => /\ j' \in Open /\ j' # i /\ i' = i
                             /\ left' = Received /\ sock'[j'] # sock[i]
           /\ pc' # "send" => Open \subseteq {i}
<1>1. /\ pc = "scan" /\ i # socket_listen /\ Unread(sock[i]) > 0
      /\ taken' = [taken EXCEPT ![sock[i]] = taken[sock[i]] + Len(Received)]
      /\ Deliver(Received, 0, Others)
      /\ UNCHANGED <<sock, reads, out, seen, sent>>
    BY DEF Broadcast, Receive
<1>2. i \in Open /\ sock[i] \in Conns /\ Unread(sock[i]) \in Nat
    <2>1. i \in Open /\ sock[i] \in Conns
        BY <1>1, VisitIsOpen
    <2> QED BY <2>1 DEF Inv, TypeOK, Unread
<1>3. /\ Len(Received) \in Nat \ {0} /\ Len(Received) <= ReadSize
      /\ Len(Received) \in {Unread(sock[i]), ReadSize} /\ Received \in Seq(Units)
    BY <1>1, <1>2, ReceivedFacts, ReceivedSize
<1>4. Others \subseteq Fds /\ Others \subseteq Open /\ i \notin Others
    BY OthersAreOpen DEF Others, Open
<1>5. \/ /\ \A k \in Others : k <= max_socket => k <= 0
         /\ Advance
      \/ j' \in Others /\ left' = Received /\ i' = i /\ pc' = "send"
    BY <1>1, <1>3, <1>4, DeliverFacts DEF Inv
<1>6. CASE Advance /\ \A k \in Others : k <= max_socket => k <= 0
    <2>1. \A k \in Open : k \in master /\ k # socket_listen /\ k \in Nat \ {0} /\ k <= max_socket
        BY FdsAssumption DEF Inv, MasterIsOpen, Open
    <2>2. Open \subseteq {i}
        BY <1>6, <2>1 DEF Others
    <2> QED BY <1>1, <1>2, <1>3, <1>6, <2>2, AdvancePc
<1>7. CASE j' \in Others /\ left' = Received /\ i' = i /\ pc' = "send"
    <2>1. j' \in Open /\ j' # i /\ sock'[j'] # sock[i]
        BY <1>1, <1>2, <1>4, <1>7 DEF Inv, MasterIsOpen
    <2> QED BY <1>1, <1>2, <1>3, <1>7, <2>1
<1> QED BY <1>5, <1>6, <1>7

\* A step of a client changes what it holds of itself, and of the server nothing.
LEMMA ClientFlow ==
    ASSUME Inv, ClientInv, FlowInv, NEW c \in Conns, Client(c)
    PROVE  FlowInv'
<1>1. UNCHANGED <<process, taken, out>>
    BY DEF Client, Work, Type, EndInput, Start, RecvText, GetLine, SendText, EndOfInput,
           Interrupt, Close, Refuse, Connect, Say, Shutdown, Reset, Read, vars, network
<1>2. \A d \in Conns : /\ {Len(out[d]), seen[d], sent[d], taken[d], given[d]} \subseteq Nat
                       /\ sent[d] <= given[d] /\ taken[d] <= sent[d]
                       /\ sent[d] - taken[d] <= RcvBuf /\ Len(out[d]) - seen[d] <= Window
                       /\ given[d] <= sent[d] + LineSize
    BY Quantities DEF FlowInv, Unread, Unseen
<1>3. \A d \in Conns : /\ sent'[d] - taken[d] <= RcvBuf
                       /\ Len(out[d]) - seen'[d] <= Window
                       /\ given'[d] <= sent'[d] + LineSize
    <2>1. CASE UNCHANGED <<sent, seen, given>>
        BY <1>2, <2>1
    <2>2. CASE Read(c) /\ UNCHANGED <<sent, given>>
        <3>1. PICK n \in 1 .. Len(out[c]) - seen[c] : seen' = [seen EXCEPT ![c] = seen[c] + n]
            BY <2>2 DEF Read
        <3>2. \A d \in Conns : seen'[d] = IF d = c THEN seen[c] + n ELSE seen[d]
            BY <3>1 DEF Inv, TypeOK
        <3> QED BY <1>2, <2>2, <3>1, <3>2, Sizes, SMTT(40)
    <2>3. CASE GetLine(c)
        <3>1. /\ at[c] \in {"line", "loop"} /\ UNCHANGED <<sent, seen>>
              /\ given' = [given EXCEPT ![c] = given[c] + LineSize]
            BY <2>3 DEF GetLine, AtInput, vars, network
        <3>2. sent[c] = given[c]
            BY <3>1 DEF ClientInv, ClientTypeOK
        <3>3. \A d \in Conns : given'[d] = IF d = c THEN given[c] + LineSize ELSE given[d]
            BY <3>1 DEF ClientInv
        <3> QED BY <1>2, <3>1, <3>2, <3>3, Sizes
    <2>4. CASE SendText(c)
        <3>1. PICK n \in 1 .. Len(Text[c]) - sent[c] : sent' = [sent EXCEPT ![c] = sent[c] + n]
            BY <2>4 DEF SendText, Say
        <3>2. sent'[c] = Min({given[c], taken[c] + RcvBuf}) /\ UNCHANGED <<given, seen>>
            BY <2>4 DEF SendText, Say
        <3>3. sent'[c] <= taken[c] + RcvBuf
            <4>1. given[c] \in Int /\ taken[c] + RcvBuf \in Int
                BY <1>2, Sizes
            <4> QED BY <3>2, <4>1, MinOfTwo
        <3>4. \A d \in Conns : sent'[d] = IF d = c THEN sent[c] + n ELSE sent[d]
            BY <3>1 DEF Inv, TypeOK
        <3>5. Len(Text[c]) \in Nat
            BY TextAssumption, LenProperties
        <3> QED BY <1>2, <3>1, <3>2, <3>3, <3>4, <3>5, Sizes, SMTT(40)
    <2>5. CASE Type(c) \/ EndInput(c) \/ Start(c) \/ EndOfInput(c) \/ Interrupt(c) \/ Refuse(c)
        <3>1. UNCHANGED <<sent, seen, given>>
            BY <2>5 DEF Type, EndInput, Start, EndOfInput, Interrupt, Close, Refuse, Connect,
               Shutdown, Reset, vars, network, cvars
        <3> QED BY <2>1, <3>1
    <2>6. CASE RecvText(c)
        BY <2>2, <2>6 DEF RecvText, Read
    <2> QED BY <2>1, <2>2, <2>3, <2>4, <2>5, <2>6 DEF Client, Work
<1>4. \A d \in Conns : Unread(d)' = sent'[d] - taken[d] /\ Unseen(d)' = Len(out[d]) - seen'[d]
    BY <1>1 DEF Unread, Unseen
<1>5. UNCHANGED <<pc, sock, j, left, out, taken>>
    BY <1>1 DEF process
<1> QED BY <1>3, <1>4, <1>5 DEF FlowInv

\* A step of the server keeps the bounds of the buffers.
LEMMA ServerFlow ==
    ASSUME TwoClients, Inv, DeliveryInv, ClientInv, FlowInv, Server, UNCHANGED cvars
    PROVE  FlowInv'
<1>1. UNCHANGED <<sent, seen, given>>
    BY DEF Server, Serve, Select, SelectFails, Accept, AcceptFails, Broadcast, Receive,
           Disconnect, Send, SendIgnored, SendKilled, Sent, Exit, network, cvars
<1>2. \A d \in Conns : /\ {Len(out[d]), seen[d], sent[d], taken[d], given[d]} \subseteq Nat
                       /\ sent[d] - taken[d] <= RcvBuf /\ Len(out[d]) - seen[d] <= Window
                       /\ given[d] <= sent[d] + LineSize
    BY Quantities DEF FlowInv, Unread, Unseen
<1>3. CASE UNCHANGED <<taken, out>> /\ pc' # "send"
    BY <1>1, <1>3 DEF FlowInv, Unread, Unseen
<1>4. CASE Select \/ SelectFails \/ Accept \/ AcceptFails \/ Disconnect \/ SendKilled
    <2>1. UNCHANGED <<taken, out>> /\ pc' # "send"
        BY <1>4 DEF Select, SelectFails, Accept, AcceptFails, Disconnect, SendKilled, Exit,
           Advance, network
    <2> QED BY <1>3, <2>1
<1>5. CASE Sent(Others)
    <2>1. UNCHANGED <<taken, out>> /\ pc' # "send"
        BY <1>5, LastOfTwo DEF Sent, network
    <2> QED BY <1>3, <2>1
<1>6. CASE SendIgnored
    <2>1. left' = <<>> /\ UNCHANGED <<pc, sock, j, taken, out>> /\ Len(<<>>) = 0
        BY <1>6 DEF SendIgnored, network
    <2> QED BY <1>1, <2>1, Sizes DEF FlowInv, Unread, Unseen
<1>7. CASE Send
    <2> DEFINE c == sock[j]
    <2>1. /\ pc = "send" /\ left # <<>> /\ Len(out[c]) - seen[c] < Window
          /\ out' = [out EXCEPT ![c] = Append(out[c], Head(left))]
          /\ left' = Tail(left) /\ UNCHANGED <<pc, sock, j, taken>>
        BY <1>7 DEF Send
    <2>2. c \in Conns
        BY <2>1, OpenIsConnected DEF Inv, PassInv
    <2>3. out[c] \in Seq(Units) /\ left \in Seq(Units)
        BY <2>2 DEF Inv, TypeOK
    <2>4. /\ Len(Append(out[c], Head(left))) = Len(out[c]) + 1
          /\ Len(left) \in Nat /\ Len(left') = Len(left) - 1
        BY <2>1, <2>3, HeadTailProperties, AppendProperties, LenProperties
    <2>5. \A d \in Conns : out'[d] = IF d = c THEN Append(out[c], Head(left)) ELSE out[d]
        BY <2>1 DEF Inv, TypeOK
    <2> HIDE DEF c
    <2>6. \A d \in Conns : Len(out'[d]) - seen[d] <= Window
        BY <1>2, <2>1, <2>2, <2>4, <2>5, Sizes
    <2>7. Len(left') <= ReadSize
        BY <2>1, <2>4, Sizes DEF FlowInv
    <2>8. ASSUME NEW d \in Conns, NEW e \in Conns, d # e, taken[e] = 0
          PROVE  out'[d] = <<>> /\ ~ (pc = "send" /\ sock[j] = d)
        <3>1. out[d] = <<>> /\ ~ (pc = "send" /\ sock[j] = d)
            BY <2>8 DEF FlowInv
        <3> QED BY <2>1, <2>5, <3>1 DEF c
    <2> QED BY <1>1, <1>2, <2>1, <2>6, <2>7, <2>8 DEF FlowInv, Unread, Unseen
<1>8. CASE Broadcast
    <2> DEFINE c == sock[i]
               n == Len(Received)
    <2>1. /\ c \in Conns /\ n \in Nat \ {0} /\ n <= ReadSize
          /\ taken' = [taken EXCEPT ![c] = taken[c] + n]
          /\ pc' = "send" => left' = Received /\ sock'[j'] # c
          /\ UNCHANGED <<sock, out>>
        BY <1>8, BroadcastTargets
    <2>2. \A d \in Conns : taken'[d] = IF d = c THEN taken[c] + n ELSE taken[d]
        BY <2>1 DEF Inv, TypeOK
    <2> HIDE DEF c, n
    <2>3. \A d \in Conns : sent[d] - taken'[d] <= RcvBuf
        BY <1>2, <2>1, <2>2, Sizes
    <2>4. pc' = "send" => Len(left') <= ReadSize
        BY <2>1 DEF n
    <2>5. ASSUME NEW d \in Conns, NEW e \in Conns, d # e, taken'[e] = 0
          PROVE  out[d] = <<>> /\ ~ (pc' = "send" /\ sock'[j'] = d)
        <3>1. e # c /\ taken[e] = 0
            BY <1>2, <2>1, <2>2, <2>5
        <3>2. d = c
            BY <2>1, <2>5, <3>1 DEF TwoClients
        <3> QED BY <2>1, <2>5, <3>1, <3>2 DEF FlowInv
    <2> QED BY <1>1, <1>2, <2>1, <2>3, <2>4, <2>5 DEF FlowInv, Unread, Unseen
<1> QED BY <1>4, <1>5, <1>6, <1>7, <1>8 DEF Server, Serve

-----------------------------------------------------------------------------
\* The pass has still to come to fd.
ToVisit(fd) == pc # "select" /\ fd \in reads /\ (fd > i \/ (fd = i /\ pc = "scan"))

\* Another client is still to be visited, or one before this, or there is one before.
OtherToVisit(fd) == \E e \in Open \ {fd} : ToVisit(e)
LowerToVisit(fd) == \E e \in Open : e < fd /\ ToVisit(e)
LowerOpen(fd) == \E e \in Open : e < fd

\* What one more read of the server brings, if there is one.
OneRead(b) == IF b THEN ReadSize ELSE 0

\* What may still be broadcast to the client at fd before the server reads from it:
\* once in this pass, and once more in the next where that visits the other first.
Ahead(fd) ==
    IF ToVisit(fd)
    THEN OneRead(LowerToVisit(fd))
    ELSE OneRead(OtherToVisit(fd)) + OneRead(LowerOpen(fd))

Load(fd) ==
    Unseen(sock[fd]) + Committed(sock[fd]) + Coming(sock[fd]) + Ahead(fd)

\* The inductive invariant: the two buffers between the server and a client never
\* get what would fill both of them, whatever is still ahead.
LoadInv == Up => \A fd \in Open : Load(fd) <= Window + RcvBuf + 1

\* At most two reads are ahead.
LEMMA AheadIsNat == \A fd : Ahead(fd) \in Nat /\ Ahead(fd) <= 2 * ReadSize
BY Sizes DEF Ahead, OneRead

\* While it is being sent to, there is at most the next pass ahead.
LEMMA ComingAhead ==
    ASSUME TwoClients, Inv, DeliveryInv, ClientInv, FlowInv, NEW fd \in Open
    PROVE  Coming(sock[fd]) + Ahead(fd) <= 2 * ReadSize
<1>1. sock[fd] \in Conns /\ Coming(sock[fd]) \in Nat
    BY OpenIsConnected, Quantities
<1>2. CASE Coming(sock[fd]) = 0
    BY <1>2, AheadIsNat, Sizes
<1>3. CASE Coming(sock[fd]) # 0
    <2>1. pc = "send" /\ sock[j] = sock[fd] /\ Coming(sock[fd]) = Len(left)
        BY <1>3 DEF Coming
    <2>2. i \in Open /\ j \in Open /\ j # i /\ fd = j /\ i \in Nat
        BY <2>1, Descriptors DEF Inv, PassInv, MasterIsOpen, DeliveryInv, Others, Open
    <2>3. \A e \in Open : e = i \/ e = fd
        BY <2>2, TwoOpen
    <2>4. ~ OtherToVisit(fd) /\ ~ LowerToVisit(fd)
        BY <2>1, <2>2, <2>3 DEF OtherToVisit, LowerToVisit, ToVisit
    <2>5. Ahead(fd) <= ReadSize
        BY <2>4, Sizes DEF Ahead, OneRead
    <2>6. Coming(sock[fd]) <= ReadSize
        BY <2>1 DEF FlowInv
    <2> QED BY <1>1, <2>5, <2>6, AheadIsNat, Sizes
<1> QED BY <1>2, <1>3

\* Where one of the two buffers is empty nothing that is ahead fills both.
EmptyIsLight ==
    \A fd \in Open : Unseen(sock[fd]) = 0 \/ Unread(sock[fd]) = 0
                      => Load(fd) <= Window + RcvBuf + 1

\* EmptyIsLight holds where the buffers have room to spare.
LEMMA OneIsEmpty ==
    ASSUME TwoClients, RoomToSpare
    PROVE  Inv /\ DeliveryInv /\ ClientInv /\ FlowInv => EmptyIsLight
<1> SUFFICES ASSUME Inv, DeliveryInv, ClientInv, FlowInv, NEW fd \in Open,
                    Unseen(sock[fd]) = 0 \/ Unread(sock[fd]) = 0
             PROVE  Load(fd) <= Window + RcvBuf + 1
    BY DEF EmptyIsLight
<1> DEFINE c == sock[fd]
<1>1. c \in Conns
    BY OpenIsConnected
<1>2. /\ {sent[c], taken[c], given[c]} \subseteq Nat
      /\ Unseen(c) \in Nat /\ Unread(c) \in Nat /\ Committed(c) \in Nat /\ Coming(c) \in Nat
      /\ Unseen(c) <= Window /\ Unread(c) <= RcvBuf
      /\ given[c] <= sent[c] + LineSize
    BY <1>1, Quantities DEF FlowInv
<1>3. Committed(c) <= Unread(c) + LineSize
    <2>1. CASE at[c] = "line"
        <3>1. sent[c] = given[c]
            BY <1>1, <2>1 DEF ClientInv, ClientTypeOK
        <3> QED BY <1>2, <2>1, <3>1, Sizes DEF Committed, Unread
    <2>2. CASE at[c] # "line"
        BY <1>2, <2>2, Sizes DEF Committed, Unread
    <2> QED BY <2>1, <2>2
<1>4. Coming(c) + Ahead(fd) <= 2 * ReadSize /\ Ahead(fd) \in Nat
    BY ComingAhead, AheadIsNat
<1> QED BY <1>2, <1>3, <1>4, Sizes DEF Load, RoomToSpare

\* Where nothing of the server changes, what is coming and ahead does not either.
LEMMA SameAhead ==
    ASSUME UNCHANGED <<pc, sock, reads, i>>
    PROVE  Open' = Open /\ \A fd : (ToVisit(fd))' = ToVisit(fd) /\ Ahead(fd)' = Ahead(fd)
<1>1. Open' = Open /\ \A fd : (ToVisit(fd))' = ToVisit(fd)
    BY DEF Open, ToVisit
<1> QED BY <1>1 DEF Ahead, LowerToVisit, OtherToVisit, LowerOpen, OneRead

\* What a client takes from its socket makes room for what it takes from its input.
LEMMA ClientLoad ==
    ASSUME TwoClients, RoomToSpare, Inv, ClientInv, LoadInv, EmptyIsLight',
           NEW c \in Conns, Client(c)
    PROVE  LoadInv'
<1>1. UNCHANGED <<process, taken, out>> /\ Up
    BY DEF Client, Work, Type, EndInput, Start, RecvText, GetLine, SendText, EndOfInput,
           Interrupt, Close, Refuse, Connect, Say, Shutdown, Reset, Read, vars, network,
           AtInput, Up
<1>2. /\ UNCHANGED <<pc, sock, reads, i, j, left>> /\ Open' = Open
      /\ \A d : Coming(d)' = Coming(d)
      /\ \A fd : Ahead(fd)' = Ahead(fd)
    BY <1>1, SameAhead DEF process, Coming
<1>3. \A d \in Conns : /\ {Len(out[d]), seen[d], sent[d], taken[d], given[d]} \subseteq Nat
                       /\ {Unseen(d), Committed(d), Coming(d)} \subseteq Nat
    BY Quantities
<1>4. \A fd \in Open : /\ sock[fd] \in Conns
                       /\ Load(fd) <= Window + RcvBuf + 1
                       /\ Ahead(fd) \in Nat
    BY <1>1, OpenIsConnected, AheadIsNat DEF LoadInv
<1>5. ASSUME \A d \in Conns : Unseen(d)' = 0 \/ Unseen(d)' + Committed(d)' <= Unseen(d) + Committed(d),
             \A d \in Conns : {Unseen(d)', Committed(d)'} \subseteq Int
      PROVE  LoadInv'
    <2> SUFFICES ASSUME NEW fd \in Open
                 PROVE  Load(fd)' <= Window + RcvBuf + 1
        BY <1>2 DEF LoadInv
    <2>1. PICK d \in Conns : d = sock[fd] /\ d = sock'[fd]
        BY <1>2, <1>4
    <2>2. /\ Load(fd) = Unseen(d) + Committed(d) + Coming(d) + Ahead(fd)
          /\ Load(fd)' = Unseen(d)' + Committed(d)' + Coming(d) + Ahead(fd)
        BY <1>2, <2>1 DEF Load
    <2>3. Unseen(d)' = 0 => Load(fd)' <= Window + RcvBuf + 1
        BY <1>2, <2>1 DEF EmptyIsLight
    <2>4. Unseen(d)' = 0 \/ Unseen(d)' + Committed(d)' <= Unseen(d) + Committed(d)
        BY <1>5
    <2>5. /\ {Unseen(d), Committed(d), Coming(d), Ahead(fd), Window, RcvBuf} \subseteq Nat
          /\ {Unseen(d)', Committed(d)'} \subseteq Int /\ Load(fd) <= Window + RcvBuf + 1
        BY <1>3, <1>4, <1>5, Sizes
    <2> QED BY <2>2, <2>3, <2>4, <2>5
<1>6. CASE UNCHANGED <<seen, given>> /\ \A d \in Conns : at'[d] = "line" => at[d] = "line"
    <2>1. \A d \in Conns : Unseen(d)' = Unseen(d) /\ Committed(d)' \in Int /\ Committed(d)' <= Committed(d)
        BY <1>1, <1>3, <1>6, Sizes, SMTT(40) DEF Unseen, Committed
    <2> QED BY <1>3, <1>5, <2>1
<1>7. CASE Type(c) \/ EndInput(c) \/ Start(c) \/ SendText(c) \/ EndOfInput(c)
           \/ Interrupt(c) \/ Refuse(c)
    <2>1. UNCHANGED <<seen, given>> /\ at' \in {at} \cup {[at EXCEPT ![c] = p] : p \in {"loop", "send", "gone"}}
        BY <1>7 DEF Type, EndInput, Start, SendText, EndOfInput, Interrupt, Close, Refuse,
           Connect, Say, Shutdown, Reset, vars, network, cvars
    <2>2. \A d \in Conns : at'[d] = "line" => at[d] = "line"
        BY <2>1 DEF ClientInv, ClientTypeOK
    <2> QED BY <1>6, <2>1, <2>2
<1>8. CASE RecvText(c)
    <2>1. /\ at[c] = "loop" /\ at' \in {[at EXCEPT ![c] = p] : p \in {"line", "loop"}}
          /\ given' = given
          /\ seen'[c] = seen[c] + Min({ClientRead, Unseen(c)})
          /\ \E n \in 1 .. Len(out[c]) - seen[c] : seen' = [seen EXCEPT ![c] = seen[c] + n]
        BY <1>8 DEF RecvText, Read, Unseen
    <2>2. Min({ClientRead, Unseen(c)}) \in {ClientRead, Unseen(c)}
        <3>1. ClientRead \in Int /\ Unseen(c) \in Int
            BY <1>3, Sizes
        <3> QED BY <3>1, MinOfTwo
    <2>3. /\ Unseen(c)' \in Int
          /\ Unseen(c)' = 0 \/ Unseen(c)' = Unseen(c) - ClientRead
        <3> DEFINE n == Min({ClientRead, Unseen(c)})
        <3>1. Unseen(c) = Len(out[c]) - seen[c] /\ Unseen(c)' = Len(out[c]) - seen'[c]
            BY <1>1 DEF Unseen
        <3>2. seen'[c] = seen[c] + n /\ n \in {ClientRead, Unseen(c)}
            BY ONLY <2>1, <2>2
        <3>3. {Len(out[c]), seen[c], Unseen(c), ClientRead} \subseteq Int
            BY <1>1, <1>3, Sizes
        <3> HIDE DEF n
        <3> QED BY ONLY <3>1, <3>2, <3>3, SMTT(30)
    <2>4. Committed(c)' \in Int /\ Committed(c)' <= Committed(c) + LineSize
        <3>1. at[c] = "loop" /\ given'[c] = given[c] /\ taken'[c] = taken[c]
            BY <1>1, <2>1
        <3>2. Committed(c) = given[c] - taken[c] /\ Committed(c)' \in {given[c] - taken[c], given[c] - taken[c] + LineSize}
            BY <1>3, <3>1, Sizes DEF Committed
        <3> QED BY <1>3, <3>2, Sizes
    <2>5. \A d \in Conns \ {c} : Unseen(d)' = Unseen(d) /\ Committed(d)' = Committed(d)
        <3>1. \A d \in Conns \ {c} : seen'[d] = seen[d] /\ at'[d] = at[d]
            BY <2>1 DEF Inv, TypeOK, ClientInv, ClientTypeOK
        <3> QED BY <1>1, <2>1, <3>1 DEF Unseen, Committed
    <2>6. ASSUME NEW d \in Conns
          PROVE  /\ {Unseen(d)', Committed(d)'} \subseteq Int
                 /\ Unseen(d)' = 0 \/ Unseen(d)' + Committed(d)' <= Unseen(d) + Committed(d)
        <3>1. CASE d = c
            BY <1>3, <2>3, <2>4, <3>1, Sizes, SMTT(40) DEF RoomToSpare
        <3>2. CASE d # c
            BY <1>3, <2>5, <3>2
        <3> QED BY <3>1, <3>2
    <2> QED BY <1>5, <2>6
<1>9. CASE GetLine(c)
    <2>1. /\ at[c] = "line" \/ (at[c] = "loop" /\ seen[c] = Len(out[c]))
          /\ at' = [at EXCEPT ![c] = "send"]
          /\ given' = [given EXCEPT ![c] = given[c] + LineSize]
          /\ seen' = seen
        BY <1>9 DEF GetLine, AtInput, vars, network
    <2>2. ASSUME NEW d \in Conns
          PROVE  /\ {Unseen(d)', Committed(d)'} \subseteq Int
                 /\ Unseen(d)' = 0 \/ Unseen(d)' + Committed(d)' <= Unseen(d) + Committed(d)
        <3>1. /\ Unseen(d)' = Unseen(d)
              /\ given'[d] = IF d = c THEN given[c] + LineSize ELSE given[d]
              /\ at'[d] = IF d = c THEN "send" ELSE at[d]
            BY <1>1, <2>1 DEF Unseen, ClientInv, ClientTypeOK
        <3>2. CASE d = c
            BY <1>1, <1>3, <2>1, <3>1, <3>2, Sizes, SMTT(40) DEF Committed, Unseen
        <3>3. CASE d # c
            <4>1. Committed(d)' = Committed(d)
                BY <1>1, <3>1, <3>3 DEF Committed
            <4> QED BY <1>3, <3>1, <4>1
        <3> QED BY <3>2, <3>3
    <2> QED BY <1>5, <2>2
<1> QED BY <1>7, <1>8, <1>9 DEF Client, Work

\* ++i leaves the descriptors above i to visit, and no other.
LEMMA AdvanceVisits ==
    ASSUME Inv, Advance, UNCHANGED <<reads, max_socket>>
    PROVE  \A fd \in Open : (ToVisit(fd))' <=> fd \in reads /\ fd > i
<1> DEFINE rest == After(i, reads, max_socket)
<1>1. /\ reads \subseteq Nat /\ rest \subseteq reads /\ i \in Nat
      /\ \A fd \in Open : fd \in Nat /\ fd <= max_socket
    BY Descriptors DEF Inv, TypeOK, MasterIsOpen, After, Open
<1>2. \A fd \in Open : fd \in rest <=> fd \in reads /\ fd > i
    BY <1>1 DEF After
<1>3. CASE rest = {}
    <2>1. pc' = "select"
        BY <1>3 DEF Advance
    <2> QED BY <1>2, <1>3, <2>1 DEF ToVisit
<1>4. CASE rest # {}
    <2>1. pc' = "scan" /\ i' = Min(rest)
        BY <1>4 DEF Advance
    <2>2. rest \in SUBSET Nat
        BY <1>1
    <2>3. Min(rest) \in rest /\ \A k \in rest : Min(rest) <= k
        BY <1>4, <2>2, MinOfNats
    <2> HIDE DEF rest
    <2>4. ASSUME NEW fd \in Open PROVE (ToVisit(fd))' <=> fd \in rest
        <3>1. i' \in rest /\ i' \in Nat /\ fd \in Nat /\ i' > i
            BY <1>1, <2>1, <2>3 DEF rest, After
        <3>2. fd \in rest => fd \in reads /\ (fd > i' \/ fd = i')
            BY <1>1, <2>1, <2>3, <3>1
        <3>3. fd \in reads /\ (fd > i' \/ fd = i') => fd \in rest
            BY <1>1, <1>2, <3>1
        <3> QED BY <2>1, <3>2, <3>3 DEF ToVisit
    <2> QED BY <1>2, <2>4
<1> QED BY <1>3, <1>4

\* The parts of Load are natural numbers.
Counts ==
    /\ \A d \in Conns : {Unseen(d), Committed(d), Coming(d)} \subseteq Nat
    /\ \A fd : Ahead(fd) \in Nat

LEMMA CountsAreNat == Inv /\ ClientInv => Counts
BY Quantities, AheadIsNat DEF Counts

\* Enough for a step of the server: where neither buffer of a client is empty, the
\* client weighs no more than before.
LEMMA NoHeavier ==
    ASSUME Inv, Inv', Counts, Counts', LoadInv, EmptyIsLight', Up,
           \A fd \in Open' : \A d \in Conns : sock'[fd] = d =>
              \/ Unseen(d)' = 0 \/ Unread(d)' = 0
              \/ /\ fd \in Open /\ sock[fd] = d
                 /\ Unseen(d)' + Committed(d)' + Coming(d)' + Ahead(fd)'
                      <= Unseen(d) + Committed(d) + Coming(d) + Ahead(fd)
    PROVE  LoadInv'
<1> SUFFICES ASSUME NEW fd \in Open' PROVE Load(fd)' <= Window + RcvBuf + 1
    BY DEF LoadInv
<1>1. PICK d \in Conns : d = sock'[fd]
    BY DEF Inv, TypeOK, Open
<1>2. Load(fd)' = Unseen(d)' + Committed(d)' + Coming(d)' + Ahead(fd)'
    BY <1>1 DEF Load
<1>3. Unseen(d)' = 0 \/ Unread(d)' = 0 => Load(fd)' <= Window + RcvBuf + 1
    BY <1>1 DEF EmptyIsLight
<1>4. CASE /\ fd \in Open /\ sock[fd] = d
           /\ Unseen(d)' + Committed(d)' + Coming(d)' + Ahead(fd)'
                <= Unseen(d) + Committed(d) + Coming(d) + Ahead(fd)
    <2>1. Load(fd) = Unseen(d) + Committed(d) + Coming(d) + Ahead(fd)
        BY <1>4 DEF Load
    <2>2. Load(fd) <= Window + RcvBuf + 1
        BY <1>4 DEF LoadInv
    <2>3. /\ {Unseen(d), Committed(d), Coming(d)} \subseteq Nat
          /\ {Unseen(d)', Committed(d)', Coming(d)'} \subseteq Nat
          /\ Ahead(fd) \in Nat /\ Ahead(fd)' \in Nat
        BY DEF Counts
    <2>4. {Window, RcvBuf} \subseteq Nat
        BY Sizes
    <2> QED BY <1>2, <1>4, <2>1, <2>2, <2>3, <2>4
<1> QED BY <1>1, <1>3, <1>4

\* A step of the server keeps the load.
LEMMA ServerLoad ==
    ASSUME TwoClients, RoomToSpare, Inv, Inv', DeliveryInv, DeliveryInv', ClientInv,
           FlowInv, Counts, Counts', LoadInv, EmptyIsLight', Server, UNCHANGED cvars
    PROVE  LoadInv'
<1>0. Up
    BY DEF Server, Serve, Select, SelectFails, Accept, AcceptFails, Broadcast, Receive,
           Disconnect, Send, SendIgnored, SendKilled, Sent, Up
<1>1. UNCHANGED <<sent, seen, given, at>>
    BY DEF Server, Serve, Select, SelectFails, Accept, AcceptFails, Broadcast, Receive,
           Disconnect, Send, SendIgnored, SendKilled, Sent, Exit, network, cvars
<1>2. /\ \A d : taken' = taken => Committed(d)' = Committed(d)
      /\ \A d : out' = out => Unseen(d)' = Unseen(d)
      /\ \A d : pc' # "send" => Coming(d)' = 0
    BY <1>1 DEF Committed, Unseen, Coming
\* What is left to show of a step that neither sends nor receives.
<1>3. ASSUME UNCHANGED <<taken, out>>, pc' # "send",
             \A fd \in Open' : \A d \in Conns : sock'[fd] = d =>
                \/ Unseen(d) = 0 \/ Unread(d) = 0
                \/ fd \in Open /\ sock[fd] = d /\ Ahead(fd)' <= Ahead(fd)
      PROVE  LoadInv'
    <2>1. ASSUME NEW fd \in Open', NEW d \in Conns, sock'[fd] = d
          PROVE  \/ Unseen(d)' = 0 \/ Unread(d)' = 0
                 \/ /\ fd \in Open /\ sock[fd] = d
                    /\ Unseen(d)' + Committed(d)' + Coming(d)' + Ahead(fd)'
                         <= Unseen(d) + Committed(d) + Coming(d) + Ahead(fd)
        <3>1. Unread(d)' = Unread(d) /\ Unseen(d)' = Unseen(d) /\ Committed(d)' = Committed(d)
              /\ Coming(d)' = 0
            BY <1>1, <1>2, <1>3 DEF Unread
        <3>2. {Unseen(d), Committed(d), Coming(d), Ahead(fd), Ahead(fd)'} \subseteq Nat
            BY DEF Counts
        <3>3. \/ Unseen(d) = 0 \/ Unread(d) = 0
              \/ fd \in Open /\ sock[fd] = d /\ Ahead(fd)' <= Ahead(fd)
            BY <1>3, <2>1
        <3> QED BY <3>1, <3>2, <3>3
    <2> QED BY <1>0, <2>1, NoHeavier
<1>4. CASE SelectFails \/ AcceptFails \/ SendKilled
    BY <1>4 DEF SelectFails, AcceptFails, SendKilled, Exit, LoadInv, Up
<1>5. CASE Select
    <2>1. /\ pc = "select" /\ pc' = "scan" /\ i' = Min(reads') /\ reads' # {}
          /\ reads' = {fd \in master : fd <= max_socket /\ Readable(fd)}
          /\ UNCHANGED <<sock, taken, out>>
        BY <1>5 DEF Select, network
    <2>2. /\ reads' \in SUBSET Nat /\ Open' = Open
          /\ \A fd \in Open : fd \in master /\ fd <= max_socket /\ fd # socket_listen
        <3>1. reads' \subseteq master /\ master \subseteq Nat
            BY <2>1, Descriptors DEF Inv, TypeOK
        <3> QED BY <2>1, <3>1, Descriptors DEF Inv, MasterIsOpen, Open
    <2>3. i' \in reads' /\ \A k \in reads' : i' <= k
        BY <2>1, <2>2, MinOfNats
    <2>4. ASSUME NEW fd \in Open, Readable(fd) PROVE Ahead(fd)' <= Ahead(fd)
        <3>1. fd \in reads' /\ i' <= fd /\ i' \in Nat /\ fd \in Nat
            BY <2>1, <2>2, <2>3, <2>4
        <3>2. (ToVisit(fd))' /\ ~ ToVisit(fd)
            BY <2>1, <3>1 DEF ToVisit
        <3>3. LowerToVisit(fd)' => LowerOpen(fd)
            BY <2>2 DEF LowerToVisit, LowerOpen
        <3> QED BY <3>2, <3>3, Sizes DEF Ahead, OneRead
    <2>5. ASSUME NEW fd \in Open, ~ Readable(fd) PROVE Unread(sock[fd]) = 0
        <3>1. Unread(sock[fd]) \in Nat
            BY OpenIsConnected, Quantities
        <3> QED BY <2>2, <2>5, <3>1 DEF Readable
    <2> QED BY <1>3, <2>1, <2>2, <2>4, <2>5
<1>6. CASE Accept
    <2> DEFINE fd == Min(Free)
               c == Head(backlog)
    <2>1. /\ Free # {} /\ backlog # <<>> /\ sock' = [sock EXCEPT ![fd] = c]
          /\ UNCHANGED <<taken, out>> /\ pc' # "send"
        BY <1>6, AdvancePc DEF Accept
    <2>2. c \in Range(backlog) /\ c \in Conns
        BY <2>1, DequeueFacts DEF Inv, TypeOK, BacklogIsFresh
    <2> HIDE DEF fd, c
    <2>3. taken[c] = 0 /\ out[c] = <<>> /\ seen[c] = 0
        <3>1. taken[c] = 0 /\ out[c] = <<>> /\ Len(<<>>) = 0
            BY <2>2 DEF Inv, BacklogIsFresh
        <3> QED BY <2>2, <3>1 DEF Inv, TypeOK
    <2>4. \A d \in Conns : out[d] = <<>>
        BY <2>2, <2>3 DEF FlowInv
    <2>5. \A d \in Conns : Unseen(d) = 0
        <3>1. \A d \in Conns : seen[d] \in Nat /\ seen[d] <= Len(<<>>) /\ Len(<<>>) = 0
            BY <2>4 DEF Inv, TypeOK
        <3> QED BY <2>4, <3>1 DEF Unseen
    <2> QED BY <1>3, <2>1, <2>5
<1>7. CASE Disconnect
    <2>1. /\ pc = "scan" /\ i # socket_listen /\ sock' = [sock EXCEPT ![i] = NULL]
          /\ UNCHANGED <<taken, out>> /\ pc' # "send"
        BY <1>7, AdvancePc DEF Disconnect, network
    <2>2. i \in Open
        BY <2>1, VisitIsOpen
    <2>3. \A fd \in Open' : fd \in Open /\ fd # i /\ sock'[fd] = sock[fd] /\ fd \in Nat
        BY <2>1, Descriptors DEF Inv, TypeOK, Open
    <2>4. ASSUME NEW fd \in Open' PROVE Ahead(fd)' <= Ahead(fd)
        <3>1. \A e \in Open' : e = fd
            BY <2>2, <2>3, TwoOpen
        <3>2. ~ LowerToVisit(fd)' /\ ~ OtherToVisit(fd)' /\ ~ LowerOpen(fd)'
            BY <2>3, <3>1 DEF LowerToVisit, OtherToVisit, LowerOpen
        <3>3. Ahead(fd)' = 0
            BY <3>2 DEF Ahead, OneRead
        <3> QED BY <3>3, AheadIsNat
    <2> QED BY <1>3, <2>1, <2>3, <2>4
<1>8. CASE Sent(Others)
    <2>1. /\ pc = "send" /\ Advance /\ pc' # "send" /\ UNCHANGED <<sock, reads, max_socket, taken, out>>
        BY <1>8, LastOfTwo DEF Sent, network
    <2>2. /\ Open' = Open
          /\ \A fd \in Open : (ToVisit(fd))' <=> ToVisit(fd)
        BY <2>1, AdvanceVisits DEF Open, ToVisit
    <2>3. ASSUME NEW fd \in Open PROVE Ahead(fd)' <= Ahead(fd)
        <3>1. /\ LowerToVisit(fd)' <=> LowerToVisit(fd)
              /\ OtherToVisit(fd)' <=> OtherToVisit(fd)
              /\ LowerOpen(fd)' <=> LowerOpen(fd)
            BY <2>2 DEF LowerToVisit, OtherToVisit, LowerOpen
        <3> QED BY <2>2, <3>1, Sizes DEF Ahead, OneRead
    <2> QED BY <1>3, <2>1, <2>2, <2>3
<1>9. CASE SendIgnored
    <2>1. /\ pc = "send" /\ left' = <<>> /\ Len(<<>>) = 0
          /\ UNCHANGED <<pc, sock, reads, i, j, taken, out>>
        BY <1>9 DEF SendIgnored, network
    <2>2. \A d \in Conns : Coming(d)' = 0
        BY <2>1 DEF Coming
    <2>3. /\ Open' = Open
          /\ \A fd : Ahead(fd)' = Ahead(fd)
        BY <2>1, SameAhead
    <2>4. ASSUME NEW fd \in Open', NEW d \in Conns, sock'[fd] = d
          PROVE  /\ fd \in Open /\ sock[fd] = d
                 /\ Unseen(d)' + Committed(d)' + Coming(d)' + Ahead(fd)'
                      <= Unseen(d) + Committed(d) + Coming(d) + Ahead(fd)
        <3>1. {Unseen(d), Committed(d), Coming(d), Ahead(fd)} \subseteq Nat
            BY DEF Counts
        <3> QED BY <1>2, <2>1, <2>2, <2>3, <2>4, <3>1
    <2> QED BY <1>0, <2>4, NoHeavier
<1>10. CASE Send
    <2> DEFINE c == sock[j]
    <2>1. /\ pc = "send" /\ left # <<>> /\ left' = Tail(left)
          /\ out' = [out EXCEPT ![c] = Append(out[c], Head(left))]
          /\ UNCHANGED <<pc, sock, reads, i, j, taken>>
        BY <1>10 DEF Send
    <2>2. c \in Conns /\ out[c] \in Seq(Units) /\ left \in Seq(Units)
        <3>1. c \in Conns
            BY <2>1, OpenIsConnected DEF Inv, PassInv
        <3> QED BY <3>1 DEF Inv, TypeOK
    <2>3. /\ Len(Append(out[c], Head(left))) = Len(out[c]) + 1 /\ Len(out[c]) \in Nat
          /\ Len(left) \in Nat /\ Len(left') = Len(left) - 1
        BY <2>1, <2>2, HeadTailProperties, AppendProperties, LenProperties
    <2>4. \A d \in Conns : out'[d] = IF d = c THEN Append(out[c], Head(left)) ELSE out[d]
        BY <2>1 DEF Inv, TypeOK
    <2>5. Open' = Open /\ \A fd : Ahead(fd)' = Ahead(fd)
        BY <2>1, SameAhead
    <2>6. \A d \in Conns : d = c => Coming(d) = Len(left) /\ Coming(d)' = Len(left) - 1
        BY <2>1, <2>3 DEF Coming
    <2>7. \A d \in Conns : d # c => Coming(d) = 0 /\ Coming(d)' = 0
        BY <2>1 DEF Coming
    <2> HIDE DEF c
    <2>8. ASSUME NEW fd \in Open', NEW d \in Conns, sock'[fd] = d
          PROVE  /\ fd \in Open /\ sock[fd] = d
                 /\ Unseen(d)' + Committed(d)' + Coming(d)' + Ahead(fd)'
                      <= Unseen(d) + Committed(d) + Coming(d) + Ahead(fd)
        <3>1. /\ {Unseen(d), Committed(d), Coming(d), Ahead(fd)} \subseteq Nat
              /\ Committed(d)' = Committed(d) /\ Ahead(fd)' = Ahead(fd)
              /\ fd \in Open /\ sock[fd] = d
            BY <1>2, <2>1, <2>5, <2>8 DEF Counts
        <3>2. CASE d = c
            <4>1. Unseen(d)' = Unseen(d) + 1
                <5>1. seen[d] \in Nat /\ seen'[d] = seen[d]
                    BY <1>1 DEF Inv, TypeOK
                <5>2. Len(out'[d]) = Len(out[d]) + 1 /\ Len(out[d]) \in Nat
                    BY <2>3, <2>4, <3>2
                <5> QED BY <5>1, <5>2 DEF Unseen
            <4>2. Coming(d)' = Coming(d) - 1
                <5>1. Coming(d) = Len(left) /\ Coming(d)' = Len(left) - 1
                    BY <2>6, <3>2
                <5> QED BY <5>1
            <4> QED BY <3>1, <4>1, <4>2
        <3>3. CASE d # c
            <4>1. Unseen(d)' = Unseen(d) /\ Coming(d)' = Coming(d)
                BY <1>1, <2>4, <2>7, <3>3 DEF Unseen
            <4> QED BY <3>1, <4>1
        <3> QED BY <3>2, <3>3
    <2> QED BY <1>0, <2>8, NoHeavier
<1>11. CASE Broadcast
    <2> DEFINE c == sock[i]
               n == Len(Received)
    <2>1. /\ i \in Open /\ c \in Conns /\ UNCHANGED <<sock, reads, out>>
          /\ taken' = [taken EXCEPT ![c] = taken[c] + n]
          /\ n \in Nat \ {0} /\ n <= ReadSize /\ n \in {Unread(c), ReadSize}
          /\ pc' \in {"select", "scan", "send"}
          /\ pc' = "send" => j' \in Open /\ j' # i /\ i' = i /\ left' = Received /\ sock'[j'] # c
          /\ pc' # "send" => Open \subseteq {i}
        BY <1>11, BroadcastTargets
    <2>2. pc = "scan" /\ Open' = Open /\ \A fd \in Open : fd \in Nat
        BY <1>11, <2>1, Descriptors DEF Broadcast, Receive, Open
    <2>3. ToVisit(i)
        BY <2>2 DEF ToVisit, Inv, PassInv
    <2>4. \A d \in Conns : taken'[d] = IF d = c THEN taken[c] + n ELSE taken[d]
        BY <2>1 DEF Inv, TypeOK
    <2>5. \A d \in Conns : Unseen(d)' = Unseen(d) /\ Coming(d) = 0
        BY <1>2, <2>1, <2>2 DEF Coming
    <2>6. \A d \in Conns : Coming(d)' <= n /\ (d = c => Coming(d)' = 0)
        <3>1. \A d \in Conns : Coming(d)' \in {0, n} /\ (d = c => Coming(d)' = 0)
            BY <2>1 DEF Coming
        <3> QED BY <2>1, <3>1
    <2> HIDE DEF n, c
    <2>7. ASSUME NEW fd \in Open, fd = i PROVE Ahead(fd)' <= ReadSize
        <3>1. CASE pc' = "send"
            <4>1. i' = i /\ \A e \in Open : (ToVisit(e))' <=> e \in reads /\ e > fd
                BY <2>1, <2>7, <3>1 DEF ToVisit
            <4>2. ~ (ToVisit(fd))' /\ (OtherToVisit(fd)' => ~ LowerOpen(fd)')
                BY <2>2, <4>1, TwoOpen DEF OtherToVisit, LowerOpen
            <4> QED BY <4>2, Sizes DEF Ahead, OneRead
        <3>2. CASE pc' # "send"
            <4>1. \A e \in Open : e = fd
                BY <2>1, <2>7, <3>2
            <4>2. ~ LowerToVisit(fd)' /\ ~ OtherToVisit(fd)' /\ ~ LowerOpen(fd)'
                BY <2>2, <4>1 DEF LowerToVisit, OtherToVisit, LowerOpen
            <4> QED BY <4>2, Sizes DEF Ahead, OneRead
        <3> QED BY <3>1, <3>2
    \* The speaker: nothing of it is left unread, or as much as may follow is read.
    <2>8. ASSUME NEW fd \in Open, fd = i, NEW d \in Conns, sock'[fd] = d
          PROVE  \/ Unread(d)' = 0
                 \/ /\ sock[fd] = d
                    /\ Unseen(d)' + Committed(d)' + Coming(d)' + Ahead(fd)'
                         <= Unseen(d) + Committed(d) + Coming(d) + Ahead(fd)
        <3>1. d = c /\ sock[fd] = d /\ taken'[d] = taken[d] + n
            BY <2>1, <2>4, <2>8 DEF c
        <3>2. /\ {sent[d], taken[d], given[d]} \subseteq Nat
              /\ {Unseen(d), Committed(d), Coming(d), Ahead(fd)} \subseteq Nat
            BY Quantities DEF Counts
        <3>3. CASE n = Unread(c)
            <4>1. Unread(d)' = 0
                BY <1>1, <2>1, <3>1, <3>2, <3>3 DEF Unread
            <4> QED BY <4>1
        <3>4. CASE n = ReadSize
            <4>1. Committed(d)' = Committed(d) - ReadSize
                BY <1>1, <3>1, <3>2, <3>4, Sizes DEF Committed
            <4>2. Unseen(d)' = Unseen(d) /\ Coming(d)' = 0
                BY <2>5, <2>6, <3>1
            <4>3. Ahead(fd)' <= ReadSize
                BY <2>8, <2>7
            <4>4. Ahead(fd)' \in Nat /\ ReadSize \in Nat
                BY Sizes DEF Counts
            <4> QED BY <3>1, <3>2, <4>1, <4>2, <4>3, <4>4
        <3> QED BY <2>1, <3>3, <3>4
    \* The other: of what was ahead a read has come.
    <2>9. ASSUME NEW fd \in Open, fd # i, NEW d \in Conns, sock'[fd] = d
          PROVE  /\ sock[fd] = d
                 /\ Unseen(d)' + Committed(d)' + Coming(d)' + Ahead(fd)'
                      <= Unseen(d) + Committed(d) + Coming(d) + Ahead(fd)
        <3>1. d # c /\ sock[fd] = d /\ taken'[d] = taken[d]
            BY <2>1, <2>4, <2>9 DEF c, Inv, MasterIsOpen
        <3>2. Committed(d)' = Committed(d)
            BY <1>1, <3>1 DEF Committed
        <3>3. pc' = "send" /\ i' = i /\ \A e \in Open : e = i \/ e = fd
            BY <2>1, <2>9, TwoOpen
        <3>4. /\ (ToVisit(fd))' <=> ToVisit(fd)
              /\ \A e \in Open : e = i => ~ (ToVisit(e))'
            BY <2>1, <2>2, <2>9, <3>3 DEF ToVisit
        <3>5. Ahead(fd)' + ReadSize <= Ahead(fd)
            <4>1. /\ ~ LowerToVisit(fd)' /\ ~ OtherToVisit(fd)'
                  /\ LowerOpen(fd)' <=> LowerOpen(fd)
                BY <2>2, <3>3, <3>4 DEF LowerToVisit, OtherToVisit, LowerOpen
            <4>2. OtherToVisit(fd) /\ (ToVisit(fd) => LowerToVisit(fd))
                BY <2>1, <2>2, <2>3, <2>9 DEF OtherToVisit, LowerToVisit, ToVisit
            <4> QED BY <3>4, <4>1, <4>2, Sizes DEF Ahead, OneRead
        <3>6. /\ {Unseen(d), Committed(d), Coming(d), Ahead(fd)} \subseteq Nat
              /\ {Coming(d)', Ahead(fd)', ReadSize} \subseteq Nat
            BY Sizes DEF Counts
        <3>7. Unseen(d)' = Unseen(d) /\ Coming(d) = 0 /\ Coming(d)' <= ReadSize
            BY <2>1, <2>5, <2>6, <3>6
        <3> QED BY <3>1, <3>2, <3>5, <3>6, <3>7
    <2>10. ASSUME NEW fd \in Open', NEW d \in Conns, sock'[fd] = d
           PROVE  \/ Unread(d)' = 0
                  \/ /\ fd \in Open /\ sock[fd] = d
                     /\ Unseen(d)' + Committed(d)' + Coming(d)' + Ahead(fd)'
                          <= Unseen(d) + Committed(d) + Coming(d) + Ahead(fd)
        <3>1. CASE fd = i
            BY <2>2, <2>8, <2>10, <3>1
        <3>2. CASE fd # i
            BY <2>2, <2>9, <2>10, <3>2
        <3> QED BY <3>1, <3>2
    <2> QED BY <1>0, <2>10, NoHeavier
<1> QED BY <1>4, <1>5, <1>6, <1>7, <1>8, <1>9, <1>10, <1>11 DEF Server, Serve

\* A server in send() for a client in send() would have both buffers full, and one
\* unit more on either side of them.
LEMMA NobodyWaits ==
    Inv /\ ClientInv /\ LoadInv => NoCircularWait
<1> SUFFICES ASSUME Inv, ClientInv, LoadInv, NEW c \in Conns, c = sock[j], pc = "send",
                    left # <<>>, at[c] = "send", sent[c] < given[c],
                    Unread(c) >= RcvBuf, Len(out[c]) - seen[c] >= Window
             PROVE  FALSE
    BY OpenIsConnected DEF NoCircularWait, Inv, PassInv
<1>1. j \in Open /\ Up
    BY DEF Inv, PassInv, Up
<1>2. /\ {Len(out[c]), seen[c], sent[c], taken[c], given[c], Ahead(j), Window, RcvBuf} \subseteq Nat
      /\ Len(left) \in Nat \ {0}
    <2>1. left \in Seq(Units)
        BY DEF Inv, TypeOK
    <2>2. Len(left) \in Nat \ {0}
        BY <2>1, LenProperties, EmptySeq
    <2>3. {Len(out[c]), seen[c], sent[c], taken[c], given[c]} \subseteq Nat
        BY Quantities
    <2> QED BY <2>2, <2>3, AheadIsNat, Sizes
<1>3. Unseen(c) >= Window /\ Coming(c) >= 1 /\ Unseen(c) \in Nat /\ Coming(c) \in Nat
    BY <1>2, Quantities DEF Unseen, Coming
<1>4. Committed(c) >= RcvBuf + 1 /\ Committed(c) \in Nat
    <2>1. taken[c] <= sent[c] /\ sent[c] < given[c]
        BY Quantities
    <2>2. Committed(c) = given[c] - taken[c] + 0
        BY DEF Committed
    <2>3. sent[c] - taken[c] >= RcvBuf
        BY DEF Unread
    <2> QED BY <1>2, <2>1, <2>2, <2>3, SMTT(40)
<1>5. Unseen(c) + Committed(c) + Coming(c) + Ahead(j) <= Window + RcvBuf + 1
    BY <1>1 DEF LoadInv, Load
<1> QED BY <1>2, <1>3, <1>4, <1>5

\* Two clients of the repository and the server never block one another for ever,
\* whatever the users enter, where the buffers hold a line and two reads.
THEOREM SystemNoCircularWait ==
    ASSUME TwoClients, RoomToSpare
    PROVE  System => []NoCircularWait
<1> DEFINE WaitInv == FlowInv /\ LoadInv
<1>1. System => []Inv /\ []DeliveryInv
    BY SystemIsChatServer, SpecInv, SpecDelivery, PTL DEF IsChatServer
<1>2. System => []ClientInv
    BY <1>1, ClientInitInv, ClientNextInv, PTL DEF System
<1>3. SystemInit => WaitInv
    BY FlowInit DEF SystemInit, Init, LoadInv, Open
<1>4. Inv /\ DeliveryInv /\ ClientInv /\ Inv' /\ DeliveryInv' /\ ClientInv' /\ WaitInv
        /\ [SystemNext]_<<vars, cvars>> => WaitInv'
    <2> SUFFICES ASSUME Inv, DeliveryInv, ClientInv, Inv', DeliveryInv', ClientInv', WaitInv,
                        [SystemNext]_<<vars, cvars>>
                 PROVE  WaitInv'
        OBVIOUS
    <2>1. FlowInv'
        <3>1. CASE UNCHANGED <<vars, cvars>>
            BY <3>1 DEF FlowInv, Unread, Unseen, vars, cvars, process, network
        <3> QED BY <3>1, ClientFlow, ServerFlow DEF SystemNext
    <2>2. EmptyIsLight'
        BY <2>1, OneIsEmpty, PTL
    <2>3. Counts /\ Counts'
        BY CountsAreNat, PTL
    <2>4. LoadInv'
        <3>1. CASE UNCHANGED <<vars, cvars>>
            <4>1. /\ Open' = Open /\ \A fd : Ahead(fd)' = Ahead(fd)
                BY <3>1, SameAhead DEF vars, process
            <4>2. \A fd : Load(fd)' = Load(fd)
                BY <3>1, <4>1 DEF Load, Unseen, Committed, Coming, vars, cvars, process, network
            <4> QED BY <3>1, <4>1, <4>2 DEF LoadInv, Up, vars, process
        <3> QED BY <2>2, <2>3, <3>1, ClientLoad, ServerLoad DEF SystemNext
    <2> QED BY <2>1, <2>4
<1>5. System => []WaitInv
    BY <1>1, <1>2, <1>3, <1>4, PTL DEF System
<1>6. Inv /\ ClientInv /\ WaitInv => NoCircularWait
    BY NobodyWaits
<1> QED BY <1>1, <1>2, <1>5, <1>6, PTL
=============================================================================
