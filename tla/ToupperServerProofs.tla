------------------------ MODULE ToupperServerProofs ------------------------
(***************************************************************************)
(* Proofs about ToupperServer for any number of connections and            *)
(* descriptors, any texts, any toupper() and any sizes.                    *)
(***************************************************************************)
EXTENDS ToupperServer, SelectLoopProofs

\* toupper() keeps the length of a text.
LEMMA UpperFacts ==
    ASSUME NEW s \in Seq(Units)
    PROVE  /\ Upper(s) \in Seq(Units) /\ Len(Upper(s)) = Len(s)
           /\ \A k \in 1 .. Len(s) : Upper(s)[k] = Toupper[s[k]]
<1>1. DOMAIN s = 1 .. Len(s) /\ Len(s) \in Nat /\ \A k \in 1 .. Len(s) : s[k] \in Units
    BY LenProperties, ElementOfSeq
<1>2. Upper(s) \in [1 .. Len(s) -> Units]
    BY <1>1, ToupperAssumption DEF Upper
<1>3. Upper(s) \in Seq(Units)
    BY <1>1, <1>2, SeqDef
<1>4. Len(Upper(s)) = Len(s)
    BY <1>1, <1>2, <1>3, LenProperties
<1> QED BY <1>1, <1>3, <1>4 DEF Upper

\* The n elements of s after the a-th.
LEMMA PieceOf ==
    ASSUME NEW s \in Seq(Units), NEW a \in Nat, NEW n \in Nat \ {0}, a + n <= Len(s),
           NEW k \in 1 .. n
    PROVE  SubSeq(s, a + 1, a + n)[k] = s[a + k]
<1> DEFINE m == a + 1
           l == a + n
<1>1. /\ m \in Int /\ l \in Int /\ m <= l /\ m + k - 1 = a + k
      /\ k \in 1 .. l - m + 1 /\ Len(s) \in Nat
    BY LenProperties
<1>2. \A x \in m .. l : s[x] \in Units
    <2>1. \A x \in m .. l : x \in 1 .. Len(s)
        BY <1>1
    <2> QED BY <2>1, ElementOfSeq
<1> HIDE DEF m, l
<1>3. SubSeq(s, m, l)[k] = s[m + k - 1]
    BY <1>1, <1>2, SubSeqProperties
<1> QED BY <1>1, <1>3 DEF m, l

LEMMA EchoInvariant == Inv /\ Echo => Inv'
<1> SUFFICES ASSUME Inv, Echo PROVE Inv'
    OBVIOUS
<1>1. Receive(Upper(Received), {i}, {sock[i]})
    BY DEF Echo
<1>2. Upper(Received) \in Seq(Units)
    BY <1>1, ReceivedFacts, UpperFacts DEF Receive
<1>3. {i} \in SUBSET Open /\ {sock[i]} \in SUBSET InRoom
    BY <1>1, VisitIsOpen DEF Receive, InRoom
<1> QED BY <1>1, <1>2, <1>3, ReceiveInv

\* Every step of the server and of its peers keeps the invariant of the loop.
LEMMA NextInv == Inv /\ [Next]_vars => Inv'
<1> SUFFICES ASSUME Inv, [Next]_vars PROVE Inv'
    OBVIOUS
<1>1. CASE UNCHANGED vars BY <1>1, StutterInv
<1>2. CASE Peers BY <1>2, PeersInv
<1>3. CASE Select BY <1>3, SelectInv
<1>4. CASE SelectFails \/ AcceptFails
    BY <1>4, EndInv DEF SelectFails, AcceptFails, Exit
<1>5. CASE Accept BY <1>5, AcceptInv
<1>6. CASE Echo BY <1>6, EchoInvariant
<1>7. CASE Disconnect BY <1>7, DisconnectInv
<1>8. CASE Send BY <1>8, SendInv
<1>9. CASE SendIgnored BY <1>9, SendIgnoredInv
<1>10. CASE SendKilled BY <1>10, EndInv DEF SendKilled
<1>11. CASE Sent({i})
    <2>1. {i} \in SUBSET Open
        BY <1>11 DEF Sent, Inv, PassInv
    <2> QED BY <1>11, <2>1, SentInv
<1> QED BY <1>1, <1>2, <1>3, <1>4, <1>5, <1>6, <1>7, <1>8, <1>9, <1>10, <1>11
        DEF Next, Server, Serve

LEMMA SpecInv == Spec => []Inv
<1>1. Init => Inv
    BY InitInv
<1>2. Inv /\ [Next]_vars => Inv'
    BY NextInv
<1> QED BY <1>1, <1>2, PTL DEF Spec

\* Type correctness: in particular no more is read from a connection than its
\* peer has sent, nor read by a peer than it was sent.
THEOREM ToupperTypeCorrect == Spec => []TypeOK
<1>1. Inv => TypeOK
    BY DEF Inv
<1> QED BY <1>1, SpecInv, PTL

\* `master` and `max_socket` cover the open descriptors and no other, in this
\* server as in the chat server.
THEOREM ToupperMasterCorrect == Spec => []MasterIsOpen
<1>1. Inv => MasterIsOpen
    BY DEF Inv
<1> QED BY <1>1, SpecInv, PTL

\* No accept() or recv() of a pass blocks, for any number of clients.
THEOREM ToupperNeverBlocks == Spec => []NeverBlocksOnReady
BY InvNeverBlocks, SpecInv, PTL

-----------------------------------------------------------------------------
\* What c was sent is the beginning of its own text, in upper case, and no
\* more than was taken of it.
Echoed(c) ==
    /\ Len(out[c]) <= taken[c]
    /\ \A k \in 1 .. Len(out[c]) : out[c][k] = Toupper[Text[c][k]]

\* Only the client of the running visit is behind, and by what is left.
EchoInv ==
    /\ \A c \in Conns : Echoed(c)
    /\ \A c \in Conns :
          \/ Len(out[c]) = taken[c]
          \/ peer[c] = "reset"
          \/ pc \in {"exited", "killed"}
          \/ pc = "send" /\ c = sock[i]
    /\ pc = "send" =>
          /\ j = i
          /\ LET c == sock[i]
             IN  peer[c] # "reset" =>
                    /\ Len(out[c]) + Len(left) = taken[c]
                    /\ \A k \in 1 .. Len(left) :
                          left[k] = Toupper[Text[c][Len(out[c]) + k]]

\* What EchoInv needs to know of the types.
LEMMA EchoTypes ==
    ASSUME Inv, NEW c \in Conns
    PROVE  /\ out[c] \in Seq(Units) /\ Len(out[c]) \in Nat
           /\ taken[c] \in Nat /\ taken[c] <= Len(Text[c])
           /\ Text[c] \in Seq(Units) /\ Len(Text[c]) \in Nat
<1>1. out[c] \in Seq(Units) /\ Text[c] \in Seq(Units)
    BY TextAssumption DEF Inv, TypeOK
<1>2. Len(out[c]) \in Nat /\ Len(Text[c]) \in Nat
    BY <1>1, LenProperties
<1> QED BY <1>1, <1>2 DEF Inv, TypeOK

\* Steps that neither send nor receive.
LEMMA QuietEcho ==
    ASSUME EchoInv, UNCHANGED <<taken, out>>,
           \A c \in Conns : peer[c] = "reset" => peer'[c] = "reset",
           \/ pc = "scan" /\ pc' \in {"select", "scan", "exited"}
           \/ pc = "select" /\ pc' \in {"scan", "exited"}
           \/ pc = "send" /\ pc' = "killed"
           \/ pc' = pc /\ UNCHANGED <<i, j, left, sock>> /\ sock[i] \in Conns
           \/ pc' = pc /\ pc # "send"
    PROVE  EchoInv'
<1>1. \A c \in Conns : Echoed(c)'
    BY DEF EchoInv, Echoed
<1>2. ASSUME NEW c \in Conns
      PROVE  \/ Len(out'[c]) = taken'[c]
             \/ peer'[c] = "reset"
             \/ pc' \in {"exited", "killed"}
             \/ pc' = "send" /\ c = sock'[i']
    BY DEF EchoInv
<1>3. ASSUME pc' = "send"
      PROVE  /\ j' = i'
             /\ peer'[sock'[i']] # "reset" =>
                    /\ Len(out'[sock'[i']]) + Len(left') = taken'[sock'[i']]
                    /\ \A k \in 1 .. Len(left') :
                          left'[k] = Toupper[Text[sock'[i']][Len(out'[sock'[i']]) + k]]
    <2>1. pc = "send" /\ UNCHANGED <<i, j, left, sock>> /\ sock[i] \in Conns
        BY <1>3
    <2> QED BY <2>1 DEF EchoInv
<1> QED BY <1>1, <1>2, <1>3 DEF EchoInv

\* recv(): all that was taken before has been sent; what is left is the rest.
LEMMA EchoEcho ==
    ASSUME Inv, EchoInv, Echo
    PROVE  EchoInv'
<1> DEFINE c == sock[i]
           r == Received
<1>1. /\ pc = "scan" /\ i # socket_listen /\ Unread(c) > 0
      /\ taken' = [taken EXCEPT ![c] = taken[c] + Len(r)]
      /\ Deliver(Upper(r), 0, {i})
      /\ UNCHANGED <<sock, peer, out>>
    BY DEF Echo, Receive
<1>2. i \in Open /\ i \in Fds /\ c \in Conns /\ i \in Nat \ {0} /\ i <= max_socket
    BY <1>1, VisitIsOpen, FdsAssumption DEF Inv, MasterIsOpen
<1>3. /\ r \in Seq(Units) /\ Len(r) \in Nat \ {0}
      /\ r = SubSeq(Text[c], taken[c] + 1, taken[c] + Len(r))
      /\ taken[c] + Len(r) <= Len(Text[c])
    <2>1. r \in Seq(Units) /\ Len(r) \in 1 .. Unread(c)
          /\ r = SubSeq(Text[c], taken[c] + 1, taken[c] + Len(r))
        BY <1>1, ReceivedFacts
    <2>2. /\ taken[c] \in Nat /\ sent[c] \in Nat /\ sent[c] <= Len(Text[c])
          /\ Len(Text[c]) \in Nat
        BY <1>2, EchoTypes DEF Inv, TypeOK
    <2> QED BY <2>1, <2>2, SMTT(40) DEF Unread
<1>4. /\ Upper(r) \in Seq(Units) /\ Len(Upper(r)) = Len(r)
      /\ \A k \in 1 .. Len(r) : Upper(r)[k] = Toupper[r[k]]
    BY <1>3, UpperFacts
<1>5. j' = i /\ left' = Upper(r) /\ i' = i /\ pc' = "send"
    <2>1. {i} \subseteq Fds
        BY <1>2
    <2>2. \/ \A k \in {i} : k <= max_socket => k <= 0
          \/ j' \in {i} /\ left' = Upper(r) /\ i' = i /\ pc' = "send"
        BY <1>1, <1>4, <2>1, DeliverFacts DEF Inv
    <2> QED BY <1>2, <2>2
<1>6. ASSUME NEW k \in 1 .. Len(r)
      PROVE  r[k] = Text[c][taken[c] + k]
    <2>1. Text[c] \in Seq(Units) /\ taken[c] \in Nat
        BY <1>2, EchoTypes
    <2> DEFINE n == Len(r)
    <2>2. n \in Nat \ {0} /\ taken[c] + n <= Len(Text[c]) /\ k \in 1 .. n
        BY <1>3
    <2>3. r = SubSeq(Text[c], taken[c] + 1, taken[c] + n)
        BY <1>3
    <2> HIDE DEF n, c, r
    <2>4. SubSeq(Text[c], taken[c] + 1, taken[c] + n)[k] = Text[c][taken[c] + k]
        BY <2>1, <2>2, PieceOf
    <2> QED BY <2>3, <2>4
<1> HIDE DEF r
<1>7. \A d \in Conns : taken'[d] = IF d = c THEN taken[c] + Len(r) ELSE taken[d]
    BY <1>1, <1>2 DEF Inv, TypeOK
<1>8. \A d \in Conns : Echoed(d)'
    <2> SUFFICES ASSUME NEW d \in Conns PROVE Echoed(d)'
        OBVIOUS
    <2>1. Echoed(d) /\ taken[d] \in Nat /\ Len(out[d]) \in Nat
        BY EchoTypes DEF EchoInv
    <2> QED BY <1>1, <1>3, <1>7, <2>1 DEF Echoed
<1>9. ASSUME NEW d \in Conns, d # c
      PROVE  Len(out'[d]) = taken'[d] \/ peer'[d] = "reset"
    BY <1>1, <1>7, <1>9 DEF EchoInv
<1>10. ASSUME peer[c] # "reset"
       PROVE  Len(out[c]) = taken[c]
    BY <1>1, <1>2, <1>10 DEF EchoInv
<1>11. ASSUME peer[c] # "reset"
       PROVE  /\ Len(out'[c]) + Len(left') = taken'[c]
              /\ \A k \in 1 .. Len(left') :
                    left'[k] = Toupper[Text[c][Len(out'[c]) + k]]
    <2>1. out'[c] = out[c] /\ Len(left') = Len(r) /\ taken'[c] = taken[c] + Len(r)
        BY <1>1, <1>2, <1>4, <1>5, <1>7
    <2>2. Len(out[c]) = taken[c] /\ taken[c] \in Nat
        BY <1>2, <1>10, <1>11, EchoTypes
    <2>3. \A k \in 1 .. Len(r) : left'[k] = Toupper[Text[c][taken[c] + k]]
        BY <1>4, <1>5, <1>6
    <2> QED BY <2>1, <2>2, <2>3
<1> QED BY <1>1, <1>5, <1>8, <1>9, <1>11 DEF EchoInv

\* One unit moves from what is left to what was sent.
LEMMA SendEcho ==
    ASSUME Inv, EchoInv, Send
    PROVE  EchoInv'
<1> DEFINE c == sock[i]
           l == left
           o == out[c]
<1>1. /\ pc = "send" /\ l # <<>> /\ j = i /\ peer[c] # "reset"
      /\ out' = [out EXCEPT ![c] = Append(o, Head(l))]
      /\ left' = Tail(l)
      /\ UNCHANGED <<pc, sock, i, j, taken, peer>>
    BY DEF Send, EchoInv
<1>2. c \in Conns /\ l \in Seq(Units) /\ o \in Seq(Units)
    BY <1>1, OpenIsConnected DEF Inv, TypeOK, PassInv
<1>3. /\ Len(o) + Len(l) = taken[c] /\ Echoed(c)
      /\ \A k \in 1 .. Len(l) : l[k] = Toupper[Text[c][Len(o) + k]]
    BY <1>1, <1>2 DEF EchoInv
<1>4. \A d \in Conns : out'[d] = IF d = c THEN Append(o, Head(l)) ELSE out[d]
    BY <1>1, <1>2 DEF Inv, TypeOK
<1>5. /\ \A k \in 1 .. Len(o) : o[k] = Toupper[Text[c][k]]
    BY <1>3 DEF Echoed
<1> HIDE DEF l, o
<1>6. /\ Len(l) \in Nat \ {0} /\ Len(o) \in Nat /\ Head(l) = l[1] /\ Head(l) \in Units
      /\ Len(Tail(l)) = Len(l) - 1 /\ \A k \in 1 .. Len(Tail(l)) : Tail(l)[k] = l[k + 1]
    BY <1>1, <1>2, HeadTailProperties, EmptySeq, LenProperties
<1>7. /\ Len(Append(o, Head(l))) = Len(o) + 1
      /\ \A k \in 1 .. Len(o) : Append(o, Head(l))[k] = o[k]
      /\ Append(o, Head(l))[Len(o) + 1] = Head(l)
    BY <1>2, <1>6, AppendProperties
<1>8. \A k \in 1 .. Len(o) + 1 : Append(o, Head(l))[k] = Toupper[Text[c][k]]
    <2>1. l[1] = Toupper[Text[c][Len(o) + 1]]
        BY <1>3, <1>6 DEF l, o
    <2>2. \A k \in 1 .. Len(o) + 1 : k \in 1 .. Len(o) \/ k = Len(o) + 1
        BY <1>6
    <2> QED BY <1>5, <1>6, <1>7, <2>1, <2>2
<1>9. \A d \in Conns : Echoed(d)'
    <2>1. Len(o) + 1 <= taken[c]
        BY <1>3, <1>6 DEF l, o
    <2>2. ASSUME NEW d \in Conns, d = c
          PROVE  Echoed(d)'
        <3>1. taken' = taken /\ out'[d] = Append(o, Head(l))
            BY <1>1, <1>4, <2>2
        <3> QED BY <1>7, <1>8, <2>1, <2>2, <3>1 DEF Echoed
    <2> QED BY <1>1, <1>4, <2>2 DEF EchoInv, Echoed
<1>10. /\ Len(Append(o, Head(l))) + Len(Tail(l)) = taken[c]
       /\ \A k \in 1 .. Len(Tail(l)) :
             Tail(l)[k] = Toupper[Text[c][Len(Append(o, Head(l))) + k]]
    <2>1. /\ Len(o) + Len(l) = taken[c]
          /\ \A k \in 1 .. Len(l) : l[k] = Toupper[Text[c][Len(o) + k]]
        BY <1>3 DEF l, o
    <2>2. \A k \in 1 .. Len(Tail(l)) :
             k + 1 \in 1 .. Len(l) /\ Len(o) + (k + 1) = Len(o) + 1 + k
        BY <1>6
    <2>3. \A k \in 1 .. Len(Tail(l)) :
             Tail(l)[k] = Toupper[Text[c][Len(o) + 1 + k]]
        BY <1>6, <2>1, <2>2
    <2> QED BY <1>6, <1>7, <2>1, <2>3
<1>11. \A d \in Conns : d # c => Len(out'[d]) = taken'[d] \/ peer'[d] = "reset"
    BY <1>1, <1>4 DEF EchoInv
<1>12. out'[c] = Append(o, Head(l)) /\ sock'[i'] = c
    BY <1>1, <1>2, <1>4
<1>13. /\ Len(out'[c]) + Len(left') = taken'[c]
       /\ \A k \in 1 .. Len(left') :
             left'[k] = Toupper[Text[c][Len(out'[c]) + k]]
    BY <1>1, <1>10, <1>12
<1> QED BY <1>1, <1>9, <1>11, <1>12, <1>13 DEF EchoInv

\* send() has returned: nothing is left, and the client is behind no more.
LEMMA SentEcho ==
    ASSUME Inv, EchoInv, Sent({i})
    PROVE  EchoInv'
<1> DEFINE c == sock[i]
<1>1. /\ pc = "send" /\ left = <<>> /\ Deliver(read, j, {i}) /\ j = i
      /\ UNCHANGED <<sock, taken, peer, out>>
    BY DEF Sent, EchoInv, network
<1>2. c \in Conns /\ read \in Seq(Units) /\ i \in Fds /\ i \in Nat
    BY <1>1, OpenIsConnected, FdsAssumption DEF Inv, TypeOK, PassInv
<1>3. pc' \in {"select", "scan"}
    <2>1. After(j, {i}, max_socket) = {}
        BY <1>1, <1>2 DEF After
    <2> QED BY <1>1, <2>1 DEF Deliver, Advance
<1>4. \A d \in Conns : Len(out[d]) = taken[d] \/ peer[d] = "reset"
    <2>1. Len(left) = 0
        BY <1>1, EmptySeq
    <2>2. Len(out[c]) \in Nat
        BY <1>2, EchoTypes
    <2>3. peer[c] # "reset" => Len(out[c]) + Len(left) = taken[c]
        BY <1>1 DEF EchoInv
    <2>4. peer[c] # "reset" => Len(out[c]) = taken[c]
        BY <2>1, <2>2, <2>3
    <2> QED BY <1>1, <2>4 DEF EchoInv
<1> QED BY <1>1, <1>3, <1>4 DEF EchoInv, Echoed

LEMMA NextEcho == Inv /\ EchoInv /\ [Next]_vars => EchoInv'
<1> SUFFICES ASSUME Inv, EchoInv, [Next]_vars PROVE EchoInv'
    OBVIOUS
<1>1. pc = "send" => sock[i] \in Conns
    BY OpenIsConnected DEF Inv, PassInv
<1>2. CASE UNCHANGED vars
    BY <1>1, <1>2, QuietEcho DEF vars, process, network
<1>3. CASE Peers
    <2>1. UNCHANGED <<process, taken, out>>
        BY <1>3 DEF Peers, Connect, Say, Shutdown, Reset, Read
    <2>2. \A c \in Conns : peer[c] = "reset" => peer'[c] = "reset"
        BY <1>3 DEF Peers, Connect, Say, Shutdown, Reset, Read, Inv, TypeOK
    <2> QED BY <1>1, <2>1, <2>2, QuietEcho DEF process
<1>4. CASE Select \/ SelectFails \/ Accept \/ AcceptFails \/ Disconnect \/ SendKilled
    <2>1. UNCHANGED <<taken, out, peer>>
        BY <1>4 DEF Select, SelectFails, Accept, AcceptFails, Disconnect, SendKilled,
           Exit, network
    <2>2. \/ pc = "scan" /\ pc' \in {"select", "scan", "exited"}
          \/ pc = "select" /\ pc' \in {"scan", "exited"}
          \/ pc = "send" /\ pc' = "killed"
        BY <1>4 DEF Select, SelectFails, Accept, AcceptFails, Disconnect, SendKilled,
           Exit, Advance
    <2> QED BY <2>1, <2>2, QuietEcho
<1>5. CASE Echo BY <1>5, EchoEcho
<1>6. CASE Send BY <1>6, SendEcho
<1>7. CASE SendIgnored
    <2>1. /\ pc = "send" /\ peer[sock[j]] = "reset"
          /\ UNCHANGED <<pc, sock, i, j, taken, out, peer>>
        BY <1>7 DEF SendIgnored, network
    <2> QED BY <2>1 DEF EchoInv, Echoed
<1>8. CASE Sent({i}) BY <1>8, SentEcho
<1> QED BY <1>2, <1>3, <1>4, <1>5, <1>6, <1>7, <1>8 DEF Next, Server, Serve

LEMMA SpecEcho == Spec => []EchoInv
<1>1. Init => EchoInv
    BY EmptySeq DEF Init, EchoInv, Echoed
<1>2. Inv /\ EchoInv /\ [Next]_vars => EchoInv'
    BY NextEcho
<1> QED BY <1>1, <1>2, SpecInv, PTL DEF Spec

\* Whoever connects, leaves and takes a descriptor that another had, a peer is
\* sent its own text, in upper case and in order, and between two visits all
\* that was taken of it.
THEOREM ToupperEchoes == Spec => []EchoIsOwnText
<1>1. ASSUME Inv, EchoInv
      PROVE  EchoIsOwnText
    <2> SUFFICES ASSUME NEW c \in Conns
                 PROVE  /\ Len(out[c]) <= taken[c]
                        /\ out[c] = Upper(SubSeq(Text[c], 1, Len(out[c])))
                        /\ pc \in {"select", "scan"} /\ peer[c] # "reset"
                              => Len(out[c]) = taken[c]
        BY DEF EchoIsOwnText
    <2>1. Echoed(c) /\ (pc \in {"select", "scan"} /\ peer[c] # "reset"
                            => Len(out[c]) = taken[c])
        BY <1>1 DEF EchoInv
    <2> DEFINE t == Text[c]
               n == Len(out[c])
    <2>2. /\ out[c] \in Seq(Units) /\ t \in Seq(Units) /\ n \in 0 .. Len(t)
          /\ Len(t) \in Nat
        BY <1>1, <2>1, EchoTypes DEF Echoed
    <2>3. /\ SubSeq(t, 1, n) \in Seq(Units) /\ Len(SubSeq(t, 1, n)) = n
          /\ \A k \in 1 .. n : SubSeq(t, 1, n)[k] = t[k]
        <3> HIDE DEF n, t
        <3>1. \A k \in 1 .. n : t[k] \in Units
            <4>1. \A k \in 1 .. n : k \in 1 .. Len(t)
                BY <2>2
            <4> QED BY <2>2, <4>1, ElementOfSeq
        <3> QED BY <2>2, <3>1, SubSeqProperties
    <2>4. /\ Upper(SubSeq(t, 1, n)) \in Seq(Units) /\ Len(Upper(SubSeq(t, 1, n))) = n
          /\ \A k \in 1 .. n : Upper(SubSeq(t, 1, n))[k] = out[c][k]
        <3>1. \A k \in 1 .. n : out[c][k] = Toupper[t[k]]
            BY <2>1 DEF Echoed
        <3> DEFINE u == SubSeq(t, 1, n)
        <3>2. /\ u \in Seq(Units) /\ Len(u) = n
              /\ \A k \in 1 .. n : Toupper[u[k]] = out[c][k]
            BY <2>3, <3>1
        <3> HIDE DEF u, n
        <3>3. /\ Upper(u) \in Seq(Units) /\ Len(Upper(u)) = n
              /\ \A k \in 1 .. n : Upper(u)[k] = Toupper[u[k]]
            BY <3>2, UpperFacts
        <3> QED BY <3>2, <3>3 DEF u
    <2>5. out[c] = Upper(SubSeq(t, 1, n))
        <3> HIDE DEF t
        <3> QED BY <2>2, <2>4, SeqEqual
    <2> QED BY <2>1, <2>5 DEF Echoed
<1> QED BY <1>1, SpecInv, SpecEcho, PTL

=============================================================================
