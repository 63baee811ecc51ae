--------------------------- MODULE ServiceProofs ----------------------------
(***************************************************************************)
(* What the clients of the UDP programs print, for any number of clients,  *)
(* any buffer and any lines; the counts of ccwc, for any file and any      *)
(* buffer; the names the DNS printer prints; and the types of the small    *)
(* services.                                                               *)
(***************************************************************************)
EXTENDS MCServices, ListLemmas, FiniteSetTheorems, FunctionTheorems

-----------------------------------------------------------------------------
(* The UDP programs: what is printed, and what is under way. *)

SentIsText ==
    /\ udpSent \in [Sender -> SUBSET Seq(DOMAIN toupper)]
    /\ DOMAIN printed = Sender

\* A datagram for the server is what its sender has sent, one for a client the
\* answer to something the client has sent.
AirIsOwn ==
    \A d \in air :
        /\ d.peer \in Sender
        /\ d.to = "server" => d.data \in udpSent[d.peer]
        /\ d.to = "client" => \E line \in udpSent[d.peer] : d.data = Upper(Received(line))

PrintedIsOwn ==
    \A c \in Sender : \A text \in printed[c] : \E line \in udpSent[c] : text = Upper(Received(line))

OverheardIsSent ==
    overheard # <<>> =>
        \E c \in Sender : \E line \in udpSent[c] : overheard = <<c, Received(line)>>

UdpInv == SentIsText /\ AirIsOwn /\ PrintedIsOwn /\ OverheardIsSent

-----------------------------------------------------------------------------
\* What the server's buffer takes of a line is the line or its beginning.
LEMMA ReceivedIsBeginning ==
    ASSUME NEW S, NEW line \in Seq(S)
    PROVE  /\ Received(line) \in Seq(S)
           /\ AsLongAs(Received(line), line)
           /\ \A k \in 1 .. Len(Received(line)) : Received(line)[k] = line[k]
<1> DEFINE n == IF Len(line) < READ_SIZE THEN Len(line) ELSE READ_SIZE
<1>1. n \in Nat /\ n <= Len(line) /\ READ_SIZE \in Nat
    BY UdpAssumption
<1>2. Received(line) = SubSeq(line, 1, n)
    BY DEF Received
<1>3. /\ SubSeq(line, 1, n) \in Seq(S)
      /\ Len(SubSeq(line, 1, n)) = n
      /\ \A k \in 1 .. n : SubSeq(line, 1, n)[k] = line[k]
    <2> HIDE DEF n
    <2> QED BY <1>1
<1> QED BY <1>1, <1>2, <1>3 DEF AsLongAs

\* toupper() is applied to every character, and no character is added or lost.
LEMMA UpperIsMap ==
    ASSUME NEW S, NEW text \in Seq(S)
    PROVE  /\ Len(Upper(text)) = Len(text)
           /\ \A k \in 1 .. Len(text) : Upper(text)[k] = toupper[text[k]]
<1>1. Len(text) \in Nat
    OBVIOUS
<1>2. \A k \in 1 .. Len(text) : Upper(text)[k] = toupper[text[k]]
    BY DEF Upper
<1>3. Len(Upper(text)) = Len(text)
    BY <1>1 DEF Upper
<1> QED BY <1>2, <1>3

-----------------------------------------------------------------------------
\* Nothing sent, nothing printed.
LEMMA UdpInitInv == UdpInit => UdpInv
BY DEF UdpInit, UdpInv, SentIsText, AirIsOwn, PrintedIsOwn, OverheardIsSent

\* More sent, or a line of the sender under way: what was owed to a sent line still is.
LEMMA SendKeeps ==
    ASSUME UdpInv, NEW c \in Sender, NEW line \in Seq(DOMAIN toupper),
           NEW sent \in SUBSET Seq(DOMAIN toupper), udpSent[c] \subseteq sent, line \in sent,
           udpSent' = [udpSent EXCEPT ![c] = sent],
           air' = air \cup {ToServer(c, line)}, UNCHANGED <<printed, overheard>>
    PROVE  UdpInv'
<1>1. SentIsText'
    BY DEF UdpInv, SentIsText
<1>2. udpSent'[c] = sent /\ \A x \in Sender : x # c => udpSent'[x] = udpSent[x]
    BY DEF UdpInv, SentIsText
<1>3. \A x \in Sender : udpSent[x] \subseteq udpSent'[x]
    BY <1>2
<1>4. ASSUME NEW d \in air'
      PROVE  /\ d.peer \in Sender
             /\ d.to = "server" => d.data \in udpSent'[d.peer]
             /\ d.to = "client" => \E x \in udpSent'[d.peer] : d.data = Upper(Received(x))
    <2>1. CASE d \in air
        BY <1>3, <2>1 DEF UdpInv, AirIsOwn
    <2>2. CASE d = ToServer(c, line)
        BY <1>2, <2>2 DEF ToServer
    <2> QED BY <1>4, <2>1, <2>2
<1>5. AirIsOwn'
    BY <1>4 DEF AirIsOwn
<1>6. PrintedIsOwn'
    BY <1>3 DEF UdpInv, PrintedIsOwn
<1>7. OverheardIsSent'
    BY <1>3 DEF UdpInv, OverheardIsSent
<1> QED BY <1>1, <1>5, <1>6, <1>7 DEF UdpInv

\* Every step of the programs and of the network keeps the invariant.
LEMMA UdpNextInv == UdpInv /\ [UdpNext]_udpVars => UdpInv'
<1> SUFFICES ASSUME UdpInv, [UdpNext]_udpVars PROVE UdpInv'
    OBVIOUS
<1> USE DEF UdpInv
<1>1. CASE UNCHANGED <<air, udpSent, printed, overheard>>
    BY <1>1 DEF SentIsText, AirIsOwn, PrintedIsOwn, OverheardIsSent
<1>2. CASE ServeToupper
    <2>1. UNCHANGED <<udpSent, printed, overheard>>
        BY <1>2 DEF ServeToupper
    <2>2. AirIsOwn'
        <3>1. PICK d \in air :
                 /\ d.to = "server"
                 /\ \/ air' = air
                    \/ air' = air \cup {ToClient(d.peer, Upper(Received(d.data)))}
            BY <1>2 DEF ServeToupper
        <3>2. d.peer \in Sender /\ d.data \in udpSent[d.peer]
            BY <3>1 DEF AirIsOwn
        <3> QED BY <2>1, <3>1, <3>2 DEF AirIsOwn, ToClient
    <2> QED BY <2>1, <2>2 DEF SentIsText, PrintedIsOwn, OverheardIsSent
<1>3. CASE RecvfromOnce
    <2>1. UNCHANGED <<air, udpSent, printed>>
        BY <1>3 DEF RecvfromOnce
    <2>2. PICK d \in air : d.to = "server" /\ overheard' = <<d.peer, Received(d.data)>>
        BY <1>3 DEF RecvfromOnce
    <2>3. OverheardIsSent'
        BY <2>1, <2>2 DEF OverheardIsSent, AirIsOwn
    <2> QED BY <2>1, <2>3 DEF SentIsText, AirIsOwn, PrintedIsOwn
<1>4. CASE SendtoOnce
    <2>1. OneShot \in Sender /\ UNCHANGED <<printed, overheard>>
        BY <1>4 DEF SendtoOnce, Sender
    <2>2. CASE UNCHANGED <<udpSent, air>>
        BY <1>1, <2>1, <2>2
    <2>3. CASE /\ udpClient[OneShot] = "off"
               /\ udpSent' = [udpSent EXCEPT ![OneShot] = @ \cup {HelloWorld}]
               /\ air' = air \cup {ToServer(OneShot, HelloWorld)}
        <3> DEFINE sent == udpSent[OneShot] \cup {HelloWorld}
        <3>1. HelloWorld \in Seq(DOMAIN toupper)
            BY UdpAssumption
        <3>2. sent \in SUBSET Seq(DOMAIN toupper)
            BY <2>1, <3>1 DEF SentIsText
        <3> QED BY <2>1, <2>3, <3>1, <3>2, SendKeeps
    <2> QED BY <1>4, <2>2, <2>3 DEF SendtoOnce
<1>5. ASSUME NEW c \in UdpClient, UdpClientReceives(c)
      PROVE  UdpInv'
    <2>1. c \in Sender /\ UNCHANGED <<air, udpSent, overheard>>
        BY <1>5 DEF UdpClientReceives, Sender
    <2>2. CASE printed' = printed
        BY <1>1, <2>1, <2>2
    <2>3. CASE \E d \in air : /\ d.to = "client" /\ d.peer = c
                              /\ printed' = [printed EXCEPT ![c] = @ \cup {d.data}]
        <3>1. PICK d \in air : /\ d.to = "client" /\ d.peer = c
                               /\ printed' = [printed EXCEPT ![c] = @ \cup {d.data}]
            BY <2>3
        <3>2. \E line \in udpSent[c] : d.data = Upper(Received(line))
            BY <3>1 DEF AirIsOwn
        <3>3. DOMAIN printed' = Sender /\ printed'[c] = printed[c] \cup {d.data}
              /\ \A x \in Sender : x # c => printed'[x] = printed[x]
            BY <2>1, <3>1 DEF SentIsText
        <3>4. PrintedIsOwn'
            BY <2>1, <3>2, <3>3 DEF PrintedIsOwn
        <3> QED BY <2>1, <3>3, <3>4 DEF SentIsText, AirIsOwn, OverheardIsSent
    <2> QED BY <1>5, <2>2, <2>3 DEF UdpClientReceives
<1>6. ASSUME NEW c \in UdpClient, UdpClientTypes(c)
      PROVE  UdpInv'
    <2>1. c \in Sender /\ UNCHANGED <<printed, overheard>>
        BY <1>6 DEF UdpClientTypes, Sender
    <2>2. CASE UNCHANGED <<udpSent, air>>
        BY <1>1, <2>1, <2>2
    <2>3. CASE \E line \in Lines :
                  /\ udpSent' = [udpSent EXCEPT ![c] = @ \cup {line}]
                  /\ air' = air \cup {ToServer(c, line)}
        <3>1. PICK line \in Lines :
                  /\ udpSent' = [udpSent EXCEPT ![c] = @ \cup {line}]
                  /\ air' = air \cup {ToServer(c, line)}
            BY <2>3
        <3> DEFINE sent == udpSent[c] \cup {line}
        <3>2. line \in Seq(DOMAIN toupper)
            BY UdpAssumption
        <3>3. sent \in SUBSET Seq(DOMAIN toupper)
            BY <2>1, <3>2 DEF SentIsText
        <3> QED BY <2>1, <3>1, <3>2, <3>3, SendKeeps
    <2> QED BY <1>6, <2>2, <2>3 DEF UdpClientTypes
<1>7. CASE UdpServerStart
    BY <1>1, <1>7 DEF UdpServerStart
<1>8. ASSUME NEW c \in UdpClient, UdpClientStart(c)
      PROVE  UdpInv'
    BY <1>1, <1>8 DEF UdpClientStart
<1>9. CASE UNCHANGED udpVars
    BY <1>1, <1>9 DEF udpVars
<1> QED BY <1>2, <1>3, <1>4, <1>5, <1>6, <1>7, <1>8, <1>9 DEF UdpNext

\* The invariant says what a client prints character by character.
LEMMA UdpInvEcho == UdpInv => EchoIsOwn
<1> SUFFICES ASSUME UdpInv PROVE EchoIsOwn
    OBVIOUS
<1>1. \A c \in Sender : \A line \in udpSent[c] : line \in Seq(DOMAIN toupper)
    BY DEF UdpInv, SentIsText
<1>2. ASSUME NEW c \in Sender, NEW text \in printed[c]
      PROVE  \E line \in udpSent[c] : AsLongAs(text, line)
                 /\ \A k \in 1 .. Len(text) : text[k] = toupper[line[k]]
    <2>1. PICK line \in udpSent[c] : text = Upper(Received(line))
        BY DEF UdpInv, PrintedIsOwn
    <2>2. /\ Received(line) \in Seq(DOMAIN toupper) /\ AsLongAs(Received(line), line)
          /\ \A k \in 1 .. Len(Received(line)) : Received(line)[k] = line[k]
        BY <1>1, ReceivedIsBeginning
    <2>3. /\ Len(text) = Len(Received(line))
          /\ \A k \in 1 .. Len(Received(line)) : text[k] = toupper[Received(line)[k]]
        BY <2>1, <2>2, UpperIsMap
    <2> QED BY <2>2, <2>3 DEF AsLongAs
<1>3. ASSUME overheard # <<>>
      PROVE  \E line \in udpSent[overheard[1]] : AsLongAs(overheard[2], line)
                 /\ \A k \in 1 .. Len(overheard[2]) : overheard[2][k] = line[k]
    <2>1. PICK c \in Sender : \E line \in udpSent[c] : overheard = <<c, Received(line)>>
        BY <1>3 DEF UdpInv, OverheardIsSent
    <2>2. PICK line \in udpSent[c] : overheard = <<c, Received(line)>>
        BY <2>1
    <2>3. overheard[1] = c /\ overheard[2] = Received(line)
        BY <2>2
    <2> QED BY <1>1, <2>3, ReceivedIsBeginning
<1> QED BY <1>2, <1>3 DEF EchoIsOwn

\* Whatever is lost, late, doubled or out of order, a client of udp_serve_toupper.c
\* prints answers to its own lines only, and udp_recvfrom.c prints what was sent.
THEOREM UdpEchoIsOwn == UdpSpec => []EchoIsOwn
<1>1. UdpSpec => []UdpInv
    BY UdpInitInv, UdpNextInv, PTL DEF UdpSpec
<1> QED BY <1>1, UdpInvEcho, PTL

-----------------------------------------------------------------------------
(* The word counter: what is counted in pieces. *)

\* The members of a set up to a place.
Below(X, n) == {k \in 1 .. n : k \in X}
\* The places in the n behind o that are in it.
Between(X, o, n) == {k \in 1 .. n : o + k \in X}

\* The members of a set up to a place are those before another, and those of the
\* piece between them.
LEMMA CountExactly ==
    ASSUME NEW X, NEW o \in Nat, NEW n \in Nat
    PROVE  /\ Cardinality(Below(X, o)) \in Nat /\ Cardinality(Between(X, o, n)) \in Nat
           /\ Cardinality(Below(X, o + n)) = Cardinality(Below(X, o)) + Cardinality(Between(X, o, n))
<1> DEFINE A == Between(X, o, n)
           before == Below(X, o)
           after == Below(X, o + n)
           C == {k \in o + 1 .. o + n : k \in X}
           f == [k \in A |-> o + k]
<1>1. IsFiniteSet(1 .. o) /\ IsFiniteSet(1 .. n)
    BY FS_Interval
<1>2. IsFiniteSet(A) /\ IsFiniteSet(before)
    <2>1. A \in SUBSET (1 .. n) /\ before \in SUBSET (1 .. o)
        BY DEF Below, Between
    <2> HIDE DEF before, A
    <2> QED BY <1>1, <2>1, FS_Subset
<1>3. f \in Bijection(A, C)
    <2>1. f \in [A -> C]
        BY DEF Between
    <2>2. \A a, b \in A : f[a] = f[b] => a = b
        BY DEF Between
    <2>3. \A t \in C : \E s \in A : f[s] = t
        <3>1. ASSUME NEW t \in C
              PROVE  \E s \in A : f[s] = t
            <4>1. t - o \in A /\ o + (t - o) = t
                BY DEF Between
            <4>2. f[t - o] = t
                BY <4>1
            <4> QED BY <4>1, <4>2
        <3> QED BY <3>1
    <2> HIDE DEF f, C, A
    <2> QED BY <2>1, <2>2, <2>3, Fun_IsBij
<1>4. IsFiniteSet(C) /\ Cardinality(C) = Cardinality(A)
    <2>1. ExistsBijection(A, C)
        BY <1>3 DEF ExistsBijection
    <2> HIDE DEF C, A
    <2> QED BY <1>2, <2>1, FS_Bijection
<1>5. after = before \cup C /\ before \cap C = {}
    BY DEF Below
<1> HIDE DEF before, after, C, A
<1>6. Cardinality(after) = Cardinality(before) + Cardinality(C) - 0
    BY <1>2, <1>4, <1>5, FS_Union, FS_EmptySet
<1>7. Cardinality(before) \in Nat /\ Cardinality(A) \in Nat
    BY <1>2, FS_CardinalityType
<1>8. Cardinality(after) = Cardinality(before) + Cardinality(A)
    BY <1>4, <1>6, <1>7
<1> QED BY <1>7, <1>8 DEF before, after, A

\* What fgets() takes, and what of it is read as a C string.
LEMMA PieceFacts ==
    ASSUME NEW s \in Seq(STRING), NEW o \in 0 .. Len(s), o < Len(s)
    PROVE  LET piece == Piece(SubSeq(s, o + 1, Len(s)))
               n == Len(piece)
           IN  /\ n \in Nat /\ n >= 1 /\ o + n <= Len(s)
               /\ CString(piece) \in Seq(STRING)
               /\ (\A i \in DOMAIN s : s[i] # "nul") => CString(piece) = piece
               /\ DOMAIN piece = 1 .. n /\ \A k \in 1 .. n : piece[k] = s[o + k]
               /\ \/ o + n = Len(s) \/ s[o + n] = "nl"
                  \/ /\ n = buffer_size - 1 /\ \A k \in 1 .. n : s[o + k] # "nl"
<1> DEFINE text == SubSeq(s, o + 1, Len(s))
           N == {k \in DOMAIN text : text[k] = "nl"} \cup {Len(text), buffer_size - 1}
           n == Min(N)
           piece == SubSeq(text, 1, n)
<1>1. Len(s) \in Nat /\ DOMAIN s = 1 .. Len(s) /\ o \in Nat /\ buffer_size \in Nat \ {0, 1}
    BY LenProperties, CcwcAssumption
<1>2. /\ text \in Seq(STRING) /\ Len(text) = Len(s) - o
      /\ \A k \in 1 .. Len(s) - o : text[k] = s[o + k]
    <2> DEFINE a == o + 1
    <2>1. a \in 1 .. Len(s) + 1 /\ Len(s) \in a - 1 .. Len(s) /\ Len(s) - a + 1 = Len(s) - o
          /\ \A k \in 1 .. Len(s) - o : a + k - 1 = o + k
        BY <1>1
    <2> HIDE DEF a
    <2>2. /\ SubSeq(s, a, Len(s)) \in Seq(STRING) /\ Len(SubSeq(s, a, Len(s))) = Len(s) - a + 1
          /\ \A k \in 1 .. Len(s) - a + 1 : SubSeq(s, a, Len(s))[k] = s[a + k - 1]
        BY <2>1, PartFacts
    <2> QED BY <2>1, <2>2 DEF a
<1> HIDE DEF text
<1>3. Len(text) \in Nat /\ Len(text) >= 1 /\ DOMAIN text = 1 .. Len(text)
    BY <1>1, <1>2, LenProperties
<1>4. N \in SUBSET Nat /\ N # {} /\ \A k \in N : k >= 1
    BY <1>1, <1>3
<1>5. n \in N /\ n \in Nat /\ \A k \in N : n <= k
    BY <1>4, MinOfNats
<1>6. n >= 1 /\ n <= Len(text) /\ n <= buffer_size - 1
    BY <1>4, <1>5
<1>7. \/ n = Len(text) \/ text[n] = "nl"
      \/ n = buffer_size - 1 /\ \A k \in 1 .. n : text[k] # "nl"
    <2>1. SUFFICES ASSUME n # Len(text), text[n] # "nl"
                   PROVE  n = buffer_size - 1 /\ \A k \in 1 .. n : text[k] # "nl"
        OBVIOUS
    <2>2. n = buffer_size - 1
        BY <1>5, <2>1
    <2>3. ASSUME NEW k \in 1 .. n, text[k] = "nl"
          PROVE  FALSE
        <3>1. k \in 1 .. Len(text)
            BY <1>3, <1>5, <1>6
        <3>2. k \in N
            BY <1>3, <2>3, <3>1
        <3>3. n <= k /\ k <= n /\ k \in Nat
            BY <1>5, <2>3, <3>2
        <3>4. k = n
            BY <1>5, <3>3
        <3> QED BY <2>1, <2>3, <3>4
    <2> QED BY <2>2, <2>3
<1> HIDE DEF N, n
<1>8. /\ piece \in Seq(STRING) /\ Len(piece) = n /\ DOMAIN piece = 1 .. n
      /\ \A k \in 1 .. n : piece[k] = text[k]
    <2>1. n \in 0 .. Len(text)
        BY <1>3, <1>5, <1>6
    <2>2. piece \in Seq(STRING) /\ Len(piece) = n /\ \A k \in 1 .. n : piece[k] = text[k]
        BY <1>2, <2>1, BeginningFacts
    <2> QED BY <2>2, LenProperties
<1>9. \A k \in 1 .. n : piece[k] = s[o + k] /\ o + k \in DOMAIN s /\ text[k] = s[o + k]
    <2>1. \A k \in 1 .. n : k \in 1 .. Len(s) - o /\ o + k \in 1 .. Len(s)
        BY <1>1, <1>2, <1>5, <1>6
    <2> QED BY <1>1, <1>2, <1>8, <2>1
<1>10. Piece(text) = piece
    BY DEF Piece, piece, n, N
<1> HIDE DEF piece
<1> DEFINE Z == {k \in DOMAIN piece : piece[k] = "nul"}
           M == Z \cup {Len(piece) + 1}
<1>11. CString(piece) \in Seq(STRING) /\ ((\A i \in DOMAIN s : s[i] # "nul") => CString(piece) = piece)
    <2>1. (\A i \in DOMAIN s : s[i] # "nul") => Z = {}
        BY <1>8, <1>9
    <2>2. M \in SUBSET Nat /\ M # {} /\ Len(piece) + 1 \in M /\ \A k \in M : k >= 1
        BY <1>5, <1>8
    <2>3. CString(piece) = SubSeq(piece, 1, Min(M) - 1)
        BY DEF CString
    <2> DEFINE m == Min(M)
    <2>4. Z = {} => M = {Len(piece) + 1}
        OBVIOUS
    <2> HIDE DEF M, Z
    <2>5. m \in M /\ m \in Nat /\ m <= Len(piece) + 1
        BY <2>2, MinOfNats
    <2>6. m - 1 \in 0 .. Len(piece)
        BY <1>5, <1>8, <2>2, <2>5
    <2>7. Z = {} => m - 1 = Len(piece)
        BY <1>5, <1>8, <2>4, <2>5
    <2> HIDE DEF m
    <2>8. SubSeq(piece, 1, m - 1) \in Seq(STRING)
        BY <1>8, <2>6, BeginningFacts
    <2>9. SubSeq(piece, 1, Len(piece)) = piece
        BY <1>8, SubSeqFull
    <2> QED BY <2>1, <2>3, <2>7, <2>8, <2>9 DEF m
<1>12. o + n <= Len(s)
    BY <1>1, <1>2, <1>5, <1>6
<1>13. o + n = Len(s) \/ s[o + n] = "nl" \/ (n = buffer_size - 1 /\ \A k \in 1 .. n : s[o + k] # "nl")
    <2>1. n = Len(text) => o + n = Len(s)
        BY <1>1, <1>2
    <2>2. n \in 1 .. n
        BY <1>5, <1>6
    <2> QED BY <1>7, <1>9, <2>1, <2>2
<1> QED BY <1>5, <1>6, <1>8, <1>9, <1>10, <1>11, <1>12, <1>13 DEF text

\* Whether an option counts what is at a place of the input.
Marked(option, k) ==
    /\ option = "l" => input[k] = "nl"
    /\ option = "m" => input[k] # "cont"
    /\ option = "w" => input[k] \notin delimiters /\ (k = 1 \/ input[k - 1] \in delimiters)
Upto(option, o) == {k \in 1 .. o : Marked(option, k)}

\* n is the count of the first o bytes; words are exact while no line is cut.
Counted(option, n, o) ==
    CASE option = "invalid" -> o = 0
      [] option = "w" ->
            /\ n >= Cardinality(Upto("w", o))
            /\ FileFits => /\ n = Cardinality(Upto("w", o))
                           /\ o = 0 \/ o = Len(input) \/ input[o] = "nl"
      [] OTHER -> n = Cardinality(Upto(option, o))

\* The options, the place of the result of the running pass, and an input without
\* zero bytes, which end the strings fgets() returns.
Options == {"c", "l", "w", "m", "invalid"}
Slot == Len(counting) - Len(passes) + 1
NoZero == \A i \in DOMAIN input : input[i] # "nul"

\* The passes before this one have counted all of the input, this one what is read,
\* and the others nothing.
WcInv ==
    /\ wc \in {"off", "reading", "finished", "failed"}
    /\ input \in Seq(STRING) /\ offset \in 0 .. Len(input)
    /\ count_output \in [1 .. 3 -> Nat]
    /\ passes \in Seq(Options) /\ counting \in Seq(Options)
    /\ Len(passes) <= Len(counting) /\ Len(counting) <= 3
    /\ wc \in {"off", "reading"} => \A k \in Slot .. 3 : k # Slot \/ offset = 0 => count_output[k] = 0
    /\ wc = "off" => offset = 0 /\ Len(counting) = 0
    /\ wc = "reading" => Len(passes) >= 1
    /\ wc = "finished" => Len(passes) = 0
    /\ \A k \in 1 .. Len(passes) : passes[k] = counting[Len(counting) - Len(passes) + k]
    /\ NoZero /\ wc \in {"reading", "finished"} =>
          /\ \A k \in 1 .. Slot - 1 : Counted(counting[k], count_output[k], Len(input))
          /\ wc = "reading" => Counted(counting[Slot], count_output[Slot], offset)

\* The invariant holds at the start.
LEMMA WcInitInv == CcwcInit => WcInv
<1> SUFFICES ASSUME CcwcInit PROVE WcInv
    OBVIOUS
<1>1. <<>> \in Seq(STRING) /\ <<>> \in Seq(Options) /\ Len(<<>>) = 0
    BY EmptySeq
<1>2. /\ input \in Seq(STRING) /\ Len(input) = 0 /\ offset = 0 /\ wc = "off"
      /\ passes \in Seq(Options) /\ counting \in Seq(Options) /\ Len(passes) = 0 /\ Len(counting) = 0
    BY <1>1 DEF CcwcInit
<1>3. count_output \in [1 .. 3 -> Nat] /\ \A k \in 1 .. 3 : count_output[k] = 0
    BY DEF CcwcInit
<1> QED BY <1>2, <1>3 DEF WcInv, Slot

\* A file is opened and its first pass begins with nothing counted.
LEMMA WcStartKeeps ==
    ASSUME WcInv, CcwcStart, passes' # <<>>
    PROVE  WcInv'
<1>1. /\ wc = "off" /\ offset = 0 /\ count_output \in [1 .. 3 -> Nat] /\ Len(counting) = 0 /\ Len(passes) = 0
      /\ \A k \in 1 .. 3 : count_output[k] = 0
    <2>1. wc = "off" /\ offset = 0 /\ count_output \in [1 .. 3 -> Nat] /\ Len(counting) = 0
        BY DEF WcInv, CcwcStart
    <2>2. Len(passes) = 0
        BY <2>1, LenProperties DEF WcInv
    <2> QED BY <2>1, <2>2 DEF WcInv, Slot
<1>2. /\ input' \in Seq(STRING) /\ Len(input') \in Nat /\ wc' \in {"reading", "failed"}
      /\ offset' = 0 /\ count_output' = count_output
    BY <1>1, CcwcAssumption, LenProperties DEF CcwcStart
<1>3. /\ passes' \in Seq(Options) /\ Len(passes') \in 1 .. 3 /\ counting' = passes'
    <2>1. \A a \in Options : <<a>> \in Seq(Options) /\ Len(<<a>>) = 1
        OBVIOUS
    <2>2. \A a, b, c \in Options : <<a, b, c>> \in Seq(Options) /\ Len(<<a, b, c>>) = 3
        OBVIOUS
    <2>3. {"c", "l", "w", "m", "invalid"} = Options
        BY DEF Options
    <2>4. \/ \E a \in Options : passes' = <<a>>
          \/ \E a, b, c \in Options : passes' = <<a, b, c>>
        <3>1. passes' \in {<<"c">>, <<"l">>, <<"w">>, <<"m">>, <<"invalid">>, <<"l", "w", "c">>}
            BY Zenon DEF CcwcStart
        <3> QED BY <2>3, <3>1
    <2>5. counting' = passes'
        BY DEF CcwcStart
    <2>6. passes' \in Seq(Options) /\ (Len(passes') = 1 \/ Len(passes') = 3)
        BY <2>1, <2>2, <2>4, Zenon
    <2> QED BY <2>5, <2>6
<1>4. Slot' = 1
    BY <1>3 DEF Slot
<1>5. Counted(counting[1], count_output[1], offset)'
    <2>1. count_output'[1] = 0 /\ offset' = 0
        BY <1>1, <1>2
    <2>2. ASSUME NEW option PROVE Counted(option, 0, 0)'
        <3>1. Upto("w", 0)' = {} /\ Upto(option, 0)' = {}
            BY DEF Upto
        <3>2. Cardinality(Upto("w", 0)') = 0 /\ Cardinality(Upto(option, 0)') = 0
            BY <3>1, FS_EmptySet
        <3> QED BY <3>2 DEF Counted
    <2>3. \A x, c, o : c = 0 /\ o = 0 => Counted(x, c, o)'
        BY <2>2
    <2> QED BY <2>1, <2>3, Zenon
<1>6. \A k \in 1 .. Len(passes') : passes'[k] = counting'[Len(counting') - Len(passes') + k]
    BY <1>3
<1>7. \A k \in Slot' .. 3 : count_output'[k] = 0
    BY <1>1, <1>2, <1>4
<1>8. \A k \in 1 .. Slot' - 1 : FALSE
    BY <1>4
<1>9. Counted(counting[Slot], count_output[Slot], offset)'
    BY <1>4, <1>5
<1>10. wc' # "off" /\ wc' # "finished"
    BY <1>2
<1>11. Len(passes') <= Len(counting') /\ Len(counting') <= 3 /\ Len(passes') >= 1
    <2>1. \A n \in 1 .. 3 : n <= n /\ n <= 3 /\ n >= 1
        OBVIOUS
    <2>2. Len(passes') \in 1 .. 3 /\ Len(counting') = Len(passes')
        BY ONLY <1>3, Zenon
    <2> QED BY ONLY <2>1, <2>2, Zenon
<1>12. offset' \in 0 .. Len(input') /\ count_output' \in [1 .. 3 -> Nat]
    BY <1>1, <1>2
<1>13. wc' \in {"off", "reading", "finished", "failed"} /\ counting' \in Seq(Options)
    BY <1>2, <1>3
<1>14. (wc \in {"off", "reading"} => \A k \in Slot .. 3 : k # Slot \/ offset = 0 => count_output[k] = 0)'
    BY <1>7
<1>15. (/\ wc = "off" => offset = 0 /\ Len(counting) = 0
        /\ wc = "reading" => Len(passes) >= 1
        /\ wc = "finished" => Len(passes) = 0)'
    BY <1>10, <1>11
<1>16. (NoZero /\ wc \in {"reading", "finished"} =>
          /\ \A k \in 1 .. Slot - 1 : Counted(counting[k], count_output[k], Len(input))
          /\ wc = "reading" => Counted(counting[Slot], count_output[Slot], offset))'
    BY <1>8, <1>9, Zenon
<1> QED BY <1>2, <1>3, <1>6, <1>11, <1>12, <1>13, <1>14, <1>15, <1>16, Zenon DEF WcInv

\* Without an option letter nothing is counted.
LEMMA WcNothingKeeps ==
    ASSUME WcInv, CcwcStart, passes' = <<>>
    PROVE  WcInv'
<1>1. /\ wc = "off" /\ offset = 0 /\ count_output \in [1 .. 3 -> Nat]
      /\ wc' \in {"finished", "failed"} /\ counting' = <<>>
      /\ offset' = 0 /\ count_output' = count_output
    BY DEF WcInv, CcwcStart
<1>2. input' \in Seq(STRING) /\ Len(input') \in Nat
    BY CcwcAssumption, LenProperties DEF CcwcStart
<1>3. <<>> \in Seq(Options) /\ Len(<<>>) = 0
    BY EmptySeq
<1>4. Len(passes') = 0 /\ Len(counting') = 0 /\ passes' \in Seq(Options) /\ counting' \in Seq(Options)
    BY <1>1, <1>3
<1>5. Slot' = 1
    BY <1>4 DEF Slot
<1>6. \A k \in 1 .. Slot' - 1 : FALSE
    BY <1>5
<1> QED BY <1>1, <1>2, <1>4, <1>6 DEF WcInv

\* What is counted of a string is a number.
LEMMA CountIsNat ==
    ASSUME NEW option \in Options, option # "invalid", NEW s \in Seq(STRING)
    PROVE  Count(option, s) \in Nat
<1>1. Len(s) \in Nat /\ DOMAIN s = 1 .. Len(s)
    BY LenProperties
<1>2. IsFiniteSet(DOMAIN s)
    BY <1>1, FS_Interval
<1>3. \A T \in SUBSET DOMAIN s : Cardinality(T) \in Nat
    BY <1>2, FS_Subset, FS_CardinalityType
<1>4. CASE option = "c"
    BY <1>1, <1>4 DEF Count, count_bytes
<1>5. CASE option = "l"
    <2>1. {k \in DOMAIN s : s[k] = "nl"} \in SUBSET DOMAIN s
        OBVIOUS
    <2> QED BY <1>3, <1>5, <2>1 DEF Count, count_lines
<1>6. CASE option = "w"
    <2>1. {k \in DOMAIN s : s[k] \notin delimiters /\ (k = 1 \/ s[k - 1] \in delimiters)} \in SUBSET DOMAIN s
        OBVIOUS
    <2> QED BY <1>3, <1>6, <2>1 DEF Count, count_words
<1>7. CASE option = "m"
    <2>1. {k \in DOMAIN s : s[k] # "cont"} \in SUBSET DOMAIN s
        OBVIOUS
    <2> QED BY <1>3, <1>7, <2>1 DEF Count, count_chars
<1> QED BY <1>4, <1>5, <1>6, <1>7 DEF Options

\* A piece is added to the count of this pass.
LEMMA CountMorePieces ==
    ASSUME NEW option \in Options, option # "invalid", NEW c \in Nat,
           input \in Seq(STRING), offset \in 0 .. Len(input), offset < Len(input), NoZero,
           Counted(option, c, offset)
    PROVE  LET piece == Piece(SubSeq(input, offset + 1, Len(input)))
           IN  /\ Count(option, CString(piece)) \in Nat
               /\ Counted(option, c + Count(option, CString(piece)), offset + Len(piece))
<1> DEFINE piece == Piece(SubSeq(input, offset + 1, Len(input)))
           o == offset
           n == Len(piece)
           X == {k \in 1 .. Len(input) : Marked(option, k)}
           before == Below(X, o)
           after == Below(X, o + n)
           A == CASE option = "l" -> {k \in DOMAIN piece : piece[k] = "nl"}
                  [] option = "m" -> {k \in DOMAIN piece : piece[k] # "cont"}
                  [] option = "w" -> {k \in DOMAIN piece :
                        piece[k] \notin delimiters /\ (k = 1 \/ piece[k - 1] \in delimiters)}
                  [] OTHER -> DOMAIN piece
<1>1. /\ n \in Nat /\ n >= 1 /\ o + n <= Len(input) /\ CString(piece) = piece
      /\ DOMAIN piece = 1 .. n /\ \A k \in 1 .. n : piece[k] = input[o + k]
      /\ \/ o + n = Len(input) \/ input[o + n] = "nl"
         \/ n = buffer_size - 1 /\ \A k \in 1 .. n : input[o + k] # "nl"
    BY PieceFacts DEF NoZero
<1>2. o \in Nat /\ Len(input) \in Nat /\ c \in Nat
    BY LenProperties
<1>3. before = Upto(option, o) /\ after = Upto(option, o + n)
    BY <1>1, <1>2 DEF Upto, Below
<1>4. Count(option, CString(piece)) = Cardinality(A)
    <2>1. n = Cardinality(1 .. n)
        <3>1. \A x \in Nat : Cardinality(1 .. x) = x
            BY FS_Interval
        <3> QED BY <1>1, <3>1
    <2>2. CASE option = "c"
        BY <1>1, <2>1, <2>2 DEF Count, count_bytes
    <2>3. CASE option = "l"
        BY <1>1, <2>3 DEF Count, count_lines
    <2>4. CASE option = "w"
        BY <1>1, <2>4 DEF Count, count_words
    <2>5. CASE option = "m"
        BY <1>1, <2>5 DEF Count, count_chars
    <2> QED BY <2>2, <2>3, <2>4, <2>5 DEF Options
<1>5. A \in SUBSET (1 .. n)
    BY <1>1
<1> HIDE DEF piece, n
<1>6. /\ \A k \in 1 .. n : o + k \in X => k \in A
      /\ option # "w" \/ o = 0 \/ input[o] \in delimiters => \A k \in A : o + k \in X
    <2>1. ASSUME NEW k \in 1 .. n
          PROVE  /\ o + k \in 1 .. Len(input) /\ piece[k] = input[o + k] /\ k \in DOMAIN piece
                 /\ k # 1 => piece[k - 1] = input[o + k - 1] /\ o + k # 1
                 /\ k = 1 => o + k - 1 = o /\ (o = 0 => o + k = 1)
        <3>1. o + k \in 1 .. Len(input)
            BY <1>1, <1>2
        <3>2. k # 1 => k - 1 \in 1 .. n /\ o + (k - 1) = o + k - 1 /\ o + k # 1
            BY <1>1, <1>2
        <3> QED BY <1>1, <1>2, <3>1, <3>2
    <2> HIDE DEF o
    <2>2. CASE option = "w"
        <3>1. ASSUME NEW k \in 1 .. n
              PROVE  k \in A <=> input[o + k] \notin delimiters /\ (k = 1 \/ input[o + k - 1] \in delimiters)
            <4>1. k \in A <=> piece[k] \notin delimiters /\ (k = 1 \/ piece[k - 1] \in delimiters)
                BY <2>1, <2>2
            <4> HIDE DEF A
            <4> QED BY <2>1, <4>1
        <3>2. ASSUME NEW k \in 1 .. n
              PROVE  o + k \in X <=> input[o + k] \notin delimiters /\ (o + k = 1 \/ input[o + k - 1] \in delimiters)
            <4>1. o + k \in X <=> Marked(option, o + k)
                BY <2>1
            <4>2. Marked(option, o + k) <=>
                     input[o + k] \notin delimiters /\ (o + k = 1 \/ input[o + k - 1] \in delimiters)
                BY <1>2, <2>2 DEF Marked
            <4> QED BY <4>1, <4>2
        <3>3. \A k \in A : k \in 1 .. n
            BY <1>5
        <3> HIDE DEF A, X
        <3>4. \A k \in 1 .. n : o + k \in X => k \in A
            BY <2>1, <3>1, <3>2
        <3>5. (o = 0 \/ input[o] \in delimiters) => \A k \in A : o + k \in X
            BY <2>1, <3>1, <3>2, <3>3
        <3> QED BY <2>2, <3>4, <3>5
    <2>3. CASE option # "w"
        BY <1>5, <2>1, <2>3 DEF Marked
    <2> QED BY <2>2, <2>3
<1> HIDE DEF A, o
<1>7. /\ Cardinality(before) \in Nat /\ Cardinality(after) \in Nat /\ Cardinality(A) \in Nat
      /\ Cardinality(after) <= Cardinality(before) + Cardinality(A)
      /\ (\A k \in A : o + k \in X) => Cardinality(after) = Cardinality(before) + Cardinality(A)
    <2> DEFINE B == Between(X, o, n)
    <2>1. B \in SUBSET A /\ ((\A k \in A : o + k \in X) => B = A)
        BY <1>5, <1>6 DEF Between
    <2>2. IsFiniteSet(A)
        <3>1. IsFiniteSet(1 .. n)
            BY <1>1, FS_Interval
        <3> QED BY <1>5, <3>1, FS_Subset
    <2> HIDE DEF B, X
    <2>3. Cardinality(A) \in Nat /\ Cardinality(B) <= Cardinality(A)
        BY <2>1, <2>2, FS_Subset, FS_CardinalityType
    <2>4. /\ Cardinality(before) \in Nat /\ Cardinality(B) \in Nat
          /\ Cardinality(after) = Cardinality(before) + Cardinality(B)
        BY <1>1, <1>2, CountExactly DEF B
    <2> HIDE DEF before, after
    <2> QED BY <2>1, <2>3, <2>4
<1> HIDE DEF X, before, after
<1>8. CASE option # "w"
    <2>1. c = Cardinality(before)
        BY <1>3, <1>8 DEF Counted, o
    <2>2. c + Cardinality(A) = Cardinality(after)
        BY <1>6, <1>7, <1>8, <2>1
    <2>3. Counted(option, c + Cardinality(A), o + n)
        BY <1>3, <1>8, <2>2 DEF Counted
    <2> QED BY <1>4, <1>7, <2>3 DEF o, n, piece
<1>9. CASE option = "w"
    <2>1. /\ c >= Cardinality(before)
          /\ FileFits => c = Cardinality(before) /\ (o = 0 \/ o = Len(input) \/ input[o] = "nl")
        BY <1>3, <1>9 DEF Counted, o
    <2>2. c + Cardinality(A) >= Cardinality(after)
        BY ONLY <1>2, <1>7, <2>1
    <2>3. FileFits => c + Cardinality(A) = Cardinality(after)
        <3>1. o # Len(input)
            BY <1>2 DEF o
        <3>2. FileFits => o = 0 \/ input[o] \in delimiters
            BY <2>1, <3>1 DEF delimiters
        <3> QED BY <1>6, <1>7, <2>1, <3>2
    <2>4. FileFits => o + n = Len(input) \/ input[o + n] = "nl"
        <3>1. SUFFICES ASSUME FileFits, o + n # Len(input), n = buffer_size - 1, \A k \in 1 .. n : input[o + k] # "nl"
                       PROVE  FALSE
            BY <1>1
        <3>2. o + 1 \in 1 .. Len(input) + 1 - buffer_size
            BY <1>1, <1>2, <3>1, CcwcAssumption
        <3>3. PICK j \in o + 1 .. o + 1 + buffer_size - 2 : input[j] = "nl"
            BY <3>1, <3>2 DEF FileFits
        <3>4. j - o \in 1 .. n /\ o + (j - o) = j
            BY <1>1, <1>2, <3>1, CcwcAssumption
        <3> QED BY <3>1, <3>3, <3>4
    <2>5. Counted(option, c + Cardinality(A), o + n)
        BY <1>3, <1>9, <2>2, <2>3, <2>4 DEF Counted
    <2> QED BY <1>4, <1>7, <2>5 DEF o, n, piece
<1> QED BY <1>8, <1>9

\* A piece is counted.
LEMMA CountPieceKeeps ==
    ASSUME WcInv, CountPiece
    PROVE  WcInv'
<1> DEFINE piece == Piece(SubSeq(input, offset + 1, Len(input)))
           option == Head(passes)
           n == Len(piece)
           more == Count(option, CString(piece))
<1>1. /\ wc = "reading" /\ offset < Len(input)
      /\ UNCHANGED <<passes, counting, input>>
      /\ IF option = "invalid" THEN wc' = "failed" /\ UNCHANGED <<offset, count_output>>
         ELSE /\ count_output' = [count_output EXCEPT ![Slot] = @ + more]
              /\ offset' = offset + n /\ UNCHANGED wc
    BY DEF CountPiece, Slot
<1>2. /\ input \in Seq(STRING) /\ offset \in 0 .. Len(input) /\ Len(input) \in Nat
      /\ count_output \in [1 .. 3 -> Nat]
      /\ passes \in Seq(Options) /\ counting \in Seq(Options)
      /\ Len(passes) \in Nat /\ Len(counting) \in Nat
      /\ Len(passes) <= Len(counting) /\ Len(counting) <= 3 /\ Len(passes) >= 1
      /\ \A k \in Slot .. 3 : k # Slot \/ offset = 0 => count_output[k] = 0
      /\ \A k \in 1 .. Len(passes) : passes[k] = counting[Len(counting) - Len(passes) + k]
    BY <1>1, LenProperties DEF WcInv
<1>3. Slot \in 1 .. 3 /\ Slot <= Len(counting) /\ Slot' = Slot
    <2>1. \A l, m \in Nat : m <= l /\ l <= 3 /\ m >= 1 => l - m + 1 \in 1 .. 3 /\ l - m + 1 <= l
        OBVIOUS
    <2>2. Slot \in 1 .. 3 /\ Slot <= Len(counting)
        BY ONLY <1>2, <2>1, Zenon DEF Slot
    <2> QED BY <1>1, <2>2 DEF Slot
<1>4. option = counting[Slot] /\ option \in Options
    <2>1. option = passes[1] /\ 1 \in 1 .. Len(passes)
        BY <1>2
    <2>2. passes[1] = counting[Slot]
        BY <1>2, <2>1 DEF Slot
    <2> QED BY <1>2, <2>1, <2>2, ElementOfSeq
<1> HIDE DEF option
<1>5. CASE option = "invalid"
    BY <1>1, <1>5 DEF WcInv, Slot
<1>6. CASE option # "invalid"
    <2>1. count_output' = [count_output EXCEPT ![Slot] = @ + more] /\ offset' = offset + n /\ wc' = "reading"
        BY <1>1, <1>6
    <2>2. more \in Nat /\ n \in Nat /\ n >= 1 /\ offset + n <= Len(input)
        <3>1. n \in Nat /\ n >= 1 /\ offset + n <= Len(input) /\ CString(piece) \in Seq(STRING)
            BY <1>1, <1>2, PieceFacts
        <3> QED BY <1>4, <1>6, <3>1, CountIsNat
    <2> HIDE DEF more, n
    <2>3. /\ count_output' \in [1 .. 3 -> Nat] /\ offset' \in 0 .. Len(input) /\ offset' # 0
          /\ count_output'[Slot] = count_output[Slot] + more
          /\ \A k \in 1 .. 3 : k # Slot => count_output'[k] = count_output[k]
        <3>1. offset' \in 0 .. Len(input) /\ offset' # 0
            BY ONLY <1>2, <2>1, <2>2
        <3>2. \A k \in 1 .. 3 : count_output[k] \in Nat
            BY <1>2
        <3> QED BY ONLY <1>2, <1>3, <2>1, <2>2, <3>1, <3>2, SMTT(30)
    <2>4. ASSUME NoZero
          PROVE  /\ \A k \in 1 .. Slot - 1 : Counted(counting[k], count_output[k], Len(input))
                 /\ Counted(counting[Slot], count_output[Slot] + more, offset + n)
        <3>1. /\ \A k \in 1 .. Slot - 1 : Counted(counting[k], count_output[k], Len(input))
              /\ Counted(option, count_output[Slot], offset) /\ count_output[Slot] \in Nat
            BY <1>1, <1>2, <1>3, <1>4, <2>4 DEF WcInv
        <3>2. Counted(option, count_output[Slot] + more, offset + n)
            BY <1>1, <1>2, <1>4, <1>6, <2>4, <3>1, CountMorePieces DEF more, n
        <3> QED BY <1>4, <3>1, <3>2
    <2>5. ASSUME NEW x, NEW c, NEW o, Counted(x, c, o)
          PROVE  Counted(x, c, o)'
        <3>1. \A y, m : Upto(y, m)' = Upto(y, m)
            BY <1>1 DEF Upto, Marked
        <3> QED BY <1>1, <2>5, <3>1 DEF Counted, FileFits
    <2>6. ASSUME NoZero'
          PROVE  /\ \A k \in 1 .. Slot - 1 : Counted(counting[k], count_output[k], Len(input))'
                 /\ Counted(counting[Slot], count_output[Slot], offset)'
        <3>1. NoZero
            BY <1>1, <2>6 DEF NoZero
        <3>2. \A k \in 1 .. Slot - 1 : k \in 1 .. 3 /\ k # Slot
            BY <1>3
        <3>3. /\ \A k \in 1 .. Slot - 1 : Counted(counting[k], count_output'[k], Len(input))
              /\ Counted(counting[Slot], count_output'[Slot], offset')
            BY <2>1, <2>3, <2>4, <3>1, <3>2
        <3> QED BY <1>1, <1>3, <2>5, <3>3
    <2> QED BY <1>1, <1>2, <1>3, <2>1, <2>3, <2>6 DEF WcInv
<1> QED BY <1>5, <1>6

\* A pass is over.
LEMMA NextPassKeeps ==
    ASSUME WcInv, NextPass
    PROVE  WcInv'
<1>1. /\ wc = "reading" /\ offset = Len(input) /\ passes' = Tail(passes)
      /\ wc' = IF Len(passes) = 1 THEN "finished" ELSE "reading"
      /\ offset' = IF Len(passes) = 1 THEN offset ELSE 0
      /\ UNCHANGED <<counting, input, count_output>>
    BY DEF NextPass
<1>2. /\ input \in Seq(STRING) /\ offset \in 0 .. Len(input) /\ Len(input) \in Nat
      /\ count_output \in [1 .. 3 -> Nat]
      /\ passes \in Seq(Options) /\ counting \in Seq(Options)
      /\ Len(passes) \in Nat /\ Len(counting) \in Nat
      /\ Len(passes) <= Len(counting) /\ Len(counting) <= 3 /\ Len(passes) >= 1
      /\ \A k \in Slot .. 3 : k # Slot \/ offset = 0 => count_output[k] = 0
      /\ \A k \in 1 .. Len(passes) : passes[k] = counting[Len(counting) - Len(passes) + k]
    BY <1>1, LenProperties DEF WcInv
\* The lengths alone.
<1> DEFINE lp == Len(passes)
           lc == Len(counting)
<1>0. lp \in Nat /\ lc \in Nat /\ lp <= lc /\ lc <= 3 /\ lp >= 1
    BY <1>2
<1>3. /\ passes' \in Seq(Options) /\ Len(passes') = Len(passes) - 1
      /\ \A k \in 1 .. Len(passes) - 1 : passes'[k] = passes[k + 1]
    <2>1. passes # <<>>
        BY <1>2, EmptySeq
    <2> QED BY <1>1, <1>2, <2>1, HeadTailProperties
<1>4. /\ Slot \in 1 .. 3 /\ Slot <= Len(counting) /\ Slot' = Slot + 1
      /\ Len(passes) # 1 => Slot + 1 <= Len(counting)
    <2>1. Slot \in 1 .. 3 /\ Slot <= Len(counting) /\ (Len(passes) # 1 => Slot + 1 <= Len(counting))
        <3>1. Slot = lc - lp + 1
            BY DEF Slot
        <3> HIDE DEF lp, lc
        <3>2. Slot \in 1 .. 3 /\ Slot <= lc /\ (lp # 1 => Slot + 1 <= lc)
            BY ONLY <1>0, <3>1
        <3> QED BY <3>2 DEF lp, lc
    <2>2. Slot' = Len(counting) - (Len(passes) - 1) + 1
        BY <1>1, <1>3 DEF Slot
    <2> QED BY <1>2, <2>1, <2>2 DEF Slot
<1>5. \A k \in 1 .. Len(passes') : passes'[k] = counting'[Len(counting') - Len(passes') + k]
    <2>1. ASSUME NEW k \in 1 .. Len(passes')
          PROVE  passes'[k] = counting'[Len(counting') - Len(passes') + k]
        <3>1. k \in 1 .. Len(passes) - 1 /\ k + 1 \in 1 .. Len(passes)
              /\ Len(counting) - Len(passes) + (k + 1) = Len(counting) - Len(passes') + k
            BY <1>2, <1>3
        <3> QED BY <1>1, <1>2, <1>3, <3>1
    <2> QED BY <2>1
<1>6. \A k \in Slot' .. 3 : count_output'[k] = 0
    <2>1. \A k \in Slot + 1 .. 3 : k \in Slot .. 3 /\ k # Slot
        BY <1>4
    <2> QED BY <1>1, <1>2, <1>4, <2>1
<1>7. ASSUME NoZero'
      PROVE  /\ \A k \in 1 .. Slot' - 1 : Counted(counting[k], count_output[k], Len(input))'
             /\ wc' = "reading" => Counted(counting[Slot], count_output[Slot], offset)'
    <2>1. /\ \A k \in 1 .. Slot - 1 : Counted(counting[k], count_output[k], Len(input))
          /\ Counted(counting[Slot], count_output[Slot], Len(input))
        <3>1. NoZero
            BY <1>1, <1>7 DEF NoZero
        <3> QED BY <1>1, <3>1 DEF WcInv
    <2>2. \A k \in 1 .. Slot : Counted(counting[k], count_output[k], Len(input))
        <3>1. \A k \in 1 .. Slot : k = Slot \/ k \in 1 .. Slot - 1
            BY <1>4
        <3> QED BY <2>1, <3>1
    <2>3. ASSUME NEW x, NEW c, NEW o
          PROVE  /\ Counted(x, c, o) => Counted(x, c, o)'
                 /\ Counted(x, 0, 0)'
        <3>1. \A y, m : Upto(y, m)' = Upto(y, m)
            BY <1>1 DEF Upto, Marked
        <3>2. Upto("w", 0) = {} /\ Upto(x, 0) = {}
            BY DEF Upto
        <3>3. Cardinality(Upto("w", 0)) = 0 /\ Cardinality(Upto(x, 0)) = 0
            BY <3>2, FS_EmptySet
        <3> QED BY <1>1, <3>1, <3>3 DEF Counted, FileFits
    <2>4. \A k \in 1 .. Slot : Counted(counting[k], count_output[k], Len(input))'
        BY <1>1, <2>2, <2>3
    <2>5. wc' = "reading" => Counted(counting[Slot], count_output[Slot], offset)'
        <3>1. wc' = "reading" => offset' = 0 /\ Slot' \in Slot' .. 3
            BY <1>1, <1>2, <1>4
        <3>2. wc' = "reading" => offset' = 0 /\ count_output'[Slot'] = 0
            BY <1>6, <3>1
        <3> QED BY <2>3, <3>2
    <2>6. Slot' - 1 = Slot
        BY <1>4
    <2> QED BY <2>4, <2>5, <2>6
<1>8. offset' \in 0 .. Len(input')
    BY <1>1, <1>2
<1>9. wc' \in {"reading", "finished"} /\ (wc' = "reading" => Len(passes') >= 1)
      /\ (wc' = "finished" => Len(passes') = 0) /\ Len(passes') <= Len(counting')
    <2>1. lp - 1 <= lc /\ (lp = 1 => lp - 1 = 0) /\ (lp # 1 => lp - 1 >= 1)
        <3> HIDE DEF lp, lc
        <3> QED BY ONLY <1>0
    <2>2. Len(counting') = lc /\ Len(passes') = lp - 1 /\ wc' = IF lp = 1 THEN "finished" ELSE "reading"
        BY <1>1, <1>3
    <2> HIDE DEF lp, lc
    <2> QED BY <2>1, <2>2
<1> QED BY <1>1, <1>2, <1>3, <1>5, <1>6, <1>7, <1>8, <1>9 DEF WcInv

\* Every step keeps the invariant.
LEMMA WcNextInv == WcInv /\ [CcwcNext]_wcVars => WcInv'
<1> SUFFICES ASSUME WcInv, [CcwcNext]_wcVars
             PROVE  WcInv'
    OBVIOUS
<1>1. CASE CcwcStart
    BY <1>1, WcStartKeeps, WcNothingKeeps
<1>2. CASE CountPiece
    BY <1>2, CountPieceKeeps
<1>3. CASE NextPass
    BY <1>3, NextPassKeeps
<1>4. CASE UNCHANGED wcVars
    <2>1. UNCHANGED <<wc, passes, counting, input, offset, count_output>>
        BY <1>4 DEF wcVars
    <2>2. Slot' = Slot /\ NoZero' = NoZero /\ \A x, n, o : Counted(x, n, o)' = Counted(x, n, o)
        BY <2>1 DEF Slot, NoZero, Counted, Upto, Marked, FileFits
    <2> QED BY <2>1, <2>2 DEF WcInv
<1> QED BY <1>1, <1>2, <1>3, <1>4 DEF CcwcNext

\* For every file without zero bytes and every size of the buffer, the counts of
\* ccwc.c are those of the whole text: lines, bytes and characters in any case, and
\* words when every line fits in the buffer and the only white space is that of
\* `delimiters`; in longer lines there are not too few of them.
THEOREM WcCountsOfFile == CcwcSpec => []CountsOfFile
<1>1. WcInv => CountsOfFile
    <2> SUFFICES ASSUME WcInv, wc = "finished", \A i \in DOMAIN input : input[i] # "nul",
                        NEW k \in DOMAIN counting
                 PROVE  CASE counting[k] = "c" -> count_output[k] = Len(input)
                          [] counting[k] = "l" -> count_output[k] = Cardinality({i \in DOMAIN input : input[i] = "nl"})
                          [] counting[k] = "m" -> count_output[k] = Cardinality({i \in DOMAIN input : input[i] # "cont"})
                          [] counting[k] = "w" -> "tab" \notin ToSet(input) =>
                                /\ count_output[k] >= Cardinality(Words(input))
                                /\ FileFits => count_output[k] = Cardinality(Words(input))
                          [] OTHER -> input = <<>>
        BY DEF CountsOfFile
    <2>1. /\ Len(input) \in Nat /\ DOMAIN input = 1 .. Len(input) /\ input \in Seq(STRING)
          /\ counting \in Seq(Options) /\ DOMAIN counting = 1 .. Len(counting) /\ Len(counting) \in Nat
          /\ Len(passes) = 0
        BY LenProperties DEF WcInv
    <2>2. Counted(counting[k], count_output[k], Len(input)) /\ counting[k] \in Options
        <3>1. Slot - 1 = Len(counting)
            BY <2>1 DEF Slot
        <3> QED BY <2>1, <3>1, ElementOfSeq DEF WcInv, NoZero
    <2>3. CASE counting[k] = "c"
        <3>1. Upto("c", Len(input)) = 1 .. Len(input)
            BY DEF Upto, Marked
        <3>2. Cardinality(1 .. Len(input)) = Len(input)
            <4>1. \A x \in Nat : Cardinality(1 .. x) = x
                BY FS_Interval
            <4> QED BY <2>1, <4>1
        <3> QED BY <2>2, <2>3, <3>1, <3>2 DEF Counted
    <2>4. CASE counting[k] = "l"
        <3>1. Upto("l", Len(input)) = {i \in DOMAIN input : input[i] = "nl"}
            BY <2>1 DEF Upto, Marked
        <3> QED BY <2>2, <2>4, <3>1 DEF Counted
    <2>5. CASE counting[k] = "m"
        <3>1. Upto("m", Len(input)) = {i \in DOMAIN input : input[i] # "cont"}
            BY <2>1 DEF Upto, Marked
        <3> QED BY <2>2, <2>5, <3>1 DEF Counted
    <2>6. CASE counting[k] = "w"
        <3>1. SUFFICES ASSUME "tab" \notin ToSet(input)
                       PROVE  /\ count_output[k] >= Cardinality(Words(input))
                              /\ FileFits => count_output[k] = Cardinality(Words(input))
            BY <2>6
        <3>2. \A i \in 1 .. Len(input) : input[i] \in WhiteSpace <=> input[i] \in delimiters
            <4>1. \A i \in DOMAIN input : input[i] # "tab"
                BY <3>1 DEF ToSet
            <4> QED BY <2>1, <4>1 DEF WhiteSpace, delimiters
        <3>3. \A i \in 1 .. Len(input) : i = 1 \/ i - 1 \in 1 .. Len(input)
            BY <2>1
        <3>4. Upto("w", Len(input)) = Words(input)
            BY <2>1, <3>2, <3>3 DEF Upto, Marked, Words
        <3> QED BY <2>2, <2>6, <3>4 DEF Counted
    <2>7. CASE counting[k] = "invalid"
        BY <2>1, <2>2, <2>7, EmptySeq DEF Counted
    <2> QED BY <2>2, <2>3, <2>4, <2>5, <2>6, <2>7 DEF Options
<1> QED BY <1>1, WcInitInv, WcNextInv, PTL DEF CcwcSpec
-----------------------------------------------------------------------------
(* The types of the word counter and of the UDP programs. *)

\* No more is counted in a piece than there are bytes in it.
LEMMA CountFits ==
    ASSUME NEW s \in Seq(STRING), NEW o \in 0 .. Len(s), o < Len(s),
           NEW option \in Options, option # "invalid"
    PROVE  LET piece == Piece(SubSeq(s, o + 1, Len(s)))
           IN  /\ Count(option, CString(piece)) \in 0 .. Len(piece)
               /\ Len(piece) \in Nat /\ o + Len(piece) \in 0 .. Len(s) /\ Len(piece) >= 1
<1> DEFINE text == SubSeq(s, o + 1, Len(s))
           piece == Piece(text)
           c == CString(piece)
<1>1. /\ Len(s) \in Nat /\ Len(piece) \in Nat /\ Len(piece) >= 1 /\ o + Len(piece) <= Len(s)
      /\ c \in Seq(STRING) /\ DOMAIN piece = 1 .. Len(piece)
    BY LenProperties, PieceFacts
<1>2. Len(c) <= Len(piece) /\ Len(c) \in Nat
    <2> DEFINE zeros == {k \in DOMAIN piece : piece[k] = "nul"} \cup {Len(piece) + 1}
               end == Min(zeros)
    <2>1. zeros \in SUBSET Nat /\ zeros # {} /\ Len(piece) + 1 \in zeros
        BY <1>1
    <2>2. end \in zeros /\ end <= Len(piece) + 1
        <3> HIDE DEF zeros
        <3> QED BY <2>1, MinOfNats
    <2>3. end \in 1 .. Len(piece) + 1
        BY <1>1, <2>2
    <2>4. c = SubSeq(piece, 1, end - 1)
        BY DEF CString
    <2> HIDE DEF end, piece, c
    <2>5. \A n \in Nat : \A e \in 1 .. n + 1 : Len(SubSeq(piece, 1, e - 1)) = e - 1 /\ e - 1 <= n
        OBVIOUS
    <2> QED BY <1>1, <2>3, <2>4, <2>5
<1> HIDE DEF piece, c
<1>3. DOMAIN c = 1 .. Len(c) /\ IsFiniteSet(1 .. Len(c)) /\ Cardinality(1 .. Len(c)) = Len(c)
    <2>1. \A n \in Nat : IsFiniteSet(1 .. n) /\ Cardinality(1 .. n) = n
        <3>1. \A m, n \in Int : IsFiniteSet(m .. n) /\ Cardinality(m .. n) = IF m > n THEN 0 ELSE n - m + 1
            BY FS_Interval, Zenon
        <3>2. \A n \in Nat : 1 \in Int /\ n \in Int /\ (IF 1 > n THEN 0 ELSE n - 1 + 1) = n
            OBVIOUS
        <3> QED BY <3>1, <3>2, Zenon
    <2>2. DOMAIN c = 1 .. Len(c)
        BY <1>1, LenProperties
    <2> QED BY <1>2, <2>1, <2>2
<1>4. \A T \in SUBSET DOMAIN c : Cardinality(T) \in 0 .. Len(piece)
    <2>1. ASSUME NEW T \in SUBSET DOMAIN c
          PROVE  Cardinality(T) \in Nat /\ Cardinality(T) <= Len(c)
        BY <1>3, FS_Subset, FS_CardinalityType
    <2> QED BY <1>1, <1>2, <2>1
<1>5. Count(option, c) \in 0 .. Len(piece)
    <2>1. CASE option = "c"
        BY <1>1, <1>2, <2>1 DEF Count, count_bytes
    <2>2. CASE option = "l"
        <3>1. {k \in DOMAIN c : c[k] = "nl"} \in SUBSET DOMAIN c
            OBVIOUS
        <3> QED BY <1>4, <2>2, <3>1 DEF Count, count_lines
    <2>3. CASE option = "w"
        <3>1. {k \in DOMAIN c : c[k] \notin delimiters /\ (k = 1 \/ c[k - 1] \in delimiters)} \in SUBSET DOMAIN c
            OBVIOUS
        <3> QED BY <1>4, <2>3, <3>1 DEF Count, count_words
    <2>4. CASE option = "m"
        <3>1. {k \in DOMAIN c : c[k] # "cont"} \in SUBSET DOMAIN c
            OBVIOUS
        <3> QED BY <1>4, <2>4, <3>1 DEF Count, count_chars
    <2> QED BY <2>1, <2>2, <2>3, <2>4 DEF Options
<1> QED BY <1>1, <1>5 DEF piece, c

\* The running pass has counted no more than is read, and no pass more than there is.
WcTypeInv ==
    /\ WcInv
    /\ \A k \in 1 .. 3 : count_output[k] <= Len(input)
    /\ wc = "reading" => count_output[Slot] <= offset

LEMMA WcTypeStep == WcTypeInv /\ [CcwcNext]_wcVars => WcTypeInv'
<1> SUFFICES ASSUME WcTypeInv, [CcwcNext]_wcVars PROVE WcTypeInv'
    OBVIOUS
<1>1. WcInv'
    BY WcNextInv DEF WcTypeInv
<1>2. /\ input \in Seq(STRING) /\ Len(input) \in Nat /\ offset \in 0 .. Len(input)
      /\ count_output \in [1 .. 3 -> Nat]
      /\ \A k \in 1 .. 3 : count_output[k] <= Len(input)
      /\ wc = "reading" => count_output[Slot] <= offset
      /\ wc \in {"off", "reading"} => \A k \in Slot .. 3 : k # Slot \/ offset = 0 => count_output[k] = 0
      /\ passes \in Seq(Options) /\ counting \in Seq(Options)
      /\ Len(passes) \in Nat /\ Len(counting) \in Nat
      /\ Len(passes) <= Len(counting) /\ Len(counting) <= 3
      /\ wc = "off" => offset = 0 /\ Len(counting) = 0
      /\ wc = "reading" => Len(passes) >= 1
    BY LenProperties DEF WcTypeInv, WcInv
<1>3. /\ Len(input') \in Nat /\ offset' \in 0 .. Len(input')
      /\ Len(passes') \in Nat /\ Len(counting') \in Nat
      /\ Len(passes') <= Len(counting') /\ Len(counting') <= 3
      /\ wc' = "reading" => Len(passes') >= 1
    BY <1>1, LenProperties DEF WcInv
<1>4. wc' = "reading" => Slot' \in 1 .. 3
    <2>1. \A l, m \in Nat : m <= l /\ l <= 3 /\ m >= 1 => l - m + 1 \in 1 .. 3
        OBVIOUS
    <2> QED BY ONLY <1>3, <2>1, Zenon DEF Slot
<1>5. CASE CcwcStart
    <2>1. wc = "off" /\ UNCHANGED <<offset, count_output>>
        BY <1>5 DEF CcwcStart
    <2>2. Slot = 1
        BY <1>2, <2>1 DEF Slot
    <2>3. \A k \in 1 .. 3 : count_output'[k] = 0
        BY <1>2, <2>1, <2>2
    <2>4. wc' = "reading" => count_output'[Slot'] = 0
        BY <1>4, <2>3
    <2> QED BY <1>1, <1>3, <2>3, <2>4 DEF WcTypeInv
<1>6. CASE CountPiece
    <2> DEFINE piece == Piece(SubSeq(input, offset + 1, Len(input)))
               option == Head(passes)
               more == Count(option, CString(piece))
    <2>1. /\ wc = "reading" /\ offset < Len(input)
          /\ UNCHANGED <<passes, counting, input>> /\ Slot' = Slot
          /\ IF option = "invalid" THEN wc' = "failed" /\ UNCHANGED <<offset, count_output>>
             ELSE /\ count_output' = [count_output EXCEPT ![Slot] = @ + more]
                  /\ offset' = offset + Len(piece) /\ UNCHANGED wc
        BY <1>6 DEF CountPiece, Slot
    <2>2. CASE option = "invalid"
        <3>1. UNCHANGED <<input, count_output>> /\ wc' = "failed"
            BY <2>1, <2>2
        <3> QED BY <1>1, <1>2, <3>1 DEF WcTypeInv
    <2>3. CASE option # "invalid"
        <3>1. option \in Options
            <4>1. option = passes[1] /\ 1 \in 1 .. Len(passes)
                BY <1>2, <2>1
            <4> QED BY <1>2, <4>1, ElementOfSeq
        <3>2. more \in 0 .. Len(piece) /\ Len(piece) \in Nat /\ offset + Len(piece) \in 0 .. Len(input)
            BY <1>2, <2>1, <2>3, <3>1, CountFits
        <3>3. Slot \in 1 .. 3
            BY <1>4, <2>1, <2>3
        <3> HIDE DEF option, more, piece
        <3>4. /\ count_output'[Slot] = count_output[Slot] + more
              /\ \A k \in 1 .. 3 : k # Slot => count_output'[k] = count_output[k]
              /\ count_output[Slot] \in Nat
            BY <1>2, <2>1, <2>3, <3>3
        <3>5. count_output'[Slot] <= offset' /\ offset' <= Len(input)
            BY <1>2, <2>1, <2>3, <3>2, <3>4
        <3>6. count_output'[Slot] <= Len(input)
            BY ONLY <1>2, <2>1, <2>3, <3>2, <3>4
        <3> QED BY <1>1, <1>2, <2>1, <3>4, <3>5, <3>6 DEF WcTypeInv
    <2> QED BY <2>2, <2>3
<1>7. CASE NextPass
    <2>1. /\ wc = "reading" /\ passes' = Tail(passes)
          /\ wc' = IF Len(passes) = 1 THEN "finished" ELSE "reading"
          /\ UNCHANGED <<counting, input, count_output>>
        BY <1>7 DEF NextPass
    <2>2. Len(passes') = Len(passes) - 1
        <3>1. passes # <<>>
            BY <1>2, <2>1, EmptySeq
        <3> QED BY <1>2, <2>1, <3>1, HeadTailProperties
    <2>3. Slot' = Slot + 1
        <3>1. \A l, m \in Nat : l - (m - 1) + 1 = (l - m + 1) + 1
            OBVIOUS
        <3>2. Slot' = Len(counting) - (Len(passes) - 1) + 1
            BY <2>1, <2>2 DEF Slot
        <3> QED BY ONLY <1>2, <3>1, <3>2 DEF Slot
    <2>4. Slot \in Int /\ (wc' = "reading" => Slot + 1 \in Slot .. 3 /\ Slot + 1 # Slot)
        <3>1. Slot \in Int
            BY ONLY <1>2 DEF Slot
        <3>2. wc' = "reading" => Slot' \in 1 .. 3
            BY ONLY <1>4
        <3> HIDE DEF Slot
        <3> QED BY ONLY <2>3, <3>1, <3>2
    <2>5. wc' = "reading" => count_output'[Slot'] = 0
        BY <1>2, <2>1, <2>3, <2>4
    <2> QED BY <1>1, <1>2, <1>3, <2>1, <2>5 DEF WcTypeInv
<1>8. CASE UNCHANGED wcVars
    <2>1. UNCHANGED <<wc, passes, counting, input, offset, count_output>> /\ Slot' = Slot
        BY <1>8 DEF wcVars, Slot
    <2> QED BY <1>1, <1>2, <2>1 DEF WcTypeInv
<1> QED BY <1>5, <1>6, <1>7, <1>8 DEF CcwcNext

LEMMA WcInitTypes == CcwcInit => WcTypeInv
<1> SUFFICES ASSUME CcwcInit PROVE WcTypeInv
    OBVIOUS
<1>1. WcInv
    BY WcInitInv
<1>2. wc = "off" /\ Len(input) = 0 /\ \A k \in 1 .. 3 : count_output[k] = 0
    BY DEF CcwcInit
<1> QED BY <1>1, <1>2 DEF WcTypeInv

LEMMA WcInvTypes == WcTypeInv => CcwcTypeOK
<1> SUFFICES ASSUME WcTypeInv PROVE CcwcTypeOK
    OBVIOUS
<1>1. /\ input \in Seq(STRING) /\ Len(input) \in Nat /\ offset \in 0 .. Len(input)
      /\ wc \in {"off", "reading", "finished", "failed"} /\ count_output \in [1 .. 3 -> Nat]
      /\ \A k \in 1 .. 3 : count_output[k] <= Len(input)
    BY LenProperties DEF WcTypeInv, WcInv
<1> QED BY <1>1 DEF CcwcTypeOK

\* Every step of the datagram programs keeps the types of their variables.
LEMMA UdpInitTypes == UdpInit => UdpTypeOK
BY UdpAssumption DEF UdpInit, UdpTypeOK

LEMMA UdpTypeStep == UdpTypeOK /\ [UdpNext]_udpVars => UdpTypeOK'
<1> SUFFICES ASSUME UdpTypeOK, [UdpNext]_udpVars PROVE UdpTypeOK'
    OBVIOUS
<1> USE DEF UdpTypeOK
<1>1. OneShot \in Sender /\ UdpClient \subseteq Sender /\ MaxTyped \in Nat
    BY UdpAssumption DEF Sender
<1>2. CASE UdpServerStart
    BY <1>2 DEF UdpServerStart
<1>3. CASE ServeToupper
    BY <1>3 DEF ServeToupper, ToClient
<1>4. CASE RecvfromOnce
    BY <1>4 DEF RecvfromOnce
<1>5. CASE SendtoOnce
    BY <1>1, <1>5 DEF SendtoOnce, ToServer
<1>6. ASSUME NEW c \in UdpClient, UdpClientStart(c) PROVE UdpTypeOK'
    BY <1>1, <1>6 DEF UdpClientStart
<1>7. ASSUME NEW c \in UdpClient, UdpClientReceives(c) PROVE UdpTypeOK'
    BY <1>1, <1>7 DEF UdpClientReceives
<1>8. ASSUME NEW c \in UdpClient, UdpClientTypes(c) PROVE UdpTypeOK'
    <2>1. /\ typedLines' = typedLines \/ /\ typedLines[c] < MaxTyped
                                         /\ typedLines' = [typedLines EXCEPT ![c] = @ + 1]
          /\ udpClient' = udpClient \/ udpClient' = [udpClient EXCEPT ![c] = "finished"]
          /\ air' = air \/ \E line \in Lines : air' = air \cup {ToServer(c, line)}
          /\ DOMAIN udpSent' = DOMAIN udpSent
          /\ UNCHANGED <<udpServer, printed>>
        BY <1>8 DEF UdpClientTypes
    <2>2. typedLines' \in [Sender -> 0 .. MaxTyped]
        BY <1>1, <2>1
    <2> QED BY <1>1, <2>1, <2>2 DEF ToServer
<1>9. CASE UNCHANGED udpVars
    BY <1>9 DEF udpVars
<1> QED BY <1>2, <1>3, <1>4, <1>5, <1>6, <1>7, <1>8, <1>9 DEF UdpNext

-----------------------------------------------------------------------------
(* The time servers: a client receives the two parts of the answer in order. *)

SetupCalls == {"SSL_CTX_new", "certificate", "socket", "setsockopt", "bind", "listen"}
TimeCalls == SetupCalls \cup
    {"accept", "SSL_new", "SSL_accept", "recv", "send_header", "send_time", "close"}
Parts == {"header", "time"}

\* The calls for a connection end with the two writes, and it is accepted before them.
CallsInOrder(calls) ==
    /\ calls \in Seq(TimeCalls)
    /\ \A m \in 1 .. Len(calls) :
          /\ calls[m] = "close" <=> m = Len(calls)
          /\ calls[m] = "send_time" <=> m = Len(calls) - 1
          /\ calls[m] = "send_header" <=> m = Len(calls) - 2
          /\ calls[m] \in {"accept", "SSL_accept", "recv"} => m < Len(calls) - 2
    /\ \A m, n \in 1 .. Len(calls) :
          calls[m] = "accept" /\ calls[n] \in {"accept", "SSL_accept", "recv"} => m <= n

\* What of the answer is sent to a client; a connection is accepted and not closed.
Said(c) == heard[c] \o bytes[c]
Awaited == \E m \in 1 .. Len(todo) : todo[m] = "accept"
Connected == timeCode = "none" /\ todo # <<>> /\ ~ Awaited

TimeVarsOK ==
    /\ timeServer \in DOMAIN Programs
    /\ timeCode \in {"none", "0", "1", "SIGPIPE"}
    /\ serving \in TimeClient \cup {"none"}
    /\ https \in [TimeClient -> {"off", "silent", "hello", "asked", "finished", "failed", "left"}]
    /\ secured \subseteq TimeClient
    /\ unread \in [TimeClient -> 0 .. MaxRequest]
    /\ ended \in [TimeClient -> {"no", "closed", "reset"}]

\* A client that waits has been sent nothing, and to the one that is served the parts
\* are sent that the calls left do not send.
BacklogInv ==
    /\ backlog \in Seq(TimeClient) /\ IsInjective(backlog)
    /\ \A c \in Range(backlog) : https[c] # "off"
ServingInv ==
    Connected => serving \in TimeClient \ Range(backlog) /\ https[serving] # "off"
SaidInv ==
    /\ bytes \in [TimeClient -> Seq(Parts)] /\ heard \in [TimeClient -> Seq(Parts)]
    /\ \A c \in TimeClient :
          /\ Said(c) \in {<<>>, <<"header">>, Answer}
          /\ c \in Range(backlog) \/ https[c] = "off" => Said(c) = <<>>
    /\ Connected =>
          /\ Len(todo) > 2 => Said(serving) = <<>>
          /\ Len(todo) = 2 => Said(serving) = <<"header">>

TimeInv == TimeVarsOK /\ CallsInOrder(todo) /\ BacklogInv /\ ServingInv /\ SaidInv

\* After a call the calls left are still in order, and what the call was is known from
\* how many are left.
LEMMA TailInOrder ==
    ASSUME NEW calls, CallsInOrder(calls), calls # <<>>
    PROVE  /\ CallsInOrder(Tail(calls))
           /\ Len(calls) \in Nat /\ Len(calls) > 0 /\ Len(Tail(calls)) = Len(calls) - 1
           /\ Tail(calls) # <<>> \/ Head(calls) = "close"
           /\ Head(calls) = calls[1] /\ 1 \in 1 .. Len(calls)
           /\ \A m \in 1 .. Len(calls) - 1 : Tail(calls)[m] = calls[m + 1]
           /\ Head(calls) = "close" <=> Len(calls) = 1
           /\ Head(calls) = "send_time" <=> Len(calls) = 2
           /\ Head(calls) = "send_header" <=> Len(calls) = 3
           /\ Head(calls) \in {"accept", "SSL_accept", "recv"} => Len(calls) > 3
<1> DEFINE later == Tail(calls)
<1>1. /\ calls \in Seq(TimeCalls) /\ Len(calls) \in Nat /\ Len(calls) > 0
      /\ 1 \in 1 .. Len(calls) /\ Head(calls) = calls[1]
    <2>1. calls \in Seq(TimeCalls)
        BY DEF CallsInOrder
    <2> QED BY <2>1, LenProperties
<1>2. /\ later \in Seq(TimeCalls) /\ Len(later) = Len(calls) - 1 /\ Len(later) \in Nat
      /\ \A m \in 1 .. Len(calls) - 1 : later[m] = calls[m + 1]
    BY <1>1, HeadTailProperties, LenProperties
<1> HIDE DEF later
<1>3. \A m \in 1 .. Len(later) : m \in 1 .. Len(calls) - 1 /\ m + 1 \in 1 .. Len(calls) /\ later[m] = calls[m + 1]
    BY <1>1, <1>2
<1>4. ASSUME NEW m \in 1 .. Len(later)
      PROVE  /\ later[m] = "close" <=> m = Len(later)
             /\ later[m] = "send_time" <=> m = Len(later) - 1
             /\ later[m] = "send_header" <=> m = Len(later) - 2
             /\ later[m] \in {"accept", "SSL_accept", "recv"} => m < Len(later) - 2
    <2>1. /\ later[m] = "close" <=> m + 1 = Len(calls)
          /\ later[m] = "send_time" <=> m + 1 = Len(calls) - 1
          /\ later[m] = "send_header" <=> m + 1 = Len(calls) - 2
          /\ later[m] \in {"accept", "SSL_accept", "recv"} => m + 1 < Len(calls) - 2
        BY <1>3 DEF CallsInOrder
    <2>2. \A l \in Nat : \A k \in 1 .. l - 1 :
            /\ k + 1 = l <=> k = l - 1
            /\ k + 1 = l - 1 <=> k = (l - 1) - 1
            /\ k + 1 = l - 2 <=> k = (l - 1) - 2
            /\ k + 1 < l - 2 => k < (l - 1) - 2
        OBVIOUS
    <2>3. m \in 1 .. Len(calls) - 1
        BY <1>3
    <2>4. Len(calls) \in Nat /\ Len(later) = Len(calls) - 1
        BY <1>1, <1>2
    <2>5. /\ m + 1 = Len(calls) <=> m = Len(later)
          /\ m + 1 = Len(calls) - 1 <=> m = Len(later) - 1
          /\ m + 1 = Len(calls) - 2 <=> m = Len(later) - 2
          /\ m + 1 < Len(calls) - 2 => m < Len(later) - 2
        BY ONLY <2>2, <2>3, <2>4
    <2> QED BY ONLY <2>1, <2>5, Zenon
<1>5. ASSUME NEW m \in 1 .. Len(later), NEW n \in 1 .. Len(later),
             later[m] = "accept", later[n] \in {"accept", "SSL_accept", "recv"}
      PROVE  m <= n
    <2>1. m + 1 <= n + 1
        BY <1>3, <1>5 DEF CallsInOrder
    <2> QED BY <1>3, <2>1
<1>6. CallsInOrder(later)
    BY <1>2, <1>4, <1>5 DEF CallsInOrder
<1>7. /\ calls[1] = "close" <=> 1 = Len(calls)
      /\ calls[1] = "send_time" <=> 1 = Len(calls) - 1
      /\ calls[1] = "send_header" <=> 1 = Len(calls) - 2
      /\ calls[1] \in {"accept", "SSL_accept", "recv"} => 1 < Len(calls) - 2
    BY <1>1 DEF CallsInOrder
<1>8. later # <<>> \/ Len(calls) = 1
    BY <1>1, <1>2
<1>9. \A l \in Nat : (1 = l - 1 <=> l = 2) /\ (1 = l - 2 <=> l = 3) /\ (1 < l - 2 => l > 3)
    OBVIOUS
<1>10. /\ calls[1] = "close" <=> Len(calls) = 1
       /\ calls[1] = "send_time" <=> Len(calls) = 2
       /\ calls[1] = "send_header" <=> Len(calls) = 3
       /\ calls[1] \in {"accept", "SSL_accept", "recv"} => Len(calls) > 3
    BY <1>1, <1>7, <1>9
<1> QED BY <1>1, <1>2, <1>3, <1>6, <1>8, <1>10 DEF later

\* The calls of every program, and those for another TLS connection.
LEMMA ProgramsInOrder ==
    /\ CallsInOrder(ForOneTlsConnection) /\ \E m \in 1 .. Len(ForOneTlsConnection) : ForOneTlsConnection[m] = "accept"
    /\ \A p \in DOMAIN Programs : CallsInOrder(Programs[p]) /\ \E m \in 1 .. Len(Programs[p]) : Programs[p][m] = "accept"
<1>1. /\ CallsInOrder(ForOneTlsConnection) /\ CallsInOrder(ForOneConnection)
      /\ ForOneTlsConnection # <<>> /\ ForOneTlsConnection[1] = "accept"
      /\ ForOneConnection # <<>> /\ ForOneConnection[1] = "accept"
    <2>1. /\ ForOneTlsConnection \in Seq(TimeCalls) /\ Len(ForOneTlsConnection) = 7
          /\ ForOneTlsConnection[1] = "accept" /\ ForOneTlsConnection[2] = "SSL_new"
          /\ ForOneTlsConnection[3] = "SSL_accept" /\ ForOneTlsConnection[4] = "recv"
          /\ ForOneTlsConnection[5] = "send_header" /\ ForOneTlsConnection[6] = "send_time"
          /\ ForOneTlsConnection[7] = "close" /\ ForOneTlsConnection # <<>>
        BY DEF ForOneTlsConnection, TimeCalls, SetupCalls
    <2>2. /\ ForOneConnection \in Seq(TimeCalls) /\ Len(ForOneConnection) = 5
          /\ ForOneConnection[1] = "accept" /\ ForOneConnection[2] = "recv"
          /\ ForOneConnection[3] = "send_header" /\ ForOneConnection[4] = "send_time"
          /\ ForOneConnection[5] = "close" /\ ForOneConnection # <<>>
        BY DEF ForOneConnection, TimeCalls, SetupCalls
    <2>3. CallsInOrder(ForOneTlsConnection)
        <3>1. \A m \in 1 .. 7 : m \in {1, 2, 3, 4, 5, 6, 7}
            OBVIOUS
        <3> QED BY <2>1, <3>1 DEF CallsInOrder
    <2>4. CallsInOrder(ForOneConnection)
        <3>1. \A m \in 1 .. 5 : m \in {1, 2, 3, 4, 5}
            OBVIOUS
        <3> QED BY <2>2, <3>1 DEF CallsInOrder
    <2> QED BY <2>1, <2>2, <2>3, <2>4
<1>2. ASSUME NEW first \in Seq(SetupCalls), NEW calls, CallsInOrder(calls), calls # <<>>, calls[1] = "accept"
      PROVE  CallsInOrder(first \o calls) /\ \E m \in 1 .. Len(first \o calls) : (first \o calls)[m] = "accept"
    <2> DEFINE all == first \o calls
               l == Len(first)
               n == Len(calls)
    <2>1. calls \in Seq(TimeCalls) /\ first \in Seq(TimeCalls)
        BY <1>2, SeqMonotonic DEF CallsInOrder, TimeCalls
    <2>2. /\ l \in Nat /\ n \in Nat /\ n > 0 /\ n = Len(calls)
          /\ \A m \in 1 .. l : first[m] \in SetupCalls
        BY <1>2, <2>1, LenProperties, ElementOfSeq
    <2>3. /\ all \in Seq(TimeCalls) /\ Len(all) = l + n /\ Len(all) \in Nat
          /\ \A m \in 1 .. l : all[m] = first[m]
          /\ \A m \in 1 .. l + n : m > l => all[m] = calls[m - l] /\ m - l \in 1 .. n
        BY <2>1, <2>2, ConcatProperties, LenProperties
    <2> HIDE DEF all, l, n
    <2>4. n > 3
        <3>1. 1 \in 1 .. Len(calls) /\ calls[1] \in {"accept", "SSL_accept", "recv"}
            BY <1>2, <2>2 DEF n
        <3>2. 1 < Len(calls) - 2
            BY <1>2, <3>1 DEF CallsInOrder
        <3> QED BY <2>2, <3>2 DEF n
    <2>5. ASSUME NEW m \in 1 .. l + n
          PROVE  /\ all[m] = "close" <=> m = l + n
                 /\ all[m] = "send_time" <=> m = l + n - 1
                 /\ all[m] = "send_header" <=> m = l + n - 2
                 /\ all[m] \in {"accept", "SSL_accept", "recv"} => m < l + n - 2 /\ m > l
        <3>1. CASE m \in 1 .. l
            <4>1. all[m] \in SetupCalls
                BY <2>2, <2>3, <3>1
            <4>2. m < l + n - 2
                BY <2>2, <2>4, <3>1
            <4>3. m # l + n /\ m # l + n - 1 /\ m # l + n - 2
                BY <2>2, <4>2
            <4> QED BY <4>1, <4>2, <4>3 DEF SetupCalls
        <3>2. CASE m > l
            <4> DEFINE k == m - l
            <4>1. all[m] = calls[k] /\ k \in 1 .. n /\ m = l + k
                BY <2>2, <2>3, <3>2
            <4> HIDE DEF k
            <4>2. /\ calls[k] = "close" <=> k = n
                  /\ calls[k] = "send_time" <=> k = n - 1
                  /\ calls[k] = "send_header" <=> k = n - 2
                  /\ calls[k] \in {"accept", "SSL_accept", "recv"} => k < n - 2
                BY <1>2, <2>2, <4>1 DEF CallsInOrder, n
            <4>3. /\ l + k = l + n <=> k = n
                  /\ l + k = l + n - 1 <=> k = n - 1
                  /\ l + k = l + n - 2 <=> k = n - 2
                  /\ k < n - 2 => l + k < l + n - 2
                BY <2>2, <4>1
            <4> QED BY <2>2, <3>2, <4>1, <4>2, <4>3
        <3> QED BY <2>2, <3>1, <3>2
    <2>6. ASSUME NEW a \in 1 .. l + n, NEW b \in 1 .. l + n,
                 all[a] = "accept", all[b] \in {"accept", "SSL_accept", "recv"}
          PROVE  a <= b
        <3>1. a > l /\ b > l
            BY <2>5, <2>6
        <3>2. /\ a - l \in 1 .. n /\ b - l \in 1 .. n
              /\ calls[a - l] = "accept" /\ calls[b - l] \in {"accept", "SSL_accept", "recv"}
            BY <2>3, <2>6, <3>1
        <3>3. a - l <= b - l
            BY <1>2, <2>2, <3>2 DEF CallsInOrder
        <3> QED BY <2>2, <3>3
    <2>7. CallsInOrder(all)
        BY <2>2, <2>3, <2>5, <2>6 DEF CallsInOrder
    <2>8. l + 1 \in 1 .. Len(all) /\ all[l + 1] = "accept"
        <3>1. l + 1 \in 1 .. l + n /\ l + 1 > l /\ (l + 1) - l = 1
            BY <2>2
        <3> QED BY <1>2, <2>3, <3>1
    <2> QED BY <2>7, <2>8 DEF all
<1>3. /\ <<"socket", "bind", "listen">> \in Seq(SetupCalls)
      /\ <<"socket", "setsockopt", "bind", "listen">> \in Seq(SetupCalls)
      /\ <<"SSL_CTX_new", "certificate", "socket", "bind", "listen">> \in Seq(SetupCalls)
    BY DEF SetupCalls
<1>4. \A calls \in {TimeServer, TimeServerIpv6, TimeServerDual, TlsTimeServer} :
        CallsInOrder(calls) /\ \E m \in 1 .. Len(calls) : calls[m] = "accept"
    <2>1. CallsInOrder(TimeServer) /\ \E m \in 1 .. Len(TimeServer) : TimeServer[m] = "accept"
        BY <1>1, <1>2, <1>3 DEF TimeServer
    <2>2. CallsInOrder(TimeServerIpv6) /\ \E m \in 1 .. Len(TimeServerIpv6) : TimeServerIpv6[m] = "accept"
        BY <1>1, <1>2, <1>3 DEF TimeServerIpv6
    <2>3. CallsInOrder(TimeServerDual) /\ \E m \in 1 .. Len(TimeServerDual) : TimeServerDual[m] = "accept"
        BY <1>1, <1>2, <1>3 DEF TimeServerDual
    <2>4. CallsInOrder(TlsTimeServer) /\ \E m \in 1 .. Len(TlsTimeServer) : TlsTimeServer[m] = "accept"
        BY <1>1, <1>2, <1>3 DEF TlsTimeServer
    <2> QED BY <2>1, <2>2, <2>3, <2>4, Zenon
<1>5. ASSUME NEW p \in DOMAIN Programs
      PROVE  Programs[p] \in {TimeServer, TimeServerIpv6, TimeServerDual, TlsTimeServer}
    <2>1. p \in {"time_server", "time_server_ipv6", "time_server_dual", "tls_time_server"}
        BY DEF Programs
    <2>2. /\ Programs["time_server"] = TimeServer /\ Programs["time_server_ipv6"] = TimeServerIpv6
          /\ Programs["time_server_dual"] = TimeServerDual /\ Programs["tls_time_server"] = TlsTimeServer
        BY DEF Programs
    <2> QED BY <2>1, <2>2
<1>6. \E m \in 1 .. Len(ForOneTlsConnection) : ForOneTlsConnection[m] = "accept"
    BY <1>1 DEF ForOneTlsConnection
<1> QED BY <1>1, <1>4, <1>5, <1>6

\* A call for a connection is made when it is accepted.
LEMMA CallingMeansConnected ==
    ASSUME CallsInOrder(todo), NEW call \in {"SSL_accept", "recv", "send_header", "send_time", "close"},
           Calling(call)
    PROVE  Connected
<1>1. timeCode = "none" /\ todo # <<>> /\ Head(todo) = call
    BY DEF Calling
<1>2. ASSUME NEW m \in 1 .. Len(todo), todo[m] = "accept"
      PROVE  FALSE
    <2>1. /\ todo \in Seq(TimeCalls) /\ Len(todo) \in Nat /\ m \in 1 .. Len(todo) /\ 1 \in 1 .. Len(todo)
          /\ todo[1] = call
        BY <1>1, <1>2, TailInOrder, LenProperties DEF CallsInOrder
    <2>2. m < Len(todo) - 2
        BY <1>2 DEF CallsInOrder
    <2>3. CASE call \in {"SSL_accept", "recv"}
        <3>1. \A n \in 1 .. Len(todo) : todo[n] \in {"accept", "SSL_accept", "recv"} => m <= n
            BY <1>2 DEF CallsInOrder
        <3>2. todo[1] \in {"accept", "SSL_accept", "recv"}
            BY <2>1, <2>3
        <3>3. m = 1
            BY <2>1, <3>1, <3>2
        <3> QED BY <1>2, <2>1, <2>3, <3>3
    <2>4. CASE call \in {"send_header", "send_time", "close"}
        <3>1. /\ Head(todo) = "close" <=> Len(todo) = 1
              /\ Head(todo) = "send_time" <=> Len(todo) = 2
              /\ Head(todo) = "send_header" <=> Len(todo) = 3
            BY <1>1, TailInOrder
        <3>2. Len(todo) \in {1, 2, 3}
            BY <1>1, <2>4, <3>1
        <3>3. \A k, n \in Nat : n \in {1, 2, 3} /\ k < n - 2 => k = 0
            OBVIOUS
        <3>4. m \in Nat /\ m # 0
            BY <2>1
        <3> QED BY <2>1, <2>2, <3>2, <3>3, <3>4
    <2> QED BY <2>3, <2>4
<1> QED BY <1>1, <1>2 DEF Connected, Awaited

\* A call that is not accept().
LEMMA CallMade ==
    ASSUME CallsInOrder(todo), timeCode = "none", todo # <<>>, Head(todo) # "accept",
           todo' = Tail(todo), timeCode' = timeCode
    PROVE  /\ CallsInOrder(todo')
           /\ Connected' => Connected
           /\ Len(todo') > 2 => Len(todo) > 2
           /\ Len(todo') = 2 => Head(todo) = "send_header"
<1>1. CallsInOrder(todo') /\ Len(todo) \in Nat /\ Len(todo') = Len(todo) - 1
      /\ (Len(todo) = 3 => Head(todo) = "send_header")
    BY TailInOrder
<1>2. ASSUME NEW m \in 1 .. Len(todo), todo[m] = "accept"
      PROVE  Awaited'
    <2>1. m # 1
        <3>1. Head(todo) = todo[1]
            BY TailInOrder
        <3> QED BY <1>2, <3>1
    <2>2. m - 1 \in 1 .. Len(todo) - 1 /\ (m - 1) + 1 = m
        BY <1>1, <1>2, <2>1
    <2>3. \A k \in 1 .. Len(todo) - 1 : todo'[k] = todo[k + 1]
        BY TailInOrder
    <2>4. todo'[m - 1] = "accept" /\ m - 1 \in 1 .. Len(todo')
        BY <1>1, <1>2, <2>2, <2>3
    <2> QED BY <2>4 DEF Awaited
<1>3. Connected' => Connected
    BY <1>2 DEF Connected, Awaited
<1> QED BY <1>1, <1>3

\* A connection is closed: the next one is awaited, or there is none.
LEMMA CloseFacts ==
    ASSUME TimeInv, CloseConnection
    PROVE  /\ CallsInOrder(todo') /\ ~ Connected'
           /\ serving' = "none" /\ timeCode' \in {"none", "0", "1", "SIGPIPE"}
           /\ ended' \in [TimeClient -> {"no", "closed", "reset"}]
<1>1. /\ ended' = [ended EXCEPT ![serving] = IF unread[serving] = 0 THEN "closed" ELSE "reset"]
      /\ serving' = "none"
      /\ \/ todo' = ForOneTlsConnection /\ timeCode' = timeCode
         \/ todo' = <<>> /\ timeCode' = "0"
    BY DEF CloseConnection
<1>2. /\ ended \in [TimeClient -> {"no", "closed", "reset"}]
      /\ timeCode \in {"none", "0", "1", "SIGPIPE"}
    BY DEF TimeInv, TimeVarsOK
<1>3. ended' \in [TimeClient -> {"no", "closed", "reset"}]
    BY <1>1, <1>2
<1>4. CallsInOrder(<<>>)
    BY DEF CallsInOrder
<1>5. CallsInOrder(todo') /\ ~ Connected'
    BY <1>1, <1>4, ProgramsInOrder DEF Connected, Awaited
<1> QED BY <1>1, <1>2, <1>3, <1>5

\* The parts sent to a client, when one more is.
LEMMA OneMorePart ==
    ASSUME NEW h \in Seq(Parts), NEW b \in Seq(Parts), NEW part \in Parts
    PROVE  Append(b, part) \in Seq(Parts) /\ h \o Append(b, part) = Append(h \o b, part)
<1>1. Append(b, part) \in Seq(Parts) /\ <<part>> \in Seq(Parts) /\ h \o b \in Seq(Parts)
    BY ConcatProperties
<1>2. \A s \in Seq(Parts) : Append(s, part) = s \o <<part>>
    BY AppendIsConcat
<1>3. h \o (b \o <<part>>) = (h \o b) \o <<part>>
    BY <1>1, ConcatAssociative
<1> QED BY <1>1, <1>2, <1>3

\* A part after one part.
LEMMA TwoParts == ASSUME NEW a, NEW b PROVE Append(<<a>>, b) = <<a, b>>
<1>1. <<a>> \in Seq({a}) /\ Len(<<a>>) = 1 /\ <<a>>[1] = a
    OBVIOUS
<1>2. <<a>> \in Seq({a, b})
    OBVIOUS
<1>3. Append(<<a>>, b) \in Seq({a, b}) /\ Len(Append(<<a>>, b)) = 2
    BY <1>1, <1>2
<1>4. <<a, b>> \in Seq({a, b}) /\ Len(<<a, b>>) = 2
    OBVIOUS
<1>5. Append(<<a>>, b)[1] = a /\ Append(<<a>>, b)[2] = b /\ <<a, b>>[1] = a /\ <<a, b>>[2] = b
    BY <1>1, <1>2
<1>6. \A k \in 1 .. 2 : Append(<<a>>, b)[k] = <<a, b>>[k]
    <2>1. \A k \in 1 .. 2 : k = 1 \/ k = 2
        OBVIOUS
    <2> QED BY <1>5, <2>1
<1> QED BY <1>3, <1>4, <1>6, SeqEqual

\* Every step of a server keeps the invariant.
LEMMA ServerKeeps == TimeInv /\ (TimeServerStep \/ AcceptFails) => TimeInv'
<1> SUFFICES ASSUME TimeInv, TimeServerStep \/ AcceptFails PROVE TimeInv'
    OBVIOUS
<1>0. /\ timeServer \in DOMAIN Programs
      /\ timeCode \in {"none", "0", "1", "SIGPIPE"}
      /\ serving \in TimeClient \cup {"none"}
      /\ https \in [TimeClient -> {"off", "silent", "hello", "asked", "finished", "failed", "left"}]
      /\ secured \subseteq TimeClient
      /\ unread \in [TimeClient -> 0 .. MaxRequest]
      /\ ended \in [TimeClient -> {"no", "closed", "reset"}]
      /\ CallsInOrder(todo) /\ BacklogInv /\ ServingInv /\ SaidInv
    BY DEF TimeInv, TimeVarsOK
<1>1. CASE SetupCall
    <2>1. /\ timeCode = "none" /\ todo # <<>>
          /\ Head(todo) \notin {"accept", "send_header"}
          /\ UNCHANGED <<timeServer, backlog, serving, https, secured, unread, bytes, ended, heard>>
          /\ \/ todo' = Tail(todo) /\ UNCHANGED timeCode
             \/ timeCode' = "1" /\ UNCHANGED todo
        BY <1>1 DEF SetupCall
    <2>2. /\ CallsInOrder(todo')
          /\ Connected' => Connected /\ (Len(todo') > 2 => Len(todo) > 2) /\ Len(todo') # 2
        <3>1. CASE todo' = Tail(todo) /\ UNCHANGED timeCode
            BY <1>0, <2>1, <3>1, CallMade
        <3>2. CASE timeCode' = "1" /\ UNCHANGED todo
            BY <1>0, <3>2 DEF Connected
        <3> QED BY <2>1, <3>1, <3>2
    <2>3. TimeVarsOK' /\ BacklogInv'
        BY <1>0, <2>1 DEF TimeVarsOK, BacklogInv
    <2>4. ServingInv'
        BY <1>0, <2>1, <2>2 DEF ServingInv
    <2>5. SaidInv'
        BY <1>0, <2>1, <2>2 DEF SaidInv, Said
    <2> QED BY <2>2, <2>3, <2>4, <2>5 DEF TimeInv
<1>2. CASE Accept
    <2>1. /\ timeCode = "none" /\ todo # <<>> /\ Head(todo) = "accept" /\ backlog # <<>>
          /\ serving' = Head(backlog) /\ backlog' = Tail(backlog) /\ todo' = Tail(todo)
          /\ UNCHANGED <<timeServer, timeCode, https, secured, unread, bytes, ended, heard>>
        BY <1>2 DEF Accept, Calling
    <2>2. CallsInOrder(todo') /\ Len(todo') > 2 /\ Len(todo') # 2
        <3>1. /\ CallsInOrder(todo') /\ Len(todo) \in Nat /\ Len(todo') = Len(todo) - 1
              /\ Len(todo) > 3
            BY <1>0, <2>1, TailInOrder
        <3> QED BY <3>1
    <2>3. /\ serving' \in TimeClient /\ serving' \in Range(backlog)
          /\ backlog' \in Seq(TimeClient) /\ IsInjective(backlog')
          /\ Range(backlog') = Range(backlog) \ {serving'}
        BY <1>0, <2>1, DequeueFacts DEF BacklogInv
    <2>4. TimeVarsOK'
        BY <1>0, <2>1, <2>3 DEF TimeVarsOK
    <2>5. BacklogInv' /\ ServingInv'
        BY <1>0, <2>1, <2>3 DEF BacklogInv, ServingInv
    <2>6. SaidInv'
        BY <1>0, <2>1, <2>2, <2>3 DEF SaidInv, Said
    <2> QED BY <2>2, <2>4, <2>5, <2>6 DEF TimeInv
<1>3. CASE SslAccept
    <2>1. /\ Connected /\ UNCHANGED <<timeServer, backlog, https, unread, bytes, heard>>
          /\ timeCode = "none" /\ todo # <<>> /\ Head(todo) = "SSL_accept"
        <3>1. Calling("SSL_accept")
            BY <1>3 DEF SslAccept
        <3>2. Connected
            BY <1>0, <3>1, CallingMeansConnected
        <3> QED BY <1>3, <3>1, <3>2 DEF SslAccept, Calling
    <2>2. CASE /\ todo' = Tail(todo) /\ secured' = secured \cup {serving}
               /\ UNCHANGED <<serving, ended, timeCode>>
        <3>1. /\ CallsInOrder(todo')
              /\ Connected' => Connected
              /\ Len(todo') > 2 => Len(todo) > 2
              /\ Len(todo') # 2
            BY <1>0, <2>1, <2>2, CallMade
        <3>2. serving \in TimeClient
            BY <1>0, <2>1 DEF ServingInv
        <3>3. TimeVarsOK' /\ BacklogInv'
            BY <1>0, <2>1, <2>2, <3>2 DEF TimeVarsOK, BacklogInv
        <3>4. ServingInv'
            BY <1>0, <2>1, <2>2, <3>1 DEF ServingInv
        <3>5. SaidInv'
            BY <1>0, <2>1, <2>2, <3>1 DEF SaidInv, Said
        <3> QED BY <3>1, <3>3, <3>4, <3>5 DEF TimeInv
    <2>3. CASE CloseConnection /\ UNCHANGED secured
        <3>1. /\ CallsInOrder(todo') /\ ~ Connected'
              /\ serving' = "none" /\ timeCode' \in {"none", "0", "1", "SIGPIPE"}
              /\ ended' \in [TimeClient -> {"no", "closed", "reset"}]
            BY <2>3, CloseFacts
        <3>2. TimeVarsOK' /\ BacklogInv'
            BY <1>0, <2>1, <2>3, <3>1 DEF TimeVarsOK, BacklogInv
        <3>3. ServingInv' /\ SaidInv'
            BY <1>0, <2>1, <2>3, <3>1 DEF ServingInv, SaidInv, Said
        <3> QED BY <3>1, <3>2, <3>3 DEF TimeInv
    <2> QED BY <1>3, <2>2, <2>3 DEF SslAccept
<1>4. CASE ReadRequest
    <2>1. /\ Connected /\ timeCode = "none" /\ todo # <<>> /\ Head(todo) = "recv"
          /\ \/ unread[serving] > 0 /\ unread' = [unread EXCEPT ![serving] = @ - 1]
             \/ UNCHANGED unread
          /\ todo' = Tail(todo)
          /\ UNCHANGED <<timeServer, timeCode, backlog, serving, https, secured, bytes, ended, heard>>
        <3>1. Calling("recv")
            BY <1>4 DEF ReadRequest
        <3>2. Connected
            BY <1>0, <3>1, CallingMeansConnected
        <3> QED BY <1>4, <3>1, <3>2 DEF ReadRequest, Calling
    <2>2. /\ CallsInOrder(todo')
          /\ Connected' => Connected
          /\ Len(todo') > 2 => Len(todo) > 2
          /\ Len(todo') # 2
        BY <1>0, <2>1, CallMade
    <2>3. serving \in TimeClient
        BY <1>0, <2>1 DEF ServingInv
    <2>4. unread' \in [TimeClient -> 0 .. MaxRequest]
        <3>1. \A n \in 0 .. MaxRequest : n > 0 => n - 1 \in 0 .. MaxRequest
            BY TimeAssumption
        <3>2. unread \in [TimeClient -> 0 .. MaxRequest]
            BY <1>0
        <3>3. \/ unread[serving] > 0 /\ unread' = [unread EXCEPT ![serving] = @ - 1]
              \/ UNCHANGED unread
            BY <2>1
        <3> QED BY ONLY <2>3, <3>1, <3>2, <3>3
    <2>5. TimeVarsOK' /\ BacklogInv'
        BY <1>0, <2>1, <2>4 DEF TimeVarsOK, BacklogInv
    <2>6. ServingInv'
        BY <1>0, <2>1, <2>2 DEF ServingInv
    <2>7. SaidInv'
        BY <1>0, <2>1, <2>2 DEF SaidInv, Said
    <2> QED BY <2>2, <2>5, <2>6, <2>7 DEF TimeInv
<1>5. ASSUME NEW call \in {"send_header", "send_time"}, NEW part,
             call = "send_header" => part = "header", call = "send_time" => part = "time",
             Write(call, part)
      PROVE  TimeInv'
    <2>1. /\ Connected /\ timeCode = "none" /\ todo # <<>> /\ Head(todo) = call
          /\ UNCHANGED <<timeServer, backlog, serving, https, secured, unread, ended, heard>>
        <3>1. Calling(call)
            BY <1>5 DEF Write
        <3>2. Connected
            BY <1>0, <1>5, <3>1, CallingMeansConnected
        <3> QED BY <1>5, <3>1, <3>2 DEF Write, Calling
    <2>2. CASE timeCode' = "SIGPIPE" /\ UNCHANGED <<todo, bytes>>
        <3>1. ~ Connected'
            BY <2>2 DEF Connected
        <3>2. TimeVarsOK' /\ BacklogInv' /\ ServingInv'
            BY <1>0, <2>1, <2>2, <3>1 DEF TimeVarsOK, BacklogInv, ServingInv
        <3>3. SaidInv'
            BY <1>0, <2>1, <2>2, <3>1 DEF SaidInv, Said
        <3> QED BY <1>0, <2>2, <3>2, <3>3 DEF TimeInv
    <2>3. CASE /\ todo' = Tail(todo)
               /\ bytes' = [bytes EXCEPT ![serving] = Append(@, part)]
               /\ UNCHANGED timeCode
        <3>1. /\ CallsInOrder(todo')
              /\ Connected' => Connected
              /\ Len(todo') = 2 => call = "send_header"
            BY <1>0, <2>1, <2>3, CallMade
        <3>2. /\ Len(todo') = Len(todo) - 1 /\ Len(todo) \in Nat
              /\ call = "send_header" => Len(todo) = 3
              /\ call = "send_time" => Len(todo) = 2
            BY <1>0, <2>1, <2>3, TailInOrder
        <3>3. serving \in TimeClient /\ serving \notin Range(backlog) /\ https[serving] # "off"
            BY <1>0, <2>1 DEF ServingInv
        <3>4. part \in Parts
            BY <1>5 DEF Parts
        <3>5. /\ heard[serving] \in Seq(Parts) /\ bytes[serving] \in Seq(Parts)
              /\ bytes \in [TimeClient -> Seq(Parts)] /\ heard \in [TimeClient -> Seq(Parts)]
            BY <1>0, <3>3 DEF SaidInv
        <3>6. /\ bytes' \in [TimeClient -> Seq(Parts)]
              /\ bytes'[serving] = Append(bytes[serving], part)
              /\ \A c \in TimeClient : c # serving => bytes'[c] = bytes[c]
            BY <2>3, <3>3, <3>4, <3>5, OneMorePart
        <3>7. Said(serving)' = Append(Said(serving), part)
            <4>1. Said(serving)' = heard[serving] \o Append(bytes[serving], part)
                BY <2>1, <3>6 DEF Said
            <4> QED BY <3>4, <3>5, <4>1, OneMorePart DEF Said
        <3>8. /\ call = "send_header" => Said(serving)' = <<"header">>
              /\ call = "send_time" => Said(serving)' = Answer
            <4>1. CASE call = "send_header"
                <5>0. Len(todo) = 3
                    BY <3>2, <4>1
                <5>1. Connected /\ Len(todo) > 2
                    BY <2>1, <5>0
                <5>2. Said(serving) = <<>>
                    BY <1>0, <5>1 DEF SaidInv
                <5> QED BY <1>5, <3>7, <4>1, <5>2
            <4>2. CASE call = "send_time"
                <5>1. Said(serving) = <<"header">>
                    BY <1>0, <2>1, <3>2, <4>2 DEF SaidInv
                <5>2. Append(<<"header">>, "time") = Answer
                    BY TwoParts DEF Answer
                <5>3. part = "time"
                    BY <1>5, <4>2
                <5> QED BY <3>7, <4>2, <5>1, <5>2, <5>3
            <4> QED BY <4>1, <4>2
        <3>9. \A c \in TimeClient : c # serving => Said(c)' = Said(c)
            BY <2>1, <3>6 DEF Said
        <3>10. SaidInv'
            <4>1. ASSUME NEW c \in TimeClient
                  PROVE  /\ Said(c)' \in {<<>>, <<"header">>, Answer}
                         /\ c \in Range(backlog') \/ https'[c] = "off" => Said(c)' = <<>>
                <5>1. /\ Said(c) \in {<<>>, <<"header">>, Answer}
                      /\ c \in Range(backlog) \/ https[c] = "off" => Said(c) = <<>>
                    BY <1>0 DEF SaidInv
                <5>2. Range(backlog') = Range(backlog) /\ https' = https
                    BY <2>1
                <5>3. CASE c # serving
                    BY <3>9, <5>1, <5>2, <5>3
                <5>4. CASE c = serving
                    <6>1. call = "send_header" \/ call = "send_time"
                        BY <1>5
                    <6>2. Said(c)' \in {<<"header">>, Answer}
                        <7>1. Said(c)' = Said(serving)'
                            BY <2>1, <5>4 DEF Said
                        <7> QED BY <3>8, <6>1, <7>1
                    <6> QED BY <3>3, <5>2, <5>4, <6>2
                <5> QED BY <5>3, <5>4
            <4>2. ~ Len(todo') > 2
                <5>1. Len(todo) = 3 \/ Len(todo) = 2
                    BY <1>5, <3>2
                <5>2. ~ 3 - 1 > 2 /\ ~ 2 - 1 > 2
                    OBVIOUS
                <5> QED BY <3>2, <5>1, <5>2
            <4>3. Len(todo') = 2 => Said(serving)' = <<"header">>
                BY <3>1, <3>8
            <4> QED BY <2>1, <3>5, <3>6, <4>1, <4>2, <4>3 DEF SaidInv, Said
        <3>11. TimeVarsOK' /\ BacklogInv' /\ ServingInv'
            BY <1>0, <2>1, <2>3, <3>1 DEF TimeVarsOK, BacklogInv, ServingInv
        <3> QED BY <3>1, <3>10, <3>11 DEF TimeInv
    <2> QED BY <1>5, <2>2, <2>3 DEF Write
<1>6. CASE Close
    <2>1. CloseConnection /\ UNCHANGED <<timeServer, backlog, https, secured, unread, bytes, heard>>
        BY <1>6 DEF Close
    <2>2. /\ CallsInOrder(todo') /\ ~ Connected'
          /\ serving' = "none" /\ timeCode' \in {"none", "0", "1", "SIGPIPE"}
          /\ ended' \in [TimeClient -> {"no", "closed", "reset"}]
        BY <2>1, CloseFacts
    <2>3. TimeVarsOK' /\ BacklogInv'
        BY <1>0, <2>1, <2>2 DEF TimeVarsOK, BacklogInv
    <2>4. ServingInv' /\ SaidInv'
        BY <1>0, <2>1, <2>2 DEF ServingInv, SaidInv, Said
    <2> QED BY <2>2, <2>3, <2>4 DEF TimeInv
<1>7. CASE AcceptFails
    <2>1. /\ timeCode' = "1"
          /\ UNCHANGED <<timeServer, todo, backlog, serving, https, secured, unread, bytes, ended, heard>>
        BY <1>7 DEF AcceptFails
    <2>2. ~ Connected'
        BY <2>1 DEF Connected
    <2>3. TimeVarsOK' /\ BacklogInv' /\ ServingInv'
        BY <1>0, <2>1, <2>2 DEF TimeVarsOK, BacklogInv, ServingInv
    <2>4. SaidInv'
        BY <1>0, <2>1, <2>2 DEF SaidInv, Said
    <2> QED BY <1>0, <2>1, <2>3, <2>4 DEF TimeInv
<1> QED BY <1>1, <1>2, <1>3, <1>4, <1>5, <1>6, <1>7 DEF TimeServerStep

\* Every step of a client does.
LEMMA HttpsKeeps ==
    ASSUME TimeInv, NEW c \in TimeClient, HttpsConnect(c) \/ HttpsStep(c) \/ Speak(c) \/ Leave(c)
    PROVE  TimeInv'
<1>0. /\ https \in [TimeClient -> {"off", "silent", "hello", "asked", "finished", "failed", "left"}]
      /\ unread \in [TimeClient -> 0 .. MaxRequest] /\ MaxRequest \in Nat /\ MaxRequest >= 1
      /\ CallsInOrder(todo) /\ BacklogInv /\ ServingInv /\ SaidInv /\ TimeVarsOK
    BY TimeAssumption DEF TimeInv, TimeVarsOK
<1>1. CASE HttpsConnect(c)
    <2>1. /\ https[c] = "off"
          /\ UNCHANGED <<timeServer, todo, timeCode, serving, secured, bytes, ended, heard>>
          /\ Connected' = Connected
        BY <1>1 DEF HttpsConnect, Connected, Awaited
    <2>2. Said(c) = <<>> /\ c \notin Range(backlog) /\ (Connected => serving # c)
        BY <1>0, <2>1 DEF SaidInv, BacklogInv, ServingInv
    <2>3. CASE /\ backlog' = Append(backlog, c)
               /\ \E h \in {"silent", "hello", "asked"} : https' = [https EXCEPT ![c] = h]
               /\ \E n \in 0 .. MaxRequest : unread' = unread \/ unread' = [unread EXCEPT ![c] = n]
        <3>1. /\ backlog' \in Seq(TimeClient) /\ IsInjective(backlog')
              /\ Range(backlog') = Range(backlog) \cup {c}
            BY <1>0, <2>2, <2>3, EnqueueFacts DEF BacklogInv
        <3>2. /\ https' \in [TimeClient -> {"off", "silent", "hello", "asked", "finished", "failed", "left"}]
              /\ https'[c] # "off"
              /\ \A d \in TimeClient : d # c => https'[d] = https[d]
            BY <1>0, <2>3
        <3>3. unread' \in [TimeClient -> 0 .. MaxRequest]
            BY <1>0, <2>3
        <3>4. TimeVarsOK'
            BY <1>0, <2>1, <3>2, <3>3 DEF TimeVarsOK
        <3>5. BacklogInv'
            <4>1. \A d \in Range(backlog) : d \in TimeClient
                BY <1>0, RangeIsIn DEF BacklogInv
            <4> QED BY <1>0, <3>1, <3>2, <4>1 DEF BacklogInv
        <3>6. ServingInv'
            BY <1>0, <2>1, <2>2, <3>1, <3>2 DEF ServingInv
        <3>7. SaidInv'
            BY <1>0, <2>1, <2>2, <3>1, <3>2 DEF SaidInv, Said
        <3> QED BY <1>0, <2>1, <3>4, <3>5, <3>6, <3>7 DEF TimeInv
    <2>4. CASE https' = [https EXCEPT ![c] = "failed"] /\ UNCHANGED <<backlog, unread>>
        <3>1. /\ https' \in [TimeClient -> {"off", "silent", "hello", "asked", "finished", "failed", "left"}]
              /\ \A d \in TimeClient : https'[d] = "off" => https[d] = "off"
              /\ \A d \in TimeClient : https[d] # "off" => https'[d] = https[d]
            BY <1>0, <2>1, <2>4
        <3>2. TimeVarsOK'
            BY <1>0, <2>1, <2>4, <3>1 DEF TimeVarsOK
        <3>3. BacklogInv' /\ ServingInv'
            <4>1. \A d \in Range(backlog) : d \in TimeClient
                BY <1>0, RangeIsIn DEF BacklogInv
            <4> QED BY <1>0, <2>1, <2>4, <3>1, <4>1 DEF BacklogInv, ServingInv
        <3>4. SaidInv'
            BY <1>0, <2>1, <2>4, <3>1 DEF SaidInv, Said
        <3> QED BY <1>0, <2>1, <3>2, <3>3, <3>4 DEF TimeInv
    <2> QED BY <1>0, <1>1, <2>3, <2>4 DEF HttpsConnect, Says
<1>2. CASE HttpsStep(c) \/ Speak(c) \/ Leave(c)
    <2>1. /\ https[c] \in {"silent", "hello", "asked"}
          /\ \/ https' = https
             \/ \E h \in {"hello", "asked", "failed", "finished", "left"} : https' = [https EXCEPT ![c] = h]
          /\ unread' = unread \/ \E n \in 0 .. MaxRequest : unread' = [unread EXCEPT ![c] = n]
          /\ \/ UNCHANGED <<heard, bytes>>
             \/ /\ bytes[c] # <<>>
                /\ heard' = [heard EXCEPT ![c] = Append(@, Head(bytes[c]))]
                /\ bytes' = [bytes EXCEPT ![c] = Tail(@)]
          /\ UNCHANGED <<timeServer, todo, timeCode, backlog, serving, secured, ended>>
          /\ Connected' = Connected
        BY <1>0, <1>2 DEF HttpsStep, HttpsAsk, HttpsRead, Speak, Says, Leave, Connected, Awaited
    <2>2. /\ https' \in [TimeClient -> {"off", "silent", "hello", "asked", "finished", "failed", "left"}]
          /\ \A d \in TimeClient : https'[d] = "off" <=> https[d] = "off"
        BY <1>0, <2>1
    <2>3. unread' \in [TimeClient -> 0 .. MaxRequest]
        BY <1>0, <2>1
    <2>4. TimeVarsOK'
        BY <1>0, <2>1, <2>2, <2>3 DEF TimeVarsOK
    <2>5. /\ bytes' \in [TimeClient -> Seq(Parts)] /\ heard' \in [TimeClient -> Seq(Parts)]
          /\ \A d \in TimeClient : Said(d)' = Said(d)
        <3>1. bytes \in [TimeClient -> Seq(Parts)] /\ heard \in [TimeClient -> Seq(Parts)]
            BY <1>0 DEF SaidInv
        <3>2. CASE UNCHANGED <<heard, bytes>>
            BY <3>1, <3>2 DEF Said
        <3>3. CASE /\ bytes[c] # <<>>
                   /\ heard' = [heard EXCEPT ![c] = Append(@, Head(bytes[c]))]
                   /\ bytes' = [bytes EXCEPT ![c] = Tail(@)]
            <4>1. /\ Append(heard[c], Head(bytes[c])) \in Seq(Parts) /\ Tail(bytes[c]) \in Seq(Parts)
                  /\ Append(heard[c], Head(bytes[c])) \o Tail(bytes[c]) = heard[c] \o bytes[c]
                <5>1. heard[c] \in Seq(Parts) /\ bytes[c] \in Seq(Parts)
                    BY <3>1
                <5> QED BY <3>3, <5>1, MoveOne
            <4>2. /\ bytes' \in [TimeClient -> Seq(Parts)] /\ heard' \in [TimeClient -> Seq(Parts)]
                  /\ heard'[c] = Append(heard[c], Head(bytes[c])) /\ bytes'[c] = Tail(bytes[c])
                  /\ \A d \in TimeClient : d # c => heard'[d] = heard[d] /\ bytes'[d] = bytes[d]
                BY <3>1, <3>3, <4>1
            <4> QED BY <4>1, <4>2 DEF Said
        <3> QED BY <2>1, <3>2, <3>3
    <2>6. BacklogInv' /\ ServingInv'
        <3>1. \A d \in Range(backlog) : d \in TimeClient
            BY <1>0, RangeIsIn DEF BacklogInv
        <3> QED BY <1>0, <2>1, <2>2, <3>1 DEF BacklogInv, ServingInv
    <2>7. SaidInv'
        <3>1. Connected => serving \in TimeClient
            BY <1>0 DEF ServingInv
        <3>2. /\ serving' = serving /\ todo' = todo /\ backlog' = backlog
              /\ Range(backlog') = Range(backlog)
            BY <2>1
        <3>3. \A d \in TimeClient :
                /\ Said(d)' \in {<<>>, <<"header">>, Answer}
                /\ d \in Range(backlog') \/ https'[d] = "off" => Said(d)' = <<>>
            BY <1>0, <2>2, <2>5, <3>2 DEF SaidInv
        <3>4. Connected' => Connected /\ Said(serving)' = Said(serving)
            <4> DEFINE now(d) == heard'[d] \o bytes'[d]
            <4>1. \A d \in TimeClient : now(d) = Said(d)
                BY <2>5 DEF Said
            <4>2. Said(serving)' = now(serving)
                BY <3>2 DEF Said
            <4> HIDE DEF now
            <4> QED BY <2>1, <3>1, <4>1, <4>2
        <3> QED BY <1>0, <2>5, <3>2, <3>3, <3>4 DEF SaidInv
    <2> QED BY <1>0, <2>1, <2>4, <2>6, <2>7 DEF TimeInv
<1> QED BY <1>1, <1>2

\* Before the first call nobody is connected, and nothing sent.
LEMMA TimeInitInv == TimeInit => TimeInv
<1> SUFFICES ASSUME TimeInit PROVE TimeInv
    OBVIOUS
<1>1. CallsInOrder(todo) /\ ~ Connected
    BY ProgramsInOrder DEF TimeInit, Connected, Awaited
<1>2. /\ backlog = <<>> /\ Range(backlog) = {} /\ IsInjective(backlog) /\ backlog \in Seq(TimeClient)
    BY DEF TimeInit, Range, IsInjective
<1>3. TimeVarsOK
    BY TimeAssumption DEF TimeInit, TimeVarsOK
<1>4. BacklogInv /\ ServingInv
    BY <1>1, <1>2 DEF BacklogInv, ServingInv
<1>5. SaidInv
    BY <1>1, <1>2 DEF TimeInit, SaidInv, Said
<1> QED BY <1>1, <1>3, <1>4, <1>5 DEF TimeInv

LEMMA TimeStep == TimeInv /\ [TimeNext]_timeVars => TimeInv'
<1> SUFFICES ASSUME TimeInv, [TimeNext]_timeVars PROVE TimeInv'
    OBVIOUS
<1>1. CASE TimeServerStep \/ AcceptFails
    BY <1>1, ServerKeeps
<1>2. ASSUME NEW c \in TimeClient, HttpsConnect(c) \/ HttpsStep(c) \/ Speak(c) \/ Leave(c)
      PROVE  TimeInv'
    BY <1>2, HttpsKeeps
<1>3. CASE UNCHANGED timeVars
    BY <1>3 DEF timeVars, TimeInv, TimeVarsOK, CallsInOrder, BacklogInv, ServingInv, SaidInv,
                Said, Connected, Awaited
<1> QED BY <1>1, <1>2, <1>3 DEF TimeNext

LEMMA TimeInvTypes == TimeInv => TimeTypeOK
BY DEF TimeInv, TimeVarsOK, SaidInv, Said, TimeTypeOK

-----------------------------------------------------------------------------
(* The DNS query: messages are made of bytes. *)

LEMMA ByteFacts ==
    /\ \A n \in Bytes : n \in Nat /\ n <= 255
    /\ \A n \in Nat : n <= 255 => n \in Bytes
    /\ \A n \in {4, 16} : n \in Bytes
    /\ \A n \in 1 .. 191 : n \in Bytes /\ n + 1 + 2 \in Bytes /\ 2 + (n + 1) + 2 \in Bytes
    /\ \A n \in Nat : n < 255 => n \in Bytes /\ n + 1 \in Bytes
BY DEF Bytes

\* A name on the wire, with a length in one byte before each label.
WireParts(labels) == [k \in 1 .. Len(labels) |-> <<Len(labels[k])>> \o labels[k]]

LEMMA WirePartsFacts ==
    ASSUME NEW labels \in Seq(Seq(Bytes)), \A k \in 1 .. Len(labels) : Len(labels[k]) <= 255
    PROVE  /\ Wire(labels) = FlattenSeq(WireParts(labels)) /\ Wire(labels) \in Seq(Bytes)
           /\ WireParts(labels) \in Seq(Seq(Bytes)) /\ Len(WireParts(labels)) = Len(labels)
           /\ \A k \in 1 .. Len(labels) :
                LET part == WireParts(labels)[k]
                IN  /\ labels[k] \in Seq(Bytes) /\ Len(labels[k]) \in Bytes
                    /\ part = <<Len(labels[k])>> \o labels[k] /\ Len(part) = Len(labels[k]) + 1
                    /\ part[1] = Len(labels[k])
                    /\ \A i \in 1 .. Len(labels[k]) : part[i + 1] = labels[k][i]
<1>1. Len(labels) \in Nat /\ \A k \in 1 .. Len(labels) : labels[k] \in Seq(Bytes)
    BY LenProperties, ElementOfSeq
<1>2. ASSUME NEW k \in 1 .. Len(labels)
      PROVE  /\ Len(labels[k]) \in Bytes
             /\ <<Len(labels[k])>> \o labels[k] \in Seq(Bytes)
             /\ Len(<<Len(labels[k])>> \o labels[k]) = Len(labels[k]) + 1
             /\ (<<Len(labels[k])>> \o labels[k])[1] = Len(labels[k])
             /\ \A i \in 1 .. Len(labels[k]) : (<<Len(labels[k])>> \o labels[k])[i + 1] = labels[k][i]
    <2>1. labels[k] \in Seq(Bytes) /\ Len(labels[k]) \in Nat /\ Len(labels[k]) <= 255
        BY <1>1, LenProperties
    <2>2. Len(labels[k]) \in Bytes
        BY <2>1, ByteFacts
    <2> QED BY <2>1, <2>2, PrependFacts
<1>3. WireParts(labels) \in Seq(Seq(Bytes)) /\ Len(WireParts(labels)) = Len(labels)
    <2>1. \A k \in 1 .. Len(labels) : <<Len(labels[k])>> \o labels[k] \in Seq(Bytes)
        BY <1>2
    <2>2. WireParts(labels) \in [1 .. Len(labels) -> Seq(Bytes)]
        BY <2>1 DEF WireParts
    <2> QED BY <1>1, <2>2, FunctionIsSeq
<1>4. \A k \in 1 .. Len(labels) : WireParts(labels)[k] = <<Len(labels[k])>> \o labels[k]
    BY DEF WireParts
<1>5. Wire(labels) = FlattenSeq(WireParts(labels))
    BY DEF Wire, WireParts
<1>6. Wire(labels) \in Seq(Bytes)
    BY <1>3, <1>5, JoinedFacts
<1> QED BY <1>1, <1>2, <1>3, <1>4, <1>5, <1>6

\* The query, and every answer of the name server.
LEMMA QueryIsBytes ==
    ASSUME NEW host \in Hosts, NEW type \in Types
    PROVE  Query(host, type) \in Seq(Bytes)
<1>1. Wire(host) \in Seq(Bytes)
    <2>1. host \in Seq(Seq(Bytes)) /\ \A k \in 1 .. Len(host) : Len(host[k]) <= 253
        BY DnsAssumption
    <2>2. \A k \in 1 .. Len(host) : Len(host[k]) \in Nat
        BY <2>1, LenProperties, ElementOfSeq
    <2>3. \A k \in 1 .. Len(host) : Len(host[k]) <= 255
        BY <2>1, <2>2
    <2> QED BY <2>1, <2>3, WirePartsFacts
<1>2. <<171, 205, 1, 0, 0, 1, 0, 0, 0, 0, 0, 0>> \in Seq(Bytes)
    BY DEF Bytes
<1>3. <<0, 0, type, 0, 1>> \in Seq(Bytes)
    BY DnsAssumption DEF Bytes
<1> QED BY <1>1, <1>2, <1>3, ConcatProperties DEF Query

\* What a record's data is on the wire.
LEMMA RecordDataFacts ==
    ASSUME NEW z \in Zone, NEW k \in 1 .. Len(z.answers)
    PROVE  LET a == z.answers[k]
           IN  /\ a.type \in {1, 5, 15, 16, 28} /\ a.data \in Seq(Bytes) /\ Len(a.data) \in Nat
               /\ RecordData(a) \in Seq(Bytes) /\ Len(RecordData(a)) \in Bytes
               /\ a.type \in {5, 15} => IsLabel(a.data)
               /\ a.type = 5 => RecordData(a) = (<<Len(a.data)>> \o a.data) \o <<192, 12>>
               /\ a.type = 15 => RecordData(a) = <<0, 10>> \o (<<Len(a.data)>> \o a.data) \o <<192, 12>>
               /\ a.type = 16 => RecordData(a) = <<Len(a.data)>> \o a.data
               /\ a.type \in {1, 28} => RecordData(a) = a.data
               /\ a.type = 1 => Len(a.data) = 4
               /\ a.type = 28 => Len(a.data) = 16
               /\ a.type = 16 => 0 \notin ToSet(a.data)
<1> DEFINE a == z.answers[k]
<1>1. /\ z.answers \in Seq([type : {1, 5, 15, 16, 28}, data : Seq(Bytes)])
      /\ CASE a.type = 1 -> Len(a.data) = 4
           [] a.type = 28 -> Len(a.data) = 16
           [] a.type = 16 -> Len(a.data) < 255 /\ 0 \notin ToSet(a.data)
           [] OTHER -> IsLabel(a.data)
    BY ZoneAssumption
<1>2. a \in [type : {1, 5, 15, 16, 28}, data : Seq(Bytes)]
    BY <1>1, ElementOfSeq
<1> HIDE DEF a
<1>3. a.type \in {1, 5, 15, 16, 28} /\ a.data \in Seq(Bytes) /\ Len(a.data) \in Nat
    BY <1>2, LenProperties
<1>4. /\ a.type = 1 => Len(a.data) = 4
      /\ a.type = 28 => Len(a.data) = 16
      /\ a.type = 16 => Len(a.data) < 255 /\ 0 \notin ToSet(a.data)
      /\ a.type \in {5, 15} => IsLabel(a.data)
    BY <1>1, <1>3
<1>5. ASSUME Len(a.data) \in Bytes
      PROVE  Wire(<<a.data>>) = <<Len(a.data)>> \o a.data
    <2>1. <<a.data>> \in Seq(Seq(Bytes)) /\ Len(<<a.data>>) = 1 /\ <<a.data>>[1] = a.data
        BY <1>3
    <2>2. \A i \in 1 .. Len(<<a.data>>) : Len(<<a.data>>[i]) <= 255
        <3>1. Len(a.data) <= 255
            BY <1>5, ByteFacts
        <3>2. \A i \in 1 .. 1 : i = 1
            OBVIOUS
        <3> QED BY <2>1, <3>1, <3>2
    <2>3. /\ Wire(<<a.data>>) = FlattenSeq(WireParts(<<a.data>>))
          /\ WireParts(<<a.data>>) \in Seq(Seq(Bytes)) /\ Len(WireParts(<<a.data>>)) = 1
          /\ WireParts(<<a.data>>)[1] = <<Len(a.data)>> \o a.data
        <3> DEFINE one == <<a.data>>
        <3> HIDE DEF one
        <3>1. one \in Seq(Seq(Bytes)) /\ Len(one) = 1 /\ one[1] = a.data /\ 1 \in 1 .. Len(one)
            BY <2>1 DEF one
        <3>2. \A i \in 1 .. Len(one) : Len(one[i]) <= 255
            BY <2>2 DEF one
        <3>3. /\ Wire(one) = FlattenSeq(WireParts(one))
              /\ WireParts(one) \in Seq(Seq(Bytes)) /\ Len(WireParts(one)) = Len(one)
              /\ WireParts(one)[1] = <<Len(one[1])>> \o one[1]
            BY <3>1, <3>2, WirePartsFacts
        <3> QED BY <3>1, <3>3 DEF one
    <2> DEFINE parts == WireParts(<<a.data>>)
    <2> HIDE DEF parts
    <2>4. /\ Joined(parts, 0) = <<>> /\ FlattenSeq(parts) = Joined(parts, 0 + 1)
          /\ Joined(parts, 0 + 1) = Joined(parts, 0) \o parts[0 + 1] /\ parts[0 + 1] \in Seq(Bytes)
        <3>1. parts \in Seq(Seq(Bytes)) /\ Len(parts) = 1
            BY <2>3 DEF parts
        <3>2. 0 \in 0 .. Len(parts) - 1 /\ Len(parts) = 0 + 1
            BY <3>1
        <3> QED BY <3>1, <3>2, JoinedFacts
    <2>5. FlattenSeq(parts) = parts[1]
        BY <2>4, ConcatEmptySeq
    <2> QED BY <2>3, <2>5 DEF parts
<1>6. ASSUME a.type \in {5, 15}
      PROVE  /\ RecordData(a) \in Seq(Bytes) /\ Len(RecordData(a)) \in Bytes
             /\ a.type = 5 => RecordData(a) = (<<Len(a.data)>> \o a.data) \o <<192, 12>>
             /\ a.type = 15 => RecordData(a) = <<0, 10>> \o (<<Len(a.data)>> \o a.data) \o <<192, 12>>
             /\ a.type = 16 => RecordData(a) = <<Len(a.data)>> \o a.data
             /\ a.type \in {1, 28} => RecordData(a) = a.data
    <2>1. Len(a.data) \in 1 .. 191 /\ Len(a.data) \in Bytes
        BY <1>4, <1>6, ByteFacts DEF IsLabel
    <2>2. /\ <<Len(a.data)>> \o a.data \in Seq(Bytes) /\ Len(<<Len(a.data)>> \o a.data) = Len(a.data) + 1
          /\ <<192, 12>> \in Seq(Bytes) /\ Len(<<192, 12>>) = 2
          /\ <<0, 10>> \in Seq(Bytes) /\ Len(<<0, 10>>) = 2
        <3>1. <<Len(a.data)>> \in Seq(Bytes) /\ Len(<<Len(a.data)>>) = 1
            BY <2>1
        <3>2. <<192, 12>> \in Seq(Bytes) /\ <<0, 10>> \in Seq(Bytes)
            BY DEF Bytes
        <3>3. 1 + Len(a.data) = Len(a.data) + 1
            BY <1>3
        <3> QED BY <1>3, <3>1, <3>2, <3>3, ConcatProperties
    <2> DEFINE w == <<Len(a.data)>> \o a.data
    <2>3. Wire(<<a.data>>) = w
        BY <1>5, <2>1
    <2>4. w \in Seq(Bytes) /\ Len(w) = Len(a.data) + 1
        BY <2>2
    <2> HIDE DEF w
    <2> DEFINE v == <<0, 10>> \o w
    <2>5. w \o <<192, 12>> \in Seq(Bytes) /\ Len(w \o <<192, 12>>) = Len(a.data) + 1 + 2
        BY ONLY <2>2, <2>4, ConcatProperties
    <2>6. v \in Seq(Bytes) /\ Len(v) = 2 + (Len(a.data) + 1)
        BY ONLY <2>2, <2>4, ConcatProperties
    <2> HIDE DEF v
    <2>7. v \o <<192, 12>> \in Seq(Bytes) /\ Len(v \o <<192, 12>>) = 2 + (Len(a.data) + 1) + 2
        BY ONLY <2>2, <2>6, ConcatProperties
    <2>8. Len(a.data) + 1 + 2 \in Bytes /\ 2 + (Len(a.data) + 1) + 2 \in Bytes
        BY <2>1, ByteFacts
    <2>9. a.type = 5 => RecordData(a) = w \o <<192, 12>>
        <3> SUFFICES ASSUME a.type = 5 PROVE RecordData(a) = w \o <<192, 12>>
            OBVIOUS
        <3>1. RecordData(a) = Wire(<<a.data>>) \o <<192, 12>>
            BY DEF RecordData
        <3> QED BY <2>3, <3>1
    <2>10. a.type = 15 => RecordData(a) = <<0, 10>> \o w \o <<192, 12>>
        <3> SUFFICES ASSUME a.type = 15 PROVE RecordData(a) = <<0, 10>> \o w \o <<192, 12>>
            OBVIOUS
        <3>1. RecordData(a) = <<0, 10>> \o Wire(<<a.data>>) \o <<192, 12>>
            BY DEF RecordData
        <3> QED BY <2>3, <3>1
    <2>11. RecordData(a) \in Seq(Bytes) /\ Len(RecordData(a)) \in Bytes
        <3>1. CASE a.type = 5
            BY <2>5, <2>8, <2>9, <3>1
        <3>2. CASE a.type = 15
            BY <2>7, <2>8, <2>10, <3>2 DEF v
        <3> QED BY <1>6, <3>1, <3>2
    <2>12. a.type # 16 /\ a.type \notin {1, 28}
        BY <1>6
    <2> QED BY <2>9, <2>10, <2>11, <2>12 DEF w
<1>7. ASSUME a.type = 16
      PROVE  /\ RecordData(a) \in Seq(Bytes) /\ Len(RecordData(a)) \in Bytes
             /\ a.type = 5 => RecordData(a) = (<<Len(a.data)>> \o a.data) \o <<192, 12>>
             /\ a.type = 15 => RecordData(a) = <<0, 10>> \o (<<Len(a.data)>> \o a.data) \o <<192, 12>>
             /\ a.type = 16 => RecordData(a) = <<Len(a.data)>> \o a.data
             /\ a.type \in {1, 28} => RecordData(a) = a.data
    <2>1. Len(a.data) \in Bytes /\ Len(a.data) + 1 \in Bytes
        BY <1>3, <1>4, <1>7, ByteFacts
    <2>2. RecordData(a) = <<Len(a.data)>> \o a.data
        BY <1>7 DEF RecordData
    <2>3. RecordData(a) \in Seq(Bytes) /\ Len(RecordData(a)) \in Bytes
        BY <1>3, <2>1, <2>2, PrependFacts
    <2> QED BY <1>7, <2>2, <2>3
<1>8. ASSUME a.type \in {1, 28}
      PROVE  /\ RecordData(a) \in Seq(Bytes) /\ Len(RecordData(a)) \in Bytes
             /\ a.type = 5 => RecordData(a) = (<<Len(a.data)>> \o a.data) \o <<192, 12>>
             /\ a.type = 15 => RecordData(a) = <<0, 10>> \o (<<Len(a.data)>> \o a.data) \o <<192, 12>>
             /\ a.type = 16 => RecordData(a) = <<Len(a.data)>> \o a.data
             /\ a.type \in {1, 28} => RecordData(a) = a.data
    <2>1. RecordData(a) = a.data
        BY <1>8 DEF RecordData
    <2>2. Len(a.data) \in Bytes
        <3>1. Len(a.data) \in {4, 16}
            BY <1>4, <1>8
        <3> QED BY <1>3, <3>1, ByteFacts
    <2> QED BY <1>3, <1>8, <2>1, <2>2
<1> QED BY <1>3, <1>4, <1>6, <1>7, <1>8 DEF a

\* The parts of an answer: its header, the end of its question, and its records.
ReplyHeader(z) == <<171, 205, 129, 128, 0, 1, 0, Len(z.answers), 0, 0, 0, 0>>
QuestionEnd(z) == <<0, 0, z.type, 0, 1>>
RecordHeader(a) == <<192, 12, 0, a.type, 0, 1, 0, 0, 0, 60, 0, Len(RecordData(a))>>
RecordParts(z) == [k \in 1 .. Len(z.answers) |-> RecordHeader(z.answers[k]) \o RecordData(z.answers[k])]

LEMMA ReplyParts ==
    ASSUME NEW z \in Zone
    PROVE  /\ ReplyHeader(z) \in Seq(Bytes) /\ Wire(z.name) \in Seq(Bytes) /\ QuestionEnd(z) \in Seq(Bytes)
           /\ z.name \in Seq(Seq(Bytes)) /\ Len(z.name) \in Nat \ {0} /\ z.type \in Bytes
           /\ \A k \in 1 .. Len(z.name) : Len(z.name[k]) \in 1 .. 191 /\ 0 \notin ToSet(z.name[k])
           /\ Len(z.answers) \in Bytes
           /\ RecordParts(z) \in Seq(Seq(Bytes)) /\ Len(RecordParts(z)) = Len(z.answers)
           /\ \A k \in 1 .. Len(z.answers) :
                /\ RecordHeader(z.answers[k]) \in Seq(Bytes)
                /\ RecordParts(z)[k] = RecordHeader(z.answers[k]) \o RecordData(z.answers[k])
           /\ FlattenSeq(RecordParts(z)) \in Seq(Bytes)
           /\ ZoneReply(z) = ReplyHeader(z) \o Wire(z.name) \o QuestionEnd(z) \o FlattenSeq(RecordParts(z))
           /\ ZoneReply(z) \in Seq(Bytes)
<1>1. /\ z.name \in Seq(Seq(Bytes)) /\ z.name # <<>>
      /\ \A k \in 1 .. Len(z.name) : IsLabel(z.name[k])
      /\ z.type \in Bytes
      /\ z.answers \in Seq([type : {1, 5, 15, 16, 28}, data : Seq(Bytes)]) /\ Len(z.answers) <= 255
    BY ZoneAssumption
<1>2. \A k \in 1 .. Len(z.name) : Len(z.name[k]) \in 1 .. 191 /\ 0 \notin ToSet(z.name[k])
    BY <1>1 DEF IsLabel
<1>3. Wire(z.name) \in Seq(Bytes)
    <2>1. \A k \in 1 .. Len(z.name) : Len(z.name[k]) <= 255
        <3>1. \A n \in 1 .. 191 : n <= 255
            OBVIOUS
        <3> QED BY <1>2, <3>1
    <2> QED BY <1>1, <2>1, WirePartsFacts
<1>4. Len(z.answers) \in Bytes /\ Len(z.answers) \in Nat
    BY <1>1, LenProperties, ByteFacts
<1>5. ReplyHeader(z) \in Seq(Bytes) /\ QuestionEnd(z) \in Seq(Bytes)
    <2>1. \A n \in Bytes : <<171, 205, 129, 128, 0, 1, 0, n, 0, 0, 0, 0>> \in Seq(Bytes) /\ <<0, 0, n, 0, 1>> \in Seq(Bytes)
        BY DEF Bytes
    <2> QED BY <1>1, <1>4, <2>1 DEF ReplyHeader, QuestionEnd
<1>6. ASSUME NEW k \in 1 .. Len(z.answers)
      PROVE  /\ RecordHeader(z.answers[k]) \in Seq(Bytes)
             /\ RecordHeader(z.answers[k]) \o RecordData(z.answers[k]) \in Seq(Bytes)
    <2>1. /\ z.answers[k].type \in Bytes /\ Len(RecordData(z.answers[k])) \in Bytes
          /\ RecordData(z.answers[k]) \in Seq(Bytes)
        <3>1. \A t \in {1, 5, 15, 16, 28} : t \in Bytes
            BY DEF Bytes
        <3> QED BY <3>1, RecordDataFacts
    <2>2. \A t, n \in Bytes : <<192, 12, 0, t, 0, 1, 0, 0, 0, 60, 0, n>> \in Seq(Bytes)
        BY DEF Bytes
    <2>3. RecordHeader(z.answers[k]) \in Seq(Bytes)
        BY <2>1, <2>2 DEF RecordHeader
    <2> QED BY <2>1, <2>3, ConcatProperties
<1>7. RecordParts(z) \in Seq(Seq(Bytes)) /\ Len(RecordParts(z)) = Len(z.answers)
    <2>1. RecordParts(z) \in [1 .. Len(z.answers) -> Seq(Bytes)]
        BY <1>6 DEF RecordParts
    <2> QED BY <1>4, <2>1, FunctionIsSeq
<1>8. \A k \in 1 .. Len(z.answers) : RecordParts(z)[k] = RecordHeader(z.answers[k]) \o RecordData(z.answers[k])
    BY DEF RecordParts
<1>9. FlattenSeq(RecordParts(z)) \in Seq(Bytes)
    BY <1>7, JoinedFacts
<1>10. ZoneReply(z) = ReplyHeader(z) \o Wire(z.name) \o QuestionEnd(z) \o FlattenSeq(RecordParts(z))
    BY DEF ZoneReply, ReplyHeader, QuestionEnd, RecordParts, RecordHeader
<1>11. ZoneReply(z) \in Seq(Bytes)
    <2> HIDE DEF ReplyHeader, QuestionEnd
    <2>1. ReplyHeader(z) \o Wire(z.name) \in Seq(Bytes)
        BY <1>3, <1>5, ConcatProperties
    <2>2. ReplyHeader(z) \o Wire(z.name) \o QuestionEnd(z) \in Seq(Bytes)
        BY <1>5, <2>1, ConcatProperties
    <2> QED BY <1>9, <1>10, <2>2, ConcatProperties
<1>12. Len(z.name) \in Nat \ {0}
    BY <1>1, EmptySeq
<1> QED BY <1>1, <1>2, <1>3, <1>4, <1>5, <1>6, <1>7, <1>8, <1>9, <1>10, <1>11, <1>12

\* How many labels and records there are.
LEMMA ZoneSizes ==
    ASSUME NEW z \in Zone
    PROVE  /\ Len(z.name) \in Nat \ {0} /\ 0 \in 0 .. Len(z.name) - 1
           /\ Len(z.answers) \in Nat /\ z.type \in Nat /\ Len(ZoneReply(z)) \in Nat
<1>1. Len(z.name) \in Nat \ {0} /\ Len(z.answers) \in Bytes /\ z.type \in Bytes /\ ZoneReply(z) \in Seq(Bytes)
    BY ReplyParts
<1>2. Len(z.answers) \in Nat /\ z.type \in Nat
    BY <1>1, ByteFacts
<1>3. 0 \in 0 .. Len(z.name) - 1
    BY ONLY <1>1
<1> QED BY <1>1, <1>2, <1>3, LenProperties

-----------------------------------------------------------------------------
\* A byte of the message, and a number of two, that is not behind its end.
LEMMA ReadFacts ==
    ASSUME msg \in Seq(Bytes)
    PROVE  /\ End \in Nat
           /\ \A o \in Nat : o + 1 <= End => Byte(o) \in Bytes /\ Byte(o) \in Nat /\ Byte(o) <= 255
           /\ \A o \in Nat : o + 2 <= End => Number(o) \in Nat
           /\ \A o \in Nat : o + 2 <= End /\ Byte(o) >= 192 => Number(o) - 192 * 256 \in Nat
<1>1. End \in Nat /\ \A k \in 1 .. End : msg[k] \in Bytes
    BY LenProperties, ElementOfSeq DEF End
<1>2. ASSUME NEW o \in Nat, o + 1 <= End PROVE Byte(o) \in Bytes /\ Byte(o) \in Nat /\ Byte(o) <= 255
    <2>1. o + 1 \in 1 .. End
        BY <1>1, <1>2
    <2> QED BY <1>1, <2>1, ByteFacts DEF Byte
<1>3. ASSUME NEW o \in Nat, o + 2 <= End
      PROVE  /\ Number(o) \in Nat
             /\ Byte(o) >= 192 => Number(o) - 192 * 256 \in Nat
    <2>1. o + 1 <= End /\ o + 1 \in Nat /\ (o + 1) + 1 <= End
        BY <1>1, <1>3
    <2>2. Byte(o) \in Nat /\ Byte(o + 1) \in Nat
        BY <1>2, <2>1
    <2>3. \A a, b \in Nat : 256 * a + b \in Nat /\ (a >= 192 => 256 * a + b - 192 * 256 \in Nat)
        OBVIOUS
    <2> QED BY <2>2, <2>3 DEF Number
<1> QED BY <1>1, <1>2, <1>3

\* Every step keeps the types of the variables: what is read is in the message.
LEMMA DnsTypeStep == DnsTypeOK /\ [DnsNext]_dnsVars => DnsTypeOK'
<1> SUFFICES ASSUME DnsTypeOK, [DnsNext]_dnsVars PROVE DnsTypeOK'
    OBVIOUS
<1> USE DEF DnsTypeOK
<1>0. /\ MaxDepth \in Nat /\ msg \in Seq(Bytes) /\ {record, pos, at, back, rest} \subseteq Nat
      /\ depth \in 0 .. MaxDepth /\ dnsCode \in {0, 1} /\ End \in Nat
    BY DnsAssumption, ReadFacts
<1>1. ASSUME NEW m \in Seq(Bytes), PrintMessage(m)
      PROVE  /\ msg' \in Seq(Bytes) /\ dnsCode' \in {0, 1}
             /\ dns' \in {"off", "record", "name", "fields", "wait", "exited", "hung", "crashed"}
             /\ {record', pos', at', back', rest'} \subseteq Nat /\ depth' \in 0 .. MaxDepth
    BY <1>0, <1>1 DEF PrintMessage, DnsExit
<1>2. CASE DnsStart
    <2>1. isReply' \in BOOLEAN
        BY <1>2 DEF DnsStart
    <2>2. CASE \E host \in Hosts, type \in Types : PrintMessage(Query(host, type))
        <3>1. PICK host \in Hosts, type \in Types : PrintMessage(Query(host, type))
            BY <2>2
        <3> QED BY <1>1, <2>1, <3>1, QueryIsBytes
    <2>3. CASE /\ (dns' = "hung" /\ UNCHANGED dnsCode) \/ DnsExit(1)
               /\ UNCHANGED <<msg, record, pos, at, back, depth, rest>>
        BY <1>0, <2>1, <2>3 DEF DnsExit
    <2> QED BY <1>2, <2>2, <2>3 DEF DnsStart
<1>3. CASE NextRecord
    BY <1>0, <1>3 DEF NextRecord, DnsExit, EndOfMessage
<1>4. CASE PrintName
    <2> DEFINE len == Byte(at)
               next == at + 1 + len
    <2>1. msg' = msg /\ isReply' = isReply /\ dnsCode' \in {0, 1}
        BY <1>0, <1>4 DEF PrintName, DnsExit, EndOfMessage
    <2>2. CASE EndOfMessage
        BY <1>0, <2>1, <2>2 DEF EndOfMessage, DnsExit
    <2>3. CASE at + 2 <= End /\ len >= 192 /\ ~ EndOfMessage
        <3>1. Number(at) - 192 * 256 \in Nat
            BY <1>0, <2>3, ReadFacts
        <3>2. depth = MaxDepth \/ depth + 1 \in 0 .. MaxDepth
            BY <1>0
        <3>3. at + 2 \in Nat
            BY <1>0
        <3>4. ~ (at + 2 > End)
            BY <1>0, <2>3
        <3>5. \/ dns' = "crashed" /\ UNCHANGED <<dnsCode, record, pos, at, back, depth, rest>>
              \/ /\ depth # MaxDepth /\ at' = Number(at) - 192 * 256 /\ depth' = depth + 1
                 /\ back' = IF back = 0 THEN at + 2 ELSE back
                 /\ UNCHANGED <<dns, dnsCode, record, pos, rest>>
            BY <1>4, <2>3, <3>4 DEF PrintName
        <3>6. {record', pos', at', back', rest'} \subseteq Nat /\ depth' \in 0 .. MaxDepth
            <4>1. {record, pos, at, back, rest} \subseteq Nat /\ depth \in 0 .. MaxDepth
                BY <1>0
            <4>2. record' = record /\ pos' = pos /\ rest' = rest
                BY <3>5
            <4>3. at' \in Nat /\ back' \in Nat /\ depth' \in 0 .. MaxDepth
                <5>1. CASE UNCHANGED <<at, back, depth>>
                    BY <4>1, <5>1
                <5>2. CASE /\ depth # MaxDepth /\ at' = Number(at) - 192 * 256 /\ depth' = depth + 1
                           /\ back' = IF back = 0 THEN at + 2 ELSE back
                    <6>1. at' \in Nat
                        BY ONLY <3>1, <5>2
                    <6>2. back' \in Nat
                        BY ONLY <3>3, <4>1, <5>2
                    <6>3. depth' \in 0 .. MaxDepth
                        BY ONLY <3>2, <5>2
                    <6> QED BY <6>1, <6>2, <6>3
                <5> QED BY <3>5, <5>1, <5>2
            <4> QED BY ONLY <4>1, <4>2, <4>3
        <3>7. dns' \in {dns, "crashed"}
            BY <3>5
        <3> QED BY <2>1, <3>6, <3>7
    <2>4. CASE at + 2 <= End /\ ~ len >= 192 /\ ~ EndOfMessage
        <3>1. len \in Nat /\ next \in Nat /\ next + 1 \in Nat
            <4>1. at \in Nat /\ at + 1 <= End
                BY <1>0, <2>4
            <4>2. len \in Nat
                BY <1>0, <4>1, ReadFacts
            <4> QED BY <4>1, <4>2
        <3>2. ~ (at + 2 > End)
            BY <1>0, <2>4
        <3>3. /\ dns' \in {dns, "fields", "record"} /\ at' \in {at, next}
              /\ pos' \in {pos, AfterName(next), rest}
              /\ UNCHANGED <<dnsCode, record, back, depth, rest>>
            BY <1>4, <2>4, <3>2 DEF PrintName
        <3>4. AfterName(next) \in Nat
            BY <1>0, <3>1 DEF AfterName
        <3> HIDE DEF next, len
        <3> QED BY <1>0, <2>1, <3>1, <3>3, <3>4
    <2>5. at + 2 > End \/ at + 2 <= End
        BY <1>0
    <2> QED BY <1>4, <2>2, <2>3, <2>4, <2>5 DEF PrintName
<1>5. CASE QuestionFields
    <2>1. CASE EndOfMessage
        BY <1>0, <1>5, <2>1 DEF QuestionFields, DnsExit, EndOfMessage
    <2>2. CASE ~ EndOfMessage
        <3>1. /\ dns' = "record" /\ pos' = pos + 4
              /\ UNCHANGED <<msg, isReply, dnsCode, record, at, back, depth, rest>>
            BY <1>5, <2>2 DEF QuestionFields
        <3> QED BY <1>0, <3>1
    <2> QED BY <2>1, <2>2
<1>6. CASE RecordFields
    <2>1. CASE EndOfMessage
        BY <1>0, <1>6, <2>1 DEF RecordFields, EndOfMessage, DnsExit
    <2>2. CASE ~ EndOfMessage
        <3> DEFINE data == pos + 10
                   rdlen == Number(pos + 8)
        <3>1. ~ (pos + 10 > End)
            BY <1>6, <2>2 DEF RecordFields
        <3>2. rdlen \in Nat /\ data \in Nat /\ data + rdlen \in Nat /\ data + 2 \in Nat
            <4>1. pos + 8 \in Nat /\ (pos + 8) + 2 <= End
                BY <1>0, <3>1
            <4>2. rdlen \in Nat
                BY <1>0, <4>1, ReadFacts
            <4>3. pos \in Nat
                BY <1>0
            <4> HIDE DEF rdlen
            <4> QED BY ONLY <4>2, <4>3 DEF data
        <3>3. /\ \/ /\ dns' = "name" /\ rest' = data + rdlen /\ back' = 0 /\ depth' = 0
                    /\ at' \in {data, data + 2} /\ UNCHANGED pos
                 \/ dns' = "record" /\ pos' = data + rdlen /\ UNCHANGED <<rest, back, depth, at>>
              /\ UNCHANGED <<dnsCode, record, msg, isReply>>
            BY <1>6, <2>2 DEF RecordFields
        <3>4. 0 \in 0 .. MaxDepth /\ 0 \in Nat
            BY <1>0
        <3> HIDE DEF data, rdlen
        <3> QED BY <1>0, <3>2, <3>3, <3>4
    <2> QED BY <2>1, <2>2
<1>7. CASE ReceiveReply
    <2>1. isReply' = TRUE
        BY <1>7 DEF ReceiveReply
    <2>2. CASE \E z \in Zone : \E n \in 0 .. Len(ZoneReply(z)) : PrintMessage(SubSeq(ZoneReply(z), 1, n))
        <3>1. PICK z \in Zone : \E n \in 0 .. Len(ZoneReply(z)) : PrintMessage(SubSeq(ZoneReply(z), 1, n))
            BY <2>2
        <3>2. PICK n \in 0 .. Len(ZoneReply(z)) : PrintMessage(SubSeq(ZoneReply(z), 1, n))
            BY <3>1
        <3>3. SubSeq(ZoneReply(z), 1, n) \in Seq(Bytes)
            BY ReplyParts, BeginningFacts
        <3> QED BY <1>1, <2>1, <3>2, <3>3
    <2>3. CASE \E m \in Strange : PrintMessage(m)
        <3>1. PICK m \in Strange : PrintMessage(m)
            BY <2>3
        <3>2. m \in Seq(Bytes)
            BY DnsAssumption
        <3> QED BY <1>1, <2>1, <3>1, <3>2
    <2> QED BY <1>7, <2>2, <2>3 DEF ReceiveReply
<1>8. CASE UNCHANGED dnsVars
    BY <1>8 DEF dnsVars
<1> QED BY <1>2, <1>3, <1>4, <1>5, <1>6, <1>7, <1>8 DEF DnsNext

LEMMA DnsInitTypes == DnsInit => DnsTypeOK
<1>1. MaxDepth \in Nat /\ 0 \in 0 .. MaxDepth
    BY DnsAssumption
<1>2. <<>> \in Seq(Bytes)
    OBVIOUS
<1> SUFFICES ASSUME DnsInit PROVE DnsTypeOK
    OBVIOUS
<1>3. msg \in Seq(Bytes)
    BY <1>2 DEF DnsInit
<1>4. /\ dns = "off" /\ dnsCode = 0 /\ isReply = FALSE
      /\ record = 0 /\ pos = 0 /\ at = 0 /\ back = 0 /\ rest = 0 /\ depth = 0
    BY DEF DnsInit
<1>5. {record, pos, at, back, rest} \subseteq Nat
    BY ONLY <1>4
<1>6. depth \in 0 .. MaxDepth
    BY ONLY <1>1, <1>4
<1>7. dnsCode \in {0, 1} /\ isReply \in BOOLEAN
    BY <1>4
<1>8. dns \in {"off", "record", "name", "fields", "wait", "exited", "hung", "crashed"}
    BY <1>4
<1> QED BY <1>3, <1>5, <1>6, <1>7, <1>8, Zenon DEF DnsTypeOK

-----------------------------------------------------------------------------
(* What the printer prints of an answer. *)

\* A byte of an answer, and the offsets of a label of the name, of the byte behind the
\* name, and of a record.
AnswerByte(z, o) == ZoneReply(z)[o + 1]
NameAt(z, k) == 12 + Len(Joined(WireParts(z.name), k))
NameEnd(z) == NameAt(z, Len(z.name))
RecordAt(z, j) == NameEnd(z) + 5 + Len(Joined(RecordParts(z), j))
Shift(a) == IF a.type = 15 THEN 2 ELSE 0
LabelAt(z, j) == RecordAt(z, j) + 12 + Shift(z.answers[j + 1])

\* A label without a zero byte, and a pointer to the name, at an offset of an answer.
HasLabel(z, o, label) ==
    /\ o \in Nat /\ label \in Seq(Bytes) /\ Len(label) \in 1 .. 191 /\ 0 \notin ToSet(label)
    /\ o + 2 + Len(label) <= Len(ZoneReply(z))
    /\ AnswerByte(z, o) = Len(label)
    /\ \A i \in 1 .. Len(label) : AnswerByte(z, o + i) = label[i]
HasPointer(z, o) ==
    /\ o \in Nat /\ o + 2 <= Len(ZoneReply(z))
    /\ AnswerByte(z, o) = 192 /\ AnswerByte(z, o + 1) = 12

\* The header, the name and the question's type.
LEMMA QuestionLayout ==
    ASSUME NEW z \in Zone
    PROVE  /\ ZoneReply(z) \in Seq(Bytes) /\ Len(ZoneReply(z)) \in Nat
           /\ AnswerByte(z, 2) = 129 /\ AnswerByte(z, 3) = 128
           /\ AnswerByte(z, 4) = 0 /\ AnswerByte(z, 5) = 1
           /\ AnswerByte(z, 6) = 0 /\ AnswerByte(z, 7) = Len(z.answers)
           /\ \A o \in 8 .. 11 : AnswerByte(z, o) = 0
           /\ NameAt(z, 0) = 12 /\ NameEnd(z) \in Nat
           /\ \A k \in 0 .. Len(z.name) - 1 :
                /\ HasLabel(z, NameAt(z, k), z.name[k + 1])
                /\ NameAt(z, k + 1) = NameAt(z, k) + 1 + Len(z.name[k + 1])
           /\ AnswerByte(z, NameEnd(z)) = 0
           /\ AnswerByte(z, NameEnd(z) + 1) = 0 /\ AnswerByte(z, NameEnd(z) + 2) = z.type
           /\ RecordAt(z, 0) = NameEnd(z) + 5
           /\ RecordAt(z, Len(z.answers)) = Len(ZoneReply(z))
           /\ \A j \in 0 .. Len(z.answers) :
                RecordAt(z, j) \in Nat /\ RecordAt(z, j) >= NameEnd(z) + 5 /\ RecordAt(z, j) <= Len(ZoneReply(z))
           /\ \A i \in 1 .. Len(FlattenSeq(RecordParts(z))) :
                AnswerByte(z, NameEnd(z) + 5 + i - 1) = FlattenSeq(RecordParts(z))[i]
<1> DEFINE h == ReplyHeader(z)
           w == Wire(z.name)
           q == QuestionEnd(z)
           f == FlattenSeq(RecordParts(z))
           M == ZoneReply(z)
           wp == WireParts(z.name)
           rp == RecordParts(z)
<1>1. /\ h \in Seq(Bytes) /\ w \in Seq(Bytes) /\ q \in Seq(Bytes) /\ f \in Seq(Bytes)
      /\ M = h \o w \o q \o f
      /\ rp \in Seq(Seq(Bytes)) /\ Len(rp) = Len(z.answers) /\ Len(z.answers) \in Nat
      /\ z.name \in Seq(Seq(Bytes)) /\ Len(z.name) \in Nat \ {0}
      /\ \A k \in 1 .. Len(z.name) : Len(z.name[k]) \in 1 .. 191
    BY ReplyParts, ByteFacts
<1>2. /\ w = FlattenSeq(wp) /\ wp \in Seq(Seq(Bytes)) /\ Len(wp) = Len(z.name)
      /\ \A k \in 1 .. Len(z.name) :
           /\ z.name[k] \in Seq(Bytes) /\ wp[k][1] = Len(z.name[k])
           /\ Len(wp[k]) = Len(z.name[k]) + 1
           /\ \A i \in 1 .. Len(z.name[k]) : wp[k][i + 1] = z.name[k][i]
    <2>1. \A k \in 1 .. Len(z.name) : Len(z.name[k]) <= 255
        <3>1. \A n \in 1 .. 191 : n <= 255
            OBVIOUS
        <3> QED BY <1>1, <3>1
    <2> QED BY <1>1, <2>1, WirePartsFacts
<1>3. /\ Len(h) = 12 /\ h[3] = 129 /\ h[4] = 128 /\ h[5] = 0 /\ h[6] = 1 /\ h[7] = 0 /\ h[8] = Len(z.answers)
      /\ h[9] = 0 /\ h[10] = 0 /\ h[11] = 0 /\ h[12] = 0
    BY DEF ReplyHeader
<1>4. Len(q) = 5 /\ q[1] = 0 /\ q[2] = 0 /\ q[3] = z.type
    BY DEF QuestionEnd
<1> HIDE DEF h, w, q, f, M, wp, rp
<1>5. /\ M \in Seq(Bytes) /\ Len(M) = 12 + Len(w) + 5 + Len(f) /\ Len(w) \in Nat /\ Len(f) \in Nat /\ Len(M) \in Nat
      /\ \A i \in 1 .. 12 : M[i] = h[i]
      /\ \A i \in 1 .. Len(w) : M[12 + i] = w[i]
      /\ \A i \in 1 .. 5 : M[12 + Len(w) + i] = q[i]
      /\ \A i \in 1 .. Len(f) : M[12 + Len(w) + 5 + i] = f[i]
    <2>1. /\ M \in Seq(Bytes) /\ Len(M) = Len(h) + Len(w) + Len(q) + Len(f) /\ Len(w) \in Nat /\ Len(f) \in Nat
          /\ \A i \in 1 .. Len(h) : M[i] = h[i]
          /\ \A i \in 1 .. Len(w) : M[Len(h) + i] = w[i]
          /\ \A i \in 1 .. Len(q) : M[Len(h) + Len(w) + i] = q[i]
          /\ \A i \in 1 .. Len(f) : M[Len(h) + Len(w) + Len(q) + i] = f[i]
        <3> DEFINE a == h \o w
                   b == a \o q
        <3>1. /\ a \in Seq(Bytes) /\ Len(a) = Len(h) + Len(w) /\ Len(h) \in Nat /\ Len(w) \in Nat
              /\ \A i \in 1 .. Len(h) : a[i] = h[i]
              /\ \A i \in 1 .. Len(w) : a[Len(h) + i] = w[i]
            <4>1. h \in Seq(Bytes) /\ w \in Seq(Bytes)
                BY <1>1
            <4> QED BY ONLY <4>1, ConcatAt
        <3>2. /\ b \in Seq(Bytes) /\ Len(b) = Len(a) + Len(q) /\ Len(q) \in Nat
              /\ \A i \in 1 .. Len(a) : b[i] = a[i]
              /\ \A i \in 1 .. Len(q) : b[Len(a) + i] = q[i]
            <4>1. a \in Seq(Bytes) /\ q \in Seq(Bytes)
                BY <1>1, <3>1
            <4> HIDE DEF a
            <4> QED BY ONLY <4>1, ConcatAt DEF b
        <3>3. /\ Len(M) = Len(b) + Len(f) /\ Len(f) \in Nat /\ M \in Seq(Bytes)
              /\ \A i \in 1 .. Len(b) : M[i] = b[i]
              /\ \A i \in 1 .. Len(f) : M[Len(b) + i] = f[i]
            <4>1. b \in Seq(Bytes) /\ f \in Seq(Bytes) /\ M = b \o f
                BY <1>1, <3>2
            <4> HIDE DEF a, b
            <4> QED BY ONLY <4>1, ConcatAt
        <3> HIDE DEF a, b
        <3>4. \A i \in 1 .. Len(h) : i \in 1 .. Len(a) /\ i \in 1 .. Len(b)
            BY <3>1, <3>2
        <3>5. \A i \in 1 .. Len(w) : Len(h) + i \in 1 .. Len(a) /\ Len(h) + i \in 1 .. Len(b)
            BY <3>1, <3>2
        <3>6. \A i \in 1 .. Len(q) : Len(a) + i \in 1 .. Len(b)
            BY <3>1, <3>2
        <3>7. /\ \A i \in 1 .. Len(h) : M[i] = h[i]
              /\ \A i \in 1 .. Len(w) : M[Len(h) + i] = w[i]
            BY <3>1, <3>2, <3>3, <3>4, <3>5
        <3>8. \A i \in 1 .. Len(q) : M[Len(a) + i] = q[i]
            BY <3>2, <3>3, <3>6
        <3> QED BY <3>1, <3>2, <3>3, <3>7, <3>8
    <2>2. Len(M) \in Nat
        BY <2>1, LenProperties
    <2> QED BY <1>3, <1>4, <2>1, <2>2
<1>6. /\ AnswerByte(z, 2) = 129 /\ AnswerByte(z, 3) = 128
      /\ AnswerByte(z, 4) = 0 /\ AnswerByte(z, 5) = 1
      /\ AnswerByte(z, 6) = 0 /\ AnswerByte(z, 7) = Len(z.answers)
      /\ \A o \in 8 .. 11 : AnswerByte(z, o) = 0
    <2>1. AnswerByte(z, 2) = M[3] /\ AnswerByte(z, 3) = M[4] /\ AnswerByte(z, 4) = M[5] /\ AnswerByte(z, 5) = M[6]
          /\ AnswerByte(z, 6) = M[7] /\ AnswerByte(z, 7) = M[8] /\ AnswerByte(z, 8) = M[9] /\ AnswerByte(z, 9) = M[10]
          /\ AnswerByte(z, 10) = M[11] /\ AnswerByte(z, 11) = M[12]
        BY DEF AnswerByte, M
    <2>2. \A o \in 8 .. 11 : o = 8 \/ o = 9 \/ o = 10 \/ o = 11
        OBVIOUS
    <2>3. 3 \in 1 .. 12 /\ 4 \in 1 .. 12 /\ 5 \in 1 .. 12 /\ 6 \in 1 .. 12 /\ 7 \in 1 .. 12 /\ 8 \in 1 .. 12
          /\ 9 \in 1 .. 12 /\ 10 \in 1 .. 12 /\ 11 \in 1 .. 12 /\ 12 \in 1 .. 12
        OBVIOUS
    <2>4. M[3] = 129 /\ M[4] = 128 /\ M[5] = 0 /\ M[6] = 1 /\ M[7] = 0 /\ M[8] = Len(z.answers)
          /\ M[9] = 0 /\ M[10] = 0 /\ M[11] = 0 /\ M[12] = 0
        <3>1. M[3] = h[3] /\ M[4] = h[4] /\ M[5] = h[5] /\ M[6] = h[6] /\ M[7] = h[7] /\ M[8] = h[8]
            BY ONLY <1>5, <2>3
        <3>2. M[9] = h[9] /\ M[10] = h[10] /\ M[11] = h[11] /\ M[12] = h[12]
            BY ONLY <1>5, <2>3
        <3> QED BY <1>3, <3>1, <3>2
    <2> QED BY <2>1, <2>2, <2>4
<1>7. /\ NameAt(z, 0) = 12 /\ NameEnd(z) = 12 + Len(w)
      /\ \A k \in 0 .. Len(z.name) - 1 :
           /\ NameAt(z, k) \in Nat /\ NameAt(z, k) = 12 + Len(Joined(wp, k))
           /\ Len(Joined(wp, k)) \in Nat
           /\ NameAt(z, k + 1) = NameAt(z, k) + 1 + Len(z.name[k + 1])
    <2>1. /\ Joined(wp, 0) = <<>> /\ Joined(wp, Len(z.name)) = w
          /\ \A k \in 0 .. Len(z.name) - 1 :
               /\ Len(Joined(wp, k)) \in Nat
               /\ Len(Joined(wp, k + 1)) = Len(Joined(wp, k)) + Len(wp[k + 1])
        <3>1. \A k \in 0 .. Len(z.name) - 1 : k \in 0 .. Len(z.name)
            <4>1. Len(z.name) \in Nat
                BY ONLY <1>1
            <4> QED BY ONLY <4>1
        <3> QED BY <1>2, <3>1, JoinedFacts
    <2>2. \A k \in 0 .. Len(z.name) - 1 : k + 1 \in 1 .. Len(z.name)
        <3>1. Len(z.name) \in Nat
            BY ONLY <1>1
        <3> QED BY ONLY <3>1
    <2>3. \A k \in 0 .. Len(z.name) - 1 : Len(wp[k + 1]) = Len(z.name[k + 1]) + 1 /\ Len(z.name[k + 1]) \in Nat
        <3>1. \A k \in 1 .. Len(z.name) : Len(wp[k]) = Len(z.name[k]) + 1
            BY <1>2
        <3>2. \A k \in 1 .. Len(z.name) : Len(z.name[k]) \in Nat
            <4>1. \A m \in 1 .. 191 : m \in Nat
                OBVIOUS
            <4> QED BY ONLY <1>1, <4>1, Zenon
        <3> QED BY ONLY <2>2, <3>1, <3>2
    <2>4. NameAt(z, 0) = 12
        BY <2>1 DEF NameAt, wp
    <2>5. NameEnd(z) = 12 + Len(w)
        BY <2>1 DEF NameAt, NameEnd, wp
    <2>6. \A k \in 0 .. Len(z.name) : NameAt(z, k) = 12 + Len(Joined(wp, k))
        BY DEF NameAt, wp
    <2>7. \A k \in 0 .. Len(z.name) - 1 : k \in 0 .. Len(z.name) /\ k + 1 \in 0 .. Len(z.name)
        <3>1. Len(z.name) \in Nat
            BY ONLY <1>1
        <3> QED BY ONLY <3>1
    <2>8. ASSUME NEW k \in 0 .. Len(z.name) - 1
          PROVE  /\ NameAt(z, k) \in Nat /\ NameAt(z, k) = 12 + Len(Joined(wp, k))
                 /\ Len(Joined(wp, k)) \in Nat
                 /\ NameAt(z, k + 1) = NameAt(z, k) + 1 + Len(z.name[k + 1])
        <3>1. /\ NameAt(z, k) = 12 + Len(Joined(wp, k)) /\ NameAt(z, k + 1) = 12 + Len(Joined(wp, k + 1))
              /\ Len(Joined(wp, k + 1)) = Len(Joined(wp, k)) + (Len(z.name[k + 1]) + 1)
              /\ Len(Joined(wp, k)) \in Nat /\ Len(z.name[k + 1]) \in Nat
            BY <2>1, <2>3, <2>6, <2>7
        <3> DEFINE before == Len(Joined(wp, k))
                   size == Len(z.name[k + 1])
                   here == NameAt(z, k)
                   there == NameAt(z, k + 1)
        <3>2. before \in Nat /\ size \in Nat /\ here = 12 + before /\ there = 12 + (before + (size + 1))
            BY ONLY <3>1
        <3> HIDE DEF before, size, here, there
        <3>3. here \in Nat /\ here = 12 + before /\ before \in Nat /\ there = here + 1 + size
            BY ONLY <3>2
        <3> QED BY ONLY <3>3 DEF before, size, here, there
    <2> QED BY <2>4, <2>5, <2>8
<1>8. ASSUME NEW k \in 0 .. Len(z.name) - 1
      PROVE  HasLabel(z, NameAt(z, k), z.name[k + 1])
    <2> DEFINE l == Len(Joined(wp, k))
               label == z.name[k + 1]
               m == wp[k + 1]
    <2>1. k + 1 \in 1 .. Len(z.name)
        <3>1. Len(z.name) \in Nat /\ k \in 0 .. Len(z.name) - 1
            BY ONLY <1>1, <1>8
        <3> QED BY ONLY <3>1
    <2>2. /\ label \in Seq(Bytes) /\ Len(label) \in 1 .. 191 /\ m[1] = Len(label) /\ Len(m) = Len(label) + 1
          /\ \A i \in 1 .. Len(label) : m[i + 1] = label[i]
        BY <1>1, <1>2, <2>1
    <2>3. /\ l \in Nat /\ l + Len(m) <= Len(w)
          /\ \A i \in 1 .. Len(m) : w[l + i] = m[i]
        BY <1>2, JoinedMember
    <2>4. NameAt(z, k) = 12 + l
        BY <1>7
    <2> HIDE DEF l, label, m
    <2>5. ASSUME NEW i \in 1 .. Len(m) PROVE M[12 + l + i] = m[i]
        <3>1. l + i \in 1 .. Len(w) /\ 12 + (l + i) = 12 + l + i
            <4>1. /\ l \in Nat /\ Len(m) \in Nat /\ Len(w) \in Nat
                  /\ l + Len(m) <= Len(w) /\ i \in 1 .. Len(m)
                BY <1>5, <2>2, <2>3
            <4> QED BY ONLY <4>1
        <3> QED BY <1>5, <2>3, <3>1
    <2>6. AnswerByte(z, 12 + l) = Len(label)
        <3>1. 1 \in 1 .. Len(m)
            BY <2>2
        <3> QED BY <2>2, <2>5, <3>1 DEF AnswerByte, M
    <2>7. ASSUME NEW i \in 1 .. Len(label) PROVE AnswerByte(z, 12 + l + i) = label[i]
        <3>1. i + 1 \in 1 .. Len(m) /\ (12 + l + i) + 1 = 12 + l + (i + 1)
            BY <2>2, <2>3
        <3> QED BY <2>2, <2>5, <3>1 DEF AnswerByte, M
    <2>8. (12 + l) + 2 + Len(label) <= Len(M)
        <3>1. l \in Nat /\ l + Len(m) <= Len(w)
            BY <2>3
        <3>2. Len(m) = Len(label) + 1 /\ Len(label) \in 1 .. 191
            BY <2>2
        <3>3. Len(M) = 12 + Len(w) + 5 + Len(f) /\ Len(w) \in Nat /\ Len(f) \in Nat
            BY <1>5
        <3> QED BY ONLY <3>1, <3>2, <3>3
    <2>9. 12 + l \in Nat
        BY <2>3
    <2>10. 0 \notin ToSet(label)
        BY <2>1, ReplyParts DEF label
    <2> QED BY <2>2, <2>4, <2>6, <2>7, <2>8, <2>9, <2>10 DEF HasLabel, M, label
<1>9. /\ AnswerByte(z, NameEnd(z)) = 0
      /\ AnswerByte(z, NameEnd(z) + 1) = 0 /\ AnswerByte(z, NameEnd(z) + 2) = z.type
    <2>1. /\ AnswerByte(z, 12 + Len(w)) = M[12 + Len(w) + 1]
          /\ AnswerByte(z, 12 + Len(w) + 1) = M[12 + Len(w) + 2]
          /\ AnswerByte(z, 12 + Len(w) + 2) = M[12 + Len(w) + 3]
        <3>1. (12 + Len(w) + 1) + 1 = 12 + Len(w) + 2 /\ (12 + Len(w) + 2) + 1 = 12 + Len(w) + 3
            BY <1>5
        <3> QED BY <3>1 DEF AnswerByte, M
    <2>2. 1 \in 1 .. 5 /\ 2 \in 1 .. 5 /\ 3 \in 1 .. 5
        OBVIOUS
    <2> QED BY <1>4, <1>5, <1>7, <2>1, <2>2
<1>10. /\ RecordAt(z, 0) = NameEnd(z) + 5 /\ RecordAt(z, Len(z.answers)) = Len(M)
       /\ \A j \in 0 .. Len(z.answers) :
            RecordAt(z, j) \in Nat /\ RecordAt(z, j) >= NameEnd(z) + 5 /\ RecordAt(z, j) <= Len(M)
    <2>1. /\ Joined(rp, 0) = <<>> /\ Joined(rp, Len(z.answers)) = f
          /\ \A j \in 0 .. Len(z.answers) : Len(Joined(rp, j)) \in 0 .. Len(f)
        <3>1. Joined(rp, 0) = <<>> /\ Joined(rp, Len(rp)) = f
            BY <1>1, JoinedFacts DEF f, rp
        <3>2. \A j \in 0 .. Len(rp) : Len(Joined(rp, j)) \in 0 .. Len(f)
            BY <1>1, JoinedIsPrefix DEF f, rp
        <3> QED BY <1>1, <3>1, <3>2
    <2>2. \A j \in 0 .. Len(z.answers) : RecordAt(z, j) = NameEnd(z) + 5 + Len(Joined(rp, j))
        BY DEF RecordAt, rp
    <2>3. Len(<<>>) = 0 /\ 0 \in 0 .. Len(z.answers) /\ Len(z.answers) \in 0 .. Len(z.answers)
        <3>1. Len(z.answers) \in Nat
            BY ONLY <1>1
        <3> QED BY ONLY <3>1
    <2>4. RecordAt(z, 0) = NameEnd(z) + 5 + 0 /\ RecordAt(z, Len(z.answers)) = NameEnd(z) + 5 + Len(f)
        BY <2>1, <2>2, <2>3
    <2>5. ASSUME NEW j \in 0 .. Len(z.answers)
          PROVE  RecordAt(z, j) \in Nat /\ RecordAt(z, j) >= NameEnd(z) + 5 /\ RecordAt(z, j) <= Len(M)
        <3>1. RecordAt(z, j) = 12 + Len(w) + 5 + Len(Joined(rp, j)) /\ Len(Joined(rp, j)) \in 0 .. Len(f)
            BY <1>7, <2>1, <2>2
        <3>2. NameEnd(z) = 12 + Len(w) /\ Len(M) = 12 + Len(w) + 5 + Len(f) /\ Len(w) \in Nat /\ Len(f) \in Nat
            BY <1>5, <1>7
        <3> QED BY ONLY <3>1, <3>2
    <2> QED BY <1>5, <1>7, <2>4, <2>5
<1>11. ASSUME NEW i \in 1 .. Len(f) PROVE AnswerByte(z, NameEnd(z) + 5 + i - 1) = f[i]
    <2>1. (NameEnd(z) + 5 + i - 1) + 1 = 12 + Len(w) + 5 + i
        BY <1>5, <1>7
    <2> QED BY <1>5, <2>1 DEF AnswerByte, M
<1>12. /\ M \in Seq(Bytes) /\ Len(M) \in Nat /\ NameAt(z, 0) = 12 /\ NameEnd(z) \in Nat
       /\ \A k \in 0 .. Len(z.name) - 1 :
            /\ HasLabel(z, NameAt(z, k), z.name[k + 1])
            /\ NameAt(z, k + 1) = NameAt(z, k) + 1 + Len(z.name[k + 1])
    <2>1. NameEnd(z) \in Nat
        BY <1>5, <1>7
    <2> QED BY ONLY <1>5, <1>7, <1>8, <2>1, Zenon
<1> QED BY ONLY <1>6, <1>9, <1>10, <1>11, <1>12, Zenon DEF M, f

\* The data of a record that names somebody: behind the preference, a label and a pointer.
LEMMA NamedData ==
    ASSUME NEW z \in Zone, NEW k \in 1 .. Len(z.answers),
           NEW a, a = z.answers[k], a.type \in {5, 15}
    PROVE  /\ Len(a.data) \in 1 .. 191 /\ Len(RecordData(a)) = Shift(a) + Len(a.data) + 3
           /\ RecordData(a)[Shift(a) + 1] = Len(a.data)
           /\ \A i \in 1 .. Len(a.data) : RecordData(a)[Shift(a) + 1 + i] = a.data[i]
           /\ RecordData(a)[Shift(a) + Len(a.data) + 2] = 192
           /\ RecordData(a)[Shift(a) + Len(a.data) + 3] = 12
<1> DEFINE d == RecordData(a)
           n == Len(a.data)
           w == <<n>> \o a.data
           pointer == <<192, 12>>
           shift == Shift(a)
<1>0. /\ a.type = 5 => d = w \o pointer
      /\ a.type = 15 => d = <<0, 10>> \o w \o pointer
    <2>1. z \in Zone /\ k \in 1 .. Len(z.answers) /\ a = z.answers[k]
        OBVIOUS
    <2>2. a.type = 5 => RecordData(a) = (<<Len(a.data)>> \o a.data) \o <<192, 12>>
        <3>1. LET b == z.answers[k]
              IN  b.type = 5 => RecordData(b) = (<<Len(b.data)>> \o b.data) \o <<192, 12>>
            BY ONLY <2>1, RecordDataFacts, ZenonT(60)
        <3> QED BY ONLY <2>1, <3>1, Zenon
    <2>3. a.type = 15 => RecordData(a) = <<0, 10>> \o (<<Len(a.data)>> \o a.data) \o <<192, 12>>
        <3>1. LET b == z.answers[k]
              IN  b.type = 15 => RecordData(b) = <<0, 10>> \o (<<Len(b.data)>> \o b.data) \o <<192, 12>>
            BY ONLY <2>1, RecordDataFacts, ZenonT(60)
        <3> QED BY ONLY <2>1, <3>1, Zenon
    <2> QED BY <2>2, <2>3
<1>1. a.type \in {5, 15} /\ a.data \in Seq(Bytes) /\ n \in 1 .. 191 /\ n \in Bytes
    <2>1. a.data \in Seq(Bytes) /\ (a.type \in {5, 15} => IsLabel(a.data))
        BY RecordDataFacts
    <2>2. n \in 1 .. 191
        BY <2>1 DEF IsLabel
    <2> HIDE DEF n
    <2> QED BY <2>1, <2>2, ByteFacts
<1> HIDE DEF d, n, pointer, shift
<1>2. /\ w \in Seq(Bytes) /\ Len(w) = n + 1 /\ w[1] = n
      /\ \A i \in 1 .. n : w[i + 1] = a.data[i]
    BY ONLY <1>1, PrependFacts DEF n, w
<1>3. pointer \in Seq(Bytes) /\ Len(pointer) = 2 /\ pointer[1] = 192 /\ pointer[2] = 12
    BY DEF Bytes, pointer
<1>4. <<0, 10>> \in Seq(Bytes) /\ Len(<<0, 10>>) = 2
    BY DEF Bytes
<1> HIDE DEF w
<1>5. ASSUME NEW s \in {0, 2}, NEW v \in Seq(Bytes), d = v \o pointer, Len(v) = s + n + 1,
             \A i \in 1 .. n + 1 : v[s + i] = w[i]
      PROVE  /\ Len(d) = s + n + 3
             /\ d[s + 1] = n /\ \A i \in 1 .. n : d[s + 1 + i] = a.data[i]
             /\ d[s + n + 2] = 192 /\ d[s + n + 3] = 12
    <2>1. /\ Len(d) = s + n + 1 + 2
          /\ \A i \in 1 .. s + n + 1 : d[i] = v[i]
          /\ \A i \in 1 .. 2 : d[s + n + 1 + i] = pointer[i]
        <3>1. v \in Seq(Bytes) /\ pointer \in Seq(Bytes)
            BY <1>3
        <3>2. /\ Len(v \o pointer) = Len(v) + Len(pointer)
              /\ \A i \in 1 .. Len(v) : (v \o pointer)[i] = v[i]
              /\ \A i \in 1 .. Len(pointer) : (v \o pointer)[Len(v) + i] = pointer[i]
            BY ONLY <3>1, ConcatAt
        <3>3. d = v \o pointer /\ Len(v) = s + n + 1
            BY <1>5
        <3>4. Len(pointer) = 2
            BY <1>3
        <3> QED BY ONLY <3>2, <3>3, <3>4
    <2>2. ASSUME NEW i \in 1 .. n + 1 PROVE d[s + i] = w[i]
        <3>1. s + i \in 1 .. s + n + 1
            BY <1>1
        <3> QED BY <1>5, <2>1, <3>1
    <2>3. d[s + 1] = n
        <3>1. 1 \in 1 .. n + 1
            BY <1>1
        <3> QED BY <1>2, <2>2, <3>1
    <2>4. ASSUME NEW i \in 1 .. n PROVE d[s + 1 + i] = a.data[i]
        <3>1. i + 1 \in 1 .. n + 1 /\ s + 1 + i = s + (i + 1)
            BY <1>1
        <3> QED BY <1>2, <2>2, <3>1
    <2>5. d[s + n + 1 + 1] = 192 /\ d[s + n + 1 + 2] = 12
        <3>1. 1 \in 1 .. 2 /\ 2 \in 1 .. 2
            OBVIOUS
        <3> QED BY <1>3, <2>1, <3>1
    <2>6. s + n + 1 + 1 = s + n + 2 /\ s + n + 1 + 2 = s + n + 3
        BY <1>1
    <2> QED BY <2>1, <2>3, <2>4, <2>5, <2>6
<1>6. ASSUME a.type = 5
      PROVE  /\ Len(d) = shift + n + 3
             /\ d[shift + 1] = n /\ \A i \in 1 .. n : d[shift + 1 + i] = a.data[i]
             /\ d[shift + n + 2] = 192 /\ d[shift + n + 3] = 12
    <2>1. Len(w) = 0 + n + 1 /\ \A i \in 1 .. n + 1 : w[0 + i] = w[i]
        <3>1. n + 1 = 0 + n + 1 /\ \A i \in 1 .. n + 1 : 0 + i = i
            BY <1>1
        <3>2. \A i \in 1 .. n + 1 : w[0 + i] = w[i]
            BY ONLY <3>1, Zenon
        <3> QED BY ONLY <1>2, <3>1, <3>2
    <2>2. d = w \o pointer
        BY <1>0, <1>6
    <2>3. /\ Len(d) = 0 + n + 3
          /\ d[0 + 1] = n /\ \A i \in 1 .. n : d[0 + 1 + i] = a.data[i]
          /\ d[0 + n + 2] = 192 /\ d[0 + n + 3] = 12
        <3>1. 0 \in {0, 2} /\ w \in Seq(Bytes)
            BY <1>2
        <3> QED BY ONLY <1>5, <2>1, <2>2, <3>1
    <2>4. shift = 0
        BY <1>6 DEF shift, Shift
    <2> QED BY ONLY <2>3, <2>4
<1>7. ASSUME a.type = 15
      PROVE  /\ Len(d) = shift + n + 3
             /\ d[shift + 1] = n /\ \A i \in 1 .. n : d[shift + 1 + i] = a.data[i]
             /\ d[shift + n + 2] = 192 /\ d[shift + n + 3] = 12
    <2> DEFINE v == <<0, 10>> \o w
    <2>1. /\ v \in Seq(Bytes) /\ Len(v) = 2 + (n + 1)
          /\ \A i \in 1 .. n + 1 : v[2 + i] = w[i]
        <3>1. /\ v \in Seq(Bytes) /\ Len(v) = Len(<<0, 10>>) + Len(w)
              /\ \A i \in 1 .. Len(w) : v[Len(<<0, 10>>) + i] = w[i]
            <4>1. <<0, 10>> \in Seq(Bytes) /\ w \in Seq(Bytes)
                BY <1>2, <1>4
            <4> QED BY ONLY <4>1, ConcatAt DEF v
        <3> QED BY <1>2, <1>4, <3>1
    <2>2. d = v \o pointer
        BY <1>0, <1>7
    <2> HIDE DEF v
    <2>3. 2 + (n + 1) = 2 + n + 1
        BY <1>1
    <2>4. /\ Len(d) = 2 + n + 3
          /\ d[2 + 1] = n /\ \A i \in 1 .. n : d[2 + 1 + i] = a.data[i]
          /\ d[2 + n + 2] = 192 /\ d[2 + n + 3] = 12
        <3>1. 2 \in {0, 2} /\ v \in Seq(Bytes) /\ Len(v) = 2 + n + 1 /\ \A i \in 1 .. n + 1 : v[2 + i] = w[i]
            BY <2>1, <2>3
        <3> QED BY ONLY <1>5, <2>2, <3>1
    <2>5. shift = 2
        BY <1>7 DEF shift, Shift
    <2> QED BY ONLY <2>4, <2>5
<1>8. /\ n \in 1 .. 191 /\ Len(d) = shift + n + 3
      /\ d[shift + 1] = n /\ \A i \in 1 .. n : d[shift + 1 + i] = a.data[i]
      /\ d[shift + n + 2] = 192 /\ d[shift + n + 3] = 12
    BY ONLY <1>1, <1>6, <1>7
<1> QED BY ONLY <1>8, Zenon DEF d, n, shift

\* A record: a pointer to the name, the type, the length of the data, and the data.
LEMMA RecordLayout ==
    ASSUME NEW z \in Zone, NEW j \in 0 .. Len(z.answers) - 1
    PROVE  LET a == z.answers[j + 1]
               o == RecordAt(z, j)
               n == Len(RecordData(a))
           IN  /\ o \in Nat /\ n \in Nat
               /\ RecordAt(z, j + 1) = o + 12 + n /\ o + 12 + n <= Len(ZoneReply(z))
               /\ HasPointer(z, o)
               /\ AnswerByte(z, o + 2) = 0 /\ AnswerByte(z, o + 3) = a.type
               /\ AnswerByte(z, o + 10) = 0 /\ AnswerByte(z, o + 11) = n
               /\ \A i \in 1 .. n : AnswerByte(z, o + 11 + i) = RecordData(a)[i]
               /\ a.type \in {5, 15} =>
                    /\ HasLabel(z, LabelAt(z, j), a.data)
                    /\ HasPointer(z, LabelAt(z, j) + 1 + Len(a.data))
                    /\ a.type = 15 => n > 3
<1> DEFINE a == z.answers[j + 1]
           o == RecordAt(z, j)
           d == RecordData(a)
           n == Len(d)
           h == RecordHeader(a)
           rp == RecordParts(z)
           f == FlattenSeq(rp)
           l == Len(Joined(rp, j))
           m == rp[j + 1]
<1>1. j + 1 \in 1 .. Len(z.answers) /\ j \in 0 .. Len(z.answers) /\ j + 1 \in 0 .. Len(z.answers) /\ Len(z.answers) \in Nat
    <2>1. Len(z.answers) \in Nat
        BY ZoneSizes
    <2> QED BY <2>1
<1>2. /\ rp \in Seq(Seq(Bytes)) /\ Len(rp) = Len(z.answers)
      /\ h \in Seq(Bytes) /\ m = h \o d
    <2>1. /\ rp \in Seq(Seq(Bytes)) /\ Len(rp) = Len(z.answers)
          /\ \A k \in 1 .. Len(z.answers) :
               /\ RecordHeader(z.answers[k]) \in Seq(Bytes)
               /\ rp[k] = RecordHeader(z.answers[k]) \o RecordData(z.answers[k])
        BY ReplyParts
    <2> HIDE DEF rp
    <2> QED BY ONLY <1>1, <2>1, Zenon DEF h, m, d, a
<1>3. d \in Seq(Bytes) /\ n \in Nat /\ a.data \in Seq(Bytes) /\ a.type \in Nat
    <2>1. a.data \in Seq(Bytes) /\ d \in Seq(Bytes) /\ a.type \in {1, 5, 15, 16, 28}
        BY <1>1, RecordDataFacts
    <2>2. n \in Nat
        BY <2>1, LenProperties
    <2>3. a.type \in Nat
        BY <2>1
    <2> QED BY <2>1, <2>2, <2>3
<1>4. /\ Len(h) = 12 /\ h[1] = 192 /\ h[2] = 12 /\ h[3] = 0 /\ h[4] = a.type
      /\ h[11] = 0 /\ h[12] = n
    BY DEF RecordHeader
<1> HIDE DEF a, d, h, n
<1>5. /\ l \in Nat /\ l + Len(m) <= Len(f)
      /\ \A i \in 1 .. Len(m) : f[l + i] = m[i]
    <2>1. rp \in Seq(Seq(Bytes)) /\ j \in 0 .. Len(rp) - 1
        BY <1>2
    <2> HIDE DEF rp
    <2> QED BY ONLY <2>1, JoinedMember DEF l, m, f
<1>6. Len(Joined(rp, j + 1)) = l + Len(m)
    <2>1. rp \in Seq(Seq(Bytes)) /\ j \in 0 .. Len(rp) - 1
        BY <1>2
    <2> HIDE DEF rp
    <2> QED BY ONLY <2>1, JoinedFacts DEF l, m
<1>7. /\ Len(m) = 12 + n
      /\ \A i \in 1 .. 12 : m[i] = h[i]
      /\ \A i \in 1 .. n : m[12 + i] = d[i]
    <2>1. /\ Len(h \o d) = Len(h) + Len(d)
          /\ \A i \in 1 .. Len(h) : (h \o d)[i] = h[i]
          /\ \A i \in 1 .. Len(d) : (h \o d)[Len(h) + i] = d[i]
        <3>1. h \in Seq(Bytes) /\ d \in Seq(Bytes)
            BY <1>2, <1>3
        <3>2. \A s, t \in Seq(Bytes) :
                /\ Len(s \o t) = Len(s) + Len(t)
                /\ \A i \in 1 .. Len(s) : (s \o t)[i] = s[i]
                /\ \A i \in 1 .. Len(t) : (s \o t)[Len(s) + i] = t[i]
            BY ONLY ConcatAt
        <3> QED BY ONLY <3>1, <3>2
    <2>2. Len(d) = n /\ Len(h) = 12 /\ m = h \o d
        BY <1>2, <1>4 DEF n
    <2> DEFINE c == h \o d
    <2>3. /\ Len(c) = Len(h) + Len(d) /\ m = c
          /\ \A i \in 1 .. Len(h) : c[i] = h[i]
          /\ \A i \in 1 .. Len(d) : c[Len(h) + i] = d[i]
        BY ONLY <2>1, <2>2
    <2> HIDE DEF c, m
    <2> QED BY ONLY <2>2, <2>3
<1>8. NameEnd(z) \in Nat /\ o = NameEnd(z) + 5 + l /\ RecordAt(z, j + 1) = NameEnd(z) + 5 + (l + Len(m))
    BY <1>6, QuestionLayout DEF RecordAt
<1> HIDE DEF l, m
<1>9. o \in Nat /\ RecordAt(z, j + 1) = o + 12 + n /\ o + 12 + n <= Len(ZoneReply(z)) /\ Len(ZoneReply(z)) \in Nat
    <2>1. RecordAt(z, j + 1) = o + 12 + n /\ o \in Nat
        <3> DEFINE e == NameEnd(z)
                   next == RecordAt(z, j + 1)
        <3>1. e \in Nat /\ o = e + 5 + l /\ next = e + 5 + (l + Len(m)) /\ l \in Nat /\ Len(m) = 12 + n
            BY <1>5, <1>7, <1>8
        <3> HIDE DEF o, e, next
        <3>2. next = o + 12 + n /\ o \in Nat
            BY ONLY <1>3, <3>1
        <3> QED BY <3>2 DEF next
    <2>2. RecordAt(z, j + 1) <= Len(ZoneReply(z)) /\ Len(ZoneReply(z)) \in Nat
        BY <1>1, QuestionLayout
    <2> QED BY <2>1, <2>2
<1>10. ASSUME NEW i \in 1 .. 12 + n PROVE AnswerByte(z, o + i - 1) = m[i]
    <2>1. l + i \in 1 .. Len(f)
        <3>1. Len(f) \in Nat
            BY ReplyParts, LenProperties
        <3> DEFINE size == Len(f)
        <3>2. size \in Nat /\ l \in Nat /\ l + (12 + n) <= size
            BY <1>5, <1>7, <3>1
        <3> HIDE DEF size
        <3>3. l + i \in 1 .. size
            BY ONLY <1>3, <1>10, <3>2
        <3> QED BY <3>3 DEF size
    <2>2. AnswerByte(z, NameEnd(z) + 5 + (l + i) - 1) = f[l + i]
        BY <2>1, QuestionLayout
    <2>3. NameEnd(z) + 5 + (l + i) - 1 = o + i - 1
        <3> HIDE DEF o
        <3> QED BY <1>3, <1>5, <1>8
    <2>4. f[l + i] = m[i]
        BY <1>5, <1>7
    <2> QED BY <2>2, <2>3, <2>4
<1> HIDE DEF o
<1>11. ASSUME NEW i \in 1 .. 12 PROVE AnswerByte(z, o + i - 1) = h[i]
    <2>1. i \in 1 .. 12 + n
        BY <1>3
    <2> QED BY <1>7, <1>10, <2>1
<1>12. /\ AnswerByte(z, o) = 192 /\ AnswerByte(z, o + 1) = 12
       /\ AnswerByte(z, o + 2) = 0 /\ AnswerByte(z, o + 3) = a.type
       /\ AnswerByte(z, o + 10) = 0 /\ AnswerByte(z, o + 11) = n
    <2>1. 1 \in 1 .. 12 /\ 2 \in 1 .. 12 /\ 3 \in 1 .. 12 /\ 4 \in 1 .. 12 /\ 11 \in 1 .. 12 /\ 12 \in 1 .. 12
        OBVIOUS
    <2>2. o + 1 - 1 = o /\ o + 2 - 1 = o + 1 /\ o + 3 - 1 = o + 2 /\ o + 4 - 1 = o + 3
          /\ o + 11 - 1 = o + 10 /\ o + 12 - 1 = o + 11
        BY <1>9
    <2>3. /\ AnswerByte(z, o + 1 - 1) = h[1] /\ AnswerByte(z, o + 2 - 1) = h[2]
          /\ AnswerByte(z, o + 3 - 1) = h[3] /\ AnswerByte(z, o + 4 - 1) = h[4]
          /\ AnswerByte(z, o + 11 - 1) = h[11] /\ AnswerByte(z, o + 12 - 1) = h[12]
        BY ONLY <1>11, <2>1
    <2> QED BY <1>4, <2>2, <2>3
<1>13. ASSUME NEW i \in 1 .. n PROVE AnswerByte(z, o + 11 + i) = d[i]
    <2>1. 12 + i \in 1 .. 12 + n /\ o + (12 + i) - 1 = o + 11 + i
        BY <1>3, <1>9
    <2> QED BY <1>7, <1>10, <2>1
<1>14. HasPointer(z, o)
    <2>1. o + 2 <= Len(ZoneReply(z))
        BY <1>3, <1>9
    <2> QED BY <1>9, <1>12, <2>1 DEF HasPointer
<1>15. ASSUME a.type \in {5, 15}
       PROVE  /\ HasLabel(z, LabelAt(z, j), a.data)
              /\ HasPointer(z, LabelAt(z, j) + 1 + Len(a.data))
              /\ a.type = 15 => n > 3
    <2> DEFINE s == Shift(a)
               k == Len(a.data)
    <2>1. /\ k \in 1 .. 191 /\ n = s + k + 3
          /\ d[s + 1] = k /\ \A i \in 1 .. k : d[s + 1 + i] = a.data[i]
          /\ d[s + k + 2] = 192 /\ d[s + k + 3] = 12
        <3>1. a = z.answers[j + 1]
            BY DEF a
        <3>2. z \in Zone /\ j + 1 \in 1 .. Len(z.answers)
            BY <1>1
        <3>3. Len(a.data) \in 1 .. 191
            BY ONLY <1>15, <3>1, <3>2, NamedData
        <3>4. Len(RecordData(a)) = Shift(a) + Len(a.data) + 3
            BY ONLY <1>15, <3>1, <3>2, NamedData
        <3>5. \A i \in 1 .. Len(a.data) : RecordData(a)[Shift(a) + 1 + i] = a.data[i]
            BY ONLY <1>15, <3>1, <3>2, NamedData
        <3>6. RecordData(a)[Shift(a) + 1] = Len(a.data)
            BY ONLY <1>15, <3>1, <3>2, NamedData
        <3>7. RecordData(a)[Shift(a) + Len(a.data) + 2] = 192
            BY ONLY <1>15, <3>1, <3>2, NamedData
        <3>8. RecordData(a)[Shift(a) + Len(a.data) + 3] = 12
            BY ONLY <1>15, <3>1, <3>2, NamedData
        <3> QED BY ONLY <3>3, <3>4, <3>5, <3>6, <3>7, <3>8, Zenon DEF d, n, s, k
    <2>2. s \in {0, 2} /\ LabelAt(z, j) = o + 12 + s
        <3>1. LabelAt(z, j) = o + 12 + s
            BY DEF LabelAt, o, a
        <3> QED BY <3>1 DEF Shift
    <2>3. a.type = 15 => s = 2
        BY DEF Shift
    <2> HIDE DEF s, k
    <2>4. AnswerByte(z, o + 12 + s) = k
        <3>1. s + 1 \in 1 .. n /\ o + 11 + (s + 1) = o + 12 + s
            BY <1>9, <2>1, <2>2
        <3> QED BY <1>13, <2>1, <3>1
    <2>5. ASSUME NEW i \in 1 .. k PROVE AnswerByte(z, o + 12 + s + i) = a.data[i]
        <3>1. s + 1 + i \in 1 .. n /\ o + 11 + (s + 1 + i) = o + 12 + s + i
            BY <1>9, <2>1, <2>2
        <3> QED BY <1>13, <2>1, <3>1
    <2>6. AnswerByte(z, o + 12 + s + 1 + k) = 192 /\ AnswerByte(z, o + 12 + s + 1 + k + 1) = 12
        <3>1. /\ s + k + 2 \in 1 .. n /\ o + 11 + (s + k + 2) = o + 12 + s + 1 + k
              /\ s + k + 3 \in 1 .. n /\ o + 11 + (s + k + 3) = o + 12 + s + 1 + k + 1
            BY <1>9, <2>1, <2>2
        <3> QED BY <1>13, <2>1, <3>1
    <2>7. /\ o + 12 + s \in Nat /\ o + 12 + s + 2 + k <= Len(ZoneReply(z))
          /\ o + 12 + s + 1 + k \in Nat /\ o + 12 + s + 1 + k + 2 <= Len(ZoneReply(z))
        <3> DEFINE size == Len(ZoneReply(z))
        <3>1. o \in Nat /\ s \in Nat /\ k \in Nat /\ size \in Nat /\ o + 12 + n <= size /\ n = s + k + 3
            BY <1>9, <2>1, <2>2
        <3> HIDE DEF size
        <3>2. /\ o + 12 + s \in Nat /\ o + 12 + s + 2 + k <= size
              /\ o + 12 + s + 1 + k \in Nat /\ o + 12 + s + 1 + k + 2 <= size
            BY ONLY <3>1
        <3> QED BY <3>2 DEF size
    <2>8. a.type = 15 => n > 3
        <3>1. k \in 1 .. 191 /\ n = s + k + 3
            BY <2>1
        <3> QED BY ONLY <2>3, <3>1
    <2>9. HasLabel(z, o + 12 + s, a.data)
        <3>1. 0 \notin ToSet(a.data)
            <4>1. z \in Zone /\ j + 1 \in 1 .. Len(z.answers) /\ a = z.answers[j + 1]
                BY <1>1 DEF a
            <4>2. IsLabel(a.data)
                BY ONLY <1>15, <4>1, RecordDataFacts
            <4> QED BY ONLY <4>2 DEF IsLabel
        <3> QED BY <1>3, <2>1, <2>4, <2>5, <2>7, <3>1 DEF HasLabel, k
    <2>10. HasPointer(z, o + 12 + s + 1 + k)
        BY <2>6, <2>7 DEF HasPointer
    <2> QED BY <2>2, <2>8, <2>9, <2>10 DEF k
<1> QED BY <1>3, <1>9, <1>12, <1>13, <1>14, <1>15 DEF a, o, d, n

-----------------------------------------------------------------------------
\* What should be printed: how many items come before a record, and its items.
ItemParts(z) ==
    [k \in 1 .. Len(z.answers) |->
        LET a == z.answers[k]
        IN  z.name \o <<<<a.type>>, a.data>> \o (IF a.type \in {5, 15} THEN z.name ELSE <<>>)]
ItemAt(z, j) == Len(z.name) + 1 + Len(Joined(ItemParts(z), j))

\* So much of it is printed.
Shown(z, c) == c \in 0 .. Len(ShouldPrint(z)) /\ items = SubSeq(ShouldPrint(z), 1, c)

\* A label of the name is next, when there were b items before the name.
Walking(z, b) == \E k \in 0 .. Len(z.name) - 1 : at = NameAt(z, k) /\ Shown(z, b + k)

BetweenRecords(z) ==
    /\ dns = "record"
    /\ \/ record = 0 /\ pos = 12 /\ Shown(z, 0)
       \/ \E j \in 0 .. Len(z.answers) :
             record = j + 1 /\ pos = RecordAt(z, j) /\ Shown(z, ItemAt(z, j))

\* The name of the question, the owner of a record, and the name in its data.
InQuestion(z) == record = 1 /\ rest = 0 /\ back = 0 /\ depth = 0 /\ Walking(z, 0)
InOwner(z, j) ==
    /\ record = j + 2 /\ rest = 0
    /\ \/ back = 0 /\ depth = 0 /\ at = RecordAt(z, j) /\ Shown(z, ItemAt(z, j))
       \/ back = RecordAt(z, j) + 2 /\ Walking(z, ItemAt(z, j))
InData(z, j) ==
    LET a == z.answers[j + 1]
        b == ItemAt(z, j) + Len(z.name) + 2
    IN  /\ record = j + 2 /\ rest = RecordAt(z, j + 1) /\ a.type \in {5, 15}
        /\ \/ back = 0 /\ depth = 0 /\ at = LabelAt(z, j) /\ Shown(z, b - 1)
           \/ back = 0 /\ depth = 0 /\ at = LabelAt(z, j) + 1 + Len(a.data) /\ Shown(z, b)
           \/ Walking(z, b)
InName(z) ==
    /\ dns = "name"
    /\ \/ InQuestion(z)
       \/ \E j \in 0 .. Len(z.answers) - 1 : InOwner(z, j) \/ InData(z, j)

BehindName(z) ==
    /\ dns = "fields"
    /\ \/ record = 1 /\ pos = NameEnd(z) + 1 /\ Shown(z, Len(z.name))
       \/ \E j \in 0 .. Len(z.answers) - 1 :
             record = j + 2 /\ pos = RecordAt(z, j) + 2 /\ Shown(z, ItemAt(z, j) + Len(z.name))

\* The printer of the first n bytes of an answer: between two records, in a name, behind
\* one, or at its end.
Inside(n) == pos <= n /\ rest <= n /\ (dns = "name" => back <= n)
AtTheEnd(z, n) ==
    /\ dns = "exited"
    /\ n >= 12 => Inside(n)
    /\ \E c \in 0 .. Len(ShouldPrint(z)) : Shown(z, c)
    /\ IF n = Len(ZoneReply(z)) THEN dnsCode = 0 /\ items = ShouldPrint(z) /\ pos = n ELSE dnsCode = 1
Printing(z, n) ==
    /\ ~ outside
    /\ \/ n >= 12 /\ Inside(n) /\ (BetweenRecords(z) \/ InName(z) \/ BehindName(z))
       \/ AtTheEnd(z, n)

\* Before an answer the query is printed, which has no records.
Asking ==
    /\ answered = <<>> /\ rest = 0 /\ ~ outside
    /\ dns \in {"record", "name", "fields"} =>
          record \in {0, 1} /\ \E host \in Hosts : \E type \in Types : msg = Query(host, type)

DnsInv ==
    \/ ~ isReply /\ Asking
    \/ isReply /\ answered = <<>> /\ dns # "wait"
    \/ /\ isReply
       /\ \E z \in Zone : \E n \in 0 .. Len(ZoneReply(z)) :
             answered = <<z, n>> /\ msg = SubSeq(ZoneReply(z), 1, n) /\ Printing(z, n)

LEMMA ItemPart ==
    ASSUME NEW z \in Zone, NEW k \in 1 .. Len(z.answers)
    PROVE  LET a == z.answers[k]
               p == ItemParts(z)[k]
               l == Len(z.name)
           IN  /\ p \in Seq(Seq(Bytes)) /\ a.data \in Seq(Bytes) /\ <<a.type>> \in Seq(Bytes)
               /\ Len(p) = l + 2 + (IF a.type \in {5, 15} THEN l ELSE 0)
               /\ \A i \in 1 .. l : p[i] = z.name[i]
               /\ p[l + 1] = <<a.type>> /\ p[l + 2] = a.data
               /\ a.type \in {5, 15} => \A i \in 1 .. l : p[l + 2 + i] = z.name[i]
<1> DEFINE a == z.answers[k]
           l == Len(z.name)
           name == z.name
           two == <<<<a.type>>, a.data>>
           end == IF a.type \in {5, 15} THEN z.name ELSE <<>>
           p == ItemParts(z)[k]
<1>1. name \in Seq(Seq(Bytes)) /\ l \in Nat
    BY ReplyParts
<1>2. a.data \in Seq(Bytes) /\ a.type \in {1, 5, 15, 16, 28}
    BY RecordDataFacts
<1>3. p = name \o two \o end
    BY DEF ItemParts
<1>4. <<a.type>> \in Seq(Bytes)
    BY <1>2 DEF Bytes
<1>5. two \in Seq(Seq(Bytes)) /\ Len(two) = 2 /\ two[1] = <<a.type>> /\ two[2] = a.data
    <2> DEFINE t == <<a.type>>
               d == a.data
    <2>1. t \in Seq(Bytes) /\ d \in Seq(Bytes)
        BY <1>2, <1>4
    <2> HIDE DEF t, d
    <2>2. <<t, d>> \in Seq(Seq(Bytes)) /\ Len(<<t, d>>) = 2 /\ <<t, d>>[1] = t /\ <<t, d>>[2] = d
        BY <2>1
    <2> QED BY <2>2 DEF t, d
<1>6. /\ end \in Seq(Seq(Bytes)) /\ Len(end) = (IF a.type \in {5, 15} THEN l ELSE 0)
      /\ a.type \in {5, 15} => end = name
    <2>1. CASE a.type \in {5, 15}
        BY <1>1, <2>1
    <2>2. CASE a.type \notin {5, 15}
        BY <2>2
    <2> QED BY <2>1, <2>2
<1> HIDE DEF a, l, two, end, p
<1>7. /\ name \o two \in Seq(Seq(Bytes)) /\ Len(name \o two) = l + 2
      /\ \A i \in 1 .. l : (name \o two)[i] = name[i]
      /\ (name \o two)[l + 1] = <<a.type>> /\ (name \o two)[l + 2] = a.data
    <2>1. /\ name \o two \in Seq(Seq(Bytes)) /\ Len(name \o two) = Len(name) + Len(two)
          /\ \A i \in 1 .. Len(name) : (name \o two)[i] = name[i]
          /\ \A i \in 1 .. Len(two) : (name \o two)[Len(name) + i] = two[i]
        <3>1. name \in Seq(Seq(Bytes)) /\ two \in Seq(Seq(Bytes))
            BY <1>1, <1>5
        <3> HIDE DEF name
        <3> QED BY ONLY <3>1, ConcatAt
    <2>2. 1 \in 1 .. 2 /\ 2 \in 1 .. 2 /\ Len(name) = l
        BY DEF l
    <2> DEFINE c == name \o two
    <2>3. /\ c \in Seq(Seq(Bytes)) /\ Len(c) = Len(name) + Len(two)
          /\ \A i \in 1 .. Len(name) : c[i] = name[i]
          /\ \A i \in 1 .. Len(two) : c[Len(name) + i] = two[i]
        BY <2>1
    <2> HIDE DEF c, name
    <2>4. /\ c \in Seq(Seq(Bytes)) /\ Len(c) = l + 2
          /\ \A i \in 1 .. l : c[i] = name[i]
          /\ c[l + 1] = <<a.type>> /\ c[l + 2] = a.data
        BY ONLY <1>5, <2>2, <2>3, Zenon
    <2> QED BY <2>4 DEF c
<1> DEFINE first == name \o two
<1>8. /\ first \in Seq(Seq(Bytes)) /\ Len(first) = l + 2
      /\ \A i \in 1 .. l : first[i] = name[i]
      /\ first[l + 1] = <<a.type>> /\ first[l + 2] = a.data
      /\ p = first \o end
    BY <1>3, <1>7
<1> HIDE DEF first, name
<1>9. /\ p \in Seq(Seq(Bytes)) /\ Len(p) = Len(first) + Len(end)
      /\ \A i \in 1 .. Len(first) : p[i] = first[i]
      /\ \A i \in 1 .. Len(end) : p[Len(first) + i] = end[i]
    <2>1. first \in Seq(Seq(Bytes)) /\ end \in Seq(Seq(Bytes))
        BY <1>6, <1>8
    <2>2. /\ first \o end \in Seq(Seq(Bytes)) /\ Len(first \o end) = Len(first) + Len(end)
          /\ \A i \in 1 .. Len(first) : (first \o end)[i] = first[i]
          /\ \A i \in 1 .. Len(end) : (first \o end)[Len(first) + i] = end[i]
        BY ONLY <2>1, ConcatAt
    <2>3. p = first \o end
        BY <1>8
    <2> QED BY ONLY <2>2, <2>3
<1>10. l + 1 \in 1 .. l + 2 /\ l + 2 \in 1 .. l + 2 /\ \A i \in 1 .. l : i \in 1 .. l + 2
    BY <1>1
<1>11. /\ \A i \in 1 .. l : p[i] = name[i]
       /\ p[l + 1] = <<a.type>> /\ p[l + 2] = a.data
    BY ONLY <1>8, <1>9, <1>10, Zenon
<1>12. Len(p) = l + 2 + (IF a.type \in {5, 15} THEN l ELSE 0)
    BY ONLY <1>6, <1>8, <1>9
<1>13. ASSUME a.type \in {5, 15} PROVE \A i \in 1 .. l : p[l + 2 + i] = name[i]
    BY ONLY <1>6, <1>8, <1>9, <1>13, Zenon
<1> QED BY ONLY <1>2, <1>4, <1>9, <1>11, <1>12, <1>13, Zenon DEF a, l, p, name

LEMMA ItemLayout ==
    ASSUME NEW z \in Zone
    PROVE  LET sp == ShouldPrint(z)
               l == Len(z.name)
               f == FlattenSeq(ItemParts(z))
           IN  /\ sp \in Seq(Seq(Bytes)) /\ Len(sp) \in Nat /\ l + 1 <= Len(sp)
               /\ \A i \in 1 .. l : sp[i] = z.name[i]
               /\ sp[l + 1] = <<z.type>>
               /\ f \in Seq(Seq(Bytes)) /\ Len(f) \in Nat /\ Len(sp) = l + 1 + Len(f)
               /\ \A i \in 1 .. Len(f) : sp[l + 1 + i] = f[i]
               /\ ItemParts(z) \in Seq(Seq(Seq(Bytes))) /\ Len(ItemParts(z)) = Len(z.answers)
               /\ ItemAt(z, 0) = l + 1 /\ ItemAt(z, Len(z.answers)) = Len(sp)
               /\ \A j \in 0 .. Len(z.answers) : ItemAt(z, j) \in l + 1 .. Len(sp)
<1> DEFINE sp == ShouldPrint(z)
           l == Len(z.name)
           ip == ItemParts(z)
           f == FlattenSeq(ip)
           name == z.name
           t == <<<<z.type>>>>
<1>1. name \in Seq(Seq(Bytes)) /\ l \in Nat /\ z.type \in Bytes /\ Len(z.answers) \in Nat
    BY ReplyParts, ZoneSizes
<1>2. ip \in Seq(Seq(Seq(Bytes))) /\ Len(ip) = Len(z.answers)
    <2>1. \A k \in 1 .. Len(z.answers) : ip[k] \in Seq(Seq(Bytes))
        BY ItemPart
    <2>2. ip \in [1 .. Len(z.answers) -> Seq(Seq(Bytes))]
        <3>1. ip = [k \in 1 .. Len(z.answers) |-> ip[k]]
            BY DEF ItemParts
        <3> HIDE DEF ip
        <3> QED BY <2>1, <3>1
    <2> HIDE DEF ip
    <2> QED BY ONLY <1>1, <2>2, FunctionIsSeq
<1>3. f \in Seq(Seq(Bytes)) /\ Joined(ip, 0) = <<>> /\ Joined(ip, Len(z.answers)) = f
    <2> HIDE DEF ip
    <2> QED BY <1>2, JoinedFacts DEF f
<1>4. \A j \in 0 .. Len(z.answers) : Len(Joined(ip, j)) \in 0 .. Len(f)
    <2> HIDE DEF ip
    <2>1. \A j \in 0 .. Len(ip) : Len(Joined(ip, j)) \in 0 .. Len(f)
        BY <1>2, JoinedIsPrefix DEF f
    <2> QED BY <1>2, <2>1
<1>5. sp = name \o t \o f
    BY DEF ShouldPrint, ItemParts
<1>6. t \in Seq(Seq(Bytes)) /\ Len(t) = 1 /\ t[1] = <<z.type>>
    <2>1. <<z.type>> \in Seq(Bytes)
        BY <1>1
    <2> QED BY <2>1
<1>7. \A j : ItemAt(z, j) = l + 1 + Len(Joined(ip, j))
    BY DEF ItemAt
<1> HIDE DEF sp, ip, f, t, l, name
<1> DEFINE first == name \o t
<1>8. /\ first \in Seq(Seq(Bytes)) /\ Len(first) = l + 1 /\ sp = first \o f
      /\ \A i \in 1 .. l : first[i] = name[i]
      /\ first[l + 1] = <<z.type>>
    <2>1. /\ first \in Seq(Seq(Bytes)) /\ Len(first) = Len(name) + Len(t)
          /\ \A i \in 1 .. Len(name) : first[i] = name[i]
          /\ \A i \in 1 .. Len(t) : first[Len(name) + i] = t[i]
        <3>1. name \in Seq(Seq(Bytes)) /\ t \in Seq(Seq(Bytes))
            BY <1>1, <1>6
        <3> QED BY ONLY <3>1, ConcatAt
    <2>2. sp = first \o f
        BY <1>5
    <2>3. 1 \in 1 .. 1 /\ Len(name) = l
        BY DEF l, name
    <2> HIDE DEF first
    <2> QED BY ONLY <1>6, <2>1, <2>2, <2>3, Zenon
<1> HIDE DEF first
<1>9. /\ sp \in Seq(Seq(Bytes)) /\ Len(sp) = Len(first) + Len(f) /\ Len(f) \in Nat
      /\ \A i \in 1 .. Len(first) : sp[i] = first[i]
      /\ \A i \in 1 .. Len(f) : sp[Len(first) + i] = f[i]
    <2>1. first \in Seq(Seq(Bytes)) /\ f \in Seq(Seq(Bytes))
        BY <1>3, <1>8
    <2>2. /\ first \o f \in Seq(Seq(Bytes)) /\ Len(first \o f) = Len(first) + Len(f) /\ Len(f) \in Nat
          /\ \A i \in 1 .. Len(first) : (first \o f)[i] = first[i]
          /\ \A i \in 1 .. Len(f) : (first \o f)[Len(first) + i] = f[i]
        BY ONLY <2>1, ConcatAt
    <2>3. sp = first \o f
        BY <1>8
    <2> QED BY ONLY <2>2, <2>3
<1>10. l + 1 \in 1 .. l + 1 /\ \A i \in 1 .. l : i \in 1 .. l + 1
    BY <1>1
<1>11. /\ \A i \in 1 .. l : sp[i] = name[i]
       /\ sp[l + 1] = <<z.type>>
       /\ \A i \in 1 .. Len(f) : sp[l + 1 + i] = f[i]
       /\ Len(sp) = l + 1 + Len(f)
    BY ONLY <1>8, <1>9, <1>10, Zenon
<1>12. Len(sp) \in Nat /\ l + 1 <= Len(sp)
    BY ONLY <1>1, <1>9, <1>11
<1>13. ASSUME NEW j \in 0 .. Len(z.answers) PROVE ItemAt(z, j) \in l + 1 .. Len(sp)
    <2>1. ItemAt(z, j) = l + 1 + Len(Joined(ip, j)) /\ Len(Joined(ip, j)) \in 0 .. Len(f)
        BY <1>4, <1>7
    <2> QED BY ONLY <1>1, <1>9, <1>11, <2>1
<1>14. ItemAt(z, 0) = l + 1 /\ ItemAt(z, Len(z.answers)) = Len(sp)
    <2>1. ItemAt(z, 0) = l + 1 + Len(<<>>) /\ ItemAt(z, Len(z.answers)) = l + 1 + Len(f)
        BY <1>3, <1>7
    <2> QED BY <1>1, <1>11, <2>1
<1> QED BY ONLY <1>2, <1>3, <1>9, <1>11, <1>12, <1>13, <1>14, Zenon DEF sp, ip, f, l, name

LEMMA RecordItems ==
    ASSUME NEW z \in Zone, NEW j \in 0 .. Len(z.answers) - 1
    PROVE  LET sp == ShouldPrint(z)
               l == Len(z.name)
               a == z.answers[j + 1]
               c == ItemAt(z, j)
           IN  /\ c \in Nat /\ l \in Nat
               /\ ItemAt(z, j + 1) = c + l + 2 + (IF a.type \in {5, 15} THEN l ELSE 0)
               /\ ItemAt(z, j + 1) <= Len(sp)
               /\ \A i \in 1 .. l : sp[c + i] = z.name[i]
               /\ sp[c + l + 1] = <<a.type>> /\ sp[c + l + 2] = a.data
               /\ a.type \in {5, 15} => \A i \in 1 .. l : sp[c + l + 2 + i] = z.name[i]
<1> DEFINE sp == ShouldPrint(z)
           l == Len(z.name)
           a == z.answers[j + 1]
           c == ItemAt(z, j)
           ip == ItemParts(z)
           f == FlattenSeq(ip)
           m == ip[j + 1]
           b == Len(Joined(ip, j))
           e == IF a.type \in {5, 15} THEN l ELSE 0
<1>1. l \in Nat /\ Len(z.answers) \in Nat
    BY ZoneSizes
<1>2. j \in 0 .. Len(z.answers) /\ j + 1 \in 0 .. Len(z.answers) /\ j + 1 \in 1 .. Len(z.answers)
    BY <1>1
<1>3. /\ ip \in Seq(Seq(Seq(Bytes))) /\ Len(ip) = Len(z.answers) /\ Len(sp) = l + 1 + Len(f)
      /\ \A i \in 1 .. Len(f) : sp[l + 1 + i] = f[i]
      /\ ItemAt(z, j + 1) <= Len(sp) /\ Len(f) \in Nat
    BY <1>1, <1>2, ItemLayout
<1>4. /\ m \in Seq(Seq(Bytes)) /\ Len(m) = l + 2 + e
      /\ \A i \in 1 .. l : m[i] = z.name[i]
      /\ m[l + 1] = <<a.type>> /\ m[l + 2] = a.data
      /\ a.type \in {5, 15} => \A i \in 1 .. l : m[l + 2 + i] = z.name[i]
    <2> HIDE DEF ip
    <2> QED BY ONLY <1>2, ItemPart, Zenon DEF m, ip, a, l, e
<1>5. c = l + 1 + b /\ ItemAt(z, j + 1) = l + 1 + Len(Joined(ip, j + 1))
    BY DEF ItemAt
<1> HIDE DEF ip, a, l, c, sp
<1>6. /\ b \in Nat /\ b + Len(m) <= Len(f) /\ \A i \in 1 .. Len(m) : f[b + i] = m[i]
      /\ Len(Joined(ip, j + 1)) = b + Len(m)
    <2>1. j \in 0 .. Len(ip) - 1
        BY <1>3
    <2> QED BY ONLY <1>3, <2>1, JoinedMember, JoinedFacts
<1>7. e \in Nat /\ (a.type \in {5, 15} => e = l)
    BY <1>1
<1> HIDE DEF f, m, b, e
<1>8. ASSUME NEW i \in 1 .. l + 2 + e PROVE sp[c + i] = m[i]
    <2>1. b + i \in 1 .. Len(f)
        BY ONLY <1>1, <1>3, <1>4, <1>6, <1>7, <1>8
    <2>2. l + 1 + (b + i) = c + i
        BY ONLY <1>1, <1>5, <1>6, <1>7, <1>8
    <2>3. sp[l + 1 + (b + i)] = f[b + i]
        BY ONLY <1>3, <2>1
    <2>4. f[b + i] = m[i]
        BY ONLY <1>4, <1>6, <1>8
    <2> QED BY ONLY <2>2, <2>3, <2>4
<1>9. /\ \A i \in 1 .. l : i \in 1 .. l + 2 + e
      /\ l + 1 \in 1 .. l + 2 + e /\ l + 2 \in 1 .. l + 2 + e
      /\ a.type \in {5, 15} => \A i \in 1 .. l : l + 2 + i \in 1 .. l + 2 + e
    BY ONLY <1>1, <1>7
<1>10. c \in Nat /\ ItemAt(z, j + 1) = c + l + 2 + e
    <2>1. Len(Joined(ip, j + 1)) = b + (l + 2 + e)
        BY ONLY <1>4, <1>6
    <2> QED BY ONLY <1>1, <1>5, <1>6, <1>7, <2>1
<1>11. c + (l + 1) = c + l + 1 /\ c + (l + 2) = c + l + 2 /\ \A i \in 1 .. l : c + (l + 2 + i) = c + l + 2 + i
    BY ONLY <1>1, <1>10
<1>12. \A i \in 1 .. l : sp[c + i] = z.name[i]
    BY ONLY <1>4, <1>8, <1>9
<1>13. sp[c + l + 1] = <<a.type>> /\ sp[c + l + 2] = a.data
    <2>1. sp[c + (l + 1)] = m[l + 1] /\ sp[c + (l + 2)] = m[l + 2]
        BY ONLY <1>8, <1>9
    <2> QED BY ONLY <1>4, <1>11, <2>1
<1>14. ASSUME a.type \in {5, 15}, NEW i \in 1 .. l PROVE sp[c + l + 2 + i] = z.name[i]
    <2>1. sp[c + (l + 2 + i)] = m[l + 2 + i]
        BY ONLY <1>8, <1>9, <1>14
    <2> QED BY ONLY <1>4, <1>11, <1>14, <2>1
<1> QED BY ONLY <1>1, <1>3, <1>10, <1>12, <1>13, <1>14, Zenon DEF sp, l, a, c, e

-----------------------------------------------------------------------------
(* What is read of an answer of which the first n bytes arrived. *)

LEMMA MessageBytes ==
    ASSUME NEW z \in Zone, NEW n \in 0 .. Len(ZoneReply(z)), msg = SubSeq(ZoneReply(z), 1, n)
    PROVE  /\ End = n /\ n \in Nat /\ Len(ZoneReply(z)) \in Nat
           /\ \A o \in Nat : o + 1 <= n => Byte(o) = AnswerByte(z, o)
           /\ \A a \in 1 .. n + 1 : \A b \in a - 1 .. n : SubSeq(msg, a, b) = SubSeq(ZoneReply(z), a, b)
<1> DEFINE M == ZoneReply(z)
<1>1. M \in Seq(Bytes) /\ Len(M) \in Nat
    BY QuestionLayout
<1> HIDE DEF M
<1>2. n \in 0 .. Len(M) /\ msg = SubSeq(M, 1, n)
    BY DEF M
<1>3. /\ Len(msg) = n /\ \A k \in 1 .. n : msg[k] = M[k]
      /\ \A a \in 1 .. n + 1 : \A b \in a - 1 .. n : SubSeq(msg, a, b) = SubSeq(M, a, b)
    BY ONLY <1>1, <1>2, BeginningFacts
<1>4. ASSUME NEW o \in Nat, o + 1 <= n PROVE Byte(o) = M[o + 1]
    <2>1. o + 1 \in 1 .. n
        BY <1>1, <1>2, <1>4
    <2> QED BY <1>3, <2>1 DEF Byte
<1>5. n \in Nat
    BY <1>1, <1>2
<1> QED BY ONLY <1>1, <1>3, <1>4, <1>5, Zenon DEF M, End, AnswerByte

\* The bytes of a label, or of a record's data.
LEMMA AnswerPart ==
    ASSUME NEW z \in Zone, NEW o \in Nat, NEW label \in Seq(Bytes), o + 1 + Len(label) <= Len(ZoneReply(z)),
           \A i \in 1 .. Len(label) : AnswerByte(z, o + i) = label[i]
    PROVE  SubSeq(ZoneReply(z), o + 2, o + 1 + Len(label)) = label
<1> DEFINE M == ZoneReply(z)
           l == Len(label)
           s == SubSeq(M, o + 2, o + 1 + l)
<1>1. M \in Seq(Bytes) /\ Len(M) \in Nat
    BY QuestionLayout
<1>2. /\ o \in Nat /\ label \in Seq(Bytes) /\ l \in Nat /\ o + 1 + l <= Len(M)
      /\ \A i \in 1 .. l : M[o + i + 1] = label[i]
    BY LenProperties DEF AnswerByte
<1> HIDE DEF M, l
<1>3. o + 2 \in 1 .. Len(M) + 1 /\ o + 1 + l \in (o + 2) - 1 .. Len(M)
    BY <1>1, <1>2
<1>4. /\ s \in Seq(Bytes) /\ Len(s) = (o + 1 + l) - (o + 2) + 1
      /\ \A k \in 1 .. (o + 1 + l) - (o + 2) + 1 : s[k] = M[(o + 2) + k - 1]
    BY ONLY <1>1, <1>3, PartFacts
<1>5. (o + 1 + l) - (o + 2) + 1 = l /\ \A k \in 1 .. l : (o + 2) + k - 1 = o + k + 1
    BY <1>2
<1> HIDE DEF s
<1>6. Len(s) = l /\ \A k \in 1 .. l : s[k] = label[k]
    BY ONLY <1>2, <1>4, <1>5
<1>7. s = label
    <2>1. Len(s) = Len(label) /\ \A k \in 1 .. Len(s) : s[k] = label[k]
        BY <1>6 DEF l
    <2> QED BY ONLY <1>2, <1>4, <2>1, SeqEqual
<1> QED BY <1>7 DEF s, M, l

\* One more item of what should be printed.
LEMMA OneMoreShown ==
    ASSUME NEW z \in Zone, NEW c, Shown(z, c), c + 1 <= Len(ShouldPrint(z)),
           items' = Append(items, ShouldPrint(z)[c + 1])
    PROVE  Shown(z, c + 1)'
<1> DEFINE sp == ShouldPrint(z)
           x == sp[c + 1]
<1>1. sp \in Seq(Seq(Bytes)) /\ Len(sp) \in Nat
    BY ItemLayout
<1>2. c \in 0 .. Len(sp) /\ items = SubSeq(sp, 1, c) /\ c + 1 <= Len(sp)
    BY DEF Shown
<1> HIDE DEF sp
<1>3. c + 1 \in 1 .. Len(sp) /\ 1 \in 1 .. Len(sp) /\ (c + 1) - 1 = c /\ c + 1 \in 0 .. Len(sp)
    BY ONLY <1>1, <1>2
<1>4. SubSeq(sp, 1, c + 1) = SubSeq(sp, 1, (c + 1) - 1) \o <<sp[c + 1]>>
    BY ONLY <1>1, <1>3, SubSeqRecursiveSecond
<1>5. x \in Seq(Bytes)
    BY ONLY <1>1, <1>3, ElementOfSeq
<1>6. items \in Seq(Seq(Bytes))
    BY ONLY <1>1, <1>2, BeginningFacts
<1>7. Append(items, x) = items \o <<x>>
    BY ONLY <1>5, <1>6, AppendIsConcat
<1>8. items' = SubSeq(sp, 1, c + 1)
    <2>1. items' = Append(items, x)
        BY DEF sp
    <2> QED BY ONLY <1>2, <1>3, <1>4, <1>7, <2>1, Zenon
<1> QED BY ONLY <1>3, <1>8 DEF Shown, sp

\* printf() prints all of a text without a zero byte.
LEMMA AllPrinted ==
    ASSUME NEW s \in Seq(Bytes), 0 \notin ToSet(s)
    PROVE  UpToZero(s) = s
<1>1. Len(s) \in Nat /\ DOMAIN s = 1 .. Len(s)
    BY LenProperties
<1> DEFINE zeros == {k \in 1 .. Len(s) : s[k] = 0}
<1>2. zeros \cup {Len(s) + 1} = {Len(s) + 1}
    BY <1>1 DEF ToSet
<1>3. Min({Len(s) + 1}) = Len(s) + 1
    <2>1. {Len(s) + 1} \in SUBSET Nat
        BY <1>1
    <2> QED BY <2>1, MinOfNats
<1>4. UpToZero(s) = SubSeq(s, 1, Min(zeros \cup {Len(s) + 1}) - 1)
    BY DEF UpToZero
<1> HIDE DEF zeros
<1>5. Min(zeros \cup {Len(s) + 1}) = Len(s) + 1
    BY <1>2, <1>3, Zenon
<1>6. Min(zeros \cup {Len(s) + 1}) - 1 = Len(s)
    BY ONLY <1>1, <1>5
<1> QED BY <1>4, <1>6, SubSeqFull

\* print_name at a label prints it, and goes on or returns.
LEMMA LabelPrinted ==
    ASSUME NEW z \in Zone, NEW n \in 0 .. Len(ZoneReply(z)), msg = SubSeq(ZoneReply(z), 1, n),
           NEW label, HasLabel(z, at, label),
           NEW c, Shown(z, c), c + 1 <= Len(ShouldPrint(z)), ShouldPrint(z)[c + 1] = label,
           PrintName
    PROVE  \/ EndOfMessage /\ n < Len(ZoneReply(z))
           \/ /\ at + 2 + Len(label) <= n /\ Shown(z, c + 1)'
              /\ UNCHANGED <<dnsCode, record, back, depth, rest, outside>>
              /\ IF AnswerByte(z, at + 1 + Len(label)) # 0
                 THEN at' = at + 1 + Len(label) /\ UNCHANGED <<dns, pos>>
                 ELSE /\ dns' = IF rest = 0 THEN "fields" ELSE "record"
                      /\ pos' = IF rest = 0 THEN AfterName(at + 1 + Len(label)) ELSE rest
<1> DEFINE M == ZoneReply(z)
           l == Len(label)
           next == at + 1 + l
<1>1. /\ End = n /\ n \in Nat /\ Len(M) \in Nat
      /\ \A o \in Nat : o + 1 <= n => Byte(o) = AnswerByte(z, o)
      /\ \A a \in 1 .. n + 1 : \A b \in a - 1 .. n : SubSeq(msg, a, b) = SubSeq(M, a, b)
    BY MessageBytes
<1>2. /\ at \in Nat /\ label \in Seq(Bytes) /\ l \in 1 .. 191 /\ at + 2 + l <= Len(M)
      /\ AnswerByte(z, at) = l
    BY DEF HasLabel
<1>3. SubSeq(M, at + 2, next) = label
    <2>1. at + 1 + l <= Len(M) /\ \A i \in 1 .. l : AnswerByte(z, at + i) = label[i]
        <3>1. \A i \in 1 .. l : AnswerByte(z, at + i) = label[i]
            BY DEF HasLabel
        <3>2. at + 1 + l <= Len(M)
            <4> HIDE DEF l, M
            <4> QED BY ONLY <1>1, <1>2
        <3> QED BY ONLY <3>1, <3>2
    <2> QED BY <1>2, <2>1, AnswerPart
<1> HIDE DEF M, l, next
<1>4. CASE at + 2 > n
    <2>1. EndOfMessage
        BY <1>1, <1>4 DEF PrintName
    <2>2. n < Len(M)
        BY <1>1, <1>2, <1>4
    <2> QED BY <2>1, <2>2 DEF M
<1>5. ASSUME ~ (at + 2 > n) PROVE Byte(at) = l /\ ~ (Byte(at) >= 192) /\ at + 1 + Byte(at) = next
    <2>1. at + 1 <= n
        BY <1>1, <1>2, <1>5
    <2>2. Byte(at) = l
        BY ONLY <1>1, <1>2, <2>1
    <2>3. ~ (l >= 192)
        BY ONLY <1>2
    <2> QED BY ONLY <2>2, <2>3, Zenon DEF next
<1>6. next = at + 1 + l /\ next \in Nat
    BY <1>2 DEF next
<1>7. CASE ~ (at + 2 > n) /\ next + 1 > n
    <2>1. EndOfMessage
        BY <1>1, <1>5, <1>7 DEF PrintName
    <2>2. n < Len(M)
        BY <1>1, <1>2, <1>6, <1>7
    <2> QED BY <2>1, <2>2 DEF M
<1>8. CASE ~ (at + 2 > n) /\ ~ (next + 1 > n)
    <2>1. SubSeq(msg, at + 2, next) = label
        <3>1. at + 2 \in 1 .. n + 1 /\ next \in (at + 2) - 1 .. n
            BY ONLY <1>1, <1>2, <1>6, <1>8
        <3> QED BY <1>1, <1>3, <3>1
    <2>2. Byte(next) = AnswerByte(z, next)
        BY <1>1, <1>6, <1>8
    <2>3. /\ items' = Append(items, UpToZero(SubSeq(msg, at + 2, next)))
          /\ IF Byte(next) # 0
             THEN at' = next /\ UNCHANGED <<dns, pos>>
             ELSE /\ dns' = IF rest = 0 THEN "fields" ELSE "record"
                  /\ pos' = IF rest = 0 THEN AfterName(next) ELSE rest
                  /\ UNCHANGED at
          /\ UNCHANGED <<dnsCode, record, back, depth, rest, outside>>
        BY <1>1, <1>5, <1>8 DEF PrintName
    <2>4. Shown(z, c + 1)'
        <3>1. label \in Seq(Bytes) /\ 0 \notin ToSet(label)
            BY DEF HasLabel
        <3>2. UpToZero(label) = label
            BY <3>1, AllPrinted
        <3> QED BY <2>1, <2>3, <3>2, OneMoreShown
    <2>5. at + 2 + l <= n
        BY ONLY <1>1, <1>2, <1>6, <1>8
    <2> QED BY ONLY <2>2, <2>3, <2>4, <2>5, Zenon DEF next, l
<1> QED BY <1>4, <1>7, <1>8

\* print_name at a pointer to the name follows it.
LEMMA PointerFollowed ==
    ASSUME NEW z \in Zone, NEW n \in 0 .. Len(ZoneReply(z)), msg = SubSeq(ZoneReply(z), 1, n),
           HasPointer(z, at), depth = 0, back = 0, PrintName
    PROVE  \/ EndOfMessage /\ n < Len(ZoneReply(z))
           \/ /\ at + 2 <= n
              /\ at' = NameAt(z, 0) /\ back' = at + 2
              /\ UNCHANGED <<dns, dnsCode, record, pos, rest, items, outside>>
<1> DEFINE M == ZoneReply(z)
<1>1. /\ End = n /\ n \in Nat /\ Len(M) \in Nat
      /\ \A o \in Nat : o + 1 <= n => Byte(o) = AnswerByte(z, o)
    BY MessageBytes
<1>2. /\ at \in Nat /\ at + 2 <= Len(M) /\ AnswerByte(z, at) = 192 /\ AnswerByte(z, at + 1) = 12
    BY DEF HasPointer
<1> HIDE DEF M
<1>3. NameAt(z, 0) = 12
    BY QuestionLayout
<1>4. CASE at + 2 > n
    <2>1. EndOfMessage
        BY <1>1, <1>4 DEF PrintName
    <2>2. n < Len(M)
        BY <1>1, <1>2, <1>4
    <2> QED BY <2>1, <2>2 DEF M
<1>5. CASE ~ (at + 2 > n)
    <2>1. at + 1 \in Nat /\ at + 1 <= n /\ (at + 1) + 1 <= n /\ at + 2 <= n
        BY <1>1, <1>2, <1>5
    <2>2. Byte(at) = 192 /\ Byte(at + 1) = 12
        BY ONLY <1>1, <1>2, <2>1
    <2>3. Number(at) - 192 * 256 = 12 /\ Byte(at) >= 192
        BY ONLY <2>2 DEF Number
    <2>4. depth # MaxDepth
        BY DnsAssumption
    <2>5. at' = Number(at) - 192 * 256 /\ back' = at + 2
          /\ UNCHANGED <<dns, dnsCode, record, pos, rest, items, outside>>
        BY <1>1, <1>5, <2>3, <2>4 DEF PrintName
    <2> QED BY <1>3, <2>1, <2>3, <2>5
<1> QED BY <1>4, <1>5

\* A cut in the answer is noticed: the program fails.
LEMMA CutIsNoticed ==
    ASSUME NEW z \in Zone, NEW n \in 0 .. Len(ZoneReply(z)), n < Len(ZoneReply(z)),
           NEW c, Shown(z, c), Inside(n), ~ outside, EndOfMessage
    PROVE  Printing(z, n)'
<1>1. /\ dns' = "exited" /\ dnsCode' = 1
      /\ UNCHANGED <<record, pos, at, back, depth, rest, items, outside>>
    BY DEF EndOfMessage, DnsExit
<1>2. Inside(n)' /\ ~ outside'
    BY <1>1 DEF Inside
<1>3. c \in 0 .. Len(ShouldPrint(z)) /\ Shown(z, c)'
    BY <1>1 DEF Shown
<1>4. n # Len(ZoneReply(z))
    <2>1. Len(ZoneReply(z)) \in Nat
        BY QuestionLayout
    <2> QED BY <2>1
<1>5. AtTheEnd(z, n)'
    BY <1>1, <1>2, <1>3, <1>4, Zenon DEF AtTheEnd
<1> QED BY <1>2, <1>5 DEF Printing

\* print_name in the name: one more label, or the end of the name.
LEMMA NameWalked ==
    ASSUME NEW z \in Zone, NEW n \in 0 .. Len(ZoneReply(z)), msg = SubSeq(ZoneReply(z), 1, n),
           NEW b \in Nat, Walking(z, b), b + Len(z.name) <= Len(ShouldPrint(z)),
           \A i \in 1 .. Len(z.name) : ShouldPrint(z)[b + i] = z.name[i],
           PrintName
    PROVE  \/ EndOfMessage /\ n < Len(ZoneReply(z))
           \/ Walking(z, b)' /\ UNCHANGED <<dns, dnsCode, record, pos, back, depth, rest, outside>>
           \/ /\ NameEnd(z) + 1 <= n /\ Shown(z, b + Len(z.name))'
              /\ dns' = IF rest = 0 THEN "fields" ELSE "record"
              /\ pos' = IF rest = 0 THEN AfterName(NameEnd(z)) ELSE rest
              /\ UNCHANGED <<dnsCode, record, back, depth, rest, outside>>
<1> DEFINE l == Len(z.name)
           sp == ShouldPrint(z)
<1>1. l \in Nat /\ Len(sp) \in Nat /\ Len(ZoneReply(z)) \in Nat
    BY ZoneSizes, ItemLayout
<1>2. PICK k \in 0 .. l - 1 : at = NameAt(z, k) /\ Shown(z, b + k)
    BY DEF Walking
<1>3. /\ HasLabel(z, NameAt(z, k), z.name[k + 1])
      /\ NameAt(z, k + 1) = NameAt(z, k) + 1 + Len(z.name[k + 1])
    <2>1. \A i \in 0 .. Len(z.name) - 1 :
            /\ HasLabel(z, NameAt(z, i), z.name[i + 1])
            /\ NameAt(z, i + 1) = NameAt(z, i) + 1 + Len(z.name[i + 1])
        BY ONLY QuestionLayout
    <2> QED BY ONLY <1>2, <2>1
<1> DEFINE label == z.name[k + 1]
           c == b + k
           next == NameAt(z, k + 1)
<1>4. HasLabel(z, at, label) /\ at + 1 + Len(label) = next
    BY ONLY <1>2, <1>3
<1>5. sp[c + 1] = label /\ c + 1 <= Len(sp) /\ c + 1 = b + (k + 1) /\ k + 1 \in 1 .. l
    <2>1. c + 1 = b + (k + 1) /\ k + 1 \in 1 .. l
        BY <1>1
    <2>2. sp[b + (k + 1)] = label
        BY <2>1
    <2>3. c + 1 <= Len(sp)
        BY <1>1
    <2> QED BY ONLY <2>1, <2>2, <2>3
<1>6. /\ at \in Nat /\ Len(label) \in 1 .. 191
    BY <1>4 DEF HasLabel
<1> HIDE DEF label, c, next, sp, l
<1>7. \/ EndOfMessage /\ n < Len(ZoneReply(z))
      \/ /\ at + 2 + Len(label) <= n /\ Shown(z, c + 1)'
         /\ UNCHANGED <<dnsCode, record, back, depth, rest, outside>>
         /\ IF AnswerByte(z, at + 1 + Len(label)) # 0
            THEN at' = at + 1 + Len(label) /\ UNCHANGED <<dns, pos>>
            ELSE /\ dns' = IF rest = 0 THEN "fields" ELSE "record"
                 /\ pos' = IF rest = 0 THEN AfterName(at + 1 + Len(label)) ELSE rest
    BY <1>2, <1>4, <1>5, LabelPrinted DEF c, sp
<1>8. CASE EndOfMessage /\ n < Len(ZoneReply(z))
    BY <1>8
<1>9. ASSUME at + 2 + Len(label) <= n, Shown(z, c + 1)',
             UNCHANGED <<dnsCode, record, back, depth, rest, outside>>,
             IF AnswerByte(z, next) # 0
             THEN at' = next /\ UNCHANGED <<dns, pos>>
             ELSE /\ dns' = IF rest = 0 THEN "fields" ELSE "record"
                  /\ pos' = IF rest = 0 THEN AfterName(next) ELSE rest
      PROVE  \/ Walking(z, b)' /\ UNCHANGED <<dns, dnsCode, record, pos, back, depth, rest, outside>>
             \/ /\ NameEnd(z) + 1 <= n /\ Shown(z, b + Len(z.name))'
                /\ dns' = IF rest = 0 THEN "fields" ELSE "record"
                /\ pos' = IF rest = 0 THEN AfterName(NameEnd(z)) ELSE rest
                /\ UNCHANGED <<dnsCode, record, back, depth, rest, outside>>
    <2>1. CASE k + 1 < l
        <3>1. k + 1 \in 0 .. l - 1
            BY <1>1, <1>5, <2>1
        <3>2. AnswerByte(z, next) # 0
            <4>1. HasLabel(z, next, z.name[(k + 1) + 1])
                BY <3>1, QuestionLayout DEF next, l
            <4>2. AnswerByte(z, next) = Len(z.name[(k + 1) + 1]) /\ Len(z.name[(k + 1) + 1]) \in 1 .. 191
                BY <4>1 DEF HasLabel
            <4>3. \A m \in 1 .. 191 : m # 0
                OBVIOUS
            <4> QED BY ONLY <4>2, <4>3
        <3>3. at' = NameAt(z, k + 1) /\ UNCHANGED <<dns, pos>>
            BY <1>9, <3>2 DEF next
        <3>4. Shown(z, b + (k + 1))'
            BY <1>5, <1>9
        <3>5. Walking(z, b)'
            BY <3>1, <3>3, <3>4 DEF Walking, l
        <3> QED BY <1>9, <3>3, <3>5
    <2>2. CASE k + 1 = l
        <3>1. next = NameEnd(z)
            BY <2>2 DEF next, NameEnd, l
        <3>2. ~ (AnswerByte(z, next) # 0)
            BY <3>1, QuestionLayout
        <3>3. NameEnd(z) + 1 <= n
            <4>1. NameEnd(z) = at + 1 + Len(label)
                BY <1>4, <3>1
            <4>2. at + 1 + Len(label) + 1 <= n
                BY <1>6, <1>9
            <4> QED BY <4>1, <4>2
        <3>4. Shown(z, b + Len(z.name))'
            BY <1>5, <1>9, <2>2 DEF l
        <3> QED BY <1>9, <3>1, <3>2, <3>3, <3>4
    <2> QED BY <1>1, <1>5, <2>1, <2>2
<1> QED BY <1>4, <1>7, <1>8, <1>9, Zenon

\* The numbers in the header, and a number of one byte.
LEMMA NumbersRead ==
    ASSUME NEW z \in Zone, NEW n \in 0 .. Len(ZoneReply(z)), msg = SubSeq(ZoneReply(z), 1, n)
    PROVE  /\ n >= 12 => Questions = 1 /\ Records = Len(z.answers) /\ Len(z.answers) \in Nat
           /\ \A o \in Nat : o + 2 <= n /\ AnswerByte(z, o) = 0 /\ AnswerByte(z, o + 1) \in Nat =>
                 Number(o) = AnswerByte(z, o + 1)
<1>1. /\ n \in Nat /\ \A o \in Nat : o + 1 <= n => Byte(o) = AnswerByte(z, o)
    BY MessageBytes
<1>2. ASSUME NEW o \in Nat, o + 2 <= n, AnswerByte(z, o) = 0, AnswerByte(z, o + 1) \in Nat
      PROVE  Number(o) = AnswerByte(z, o + 1)
    <2>1. o + 1 <= n /\ o + 1 \in Nat /\ (o + 1) + 1 <= n
        BY <1>1, <1>2
    <2>2. Byte(o) = 0 /\ Byte(o + 1) = AnswerByte(z, o + 1)
        BY <1>1, <1>2, <2>1
    <2>3. \A b \in Nat : 256 * 0 + b = b
        OBVIOUS
    <2> QED BY <1>2, <2>2, <2>3 DEF Number
<1>3. ASSUME n >= 12 PROVE Questions = 1 /\ Records = Len(z.answers) /\ Len(z.answers) \in Nat
    <2>1. /\ AnswerByte(z, 4) = 0 /\ AnswerByte(z, 5) = 1
          /\ AnswerByte(z, 6) = 0 /\ AnswerByte(z, 7) = Len(z.answers)
          /\ AnswerByte(z, 8) = 0 /\ AnswerByte(z, 9) = 0 /\ AnswerByte(z, 10) = 0 /\ AnswerByte(z, 11) = 0
        BY QuestionLayout
    <2>2. Len(z.answers) \in Nat
        BY ZoneSizes
    <2>3. \A o \in {4, 6, 8, 10} : o \in Nat /\ o + 2 <= n
        BY <1>1, <1>3
    <2>4. Number(4) = 1 /\ Number(6) = Len(z.answers) /\ Number(8) = 0 /\ Number(10) = 0
        <3>1. Byte(4) = 0 /\ Byte(5) = 1 /\ Byte(6) = 0 /\ Byte(7) = Len(z.answers)
              /\ Byte(8) = 0 /\ Byte(9) = 0 /\ Byte(10) = 0 /\ Byte(11) = 0
            <4>1. \A o \in 4 .. 11 : o \in Nat /\ o + 1 <= n
                BY <1>1, <1>3
            <4>2. \A o \in 4 .. 11 : Byte(o) = AnswerByte(z, o)
                BY <1>1, <4>1
            <4> QED BY ONLY <2>1, <4>2
        <3>2. 4 + 1 = 5 /\ 6 + 1 = 7 /\ 8 + 1 = 9 /\ 10 + 1 = 11
            OBVIOUS
        <3> QED BY ONLY <2>2, <3>1, <3>2 DEF Number
    <2> QED BY ONLY <2>2, <2>4 DEF Questions, Records
<1> QED BY <1>2, <1>3

\* The printer at the head of its loop.
LEMMA NextRecordPrints ==
    ASSUME NEW z \in Zone, NEW n \in 0 .. Len(ZoneReply(z)), msg = SubSeq(ZoneReply(z), 1, n),
           isReply, Printing(z, n), NextRecord
    PROVE  Printing(z, n)'
<1> DEFINE M == ZoneReply(z)
<1>1. dns = "record" /\ n >= 12 /\ Inside(n) /\ ~ outside /\ BetweenRecords(z)
    <2>1. dns = "record"
        BY DEF NextRecord
    <2>2. ~ AtTheEnd(z, n) /\ ~ InName(z) /\ ~ BehindName(z)
        BY <2>1 DEF AtTheEnd, InName, BehindName
    <2> QED BY <2>1, <2>2, Zenon DEF Printing
<1>2. /\ End = n /\ n \in Nat /\ Len(M) \in Nat /\ n <= Len(M)
      /\ Questions = 1 /\ Records = Len(z.answers) /\ Len(z.answers) \in Nat
    BY <1>1, MessageBytes, NumbersRead
<1>3. CASE record = 0 /\ pos = 12 /\ Shown(z, 0)
    <2>1. record # Questions + Records
        BY <1>2, <1>3
    <2>2. CASE pos >= End
        <3>1. EndOfMessage
            BY <2>1, <2>2 DEF NextRecord
        <3>2. n < Len(M)
            <4>1. RecordAt(z, 0) <= Len(M) /\ RecordAt(z, 0) = NameEnd(z) + 5 /\ NameEnd(z) \in Nat
                <5>1. 0 \in 0 .. Len(z.answers)
                    BY <1>2
                <5> QED BY <5>1, QuestionLayout
            <4>2. 12 + 2 + Len(z.name[0 + 1]) <= Len(M) /\ Len(z.name[0 + 1]) \in 1 .. 191
                <5>1. 0 \in 0 .. Len(z.name) - 1
                    BY ZoneSizes
                <5>2. HasLabel(z, NameAt(z, 0), z.name[0 + 1]) /\ NameAt(z, 0) = 12
                    BY <5>1, QuestionLayout
                <5> QED BY <5>2 DEF HasLabel
            <4>3. n <= 12 /\ n \in Nat /\ Len(M) \in Nat
                <5>1. pos = 12 /\ pos >= End /\ End = n /\ n \in Nat /\ Len(M) \in Nat
                    BY <1>2, <1>3, <2>2
                <5> QED BY ONLY <5>1
            <4> HIDE DEF M
            <4> QED BY ONLY <4>2, <4>3
        <3> QED BY <1>1, <1>3, <3>1, <3>2, CutIsNoticed
    <2>3. CASE ~ (pos >= End)
        <3>1. /\ dns' = "name" /\ at' = 12 /\ back' = 0 /\ depth' = 0 /\ rest' = 0 /\ record' = 1
              /\ UNCHANGED <<dnsCode, pos, items, outside>>
            BY <1>3, <2>1, <2>3 DEF NextRecord
        <3>2. Walking(z, 0)'
            <4>1. at' = NameAt(z, 0) /\ 0 \in 0 .. Len(z.name) - 1
                <5>1. NameAt(z, 0) = 12
                    BY QuestionLayout
                <5>2. 0 \in 0 .. Len(z.name) - 1
                    BY ZoneSizes
                <5> QED BY <3>1, <5>1, <5>2
            <4>2. Shown(z, 0 + 0)'
                BY <1>3, <3>1 DEF Shown
            <4> QED BY <4>1, <4>2 DEF Walking
        <3>3. Inside(n)'
            BY <1>1, <1>2, <3>1 DEF Inside
        <3>4. InName(z)' /\ ~ outside'
            BY <1>1, <3>1, <3>2 DEF InName, InQuestion
        <3> QED BY <1>1, <3>3, <3>4 DEF Printing
    <2> QED BY <2>2, <2>3
<1>4. ASSUME NEW j \in 0 .. Len(z.answers), record = j + 1, pos = RecordAt(z, j), Shown(z, ItemAt(z, j))
      PROVE  Printing(z, n)'
    <2>1. CASE j = Len(z.answers)
        <3>1. record = Questions + Records
            BY <1>2, <1>4, <2>1
        <3>2. /\ dns' = "exited" /\ dnsCode' = 0
              /\ UNCHANGED <<record, pos, at, back, depth, rest, items, outside>>
            BY <3>1 DEF NextRecord, DnsExit
        <3>3. pos = Len(M) /\ pos <= n
            BY <1>1, <1>4, <2>1, QuestionLayout DEF Inside
        <3>4. n = Len(M) /\ pos = n
            BY <1>2, <3>3
        <3>5. items = ShouldPrint(z) /\ Len(ShouldPrint(z)) \in 0 .. Len(ShouldPrint(z))
            <4>1. ShouldPrint(z) \in Seq(Seq(Bytes)) /\ Len(ShouldPrint(z)) \in Nat /\ ItemAt(z, j) = Len(ShouldPrint(z))
                BY <2>1, ItemLayout
            <4>2. SubSeq(ShouldPrint(z), 1, Len(ShouldPrint(z))) = ShouldPrint(z)
                BY ONLY <4>1, SubSeqFull
            <4>3. items = SubSeq(ShouldPrint(z), 1, Len(ShouldPrint(z)))
                BY <1>4, <4>1 DEF Shown
            <4> QED BY <4>1, <4>2, <4>3
        <3>6. Shown(z, Len(ShouldPrint(z)))'
            <4>1. Shown(z, Len(ShouldPrint(z)))
                BY <1>4, <2>1, ItemLayout
            <4> QED BY <3>2, <4>1 DEF Shown
        <3>7. Inside(n)' /\ ~ outside'
            BY <1>1, <3>2 DEF Inside
        <3>8. AtTheEnd(z, n)'
            BY <3>2, <3>4, <3>5, <3>6, <3>7, Zenon DEF AtTheEnd
        <3> QED BY <3>7, <3>8 DEF Printing
    <2>2. CASE j # Len(z.answers)
        <3>1. j \in 0 .. Len(z.answers) - 1
            BY <1>2, <2>2
        <3>2. record # Questions + Records
            BY <1>2, <1>4, <2>2
        <3>3. CASE pos >= End
            <4>1. EndOfMessage
                BY <3>2, <3>3 DEF NextRecord
            <4>2. n < Len(M)
                <5>1. RecordAt(z, j) \in Nat /\ Len(RecordData(z.answers[j + 1])) \in Nat
                      /\ RecordAt(z, j) + 12 + Len(RecordData(z.answers[j + 1])) <= Len(M)
                    BY <3>1, RecordLayout
                <5> QED BY <1>2, <1>4, <3>3, <5>1
            <4> QED BY <1>1, <1>4, <4>1, <4>2, CutIsNoticed
        <3>4. CASE ~ (pos >= End)
            <4>1. /\ dns' = "name" /\ at' = pos /\ back' = 0 /\ depth' = 0 /\ rest' = 0 /\ record' = record + 1
                  /\ UNCHANGED <<dnsCode, pos, items, outside>>
                BY <3>2, <3>4 DEF NextRecord
            <4>2. record' = j + 2
                BY <1>2, <1>4, <4>1
            <4>3. Shown(z, ItemAt(z, j))'
                BY <1>4, <4>1 DEF Shown
            <4>4. InOwner(z, j)'
                BY <1>4, <4>1, <4>2, <4>3 DEF InOwner
            <4>5. Inside(n)'
                BY <1>1, <1>2, <4>1 DEF Inside
            <4>6. InName(z)' /\ ~ outside'
                BY <1>1, <3>1, <4>1, <4>4 DEF InName
            <4> QED BY <1>1, <4>5, <4>6 DEF Printing
        <3> QED BY <3>3, <3>4
    <2> QED BY <2>1, <2>2
<1> QED BY <1>1, <1>3, <1>4 DEF BetweenRecords

\* The printer in a name.
LEMMA PrintNamePrints ==
    ASSUME NEW z \in Zone, NEW n \in 0 .. Len(ZoneReply(z)), msg = SubSeq(ZoneReply(z), 1, n),
           pos \in Nat, Printing(z, n), PrintName
    PROVE  Printing(z, n)'
<1> DEFINE l == Len(z.name)
           sp == ShouldPrint(z)
<1>1. dns = "name" /\ n >= 12 /\ Inside(n) /\ ~ outside /\ InName(z)
    <2>1. dns = "name"
        BY DEF PrintName
    <2>2. ~ AtTheEnd(z, n) /\ ~ BetweenRecords(z) /\ ~ BehindName(z)
        BY <2>1 DEF AtTheEnd, BetweenRecords, BehindName
    <2> QED BY <2>1, <2>2, Zenon DEF Printing
<1>2. n \in Nat /\ l \in Nat /\ Len(sp) \in Nat /\ l + 1 <= Len(sp)
    BY MessageBytes, ZoneSizes, ItemLayout
<1>3. ASSUME NEW c, Shown(z, c), EndOfMessage, n < Len(ZoneReply(z)) PROVE Printing(z, n)'
    BY <1>1, <1>3, CutIsNoticed
<1>4. ASSUME NEW b, Walking(z, b) PROVE \E c : Shown(z, c)
    BY <1>4 DEF Walking
<1>5. CASE InQuestion(z)
    <2>1. record = 1 /\ rest = 0 /\ back = 0 /\ depth = 0 /\ Walking(z, 0)
        BY <1>5 DEF InQuestion
    <2>2. 0 + l <= Len(sp) /\ \A i \in 1 .. l : sp[0 + i] = z.name[i]
        <3>1. \A i \in 1 .. l : 0 + i = i
            OBVIOUS
        <3>2. \A i \in 1 .. l : sp[i] = z.name[i]
            BY ItemLayout
        <3>3. \A i \in 1 .. l : sp[0 + i] = z.name[i]
            BY ONLY <3>1, <3>2
        <3> QED BY <1>2, <3>3
    <2>3. \/ EndOfMessage /\ n < Len(ZoneReply(z))
          \/ Walking(z, 0)' /\ UNCHANGED <<dns, dnsCode, record, pos, back, depth, rest, outside>>
          \/ /\ NameEnd(z) + 1 <= n /\ Shown(z, 0 + l)'
             /\ dns' = IF rest = 0 THEN "fields" ELSE "record"
             /\ pos' = IF rest = 0 THEN AfterName(NameEnd(z)) ELSE rest
             /\ UNCHANGED <<dnsCode, record, back, depth, rest, outside>>
        BY <2>1, <2>2, NameWalked
    <2>4. CASE EndOfMessage /\ n < Len(ZoneReply(z))
        BY <1>3, <1>4, <2>1, <2>4
    <2>5. CASE Walking(z, 0)' /\ UNCHANGED <<dns, dnsCode, record, pos, back, depth, rest, outside>>
        <3>1. InName(z)' /\ Inside(n)' /\ ~ outside'
            BY <1>1, <2>1, <2>5 DEF InName, InQuestion, Inside
        <3> QED BY <1>1, <3>1 DEF Printing
    <2>6. CASE /\ NameEnd(z) + 1 <= n /\ Shown(z, 0 + l)'
               /\ dns' = IF rest = 0 THEN "fields" ELSE "record"
               /\ pos' = IF rest = 0 THEN AfterName(NameEnd(z)) ELSE rest
               /\ UNCHANGED <<dnsCode, record, back, depth, rest, outside>>
        <3>1. dns' = "fields" /\ pos' = NameEnd(z) + 1 /\ pos' <= n
            BY <2>1, <2>6 DEF AfterName
        <3>2. Shown(z, l)'
            BY <1>2, <2>6
        <3>3. BehindName(z)'
            BY <2>1, <2>6, <3>1, <3>2 DEF BehindName
        <3>4. Inside(n)' /\ ~ outside'
            BY <1>1, <2>6, <3>1 DEF Inside
        <3> QED BY <1>1, <3>3, <3>4 DEF Printing
    <2> QED BY <2>3, <2>4, <2>5, <2>6
<1>6. ASSUME NEW j \in 0 .. Len(z.answers) - 1, InOwner(z, j)
      PROVE  Printing(z, n)'
    <2> DEFINE c == ItemAt(z, j)
    <2>1. /\ c \in Nat /\ c + l <= Len(sp) /\ RecordAt(z, j) \in Nat /\ HasPointer(z, RecordAt(z, j))
          /\ \A i \in 1 .. l : sp[c + i] = z.name[i]
        <3>1. RecordAt(z, j) \in Nat /\ HasPointer(z, RecordAt(z, j))
            BY RecordLayout
        <3>2. /\ c \in Nat /\ \A i \in 1 .. l : sp[c + i] = z.name[i]
              /\ ItemAt(z, j + 1) <= Len(sp)
              /\ ItemAt(z, j + 1) = c + l + 2 + (IF z.answers[j + 1].type \in {5, 15} THEN l ELSE 0)
            BY RecordItems
        <3>3. c + l <= Len(sp)
            <4> DEFINE e == IF z.answers[j + 1].type \in {5, 15} THEN l ELSE 0
                       next == ItemAt(z, j + 1)
            <4>1. e \in Nat
                BY <1>2
            <4>2. next <= Len(sp) /\ next = c + l + 2 + e
                BY <3>2
            <4> HIDE DEF e, next, c, sp, l
            <4> QED BY <1>2, <3>2, <4>1, <4>2
        <3> QED BY <3>1, <3>2, <3>3
    <2>2. record = j + 2 /\ rest = 0
        BY <1>6 DEF InOwner
    <2>3. CASE back = 0 /\ depth = 0 /\ at = RecordAt(z, j) /\ Shown(z, c)
        <3>1. \/ EndOfMessage /\ n < Len(ZoneReply(z))
              \/ /\ at + 2 <= n
                 /\ at' = NameAt(z, 0) /\ back' = at + 2
                 /\ UNCHANGED <<dns, dnsCode, record, pos, rest, items, outside>>
            BY <2>1, <2>3, PointerFollowed
        <3>2. CASE EndOfMessage /\ n < Len(ZoneReply(z))
            BY <1>3, <2>3, <3>2
        <3>3. CASE /\ at + 2 <= n
                   /\ at' = NameAt(z, 0) /\ back' = at + 2
                   /\ UNCHANGED <<dns, dnsCode, record, pos, rest, items, outside>>
            <4>1. Shown(z, c + 0)' /\ 0 \in 0 .. l - 1
                <5>1. c + 0 = c /\ l \in Nat \ {0}
                    <6>1. c + 0 = c
                        BY <2>1
                    <6>2. l \in Nat \ {0}
                        BY ZoneSizes
                    <6> QED BY <6>1, <6>2
                <5>2. Shown(z, c)'
                    BY <2>3, <3>3 DEF Shown
                <5> QED BY <5>1, <5>2
            <4>2. Walking(z, c)'
                BY <3>3, <4>1 DEF Walking
            <4>3. InOwner(z, j)'
                BY <2>2, <2>3, <3>3, <4>2 DEF InOwner
            <4>4. InName(z)' /\ Inside(n)' /\ ~ outside'
                BY <1>1, <3>3, <4>3 DEF InName, Inside
            <4> QED BY <1>1, <4>4 DEF Printing
        <3> QED BY <3>1, <3>2, <3>3
    <2>4. CASE back = RecordAt(z, j) + 2 /\ Walking(z, c)
        <3>1. \/ EndOfMessage /\ n < Len(ZoneReply(z))
              \/ Walking(z, c)' /\ UNCHANGED <<dns, dnsCode, record, pos, back, depth, rest, outside>>
              \/ /\ NameEnd(z) + 1 <= n /\ Shown(z, c + l)'
                 /\ dns' = IF rest = 0 THEN "fields" ELSE "record"
                 /\ pos' = IF rest = 0 THEN AfterName(NameEnd(z)) ELSE rest
                 /\ UNCHANGED <<dnsCode, record, back, depth, rest, outside>>
            BY <2>1, <2>4, NameWalked
        <3>2. CASE EndOfMessage /\ n < Len(ZoneReply(z))
            BY <1>3, <1>4, <2>4, <3>2
        <3>3. CASE Walking(z, c)' /\ UNCHANGED <<dns, dnsCode, record, pos, back, depth, rest, outside>>
            <4>1. InOwner(z, j)'
                BY <2>2, <2>4, <3>3 DEF InOwner
            <4>2. InName(z)' /\ Inside(n)' /\ ~ outside'
                BY <1>1, <3>3, <4>1 DEF InName, Inside
            <4> QED BY <1>1, <4>2 DEF Printing
        <3>4. CASE /\ NameEnd(z) + 1 <= n /\ Shown(z, c + l)'
                   /\ dns' = IF rest = 0 THEN "fields" ELSE "record"
                   /\ pos' = IF rest = 0 THEN AfterName(NameEnd(z)) ELSE rest
                   /\ UNCHANGED <<dnsCode, record, back, depth, rest, outside>>
            <4>1. dns' = "fields" /\ pos' = RecordAt(z, j) + 2 /\ pos' = back
                BY <2>1, <2>2, <2>4, <3>4 DEF AfterName
            <4>2. BehindName(z)'
                BY <2>2, <3>4, <4>1 DEF BehindName
            <4>3. Inside(n)' /\ ~ outside'
                BY <1>1, <3>4, <4>1 DEF Inside
            <4> QED BY <1>1, <4>2, <4>3 DEF Printing
        <3> QED BY <3>1, <3>2, <3>3, <3>4
    <2> QED BY <1>6, <2>3, <2>4 DEF InOwner
<1>7. ASSUME NEW j \in 0 .. Len(z.answers) - 1, InData(z, j)
      PROVE  Printing(z, n)'
    <2> DEFINE a == z.answers[j + 1]
               b == ItemAt(z, j) + l + 2
               o == LabelAt(z, j)
    <2>1. record = j + 2 /\ rest = RecordAt(z, j + 1) /\ a.type \in {5, 15}
        BY <1>7 DEF InData
    <2>2. HasLabel(z, o, a.data) /\ HasPointer(z, o + 1 + Len(a.data))
        BY <2>1, RecordLayout
    <2>3. rest \in Nat /\ rest # 0
        <3>1. j + 1 \in 0 .. Len(z.answers) /\ NameEnd(z) \in Nat
            <4>1. Len(z.answers) \in Nat
                BY ZoneSizes
            <4>2. NameEnd(z) \in Nat
                BY QuestionLayout
            <4> QED BY <4>1, <4>2
        <3>2. RecordAt(z, j + 1) \in Nat /\ RecordAt(z, j + 1) >= NameEnd(z) + 5
            BY <3>1, QuestionLayout
        <3> QED BY <2>1, <3>1, <3>2
    <2>4. /\ b \in Nat /\ b - 1 \in Nat /\ (b - 1) + 1 = b /\ b + l = ItemAt(z, j + 1) /\ b + l <= Len(sp)
          /\ sp[(b - 1) + 1] = a.data /\ \A i \in 1 .. l : sp[b + i] = z.name[i]
        <3> DEFINE c == ItemAt(z, j)
        <3>1. /\ c \in Nat /\ ItemAt(z, j + 1) = c + l + 2 + l /\ ItemAt(z, j + 1) <= Len(sp)
              /\ sp[c + l + 2] = a.data /\ \A i \in 1 .. l : sp[c + l + 2 + i] = z.name[i]
            <4>1. /\ c \in Nat /\ ItemAt(z, j + 1) = c + l + 2 + (IF a.type \in {5, 15} THEN l ELSE 0)
                  /\ ItemAt(z, j + 1) <= Len(sp) /\ sp[c + l + 2] = a.data
                  /\ a.type \in {5, 15} => \A i \in 1 .. l : sp[c + l + 2 + i] = z.name[i]
                BY RecordItems
            <4>2. (IF a.type \in {5, 15} THEN l ELSE 0) = l /\ a.type \in {5, 15}
                BY <2>1
            <4> HIDE DEF a, c, l, sp
            <4> QED BY ONLY <4>1, <4>2, Zenon
        <3>2. /\ b \in Nat /\ b - 1 \in Nat /\ (b - 1) + 1 = b
            <4>1. c \in Nat /\ l \in Nat
                BY <1>2, <3>1
            <4>2. b = c + l + 2
                BY DEF b, c
            <4> HIDE DEF b, c, l
            <4> QED BY ONLY <4>1, <4>2
        <3>3. sp[(b - 1) + 1] = a.data
            BY <3>1, <3>2
        <3> QED BY <3>1, <3>2, <3>3
    <2> HIDE DEF a, b, o
    <2>5. CASE back = 0 /\ depth = 0 /\ at = o /\ Shown(z, b - 1)
        <3>1. \/ EndOfMessage /\ n < Len(ZoneReply(z))
              \/ /\ at + 2 + Len(a.data) <= n /\ Shown(z, (b - 1) + 1)'
                 /\ UNCHANGED <<dnsCode, record, back, depth, rest, outside>>
                 /\ IF AnswerByte(z, at + 1 + Len(a.data)) # 0
                    THEN at' = at + 1 + Len(a.data) /\ UNCHANGED <<dns, pos>>
                    ELSE /\ dns' = IF rest = 0 THEN "fields" ELSE "record"
                         /\ pos' = IF rest = 0 THEN AfterName(at + 1 + Len(a.data)) ELSE rest
            <4>1. HasLabel(z, at, a.data) /\ (b - 1) + 1 <= Len(sp) /\ sp[(b - 1) + 1] = a.data
                BY <1>2, <2>2, <2>4, <2>5
            <4> QED BY <2>5, <4>1, LabelPrinted
        <3>2. CASE EndOfMessage /\ n < Len(ZoneReply(z))
            BY <1>3, <2>5, <3>2
        <3>3. CASE /\ at + 2 + Len(a.data) <= n /\ Shown(z, (b - 1) + 1)'
                   /\ UNCHANGED <<dnsCode, record, back, depth, rest, outside>>
                   /\ IF AnswerByte(z, at + 1 + Len(a.data)) # 0
                      THEN at' = at + 1 + Len(a.data) /\ UNCHANGED <<dns, pos>>
                      ELSE /\ dns' = IF rest = 0 THEN "fields" ELSE "record"
                           /\ pos' = IF rest = 0 THEN AfterName(at + 1 + Len(a.data)) ELSE rest
            <4>1. AnswerByte(z, at + 1 + Len(a.data)) # 0
                BY <2>2, <2>5 DEF HasPointer
            <4>2. at' = o + 1 + Len(a.data) /\ UNCHANGED <<dns, pos>> /\ Shown(z, b)'
                BY <2>4, <2>5, <3>3, <4>1
            <4>3. InData(z, j)'
                BY <2>1, <2>5, <3>3, <4>2 DEF InData, a, b, o
            <4>4. InName(z)' /\ Inside(n)' /\ ~ outside'
                BY <1>1, <3>3, <4>2, <4>3 DEF InName, Inside
            <4> QED BY <1>1, <4>4 DEF Printing
        <3> QED BY <3>1, <3>2, <3>3
    <2>6. CASE back = 0 /\ depth = 0 /\ at = o + 1 + Len(a.data) /\ Shown(z, b)
        <3>1. \/ EndOfMessage /\ n < Len(ZoneReply(z))
              \/ /\ at + 2 <= n
                 /\ at' = NameAt(z, 0) /\ back' = at + 2
                 /\ UNCHANGED <<dns, dnsCode, record, pos, rest, items, outside>>
            BY <2>2, <2>6, PointerFollowed
        <3>2. CASE EndOfMessage /\ n < Len(ZoneReply(z))
            BY <1>3, <2>6, <3>2
        <3>3. CASE /\ at + 2 <= n
                   /\ at' = NameAt(z, 0) /\ back' = at + 2
                   /\ UNCHANGED <<dns, dnsCode, record, pos, rest, items, outside>>
            <4>1. Shown(z, b + 0)' /\ 0 \in 0 .. l - 1
                <5>1. b + 0 = b /\ l \in Nat \ {0}
                    <6>1. b + 0 = b
                        BY <2>4
                    <6>2. l \in Nat \ {0}
                        BY ZoneSizes
                    <6> QED BY <6>1, <6>2
                <5>2. Shown(z, b)'
                    BY <2>6, <3>3 DEF Shown
                <5> QED BY <5>1, <5>2
            <4>2. Walking(z, b)'
                BY <3>3, <4>1 DEF Walking
            <4>3. InData(z, j)'
                BY <2>1, <3>3, <4>2 DEF InData, a, b
            <4>4. InName(z)' /\ Inside(n)' /\ ~ outside'
                BY <1>1, <3>3, <4>3 DEF InName, Inside
            <4> QED BY <1>1, <4>4 DEF Printing
        <3> QED BY <3>1, <3>2, <3>3
    <2>7. CASE Walking(z, b)
        <3>1. \/ EndOfMessage /\ n < Len(ZoneReply(z))
              \/ Walking(z, b)' /\ UNCHANGED <<dns, dnsCode, record, pos, back, depth, rest, outside>>
              \/ /\ NameEnd(z) + 1 <= n /\ Shown(z, b + l)'
                 /\ dns' = IF rest = 0 THEN "fields" ELSE "record"
                 /\ pos' = IF rest = 0 THEN AfterName(NameEnd(z)) ELSE rest
                 /\ UNCHANGED <<dnsCode, record, back, depth, rest, outside>>
            BY <2>4, <2>7, NameWalked
        <3>2. CASE EndOfMessage /\ n < Len(ZoneReply(z))
            BY <1>3, <1>4, <2>7, <3>2
        <3>3. CASE Walking(z, b)' /\ UNCHANGED <<dns, dnsCode, record, pos, back, depth, rest, outside>>
            <4>1. InData(z, j)'
                BY <2>1, <3>3 DEF InData, a, b
            <4>2. InName(z)' /\ Inside(n)' /\ ~ outside'
                BY <1>1, <3>3, <4>1 DEF InName, Inside
            <4> QED BY <1>1, <4>2 DEF Printing
        <3>4. CASE /\ NameEnd(z) + 1 <= n /\ Shown(z, b + l)'
                   /\ dns' = IF rest = 0 THEN "fields" ELSE "record"
                   /\ pos' = IF rest = 0 THEN AfterName(NameEnd(z)) ELSE rest
                   /\ UNCHANGED <<dnsCode, record, back, depth, rest, outside>>
            <4>1. dns' = "record" /\ pos' = RecordAt(z, j + 1) /\ pos' = rest
                BY <2>1, <2>3, <3>4
            <4>2. record' = (j + 1) + 1 /\ Shown(z, ItemAt(z, j + 1))' /\ j + 1 \in 0 .. Len(z.answers)
                <5>1. Len(z.answers) \in Nat
                    BY ZoneSizes
                <5>2. record' = (j + 1) + 1
                    BY <2>1, <3>4
                <5>3. Shown(z, ItemAt(z, j + 1))'
                    BY ONLY <2>4, <3>4
                <5>4. j + 1 \in 0 .. Len(z.answers)
                    BY <5>1
                <5> QED BY ONLY <5>2, <5>3, <5>4
            <4>3. BetweenRecords(z)'
                BY <4>1, <4>2 DEF BetweenRecords
            <4>4. Inside(n)' /\ ~ outside'
                BY <1>1, <3>4, <4>1 DEF Inside
            <4> QED BY <1>1, <4>3, <4>4 DEF Printing
        <3> QED BY <3>1, <3>2, <3>3, <3>4
    <2> QED BY <1>7, <2>5, <2>6, <2>7 DEF InData, a, b, o
<1> QED BY <1>1, <1>5, <1>6, <1>7 DEF InName

\* The printer behind the name of the question.
LEMMA QuestionFieldsPrints ==
    ASSUME NEW z \in Zone, NEW n \in 0 .. Len(ZoneReply(z)), msg = SubSeq(ZoneReply(z), 1, n),
           Printing(z, n), QuestionFields
    PROVE  Printing(z, n)'
<1> DEFINE l == Len(z.name)
           sp == ShouldPrint(z)
<1>1. dns = "fields" /\ n >= 12 /\ Inside(n) /\ ~ outside /\ BehindName(z)
    <2>1. dns = "fields"
        BY DEF QuestionFields
    <2>2. ~ AtTheEnd(z, n) /\ ~ BetweenRecords(z) /\ ~ InName(z)
        BY <2>1 DEF AtTheEnd, BetweenRecords, InName
    <2> QED BY <2>1, <2>2, Zenon DEF Printing
<1>2. /\ End = n /\ n \in Nat /\ Len(ZoneReply(z)) \in Nat
      /\ Questions = 1 /\ Len(z.answers) \in Nat
    BY <1>1, MessageBytes, NumbersRead
<1>3. record = 1 /\ pos = NameEnd(z) + 1 /\ Shown(z, l)
    <2>1. record <= 1
        BY <1>2 DEF QuestionFields
    <2>2. \A j \in 0 .. Len(z.answers) - 1 : ~ (j + 2 <= 1)
        BY <1>2
    <2> QED BY <1>1, <2>1, <2>2 DEF BehindName
<1>4. /\ l \in Nat /\ Len(sp) \in Nat /\ l + 1 <= Len(sp) /\ sp[l + 1] = <<z.type>> /\ ItemAt(z, 0) = l + 1
    BY ItemLayout, ZoneSizes
<1>5. /\ NameEnd(z) \in Nat /\ RecordAt(z, 0) = NameEnd(z) + 5 /\ RecordAt(z, 0) <= Len(ZoneReply(z))
      /\ AnswerByte(z, NameEnd(z) + 1) = 0 /\ AnswerByte(z, NameEnd(z) + 2) = z.type
    <2>1. 0 \in 0 .. Len(z.answers)
        BY <1>2
    <2> QED BY <2>1, QuestionLayout
<1>6. CASE pos + 4 > n
    <2>1. EndOfMessage
        BY <1>2, <1>6 DEF QuestionFields
    <2>2. n < Len(ZoneReply(z))
        BY <1>2, <1>3, <1>5, <1>6
    <2> QED BY <1>1, <1>3, <2>1, <2>2, CutIsNoticed
<1>7. CASE ~ (pos + 4 > n)
    <2>1. Number(pos) = z.type
        <3>1. pos \in Nat /\ pos + 2 <= n /\ pos + 1 = NameEnd(z) + 2
            BY <1>2, <1>3, <1>5, <1>7
        <3>2. z.type \in Nat
            BY ZoneSizes
        <3>3. AnswerByte(z, pos) = 0 /\ AnswerByte(z, pos + 1) = z.type
            BY <1>3, <1>5, <3>1
        <3> QED BY <3>1, <3>2, <3>3, NumbersRead
    <2>2. /\ items' = Append(items, <<Number(pos)>>)
          /\ dns' = "record" /\ pos' = pos + 4
          /\ UNCHANGED <<dnsCode, record, at, back, depth, rest, outside>>
        BY <1>2, <1>7 DEF QuestionFields
    <2>3. Shown(z, l + 1)'
        <3>1. items' = Append(items, sp[l + 1])
            BY <1>4, <2>1, <2>2
        <3> QED BY <1>3, <1>4, <3>1, OneMoreShown
    <2>4. BetweenRecords(z)'
        <3>1. pos' = RecordAt(z, 0) /\ record' = 0 + 1 /\ 0 \in 0 .. Len(z.answers)
            BY <1>2, <1>3, <1>5, <2>2
        <3> QED BY <1>4, <2>2, <2>3, <3>1 DEF BetweenRecords
    <2>5. Inside(n)' /\ ~ outside'
        BY <1>1, <1>2, <1>3, <1>5, <1>7, <2>2 DEF Inside
    <2> QED BY <1>1, <2>4, <2>5 DEF Printing
<1> QED BY <1>6, <1>7

\* What is read of the data of a record.
LEMMA DataRead ==
    ASSUME NEW z \in Zone, NEW n \in 0 .. Len(ZoneReply(z)), msg = SubSeq(ZoneReply(z), 1, n),
           NEW j \in 0 .. Len(z.answers) - 1, RecordAt(z, j + 1) <= n
    PROVE  LET a == z.answers[j + 1]
               o == RecordAt(z, j)
               m == Len(RecordData(a))
           IN  /\ a.type \in {1, 28} => SubSeq(msg, o + 12 + 1, o + 12 + m) = a.data
               /\ a.type = 16 => UpToZero(SubSeq(msg, o + 12 + 2, o + 12 + m)) = a.data
               /\ a.type = 16 => m # 0
               /\ a.type = 1 => m = 4
               /\ a.type = 28 => m = 16
<1> DEFINE a == z.answers[j + 1]
           o == RecordAt(z, j)
           d == RecordData(a)
           m == Len(d)
<1>1. j + 1 \in 1 .. Len(z.answers)
    <2>1. Len(z.answers) \in Nat
        BY ZoneSizes
    <2> QED BY <2>1
<1>2. /\ d \in Seq(Bytes) /\ a.data \in Seq(Bytes) /\ Len(a.data) \in Nat
      /\ a.type = 16 => d = <<Len(a.data)>> \o a.data
      /\ a.type \in {1, 28} => d = a.data
      /\ a.type = 1 => Len(a.data) = 4
      /\ a.type = 28 => Len(a.data) = 16
    <2>1. z \in Zone /\ j + 1 \in 1 .. Len(z.answers)
        BY <1>1
    <2>2. a.data \in Seq(Bytes) /\ Len(a.data) \in Nat /\ d \in Seq(Bytes)
        BY ONLY <2>1, RecordDataFacts
    <2>3. a.type = 16 => d = <<Len(a.data)>> \o a.data
        BY ONLY <2>1, RecordDataFacts, ZenonT(60)
    <2>4. a.type \in {1, 28} => d = a.data
        BY ONLY <2>1, RecordDataFacts, ZenonT(60)
    <2>5. a.type = 1 => Len(a.data) = 4
        BY ONLY <2>1, RecordDataFacts
    <2>6. a.type = 28 => Len(a.data) = 16
        BY ONLY <2>1, RecordDataFacts
    <2> QED BY ONLY <2>2, <2>3, <2>4, <2>5, <2>6
<1>3. /\ o \in Nat /\ m \in Nat /\ RecordAt(z, j + 1) = o + 12 + m
      /\ \A i \in 1 .. m : AnswerByte(z, o + 11 + i) = d[i]
    BY RecordLayout
<1>4. n \in Nat /\ Len(ZoneReply(z)) \in Nat /\ n <= Len(ZoneReply(z))
      /\ \A p \in 1 .. n + 1 : \A q \in p - 1 .. n : SubSeq(msg, p, q) = SubSeq(ZoneReply(z), p, q)
    BY MessageBytes
<1>5. o + 12 + m <= n
    BY <1>3
<1> HIDE DEF a, o, d, m
<1>6. ASSUME a.type \in {1, 28} PROVE SubSeq(msg, o + 12 + 1, o + 12 + m) = a.data
    <2>1. d = a.data /\ Len(a.data) = m
        BY <1>2, <1>6 DEF m
    <2>2. (o + 11) + 1 + m <= Len(ZoneReply(z)) /\ o + 11 \in Nat
        BY ONLY <1>3, <1>4, <1>5
    <2>3. SubSeq(ZoneReply(z), (o + 11) + 2, (o + 11) + 1 + Len(a.data)) = a.data
        <3>1. \A i \in 1 .. Len(a.data) : AnswerByte(z, (o + 11) + i) = a.data[i]
            BY ONLY <1>3, <2>1
        <3>2. (o + 11) + 1 + Len(a.data) <= Len(ZoneReply(z))
            BY ONLY <2>1, <2>2
        <3> QED BY <1>2, <2>2, <3>1, <3>2, AnswerPart
    <2>4. (o + 11) + 2 = o + 12 + 1 /\ (o + 11) + 1 + Len(a.data) = o + 12 + m
        BY ONLY <1>3, <2>1
    <2>5. o + 12 + 1 \in 1 .. n + 1 /\ o + 12 + m \in (o + 12 + 1) - 1 .. n
        BY ONLY <1>3, <1>4, <1>5
    <2>6. SubSeq(msg, o + 12 + 1, o + 12 + m) = SubSeq(ZoneReply(z), o + 12 + 1, o + 12 + m)
        BY ONLY <1>4, <2>5
    <2> QED BY ONLY <2>3, <2>4, <2>6
<1>7. ASSUME a.type = 16 PROVE SubSeq(msg, o + 12 + 2, o + 12 + m) = a.data /\ m # 0
    <2> DEFINE k == Len(a.data)
    <2>1. m = k + 1 /\ \A i \in 1 .. k : d[i + 1] = a.data[i]
        <3>1. k \in Bytes
            <4>1. a.type = 16 => k < 255
                <5>1. z \in Zone /\ j + 1 \in 1 .. Len(z.answers)
                    BY <1>1
                <5> QED BY ONLY <5>1, ZoneAssumption DEF a, k
            <4> QED BY <1>2, <1>7, <4>1, ByteFacts
        <3>2. Len(<<k>> \o a.data) = Len(a.data) + 1 /\ \A i \in 1 .. k : (<<k>> \o a.data)[i + 1] = a.data[i]
            BY <1>2, <3>1, PrependFacts
        <3>3. d = <<k>> \o a.data
            BY <1>2, <1>7
        <3> QED BY ONLY <3>2, <3>3 DEF m
    <2>2. k \in Nat
        BY <1>2
    <2>3. (o + 12) + 1 + k <= Len(ZoneReply(z)) /\ o + 12 \in Nat
        <3> HIDE DEF k
        <3> QED BY ONLY <1>3, <1>4, <1>5, <2>1, <2>2
    <2>4. SubSeq(ZoneReply(z), (o + 12) + 2, (o + 12) + 1 + Len(a.data)) = a.data
        <3>1. ASSUME NEW i \in 1 .. k PROVE AnswerByte(z, (o + 12) + i) = a.data[i]
            <4>1. i + 1 \in 1 .. m /\ o + 11 + (i + 1) = (o + 12) + i
                <5> HIDE DEF k
                <5> QED BY ONLY <1>3, <2>1, <2>2, <3>1
            <4> QED BY ONLY <1>3, <2>1, <3>1, <4>1
        <3> QED BY <1>2, <2>3, <3>1, AnswerPart
    <2> HIDE DEF k
    <2>5. (o + 12) + 1 + k = o + 12 + m /\ m # 0
        BY ONLY <1>3, <2>1, <2>2
    <2>6. o + 12 + 2 \in 1 .. n + 1 /\ o + 12 + m \in (o + 12 + 2) - 1 .. n
        BY ONLY <1>3, <1>4, <1>5, <2>1, <2>2
    <2>7. SubSeq(msg, o + 12 + 2, o + 12 + m) = SubSeq(ZoneReply(z), o + 12 + 2, o + 12 + m)
        BY ONLY <1>4, <2>6
    <2>8. SubSeq(ZoneReply(z), o + 12 + 2, (o + 12) + 1 + k) = a.data
        BY <2>4 DEF k
    <2> QED BY ONLY <2>5, <2>7, <2>8
<1>8. (a.type = 1 => m = 4) /\ (a.type = 28 => m = 16)
    BY <1>2 DEF m
<1>9. a.type = 16 => UpToZero(a.data) = a.data
    <2>1. z \in Zone /\ j + 1 \in 1 .. Len(z.answers)
        BY <1>1
    <2>2. a.type = 16 => 0 \notin ToSet(a.data)
        BY ONLY <2>1, RecordDataFacts DEF a
    <2> QED BY <1>2, <2>2, AllPrinted
<1> QED BY <1>6, <1>7, <1>8, <1>9 DEF a, o, m, d

\* One or two more items of what should be printed, linked.
LEMMA LinkedShown ==
    ASSUME NEW z \in Zone, NEW c, Shown(z, c), c + 1 <= Len(ShouldPrint(z))
    PROVE  /\ items' = items \o <<ShouldPrint(z)[c + 1]>> \o <<>> => Shown(z, c + 1)'
           /\ c + 2 <= Len(ShouldPrint(z))
              /\ items' = items \o <<ShouldPrint(z)[c + 1]>> \o <<ShouldPrint(z)[c + 2]>> => Shown(z, c + 2)'
<1> DEFINE sp == ShouldPrint(z)
           x == sp[c + 1]
           y == sp[c + 2]
<1>1. sp \in Seq(Seq(Bytes)) /\ Len(sp) \in Nat
    BY ItemLayout
<1>2. c \in 0 .. Len(sp) /\ items = SubSeq(sp, 1, c) /\ c + 1 <= Len(sp)
    BY DEF Shown
<1> HIDE DEF sp
<1>3. c + 1 \in 1 .. Len(sp) /\ 1 \in 1 .. Len(sp) /\ (c + 1) - 1 = c /\ c + 1 \in 0 .. Len(sp)
    BY ONLY <1>1, <1>2
<1>4. SubSeq(sp, 1, c + 1) = SubSeq(sp, 1, (c + 1) - 1) \o <<sp[c + 1]>>
    BY ONLY <1>1, <1>3, SubSeqRecursiveSecond
<1>5. x \in Seq(Bytes)
    BY ONLY <1>1, <1>3, ElementOfSeq
<1>6. items \in Seq(Seq(Bytes))
    BY ONLY <1>1, <1>2, BeginningFacts
<1>7. items \o <<x>> = SubSeq(sp, 1, c + 1) /\ items \o <<x>> \in Seq(Seq(Bytes))
    <2>1. items \o <<x>> = SubSeq(sp, 1, c + 1)
        BY ONLY <1>2, <1>3, <1>4, Zenon
    <2>2. SubSeq(sp, 1, c + 1) \in Seq(Seq(Bytes))
        BY ONLY <1>1, <1>3, BeginningFacts
    <2> QED BY ONLY <2>1, <2>2, Zenon
<1>8. ASSUME items' = items \o <<x>> \o <<>> PROVE Shown(z, c + 1)'
    <2> DEFINE w == items \o <<x>>
    <2>1. w \in Seq(Seq(Bytes)) /\ items' = w \o <<>> /\ w = SubSeq(sp, 1, c + 1)
        BY <1>7, <1>8
    <2> HIDE DEF w
    <2>2. w \o <<>> = w
        BY ONLY <2>1, ConcatEmptySeq
    <2>3. items' = SubSeq(sp, 1, c + 1)
        BY ONLY <2>1, <2>2
    <2> QED BY ONLY <1>3, <2>3 DEF Shown, sp
<1>9. ASSUME c + 2 <= Len(sp), items' = items \o <<x>> \o <<y>> PROVE Shown(z, c + 2)'
    <2>1. c + 2 \in 1 .. Len(sp) /\ (c + 2) - 1 = c + 1 /\ c + 2 \in 0 .. Len(sp)
        BY ONLY <1>1, <1>2, <1>9
    <2>2. SubSeq(sp, 1, c + 2) = SubSeq(sp, 1, (c + 2) - 1) \o <<sp[c + 2]>>
        BY ONLY <1>1, <1>3, <2>1, SubSeqRecursiveSecond
    <2> DEFINE w == items \o <<x>>
    <2>3. items' = w \o <<y>> /\ w = SubSeq(sp, 1, c + 1)
        BY <1>7, <1>9
    <2> HIDE DEF w
    <2>4. items' = SubSeq(sp, 1, c + 2)
        BY ONLY <2>1, <2>2, <2>3, Zenon
    <2> QED BY ONLY <2>1, <2>4 DEF Shown, sp
<1> QED BY <1>8, <1>9 DEF sp

\* The printer behind the name of a record.
LEMMA RecordFieldsPrints ==
    ASSUME NEW z \in Zone, NEW n \in 0 .. Len(ZoneReply(z)), msg = SubSeq(ZoneReply(z), 1, n),
           Printing(z, n), RecordFields
    PROVE  Printing(z, n)'
<1> DEFINE l == Len(z.name)
           sp == ShouldPrint(z)
<1>1. dns = "fields" /\ n >= 12 /\ Inside(n) /\ ~ outside /\ BehindName(z)
    <2>1. dns = "fields"
        BY DEF RecordFields
    <2>2. ~ AtTheEnd(z, n) /\ ~ BetweenRecords(z) /\ ~ InName(z)
        BY <2>1 DEF AtTheEnd, BetweenRecords, InName
    <2> QED BY <2>1, <2>2, Zenon DEF Printing
<1>2. /\ End = n /\ n \in Nat /\ Len(ZoneReply(z)) \in Nat
      /\ Questions = 1 /\ Len(z.answers) \in Nat
    BY <1>1, MessageBytes, NumbersRead
<1>3. PICK j \in 0 .. Len(z.answers) - 1 :
         record = j + 2 /\ pos = RecordAt(z, j) + 2 /\ Shown(z, ItemAt(z, j) + l)
    <2>1. record > 1
        BY <1>2 DEF RecordFields
    <2> QED BY <1>1, <2>1 DEF BehindName
<1> DEFINE a == z.answers[j + 1]
           o == RecordAt(z, j)
           m == Len(RecordData(a))
           c == ItemAt(z, j) + l
           next == RecordAt(z, j + 1)
<1>4. /\ o \in Nat /\ m \in Nat /\ next = o + 12 + m /\ o + 12 + m <= Len(ZoneReply(z))
      /\ AnswerByte(z, o + 2) = 0 /\ AnswerByte(z, o + 3) = a.type
      /\ AnswerByte(z, o + 10) = 0 /\ AnswerByte(z, o + 11) = m
      /\ a.type = 15 => m > 3
    BY RecordLayout
<1>5. /\ c \in Nat /\ sp[c + 1] = <<a.type>> /\ sp[c + 2] = a.data
      /\ a.type \notin {5, 15} => ItemAt(z, j + 1) = c + 2
      /\ c + 1 <= Len(sp) /\ c + 2 <= Len(sp)
    <2> DEFINE e == IF a.type \in {5, 15} THEN l ELSE 0
               b == ItemAt(z, j)
               b2 == ItemAt(z, j + 1)
    <2>1. /\ b \in Nat /\ l \in Nat /\ b2 = b + l + 2 + e /\ b2 <= Len(sp)
          /\ sp[b + l + 1] = <<a.type>> /\ sp[b + l + 2] = a.data
        BY RecordItems
    <2>2. e \in Nat /\ (a.type \notin {5, 15} => e = 0) /\ Len(sp) \in Nat
        BY <2>1, ItemLayout
    <2> HIDE DEF e, b, b2, sp, l
    <2>3. c = b + l
        BY DEF b
    <2>4. c \in Nat /\ b2 = c + 2 + e /\ c + 1 <= Len(sp) /\ c + 2 <= Len(sp)
        <3> HIDE DEF c
        <3> QED BY <2>1, <2>2, <2>3
    <2>5. ASSUME a.type \notin {5, 15} PROVE b2 = c + 2
        <3> HIDE DEF c
        <3> QED BY <2>2, <2>4, <2>5
    <2> QED BY <2>1, <2>3, <2>4, <2>5 DEF b2
<1>6. a.type \in {1, 5, 15, 16, 28}
    <2>1. j + 1 \in 1 .. Len(z.answers)
        BY <1>2
    <2> QED BY <2>1, RecordDataFacts
<1>7. pos = o + 2 /\ Shown(z, c)
    BY <1>3
<1>8. /\ o + 12 <= n => Number(pos) = a.type /\ Number(pos + 8) = m
    <2> SUFFICES ASSUME o + 12 <= n PROVE Number(pos) = a.type /\ Number(pos + 8) = m
        OBVIOUS
    <2>1. /\ pos \in Nat /\ pos + 2 <= n /\ pos + 1 = o + 3
          /\ pos + 8 = o + 10 /\ pos + 8 \in Nat /\ (pos + 8) + 2 <= n /\ (pos + 8) + 1 = o + 11
        <3>1. o \in Nat /\ n \in Nat /\ pos = o + 2 /\ o + 12 <= n
            BY <1>2, <1>4, <1>7
        <3> HIDE DEF o
        <3> QED BY ONLY <3>1
    <2>2. a.type \in Nat
        <3> HIDE DEF a
        <3> QED BY ONLY <1>6
    <2>3. AnswerByte(z, pos) = 0 /\ AnswerByte(z, pos + 1) = a.type
          /\ AnswerByte(z, pos + 8) = 0 /\ AnswerByte(z, (pos + 8) + 1) = m
        BY ONLY <1>4, <1>7, <2>1
    <2>4. \A p \in Nat : p + 2 <= n /\ AnswerByte(z, p) = 0 /\ AnswerByte(z, p + 1) \in Nat =>
             Number(p) = AnswerByte(z, p + 1)
        BY NumbersRead
    <2> HIDE DEF a, o, m
    <2> QED BY ONLY <1>4, <2>1, <2>2, <2>3, <2>4
<1> HIDE DEF c, next, l, sp
<1>9. CASE o + 12 + m > n
    <2>1. pos + 10 > n \/ pos + 10 + Number(pos + 8) > n
        <3>1. /\ o \in Nat /\ m \in Nat /\ n \in Nat /\ pos = o + 2 /\ o + 12 + m > n
              /\ o + 12 <= n => Number(pos + 8) = m
            BY <1>2, <1>4, <1>7, <1>8, <1>9
        <3> HIDE DEF o, m
        <3>2. CASE o + 12 <= n
            BY ONLY <3>1, <3>2
        <3>3. CASE ~ (o + 12 <= n)
            BY ONLY <3>1, <3>3
        <3> QED BY <3>2, <3>3
    <2>2. EndOfMessage
        BY <1>2, <2>1 DEF RecordFields
    <2>3. n < Len(ZoneReply(z))
        BY <1>2, <1>4, <1>9
    <2> QED BY <1>1, <1>7, <2>2, <2>3, CutIsNoticed
<1>10. CASE ~ (o + 12 + m > n)
    <2>1. o + 12 + m <= n /\ o + 12 <= n /\ pos + 10 = o + 12
        <3>1. o \in Nat /\ m \in Nat /\ n \in Nat /\ pos = o + 2
            BY <1>2, <1>4, <1>7
        <3> HIDE DEF o, m
        <3> QED BY ONLY <1>10, <3>1
    <2>2. Number(pos) = a.type /\ Number(pos + 8) = m
        BY <1>8, <2>1
    <2>3. ~ (pos + 10 > End \/ pos + 10 + Number(pos + 8) > End)
        <3>1. o \in Nat /\ m \in Nat /\ n \in Nat /\ End = n
            BY <1>2, <1>4
        <3> HIDE DEF o, m
        <3>2. ~ (o + 12 > n \/ o + 12 + m > n)
            BY ONLY <2>1, <3>1
        <3>3. pos + 10 = o + 12 /\ Number(pos + 8) = m
            BY <2>1, <2>2
        <3> QED BY ONLY <3>1, <3>2, <3>3, Zenon
    <2>4. /\ a.type \in {1, 28} => SubSeq(msg, o + 12 + 1, o + 12 + m) = a.data
          /\ a.type = 16 => UpToZero(SubSeq(msg, o + 12 + 2, o + 12 + m)) = a.data
          /\ a.type = 16 => m # 0
          /\ a.type = 1 => m = 4
          /\ a.type = 28 => m = 16
        <3>1. RecordAt(z, j + 1) <= n
            BY <1>4, <2>1 DEF next
        <3>2. z \in Zone /\ n \in 0 .. Len(ZoneReply(z)) /\ msg = SubSeq(ZoneReply(z), 1, n)
              /\ j \in 0 .. Len(z.answers) - 1
            OBVIOUS
        <3> QED BY ONLY <3>1, <3>2, DataRead
    <2> DEFINE shown == CASE (a.type = 1 /\ m = 4) \/ (a.type = 28 /\ m = 16) -> <<SubSeq(msg, o + 12 + 1, o + 12 + m)>>
                          [] a.type = 16 -> <<UpToZero(SubSeq(msg, o + 12 + 2, o + 12 + m))>>
                          [] OTHER -> <<>>
    <2>5. /\ items' = items \o <<<<a.type>>>> \o shown
          /\ outside' = (outside \/ (a.type = 16 /\ m = 0))
          /\ IF a.type = 5 \/ (a.type = 15 /\ m > 3)
             THEN /\ dns' = "name" /\ rest' = o + 12 + m /\ back' = 0 /\ depth' = 0
                  /\ at' = IF a.type = 5 THEN o + 12 ELSE o + 12 + 2
                  /\ UNCHANGED pos
             ELSE dns' = "record" /\ pos' = o + 12 + m /\ UNCHANGED <<rest, back, depth, at>>
          /\ UNCHANGED <<dnsCode, record>>
        <3> HIDE DEF a, o, m
        <3>1. /\ Number(pos) = a.type /\ Number(pos + 8) = m /\ pos + 10 = o + 12
            BY <2>1, <2>2
        <3> QED BY <2>3, <3>1, Zenon DEF RecordFields
    <2>6. ~ outside'
        BY <1>1, <2>4, <2>5
    <2> HIDE DEF a, o, m
    <2>7. CASE a.type \in {5, 15}
        <3>1. shown = <<>>
            BY <2>7
        <3>2. Shown(z, c + 1)'
            <4>1. items' = items \o <<sp[c + 1]>> \o <<>>
                BY <1>5, <2>5, <3>1
            <4>2. c + 1 <= Len(sp)
                BY <1>5
            <4> HIDE DEF shown
            <4> QED BY ONLY <1>7, <4>1, <4>2, LinkedShown DEF sp
        <3>3. /\ dns' = "name" /\ rest' = o + 12 + m /\ back' = 0 /\ depth' = 0
              /\ at' = (IF a.type = 5 THEN o + 12 ELSE o + 12 + 2) /\ UNCHANGED <<pos, record>>
            BY <1>4, <2>5, <2>7
        <3>4. at' = LabelAt(z, j)
            <4>1. LabelAt(z, j) = o + 12 + Shift(a)
                BY DEF LabelAt, o, a
            <4>2. CASE a.type = 5
                BY <1>4, <3>3, <4>1, <4>2 DEF Shift
            <4>3. CASE a.type = 15
                BY <1>4, <3>3, <4>1, <4>3 DEF Shift
            <4> QED BY <2>7, <4>2, <4>3
        <3>5. InData(z, j)'
            <4>1. record' = j + 2 /\ rest' = RecordAt(z, j + 1) /\ z.answers[j + 1].type \in {5, 15}
                BY <1>3, <1>4, <2>7, <3>3 DEF a, next
            <4>2. Shown(z, (ItemAt(z, j) + Len(z.name) + 2) - 1)'
                <5>1. (ItemAt(z, j) + Len(z.name) + 2) - 1 = c + 1
                    <6>1. c = ItemAt(z, j) + Len(z.name)
                        BY DEF c, l
                    <6>2. c \in Nat
                        BY <1>5
                    <6>3. c + 1 = (c + 2) - 1
                        BY ONLY <6>2
                    <6> QED BY ONLY <6>1, <6>3
                <5> QED BY ONLY <3>2, <5>1, Zenon
            <4>3. back' = 0 /\ depth' = 0
                BY <3>3
            <4> QED BY ONLY <3>4, <4>1, <4>2, <4>3, Zenon DEF InData
        <3>6. Inside(n)'
            BY <1>1, <1>2, <2>1, <3>3 DEF Inside
        <3> QED BY <1>1, <2>6, <3>3, <3>5, <3>6 DEF Printing, InName
    <2>8. CASE a.type \notin {5, 15}
        <3>1. shown = <<a.data>>
            <4>1. CASE a.type = 16
                BY <2>4, <4>1
            <4>2. CASE a.type \in {1, 28}
                BY <2>4, <4>2
            <4> QED BY <1>6, <2>8, <4>1, <4>2
        <3>2. Shown(z, c + 2)'
            <4>1. items' = items \o <<sp[c + 1]>> \o <<sp[c + 2]>>
                BY <1>5, <2>5, <3>1
            <4>2. c + 1 <= Len(sp) /\ c + 2 <= Len(sp)
                BY <1>5
            <4> HIDE DEF shown
            <4> QED BY ONLY <1>7, <4>1, <4>2, LinkedShown DEF sp
        <3>3. dns' = "record" /\ pos' = next /\ pos' <= n /\ UNCHANGED <<rest, back, record>>
            BY <1>4, <2>1, <2>5, <2>8
        <3>4. BetweenRecords(z)'
            <4>1. record' = (j + 1) + 1 /\ j + 1 \in 0 .. Len(z.answers)
                BY <1>2, <1>3, <3>3
            <4>2. Shown(z, ItemAt(z, j + 1))'
                BY <1>5, <2>8, <3>2
            <4> QED BY <3>3, <4>1, <4>2 DEF BetweenRecords, next
        <3>5. Inside(n)'
            BY <1>1, <3>3 DEF Inside
        <3> QED BY <1>1, <2>6, <3>4, <3>5 DEF Printing
    <2> QED BY <2>7, <2>8
<1> QED BY <1>9, <1>10

-----------------------------------------------------------------------------
(* The whole program: the query is printed, then an answer. *)

LEMMA QueryNumbers ==
    ASSUME NEW host \in Hosts, NEW type \in Types, msg = Query(host, type)
    PROVE  Questions = 1 /\ Records = 0
<1> DEFINE h == <<171, 205, 1, 0, 0, 1, 0, 0, 0, 0, 0, 0>>
           w == Wire(host)
           q == <<0, 0, type, 0, 1>>
<1>1. h \in Seq(Bytes) /\ Len(h) = 12
      /\ h[5] = 0 /\ h[6] = 1 /\ h[7] = 0 /\ h[8] = 0 /\ h[9] = 0 /\ h[10] = 0 /\ h[11] = 0 /\ h[12] = 0
    BY DEF Bytes
<1>2. w \in Seq(Bytes)
    <2>1. host \in Seq(Seq(Bytes)) /\ \A k \in 1 .. Len(host) : Len(host[k]) <= 253
        BY DnsAssumption
    <2>2. \A k \in 1 .. Len(host) : Len(host[k]) \in Nat
        BY <2>1, LenProperties, ElementOfSeq
    <2>3. \A k \in 1 .. Len(host) : Len(host[k]) <= 255
        BY <2>1, <2>2
    <2> QED BY <2>1, <2>3, WirePartsFacts
<1>3. q \in Seq(Bytes)
    BY DnsAssumption DEF Bytes
<1>4. msg = h \o w \o q
    BY DEF Query
<1> HIDE DEF h, w, q
<1>5. ASSUME NEW i \in 1 .. 12 PROVE msg[i] = h[i]
    <2> DEFINE first == h \o w
    <2>1. first \in Seq(Bytes) /\ Len(first) = 12 + Len(w) /\ Len(w) \in Nat /\ first[i] = h[i]
        <3>1. h \in Seq(Bytes) /\ w \in Seq(Bytes)
            BY <1>1, <1>2
        <3>2. /\ h \o w \in Seq(Bytes) /\ Len(h \o w) = Len(h) + Len(w) /\ Len(w) \in Nat
              /\ \A k \in 1 .. Len(h) : (h \o w)[k] = h[k]
            BY ONLY <3>1, ConcatAt
        <3>3. first = h \o w /\ Len(h) = 12
            BY <1>1
        <3> HIDE DEF first
        <3> QED BY ONLY <1>5, <3>2, <3>3
    <2>2. i \in 1 .. Len(first)
        BY ONLY <1>5, <2>1
    <2>3. (first \o q)[i] = first[i]
        <3>1. first \in Seq(Bytes) /\ q \in Seq(Bytes)
            BY <1>3, <2>1
        <3> HIDE DEF first
        <3> QED BY ONLY <2>2, <3>1, ConcatAt
    <2> QED BY <1>4, <2>1, <2>3
<1>6. /\ Byte(4) = 0 /\ Byte(5) = 1 /\ Byte(6) = 0 /\ Byte(7) = 0
      /\ Byte(8) = 0 /\ Byte(9) = 0 /\ Byte(10) = 0 /\ Byte(11) = 0
    <2>1. \A i \in 4 .. 11 : i + 1 \in 1 .. 12
        OBVIOUS
    <2>2. \A i \in 4 .. 11 : Byte(i) = h[i + 1]
        BY ONLY <1>5, <2>1 DEF Byte
    <2> QED BY ONLY <1>1, <2>2
<1> QED BY ONLY <1>6 DEF Questions, Records, Number

\* While the query is printed, no record begins and nothing behind it is read.
LEMMA AskingStep ==
    ASSUME ~ isReply, Asking, DnsStart \/ NextRecord \/ PrintName \/ QuestionFields \/ RecordFields
    PROVE  ~ isReply' /\ Asking'
<1>0. answered = <<>> /\ rest = 0 /\ ~ outside
    BY DEF Asking
<1>1. ASSUME dns \in {"record", "name", "fields"}
      PROVE  record \in {0, 1} /\ Questions = 1 /\ Records = 0
             /\ \E host \in Hosts : \E type \in Types : msg = Query(host, type)
    <2>1. record \in {0, 1} /\ \E host \in Hosts : \E type \in Types : msg = Query(host, type)
        BY <1>1 DEF Asking
    <2> QED BY <2>1, QueryNumbers
<1>2. CASE DnsStart
    <2>1. UNCHANGED <<isReply, answered, rest, outside>>
        BY <1>2 DEF DnsStart, PrintMessage
    <2>2. ASSUME dns' \in {"record", "name", "fields"}
          PROVE  record' \in {0, 1} /\ \E host \in Hosts : \E type \in Types : msg' = Query(host, type)
        <3>1. \E host \in Hosts, type \in Types : PrintMessage(Query(host, type))
            BY <1>2, <2>2 DEF DnsStart, DnsExit
        <3>2. PICK host \in Hosts, type \in Types : PrintMessage(Query(host, type))
            BY <3>1
        <3>3. record' = 0 /\ msg' = Query(host, type)
            BY <3>2 DEF PrintMessage
        <3> QED BY <3>3
    <2> QED BY <1>0, <2>1, <2>2 DEF Asking
<1>3. CASE NextRecord
    <2>1. dns = "record" /\ UNCHANGED <<msg, isReply, answered, outside>> /\ rest' = 0
        BY <1>0, <1>3 DEF NextRecord, EndOfMessage, DnsExit
    <2>2. record' \in {0, 1}
        <3>1. record \in {0, 1} /\ Questions = 1 /\ Records = 0
            BY <1>1, <2>1
        <3>2. CASE record = 1
            BY <1>3, <3>1, <3>2 DEF NextRecord
        <3>3. CASE record = 0
            BY <1>3, <3>1, <3>3 DEF NextRecord, EndOfMessage
        <3> QED BY <3>1, <3>2, <3>3
    <2> QED BY <1>0, <1>1, <2>1, <2>2 DEF Asking
<1>4. CASE PrintName
    <2>1. dns = "name" /\ UNCHANGED <<msg, isReply, answered, outside, rest, record>>
        BY <1>4 DEF PrintName, EndOfMessage
    <2> QED BY <1>0, <1>1, <2>1 DEF Asking
<1>5. CASE QuestionFields
    <2>1. dns = "fields" /\ UNCHANGED <<msg, isReply, answered, outside, rest, record>>
        BY <1>5 DEF QuestionFields, EndOfMessage
    <2> QED BY <1>0, <1>1, <2>1 DEF Asking
<1>6. CASE RecordFields
    <2>1. dns = "fields" /\ record > Questions
        BY <1>6 DEF RecordFields
    <2> QED BY <1>1, <2>1
<1> QED BY <1>2, <1>3, <1>4, <1>5, <1>6

\* An answer of the name server is received, all of it or its first bytes.
LEMMA AnswerReceived ==
    ASSUME NEW z \in Zone, NEW n \in 0 .. Len(ZoneReply(z)), rest = 0, ~ outside,
           PrintMessage(SubSeq(ZoneReply(z), 1, n))
    PROVE  msg' = SubSeq(ZoneReply(z), 1, n) /\ Printing(z, n)'
<1> DEFINE M == ZoneReply(z)
           m == SubSeq(M, 1, n)
<1>1. /\ msg' = m /\ record' = 0 /\ pos' = 12 /\ items' = <<>>
      /\ IF Len(m) < 12 THEN DnsExit(1)
         ELSE IF m[3] >= 128 /\ m[4] % 16 # 0 THEN DnsExit(0)
         ELSE dns' = "record" /\ UNCHANGED dnsCode
      /\ UNCHANGED <<rest, outside>>
    BY DEF PrintMessage
<1>2. /\ M \in Seq(Bytes) /\ Len(M) \in Nat /\ M[2 + 1] = 129 /\ M[3 + 1] = 128
    BY QuestionLayout DEF AnswerByte
<1>3. 12 < Len(M)
    <2>1. 0 \in 0 .. Len(z.name) - 1
        BY ZoneSizes
    <2>2. HasLabel(z, NameAt(z, 0), z.name[0 + 1]) /\ NameAt(z, 0) = 12
        BY <2>1, QuestionLayout
    <2>3. 12 + 2 + Len(z.name[0 + 1]) <= Len(M) /\ Len(z.name[0 + 1]) \in 1 .. 191
        BY <2>2 DEF HasLabel
    <2> QED BY <1>2, <2>3
<1>4. Len(m) = n /\ n \in Nat /\ \A k \in 1 .. n : m[k] = M[k]
    BY <1>2, BeginningFacts
<1>5. Shown(z, 0)' /\ 0 \in 0 .. Len(ShouldPrint(z))
    <2>1. ShouldPrint(z) \in Seq(Seq(Bytes)) /\ Len(ShouldPrint(z)) \in Nat
        BY ItemLayout
    <2>2. SubSeq(ShouldPrint(z), 1, 0) = <<>>
        BY <2>1, SubSeqEmpty
    <2> QED BY <1>1, <2>1, <2>2 DEF Shown
<1> HIDE DEF M, m
<1>6. CASE n < 12
    <2>1. dns' = "exited" /\ dnsCode' = 1
        BY <1>1, <1>4, <1>6 DEF DnsExit
    <2>2. ~ (n >= 12) /\ n # Len(M)
        BY <1>2, <1>3, <1>4, <1>6
    <2>3. AtTheEnd(z, n)'
        BY <1>5, <2>1, <2>2, Zenon DEF AtTheEnd, M
    <2> QED BY <1>1, <2>3 DEF Printing, M, m
<1>7. CASE ~ (n < 12)
    <2>1. m[3] = 129 /\ m[4] = 128
        <3>1. 3 \in 1 .. n /\ 4 \in 1 .. n /\ 2 + 1 = 3 /\ 3 + 1 = 4
            BY <1>4, <1>7
        <3> QED BY ONLY <1>2, <1>4, <3>1
    <2>2. ~ (m[4] % 16 # 0)
        BY ONLY <2>1
    <2>3. dns' = "record"
        BY <1>1, <1>4, <1>7, <2>2
    <2>4. BetweenRecords(z)'
        BY <1>1, <1>5, <2>3 DEF BetweenRecords
    <2>5. Inside(n)' /\ n >= 12
        BY <1>1, <1>4, <1>7, <2>3 DEF Inside
    <2> QED BY <1>1, <2>4, <2>5 DEF Printing, M, m
<1> QED BY <1>6, <1>7

LEMMA DnsInvStep == DnsTypeOK /\ DnsInv /\ [DnsNext]_dnsVars => DnsInv'
<1> SUFFICES ASSUME DnsTypeOK, DnsInv, [DnsNext]_dnsVars PROVE DnsInv'
    OBVIOUS
<1>0. isReply \in BOOLEAN /\ pos \in Nat
    BY DEF DnsTypeOK
<1>1. CASE ~ isReply /\ Asking
    <2>1. CASE ReceiveReply
        <3>1. isReply' = TRUE /\ dns = "wait" /\ answered = <<>> /\ rest = 0 /\ ~ outside
            BY <1>1, <2>1 DEF ReceiveReply, Asking
        <3>2. ASSUME NEW z \in Zone, NEW n \in 0 .. Len(ZoneReply(z)),
                     PrintMessage(SubSeq(ZoneReply(z), 1, n)), answered' = <<z, n>>
              PROVE  DnsInv'
            <4>1. msg' = SubSeq(ZoneReply(z), 1, n) /\ Printing(z, n)'
                BY <3>1, <3>2, AnswerReceived
            <4> QED BY <3>1, <3>2, <4>1 DEF DnsInv
        <3>3. ASSUME NEW m \in Strange, PrintMessage(m), UNCHANGED answered
              PROVE  DnsInv'
            <4>1. dns' \in {"exited", "record"}
                BY <3>3 DEF PrintMessage, DnsExit
            <4> QED BY <3>1, <3>3, <4>1 DEF DnsInv
        <3> QED BY <2>1, <3>2, <3>3 DEF ReceiveReply
    <2>2. CASE DnsStart \/ NextRecord \/ PrintName \/ QuestionFields \/ RecordFields
        BY <1>1, <2>2, AskingStep DEF DnsInv
    <2>3. CASE UNCHANGED dnsVars
        BY <1>1, <2>3 DEF DnsInv, Asking, dnsVars
    <2> QED BY <2>1, <2>2, <2>3 DEF DnsNext
<1>2. CASE isReply /\ answered = <<>> /\ dns # "wait"
    <2>1. UNCHANGED <<isReply, answered>> /\ dns' # "wait"
        <3>1. CASE DnsStart
            BY <1>2, <3>1 DEF DnsStart, PrintMessage, DnsExit
        <3>2. CASE NextRecord
            BY <1>2, <3>2 DEF NextRecord, EndOfMessage, DnsExit
        <3>3. CASE PrintName
            BY <1>2, <3>3 DEF PrintName, EndOfMessage, DnsExit
        <3>4. CASE QuestionFields
            BY <1>2, <3>4 DEF QuestionFields, EndOfMessage, DnsExit
        <3>5. CASE RecordFields
            BY <1>2, <3>5 DEF RecordFields, EndOfMessage, DnsExit
        <3>6. CASE ReceiveReply
            BY <1>2, <3>6 DEF ReceiveReply
        <3>7. CASE UNCHANGED dnsVars
            BY <1>2, <3>7 DEF dnsVars
        <3> QED BY <3>1, <3>2, <3>3, <3>4, <3>5, <3>6, <3>7 DEF DnsNext
    <2> QED BY <1>2, <2>1 DEF DnsInv
<1>3. ASSUME isReply, NEW z \in Zone, NEW n \in 0 .. Len(ZoneReply(z)),
             answered = <<z, n>>, msg = SubSeq(ZoneReply(z), 1, n), Printing(z, n)
      PROVE  DnsInv'
    <2>1. dns \in {"record", "name", "fields", "exited"}
        BY <1>3 DEF Printing, BetweenRecords, InName, BehindName, AtTheEnd
    <2>2. UNCHANGED <<msg, isReply, answered>> /\ Printing(z, n)'
        <3>1. CASE DnsStart
            BY <2>1, <3>1 DEF DnsStart
        <3>2. CASE NextRecord
            <4>1. UNCHANGED <<msg, isReply, answered>>
                BY <3>2 DEF NextRecord
            <4> QED BY <1>3, <3>2, <4>1, NextRecordPrints
        <3>3. CASE PrintName
            <4>1. UNCHANGED <<msg, isReply, answered>>
                BY <3>3 DEF PrintName
            <4> QED BY <1>0, <1>3, <3>3, <4>1, PrintNamePrints
        <3>4. CASE QuestionFields
            <4>1. UNCHANGED <<msg, isReply, answered>>
                BY <3>4 DEF QuestionFields
            <4> QED BY <1>3, <3>4, <4>1, QuestionFieldsPrints
        <3>5. CASE RecordFields
            <4>1. UNCHANGED <<msg, isReply, answered>>
                BY <3>5 DEF RecordFields
            <4> QED BY <1>3, <3>5, <4>1, RecordFieldsPrints
        <3>6. CASE ReceiveReply
            BY <2>1, <3>6 DEF ReceiveReply
        <3>7. CASE UNCHANGED dnsVars
            BY <1>3, <3>7 DEF dnsVars, Printing, Inside, BetweenRecords, InName, InQuestion, InOwner, InData,
                              BehindName, AtTheEnd, Walking, Shown
        <3> QED BY <3>1, <3>2, <3>3, <3>4, <3>5, <3>6, <3>7 DEF DnsNext
    <2> QED BY <1>3, <2>2 DEF DnsInv
<1> QED BY <1>1, <1>2, <1>3 DEF DnsInv

LEMMA DnsInvPrints == DnsInv => NamesArePrinted
<1> SUFFICES ASSUME DnsInv, answered # <<>> PROVE NamesArePrinted
    BY DEF NamesArePrinted
<1>0. PICK z \in Zone : \E n \in 0 .. Len(ZoneReply(z)) :
         answered = <<z, n>> /\ msg = SubSeq(ZoneReply(z), 1, n) /\ Printing(z, n)
    BY DEF DnsInv, Asking
<1>1. PICK n \in 0 .. Len(ZoneReply(z)) :
         answered = <<z, n>> /\ msg = SubSeq(ZoneReply(z), 1, n) /\ Printing(z, n)
    BY <1>0
<1>2. End = n /\ n \in Nat
    BY <1>1, MessageBytes
<1>3. \E c : Shown(z, c)
    BY <1>1 DEF Printing, BetweenRecords, InName, InQuestion, InOwner, InData, BehindName, AtTheEnd, Walking
<1>4. IsPrefix(items, ShouldPrint(z))
    <2>1. PICK c : Shown(z, c)
        BY <1>3
    <2> DEFINE sp == ShouldPrint(z)
    <2>2. sp \in Seq(Seq(Bytes)) /\ c \in 0 .. Len(sp) /\ items = SubSeq(sp, 1, c)
        BY <2>1, ItemLayout DEF Shown
    <2> HIDE DEF sp
    <2>3. items \in Seq(Seq(Bytes)) /\ Len(items) = c /\ Len(sp) \in Nat
        BY ONLY <2>2, BeginningFacts
    <2>4. SubSeq(items, 1, Len(items)) = items
        BY ONLY <2>3, SubSeqFull
    <2>5. Len(items) <= Len(sp)
        BY ONLY <2>2, <2>3
    <2>6. SubSeq(items, 1, Len(items)) = SubSeq(sp, 1, Len(items))
        BY ONLY <2>2, <2>3, <2>4
    <2> QED BY ONLY <2>5, <2>6, Zenon DEF IsPrefix, sp
<1>5. dns \notin {"crashed", "hung"} /\ ~ outside /\ (n >= 12 => pos <= n /\ rest <= n)
    BY <1>1 DEF Printing, BetweenRecords, InName, BehindName, AtTheEnd, Inside
<1>6. ASSUME dns = "exited"
      PROVE  IF n = Len(ZoneReply(z)) THEN dnsCode = 0 /\ items = ShouldPrint(z) /\ pos = n ELSE dnsCode = 1
    <2>1. AtTheEnd(z, n)
        BY <1>1, <1>6 DEF Printing, BetweenRecords, InName, BehindName
    <2> QED BY <2>1 DEF AtTheEnd
<1>7. answered[1] = z /\ answered[2] = n
    BY <1>1
<1> QED BY ONLY <1>2, <1>4, <1>5, <1>6, <1>7, Zenon DEF NamesArePrinted

\* Printing an answer in which the owners of the records are pointers to the question's
\* name, and names in the data a label and that pointer, prints what it says: print_name
\* follows the pointers and print_dns_message goes on behind the right byte, for every
\* name and text without a zero byte, every list of records of the known types and
\* every cut of the answer.
THEOREM DnsNamesArePrinted == Spec => []NamesArePrinted
<1> DEFINE Inv == DnsTypeOK /\ DnsInv
<1>1. Init => Inv
    <2>1. DnsInit => DnsInv
        BY DEF DnsInit, DnsInv, Asking
    <2> QED BY <2>1, DnsInitTypes DEF Init
<1>2. Inv /\ [Next]_<<tool, udpVars, timeVars, dnsVars, wcVars>> => Inv'
    <2> SUFFICES ASSUME Inv, [Next]_<<tool, udpVars, timeVars, dnsVars, wcVars>> PROVE Inv'
        OBVIOUS
    <2>1. [DnsNext]_dnsVars
        BY DEF Next
    <2> QED BY <2>1, DnsTypeStep, DnsInvStep
<1>3. Inv => NamesArePrinted
    BY DnsInvPrints
<1> QED BY <1>1, <1>2, <1>3, PTL DEF Spec

-----------------------------------------------------------------------------
\* Every variable of the small services keeps its type, whichever of them runs: the
\* code behind the steps of ccwc.c, of the UDP programs, of the time servers, whose
\* clients receive the parts of the answer in order, and of dns_query.c, whose printer
\* stays inside the message it was given.
THEOREM ServicesType == Spec => []ServicesTypeOK
<1> DEFINE Inv == UdpTypeOK /\ TimeInv /\ DnsTypeOK /\ WcTypeInv
<1>1. Init => Inv
    BY UdpInitTypes, TimeInitInv, DnsInitTypes, WcInitTypes DEF Init
<1>2. Inv /\ [Next]_<<tool, udpVars, timeVars, dnsVars, wcVars>> => Inv'
    <2> SUFFICES ASSUME Inv, [Next]_<<tool, udpVars, timeVars, dnsVars, wcVars>> PROVE Inv'
        OBVIOUS
    <2>1. [UdpNext]_udpVars /\ [TimeNext]_timeVars /\ [DnsNext]_dnsVars /\ [CcwcNext]_wcVars
        BY DEF Next
    <2> QED BY <2>1, UdpTypeStep, TimeStep, DnsTypeStep, WcTypeStep
<1>3. Inv => ServicesTypeOK
    BY TimeInvTypes, WcInvTypes DEF ServicesTypeOK
<1> QED BY <1>1, <1>2, <1>3, PTL DEF Spec

=============================================================================

