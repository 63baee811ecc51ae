---------------------------- MODULE ClientProofs ----------------------------
(***************************************************************************)
(* The order of the steps of the mail client and of the SSH tools, for any *)
(* input, any replies and any pieces in which they arrive; and the types   *)
(* of all three client programs.                                           *)
(***************************************************************************)
EXTENDS MCClients, WebGetProofs

\* What the client has of a reply, and what is under way, are one reply or none.
SmtpInv ==
    /\ reply \in Seq(STRING) /\ replies \in Seq(STRING)
    /\ step \in 1 .. 7
    /\ smtp \in {"off", "body", "finished"} => ~ owes
    /\ smtp = "off" => reply \o replies = <<>>
    /\ InStep
    /\ reply \o replies # <<>> =>
          \E k \in 1 .. 7 : \E r \in Replies[Expecting[k]] : reply \o replies = r

\* Nothing is received at the start.
LEMMA SmtpInitInv == SmtpInit => SmtpInv
BY DEF SmtpInit, SmtpInv, InStep

\* A piece moved from what is under way to what is received.
LEMMA Pieces ==
    ASSUME NEW p \in Seq(STRING), NEW q \in Seq(STRING), NEW n \in 1 .. Len(q)
    PROVE  LET t == p \o SubSeq(q, 1, n)
               u == SubSeq(q, n + 1, Len(q))
           IN  /\ t \in Seq(STRING) /\ u \in Seq(STRING) /\ t \o u = p \o q
               /\ p \o q # <<>>
               /\ Len(t) = Len(p) + n
               /\ t = SubSeq(p \o q, 1, Len(t))
               /\ Len(p \o q) = Len(p) + Len(q)
               /\ n = Len(q) => u = <<>>
<1> DEFINE t == SubSeq(q, 1, n)
           u == SubSeq(q, n + 1, Len(q))
<1>1. Len(p) \in Nat /\ Len(q) \in Nat /\ n \in Nat /\ n >= 1 /\ n <= Len(q)
    BY LenProperties
<1>2. \A k \in 1 .. Len(q) : q[k] \in STRING
    BY ElementOfSeq
<1>3. t \in Seq(STRING) /\ Len(t) = n
    BY <1>1, <1>2, SubSeqProperties
<1>4. u \in Seq(STRING)
    BY <1>1, <1>2, SubSeqProperties
<1>5. t \o u = q
    <2>1. SubSeq(q, 1, n) \o SubSeq(q, n + 1, Len(q)) = SubSeq(q, 1, Len(q))
        BY <1>1, ConcatAdjacentSubSeq
    <2> QED BY <2>1, SubSeqFull
<1>6. n = Len(q) => u = <<>>
    BY <1>1, SubSeqEmpty
<1> HIDE DEF t, u
<1>7. (p \o t) \o u = p \o q
    <2>1. (p \o t) \o u = p \o (t \o u)
        BY <1>3, <1>4, ConcatAssociative, SMTT(20)
    <2> QED BY <1>5, <2>1
<1>8. p \o t \in Seq(STRING) /\ Len(p \o t) = Len(p) + n
    BY <1>3, ConcatProperties
<1>9. p \o t = SubSeq((p \o t) \o u, 1, Len(p \o t))
    BY <1>4, <1>8, FirstIsPrefix
<1>10. Len(p \o q) = Len(p) + Len(q) /\ p \o q # <<>>
    <2>1. Len(p \o q) = Len(p) + Len(q)
        BY ConcatProperties
    <2> QED BY <1>1, <2>1
<1> QED BY <1>4, <1>6, <1>7, <1>8, <1>9, <1>10 DEF t, u

\* Every step keeps the invariant: a reply is parsed to a code only when all of it
\* has arrived.
LEMMA SmtpNextInv == SmtpInv /\ [SmtpNext]_smtpVars => SmtpInv'
<1> SUFFICES ASSUME SmtpInv, [SmtpNext]_smtpVars PROVE SmtpInv'
    OBVIOUS
<1> USE DEF SmtpInv
<1>1. CASE SmtpConnect
    BY <1>1 DEF SmtpConnect, InStep
<1>2. CASE WaitOnResponse
    <2>1. PICK n \in 1 .. Min({Len(replies), MAXRESPONSE - Len(reply)}) :
            LET parsed == reply \o SubSeq(replies, 1, n)
                code == ParseResponse(parsed)
            IN  /\ replies' = SubSeq(replies, n + 1, Len(replies))
                /\ \/ smtp' = "failed" /\ reply' = parsed /\ UNCHANGED <<step, owes>>
                   \/ reply' = parsed /\ UNCHANGED <<smtp, step, owes>>
                   \/ code = Expecting[step] /\ NextCommand
        BY <1>2 DEF WaitOnResponse
    <2>2. n \in 1 .. Len(replies)
        <3>1. Len(replies) \in Int /\ MAXRESPONSE - Len(reply) \in Int
            BY LenProperties, SmtpAssumption
        <3>2. /\ Min({Len(replies), MAXRESPONSE - Len(reply)}) \in Int
              /\ Min({Len(replies), MAXRESPONSE - Len(reply)}) <= Len(replies)
            BY <3>1, MinOfTwo
        <3> QED BY <3>1, <3>2
    <2> DEFINE parsed == reply \o SubSeq(replies, 1, n)
               rest == SubSeq(replies, n + 1, Len(replies))
    <2>3. /\ parsed \in Seq(STRING) /\ rest \in Seq(STRING)
          /\ parsed \o rest = reply \o replies /\ reply \o replies # <<>>
          /\ Len(parsed) = Len(reply) + n
          /\ parsed = SubSeq(reply \o replies, 1, Len(parsed))
          /\ Len(reply \o replies) = Len(reply) + Len(replies)
          /\ n = Len(replies) => rest = <<>>
        BY <2>2, Pieces
    <2>4. ~ owes /\ smtp = "wait"
        BY <1>2, <2>3 DEF InStep, WaitOnResponse
    <2>5. ParseResponse(parsed) # "none" => rest = <<>>
        <3>1. SUFFICES ASSUME n < Len(replies)
                       PROVE  ParseResponse(parsed) = "none"
            BY <2>2, <2>3, LenProperties
        <3>2. PICK k \in 1 .. 7 : \E r \in Replies[Expecting[k]] : reply \o replies = r
            BY <2>3
        <3>3. Len(parsed) \in 0 .. Len(reply \o replies) - 1
            BY <2>2, <2>3, <3>1, LenProperties
        <3>4. \A line \in LineStarts(parsed) : parsed[line + 1] = "-"
            <4>1. PICK r \in Replies[Expecting[k]] : reply \o replies = r
                BY <3>2
            <4> DEFINE m == Len(parsed)
            <4>2. m \in 0 .. Len(r) - 1 /\ parsed = SubSeq(r, 1, m)
                BY <2>3, <3>3, <4>1
            <4> HIDE DEF m, parsed
            <4>3. \A line \in LineStarts(SubSeq(r, 1, m)) : SubSeq(r, 1, m)[line + 1] = "-"
                BY ONLY <3>2, <4>1, <4>2, ReplyAssumption
            <4> QED BY ONLY <4>2, <4>3
        <3> HIDE DEF parsed
        <3> QED BY <3>4 DEF ParseResponse
    <2>6. replies' = rest
        BY <2>1
    <2>7. CASE reply' = parsed /\ smtp' \in {"wait", "failed"} /\ step' = step /\ owes' = owes
        <3> HIDE DEF parsed, rest
        <3> QED BY <2>3, <2>4, <2>6, <2>7 DEF InStep
    <2>8. CASE ParseResponse(parsed) = Expecting[step] /\ NextCommand
        <3>1. Expecting[step] # "none"
            <4>1. step \in {1, 2, 3, 4, 5, 6, 7}
                OBVIOUS
            <4> QED BY <4>1 DEF Expecting
        <3>2. replies' = <<>> /\ reply' = <<>>
            BY <2>5, <2>6, <2>8, <3>1 DEF NextCommand
        <3>3. step' \in 1 .. 7 /\ (smtp' \in {"off", "body", "finished"} => ~ owes')
            <4>1. step' \in 1 .. 7
                BY <2>8 DEF NextCommand
            <4>2. CASE step \in {5, 7}
                <5>1. owes' = (step \notin {5, 7})
                    BY <2>8, Zenon DEF NextCommand
                <5> QED BY <4>1, <4>2, <5>1, Zenon
            <4>3. CASE step \notin {5, 7}
                <5>1. smtp' = "wait"
                    BY <2>8, <4>3 DEF NextCommand
                <5> QED BY <4>1, <5>1
            <4> QED BY <4>2, <4>3
        <3> QED BY <3>2, <3>3 DEF InStep
    <2> HIDE DEF parsed, rest
    <2> QED BY <2>1, <2>4, <2>7, <2>8 DEF parsed
<1>3. CASE SendLine
    BY <1>3 DEF SendLine, InStep
<1>4. CASE ServerLost
    BY <1>4 DEF ServerLost, InStep
<1>5. CASE MailServer
    <2>1. UNCHANGED <<smtp, step, reply>> /\ smtp \in {"wait", "body"}
        BY <1>5 DEF MailServer
    <2>2. CASE owes /\ owes' = FALSE /\ \E r \in Replies[Expecting[step]] : replies' = replies \o r
        <3>1. PICK r \in Replies[Expecting[step]] : replies' = replies \o r
            BY <2>2
        <3>2. r \in Seq(STRING)
            BY ReplyAssumption
        <3>3. reply = <<>> /\ replies = <<>>
            BY <2>2, ConcatEqualIffEmpty DEF InStep
        <3>4. reply' \o replies' = r /\ replies' = r
            BY <2>1, <3>1, <3>2, <3>3, ConcatEmptySeq
        <3> QED BY <2>1, <2>2, <3>2, <3>4 DEF InStep
    <2>3. CASE UNCHANGED <<replies, owes>>
        BY <2>1, <2>3 DEF InStep
    <2> QED BY <1>5, <2>2, <2>3 DEF MailServer
<1>6. CASE UNCHANGED smtpVars
    BY <1>6 DEF smtpVars, InStep
<1> QED BY <1>1, <1>2, <1>3, <1>4, <1>5, <1>6 DEF SmtpNext

\* smtp_send.c is never ahead of the server, whatever the replies, the message and
\* the pieces in which a reply arrives.
THEOREM SmtpInStep == SmtpSpec => []InStep
<1>1. SmtpSpec => []SmtpInv
    BY SmtpInitInv, SmtpNextInv, PTL DEF SmtpSpec
<1>2. SmtpInv => InStep
    BY DEF SmtpInv
<1> QED BY <1>1, <1>2, PTL

-----------------------------------------------------------------------------
\* The ends of the lines that are typed, how many are read at a place of the text, and
\* that every line fits in the buffer.
Newlines(text) == {k \in DOMAIN text : text[k] = "nl"}
LinesUpTo(text, place) == Cardinality({m \in Newlines(text) : m <= place})
LinesFit(text) == \A k \in DOMAIN LinesOf(text) : Len(LinesOf(text)[k]) + 1 < MAXINPUT

\* What is left of a text when n of its lines are read.
IsRest(rest, text, n) ==
    \E place \in 0 .. Len(text) :
        /\ place = 0 \/ place \in Newlines(text)
        /\ LinesUpTo(text, place) = n
        /\ rest = SubSeq(text, place + 1, Len(text))

\* How many answers main() has asked for when it waits for the reply to a command.
Answers == <<1, 1, 2, 3, 3, 4, 4>>

\* The k-th line that was read.
LineRead(k) == IF k <= Len(fields) THEN fields[k] ELSE lines[k - Len(fields)]

\* What is read of the input are its lines, one by one, and the next one begins where
\* the last one ended.
InputInv ==
    LinesFit(typed) =>
        LET count == Cardinality(Newlines(typed))
            read == Len(fields) + Len(lines)
        IN  /\ \A k \in 1 .. read : k <= count => LineRead(k) = LinesOf(typed)[k]
            /\ read <= count => IsRest(stdin, typed, read)

\* The answers come first, then the lines of the message up to the first dot.
DialogueInv ==
    /\ smtp \in {"wait", "body", "finished"} => Len(fields) = Answers[step]
    /\ smtp = "body" => step = 6
    /\ smtp = "finished" => step = 7
    /\ step < 6 => lines = <<>>
    /\ \A k \in 1 .. Len(lines) - 1 : lines[k] # <<".">>
    /\ smtp = "body" /\ lines # <<>> => lines[Len(lines)] # <<".">>
    /\ step >= 6 /\ smtp \in {"wait", "finished"} => lines # <<>> /\ lines[Len(lines)] = <<".">>

MailTypes ==
    /\ typed \in Seq(STRING) /\ stdin \in Seq(STRING)
    /\ fields \in Seq(Seq(STRING)) /\ lines \in Seq(Seq(STRING))

MailInv ==
    /\ step \in 1 .. 7
    /\ MailTypes
    /\ smtp = "off" => step = 1 /\ fields = <<>>
    /\ DialogueInv
    /\ smtp # "off" => InputInv

-----------------------------------------------------------------------------
\* More lines are read at a later end of line, and one more at the next.
LEMMA LinesUpToFacts ==
    ASSUME NEW text \in Seq(STRING)
    PROVE  /\ IsFiniteSet(Newlines(text)) /\ Newlines(text) \subseteq 1 .. Len(text)
           /\ \A place : LinesUpTo(text, place) \in Nat
           /\ LinesUpTo(text, 0) = 0
           /\ \A p, q \in Newlines(text) : LinesUpTo(text, p) = LinesUpTo(text, q) => p = q
           /\ \A place \in 0 .. Len(text) : \A q \in Newlines(text) :
                 place < q /\ (\A m \in Newlines(text) : m <= place \/ q <= m) =>
                    LinesUpTo(text, q) = LinesUpTo(text, place) + 1
           /\ \A place \in 0 .. Len(text) :
                 LinesUpTo(text, place) < Cardinality(Newlines(text)) =>
                    \E q \in Newlines(text) :
                        place < q /\ \A m \in Newlines(text) : m <= place \/ q <= m
           /\ \A place \in 0 .. Len(text) : LinesUpTo(text, place) <= Cardinality(Newlines(text))
<1> DEFINE E == Newlines(text)
           Upto(place) == {m \in E : m <= place}
<1>1. /\ E \subseteq 1 .. Len(text) /\ Len(text) \in Nat
      /\ \A m \in E : m \in Nat /\ m > 0
    BY LenProperties DEF Newlines
<1>2. IsFiniteSet(E)
    <2>1. IsFiniteSet(1 .. Len(text))
        BY <1>1, FS_Interval
    <2> HIDE DEF E
    <2> QED BY <1>1, <2>1, FS_Subset
<1> HIDE DEF E
<1>3. ASSUME NEW place PROVE /\ IsFiniteSet(Upto(place)) /\ Cardinality(Upto(place)) \in Nat
                             /\ Cardinality(Upto(place)) <= Cardinality(E)
                             /\ Cardinality(Upto(place)) = Cardinality(E) => Upto(place) = E
    <2>1. Upto(place) \in SUBSET E
        OBVIOUS
    <2>2. /\ IsFiniteSet(Upto(place)) /\ Cardinality(Upto(place)) <= Cardinality(E)
          /\ Cardinality(E) = Cardinality(Upto(place)) => E = Upto(place)
        <3> HIDE DEF Upto
        <3> QED BY <1>2, <2>1, FS_Subset
    <2>3. Cardinality(Upto(place)) \in Nat
        <3> HIDE DEF Upto
        <3> QED BY <2>2, FS_CardinalityType
    <2> QED BY <2>2, <2>3
<1>4. Cardinality(Upto(0)) = 0
    <2>1. Upto(0) = {}
        <3>1. \A m \in E : ~ (m <= 0)
            BY <1>1
        <3> QED BY <3>1
    <2> HIDE DEF Upto
    <2> QED BY <2>1, FS_EmptySet
<1>5. ASSUME NEW p \in E, NEW q \in E, p < q
      PROVE  Cardinality(Upto(p)) # Cardinality(Upto(q))
    <2>1. Upto(p) \in SUBSET Upto(q) /\ q \in Upto(q) /\ q \notin Upto(p)
        <3>1. /\ \A m \in E : m <= p => m <= q
              /\ q <= q /\ ~ (q <= p)
            BY <1>1, <1>5
        <3> QED BY <3>1
    <2>2. Cardinality(Upto(q)) = Cardinality(Upto(p)) => Upto(q) = Upto(p)
        <3>1. IsFiniteSet(Upto(q))
            BY <1>3
        <3> HIDE DEF Upto
        <3> QED BY <2>1, <3>1, FS_Subset
    <2> HIDE DEF Upto
    <2> QED BY <2>1, <2>2
<1>6. ASSUME NEW p \in E, NEW q \in E, Cardinality(Upto(p)) = Cardinality(Upto(q))
      PROVE  p = q
    <2>1. p < q \/ q < p \/ p = q
        BY <1>1
    <2> HIDE DEF Upto
    <2> QED BY <1>5, <1>6, <2>1
<1>7. ASSUME NEW place \in 0 .. Len(text), NEW q \in E, place < q,
             \A m \in E : m <= place \/ q <= m
      PROVE  Cardinality(Upto(q)) = Cardinality(Upto(place)) + 1
    <2>1. Upto(q) = Upto(place) \cup {q} /\ q \notin Upto(place)
        <3>1. /\ \A m \in E : m <= q <=> m <= place \/ m = q
              /\ ~ (q <= place)
            BY <1>1, <1>7
        <3> QED BY <3>1
    <2>2. IsFiniteSet(Upto(place))
        BY <1>3
    <2> HIDE DEF Upto
    <2> QED BY <2>1, <2>2, FS_AddElement
<1>8. ASSUME NEW place \in 0 .. Len(text), Cardinality(Upto(place)) < Cardinality(E)
      PROVE  \E q \in E : place < q /\ \A m \in E : m <= place \/ q <= m
    <2> DEFINE later == {m \in E : ~ (m <= place)}
    <2>1. later # {}
        <3>1. Upto(place) # E
            <4> HIDE DEF Upto
            <4>1. Cardinality(Upto(place)) \in Nat /\ Cardinality(E) \in Nat
                BY <1>2, <1>3, FS_CardinalityType
            <4> QED BY <1>8, <4>1
        <3> QED BY <3>1
    <2>2. later \in SUBSET Nat
        BY <1>1
    <2> DEFINE q == Min(later)
    <2>3. q \in later /\ \A m \in later : q <= m
        <3> HIDE DEF later
        <3> QED BY <2>1, <2>2, MinOfNats
    <2> HIDE DEF q
    <2>4. q \in E /\ place < q
        BY <1>1, <2>3
    <2> QED BY <2>3, <2>4
<1>9. \A place : LinesUpTo(text, place) = Cardinality(Upto(place))
    BY DEF LinesUpTo, E
<1> HIDE DEF Upto
<1> QED BY <1>1, <1>2, <1>3, <1>4, <1>6, <1>7, <1>8, <1>9 DEF E

\* The n-th line of a text is what stands between two newlines.
LEMMA LineOfText ==
    ASSUME NEW text \in Seq(STRING), NEW place \in 0 .. Len(text),
           place = 0 \/ place \in Newlines(text),
           NEW q \in Newlines(text), place < q, \A m \in Newlines(text) : m <= place \/ q <= m,
           NEW n \in Nat, LinesUpTo(text, place) = n
    PROVE  LinesUpTo(text, q) = n + 1 /\
           (n + 1 \in DOMAIN LinesOf(text) => LinesOf(text)[n + 1] = SubSeq(text, place + 1, q - 1))
<1> DEFINE E == Newlines(text)
           End(i) == CHOOSE k \in E : LinesUpTo(text, k) = i
<1>1. LinesUpTo(text, q) = n + 1
    BY LinesUpToFacts
<1>2. ASSUME NEW k \in E PROVE End(LinesUpTo(text, k)) = k
    <2>1. End(LinesUpTo(text, k)) \in E /\ LinesUpTo(text, End(LinesUpTo(text, k))) = LinesUpTo(text, k)
        OBVIOUS
    <2> HIDE DEF End
    <2> QED BY <2>1, LinesUpToFacts
<1>3. End(n + 1) = q
    <2> HIDE DEF End
    <2> QED BY <1>1, <1>2
<1>4. n # 0 => End(n) = place
    <2>1. n # 0 => place \in E
        BY LinesUpToFacts
    <2> HIDE DEF End
    <2> QED BY <1>2, <2>1
<1>5. n = 0 => place = 0
    <2>1. ASSUME place \in E PROVE n # 0
        <3> DEFINE U == {m \in E : m <= place}
        <3>1. place \in U /\ U \in SUBSET E /\ IsFiniteSet(E)
            BY <2>1, LinesUpToFacts
        <3>2. n = Cardinality(U)
            BY DEF LinesUpTo
        <3> HIDE DEF U, E
        <3>3. IsFiniteSet(U)
            BY <3>1, FS_Subset
        <3> QED BY <3>1, <3>2, <3>3, FS_EmptySet
    <2> QED BY <2>1
<1>6. LinesOf(text) = [i \in 1 .. Cardinality(E) |->
                          SubSeq(text, IF i = 1 THEN 1 ELSE End(i - 1) + 1, End(i) - 1)]
    BY DEF LinesOf, LinesUpTo, Newlines
<1> HIDE DEF E, End
<1>7. ASSUME n + 1 \in DOMAIN LinesOf(text)
      PROVE  LinesOf(text)[n + 1] = SubSeq(text, place + 1, q - 1)
    <2>1. n + 1 \in 1 .. Cardinality(E)
        BY <1>6, <1>7
    <2>2. LinesOf(text)[n + 1] = SubSeq(text, IF n + 1 = 1 THEN 1 ELSE End((n + 1) - 1) + 1, End(n + 1) - 1)
        BY <1>6, <2>1
    <2>3. (IF n + 1 = 1 THEN 1 ELSE End((n + 1) - 1) + 1) = place + 1
        <3>1. (n + 1) - 1 = n /\ (n + 1 = 1 <=> n = 0)
            OBVIOUS
        <3> QED BY <1>4, <1>5, <3>1
    <2> QED BY <1>3, <2>2, <2>3
<1> QED BY <1>1, <1>7

\* get_input() takes the next line, if it fits in the buffer, and leaves what is
\* behind its newline.
LEMMA GetInputFacts ==
    ASSUME NEW text \in Seq(STRING), NEW place \in 0 .. Len(text),
           NEW q \in Newlines(text), place < q, \A m \in Newlines(text) : m <= place \/ q <= m,
           q - place < MAXINPUT,
           NEW rest, rest = SubSeq(text, place + 1, Len(text))
    PROVE  /\ GetInput(rest) = SubSeq(text, place + 1, q - 1)
           /\ AfterInput(rest) = SubSeq(text, q + 1, Len(text))
<1>1. Len(text) \in Nat /\ q \in 1 .. Len(text) /\ text[q] = "nl" /\ MAXINPUT \in Nat
    BY LenProperties, LinesUpToFacts, SmtpAssumption DEF Newlines
<1>2. /\ rest \in Seq(STRING) /\ Len(rest) = Len(text) - place
      /\ \A k \in 1 .. Len(text) - place : rest[k] = text[place + k]
    <2> DEFINE m == place + 1
    <2>1. m \in 1 .. Len(text) + 1 /\ Len(text) \in m - 1 .. Len(text)
        BY <1>1
    <2>2. Len(text) - m + 1 = Len(text) - place
          /\ \A k \in 1 .. Len(text) - place : m + k - 1 = place + k
        BY <1>1
    <2> HIDE DEF m
    <2>3. /\ SubSeq(text, m, Len(text)) \in Seq(STRING)
          /\ Len(SubSeq(text, m, Len(text))) = Len(text) - m + 1
          /\ \A k \in 1 .. Len(text) - m + 1 : SubSeq(text, m, Len(text))[k] = text[m + k - 1]
        BY <2>1, PartFacts
    <2> QED BY <2>2, <2>3 DEF m
<1> DEFINE d == q - place
           stops == {k \in 1 .. Len(rest) : rest[k] = "nl"} \cup {Len(rest), MAXINPUT - 1}
<1>3. d \in stops
    <2>1. d \in 1 .. Len(rest) /\ place + d = q
        BY <1>1, <1>2
    <2> QED BY <1>1, <1>2, <2>1
<1>4. \A k \in stops : d <= k
    <2>1. ASSUME NEW k \in 1 .. Len(rest), rest[k] = "nl" PROVE d <= k
        <3>1. place + k \in Newlines(text) /\ ~ (place + k <= place)
            <4>1. place + k \in 1 .. Len(text) /\ text[place + k] = "nl" /\ DOMAIN text = 1 .. Len(text)
                BY <1>1, <1>2, <2>1, LenProperties
            <4> QED BY <1>1, <4>1 DEF Newlines
        <3>2. q <= place + k
            BY <3>1
        <3> QED BY <1>1, <1>2, <3>2
    <2>2. d <= Len(rest) /\ d <= MAXINPUT - 1
        BY <1>1, <1>2
    <2> QED BY <2>1, <2>2
<1>5. Fgets(rest) = d
    <2>1. stops \in SUBSET Nat
        BY <1>1, <1>2
    <2>2. Min(stops) \in stops /\ Min(stops) <= d
        <3> HIDE DEF stops, d
        <3> QED BY <1>3, <2>1, MinOfNats
    <2>3. Min(stops) = d
        <3>1. d \in Nat /\ Min(stops) \in Nat /\ d <= Min(stops)
            <4> HIDE DEF stops
            <4> QED BY <1>3, <1>4, <2>1, <2>2
        <3> HIDE DEF stops, d
        <3> QED BY <2>2, <3>1
    <2> QED BY <2>3 DEF Fgets
<1>6. GetInput(rest) = SubSeq(text, place + 1, place + (d - 1))
    <2>1. 1 \in 1 .. Len(text) - place + 1 /\ d - 1 \in 1 - 1 .. Len(text) - place
        BY <1>1
    <2> DEFINE e == d - 1
    <2> HIDE DEF e
    <2>2. SubSeq(SubSeq(text, place + 1, Len(text)), 1, e) = SubSeq(text, place + 1, place + e)
        BY <2>1, PartOfRest DEF e
    <2> QED BY <1>5, <2>2 DEF GetInput, e
<1>7. AfterInput(rest) = SubSeq(text, place + (d + 1), place + (Len(text) - place))
    <2> DEFINE a == d + 1
               b == Len(text) - place
    <2>1. a \in 1 .. Len(text) - place + 1 /\ b \in a - 1 .. Len(text) - place
        BY <1>1
    <2> HIDE DEF a, b
    <2>2. SubSeq(SubSeq(text, place + 1, Len(text)), a, b) = SubSeq(text, place + a, place + b)
        BY <2>1, PartOfRest
    <2> QED BY <1>2, <1>5, <2>2 DEF AfterInput, a, b
<1>8. place + (d - 1) = q - 1 /\ place + (d + 1) = q + 1 /\ place + (Len(text) - place) = Len(text)
    BY <1>1
<1> QED BY <1>6, <1>7, <1>8

\* What is read is text.
LEMMA InputIsText ==
    ASSUME NEW text \in Seq(STRING)
    PROVE  GetInput(text) \in Seq(STRING) /\ AfterInput(text) \in Seq(STRING)
<1> DEFINE stops == {k \in 1 .. Len(text) : text[k] = "nl"} \cup {Len(text), MAXINPUT - 1}
           n == Fgets(text)
<1>1. Len(text) \in Nat /\ \A k \in 1 .. Len(text) : text[k] \in STRING
    BY LenProperties, ElementOfSeq
<1>2. stops \in SUBSET Nat /\ Len(text) \in stops
    BY <1>1, SmtpAssumption
<1>3. n \in 0 .. Len(text)
    <2>1. n = Min(stops)
        BY DEF Fgets
    <2> HIDE DEF stops, n
    <2>2. n \in stops /\ n <= Len(text)
        BY <1>2, <2>1, MinOfNats
    <2> QED BY <1>1, <1>2, <2>2
<1> HIDE DEF n
<1>4. SubSeq(text, 1, n - 1) \in Seq(STRING)
    <2>1. n - 1 \in Int /\ \A k \in 1 .. n - 1 : text[k] \in STRING
        BY <1>1, <1>3
    <2> QED BY <2>1, SubSeqProperties
<1>5. SubSeq(text, n + 1, Len(text)) \in Seq(STRING)
    <2>1. n + 1 \in Int /\ \A k \in n + 1 .. Len(text) : text[k] \in STRING
        BY <1>1, <1>3
    <2> QED BY <1>1, <2>1, SubSeqProperties
<1> QED BY <1>4, <1>5 DEF GetInput, AfterInput, n

\* One more line is read of a text whose lines fit.
LEMMA ReadLine ==
    ASSUME NEW text \in Seq(STRING), LinesFit(text), NEW n \in Nat, n < Cardinality(Newlines(text)),
           NEW rest, IsRest(rest, text, n)
    PROVE  GetInput(rest) = LinesOf(text)[n + 1] /\ IsRest(AfterInput(rest), text, n + 1)
<1>0. PICK place \in 0 .. Len(text) :
          /\ place = 0 \/ place \in Newlines(text)
          /\ LinesUpTo(text, place) = n
          /\ rest = SubSeq(text, place + 1, Len(text))
    BY DEF IsRest
<1>1. PICK q \in Newlines(text) :
          place < q /\ \A m \in Newlines(text) : m <= place \/ q <= m
    BY <1>0, LinesUpToFacts
<1>2. LinesUpTo(text, q) = n + 1
    BY <1>0, <1>1, LineOfText
<1>3. n + 1 \in DOMAIN LinesOf(text)
    <2>1. DOMAIN LinesOf(text) = 1 .. Cardinality(Newlines(text))
        BY DEF LinesOf, Newlines
    <2>2. Cardinality(Newlines(text)) \in Nat
        BY LinesUpToFacts, FS_CardinalityType
    <2> QED BY <2>1, <2>2
<1>4. LinesOf(text)[n + 1] = SubSeq(text, place + 1, q - 1)
    BY <1>0, <1>1, <1>3, LineOfText
<1>5. q - place < MAXINPUT
    <2>1. Len(LinesOf(text)[n + 1]) + 1 < MAXINPUT
        BY <1>3 DEF LinesFit
    <2>2. Len(text) \in Nat /\ q \in 1 .. Len(text)
        BY LinesUpToFacts, LenProperties
    <2>3. Len(SubSeq(text, place + 1, q - 1)) = q - 1 - place
        <3> DEFINE a == place + 1
                   b == q - 1
        <3>1. a \in 1 .. Len(text) + 1 /\ b \in a - 1 .. Len(text) /\ b - a + 1 = q - 1 - place
            BY <1>1, <2>2
        <3> HIDE DEF a, b
        <3>2. Len(SubSeq(text, a, b)) = b - a + 1
            BY <3>1, PartFacts
        <3> QED BY <3>1, <3>2 DEF a, b
    <2> QED BY <1>4, <2>1, <2>2, <2>3, SmtpAssumption
<1>6. /\ GetInput(rest) = SubSeq(text, place + 1, q - 1)
      /\ AfterInput(rest) = SubSeq(text, q + 1, Len(text))
    BY <1>0, <1>1, <1>5, GetInputFacts
<1>7. q \in 0 .. Len(text)
    BY LinesUpToFacts
<1> QED BY <1>2, <1>4, <1>6, <1>7 DEF IsRest

-----------------------------------------------------------------------------
\* One more line is read, whether it is an answer or a line of the message.
LEMMA AnotherLine ==
    ASSUME MailTypes, InputInv, typed' = typed, stdin' = AfterInput(stdin),
           \/ fields' = Append(fields, GetInput(stdin)) /\ lines = <<>> /\ lines' = <<>>
           \/ lines' = Append(lines, GetInput(stdin)) /\ fields' = fields
    PROVE  MailTypes' /\ InputInv'
<1> SUFFICES ASSUME NEW read, read = Len(fields) + Len(lines), NEW line, line = GetInput(stdin)
             PROVE  MailTypes' /\ InputInv'
    OBVIOUS
<1>1. line \in Seq(STRING) /\ stdin' \in Seq(STRING)
    BY InputIsText DEF MailTypes
<1>2. Len(fields) \in Nat /\ Len(lines) \in Nat
    BY LenProperties DEF MailTypes
<1>3. /\ MailTypes' /\ Len(fields') + Len(lines') = read + 1
      /\ \A k \in 1 .. read : LineRead(k)' = LineRead(k)
      /\ LineRead(read + 1)' = line
    <2>1. CASE fields' = Append(fields, line) /\ lines = <<>> /\ lines' = <<>>
        <3>1. /\ fields' \in Seq(Seq(STRING)) /\ Len(fields') = Len(fields) + 1
              /\ \A k \in 1 .. Len(fields) : fields'[k] = fields[k]
              /\ fields'[Len(fields) + 1] = line
            BY <1>1, <2>1, AppendProperties DEF MailTypes
        <3>2. Len(lines) = 0 /\ Len(lines') = 0 /\ lines' \in Seq(Seq(STRING))
            BY <2>1
        <3>3. MailTypes'
            BY <1>1, <3>1, <3>2 DEF MailTypes
        <3>4. \A k \in 1 .. read : LineRead(k)' = LineRead(k)
            BY <1>2, <3>1, <3>2 DEF LineRead
        <3>5. LineRead(read + 1)' = line
            BY <1>2, <3>1, <3>2 DEF LineRead
        <3> QED BY <1>2, <3>1, <3>2, <3>3, <3>4, <3>5
    <2>2. CASE lines' = Append(lines, line) /\ fields' = fields
        <3>1. /\ lines' \in Seq(Seq(STRING)) /\ Len(lines') = Len(lines) + 1
              /\ \A k \in 1 .. Len(lines) : lines'[k] = lines[k]
              /\ lines'[Len(lines) + 1] = line
            BY <1>1, <2>2, AppendProperties DEF MailTypes
        <3>2. \A k \in 1 .. read : k <= Len(fields) \/ k - Len(fields) \in 1 .. Len(lines)
            BY <1>2
        <3>3. ~ (read + 1 <= Len(fields)) /\ read + 1 - Len(fields) = Len(lines) + 1
            BY <1>2
        <3>4. MailTypes'
            BY <1>1, <2>2, <3>1 DEF MailTypes
        <3>5. \A k \in 1 .. read : LineRead(k)' = LineRead(k)
            BY <2>2, <3>1, <3>2 DEF LineRead
        <3>6. LineRead(read + 1)' = line
            BY <2>2, <3>1, <3>3 DEF LineRead
        <3> QED BY <1>2, <2>2, <3>1, <3>4, <3>5, <3>6
    <2> QED BY <2>1, <2>2
<1>4. read \in Nat /\ Cardinality(Newlines(typed)) \in Nat
    BY <1>2, LinesUpToFacts, FS_CardinalityType DEF MailTypes
<1>5. InputInv'
    <2> SUFFICES ASSUME LinesFit(typed) PROVE InputInv'
        BY DEF InputInv, LinesFit
    <2> DEFINE count == Cardinality(Newlines(typed))
    <2>1. /\ \A k \in 1 .. read : k <= count => LineRead(k) = LinesOf(typed)[k]
          /\ read <= count => IsRest(stdin, typed, read)
        BY DEF InputInv
    <2>2. read < count => line = LinesOf(typed)[read + 1] /\ IsRest(stdin', typed, read + 1)
        BY <1>4, <2>1, ReadLine DEF MailTypes
    <2>3. read + 1 <= count => read < count
        BY <1>4
    <2>4. \A k \in 1 .. read + 1 : k <= count => LineRead(k)' = LinesOf(typed)[k]
        <3>1. \A k \in 1 .. read + 1 : k \in 1 .. read \/ k = read + 1
            BY <1>4
        <3> QED BY <1>3, <2>1, <2>2, <2>3, <3>1
    <2> HIDE DEF count
    <2> QED BY <1>3, <2>2, <2>3, <2>4 DEF InputInv, count
<1> QED BY <1>3, <1>5

\* Nothing is typed before the program has started.
LEMMA MailInitInv == SmtpInit => MailInv
<1> SUFFICES ASSUME SmtpInit PROVE MailInv
    OBVIOUS
<1>1. /\ smtp = "off" /\ step = 1 /\ stdin = <<>> /\ typed = <<>>
      /\ fields = <<>> /\ lines = <<>> /\ Len(lines) = 0
    BY DEF SmtpInit
<1>2. MailTypes
    BY <1>1 DEF MailTypes
<1> QED BY <1>1, <1>2 DEF MailInv, DialogueInv

\* Only the place in the dialogue changes: the lines are read as before.
LEMMA NoLine ==
    ASSUME MailInv, smtp # "off", UNCHANGED <<typed, stdin, fields, lines>>
    PROVE  MailTypes' /\ InputInv'
<1>1. \A k : LineRead(k)' = LineRead(k)
    BY DEF LineRead
<1> QED BY <1>1 DEF MailInv, MailTypes, InputInv

\* The reply is the one expected.
LEMMA NextCommandKeeps ==
    ASSUME MailInv, smtp = "wait", NextCommand, UNCHANGED <<typed, lines>>
    PROVE  MailInv'
<1>1. /\ step \in 1 .. 7 /\ MailTypes /\ DialogueInv /\ InputInv
      /\ Len(fields) = Answers[step]
    BY DEF MailInv, DialogueInv
<1>2. CASE step \in {2, 3, 5}
    <2>1. /\ fields' = Append(fields, GetInput(stdin)) /\ stdin' = AfterInput(stdin)
          /\ lines = <<>> /\ lines' = <<>> /\ step' = step + 1
        BY <1>1, <1>2 DEF NextCommand, DialogueInv
    <2>2. MailTypes' /\ InputInv'
        BY <1>1, <2>1, AnotherLine
    <2>3. Len(fields') = Len(fields) + 1
        <3>1. GetInput(stdin) \in Seq(STRING)
            BY <1>1, InputIsText DEF MailTypes
        <3> QED BY <1>1, <2>1, <3>1, AppendProperties DEF MailTypes
    <2>4. smtp' = IF step = 5 THEN "body" ELSE "wait"
        BY <1>2 DEF NextCommand
    <2>5. Len(lines') = 0
        BY <2>1
    <2>6. CASE step = 5
        <3>1. Len(fields') = 4 /\ step' = 6 /\ smtp' = "body"
            BY <1>1, <2>1, <2>3, <2>4, <2>6 DEF Answers
        <3> QED BY <2>1, <2>2, <2>5, <3>1 DEF MailInv, DialogueInv, Answers
    <2>7. CASE step \in {2, 3}
        <3>1. Len(fields') = Answers[step'] /\ step' \in 3 .. 4 /\ smtp' = "wait"
            BY <1>1, <2>1, <2>3, <2>4, <2>7 DEF Answers
        <3> QED BY <2>1, <2>2, <2>5, <3>1 DEF MailInv, DialogueInv
    <2> QED BY <1>2, <2>6, <2>7
<1>3. CASE step \notin {2, 3, 5}
    <2>1. UNCHANGED <<fields, stdin>>
        BY <1>3 DEF NextCommand
    <2>2. MailTypes' /\ InputInv'
        BY <2>1, NoLine
    <2>3. step \in {1, 4, 6, 7}
        BY <1>1, <1>3
    <2>4. step' = (IF step = 7 THEN 7 ELSE step + 1) /\ smtp' = IF step = 7 THEN "finished" ELSE "wait"
        BY <1>3 DEF NextCommand
    <2>5. Len(fields') = Answers[step']
        BY <1>1, <2>1, <2>3, <2>4 DEF Answers
    <2> QED BY <1>1, <2>1, <2>2, <2>3, <2>4, <2>5 DEF MailInv, DialogueInv
<1> QED BY <1>2, <1>3

\* Every step keeps what is read in step with what is typed.
LEMMA MailNextInv == MailInv /\ [SmtpNext]_smtpVars => MailInv'
<1> SUFFICES ASSUME MailInv, [SmtpNext]_smtpVars PROVE MailInv'
    OBVIOUS
<1>1. CASE SmtpConnect
    <2>1. /\ smtp = "off" /\ smtp' \in {"wait", "failed"} /\ step' = 1
          /\ typed' \in Seq(STRING)
          /\ fields' = <<GetInput(typed')>> /\ stdin' = AfterInput(typed')
          /\ lines = <<>> /\ lines' = <<>>
        BY <1>1, SmtpAssumption DEF SmtpConnect, MailInv, DialogueInv
    <2> SUFFICES ASSUME NEW text \in Seq(STRING), typed' = text PROVE MailInv'
        BY <2>1
    <2>2. GetInput(text) \in Seq(STRING) /\ AfterInput(text) \in Seq(STRING)
        BY InputIsText
    <2>3. /\ fields' \in Seq(Seq(STRING)) /\ Len(fields') = 1 /\ fields'[1] = GetInput(text)
          /\ Len(lines') = 0
        BY <2>1, <2>2
    <2>4. MailTypes'
        BY <2>1, <2>2, <2>3 DEF MailTypes
    <2>5. IsRest(text, text, 0)
        <3>1. SubSeq(text, 0 + 1, Len(text)) = text /\ Len(text) \in Nat
            BY SubSeqFull, LenProperties
        <3> QED BY <3>1, LinesUpToFacts DEF IsRest
    <2>6. InputInv'
        <3>1. Cardinality(Newlines(text)) \in Nat
            BY LinesUpToFacts, FS_CardinalityType
        <3>2. ASSUME LinesFit(text), 1 <= Cardinality(Newlines(text))
              PROVE  GetInput(text) = LinesOf(text)[1] /\ IsRest(AfterInput(text), text, 1)
            <4>1. /\ GetInput(text) = LinesOf(text)[0 + 1]
                  /\ IsRest(AfterInput(text), text, 0 + 1)
                BY <2>5, <3>1, <3>2, ReadLine
            <4> QED BY <4>1
        <3>3. LineRead(1)' = GetInput(text)
            BY <2>3 DEF LineRead
        <3>4. Len(fields') + Len(lines') = 1
            BY <2>3
        <3> QED BY <2>1, <3>2, <3>3, <3>4 DEF InputInv
    <2> QED BY <2>1, <2>3, <2>4, <2>6 DEF MailInv, DialogueInv, Answers
<1>2. CASE WaitOnResponse
    <2>1. /\ smtp = "wait" /\ UNCHANGED <<lines, typed>>
          /\ \/ smtp' = "failed" /\ UNCHANGED <<step, stdin, fields>>
             \/ UNCHANGED <<smtp, step, stdin, fields>>
             \/ NextCommand
        BY <1>2 DEF WaitOnResponse
    <2>2. CASE smtp' \in {smtp, "failed"} /\ UNCHANGED <<step, stdin, fields>>
        <3>1. MailTypes' /\ InputInv'
            BY <2>1, <2>2, NoLine
        <3> QED BY <2>1, <2>2, <3>1 DEF MailInv, DialogueInv
    <2>3. CASE NextCommand
        BY <2>1, <2>3, NextCommandKeeps
    <2> QED BY <2>1, <2>2, <2>3
<1>3. CASE SendLine
    <2> DEFINE entered == GetInput(stdin)
    <2>1. /\ smtp = "body" /\ step = 6 /\ UNCHANGED <<typed, step, fields>>
          /\ lines' = Append(lines, entered) /\ stdin' = AfterInput(stdin)
          /\ smtp' = IF entered = <<".">> THEN "wait" ELSE "body"
        BY <1>3 DEF SendLine, MailInv, DialogueInv
    <2>2. MailTypes' /\ InputInv'
        BY <2>1, AnotherLine DEF MailInv
    <2>3. /\ Len(lines) \in Nat /\ Len(lines') = Len(lines) + 1 /\ lines' # <<>>
          /\ \A k \in 1 .. Len(lines) : lines'[k] = lines[k]
          /\ lines'[Len(lines')] = entered
        <3>1. entered \in Seq(STRING) /\ lines \in Seq(Seq(STRING))
            BY InputIsText DEF MailInv, MailTypes
        <3> HIDE DEF entered
        <3>2. /\ Len(Append(lines, entered)) = Len(lines) + 1
              /\ \A k \in 1 .. Len(lines) : Append(lines, entered)[k] = lines[k]
              /\ Append(lines, entered)[Len(lines) + 1] = entered
            BY <3>1, AppendProperties
        <3> QED BY <2>1, <3>1, <3>2, LenProperties
    <2> HIDE DEF entered
    <2>4. \A k \in 1 .. Len(lines') - 1 : lines'[k] # <<".">>
        <3>1. /\ \A k \in 1 .. Len(lines) - 1 : lines[k] # <<".">>
              /\ lines # <<>> => lines[Len(lines)] # <<".">>
            BY <2>1 DEF MailInv, DialogueInv
        <3>2. \A k \in 1 .. Len(lines) : lines[k] # <<".">>
            <4>1. \A k \in 1 .. Len(lines) : k \in 1 .. Len(lines) - 1 \/ k = Len(lines)
                BY <2>3
            <4>2. \A k \in 1 .. Len(lines) : lines # <<>>
                OBVIOUS
            <4> QED BY <3>1, <4>1, <4>2
        <3> QED BY <2>3, <3>2
    <2>5. Len(fields') = Answers[6]
        BY <2>1 DEF MailInv, DialogueInv
    <2> QED BY <2>1, <2>2, <2>3, <2>4, <2>5 DEF MailInv, DialogueInv
<1>4. CASE ServerLost \/ MailServer \/ UNCHANGED smtpVars
    <2>1. /\ UNCHANGED <<step, stdin, fields, lines, typed>>
          /\ smtp' = smtp \/ (smtp # "off" /\ smtp' = "failed")
        BY <1>4 DEF ServerLost, MailServer, smtpVars
    <2>2. MailTypes' /\ (smtp # "off" => InputInv')
        <3>1. MailTypes'
            BY <2>1 DEF MailInv, MailTypes
        <3> QED BY <2>1, <3>1, NoLine
    <2> QED BY <2>1, <2>2 DEF MailInv, DialogueInv
<1> QED BY <1>1, <1>2, <1>3, <1>4 DEF SmtpNext

\* The mail that is accepted holds the lines that were typed, for any input and any
\* size of the buffer.
THEOREM SmtpMailArrives == SmtpSpec => []MailArrives
<1>1. SmtpSpec => []MailInv
    BY MailInitInv, MailNextInv, PTL DEF SmtpSpec
<1>2. MailInv => MailArrives
    <2> SUFFICES ASSUME MailInv PROVE MailArrives
        OBVIOUS
    <2> DEFINE wanted == LinesOf(typed)
               ends == {k \in 5 .. Len(wanted) : wanted[k] = <<".">>}
               end == Min(ends)
               message == SubSeq(wanted, 5, end - 1)
               count == Cardinality(Newlines(typed))
    <2> SUFFICES ASSUME smtp = "finished", ends # {},
                        \A k \in DOMAIN wanted : Len(wanted[k]) + 1 < MAXINPUT,
                        \A k \in DOMAIN message : message[k] = <<>> \/ message[k][1] # "."
                 PROVE  fields = SubSeq(wanted, 1, 4) /\ Filed(Front(lines)) = message
        BY DEF MailArrives
    <2>1. /\ typed \in Seq(STRING) /\ fields \in Seq(Seq(STRING)) /\ lines \in Seq(Seq(STRING))
          /\ Len(fields) = 4 /\ Len(lines) \in Nat /\ Len(lines) > 0
          /\ lines[Len(lines)] = <<".">>
          /\ \A k \in 1 .. Len(lines) - 1 : lines[k] # <<".">>
        <3>1. MailTypes /\ DialogueInv
            BY DEF MailInv
        <3>2. step = 7 /\ Len(fields) = Answers[step]
            BY <3>1 DEF DialogueInv
        <3>3. Len(fields) = 4
            BY <3>2 DEF Answers
        <3>4. lines # <<>> /\ lines[Len(lines)] = <<".">>
            BY <3>1, <3>2 DEF DialogueInv
        <3>5. /\ typed \in Seq(STRING) /\ fields \in Seq(Seq(STRING)) /\ lines \in Seq(Seq(STRING))
              /\ Len(lines) \in Nat /\ Len(lines) > 0
            BY <3>1, <3>4, LenProperties DEF MailTypes
        <3>6. \A k \in 1 .. Len(lines) - 1 : lines[k] # <<".">>
            BY <3>1 DEF DialogueInv
        <3> QED BY ONLY <3>3, <3>4, <3>5, <3>6
    <2>2. count \in Nat /\ DOMAIN wanted = 1 .. count /\ Len(wanted) = count
        <3>1. count \in Nat
            BY <2>1, LinesUpToFacts, FS_CardinalityType
        <3>2. DOMAIN LinesOf(typed) = 1 .. Cardinality(Newlines(typed))
            BY DEF LinesOf, Newlines
        <3>3. Len(LinesOf(typed)) = Cardinality(Newlines(typed))
            BY <3>1 DEF LinesOf, Newlines
        <3> QED BY <3>1, <3>2, <3>3
    <2>3. \A k \in 1 .. 4 + Len(lines) : k <= count => LineRead(k) = wanted[k]
        <3>1. LinesFit(typed) /\ InputInv
            BY DEF LinesFit, MailInv
        <3> QED BY <2>1, <3>1 DEF InputInv
    <2> HIDE DEF wanted, count
    <2>4. end \in ends /\ \A k \in ends : end <= k
        <3>1. ends \in SUBSET Nat
            BY <2>2
        <3> HIDE DEF ends
        <3> QED BY <3>1, MinOfNats
    <2>5. end \in 5 .. count /\ wanted[end] = <<".">>
        BY <2>2, <2>4
    <2> HIDE DEF end
    <2>6. \A k \in 1 .. Len(lines) : 4 + k <= count => lines[k] = wanted[4 + k]
        <3> TAKE k \in 1 .. Len(lines)
        <3>1. 4 + k \in 1 .. 4 + Len(lines) /\ ~ (4 + k <= 4) /\ (4 + k) - 4 = k
            BY <2>1
        <3>2. LineRead(4 + k) = lines[k]
            BY <2>1, <3>1 DEF LineRead
        <3> QED BY <2>3, <3>1, <3>2
    <2>7. end = 4 + Len(lines)
        <3>1. CASE 4 + Len(lines) > end
            <4>1. end - 4 \in 1 .. Len(lines) - 1 /\ end - 4 \in 1 .. Len(lines) /\ 4 + (end - 4) = end
                  /\ 4 + (end - 4) <= count
                BY <2>1, <2>2, <2>5, <3>1
            <4>2. lines[end - 4] = wanted[4 + (end - 4)]
                BY <2>6, <4>1
            <4>3. lines[end - 4] # <<".">>
                BY <2>1, <4>1
            <4> QED BY <2>5, <4>1, <4>2, <4>3
        <3>2. CASE 4 + Len(lines) < end
            <4>1. /\ Len(lines) \in 1 .. Len(lines) /\ 4 + Len(lines) \in 5 .. count
                  /\ 4 + Len(lines) <= count
                BY <2>1, <2>2, <2>5, <3>2
            <4>2. 4 + Len(lines) \in ends
                BY <2>1, <2>2, <2>6, <4>1
            <4>3. end <= 4 + Len(lines)
                BY <2>4, <4>2
            <4> QED BY <2>1, <2>2, <2>5, <3>2, <4>3
        <3> HIDE DEF ends
        <3>3. 4 + Len(lines) \in Nat /\ end \in Nat
            BY <2>1, <2>2, <2>5
        <3>4. \A a, b \in Nat : a > b \/ a < b \/ a = b
            OBVIOUS
        <3>5. 4 + Len(lines) > end \/ 4 + Len(lines) < end \/ end = 4 + Len(lines)
            BY <3>3, <3>4
        <3> QED BY <3>1, <3>2, <3>5
    <2>8. fields = SubSeq(wanted, 1, 4)
        <3>1. \A k \in 1 .. 4 : wanted[k] = fields[k] /\ fields[k] \in Seq(STRING)
            <4>1. \A k \in 1 .. 4 : k \in 1 .. 4 + Len(lines) /\ k <= count /\ k <= 4
                BY <2>1, <2>2, <2>5
            <4>2. \A k \in 1 .. 4 : LineRead(k) = fields[k]
                BY <2>1 DEF LineRead
            <4>3. \A k \in 1 .. 4 : fields[k] \in Seq(STRING)
                BY <2>1, ElementOfSeq
            <4> QED BY <2>3, <4>1, <4>2, <4>3
        <3>2. /\ SubSeq(wanted, 1, 4) \in Seq(Seq(STRING))
              /\ Len(SubSeq(wanted, 1, 4)) = 4
              /\ \A k \in 1 .. 4 : SubSeq(wanted, 1, 4)[k] = wanted[k]
            <4>1. \A k \in 1 .. 4 : wanted[k] \in Seq(STRING)
                BY <3>1
            <4>2. /\ SubSeq(wanted, 1, 4) \in Seq(Seq(STRING))
                  /\ Len(SubSeq(wanted, 1, 4)) = IF 1 <= 4 THEN 4 - 1 + 1 ELSE 0
                  /\ \A k \in 1 .. 4 - 1 + 1 : SubSeq(wanted, 1, 4)[k] = wanted[1 + k - 1]
                BY <4>1, SubSeqProperties
            <4>3. 4 - 1 + 1 = 4 /\ \A k \in 1 .. 4 : 1 + k - 1 = k
                OBVIOUS
            <4> QED BY <4>2, <4>3
        <3> DEFINE four == SubSeq(wanted, 1, 4)
        <3> HIDE DEF four
        <3>3. /\ four \in Seq(Seq(STRING)) /\ Len(fields) = Len(four)
              /\ \A k \in 1 .. Len(fields) : fields[k] = four[k]
            BY <2>1, <3>1, <3>2 DEF four
        <3>4. fields = four
            BY <2>1, <3>3, SeqEqual
        <3> QED BY <3>4 DEF four
    <2> DEFINE front == SubSeq(lines, 1, Len(lines) - 1)
    <2>9. /\ front \in Seq(Seq(STRING)) /\ Len(front) = Len(lines) - 1
          /\ \A k \in 1 .. Len(lines) - 1 : front[k] = lines[k]
        <3> DEFINE n == Len(lines) - 1
        <3>1. 1 \in 1 .. Len(lines) + 1 /\ n \in 1 - 1 .. Len(lines)
              /\ n - 1 + 1 = n /\ \A k \in 1 .. n : 1 + k - 1 = k
            BY <2>1
        <3> HIDE DEF n
        <3>2. /\ SubSeq(lines, 1, n) \in Seq(Seq(STRING)) /\ Len(SubSeq(lines, 1, n)) = n - 1 + 1
              /\ \A k \in 1 .. n - 1 + 1 : SubSeq(lines, 1, n)[k] = lines[1 + k - 1]
            BY <2>1, <3>1, PartFacts
        <3> QED BY <3>1, <3>2 DEF n
    <2>10. /\ message \in Seq(Seq(STRING)) /\ Len(message) = Len(lines) - 1
           /\ \A k \in 1 .. Len(lines) - 1 : message[k] = lines[k]
        <3> DEFINE n == end - 1
        <3>1. /\ 5 \in Int /\ n \in Int
              /\ (IF 5 <= n THEN n - 5 + 1 ELSE 0) = Len(lines) - 1 /\ n - 5 + 1 = Len(lines) - 1
              /\ \A k \in 1 .. Len(lines) - 1 : 5 + k - 1 = 4 + k
            <4>1. n = Len(lines) + 3
                BY <2>1, <2>7
            <4> HIDE DEF n
            <4>2. ASSUME NEW m \in Nat, m > 0, m = Len(lines)
                  PROVE  /\ n \in Int /\ n - 5 + 1 = m - 1
                         /\ (IF 5 <= n THEN n - 5 + 1 ELSE 0) = m - 1
                         /\ \A k \in 1 .. m - 1 : 5 + k - 1 = 4 + k
                <5>1. n = m + 3
                    BY <4>1, <4>2
                <5> QED BY <4>2, <5>1
            <4>3. Len(lines) \in Nat /\ Len(lines) > 0
                BY <2>1
            <4> QED BY <4>2, <4>3
        <3>2. \A k \in 5 .. n : wanted[k] \in Seq(STRING)
            <4> TAKE k \in 5 .. n
            <4>1. k - 4 \in 1 .. Len(lines) /\ 4 + (k - 4) = k /\ k <= count
                BY <2>1, <2>2, <2>5, <2>7
            <4>2. wanted[k] = lines[k - 4]
                BY <2>6, <4>1
            <4> QED BY <2>1, <4>1, <4>2, ElementOfSeq
        <3>3. \A k \in 1 .. Len(lines) - 1 : wanted[4 + k] = lines[k]
            <4>1. \A k \in 1 .. Len(lines) - 1 : k \in 1 .. Len(lines) /\ 4 + k <= count
                BY <2>1, <2>2, <2>5, <2>7
            <4> QED BY <2>6, <4>1
        <3> HIDE DEF n
        <3>4. /\ SubSeq(wanted, 5, n) \in Seq(Seq(STRING))
              /\ Len(SubSeq(wanted, 5, n)) = IF 5 <= n THEN n - 5 + 1 ELSE 0
              /\ \A k \in 1 .. n - 5 + 1 : SubSeq(wanted, 5, n)[k] = wanted[5 + k - 1]
            BY <3>1, <3>2, SubSeqProperties
        <3> QED BY <3>1, <3>3, <3>4 DEF n
    <2>11. Front(lines) = front
        BY DEF Front
    <2> HIDE DEF message, front
    <2>12. front = message
        <3>1. Len(front) = Len(message) /\ \A k \in 1 .. Len(front) : front[k] = message[k]
            BY <2>9, <2>10
        <3> QED BY <2>9, <2>10, <3>1, SeqEqual
    <2>13. Filed(front) = front
        <3>1. \A k \in 1 .. Len(front) : ~ (front[k] # <<>> /\ front[k][1] = ".")
            BY <2>10, <2>12, LenProperties
        <3>2. Filed(front) = [k \in 1 .. Len(front) |-> front[k]]
            BY <3>1 DEF Filed
        <3>3. front = [k \in 1 .. Len(front) |-> front[k]]
            BY <2>9
        <3> QED BY <3>2, <3>3
    <2> QED BY <2>8, <2>11, <2>12, <2>13
<1> QED BY <1>1, <1>2, PTL

-----------------------------------------------------------------------------
\* A call still to be made; a tool not yet started; the calls that ask for something;
\* all of them.
Due(call) == \E m \in DOMAIN calls : calls[m] = call
Idle == calls = <<>> /\ sshCode = "none"
Requests == {"request_exec", "scp_new"}
Calls == {"ssh_new", "ssh_connect", "publickey", "hash", "known_server", "password",
          "channel_new", "open_session", "request_exec", "channel_read",
          "scp_new", "scp_init", "pull_request", "malloc", "scp_read", "pull_eof"}

\* The calls that are still to be made are in order: the host key is checked once and
\* before the password is sent, and that before anything is requested.
SshOrder ==
    /\ calls \in Seq(Calls)
    /\ \A m \in DOMAIN calls : \A n \in DOMAIN calls :
          calls[m] = "known_server" /\ calls[n] \in {"known_server", "password"} \cup Requests => m <= n
    /\ \A m \in DOMAIN calls : \A n \in DOMAIN calls :
          calls[m] = "password" /\ calls[n] \in {"password"} \cup Requests => m <= n

\* What is still to be called has not been done, and what has gone before has.
SshInv ==
    /\ SshOrder
    /\ Due("known_server") \/ Idle =>
          keyboard = keys /\ known = "none" /\ ~ consented /\ ~ remembered /\ password = "none"
    /\ Due("password") \/ Idle => request = "none"
    /\ Due("password") => Due("known_server") \/ known = "ok" \/ consented
    /\ (\E call \in Requests : Due(call)) => Due("password") \/ loggedIn
    /\ keys \in Seq(STRING)
    /\ TrustBeforeSecret

\* The host key comes fifth and the password sixth; what may come then is neither.
OrderOfTool(tool) ==
    /\ tool \in Seq(Calls)
    /\ \A m \in 1 .. Len(tool) :
          /\ tool[m] = "known_server" => m = 5
          /\ tool[m] = "password" => m = 6
          /\ tool[m] \in Requests => m > 6
          /\ m >= 5 => tool[5] = "known_server"
          /\ m >= 6 => tool[6] = "password"

\* The sequence of two tools is that of ssh_auth and more.
LEMMA LongerTool ==
    ASSUME NEW last \in Seq(Calls), OrderOfTool(SshAuth), Len(SshAuth) = 6,
           \A m \in 1 .. Len(last) : last[m] \notin {"known_server", "password"}
    PROVE  OrderOfTool(SshAuth \o last)
<1>1. SshAuth \in Seq(Calls)
    BY DEF OrderOfTool
<1>2. /\ SshAuth \o last \in Seq(Calls)
      /\ Len(SshAuth \o last) = 6 + Len(last) /\ Len(last) \in Nat
      /\ \A m \in 1 .. 6 + Len(last) :
            (SshAuth \o last)[m] = IF m <= 6 THEN SshAuth[m] ELSE last[m - 6]
    <2>1. /\ SshAuth \o last \in Seq(Calls)
          /\ Len(SshAuth \o last) = Len(SshAuth) + Len(last)
          /\ \A m \in 1 .. Len(SshAuth) + Len(last) :
                (SshAuth \o last)[m] = IF m <= Len(SshAuth) THEN SshAuth[m] ELSE last[m - Len(SshAuth)]
        BY <1>1, ConcatProperties
    <2> QED BY <2>1, LenProperties
<1> QED BY <1>2 DEF OrderOfTool, Requests

\* The calls of the four tools are in order.
LEMMA Tools ==
    ASSUME NEW tool \in {SshConnect, SshAuth, SshCommand, SshDownload}
    PROVE  OrderOfTool(tool)
<1> DEFINE auth == <<"publickey", "hash", "known_server", "password">>
           command == <<"channel_new", "open_session", "request_exec", "channel_read">>
           download == <<"scp_new", "scp_init", "pull_request", "malloc", "scp_read", "pull_eof">>
<1>1. /\ SshConnect \in Seq(Calls) /\ Len(SshConnect) = 2
      /\ SshConnect[1] = "ssh_new" /\ SshConnect[2] = "ssh_connect"
    BY DEF SshConnect, Calls
<1>2. /\ auth \in Seq(Calls) /\ Len(auth) = 4
      /\ auth[1] = "publickey" /\ auth[2] = "hash"
      /\ auth[3] = "known_server" /\ auth[4] = "password"
    BY DEF Calls
<1>3. /\ SshConnect \o auth \in Seq(Calls) /\ Len(SshConnect \o auth) = 6
      /\ \A m \in 1 .. 6 : (SshConnect \o auth)[m] = IF m <= 2 THEN SshConnect[m] ELSE auth[m - 2]
    <2> HIDE DEF auth
    <2>1. /\ SshConnect \o auth \in Seq(Calls)
          /\ Len(SshConnect \o auth) = Len(SshConnect) + Len(auth)
          /\ \A m \in 1 .. Len(SshConnect) + Len(auth) :
                (SshConnect \o auth)[m] =
                    IF m <= Len(SshConnect) THEN SshConnect[m] ELSE auth[m - Len(SshConnect)]
        BY <1>1, <1>2, ConcatProperties
    <2> QED BY <1>1, <1>2, <2>1
<1>4. OrderOfTool(SshConnect)
    BY <1>1 DEF OrderOfTool, Requests
<1>5. OrderOfTool(SshAuth) /\ Len(SshAuth) = 6
    <2>1. SshAuth = SshConnect \o auth
        BY DEF SshAuth
    <2> HIDE DEF auth
    <2> QED BY <1>1, <1>2, <1>3, <2>1, SMTT(40) DEF OrderOfTool, Requests
<1>6. command \in Seq(Calls) /\ \A m \in 1 .. Len(command) : command[m] \notin {"known_server", "password"}
    BY DEF Calls
<1>7. download \in Seq(Calls) /\ \A m \in 1 .. Len(download) : download[m] \notin {"known_server", "password"}
    BY DEF Calls
<1>8. SshCommand = SshAuth \o command /\ SshDownload = SshAuth \o download
    BY DEF SshCommand, SshDownload
<1> HIDE DEF command, download
<1> QED BY <1>4, <1>5, <1>6, <1>7, <1>8, LongerTool

-----------------------------------------------------------------------------
\* What a call that succeeds leaves to be called.
LEMMA SucceedFacts ==
    ASSUME SshOrder, calls # <<>>, Succeed
    PROVE  /\ SshOrder' /\ ~ Idle' /\ ~ Idle
           /\ \A c : Due(c) <=> c = Head(calls) \/ Due(c)'
           /\ Head(calls) = "known_server" => ~ Due("known_server")'
           /\ Head(calls) = "password" => ~ Due("known_server") /\ ~ Due("password")'
           /\ Head(calls) \in Requests => ~ Due("known_server") /\ ~ Due("password")
<1>1. /\ calls \in Seq(Calls) /\ calls' = Tail(calls)
      /\ Len(calls) \in Nat /\ Len(calls) > 0 /\ DOMAIN calls = 1 .. Len(calls)
      /\ Head(calls) = calls[1]
    BY LenProperties DEF SshOrder, Succeed
<1>2. /\ calls' \in Seq(Calls) /\ Len(calls') = Len(calls) - 1
      /\ DOMAIN calls' = 1 .. Len(calls) - 1
      /\ \A m \in 1 .. Len(calls) - 1 : calls'[m] = calls[m + 1]
    <2>1. /\ Tail(calls) \in Seq(Calls) /\ Len(Tail(calls)) = Len(calls) - 1
          /\ \A m \in 1 .. Len(Tail(calls)) : Tail(calls)[m] = calls[m + 1]
        BY <1>1, HeadTailProperties
    <2>2. DOMAIN Tail(calls) = 1 .. Len(Tail(calls))
        BY <2>1, LenProperties
    <2> QED BY <1>1, <2>1, <2>2
<1>3. SshOrder'
    <2>1. ASSUME NEW m \in DOMAIN calls', NEW n \in DOMAIN calls'
          PROVE  /\ m + 1 \in DOMAIN calls /\ n + 1 \in DOMAIN calls
                 /\ calls'[m] = calls[m + 1] /\ calls'[n] = calls[n + 1]
                 /\ m + 1 <= n + 1 => m <= n
        BY <1>1, <1>2
    <2> QED BY <1>2, <2>1 DEF SshOrder
<1>4. ~ Idle' /\ ~ Idle
    <2>1. calls' = <<>> => sshCode' = "0"
        BY <1>1, <1>2 DEF Succeed
    <2> QED BY <2>1 DEF Idle
<1>5. ASSUME NEW c
      PROVE  Due(c) <=> c = Head(calls) \/ Due(c)'
    <2>1. ASSUME NEW m \in DOMAIN calls, calls[m] = c, c # Head(calls)
          PROVE  m - 1 \in DOMAIN calls' /\ calls'[m - 1] = c
        BY <1>1, <1>2, <2>1
    <2>2. ASSUME NEW m \in DOMAIN calls'
          PROVE  m + 1 \in DOMAIN calls /\ calls[m + 1] = calls'[m]
        BY <1>1, <1>2
    <2>3. 1 \in DOMAIN calls /\ calls[1] = Head(calls)
        BY <1>1
    <2> QED BY <2>1, <2>2, <2>3 DEF Due
<1>6. ASSUME NEW m \in DOMAIN calls'
      PROVE  m + 1 \in DOMAIN calls /\ calls'[m] = calls[m + 1] /\ ~ (m + 1 <= 1)
    BY <1>1, <1>2
<1>7. 1 \in DOMAIN calls /\ calls[1] = Head(calls)
    BY <1>1
<1>8. \A m \in DOMAIN calls : m <= 1 => calls[m] = Head(calls)
    BY <1>1
<1>9. Head(calls) = "known_server" => ~ Due("known_server")'
    BY <1>6, <1>7 DEF SshOrder, Due
<1>10. Head(calls) = "password" => ~ Due("known_server") /\ ~ Due("password")'
    BY <1>6, <1>7, <1>8 DEF SshOrder, Due
<1>11. Head(calls) \in Requests => ~ Due("known_server") /\ ~ Due("password")
    BY <1>7, <1>8 DEF SshOrder, Due, Requests
<1> QED BY <1>3, <1>4, <1>5, <1>9, <1>10, <1>11

\* A call that fails leaves nothing to be called.
LEMMA ExitFacts ==
    ASSUME NEW code, code # "none", SshExit(code)
    PROVE  SshOrder' /\ ~ Idle' /\ \A c : ~ Due(c)'
<1>1. calls' = <<>> /\ DOMAIN calls' = {} /\ sshCode' # "none"
    BY DEF SshExit
<1> QED BY <1>1 DEF SshOrder, Idle, Due

\* A call that concerns neither the host key nor the password.
LEMMA OtherCall ==
    ASSUME SshInv, calls # <<>>, Head(calls) \notin {"known_server", "password"},
           Succeed \/ SshExit("0") \/ SshExit("1") \/ SshExit("255"),
           UNCHANGED <<keyboard, known, consented, remembered, password, loggedIn, request, keys>>
    PROVE  SshInv'
<1>1. CASE Succeed
    BY <1>1, SucceedFacts DEF SshInv, TrustBeforeSecret
<1>2. CASE SshExit("0") \/ SshExit("1") \/ SshExit("255")
    BY <1>2, ExitFacts DEF SshInv, TrustBeforeSecret
<1> QED BY <1>1, <1>2

\* A tool that has not started has asked, sent and requested nothing.
LEMMA SshInitInv == SshInit => SshInv
<1> SUFFICES ASSUME SshInit PROVE SshInv
    OBVIOUS
<1>1. calls = <<>> /\ DOMAIN calls = {} /\ keys = <<>> /\ keys \in Seq(STRING)
    BY DEF SshInit
<1> QED BY <1>1 DEF SshInit, SshInv, SshOrder, Due, TrustBeforeSecret

\* Every call keeps the invariant.
LEMMA SshNextInv == SshInv /\ [SshNext]_sshVars => SshInv'
<1> SUFFICES ASSUME SshInv, [SshNext]_sshVars PROVE SshInv'
    OBVIOUS
<1>1. CASE SshStart
    <2>1. /\ Idle /\ sshCode' = "none"
          /\ calls' \in {SshConnect, SshAuth, SshCommand, SshDownload}
          /\ keys' \in Seq(STRING) /\ keyboard' = keys'
          /\ UNCHANGED <<known, consented, remembered, password, loggedIn, request>>
        BY <1>1, SshAssumption DEF SshStart, Idle
    <2>2. OrderOfTool(calls')
        BY <2>1, Tools
    <2>3. DOMAIN calls' = 1 .. Len(calls') /\ Len(calls') \in Nat
        BY <2>2, LenProperties DEF OrderOfTool
    <2>4. SshOrder'
        <3>1. \A m \in DOMAIN calls' : m \in Nat
            BY <2>3
        <3> QED BY <2>2, <2>3, <3>1 DEF OrderOfTool, SshOrder
    <2>5. Due("password")' => Due("known_server")'
        <3>1. ASSUME NEW m \in DOMAIN calls', calls'[m] = "password"
              PROVE  5 \in DOMAIN calls' /\ calls'[5] = "known_server"
            BY <2>2, <2>3, <3>1 DEF OrderOfTool
        <3> QED BY <3>1 DEF Due
    <2>6. \A call \in Requests : Due(call)' => Due("password")'
        <3>1. ASSUME NEW m \in DOMAIN calls', calls'[m] \in Requests
              PROVE  6 \in DOMAIN calls' /\ calls'[6] = "password"
            BY <2>2, <2>3, <3>1 DEF OrderOfTool
        <3> QED BY <3>1 DEF Due
    <2>7. known = "none" /\ ~ consented /\ ~ remembered /\ password = "none" /\ request = "none"
        BY <2>1 DEF SshInv
    <2> QED BY <2>1, <2>4, <2>5, <2>6, <2>7 DEF SshInv, TrustBeforeSecret
<1>2. CASE PlainCall
    <2>1. /\ calls # <<>> /\ Head(calls) \in DOMAIN Failure
          /\ Succeed \/ SshExit(Failure[Head(calls)])
          /\ UNCHANGED <<keyboard, known, consented, remembered, password, loggedIn, request, keys>>
        BY <1>2 DEF PlainCall
    <2>2. Head(calls) \notin {"known_server", "password"}
          /\ Failure[Head(calls)] \in {"0", "1", "255"}
        BY <2>1 DEF Failure
    <2> QED BY <2>1, <2>2, OtherCall
<1>3. CASE CheckHost
    <2>1. /\ calls # <<>> /\ Head(calls) = "known_server"
          /\ UNCHANGED <<password, loggedIn, request, keys>>
        BY <1>3 DEF CheckHost, Making
    <2>2. SshOrder /\ Due("known_server")
        <3>1. 1 \in DOMAIN calls /\ calls[1] = Head(calls)
            BY <2>1, LenProperties DEF SshInv, SshOrder
        <3> QED BY <2>1, <3>1 DEF SshInv, Due
    <2>3. keyboard = keys /\ known = "none" /\ ~ consented /\ ~ remembered /\ password = "none"
        BY <2>2 DEF SshInv
    <2>4. \/ /\ Succeed /\ known' = "ok" /\ UNCHANGED <<consented, remembered>>
          \/ /\ Succeed /\ known' \notin {"ok", "error"} /\ known' \in KnownHost /\ consented'
             /\ keys # <<>> => keys[1] \in Yes
          \/ (SshExit("0") \/ SshExit("1")) /\ UNCHANGED <<consented, remembered>>
        <3>1. ASSUME NEW answer, SshGets(answer), answer \in Yes, keys # <<>>
              PROVE  keys[1] \in Yes
            <4>1. answer = Head(keys)
                BY <2>3, <3>1 DEF SshGets
            <4>2. Head(keys) = keys[1]
                BY <3>1 DEF SshInv
            <4> QED BY <3>1, <4>1, <4>2
        <3> QED BY <1>3, <3>1 DEF CheckHost
    <2>5. CASE Succeed /\ known' = "ok" /\ UNCHANGED <<consented, remembered>>
        BY <2>1, <2>2, <2>3, <2>5, SucceedFacts DEF SshInv, TrustBeforeSecret
    <2>6. CASE /\ Succeed /\ known' \notin {"ok", "error"} /\ known' \in KnownHost /\ consented'
               /\ keys # <<>> => keys[1] \in Yes
        BY <2>1, <2>2, <2>3, <2>6, SucceedFacts DEF SshInv, TrustBeforeSecret, KnownHost
    <2>7. CASE (SshExit("0") \/ SshExit("1")) /\ UNCHANGED <<consented, remembered>>
        BY <2>1, <2>2, <2>3, <2>7, ExitFacts DEF SshInv, TrustBeforeSecret
    <2> QED BY <2>4, <2>5, <2>6, <2>7
<1>4. CASE Login
    <2>1. /\ calls # <<>> /\ Head(calls) = "password"
          /\ (loggedIn' = TRUE /\ Succeed) \/ SshExit("0")
          /\ UNCHANGED <<known, consented, remembered, request, keys>>
        BY <1>4 DEF Login, Making
    <2>2. SshOrder /\ Due("password")
        <3>1. 1 \in DOMAIN calls /\ calls[1] = Head(calls)
            BY <2>1, LenProperties DEF SshInv, SshOrder
        <3> QED BY <2>1, <3>1 DEF SshInv, Due
    <2>3. ~ Due("known_server")
        BY <2>1, <2>2 DEF SshOrder, Due
    <2>4. (known = "ok" \/ consented) /\ request = "none"
        BY <2>2, <2>3 DEF SshInv
    <2>5. CASE loggedIn' = TRUE /\ Succeed
        BY <2>1, <2>2, <2>4, <2>5, SucceedFacts DEF SshInv, TrustBeforeSecret
    <2>6. CASE SshExit("0")
        BY <2>1, <2>4, <2>6, ExitFacts DEF SshInv, TrustBeforeSecret
    <2> QED BY <2>1, <2>5, <2>6
<1>5. CASE Request
    <2>1. /\ calls # <<>> /\ Head(calls) \in Requests
          /\ Succeed \/ SshExit("1")
          /\ UNCHANGED <<known, consented, remembered, password, loggedIn, keys>>
        BY <1>5 DEF Request, Making, Requests
    <2>2. SshOrder /\ \E call \in Requests : Due(call)
        <3>1. 1 \in DOMAIN calls /\ calls[1] = Head(calls)
            BY <2>1, LenProperties DEF SshInv, SshOrder
        <3> QED BY <2>1, <3>1 DEF SshInv, Due
    <2>3. ~ Due("password") /\ loggedIn
        <3>1. 1 \in DOMAIN calls /\ calls[1] = Head(calls) /\ \A m \in DOMAIN calls : m <= 1 => m = 1
            BY <2>1, LenProperties DEF SshInv, SshOrder
        <3>2. ~ Due("password")
            BY <2>1, <2>2, <3>1 DEF SshOrder, Due, Requests
        <3> QED BY <2>2, <3>2 DEF SshInv
    <2>4. CASE Succeed
        BY <2>1, <2>2, <2>3, <2>4, SucceedFacts DEF SshInv, TrustBeforeSecret
    <2>5. CASE SshExit("1")
        BY <2>1, <2>3, <2>5, ExitFacts DEF SshInv, TrustBeforeSecret
    <2> QED BY <2>1, <2>4, <2>5
<1>6. CASE ReadOutput \/ ScpRead \/ PullEof
    <2>1. /\ calls # <<>> /\ Head(calls) \notin {"known_server", "password"}
          /\ UNCHANGED <<keyboard, known, consented, remembered, password, loggedIn, request, keys>>
        BY <1>6 DEF ReadOutput, ScpRead, PullEof, Making
    <2>2. Succeed \/ SshExit("1") \/ UNCHANGED <<calls, sshCode>>
        BY <1>6 DEF ReadOutput, ScpRead, PullEof
    <2>3. CASE Succeed \/ SshExit("1")
        BY <2>1, <2>3, OtherCall
    <2>4. CASE UNCHANGED <<calls, sshCode>>
        BY <2>1, <2>4 DEF SshInv, SshOrder, Idle, Due, TrustBeforeSecret
    <2> QED BY <2>2, <2>3, <2>4
<1>7. CASE UNCHANGED sshVars
    BY <1>7 DEF sshVars, SshInv, SshOrder, Idle, Due, TrustBeforeSecret
<1> QED BY <1>1, <1>2, <1>3, <1>4, <1>5, <1>6, <1>7 DEF SshNext

\* No tool sends the password to a host that is not trusted, or a request before it
\* has logged in, whatever is typed and whichever calls fail.
THEOREM SshTrustBeforeSecret == SshSpec => []TrustBeforeSecret
<1>1. SshSpec => []SshInv
    BY SshInitInv, SshNextInv, PTL DEF SshSpec
<1>2. SshInv => TrustBeforeSecret
    BY DEF SshInv
<1> QED BY <1>1, <1>2, PTL

-----------------------------------------------------------------------------
\* The calls up to the request, and the last ones of the tools.
Early == {"ssh_new", "ssh_connect", "publickey", "hash", "known_server", "password",
          "channel_new", "open_session"} \cup Requests
Finals == {"ssh_connect", "password", "channel_read", "pull_eof"}

\* The calls end as those of a tool do: one request after all that precedes it, then
\* one call that reads a file or those that read the output of a command.
EndsWell(todo) ==
    /\ todo # <<>> => todo[Len(todo)] \in Finals
    /\ \A m \in DOMAIN todo : \A n \in DOMAIN todo :
          /\ todo[m] \in Requests /\ todo[n] \in Early => n <= m
          /\ todo[m] = "scp_read" /\ todo[n] \in {"scp_read", "channel_read"} => n = m

\* What may be printed: what is received, and what malloc() left.
Bytes == STRING \cup {"junk"}

\* What is printed is what is received, or less of it when a zero byte is among it.
Shown ==
    IF \E k \in 1 .. got : remote[k] = "0" THEN Len(output) < got
                                           ELSE output = SubSeq(remote, 1, got)

\* Nothing is received before the call that receives it, and what is then printed is
\* what is received; a file that is not all received is never reported as such.
OutputInv ==
    /\ calls \in Seq(Calls) /\ EndsWell(calls)
    /\ remote \in Seq(STRING) /\ output \in Seq(Bytes) /\ got \in 0 .. Len(remote)
    /\ Idle \/ (\E call \in Early : Due(call)) => request = "none"
    /\ Idle \/ Due("scp_read") => got = 0 /\ output = <<>>
    /\ Due("channel_read") \/ (Due("pull_eof") /\ got = Len(remote)) => Shown
    /\ request # "none" /\ sshCode = "0" => got = Len(remote) /\ Shown

\* The last call of a tool that ends well ends it; a request is the last of the calls
\* that come before the answer, and a file is read once and not as an output.
LEMMA TailEndsWell ==
    ASSUME NEW todo \in Seq(Calls), todo # <<>>, EndsWell(todo)
    PROVE  /\ Tail(todo) \in Seq(Calls) /\ EndsWell(Tail(todo))
           /\ Len(todo) = 1 => Head(todo) \in Finals
           /\ Head(todo) \in Requests => \A n \in DOMAIN Tail(todo) : Tail(todo)[n] \notin Early
           /\ Head(todo) = "scp_read" =>
                 \A n \in DOMAIN Tail(todo) : Tail(todo)[n] \notin {"scp_read", "channel_read"}
           /\ Head(todo) = "channel_read" => \A n \in DOMAIN Tail(todo) : Tail(todo)[n] # "scp_read"
<1> DEFINE rest == Tail(todo)
<1>1. /\ Len(todo) \in Nat /\ Len(todo) > 0 /\ DOMAIN todo = 1 .. Len(todo)
      /\ Head(todo) = todo[1] /\ 1 \in DOMAIN todo
    BY LenProperties
<1>2. /\ rest \in Seq(Calls) /\ Len(rest) = Len(todo) - 1
      /\ \A m \in 1 .. Len(rest) : rest[m] = todo[m + 1]
    BY HeadTailProperties
<1> HIDE DEF rest
<1>3. DOMAIN rest = 1 .. Len(todo) - 1
    BY <1>2, LenProperties
<1>4. \A m \in DOMAIN rest : m + 1 \in DOMAIN todo /\ m + 1 # 1 /\ ~ (m + 1 <= 1) /\ rest[m] = todo[m + 1]
    BY <1>1, <1>2, <1>3
<1>5. \A m \in DOMAIN rest : \A n \in DOMAIN rest :
          (m + 1 <= n + 1 => m <= n) /\ (m + 1 = n + 1 => m = n)
    BY <1>3
<1>6. rest # <<>> => rest[Len(rest)] \in Finals
    <2> SUFFICES ASSUME rest # <<>> PROVE rest[Len(rest)] \in Finals
        OBVIOUS
    <2>1. Len(rest) \in DOMAIN rest /\ Len(rest) + 1 = Len(todo)
        BY <1>1, <1>2, <1>3, EmptySeq
    <2> QED BY <1>4, <2>1 DEF EndsWell
<1>7. EndsWell(rest)
    <2>1. ASSUME NEW m \in DOMAIN rest, NEW n \in DOMAIN rest
          PROVE  /\ rest[m] \in Requests /\ rest[n] \in Early => n <= m
                 /\ rest[m] = "scp_read" /\ rest[n] \in {"scp_read", "channel_read"} => n = m
        BY <1>4, <1>5 DEF EndsWell
    <2> QED BY <1>6, <2>1 DEF EndsWell
<1>8. Len(todo) = 1 => Head(todo) \in Finals
    BY <1>1 DEF EndsWell
<1>9. ASSUME NEW n \in DOMAIN rest
      PROVE  /\ Head(todo) \in Requests => rest[n] \notin Early
             /\ Head(todo) = "scp_read" => rest[n] \notin {"scp_read", "channel_read"}
             /\ Head(todo) = "channel_read" => rest[n] # "scp_read"
    BY <1>1, <1>4 DEF EndsWell
<1> QED BY <1>2, <1>7, <1>8, <1>9 DEF rest

\* What ssh_auth calls, and then calls that end well, end well.
LEMMA LongerEndsWell ==
    ASSUME NEW first \in Seq(Early \ Requests), NEW last \in Seq(Calls), last # <<>>, EndsWell(last)
    PROVE  first \o last \in Seq(Calls) /\ EndsWell(first \o last)
<1> DEFINE tool == first \o last
<1>1. /\ Len(first) \in Nat /\ Len(last) \in Nat /\ Len(last) > 0
      /\ DOMAIN first = 1 .. Len(first) /\ DOMAIN last = 1 .. Len(last)
      /\ \A m \in 1 .. Len(first) : first[m] \in Early \ Requests
    BY LenProperties, ElementOfSeq
<1>2. first \in Seq(Calls)
    <2>1. Early \ Requests \subseteq Calls
        BY DEF Early, Calls, Requests
    <2> QED BY <2>1
<1>3. /\ tool \in Seq(Calls) /\ Len(tool) = Len(first) + Len(last)
      /\ \A m \in 1 .. Len(first) + Len(last) :
            tool[m] = IF m <= Len(first) THEN first[m] ELSE last[m - Len(first)]
    BY <1>2, ConcatProperties
<1> HIDE DEF tool
<1>4. DOMAIN tool = 1 .. Len(first) + Len(last)
    BY <1>3, LenProperties
<1>5. tool[Len(tool)] \in Finals
    BY <1>1, <1>3 DEF EndsWell
<1>6. ASSUME NEW m \in DOMAIN tool, NEW n \in DOMAIN tool
      PROVE  /\ tool[m] \in Requests /\ tool[n] \in Early => n <= m
             /\ tool[m] = "scp_read" /\ tool[n] \in {"scp_read", "channel_read"} => n = m
    <2>1. \A k \in DOMAIN tool : k <= Len(first) => tool[k] \in Early \ Requests
        BY <1>1, <1>3, <1>4
    <2>2. \A k \in DOMAIN tool : ~ (k <= Len(first)) =>
              k - Len(first) \in DOMAIN last /\ tool[k] = last[k - Len(first)]
        BY <1>1, <1>3, <1>4
    <2>3. CASE ~ (m <= Len(first)) /\ ~ (n <= Len(first))
        <3> DEFINE i == m - Len(first)
                   j == n - Len(first)
        <3>1. /\ i \in DOMAIN last /\ j \in DOMAIN last /\ tool[m] = last[i] /\ tool[n] = last[j]
              /\ (j <= i => n <= m) /\ (j = i => n = m)
            BY <1>1, <1>4, <2>2, <2>3
        <3> HIDE DEF i, j
        <3> QED BY <3>1 DEF EndsWell
    <2>4. CASE m <= Len(first)
        BY <2>1, <2>4 DEF Early, Requests
    <2>5. CASE n <= Len(first) /\ ~ (m <= Len(first))
        <3>1. n <= m
            BY <1>1, <1>4, <2>5
        <3> QED BY <2>1, <2>5, <3>1 DEF Early, Requests
    <2> QED BY <2>3, <2>4, <2>5
<1> QED BY <1>3, <1>5, <1>6 DEF EndsWell, tool

\* The four tools end well.
LEMMA ToolsEndWell ==
    ASSUME NEW tool \in {SshConnect, SshAuth, SshCommand, SshDownload}
    PROVE  tool \in Seq(Calls) /\ EndsWell(tool)
<1> DEFINE connect == <<"ssh_new", "ssh_connect">>
           auth == <<"publickey", "hash", "known_server", "password">>
           command == <<"channel_new", "open_session", "request_exec", "channel_read">>
           download == <<"scp_new", "scp_init", "pull_request", "malloc", "scp_read", "pull_eof">>
<1>1. /\ connect \in Seq(Early \ Requests) /\ connect \in Seq(Calls) /\ EndsWell(connect)
      /\ auth \in Seq(Early \ Requests) /\ auth \in Seq(Calls) /\ EndsWell(auth)
      /\ auth # <<>>
    BY DEF Early, Requests, Calls, Finals, EndsWell
<1>2. command \in Seq(Calls) /\ command # <<>> /\ EndsWell(command)
    BY DEF Early, Requests, Calls, Finals, EndsWell
<1>3. download \in Seq(Calls) /\ download # <<>> /\ EndsWell(download)
    BY DEF Early, Requests, Calls, Finals, EndsWell
<1>4. /\ SshConnect = connect /\ SshAuth = connect \o auth
      /\ SshCommand = SshAuth \o command /\ SshDownload = SshAuth \o download
    BY DEF SshConnect, SshAuth, SshCommand, SshDownload
<1> HIDE DEF connect, auth, command, download
<1>5. SshAuth \in Seq(Early \ Requests)
    BY <1>1, <1>4, ConcatProperties
<1>6. SshAuth \in Seq(Calls) /\ EndsWell(SshAuth)
    BY <1>1, <1>4, LongerEndsWell
<1> QED BY <1>1, <1>2, <1>3, <1>4, <1>5, <1>6, LongerEndsWell

\* printf prints all of a text in which there is no zero byte, and else less of it.
LEMMA PrintedFacts ==
    ASSUME NEW S, NEW text \in Seq(S)
    PROVE  /\ Printed(text) \in Seq(S)
           /\ IF \E k \in 1 .. Len(text) : text[k] = "0" THEN Len(Printed(text)) < Len(text)
                                                        ELSE Printed(text) = text
<1> DEFINE zeros == {k \in DOMAIN text : text[k] = "0"}
           end == Min(zeros \cup {Len(text) + 1})
<1>1. Len(text) \in Nat /\ DOMAIN text = 1 .. Len(text)
    BY LenProperties
<1>2. zeros \cup {Len(text) + 1} \in SUBSET Nat /\ zeros \cup {Len(text) + 1} # {}
    BY <1>1
<1>3. end \in zeros \cup {Len(text) + 1} /\ \A k \in zeros \cup {Len(text) + 1} : end <= k
    <2> HIDE DEF zeros
    <2> QED BY <1>2, MinOfNats
<1>4. Printed(text) = SubSeq(text, 1, end - 1)
    BY DEF Printed
<1>5. end \in 1 .. Len(text) + 1
    <2> HIDE DEF end
    <2> QED BY <1>1, <1>3
<1>6. (\E k \in 1 .. Len(text) : text[k] = "0") => end <= Len(text)
    <2> HIDE DEF end
    <2> QED BY <1>1, <1>3, <1>5
<1>7. ~ (\E k \in 1 .. Len(text) : text[k] = "0") => end = Len(text) + 1
    <2> HIDE DEF end
    <2> QED BY <1>1, <1>3
<1> HIDE DEF zeros, end
<1>8. \A k \in 1 .. end - 1 : text[k] \in S
    BY <1>1, <1>5, ElementOfSeq
<1>9. SubSeq(text, 1, end - 1) \in Seq(S) /\ Len(SubSeq(text, 1, end - 1)) = end - 1
    <2>1. end - 1 \in Int /\ 1 \in Int /\ (1 <= end - 1 \/ end - 1 = 0) /\ (end - 1) - 1 + 1 = end - 1
        BY <1>5
    <2> DEFINE e == end - 1
    <2> HIDE DEF e
    <2>2. /\ SubSeq(text, 1, e) \in Seq(S)
          /\ Len(SubSeq(text, 1, e)) = IF 1 <= e THEN e - 1 + 1 ELSE 0
        BY <1>8, <2>1, SubSeqProperties DEF e
    <2> QED BY <2>1, <2>2 DEF e
<1>10. end = Len(text) + 1 => SubSeq(text, 1, end - 1) = text
    BY <1>1, SubSeqFull
<1> QED BY <1>1, <1>4, <1>5, <1>6, <1>7, <1>9, <1>10

\* What a call that succeeds leaves to be called, and when it is the last one.
LEMMA SucceedLeaves ==
    ASSUME calls \in Seq(Calls), EndsWell(calls), calls # <<>>, Succeed
    PROVE  /\ calls' \in Seq(Calls) /\ EndsWell(calls') /\ ~ Idle'
           /\ Due(Head(calls)) /\ \A c : Due(c)' => Due(c)
           /\ sshCode' = "0" => Head(calls) \in Finals
           /\ Head(calls) \in Requests => \A c \in Early : ~ Due(c)'
           /\ Head(calls) = "scp_read" => ~ Due("scp_read")' /\ ~ Due("channel_read")'
<1>1. calls' = Tail(calls) /\ sshCode' = IF Len(calls) = 1 THEN "0" ELSE "none"
    BY DEF Succeed
<1>2. /\ Len(calls) \in Nat /\ Len(calls) > 0 /\ DOMAIN calls = 1 .. Len(calls)
      /\ Head(calls) = calls[1] /\ 1 \in DOMAIN calls
      /\ Len(calls') = Len(calls) - 1
      /\ \A m \in 1 .. Len(calls') : calls'[m] = calls[m + 1]
    BY <1>1, LenProperties, HeadTailProperties
<1>3. /\ calls' \in Seq(Calls) /\ EndsWell(calls')
      /\ Len(calls) = 1 => Head(calls) \in Finals
      /\ Head(calls) \in Requests => \A n \in DOMAIN calls' : calls'[n] \notin Early
      /\ Head(calls) = "scp_read" =>
            \A n \in DOMAIN calls' : calls'[n] \notin {"scp_read", "channel_read"}
    BY <1>1, TailEndsWell
<1>4. DOMAIN calls' = 1 .. Len(calls')
    BY <1>3, LenProperties
<1>5. \A m \in DOMAIN calls' : m + 1 \in DOMAIN calls /\ calls'[m] = calls[m + 1]
    BY <1>2, <1>4
<1>6. ~ Idle'
    <2>1. \A n \in Nat : 0 = n - 1 => n = 1
        OBVIOUS
    <2>2. calls' = <<>> => Len(calls) = 1
        <3>1. calls' = <<>> => Len(calls') = 0
            OBVIOUS
        <3> QED BY <1>2, <2>1, <3>1
    <2> QED BY <1>1, <2>2 DEF Idle
<1>7. Due(Head(calls)) /\ \A c : Due(c)' => Due(c)
    BY <1>2, <1>5 DEF Due
<1>8. /\ Head(calls) \in Requests => \A c \in Early : ~ Due(c)'
      /\ Head(calls) = "scp_read" => ~ Due("scp_read")' /\ ~ Due("channel_read")'
    BY <1>3 DEF Due
<1> QED BY <1>1, <1>3, <1>6, <1>7, <1>8

\* Nothing is left to be called, which ends well, after one that fails.
LEMMA ExitLeaves ==
    ASSUME NEW code, code # "none", SshExit(code)
    PROVE  /\ calls' \in Seq(Calls) /\ EndsWell(calls') /\ ~ Idle'
           /\ \A c : ~ Due(c)'
           /\ sshCode' = code
<1>1. calls' = <<>> /\ DOMAIN calls' = {} /\ sshCode' = code
    BY DEF SshExit
<1> QED BY <1>1 DEF EndsWell, Idle, Due

\* A call that neither requests nor receives anything: it is not the last one, or
\* all is received; and a failure is a success only before the request.
LEMMA KeepsOutput ==
    ASSUME OutputInv, calls # <<>>,
           Succeed \/ SshExit("0") \/ SshExit("1") \/ SshExit("255"),
           Head(calls) \in {"channel_read", "pull_eof"} /\ Succeed => got = Len(remote),
           SshExit("0") => Head(calls) \in Early,
           UNCHANGED <<request, remote, got, output>>
    PROVE  OutputInv'
<1>1. Shown' = Shown
    BY DEF Shown
<1>2. Due(Head(calls))
    BY LenProperties DEF Due, OutputInv
<1>3. CASE Succeed
    <2>1. /\ calls' \in Seq(Calls) /\ EndsWell(calls') /\ ~ Idle'
          /\ \A c : Due(c)' => Due(c)
          /\ sshCode' = "0" => Head(calls) \in Finals
        BY <1>3, SucceedLeaves DEF OutputInv
    <2>2. request # "none" /\ sshCode' = "0" => Head(calls) \in {"channel_read", "pull_eof"}
        BY <1>2, <2>1 DEF Finals, Early, OutputInv
    <2>3. request # "none" /\ sshCode' = "0" => got = Len(remote) /\ Shown
        BY <1>2, <1>3, <2>2 DEF OutputInv
    <2> QED BY <1>1, <2>1, <2>3 DEF OutputInv
<1>4. CASE SshExit("0") \/ SshExit("1") \/ SshExit("255")
    <2>1. /\ calls' \in Seq(Calls) /\ EndsWell(calls') /\ ~ Idle'
          /\ \A c : ~ Due(c)'
          /\ sshCode' \in {"0", "1", "255"} /\ (sshCode' = "0" => SshExit("0"))
        BY <1>4, ExitLeaves DEF SshExit
    <2>2. sshCode' = "0" => request = "none"
        BY <1>2, <2>1 DEF OutputInv
    <2> QED BY <1>1, <2>1, <2>2 DEF OutputInv
<1> QED BY <1>3, <1>4

\* What a read receives is printed up to a zero byte.
LEMMA ReadIsShown ==
    ASSUME remote \in Seq(STRING), output \in Seq(Bytes), got \in 0 .. Len(remote), Shown,
           NEW n \in 1 .. Len(remote) - got,
           output' = output \o Printed(SubSeq(remote, got + 1, got + n)),
           got' = got + n, remote' = remote
    PROVE  output' \in Seq(Bytes) /\ got' \in 0 .. Len(remote) /\ Shown'
<1> DEFINE piece == SubSeq(remote, got + 1, got + n)
           new == Printed(piece)
<1>1. Len(remote) \in Nat /\ Len(output) \in Nat
    BY LenProperties
<1>2. /\ piece \in Seq(STRING) /\ Len(piece) = n
      /\ \A k \in 1 .. n : piece[k] = remote[got + k]
    <2>1. \A k \in got + 1 .. got + n : remote[k] \in STRING
        BY <1>1, ElementOfSeq
    <2>2. got + 1 \in Int /\ got + n \in Int
        BY <1>1
    <2>3. /\ piece \in Seq(STRING)
          /\ Len(piece) = IF got + 1 <= got + n THEN (got + n) - (got + 1) + 1 ELSE 0
          /\ \A k \in 1 .. (got + n) - (got + 1) + 1 : piece[k] = remote[(got + 1) + k - 1]
        BY <2>1, <2>2, SubSeqProperties
    <2> HIDE DEF piece
    <2>4. got + 1 <= got + n /\ (got + n) - (got + 1) + 1 = n
        BY <1>1
    <2>5. \A k \in 1 .. n : (got + 1) + k - 1 = got + k
        BY <1>1
    <2> QED BY <2>3, <2>4, <2>5
<1> HIDE DEF piece
<1>3. /\ new \in Seq(STRING) /\ new \in Seq(Bytes)
      /\ IF \E k \in 1 .. n : piece[k] = "0" THEN Len(new) < n ELSE new = piece
    <2>1. /\ new \in Seq(STRING)
          /\ IF \E k \in 1 .. n : piece[k] = "0" THEN Len(new) < n ELSE new = piece
        BY <1>2, PrintedFacts
    <2> HIDE DEF new
    <2> QED BY <2>1 DEF Bytes
<1>4. output' = output \o new
    BY DEF piece
<1> HIDE DEF new
<1>5. /\ output' \in Seq(Bytes) /\ Len(output') = Len(output) + Len(new) /\ Len(new) \in Nat
    <2>1. output \in Seq(Bytes) /\ new \in Seq(Bytes)
        BY <1>3
    <2>2. output \o new \in Seq(Bytes) /\ Len(output \o new) = Len(output) + Len(new)
        BY <2>1, ConcatProperties
    <2> QED BY <1>4, <2>1, <2>2, LenProperties
<1>6. (\E k \in 1 .. got' : remote[k] = "0") <=>
          (\E k \in 1 .. got : remote[k] = "0") \/ (\E k \in 1 .. n : piece[k] = "0")
    <2>1. \A k \in 1 .. got : k \in 1 .. got'
        BY <1>1
    <2>2. \A k \in 1 .. n : got + k \in 1 .. got' /\ piece[k] = remote[got + k]
        BY <1>1, <1>2
    <2>3. \A k \in 1 .. got' : k \in 1 .. got \/ (k - got \in 1 .. n /\ piece[k - got] = remote[k])
        <3> TAKE k \in 1 .. got'
        <3>1. CASE k > got
            <4>1. k - got \in 1 .. n /\ got + (k - got) = k
                BY <1>1, <3>1
            <4> QED BY <1>2, <4>1
        <3> QED BY <1>1, <3>1
    <2> QED BY <2>1, <2>2, <2>3
<1>7. CASE (\E k \in 1 .. got : remote[k] = "0") \/ (\E k \in 1 .. n : piece[k] = "0")
    <2>1. Len(output) <= got
        <3>1. Len(SubSeq(remote, 1, got)) = got
            BY <1>1
        <3> QED BY <1>1, <3>1 DEF Shown
    <2>2. Len(new) <= n
        BY <1>2, <1>3
    <2>3. Len(output') < got'
        BY <1>1, <1>2, <1>3, <1>5, <1>7, <2>1, <2>2 DEF Shown
    <2> QED BY <1>1, <1>5, <1>6, <1>7, <2>3 DEF Shown
<1>8. CASE ~ (\E k \in 1 .. got : remote[k] = "0") /\ ~ (\E k \in 1 .. n : piece[k] = "0")
    <2>1. output' = SubSeq(remote, 1, got) \o SubSeq(remote, got + 1, got + n)
        BY <1>3, <1>4, <1>8 DEF Shown, piece
    <2>2. /\ 1 \in 1 .. Len(remote) + 1 /\ got \in 1 - 1 .. Len(remote)
          /\ got + n \in got .. Len(remote)
        BY <1>1
    <2> DEFINE end == got + n
    <2>3. end \in got .. Len(remote)
        BY <2>2
    <2> HIDE DEF end
    <2>4. SubSeq(remote, 1, got) \o SubSeq(remote, got + 1, end) = SubSeq(remote, 1, end)
        BY <2>2, <2>3, ConcatAdjacentSubSeq
    <2>5. output' = SubSeq(remote, 1, got')
        BY <2>1, <2>4 DEF end
    <2>6. ~ \E k \in 1 .. got' : remote'[k] = "0"
        BY <1>6, <1>8
    <2>7. got' \in 0 .. Len(remote)
        BY <2>3 DEF end
    <2>8. Shown'
        BY <2>5, <2>6 DEF Shown
    <2> QED BY <1>5, <2>7, <2>8
<1> QED BY <1>7, <1>8

\* Nothing is received at the start.
LEMMA OutputInitInv == SshInit => OutputInv
<1> SUFFICES ASSUME SshInit PROVE OutputInv
    OBVIOUS
<1>1. calls = <<>> /\ DOMAIN calls = {} /\ remote = <<>> /\ output = <<>> /\ got = 0
    BY DEF SshInit
<1>2. got \in 0 .. Len(remote) /\ remote \in Seq(STRING) /\ output \in Seq(Bytes)
    BY <1>1
<1> QED BY <1>1, <1>2 DEF SshInit, OutputInv, EndsWell, Due

\* Every call keeps what is printed in step with what is received.
LEMMA OutputNextInv == OutputInv /\ [SshNext]_sshVars => OutputInv'
<1> SUFFICES ASSUME OutputInv, [SshNext]_sshVars PROVE OutputInv'
    OBVIOUS
<1>0. /\ calls \in Seq(Calls) /\ EndsWell(calls)
      /\ remote \in Seq(STRING) /\ output \in Seq(Bytes) /\ got \in 0 .. Len(remote)
      /\ Len(remote) \in Nat
    BY LenProperties DEF OutputInv
<1>1. CASE SshStart
    <2>1. /\ Idle /\ sshCode' = "none"
          /\ calls' \in {SshConnect, SshAuth, SshCommand, SshDownload}
          /\ remote' \in Seq(STRING)
          /\ UNCHANGED <<request, got, output>>
        BY <1>1, SshAssumption DEF SshStart, Idle
    <2>2. calls' \in Seq(Calls) /\ EndsWell(calls')
        BY <2>1, ToolsEndWell
    <2>3. request = "none" /\ got = 0 /\ output = <<>>
        BY <2>1 DEF OutputInv
    <2>4. got' \in 0 .. Len(remote') /\ Shown'
        <3>1. SubSeq(remote', 1, 0) = <<>> /\ Len(remote') \in Nat
            BY <2>1, SubSeqEmpty, LenProperties
        <3>2. ~ \E k \in 1 .. got' : remote'[k] = "0"
            BY <2>1, <2>3
        <3> QED BY <2>1, <2>3, <3>1, <3>2 DEF Shown
    <2> QED BY <1>0, <2>1, <2>2, <2>3, <2>4 DEF OutputInv
<1>2. CASE PlainCall
    <2>1. /\ calls # <<>> /\ Head(calls) \in DOMAIN Failure
          /\ Succeed \/ SshExit(Failure[Head(calls)])
          /\ UNCHANGED <<request, remote, got, output>>
        BY <1>2 DEF PlainCall
    <2>2. /\ Head(calls) \notin {"channel_read", "pull_eof"}
          /\ Failure[Head(calls)] \in {"0", "1", "255"}
          /\ Failure[Head(calls)] = "0" => Head(calls) \in Early
        BY <2>1 DEF Failure, Early
    <2>3. SshExit("0") => Succeed \/ Failure[Head(calls)] = "0"
        BY <2>1 DEF SshExit
    <2>4. CASE Succeed
        <3>1. ~ SshExit("0") \/ Head(calls) \in Early
            <4> SUFFICES ASSUME SshExit("0") PROVE Head(calls) \in Finals /\ Head(calls) \in Early
                OBVIOUS
            <4>1. Head(calls) \in Finals
                BY <1>0, <2>1, <2>4, SucceedLeaves DEF SshExit
            <4> QED BY <2>2, <4>1 DEF Finals, Early
        <3> QED BY <2>1, <2>2, <2>4, <3>1, KeepsOutput
    <2>5. CASE SshExit(Failure[Head(calls)])
        <3>1. SshExit("0") => Failure[Head(calls)] = "0"
            BY <2>5 DEF SshExit
        <3> QED BY <2>1, <2>2, <2>5, <3>1, KeepsOutput
    <2> QED BY <2>1, <2>4, <2>5
<1>3. CASE CheckHost \/ Login
    <2>1. /\ calls # <<>> /\ Head(calls) \in {"known_server", "password"}
          /\ Succeed \/ SshExit("0") \/ SshExit("1")
          /\ UNCHANGED <<request, remote, got, output>>
        BY <1>3 DEF CheckHost, Login, Making
    <2>2. Head(calls) \in Early /\ Head(calls) \notin {"channel_read", "pull_eof"}
        BY <2>1 DEF Early
    <2> QED BY <2>1, <2>2, KeepsOutput
<1>4. CASE Request
    <2>1. /\ calls # <<>> /\ Head(calls) \in Requests
          /\ Succeed \/ SshExit("1")
          /\ UNCHANGED <<remote, got, output>>
        BY <1>4 DEF Request, Making, Requests
    <2>2. Shown' = Shown
        BY <2>1 DEF Shown
    <2>3. CASE Succeed
        <3>1. /\ calls' \in Seq(Calls) /\ EndsWell(calls') /\ ~ Idle'
              /\ \A c : Due(c)' => Due(c)
              /\ \A c \in Early : ~ Due(c)'
              /\ sshCode' = "0" => Head(calls) \in Finals
            BY <1>0, <2>1, <2>3, SucceedLeaves
        <3>2. sshCode' # "0"
            BY <2>1, <3>1 DEF Requests, Finals
        <3> QED BY <2>1, <2>2, <3>1, <3>2 DEF OutputInv
    <2>4. CASE SshExit("1")
        <3>1. /\ calls' \in Seq(Calls) /\ EndsWell(calls') /\ ~ Idle'
              /\ \A c : ~ Due(c)'
              /\ sshCode' = "1"
            BY <2>4, ExitLeaves
        <3> QED BY <2>1, <3>1 DEF OutputInv
    <2> QED BY <2>1, <2>3, <2>4
<1>5. CASE ReadOutput
    <2>1. /\ calls # <<>> /\ Head(calls) = "channel_read"
          /\ UNCHANGED <<request, remote>>
        BY <1>5 DEF ReadOutput, Making
    <2>2. CASE /\ \E n \in 1 .. Len(remote) - got :
                     output' = output \o Printed(SubSeq(remote, got + 1, got + n)) /\ got' = got + n
               /\ UNCHANGED <<calls, sshCode>>
        <3>1. Shown
            <4>1. Due(Head(calls))
                BY <1>0, <2>1, LenProperties DEF Due
            <4> QED BY <2>1, <4>1 DEF OutputInv
        <3>2. output' \in Seq(Bytes) /\ got' \in 0 .. Len(remote) /\ Shown'
            <4>1. PICK n \in 1 .. Len(remote) - got :
                      output' = output \o Printed(SubSeq(remote, got + 1, got + n)) /\ got' = got + n
                BY <2>2
            <4>2. remote' = remote
                BY <2>1
            <4> QED BY <1>0, <3>1, <4>1, <4>2, ReadIsShown
        <3>3. ~ Due("scp_read") /\ ~ Idle
            <4>1. 1 \in DOMAIN calls /\ calls[1] = "channel_read"
                BY <1>0, <2>1, LenProperties
            <4>2. ASSUME NEW m \in DOMAIN calls, calls[m] = "scp_read" PROVE FALSE
                <5>1. m = 1
                    BY <1>0, <4>1, <4>2 DEF EndsWell
                <5> QED BY <4>1, <4>2, <5>1
            <4> QED BY <2>1, <4>2 DEF Due, Idle
        <3>4. request # "none" => sshCode # "0" \/ got = Len(remote)
            BY DEF OutputInv
        <3>5. Due("scp_read")' = Due("scp_read") /\ Idle' = Idle
            BY <2>2 DEF Due, Idle
        <3>6. ~ (request # "none" /\ sshCode = "0")
            <4>1. got # Len(remote)
                BY <1>0, <2>2
            <4> QED BY <3>4, <4>1
        <3>7. (\E call \in Early : Due(call))' => \E call \in Early : Due(call)
            BY <2>2 DEF Due
        <3> QED BY <1>0, <2>1, <2>2, <3>2, <3>3, <3>5, <3>6, <3>7 DEF OutputInv
    <2>3. CASE got = Len(remote) /\ Succeed /\ UNCHANGED <<got, output>>
        <3>1. Shown /\ Shown' = Shown
            <4>1. Due(Head(calls))
                BY <1>0, <2>1, LenProperties DEF Due
            <4> QED BY <2>1, <2>3, <4>1 DEF OutputInv, Shown
        <3>2. /\ calls' \in Seq(Calls) /\ EndsWell(calls') /\ ~ Idle'
              /\ \A c : Due(c)' => Due(c)
            BY <1>0, <2>1, <2>3, SucceedLeaves
        <3> QED BY <2>1, <2>3, <3>1, <3>2 DEF OutputInv
    <2>4. CASE SshExit("1") /\ UNCHANGED <<got, output>>
        BY <1>0, <2>1, <2>4, ExitLeaves DEF OutputInv
    <2> QED BY <1>5, <2>2, <2>3, <2>4 DEF ReadOutput
<1>6. CASE ScpRead
    <2>1. /\ calls # <<>> /\ Head(calls) = "scp_read"
          /\ UNCHANGED <<request, remote>>
        BY <1>6 DEF ScpRead, Making
    <2>2. CASE /\ got' \in Min({1, Len(remote)}) .. Len(remote)
               /\ output' = Printed([k \in 1 .. Len(remote) |-> IF k <= got' THEN remote[k] ELSE "junk"])
               /\ Succeed
        <3> DEFINE file == [k \in 1 .. Len(remote) |-> IF k <= got' THEN remote[k] ELSE "junk"]
        <3>1. got' \in 0 .. Len(remote)
            <4>1. \A n \in Nat : Min({1, n}) \in {1, n}
                BY MinOfTwo
            <4> QED BY <1>0, <2>2, <4>1
        <3>2. file \in Seq(Bytes) /\ Len(file) = Len(remote)
            <4>1. \A k \in 1 .. Len(remote) : (IF k <= got' THEN remote[k] ELSE "junk") \in Bytes
                BY <1>0, ElementOfSeq DEF Bytes
            <4> QED BY <1>0, <4>1
        <3>3. got' = Len(remote) => file = remote
            <4>1. remote = [k \in 1 .. Len(remote) |-> remote[k]]
                BY <1>0
            <4> QED BY <1>0, <4>1
        <3> HIDE DEF file
        <3>4. output' = Printed(file)
            BY <2>2 DEF file
        <3>5. output' \in Seq(Bytes)
            BY <3>2, <3>4, PrintedFacts
        <3>6. got' = Len(remote) => Shown'
            <4> SUFFICES ASSUME got' = Len(remote) PROVE Shown'
                OBVIOUS
            <4>1. output' = Printed(remote) /\ remote' = remote
                BY <2>1, <3>3, <3>4
            <4>2. IF \E k \in 1 .. Len(remote) : remote[k] = "0"
                  THEN Len(output') < Len(remote) ELSE output' = remote
                BY <1>0, <4>1, PrintedFacts
            <4>3. SubSeq(remote, 1, Len(remote)) = remote
                BY <1>0, SubSeqFull
            <4> QED BY <4>1, <4>2, <4>3 DEF Shown
        <3>7. /\ calls' \in Seq(Calls) /\ EndsWell(calls') /\ ~ Idle'
              /\ \A c : Due(c)' => Due(c)
              /\ ~ Due("scp_read")' /\ ~ Due("channel_read")'
              /\ sshCode' = "0" => Head(calls) \in Finals
            BY <1>0, <2>1, <2>2, SucceedLeaves
        <3>8. sshCode' # "0"
            BY <2>1, <3>7 DEF Finals
        <3> QED BY <1>0, <2>1, <3>1, <3>5, <3>6, <3>7, <3>8 DEF OutputInv
    <2>3. CASE SshExit("1") /\ UNCHANGED <<got, output>>
        BY <1>0, <2>1, <2>3, ExitLeaves DEF OutputInv
    <2> QED BY <1>6, <2>2, <2>3 DEF ScpRead
<1>7. CASE PullEof
    <2>1. /\ calls # <<>> /\ Head(calls) = "pull_eof"
          /\ (got = Len(remote) /\ Succeed) \/ SshExit("1")
          /\ UNCHANGED <<request, remote, got, output>>
        BY <1>7 DEF PullEof, Making
    <2>2. Shown' = Shown
        BY <2>1 DEF Shown
    <2>3. CASE got = Len(remote) /\ Succeed
        <3>1. /\ calls' \in Seq(Calls) /\ EndsWell(calls') /\ ~ Idle'
              /\ Due(Head(calls)) /\ \A c : Due(c)' => Due(c)
            BY <1>0, <2>1, <2>3, SucceedLeaves
        <3>2. Shown
            BY <2>1, <2>3, <3>1 DEF OutputInv
        <3> QED BY <2>1, <2>2, <2>3, <3>1, <3>2 DEF OutputInv
    <2>4. CASE SshExit("1")
        BY <1>0, <2>1, <2>4, ExitLeaves DEF OutputInv
    <2> QED BY <2>1, <2>3, <2>4
<1>8. CASE UNCHANGED sshVars
    BY <1>8 DEF sshVars, OutputInv, Idle, Due, Shown
<1> QED BY <1>1, <1>2, <1>3, <1>4, <1>5, <1>6, <1>7, <1>8 DEF SshNext

\* A tool that has made its request and ends well has printed all that the host had to
\* send, for any output and in whatever pieces it arrives.
THEOREM SshWholeOrFailed == SshSpec => []WholeOrFailed
<1>1. SshSpec => []OutputInv
    BY OutputInitInv, OutputNextInv, PTL DEF SshSpec
<1>2. OutputInv => WholeOrFailed
    <2> SUFFICES ASSUME OutputInv, request # "none", sshCode = "0"
                 PROVE  IF "0" \in ToSet(remote) THEN Len(output) < Len(remote) ELSE output = remote
        BY DEF WholeOrFailed
    <2>1. got = Len(remote) /\ Shown /\ remote \in Seq(STRING)
        BY DEF OutputInv
    <2>2. SubSeq(remote, 1, Len(remote)) = remote /\ DOMAIN remote = 1 .. Len(remote)
        BY <2>1, SubSeqFull, LenProperties
    <2>3. "0" \in ToSet(remote) <=> \E k \in 1 .. Len(remote) : remote[k] = "0"
        BY <2>2 DEF ToSet
    <2> QED BY <2>1, <2>2, <2>3 DEF Shown
<1> QED BY <1>1, <1>2, PTL
-----------------------------------------------------------------------------
\* The variables of the mail client have their types: every piece of a reply, however
\* it is cut, is a text that fits in the buffer.
LEMMA SmtpTypeStep == SmtpTypeOK /\ [SmtpNext]_smtpVars => SmtpTypeOK'
<1> SUFFICES ASSUME SmtpTypeOK, [SmtpNext]_smtpVars PROVE SmtpTypeOK'
    OBVIOUS
<1>0. /\ smtp \in {"off", "wait", "body", "finished", "failed"} /\ step \in 1 .. 7
      /\ reply \in Seq(STRING) /\ stdin \in Seq(STRING) /\ replies \in Seq(STRING)
      /\ typed \in Seq(STRING) /\ fields \in Seq(Seq(STRING)) /\ lines \in Seq(Seq(STRING))
      /\ Len(reply) <= MAXRESPONSE /\ owes \in BOOLEAN /\ hungup \in BOOLEAN
    BY DEF SmtpTypeOK
<1>1. CASE SmtpConnect
    <2>1. /\ typed' \in Seq(STRING) /\ fields' = <<GetInput(typed')>> /\ stdin' = AfterInput(typed')
          /\ smtp' \in {"wait", "failed"} /\ owes' \in BOOLEAN
          /\ UNCHANGED <<step, reply, lines, replies, hungup>>
        BY <1>1, SmtpAssumption DEF SmtpConnect
    <2>2. GetInput(typed') \in Seq(STRING) /\ stdin' \in Seq(STRING)
        BY <2>1, InputIsText
    <2> QED BY <1>0, <2>1, <2>2 DEF SmtpTypeOK
<1>2. CASE WaitOnResponse
    <2>1. PICK n \in 1 .. Min({Len(replies), MAXRESPONSE - Len(reply)}) :
            LET parsed == reply \o SubSeq(replies, 1, n)
            IN  /\ replies' = SubSeq(replies, n + 1, Len(replies))
                /\ \/ smtp' \in {"failed", smtp} /\ reply' = parsed
                      /\ UNCHANGED <<step, stdin, fields, owes>>
                   \/ NextCommand
        BY <1>2 DEF WaitOnResponse
    <2>2. n \in 1 .. Len(replies) /\ n <= MAXRESPONSE - Len(reply)
        <3>1. Len(replies) \in Int /\ MAXRESPONSE - Len(reply) \in Int
            BY <1>0, LenProperties, SmtpAssumption
        <3>2. /\ Min({Len(replies), MAXRESPONSE - Len(reply)}) \in Int
              /\ Min({Len(replies), MAXRESPONSE - Len(reply)}) <= Len(replies)
              /\ Min({Len(replies), MAXRESPONSE - Len(reply)}) <= MAXRESPONSE - Len(reply)
            BY <3>1, MinOfTwo
        <3> QED BY <3>1, <3>2
    <2> DEFINE parsed == reply \o SubSeq(replies, 1, n)
               rest == SubSeq(replies, n + 1, Len(replies))
    <2>3. parsed \in Seq(STRING) /\ rest \in Seq(STRING) /\ Len(parsed) = Len(reply) + n
        BY <1>0, <2>2, Pieces
    <2>4. replies' = rest /\ UNCHANGED <<lines, hungup, typed>>
        BY <1>2, <2>1 DEF WaitOnResponse
    <2>5. Len(parsed) <= MAXRESPONSE
        BY <1>0, <2>2, <2>3, LenProperties, SmtpAssumption
    <2>6. CASE smtp' \in {"failed", smtp} /\ reply' = parsed /\ UNCHANGED <<step, stdin, fields, owes>>
        <3> HIDE DEF parsed, rest
        <3> QED BY <1>0, <2>3, <2>4, <2>5, <2>6 DEF SmtpTypeOK
    <2>7. CASE NextCommand
        <3> HIDE DEF parsed, rest
        <3>1. /\ reply' = <<>> /\ Len(reply') <= MAXRESPONSE
              /\ step' \in 1 .. 7 /\ smtp' \in {"body", "finished", "wait"} /\ owes' \in BOOLEAN
            BY <1>0, <2>7, SmtpAssumption DEF NextCommand
        <3>2. fields' \in Seq(Seq(STRING)) /\ stdin' \in Seq(STRING)
            <4>1. GetInput(stdin) \in Seq(STRING) /\ AfterInput(stdin) \in Seq(STRING)
                BY <1>0, InputIsText
            <4>2. \/ fields' = Append(fields, GetInput(stdin)) /\ stdin' = AfterInput(stdin)
                  \/ fields' = fields /\ stdin' = stdin
                BY <2>7 DEF NextCommand
            <4>3. Append(fields, GetInput(stdin)) \in Seq(Seq(STRING))
                BY <1>0, <4>1
            <4> QED BY <1>0, <4>1, <4>2, <4>3
        <3> QED BY <1>0, <2>3, <2>4, <3>1, <3>2 DEF SmtpTypeOK
    <2> QED BY <2>1, <2>6, <2>7
<1>3. CASE SendLine
    <2>1. GetInput(stdin) \in Seq(STRING) /\ AfterInput(stdin) \in Seq(STRING)
        BY <1>0, InputIsText
    <2>2. /\ lines' = Append(lines, GetInput(stdin)) /\ stdin' = AfterInput(stdin)
          /\ smtp' \in {"wait", smtp} /\ owes' \in {TRUE, owes}
          /\ UNCHANGED <<step, reply, fields, replies, hungup, typed>>
        BY <1>3 DEF SendLine
    <2>3. lines' \in Seq(Seq(STRING))
        BY <1>0, <2>1, <2>2
    <2> QED BY <1>0, <2>1, <2>2, <2>3 DEF SmtpTypeOK
<1>4. CASE ServerLost
    <2>1. /\ smtp' \in {"failed", smtp}
          /\ UNCHANGED <<step, reply, stdin, fields, lines, owes, replies, hungup, typed>>
        BY <1>4 DEF ServerLost
    <2>2. UNCHANGED owes /\ UNCHANGED hungup
        BY <2>1
    <2>3. owes' \in BOOLEAN /\ hungup' \in BOOLEAN
        BY <1>0, <2>2, Zenon
    <2>4. smtp' \in {"off", "wait", "body", "finished", "failed"}
        BY ONLY <1>0, <2>1
    <2>5. /\ {reply', stdin', replies', typed'} \subseteq Seq(STRING) /\ step' \in 1 .. 7
          /\ Len(reply') <= MAXRESPONSE /\ {fields', lines'} \subseteq Seq(Seq(STRING))
        <3>1. /\ reply' = reply /\ stdin' = stdin /\ replies' = replies /\ typed' = typed
              /\ fields' = fields /\ lines' = lines /\ step' = step
            BY ONLY <2>1
        <3> QED BY ONLY <1>0, <3>1
    <2> QED BY ONLY <2>3, <2>4, <2>5 DEF SmtpTypeOK
<1>5. CASE MailServer
    <2>1. /\ hungup' \in BOOLEAN /\ owes' \in {FALSE, owes}
          /\ replies' = replies \/ \E r \in Replies[Expecting[step]] : replies' = replies \o r
          /\ UNCHANGED <<smtp, step, reply, stdin, fields, lines, typed>>
        BY <1>5 DEF MailServer
    <2>2. replies' \in Seq(STRING)
        <3>1. \A r \in Replies[Expecting[step]] : r \in Seq(STRING)
            BY <1>0, ReplyAssumption DEF Expecting
        <3>2. \A r \in Seq(STRING) : replies \o r \in Seq(STRING)
            BY <1>0, ConcatProperties
        <3>3. replies \in Seq(STRING)
            BY <1>0
        <3> QED BY ONLY <2>1, <3>1, <3>2, <3>3
    <2>3. owes' \in BOOLEAN /\ hungup' \in BOOLEAN
        <3>1. owes \in BOOLEAN /\ (owes' = FALSE \/ owes' = owes)
            BY <1>0, <2>1
        <3>2. owes' \in BOOLEAN
            BY ONLY <3>1, Zenon
        <3>3. hungup' \in BOOLEAN
            BY <2>1
        <3> QED BY <3>2, <3>3
    <2>4. UNCHANGED <<smtp, step, reply, stdin, fields, lines, typed>>
        BY <2>1
    <2>5. /\ {reply', stdin', replies', typed'} \subseteq Seq(STRING) /\ step' \in 1 .. 7
          /\ Len(reply') <= MAXRESPONSE /\ {fields', lines'} \subseteq Seq(Seq(STRING))
          /\ smtp' \in {"off", "wait", "body", "finished", "failed"}
        BY ONLY <1>0, <2>2, <2>4
    <2> QED BY ONLY <2>3, <2>5 DEF SmtpTypeOK
<1>6. CASE UNCHANGED smtpVars
    BY <1>0, <1>6 DEF smtpVars, SmtpTypeOK
<1> QED BY <1>1, <1>2, <1>3, <1>4, <1>5, <1>6 DEF SmtpNext

LEMMA SmtpTypes == SmtpSpec => []SmtpTypeOK
<1>1. SmtpInit => SmtpTypeOK
    <2> SUFFICES ASSUME SmtpInit PROVE SmtpTypeOK
        OBVIOUS
    <2>1. reply = <<>> /\ stdin = <<>> /\ replies = <<>> /\ typed = <<>> /\ fields = <<>> /\ lines = <<>>
        BY DEF SmtpInit
    <2>2. {reply, stdin, replies, typed} \subseteq Seq(STRING) /\ {fields, lines} \subseteq Seq(Seq(STRING))
        BY <2>1
    <2>3. Len(reply) <= MAXRESPONSE
        BY <2>1, SmtpAssumption
    <2>4. smtp \in {"off", "wait", "body", "finished", "failed"} /\ step \in 1 .. 7
        BY DEF SmtpInit
    <2>5. owes \in BOOLEAN /\ hungup \in BOOLEAN
        BY Zenon DEF SmtpInit
    <2> QED BY <2>2, <2>3, <2>4, <2>5, Zenon DEF SmtpTypeOK
<1> QED BY <1>1, SmtpTypeStep, PTL DEF SmtpSpec

-----------------------------------------------------------------------------
\* A sequence is the end of another one.
Ends(s, t) == Len(s) <= Len(t) /\ \A k \in 1 .. Len(s) : s[k] = t[Len(t) - Len(s) + k]

LEMMA EndsFacts ==
    ASSUME NEW S, NEW s \in Seq(S), NEW t \in Seq(S), Ends(s, t)
    PROVE  /\ IsSuffix(s, t)
           /\ s # <<>> => Tail(s) \in Seq(S) /\ Ends(Tail(s), t)
<1>1. /\ Len(s) \in Nat /\ Len(t) \in Nat /\ Len(s) <= Len(t)
      /\ \A k \in 1 .. Len(s) : s[k] \in S
      /\ \A k \in 1 .. Len(t) : t[k] \in S
    BY LenProperties, ElementOfSeq DEF Ends
<1>2. IsSuffix(s, t)
    <2> DEFINE u == Reverse(s)
               v == Reverse(t)
    <2>1. /\ u \in Seq(S) /\ Len(u) = Len(s)
          /\ \A k \in 1 .. Len(s) : u[k] = s[(Len(s) - k) + 1]
        BY <1>1 DEF Reverse
    <2>2. /\ v \in Seq(S) /\ Len(v) = Len(t)
          /\ \A k \in 1 .. Len(t) : v[k] = t[(Len(t) - k) + 1]
        BY <1>1 DEF Reverse
    <2> HIDE DEF u, v
    <2>3. ASSUME NEW k \in 1 .. Len(s) PROVE u[k] = v[k]
        <3>1. /\ k \in 1 .. Len(t) /\ (Len(s) - k) + 1 \in 1 .. Len(s)
              /\ (Len(t) - Len(s)) + ((Len(s) - k) + 1) = (Len(t) - k) + 1
            BY <1>1
        <3>2. s[(Len(s) - k) + 1] = t[(Len(t) - k) + 1]
            BY <3>1 DEF Ends
        <3> QED BY <2>1, <2>2, <3>1, <3>2
    <2>4. SubSeq(u, 1, Len(u)) = [k \in 1 .. Len(s) |-> u[k]]
        BY <1>1, <2>1
    <2>5. SubSeq(v, 1, Len(u)) = [k \in 1 .. Len(s) |-> v[k]]
        BY <1>1, <2>1, <2>2
    <2>6. [k \in 1 .. Len(s) |-> u[k]] = [k \in 1 .. Len(s) |-> v[k]]
        BY <2>3, Zenon
    <2> QED BY <1>1, <2>1, <2>2, <2>4, <2>5, <2>6 DEF IsSuffix, IsPrefix, u, v
<1>3. ASSUME s # <<>> PROVE Tail(s) \in Seq(S) /\ Ends(Tail(s), t)
    <2>1. /\ Tail(s) \in Seq(S) /\ Len(Tail(s)) = Len(s) - 1 /\ Len(s) > 0
          /\ \A k \in 1 .. Len(s) - 1 : Tail(s)[k] = s[k + 1]
        BY <1>1, <1>3, HeadTailProperties
    <2>2. ASSUME NEW k \in 1 .. Len(s) - 1 PROVE Tail(s)[k] = t[Len(t) - (Len(s) - 1) + k]
        <3>1. k + 1 \in 1 .. Len(s) /\ Len(t) - Len(s) + (k + 1) = Len(t) - (Len(s) - 1) + k
            BY <1>1, <2>1
        <3>2. s[k + 1] = t[Len(t) - Len(s) + (k + 1)]
            BY <3>1 DEF Ends
        <3> QED BY <2>1, <3>1, <3>2
    <2> QED BY <1>1, <2>1, <2>2 DEF Ends
<1> QED BY <1>2, <1>3

\* The calls that are left are the last of a tool's, and the lines left to read the last
\* that were typed.
CallsLeft ==
    /\ \E tool \in {SshConnect, SshAuth, SshCommand, SshDownload} : Ends(calls, tool)
    /\ sshCode \in {"none", "0", "1", "255"}
LinesLeft == keyboard \in Seq(STRING) /\ keys \in Seq(STRING) /\ Ends(keyboard, keys)

SshTypeInv ==
    /\ OutputInv /\ CallsLeft /\ LinesLeft
    /\ known \in KnownHost \cup {"none"}
    /\ Len(output) <= Len(remote)
    /\ consented \in BOOLEAN /\ remembered \in BOOLEAN /\ loggedIn \in BOOLEAN

\* A call is made, or a line read.
LEMMA CallsStep ==
    ASSUME SshTypeInv, calls # <<>>,
           Succeed \/ SshExit("0") \/ SshExit("1") \/ SshExit("255")
    PROVE  CallsLeft'
<1>1. PICK tool \in {SshConnect, SshAuth, SshCommand, SshDownload} : Ends(calls, tool)
    BY DEF SshTypeInv, CallsLeft
<1>2. tool \in Seq(Calls) /\ calls \in Seq(Calls)
    BY ToolsEndWell DEF SshTypeInv, OutputInv
<1>3. CASE Succeed
    <2>1. Ends(calls', tool)
        BY <1>1, <1>2, <1>3, EndsFacts DEF Succeed
    <2>2. sshCode' \in {"none", "0"}
        BY <1>3 DEF Succeed
    <2> QED BY <2>1, <2>2 DEF CallsLeft
<1>4. CASE SshExit("0") \/ SshExit("1") \/ SshExit("255")
    <2>1. calls' = <<>> /\ sshCode' \in {"0", "1", "255"}
        BY <1>4 DEF SshExit
    <2>2. Ends(calls', tool)
        BY <1>2, <2>1, LenProperties DEF Ends
    <2> QED BY <2>1, <2>2 DEF CallsLeft
<1> QED BY <1>3, <1>4

LEMMA LinesStep ==
    ASSUME LinesLeft, keys' = keys, (\E read : SshGets(read)) \/ keyboard' = keyboard
    PROVE  LinesLeft'
<1>1. keyboard' = keyboard \/ (keyboard # <<>> /\ keyboard' = Tail(keyboard))
    BY DEF SshGets
<1> QED BY <1>1, EndsFacts DEF LinesLeft

\* What is printed of what is received is no longer than what the host has to send.
LEMMA ShownFits ==
    ASSUME OutputInv, Shown
    PROVE  Len(output) <= Len(remote)
<1>1. remote \in Seq(STRING) /\ got \in 0 .. Len(remote) /\ Len(remote) \in Nat
    BY LenProperties DEF OutputInv
<1>2. Len(SubSeq(remote, 1, got)) = got
    BY <1>1
<1>3. output \in Seq(Bytes) /\ Len(output) \in Nat
    BY LenProperties DEF OutputInv
<1> QED BY <1>1, <1>2, <1>3 DEF Shown

LEMMA OutputStep ==
    ASSUME SshTypeInv, OutputInv', [SshNext]_sshVars
    PROVE  (Len(output) <= Len(remote))'
<1>1. /\ Len(output) <= Len(remote) /\ OutputInv
    BY DEF SshTypeInv
<1>2. CASE SshStart
    <2>1. Idle /\ output' = output /\ remote' \in Seq(STRING)
        BY <1>2, SshAssumption DEF SshStart, Idle
    <2>2. output' = <<>>
        BY <1>1, <2>1 DEF OutputInv
    <2>3. Len(output') = 0 /\ Len(remote') \in Nat
        BY <2>1, <2>2, LenProperties
    <2> QED BY <2>3
<1>3. CASE PlainCall \/ CheckHost \/ Login \/ Request \/ PullEof \/ UNCHANGED sshVars
    <2>1. UNCHANGED <<remote, output>>
        BY <1>3 DEF PlainCall, CheckHost, Login, Request, PullEof, sshVars
    <2> QED BY <1>1, <2>1
<1>4. CASE ReadOutput
    <2>1. calls # <<>> /\ Head(calls) = "channel_read" /\ remote' = remote
        BY <1>4 DEF ReadOutput, Making
    <2>2. CASE UNCHANGED output
        BY <1>1, <2>1, <2>2
    <2>3. CASE UNCHANGED calls
        <3>1. calls \in Seq(Calls) /\ 1 \in DOMAIN calls /\ calls[1] = "channel_read"
            BY <1>1, <2>1, LenProperties DEF OutputInv
        <3>2. Due("channel_read")'
            BY <2>3, <3>1 DEF Due
        <3>3. Shown'
            BY <3>2 DEF OutputInv
        <3>4. (OutputInv /\ Shown => Len(output) <= Len(remote))'
            BY ShownFits, PTL
        <3> QED BY <3>3, <3>4
    <2> QED BY <1>4, <2>2, <2>3 DEF ReadOutput
<1>5. CASE ScpRead
    <2>1. remote' = remote /\ remote \in Seq(STRING) /\ Len(remote) \in Nat
        BY <1>1, <1>5, LenProperties DEF ScpRead, OutputInv
    <2>2. CASE UNCHANGED output
        BY <1>1, <2>1, <2>2
    <2>3. CASE output' = Printed([k \in 1 .. Len(remote) |-> IF k <= got' THEN remote[k] ELSE "junk"])
        <3> DEFINE file == [k \in 1 .. Len(remote) |-> IF k <= got' THEN remote[k] ELSE "junk"]
        <3>1. file \in Seq(Bytes) /\ Len(file) = Len(remote)
            <4>1. \A k \in 1 .. Len(remote) : (IF k <= got' THEN remote[k] ELSE "junk") \in Bytes
                BY <2>1, ElementOfSeq DEF Bytes
            <4> QED BY <2>1, <4>1
        <3> HIDE DEF file
        <3>2. Printed(file) = file \/ Len(Printed(file)) < Len(file)
            BY <3>1, PrintedFacts
        <3>3. Printed(file) \in Seq(Bytes) /\ output' = Printed(file)
            BY <2>3, <3>1, PrintedFacts DEF file
        <3> QED BY <2>1, <3>1, <3>2, <3>3, LenProperties
    <2> QED BY <1>5, <2>2, <2>3 DEF ScpRead
<1> QED BY <1>2, <1>3, <1>4, <1>5 DEF SshNext

\* Every call keeps the types.
LEMMA SshTypeStep == SshTypeInv /\ [SshNext]_sshVars => SshTypeInv'
<1> SUFFICES ASSUME SshTypeInv, [SshNext]_sshVars PROVE SshTypeInv'
    OBVIOUS
<1>1. OutputInv'
    BY OutputNextInv DEF SshTypeInv
<1>2. (Len(output) <= Len(remote))'
    BY <1>1, OutputStep
<1>3. /\ CallsLeft /\ LinesLeft /\ known \in KnownHost \cup {"none"}
      /\ consented \in BOOLEAN /\ remembered \in BOOLEAN /\ loggedIn \in BOOLEAN /\ calls \in Seq(Calls)
    BY DEF SshTypeInv, OutputInv
<1>4. CASE SshStart
    <2>1. /\ calls' \in {SshConnect, SshAuth, SshCommand, SshDownload} /\ sshCode' = "none"
          /\ keys' \in Seq(STRING) /\ keyboard' = keys'
          /\ UNCHANGED <<known, consented, remembered, loggedIn>>
        BY <1>4, SshAssumption DEF SshStart
    <2>2. \A S : \A t \in Seq(S) : Ends(t, t)
        BY LenProperties DEF Ends
    <2>3. calls' \in Seq(Calls)
        BY <2>1, ToolsEndWell
    <2>4. CallsLeft' /\ LinesLeft'
        BY <2>1, <2>2, <2>3 DEF CallsLeft, LinesLeft
    <2> QED BY <1>1, <1>2, <1>3, <2>1, <2>4 DEF SshTypeInv
<1>5. CASE PlainCall
    <2>1. /\ calls # <<>> /\ Head(calls) \in DOMAIN Failure
          /\ Succeed \/ SshExit(Failure[Head(calls)])
          /\ UNCHANGED <<keyboard, known, consented, remembered, loggedIn, keys>>
        BY <1>5 DEF PlainCall
    <2>2. Failure[Head(calls)] \in {"0", "1", "255"}
        BY <2>1 DEF Failure
    <2>3. CallsLeft'
        BY <2>1, <2>2, CallsStep
    <2> QED BY <1>1, <1>2, <1>3, <2>1, <2>3, LinesStep DEF SshTypeInv
<1>6. CASE CheckHost
    <2>1. /\ calls # <<>>
          /\ Succeed \/ SshExit("0") \/ SshExit("1")
          /\ known' \in KnownHost /\ consented' \in {TRUE, consented}
          /\ remembered' \in {TRUE, FALSE, remembered}
          /\ (\E read : SshGets(read)) \/ keyboard' = keyboard
          /\ UNCHANGED <<loggedIn, keys>>
        BY <1>6 DEF CheckHost, Making
    <2>2. CallsLeft'
        BY <2>1, CallsStep
    <2>3. LinesLeft'
        BY <1>3, <2>1, LinesStep
    <2> QED BY <1>1, <1>2, <1>3, <2>1, <2>2, <2>3 DEF SshTypeInv
<1>7. CASE Login
    <2>1. /\ calls # <<>>
          /\ Succeed \/ SshExit("0")
          /\ loggedIn' \in BOOLEAN
          /\ \E read : SshGets(read)
          /\ UNCHANGED <<known, consented, remembered, keys>>
        BY <1>7 DEF Login, Making
    <2>2. CallsLeft'
        BY <2>1, CallsStep
    <2>3. LinesLeft'
        BY <1>3, <2>1, LinesStep
    <2> QED BY <1>1, <1>2, <1>3, <2>1, <2>2, <2>3 DEF SshTypeInv
<1>8. CASE Request
    <2>1. /\ calls # <<>>
          /\ Succeed \/ SshExit("1")
          /\ \E read : SshGets(read)
          /\ UNCHANGED <<known, consented, remembered, loggedIn, keys>>
        BY <1>8 DEF Request, Making
    <2>2. CallsLeft'
        BY <2>1, CallsStep
    <2>3. LinesLeft'
        BY <1>3, <2>1, LinesStep
    <2> QED BY <1>1, <1>2, <1>3, <2>1, <2>2, <2>3 DEF SshTypeInv
<1>9. CASE ReadOutput \/ ScpRead \/ PullEof
    <2>1. /\ calls # <<>>
          /\ Succeed \/ SshExit("1") \/ UNCHANGED <<calls, sshCode>>
          /\ UNCHANGED <<keyboard, known, consented, remembered, loggedIn, keys>>
        BY <1>9 DEF ReadOutput, ScpRead, PullEof, Making
    <2>2. CallsLeft'
        <3>1. CASE Succeed \/ SshExit("1")
            BY <2>1, <3>1, CallsStep
        <3>2. CASE UNCHANGED <<calls, sshCode>>
            BY <1>3, <3>2 DEF CallsLeft
        <3> QED BY <2>1, <3>1, <3>2
    <2>3. LinesLeft'
        BY <1>3, <2>1, LinesStep
    <2> QED BY <1>1, <1>2, <1>3, <2>1, <2>2, <2>3 DEF SshTypeInv
<1>10. CASE UNCHANGED sshVars
    BY <1>1, <1>2, <1>3, <1>10 DEF sshVars, SshTypeInv, CallsLeft, LinesLeft
<1> QED BY <1>4, <1>5, <1>6, <1>7, <1>8, <1>9, <1>10 DEF SshNext

LEMMA SshTypes == SshSpec => []SshTypeOK
<1>1. SshInit => SshTypeInv
    <2> SUFFICES ASSUME SshInit PROVE SshTypeInv
        OBVIOUS
    <2>1. calls = <<>> /\ keyboard = <<>> /\ keys = <<>> /\ output = <<>> /\ remote = <<>>
        BY DEF SshInit
    <2>2. \A S : \A t \in Seq(S) : Ends(<<>>, t)
        BY LenProperties DEF Ends
    <2>3. SshConnect \in Seq(Calls)
        BY ToolsEndWell
    <2>4. CallsLeft
        <3>1. Ends(calls, SshConnect) /\ sshCode = "none"
            BY <2>1, <2>2, <2>3 DEF SshInit
        <3> QED BY <3>1 DEF CallsLeft
    <2>5. LinesLeft
        <3>1. <<>> \in Seq(STRING)
            OBVIOUS
        <3>2. Ends(<<>>, <<>>)
            BY <2>2, <3>1
        <3> QED BY <2>1, <3>1, <3>2 DEF LinesLeft
    <2>6. consented \in BOOLEAN /\ remembered \in BOOLEAN /\ loggedIn \in BOOLEAN
        BY Zenon DEF SshInit
    <2>7. known \in KnownHost \cup {"none"} /\ Len(output) <= Len(remote)
        BY <2>1 DEF SshInit
    <2>8. OutputInv
        BY OutputInitInv
    <2> QED BY <2>4, <2>5, <2>6, <2>7, <2>8 DEF SshTypeInv
<1>2. SshTypeInv => SshTypeOK
    <2> SUFFICES ASSUME SshTypeInv PROVE SshTypeOK
        OBVIOUS
    <2>1. PICK tool \in {SshConnect, SshAuth, SshCommand, SshDownload} : Ends(calls, tool)
        BY DEF SshTypeInv, CallsLeft
    <2>2. tool \in Seq(Calls) /\ calls \in Seq(Calls)
        BY ToolsEndWell DEF SshTypeInv, OutputInv
    <2>3. IsSuffix(calls, tool)
        BY <2>1, <2>2, EndsFacts
    <2>4. IsSuffix(keyboard, keys)
        BY EndsFacts DEF SshTypeInv, LinesLeft
    <2> QED BY <2>3, <2>4 DEF SshTypeInv, SshTypeOK, CallsLeft, OutputInv
<1> QED BY <1>1, <1>2, SshTypeStep, PTL DEF SshSpec

-----------------------------------------------------------------------------
\* THEOREM: in every behaviour of every client program, the variables of all of them
\* have their types, for any user, server, replies, page and host: what is received fits
\* in the buffers, what is left to call or to read is the end of what there was, and no
\* more is printed than was sent.
THEOREM ClientsType == Spec => []ClientsTypeOK
<1>1. Init => SmtpInit /\ WebGetInit /\ SshInit
    BY DEF Init
<1>2. [Next]_<<program, smtpVars, wgVars, sshVars>> =>
          [SmtpNext]_smtpVars /\ [WebGetNext]_wgVars /\ [SshNext]_sshVars
    BY DEF Next
<1>3. Spec => SmtpSpec /\ WebGetSpec /\ SshSpec
    BY <1>1, <1>2, PTL DEF Spec, SmtpSpec, WebGetSpec, SshSpec
<1>4. WebGetSpec => []WebGetTypeOK
    <2>1. WebInv => WebGetTypeOK
        BY DEF WebInv
    <2> QED BY <2>1, WebInitInv, WebNextInv, PTL DEF WebGetSpec
<1> QED BY <1>3, <1>4, SmtpTypes, SshTypes, PTL DEF ClientsTypeOK

=============================================================================
