------------------------------ MODULE DnsQuery ------------------------------
(***************************************************************************)
(* C/dns/dns_query.c: a question to a name server, and a printer of         *)
(* messages that follows their names byte by byte.  Messages are sequences *)
(* of bytes; an offset is what it is in the code, the distance from `msg`.  *)
(***************************************************************************)
EXTENDS Integers, SequencesExt

CONSTANTS
    Hosts,     \* the host names that may be asked for, as sequences of labels
    Types,     \* and the types
    Zone,      \* what a name server may answer, [name, type, answers]
    Strange,   \* other bytes that may arrive as an answer
    MaxDepth   \* pointers that print_name follows before its stack is full

VARIABLES
    dns,       \* "off", "record", "name", "fields", "wait", "exited", "hung", "crashed"
    dnsCode,   \* the exit status
    msg,       \* the message that is printed
    isReply,   \* it is the one received
    record,    \* how many questions and records are done or begun
    pos,       \* `p` in print_dns_message
    at,        \* `p` in the current call of print_name
    back,      \* what the outermost call returns, 0 if it follows no pointer
    depth,     \* how many calls deep
    rest,      \* where the next record begins, 0 while the owner's name is printed
    items,     \* what is printed of the message: labels, types and data
    outside,   \* a byte behind the message is printed
    answered   \* history: which of Zone the message was made from, and its length

dnsVars == <<dns, dnsCode, msg, isReply, record, pos, at, back, depth, rest, items,
             outside, answered>>

\* Messages are made of bytes.  The program rejects a host name of more than 253
\* characters, and it can follow one pointer.
Bytes == 0 .. 255
ASSUME DnsAssumption ==
    /\ MaxDepth \in Nat \ {0}
    /\ Types \subseteq Bytes
    /\ \A m \in Strange : m \in Seq(Bytes)
    /\ \A host \in Hosts :
          host \in Seq(Seq(Bytes)) /\ \A k \in 1 .. Len(host) : Len(host[k]) <= 253

\* A name server's names have labels, none of them empty or so long that its length
\* would mark a pointer, and no zero byte in them.  It answers with records of the types
\* the program knows, with data of the length each type has, texts without a zero byte,
\* and so many that their number is one byte.
IsLabel(l) == l \in Seq(Bytes) /\ Len(l) \in 1 .. 191 /\ 0 \notin ToSet(l)
ASSUME ZoneAssumption ==
    \A z \in Zone :
        /\ z.name \in Seq(Seq(Bytes)) \ {<<>>} /\ \A k \in 1 .. Len(z.name) : IsLabel(z.name[k])
        /\ z.type \in Bytes
        /\ z.answers \in Seq([type : {1, 5, 15, 16, 28}, data : Seq(Bytes)]) /\ Len(z.answers) <= 255
        /\ \A k \in 1 .. Len(z.answers) :
              LET a == z.answers[k]
              IN  CASE a.type = 1 -> Len(a.data) = 4
                    [] a.type = 28 -> Len(a.data) = 16
                    [] a.type = 16 -> Len(a.data) < 255 /\ 0 \notin ToSet(a.data)
                    [] OTHER -> IsLabel(a.data)

-----------------------------------------------------------------------------
Byte(o) == msg[o + 1]
Number(o) == 256 * Byte(o) + Byte(o + 1)
End == Len(msg)

\* The host name in the query: every label with its length before it.
Wire(labels) == FlattenSeq([k \in 1 .. Len(labels) |-> <<Len(labels[k])>> \o labels[k]])
Query(labels, type) ==
    <<171, 205, 1, 0, 0, 1, 0, 0, 0, 0, 0, 0>> \o Wire(labels) \o <<0, 0, type, 0, 1>>

Questions == Number(4)
Records == Number(6) + Number(8) + Number(10)

DnsExit(code) == dns' = "exited" /\ dnsCode' = code
EndOfMessage == DnsExit(1) /\ UNCHANGED <<record, pos, at, back, depth, rest, items, outside>>

DnsInit ==
    /\ dns = "off" /\ dnsCode = 0 /\ msg = <<>> /\ isReply = FALSE
    /\ record = 0 /\ pos = 0 /\ at = 0 /\ back = 0 /\ depth = 0 /\ rest = 0
    /\ items = <<>> /\ outside = FALSE /\ answered = <<>>

\* print_dns_message up to its loops.  An answer with an error is not printed.
PrintMessage(m) ==
    /\ msg' = m
    /\ record' = 0 /\ pos' = 12 /\ items' = <<>>
    /\ IF Len(m) < 12 THEN DnsExit(1)
       ELSE IF m[3] >= 128 /\ m[4] % 16 # 0 THEN DnsExit(0)
       ELSE dns' = "record" /\ UNCHANGED dnsCode
    /\ UNCHANGED <<at, back, depth, rest, outside>>

\* The arguments are checked, the query made, sent and printed.  A name that begins
\* with a dot is never encoded to its end.
DnsStart ==
    /\ dns = "off"
    /\ \/ DnsExit(1) /\ UNCHANGED <<msg, record, pos, at, back, depth, rest, items, outside>>
       \/ \E host \in Hosts, type \in Types :
             IF Len(host) > 1 /\ host[1] = <<>>
             THEN dns' = "hung" /\ UNCHANGED <<dnsCode, msg, record, pos, at, back, depth, rest, items, outside>>
             ELSE PrintMessage(Query(host, type))
    /\ UNCHANGED <<isReply, answered>>

\* The head of the loops over questions and records, and their end.
NextRecord ==
    /\ dns = "record"
    /\ IF record = Questions + Records
       THEN /\ IF isReply THEN DnsExit(0) ELSE dns' = "wait" /\ UNCHANGED dnsCode
            /\ UNCHANGED <<record, pos, at, back, depth, rest, items, outside>>
       ELSE IF pos >= End THEN EndOfMessage
       ELSE /\ dns' = "name" /\ at' = pos /\ back' = 0 /\ depth' = 0 /\ rest' = 0
            /\ record' = record + 1
            /\ UNCHANGED <<dnsCode, pos, items, outside>>
    /\ UNCHANGED <<msg, isReply, answered>>

\* printf("%.*s"): the bytes before the first zero.
UpToZero(bytes) ==
    SubSeq(bytes, 1, Min({k \in 1 .. Len(bytes) : bytes[k] = 0} \cup {Len(bytes) + 1}) - 1)

Bug_AfterName(last) == last + 1
\* What print_name returns: behind the pointer, or behind the zero at the end.
AfterName(last) == IF back # 0 THEN back ELSE last + 1

\* One call of print_name: a pointer is followed, or a label printed.
PrintName ==
    /\ dns = "name"
    /\ LET len == Byte(at)
           next == at + 1 + len
       IN  IF at + 2 > End THEN EndOfMessage
           ELSE IF len >= 192
           THEN IF depth = MaxDepth
                THEN dns' = "crashed" /\ UNCHANGED <<dnsCode, record, pos, at, back, depth, rest, items, outside>>
                ELSE /\ at' = Number(at) - 192 * 256 /\ depth' = depth + 1
                     /\ back' = IF back = 0 THEN at + 2 ELSE back
                     /\ UNCHANGED <<dns, dnsCode, record, pos, rest, items, outside>>
           ELSE IF next + 1 > End THEN EndOfMessage
           ELSE /\ items' = Append(items, UpToZero(SubSeq(msg, at + 2, next)))
                /\ IF Byte(next) # 0
                   THEN at' = next /\ UNCHANGED <<dns, pos>>
                   ELSE /\ dns' = IF rest = 0 THEN "fields" ELSE "record"
                        /\ pos' = IF rest = 0 THEN AfterName(next) ELSE rest
                        /\ UNCHANGED at
                /\ UNCHANGED <<dnsCode, record, back, depth, rest, outside>>
    /\ UNCHANGED <<msg, isReply, answered>>

\* What follows a question's name.
QuestionFields ==
    /\ dns = "fields" /\ record <= Questions
    /\ IF pos + 4 > End THEN EndOfMessage
       ELSE /\ items' = Append(items, <<Number(pos)>>)
            /\ dns' = "record" /\ pos' = pos + 4
            /\ UNCHANGED <<dnsCode, record, at, back, depth, rest, outside>>
    /\ UNCHANGED <<msg, isReply, answered>>

\* What follows the name of a record: its type and, by type, its data.  The text
\* of a TXT record without data has the length -1: what is behind is printed.
RecordFields ==
    /\ dns = "fields" /\ record > Questions
    /\ IF pos + 10 > End \/ pos + 10 + Number(pos + 8) > End THEN EndOfMessage
       ELSE LET type == Number(pos)
                rdlen == Number(pos + 8)
                data == pos + 10
                shown == CASE (type = 1 /\ rdlen = 4) \/ (type = 28 /\ rdlen = 16) ->
                                 <<SubSeq(msg, data + 1, data + rdlen)>>
                           [] type = 16 -> <<UpToZero(SubSeq(msg, data + 2, data + rdlen))>>
                           [] OTHER -> <<>>
                named == type = 5 \/ (type = 15 /\ rdlen > 3)
            IN  /\ items' = items \o <<<<type>>>> \o shown
                /\ outside' = (outside \/ (type = 16 /\ rdlen = 0))
                /\ IF named
                   THEN /\ dns' = "name" /\ rest' = data + rdlen /\ back' = 0 /\ depth' = 0
                        /\ at' = IF type = 5 THEN data ELSE data + 2
                        /\ UNCHANGED pos
                   ELSE dns' = "record" /\ pos' = data + rdlen /\ UNCHANGED <<rest, back, depth, at>>
                /\ UNCHANGED <<dnsCode, record>>
    /\ UNCHANGED <<msg, isReply, answered>>

-----------------------------------------------------------------------------
\* A name server: the question, and every record with a pointer to its name.  A name
\* in the data is one label and that pointer: of the ways to compress an answer this
\* is the one that is modelled.
RecordData(a) ==
    CASE a.type = 5 -> Wire(<<a.data>>) \o <<192, 12>>
      [] a.type = 15 -> <<0, 10>> \o Wire(<<a.data>>) \o <<192, 12>>
      [] a.type = 16 -> <<Len(a.data)>> \o a.data
      [] OTHER -> a.data
ZoneReply(z) ==
    <<171, 205, 129, 128, 0, 1, 0, Len(z.answers), 0, 0, 0, 0>>
      \o Wire(z.name) \o <<0, 0, z.type, 0, 1>>
      \o FlattenSeq([k \in 1 .. Len(z.answers) |->
           LET a == z.answers[k]
           IN  <<192, 12, 0, a.type, 0, 1, 0, 0, 0, 60, 0, Len(RecordData(a))>> \o RecordData(a)])

\* recvfrom() fails, or returns an answer, all of it or as much as was not cut off,
\* or anything else: who sent it is not checked.  A lost answer is waited for.
ReceiveReply ==
    /\ dns = "wait" /\ isReply' = TRUE
    /\ \/ \E z \in Zone : \E n \in 0 .. Len(ZoneReply(z)) :
             PrintMessage(SubSeq(ZoneReply(z), 1, n)) /\ answered' = <<z, n>>
       \/ \E m \in Strange : PrintMessage(m) /\ UNCHANGED answered

DnsNext ==
    DnsStart \/ NextRecord \/ PrintName \/ QuestionFields \/ RecordFields \/ ReceiveReply

-----------------------------------------------------------------------------
DnsTypeOK ==
    /\ dns \in {"off", "record", "name", "fields", "wait", "exited", "hung", "crashed"}
    /\ dnsCode \in {0, 1} /\ isReply \in BOOLEAN
    /\ msg \in Seq(Bytes)
    /\ {record, pos, at, back, rest} \subseteq Nat /\ depth \in 0 .. MaxDepth

\* What should be printed of an answer: for the question and every record the
\* labels of its name and its type, then its data.
ShouldPrint(z) ==
    z.name \o <<<<z.type>>>> \o
    FlattenSeq([k \in 1 .. Len(z.answers) |->
        LET a == z.answers[k]
        IN  z.name \o <<<<a.type>>, a.data>> \o (IF a.type \in {5, 15} THEN z.name ELSE <<>>)])

\* Printing an answer encoded as ZoneReply does follows every pointer to the name and
\* goes on behind the right byte: what is printed is what the answer says, and when
\* the answer was cut off anywhere, the beginning of it and then failure.  Nothing
\* behind the message is read.
NamesArePrinted ==
    answered # <<>> =>
        LET z == answered[1]
        IN  /\ IsPrefix(items, ShouldPrint(z))
            /\ dns \notin {"crashed", "hung"} /\ ~ outside
            /\ End >= 12 => pos <= End /\ rest <= End
            /\ dns = "exited" =>
                  IF answered[2] = Len(ZoneReply(z))
                  THEN dnsCode = 0 /\ items = ShouldPrint(z) /\ pos = End
                  ELSE dnsCode = 1
=============================================================================
