------------------------------ MODULE SmtpSend ------------------------------
(***************************************************************************)
(* C/smtp client /smtp_send.c: a dialogue with a mail server in which every *)
(* command waits for the reply to the one before.                          *)
(*                                                                         *)
(* What the user types is a sequence of characters: ".", "nl" and others.  *)
(* A reply is a sequence of tokens: its three digits, "-" or " " for what  *)
(* follows them up to the end of the line, and "crlf".                     *)
(***************************************************************************)
EXTENDS Naturals, SequencesExt

CONSTANTS
    MAXINPUT,     \* size of the buffer of get_input (512)
    MAXRESPONSE,  \* tokens of a reply that do not fit (1024 bytes)
    MaxLines,     \* lines of a message, at most: a bound of the model
    Inputs,       \* what a user may type
    Replies       \* the code that is expected -> what the server may reply

ASSUME SmtpAssumption ==
    /\ MAXINPUT \in Nat \ {0, 1} /\ MAXRESPONSE \in Nat \ {0} /\ MaxLines \in Nat
    /\ Inputs \subseteq Seq(STRING)

VARIABLES
    smtp,      \* where main() is: "off", "wait", "body", "finished", "failed"
    step,      \* the command whose reply it waits for
    reply,     \* `response`, what it has received of the reply
    stdin,     \* what is typed and not yet read
    fields,    \* what get_input returned for hostname, from, to and subject
    lines,     \* the lines sent as the body of the message
    owes,      \* the server has not yet answered the last command
    replies,   \* what the server has sent and the client not received
    hungup,    \* the server has closed the connection
    typed      \* history: all that is typed

smtpVars == <<smtp, step, reply, stdin, fields, lines, owes, replies, hungup, typed>>

-----------------------------------------------------------------------------
\* The codes main() waits for: after connecting, HELO, MAIL FROM, RCPT TO, DATA,
\* the body, and QUIT.
Expecting == <<"220", "250", "250", "250", "354", "250", "221">>

Bug_Fgets(text) ==
    Min({k \in 1 .. Len(text) : text[k] = "nl"} \cup {Len(text), MAXINPUT - 2})
\* How much of the input fgets() takes: a line, or what fits.
Fgets(text) ==
    Min({k \in 1 .. Len(text) : text[k] = "nl"} \cup {Len(text), MAXINPUT - 1})

\* get_input: what fgets() took but its last character, whatever that is.
GetInput(text) == SubSeq(text, 1, Fgets(text) - 1)
AfterInput(text) == SubSeq(text, Fgets(text) + 1, Len(text))

\* Where a complete line of the reply begins.
LineStarts(r) ==
    {k \in 1 .. Len(r) - 1 : (k = 1 \/ r[k - 1] = "crlf") /\ "crlf" \in ToSet(SubSeq(r, k, Len(r)))}

Bug_ParseResponse(r) == IF LineStarts(r) = {} THEN "none" ELSE r[Min(LineStarts(r))]
\* parse_response: the code of the first complete line without a "-".
ParseResponse(r) ==
    LET last == {k \in LineStarts(r) : r[k + 1] # "-"}
    IN  IF last = {} THEN "none" ELSE r[Min(last)]

\* A server ends a reply with its only line that has no "-": in a beginning of it
\* every complete line has one.
ASSUME ReplyAssumption ==
    \A k \in 1 .. 7 : \A r \in Replies[Expecting[k]] :
        /\ r \in Seq(STRING)
        /\ \A n \in 0 .. Len(r) - 1 : LET some == SubSeq(r, 1, n)
                                    IN  \A line \in LineStarts(some) : some[line + 1] = "-"

-----------------------------------------------------------------------------
SmtpInit ==
    /\ smtp = "off" /\ step = 1 /\ owes = FALSE /\ hungup = FALSE
    /\ reply = <<>> /\ stdin = <<>> /\ fields = <<>> /\ lines = <<>>
    /\ replies = <<>> /\ typed = <<>>

\* The host is asked for and connected to; the server should greet.
SmtpConnect ==
    /\ smtp = "off"
    /\ typed' \in Inputs
    /\ fields' = <<GetInput(typed')>> /\ stdin' = AfterInput(typed')
    /\ \/ smtp' = "wait" /\ owes' = TRUE
       \/ smtp' = "failed" /\ owes' = FALSE
    /\ UNCHANGED <<step, reply, lines, replies, hungup>>

\* The reply is the one expected: the next command is sent, for MAIL, RCPT and the
\* header lines after asking the user; after QUIT's the program ends.
NextCommand ==
    /\ reply' = <<>>
    /\ IF step \in {2, 3, 5}
       THEN fields' = Append(fields, GetInput(stdin)) /\ stdin' = AfterInput(stdin)
       ELSE UNCHANGED <<fields, stdin>>
    /\ step' = IF step = 7 THEN 7 ELSE step + 1
    /\ smtp' = CASE step = 5 -> "body" [] step = 7 -> "finished" [] OTHER -> "wait"
    /\ owes' = (step \notin {5, 7})

\* wait_on_response: another recv(), then the response so far is parsed.
WaitOnResponse ==
    /\ smtp = "wait"
    /\ \E n \in 1 .. Min({Len(replies), MAXRESPONSE - Len(reply)}) :
          LET response == reply \o SubSeq(replies, 1, n)
              code == ParseResponse(response)
          IN  /\ replies' = SubSeq(replies, n + 1, Len(replies))
              /\ \/ /\ (Len(response) = MAXRESPONSE \/ code \notin {"none", Expecting[step]})
                    /\ smtp' = "failed" /\ reply' = response
                    /\ UNCHANGED <<step, stdin, fields, owes>>
                 \/ /\ Len(response) < MAXRESPONSE /\ code = "none"
                    /\ reply' = response
                    /\ UNCHANGED <<smtp, step, stdin, fields, owes>>
                 \/ /\ Len(response) < MAXRESPONSE /\ code = Expecting[step]
                    /\ NextCommand
    /\ UNCHANGED <<lines, hungup, typed>>

\* A line of the message.  At the end of the input get_input returns empty lines.
SendLine ==
    /\ smtp = "body" /\ Len(lines) < MaxLines
    /\ LET body == GetInput(stdin)
       IN  /\ lines' = Append(lines, body)
           /\ IF body = <<".">>
              THEN smtp' = "wait" /\ owes' = TRUE
              ELSE UNCHANGED <<smtp, owes>>
    /\ stdin' = AfterInput(stdin)
    /\ UNCHANGED <<step, reply, fields, replies, hungup, typed>>

\* The server has gone: recv() returns 0 ("Connection dropped."), or send() raises
\* SIGPIPE.
ServerLost ==
    /\ hungup
    /\ (smtp = "wait" /\ replies = <<>>) \/ (smtp = "body" /\ lines # <<>>)
    /\ smtp' = "failed"
    /\ UNCHANGED <<step, reply, stdin, fields, lines, owes, replies, hungup, typed>>

-----------------------------------------------------------------------------
\* The server replies to the last command, or hangs up.
MailServer ==
    /\ smtp \in {"wait", "body"} /\ ~ hungup
    /\ \/ /\ owes /\ \E r \in Replies[Expecting[step]] : replies' = replies \o r
          /\ owes' = FALSE /\ hungup' = FALSE
       \/ hungup' = TRUE /\ UNCHANGED <<replies, owes>>
    /\ UNCHANGED <<smtp, step, reply, stdin, fields, lines, typed>>

\* What the server files of the lines of a message: it takes away the first dot of
\* a line that begins with one.
Filed(message) == [k \in 1 .. Len(message) |->
    IF message[k] # <<>> /\ message[k][1] = "." THEN Tail(message[k]) ELSE message[k]]

SmtpNext == SmtpConnect \/ WaitOnResponse \/ SendLine \/ ServerLost \/ MailServer

SmtpSpec == SmtpInit /\ [][SmtpNext]_smtpVars

-----------------------------------------------------------------------------
SmtpTypeOK ==
    /\ smtp \in {"off", "wait", "body", "finished", "failed"}
    /\ step \in 1 .. 7
    /\ {reply, stdin, replies, typed} \subseteq Seq(STRING)
    /\ Len(reply) <= MAXRESPONSE
    /\ {fields, lines} \subseteq Seq(Seq(STRING))
    /\ owes \in BOOLEAN /\ hungup \in BOOLEAN

\* The client is never ahead of the server: when it waits for an answer the server
\* still owes, sends the message or has finished, no part of an earlier reply is
\* unread, in whatever pieces a reply of several lines arrives.
InStep == (owes \/ smtp \in {"body", "finished"}) => reply \o replies = <<>>

\* What is typed, as lines.
LinesOf(text) ==
    LET ends == {k \in DOMAIN text : text[k] = "nl"}
        end(n) == CHOOSE k \in ends : Cardinality({m \in ends : m <= k}) = n
    IN  [n \in 1 .. Cardinality(ends) |->
           SubSeq(text, IF n = 1 THEN 1 ELSE end(n - 1) + 1, end(n) - 1)]

\* When the mail is accepted, the server has filed the lines the user typed after
\* the four answers and before the first dot on a line by itself, provided that
\* every line typed fits in the buffer and ends in a newline, and none of the
\* message begins with a dot (the client does not double it).
MailArrives ==
    LET wanted == LinesOf(typed)
        ends == {k \in 5 .. Len(wanted) : wanted[k] = <<".">>}
        message == SubSeq(wanted, 5, Min(ends) - 1)
    IN  /\ smtp = "finished" /\ ends # {}
        /\ \A k \in DOMAIN wanted : Len(wanted[k]) + 1 < MAXINPUT
        /\ \A k \in DOMAIN message : message[k] = <<>> \/ message[k][1] # "."
        => fields = SubSeq(wanted, 1, 4) /\ Filed(Front(lines)) = message
=============================================================================
