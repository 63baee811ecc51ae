---------------------------- MODULE HttpRequest ----------------------------
(***************************************************************************)
(* What web_server.c reads in a request buffer and what it answers.        *)
(*                                                                         *)
(* The bytes of a request are abstracted to tokens.  "GET/" stands for the *)
(* five bytes `GET /`, "sp" for a space, "crlf" for CR LF, "nul" for a     *)
(* zero byte, "dotdot" for `..`; every other token is text of a path.  An  *)
(* answer is the sequence of the segments passed to send(), one per call.  *)
(***************************************************************************)
EXTENDS Integers, Sequences, SequencesExt

CONSTANTS
    MAX_REQUEST_SIZE,   \* bytes a buffer holds before its final zero (2047)
    MaxPath,            \* longest path that is looked up (100)
    Index,              \* the path served for `/` (/index.html)
    Pages               \* path -> number of BSIZE chunks of the file

ASSUME SizeAssumption == MAX_REQUEST_SIZE \in Nat \ {0}
ASSUME PagesAssumption == \A p \in DOMAIN Pages : Pages[p] \in Nat

\* strstr and strncmp stop at the first zero byte of the buffer.
CString(buf) ==
    LET z == SelectInSeq(buf, LAMBDA t : t = "nul")
    IN  IF z = 0 THEN buf ELSE SubSeq(buf, 1, z - 1)

Terminators(buf) ==
    LET text == CString(buf)
    IN  {i \in 1 .. Len(text) - 1 : text[i] = "crlf" /\ text[i + 1] = "crlf"}

\* strstr(request, "\r\n\r\n") finds the end of the request.
Complete(buf) == Terminators(buf) # {}

\* The request text left by `*q = 0`.
RequestText(buf) == SubSeq(buf, 1, Min(Terminators(buf)) - 1)

\* The kinds of segments send() is given.
Segments == {"400", "404", "200", "connection", "length", "type", "blank", "body"}

BadRequest == <<"400">>
NotFound == <<"404">>

\* The five header sends of serve_resource and one send per chunk read.
Page(path) ==
    <<"200", "connection", "length", "type", "blank">>
        \o [i \in 1 .. Pages[path] |-> "body"]

\* serve_resource; canOpen tells whether fopen may get a descriptor.
Resource(path, canOpen) ==
    LET file == IF path = <<>> THEN Index ELSE path
    IN  CASE Len(file) > MaxPath -> BadRequest
          [] Len(file) <= MaxPath /\ Contains(file, "dotdot") -> NotFound
          [] OTHER -> IF file \in DOMAIN Pages /\ canOpen
                      THEN Page(file) ELSE NotFound

\* The answer main() picks for a complete request.
Response(buf, canOpen) ==
    LET text == RequestText(buf)
        spaces == {i \in 2 .. Len(text) : text[i] = "sp"}
    IN  IF text = <<>> \/ text[1] # "GET/" \/ spaces = {}
        THEN BadRequest
        ELSE Resource(SubSeq(text, 2, Min(spaces) - 1), canOpen)

\* What a client that sends all of r is owed, however its bytes are split.
Promise(r, canOpen) ==
    LET head == SubSeq(r, 1, Min({Len(r), MAX_REQUEST_SIZE}))
    IN  IF Complete(head) THEN Response(head, canOpen) ELSE BadRequest
=============================================================================
