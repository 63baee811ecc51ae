------------------------------- MODULE WebGet -------------------------------
(***************************************************************************)
(* C/chapter 6 web-client/web_get.c: a request for one page, and a loop     *)
(* that cuts the page out of one buffer while the response arrives.        *)
(*                                                                         *)
(* A response is a sequence of characters, in which the header lines that  *)
(* matter are one each: "CL" is "Content-Length: ", "TE" is                *)
(* "Transfer-Encoding: chunked".  "nul" is a zero byte, at which strstr()  *)
(* and printf("%.*s") stop.                                                *)
(***************************************************************************)
EXTENDS Naturals, SequencesExt

CONSTANTS
    RESPONSE_SIZE,  \* size of the buffer (8192)
    TIMEOUT,        \* seconds of clock() after which it gives up (5)
    MaxStale,       \* how far stale memory is looked through: a bound of the model
    Urls,           \* records [protocol, host, port, path, fragment]
    Sites           \* records [page, script, chunks]: a page and a response that carries it

ASSUME WebGetAssumption == RESPONSE_SIZE \in Nat \ {0} /\ {TIMEOUT, MaxStale} \subseteq Nat

VARIABLES
    wg,        \* where main() is: "off", "loop", "chunks" (218-234), "exited"
    wgCode,    \* the exit status
    url,       \* the argument
    asked,     \* what the request names: host, port and path
    site,      \* history: the site that is asked
    sent,      \* how much of site.script the server has sent
    closed,    \* the server has closed the connection
    response,  \* the characters from `response` up to `p`
    body,      \* index in `response` of what is still to be printed; 0 is NULL
    encoding, remaining,
    clock,     \* whole seconds of processor time used since the request
    shown,     \* what is printed of the page
    strayed    \* it has taken stale memory behind `p` for a chunk size

wgVars == <<wg, wgCode, url, asked, site, sent, closed, response, body, encoding,
            remaining, clock, shown, strayed>>

-----------------------------------------------------------------------------
Text(u) ==
    LET after(mark, part) == IF part = <<>> THEN <<>> ELSE <<mark>> \o part
        protocol == IF u.protocol = "" THEN <<>> ELSE <<u.protocol, "://">>
    IN  protocol \o (u.host \o (after(":", u.port) \o
           (after("/", u.path) \o after("#", u.fragment))))

\* The first of some characters in a text, from a place on; behind its end if none.
FirstOf(chars, text, from) ==
    Min({k \in from .. Len(text) : text[k] \in chars} \cup {Len(text) + 1})

Bug_ParseUrl(text) ==
    LET host == FirstOf({"://"}, text, 1) + 1
    IN  [protocol |-> "http", host |-> SubSeq(text, host, FirstOf({":", "/", "#"}, text, host) - 1),
         port |-> <<"80">>, path |-> <<>>]
\* parse_url.  A fragment stays in the path: the search for "#" starts at the
\* zero that has just ended the host name.
ParseUrl(text) ==
    LET mark == FirstOf({"://"}, text, 1)
        host == IF mark > Len(text) THEN 1 ELSE mark + 1
        colon == FirstOf({":", "/", "#"}, text, host)
        hasPort == colon <= Len(text) /\ text[colon] = ":"
        slash == FirstOf({"/", "#"}, text, colon)
    IN  [protocol |-> IF host = 1 THEN "http" ELSE text[1],
         host |-> SubSeq(text, host, colon - 1),
         port |-> IF hasPort THEN SubSeq(text, colon + 1, slash - 1) ELSE <<"80">>,
         path |-> IF slash <= Len(text) /\ text[slash] = "/"
                  THEN SubSeq(text, slash + 1, Len(text)) ELSE <<>>]

\* strtol(), for numbers of one digit.
Strtol(c) == CASE c = "1" -> 1 [] c = "2" -> 2 [] c = "3" -> 3 [] OTHER -> 0

\* strstr(): the first place of `part` in `text` from `from` on, 0 for none
\* before a zero byte.
Strstr(text, from, part) ==
    LET at == {k \in from .. Len(text) + 1 - Len(part) :
                 /\ SubSeq(text, k, k + Len(part) - 1) = part
                 /\ \A j \in from .. k - 1 : text[j] # "nul"}
    IN  IF at = {} THEN 0 ELSE Min(at)

\* printf("%.*s"): what stands before the first zero byte of the text.
UpToNul(text) == SubSeq(text, 1, FirstOf({"nul"}, text, 1) - 1)

CrLf == <<"cr", "lf">>

\* Where the empty line begins that ends the headers; 0 before it has arrived.
HeaderEnd(text) == Strstr(text, 1, CrLf \o CrLf)

\* What the headers say of the body.
Declared(text) ==
    LET head == SubSeq(text, 1, HeaderEnd(text) - 1)
        length == Strstr(head, 1, <<"lf", "CL">>)
        transfer == Strstr(head, 1, <<"lf", "TE">>)
    IN  [encoding |-> IF length # 0 THEN "length"
                      ELSE IF transfer # 0 THEN "chunked" ELSE "connection",
         remaining |-> IF length # 0 THEN Strtol(text[length + 2]) ELSE 0]

\* How many characters are known to stand at `at` or behind it: p - body.
Behind(at, text) == IF at > Len(text) THEN 0 ELSE Len(text) + 1 - at

-----------------------------------------------------------------------------
\* The parts of a URL hold no mark that ends them.
IsUrl(u) ==
    LET none(part, marks) == \A k \in 1 .. Len(part) : part[k] \notin marks
    IN  /\ u.protocol \in STRING /\ {u.host, u.port, u.path, u.fragment} \subseteq Seq(STRING)
        /\ u.protocol # "://"
        /\ none(u.host, {"://", ":", "/", "#"}) /\ none(u.port, {"://", "/", "#"})
        /\ none(u.path, {"://"}) /\ none(u.fragment, {"://"})

\* The chunks of a script, each with the place of its size line, and how much of
\* the page is before it: the pieces of the page in order, then an empty one.
IsChunked(s) ==
    /\ s.chunks # <<>> /\ s.chunks[1].at = HeaderEnd(s.script) + 4 /\ s.chunks[1].before = 0
    /\ \A k \in DOMAIN s.chunks :
          LET c == s.chunks[k]
          IN  /\ c.at \in 1 .. Len(s.script) - 2
              /\ s.script[c.at] \notin {"cr", "nul"} /\ Strtol(s.script[c.at]) = c.size
              /\ SubSeq(s.script, c.at + 1, c.at + 2) = CrLf
              /\ IF c.size = 0 THEN c.before = Len(s.page)
                 ELSE /\ k < Len(s.chunks) /\ c.before + c.size <= Len(s.page)
                      /\ SubSeq(s.script, c.at + 3, c.at + 2 + c.size)
                           = SubSeq(s.page, c.before + 1, c.before + c.size)
                      /\ s.chunks[k + 1].at = c.at + c.size + 5
                      /\ s.chunks[k + 1].before = c.before + c.size

\* The script is a response whose headers say how the page in it is delimited.
Carries(s) ==
    /\ {s.page, s.script} \subseteq Seq(STRING)
    /\ s.chunks \in Seq([at : Nat, size : Nat, before : Nat])
    /\ HeaderEnd(s.script) # 0
    /\ IF Declared(s.script).encoding = "chunked" THEN IsChunked(s)
       ELSE /\ s.page = SubSeq(s.script, HeaderEnd(s.script) + 4, Len(s.script))
            /\ Declared(s.script).encoding = "length" =>
                  Declared(s.script).remaining = Len(s.page)

ASSUME UrlsAssumption == \A u \in Urls : IsUrl(u)
ASSUME SitesAssumption == \A s \in Sites : Carries(s)

-----------------------------------------------------------------------------
WebGetInit ==
    /\ wg = "off" /\ wgCode = 0 /\ asked = <<>> /\ sent = 0 /\ closed = FALSE
    /\ url = <<>> /\ site = <<>>
    /\ response = <<>> /\ body = 0 /\ encoding = "length" /\ remaining = 0
    /\ clock = 0 /\ shown = <<>> /\ strayed = FALSE

Exit(code) == wg' = "exited" /\ wgCode' = code

\* The URL is parsed, the host connected to and the request sent.
WebGetStart ==
    /\ wg = "off"
    /\ url' \in Urls /\ site' \in Sites
    /\ asked' = ParseUrl(Text(url'))
    /\ \/ asked'.protocol = "http" /\ wg' = "loop" /\ wgCode' = 0
       \/ Exit(1)
    /\ UNCHANGED <<sent, closed, response, body, encoding, remaining, clock, shown, strayed>>

\* Its own work is what makes clock() advance.
ClockAdvances ==
    /\ wg = "loop" /\ clock <= TIMEOUT
    /\ clock' = clock + 1
    /\ UNCHANGED <<wg, wgCode, url, asked, site, sent, closed, response, body, encoding,
                   remaining, shown, strayed>>

Bug_GiveUp ==
    /\ wg = "loop" /\ Len(response) = RESPONSE_SIZE /\ Exit(1)
    /\ UNCHANGED <<url, asked, site, sent, closed, response, body, encoding, remaining,
                   clock, shown, strayed>>
\* The time-out, and "out of buffer space".
GiveUp ==
    /\ wg = "loop"
    /\ clock > TIMEOUT \/ Len(response) = RESPONSE_SIZE
    /\ Exit(1)
    /\ UNCHANGED <<url, asked, site, sent, closed, response, body, encoding, remaining,
                   clock, shown, strayed>>

\* The headers are complete with what recv() returned: how the body is delimited.
ReadHeaders(text) ==
    IF body # 0 \/ HeaderEnd(text) = 0
    THEN UNCHANGED <<body, encoding, remaining>>
    ELSE /\ body' = HeaderEnd(text) + 4
         /\ encoding' = Declared(text).encoding
         /\ remaining' = Declared(text).remaining

Bug_Space == RESPONSE_SIZE
\* The room behind `p`: end - p.
Space == RESPONSE_SIZE - Len(response)

\* recv() returns some of what has arrived.
Receive ==
    /\ wg = "loop" /\ clock <= TIMEOUT
    /\ \E n \in 1 .. Min({sent - Len(response), Space}) :
          response' = response \o SubSeq(site.script, Len(response) + 1, Len(response) + n)
    /\ ReadHeaders(response')
    /\ IF body' # 0 /\ encoding' = "length" /\ Behind(body', response') >= remaining'
       THEN /\ shown' = UpToNul(SubSeq(response', body', body' + remaining' - 1))
            /\ Exit(0)
       ELSE /\ wg' = IF body' # 0 /\ encoding' = "chunked" THEN "chunks" ELSE "loop"
            /\ UNCHANGED <<wgCode, shown>>
    /\ UNCHANGED <<url, asked, site, sent, closed, clock, strayed>>

\* recv() returns 0 or fails.  A body without a length is printed now.
PeerClosed ==
    /\ wg = "loop" /\ clock <= TIMEOUT /\ Space > 0
    /\ closed /\ Len(response) = sent
    /\ shown' = IF encoding = "connection" /\ body # 0
                THEN UpToNul(SubSeq(response, body, Len(response))) ELSE shown
    /\ Exit(0)
    /\ UNCHANGED <<url, asked, site, sent, closed, response, body, encoding, remaining,
                   clock, strayed>>

-----------------------------------------------------------------------------
\* What stands behind `p`, where `body` may lie when the chunk before has arrived
\* without the CRLF after it: anything that is left over may pass for a size line.
LeftOver == {[size |-> n, at |-> k, stale |-> TRUE] :
    n \in 0 .. 1, k \in body + 2 .. Min({body + MaxStale, RESPONSE_SIZE + 1})}

\* What may be found where a chunk size should stand: a size and where its chunk
\* begins, at = 0 for no complete line.
SizeLines ==
    LET q == Strstr(response, body, CrLf)
    IN  IF remaining # 0 THEN {[size |-> remaining, at |-> body, stale |-> FALSE]}
        ELSE IF body <= Len(response) + 1
        THEN {[size |-> IF q = 0 THEN 0 ELSE Strtol(response[body]),
               at |-> IF q = 0 THEN 0 ELSE q + 2, stale |-> FALSE]}
        ELSE {[size |-> 0, at |-> 0, stale |-> FALSE]} \cup LeftOver

Bug_NextChunk(line) == line.at + line.size
\* The size line of the next chunk: behind this one and its CRLF.
NextChunk(line) == line.at + line.size + 2

\* One round of the do-while loop.
ChunkStep ==
    /\ wg = "chunks"
    /\ \E line \in SizeLines :
          /\ strayed' = (strayed \/ line.stale)
          /\ \/ /\ line.at = 0 /\ wg' = "loop"
                /\ UNCHANGED <<wgCode, body, remaining, shown>>
             \/ /\ line.at # 0 /\ line.size = 0 /\ Exit(0)
                /\ UNCHANGED <<body, remaining, shown>>
             \/ /\ line.at # 0 /\ line.size # 0
                /\ IF Behind(line.at, response) >= line.size
                   THEN /\ shown' = shown \o UpToNul(SubSeq(response, line.at, line.at + line.size - 1))
                        /\ body' = NextChunk(line) /\ remaining' = 0
                        /\ UNCHANGED wg
                   ELSE /\ body' = line.at /\ remaining' = line.size
                        /\ wg' = "loop" /\ UNCHANGED shown
                /\ UNCHANGED wgCode
    /\ UNCHANGED <<url, asked, site, sent, closed, response, encoding, clock>>

-----------------------------------------------------------------------------
\* The web server sends some of its response, or closes the connection.
SiteSends ==
    /\ wg \in {"loop", "chunks"} /\ ~ closed
    /\ \/ sent' \in sent + 1 .. Len(site.script) /\ UNCHANGED closed
       \/ closed' = TRUE /\ UNCHANGED sent
    /\ UNCHANGED <<wg, wgCode, url, asked, site, response, body, encoding, remaining,
                   clock, shown, strayed>>

WebGetSteps == GiveUp \/ Receive \/ PeerClosed \/ ChunkStep
WebGetNext == WebGetStart \/ ClockAdvances \/ WebGetSteps \/ SiteSends
WebGetSpec == WebGetInit /\ [][WebGetNext]_wgVars

\* The program is scheduled, and waiting in select() uses a little processor time
\* each time round: in the end clock() passes the limit.  Nothing is assumed of
\* the server.
WebGetFairness == WF_wgVars(WebGetSteps) /\ WF_wgVars(ClockAdvances)

-----------------------------------------------------------------------------
WebGetTypeOK ==
    /\ wg \in {"off", "loop", "chunks", "exited"} /\ wgCode \in {0, 1}
    /\ encoding \in {"length", "chunked", "connection"}
    /\ {response, shown} \subseteq Seq(STRING)
    /\ Len(response) <= sent /\ Len(response) <= RESPONSE_SIZE
    /\ body \in 0 .. 2 * RESPONSE_SIZE /\ remaining \in Nat
    /\ clock \in 0 .. TIMEOUT + 1
    /\ closed \in BOOLEAN /\ strayed \in BOOLEAN

\* The request names the host, port and path of the URL (when no fragment follows
\* a path), and however the response is cut into pieces, what is printed of it is
\* a beginning of the page, and all of it when the program exits with success
\* after receiving everything -- unless stale memory passed for a chunk size, and
\* for a page without a zero byte: printf() leaves out what follows one.
BodyIsPage ==
    /\ wg = "loop" /\ (url.fragment = <<>> \/ url.path = <<>>) =>
          asked = [protocol |-> "http", host |-> url.host, path |-> url.path,
                   port |-> IF url.port = <<>> THEN <<"80">> ELSE url.port]
    /\ wg # "off" /\ ~ strayed /\ "nul" \notin ToSet(site.page) =>
          /\ IsPrefix(shown, site.page)
          /\ wg = "exited" /\ wgCode = 0 /\ Len(response) = Len(site.script) =>
                shown = site.page

\* Whatever the server does, also when it never answers, the program ends.
WebGetEnds == wg \in {"loop", "chunks"} ~> wg = "exited"
=============================================================================
