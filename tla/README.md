# Specifications of the network programs of Code-and-IAC

The repository is a study repository: network programs in C, a few command line
tools, data pipelines and checks in Python, shell scripts, Terraform and SQL. Its
own program logic is in the C network programs; the servers among them are where
several parties act at once. This directory holds TLA+ modules translated from
that code, TLC configurations that check them on small instances, and proofs
checked by TLAPS. Paths below are relative to `src/C/` unless they start
with `src/`.

Contents: 1. the system; 2. the modules and how they correspond to the code;
3. the runs; 4. fairness; 5. the proofs; 6. what is only model-checked; 7. what
is abstracted and what is not modelled; 8. the plan.

## 1. The system

Every program is one process and one thread; concurrency comes from the peers and
the kernel between them. No program calls another as a library; they interact
over TCP or UDP, and through the file system.

| component | state it keeps | operations | talks to |
|---|---|---|---|
| HTTP server, `chapter 7/web_server.c` | linked list `clients` of `client_info` (socket, request buffer of 2047 bytes, `received`), the `fd_set` of a round | `wait_on_clients`, `get_client` + `accept`, `recv` and parse, `send_400`, `send_404`, `serve_resource`, `drop_client` | browsers, `web_get.c`; files under `public/` |
| chat server, `tcp_serve_chat/tcp_serve_chat.c` | `master`, `max_socket`, one 1024-byte buffer | select, accept, receive and broadcast, disconnect | `tcp_client.c` |
| toupper server, `tcp_serve_toupper/tcp_serve_toupper.c` | the same | the same loop, convert and echo | `tcp_client.c` |
| TCP client, `tcp_client/tcp_client.c` | socket, stdin (with the buffer of stdio) | select with 100 ms, recv and print, fgets and send | the two servers above |
| HTTP client, `chapter 6 web-client/web_get.c` | response buffer of 8192 bytes, `p`, `q`, `body`, `remaining`, `encoding` | parse_url, connect, send_request, receive by length, chunk or connection | HTTP servers |
| SMTP client, `smtp client /smtp_send.c` | reply buffer, position in the dialogue | wait_on_response, send_format, body loop | a mail server |
| DNS client, `dns/dns_query.c` | one query, one reply of 1024 bytes | encode a name, send, receive once, print (recursive names) | a name server |
| SSH clients, `chapter 11 ssh/*.c` | session, channel | connect, check host key, log in, run or download | an SSH server, libssh |
| TLS time server and HTTPS client | one connection | accept, handshake, answer | OpenSSL |
| plain time servers | one connection | accept, recv, answer, exit | a browser |
| UDP programs, `chapter 4/*.c` | none or one address | recvfrom, convert, sendto | each other |
| word count, `wc-tool/ccwc.c` | three counters, word state | fgets in pieces of 99 characters | files, stdin |
| adapter listing, `listing-network-adapters-windows/win_init.c` | buffer and its size | retry on overflow | Windows |
| ETL and data quality (`src/Data Engineering`) | files, tables | task chain with retries, checks | Airflow, databases |
| shell scripts (`src/linux`, `src/IAC`) | users, cloud resources | straight lines of commands | external tools |

**What is hard.** In the servers: `reads` is filled once and used through a whole
round while connections are accepted and closed; descriptors are given again;
clients are freed during the scan of their list; one blocking `send()` serves one
peer while all others wait; a peer may close or reset between any two steps; a
stream arrives in any pieces; buffers and descriptors run out. In the clients:
replies in pieces, time-outs, buffers at their limit, two blocking `send()`s facing
each other. In the tools and scripts: boundaries of pieces, one failing step of
several.

**What makes each part correct.**
- HTTP server: the list is exactly the open connections; no freed client is
  followed; `recv()` never blocks and never writes past the buffer; what a peer
  is answered depends on its own bytes alone, in whatever pieces they come; a
  complete request is answered; who leaves gives the descriptor back; `drop_client`
  always finds what it is asked to drop, and so never exits.
- Chat server: `master` and `max_socket` cover the open clients; no call on a
  ready descriptor blocks; each member gets what the others say, once, whole and
  in the same order, and never its own; who quits leaves.
- Toupper server: each client gets its own text in upper case, and that alone.
- TCP client: nothing received or typed is lost, and a typed line is sent although
  no further one is typed.
- HTTP client: body equal to the body sent, by length, by chunks or to the end of
  the connection; a silent server is given up in the end (after five seconds of
  processor time, by `clock()`, which hardly advances while the program waits).
- SMTP client: a step is taken only after the whole reply to the one before; the
  message the server files is what was typed, up to the dot.
- DNS client: what is printed is what the message says, a record's name being a pointer to
  that of the question; a message that is cut off ends the program and is not read past its end.
- SSH clients: no password before the host key is accepted, no command before login.
- UDP programs: a client prints answers to its own lines only, whatever is lost or doubled.
- Time servers: who has sent a request gets all of the answer; a handshake that fails
  leaves the server ready for the next client.
- Adapter listing: the list that is printed is one the call has filled.
- Word count: the counters are those of the whole file, however it is cut.
- Pipelines, checks and scripts: a failing step stops what depends on it; a check
  fails on a table that violates it.

The hazards of the code, each at its line, with the properties that cover them,
are in `PROJECT.json`.

## 2. The modules

```
HttpRequest <- WebServer <- WebServerRefinement (-> HttpService) <- MCWebServer
                    ^------ WebServerProofs (also of the refinement)
SelectLoop <- ChatServer <- ChatRefinement (-> ChatRoom) <- MCChatServer
     |            ^------ ChatProofs (also of ChatRefinement and ChatSystem)
     |------ ToupperServer <- MCToupperServer
     |            ^------ ToupperServerProofs
     `------ TcpClient; with ChatServer: ChatSystem <- MCChatSystem
SelectLoopProofs            (used by ChatProofs and ToupperServerProofs)
ListLemmas                  (used by all proof modules)
SmtpSend, WebGet, SshTools                     <- MCClients
             ^------ WebGetProofs                     ^------ ClientProofs
UdpPrograms, TimeServers, DnsQuery, Ccwc       <- MCServices
                                                      ^------ ServiceProofs
WinInit
```

**HttpRequest**: what the server reads in a buffer and what it answers. Bytes are
tokens: `GET/`, `sp`, `crlf`, `nul`, `dotdot`, text. `Complete` is the
`strstr(request, "\r\n\r\n")` of line 307 (up to the first zero byte), `Response`
is lines 309-323, `Resource` is `serve_resource`, `Promise(r, canOpen)` what a peer
that sends all of `r` gets, which must not depend on how `r` is cut. An answer is
the sequence of the segments given to `send()`, one per call.

**WebServer**: the process and its peers. A client is named by its descriptor.
`clients` is the list, `reads` the `fd_set`, `client` and `next` the locals of the
scan, `request` the buffers, `sending` the segments still to send. One action per
step between two system calls:

| action | code (`web_server.c`) |
|---|---|
| `WaitOnClients`, `SelectFails` | `wait_on_clients` 135-156 |
| `NothingToAccept`, `Accept`, `AcceptFails` | 263-283, with `get_client(-1)` 79-101 |
| `NotReady` | 286 false |
| `TooLong` | 288-292 |
| `Receive` | 294-323 |
| `Disconnect` | 298-301 |
| `Send`, `SendIgnored`, `SendKilled` | each `send()` of 159-240 |
| `Finish` | the end of `send_400`, `send_404`, `serve_resource` |
| `Drop` in `Disconnect` and `Finish` | `drop_client` 104-120, its `exit(1)` (118) included, and the step to the saved successor |

A round is: one `select()`, at most one `accept()`, a scan of the list from the
newest to the oldest client. Descriptors are given lowest first, as POSIX demands. The
`accept()` of a round comes before its drops, so that a descriptor that is given back is used
again in a later round at the earliest. (In the chat server a client below the listening
socket may leave before the `accept()` of the same pass, which then gives its descriptor to
another; the pass has left that descriptor behind.) The peers `Connect` with a script of
bytes, `SendMore` one token at a time, `Shutdown`, `Reset` and `Read`. Closing with unread
bytes makes TCP reset the connection (`closed = "rst"`), and what the peer has not read by
then may be gone (`LoseAnswer`).

**HttpService** is the abstract service (one connection served at a time, with the
answer its request calls for, given up without one only when its peer has gone);
**WebServerRefinement** maps the server to it.

**SelectLoop**: the loop shared by the chat and toupper servers, which are the same
program but for the branch that handles received text (lines 12-86 of both).
`i` and `j` are the two loop variables, `reads` the copy of `master`, `read` the
received text and `left` what the current `send()` has still to copy. `Advance`
is `++i`, `Deliver` the inner loop over `j`, `Receive(text, targets, hearers)` the
received branch with the text to send, the descriptors it is sent to and (history,
for the properties) the connections to which it is due. **ChatServer** sends what was
received to all of `master` but the listening socket and the speaker;
**ToupperServer** converts it and sends it back.

| action | code (`tcp_serve_chat.c`) |
|---|---|
| `Select`, `SelectFails` | 49-60 |
| `Accept`, `AcceptFails` | 61-77 |
| `Broadcast` (`Echo` in ToupperServer: 80-90 of its file) | 80-95 |
| `Disconnect` | 81-86 |
| `Send`, `SendIgnored`, `SendKilled`, `Sent` | 87-98 |

Descriptors start at 1: the loops of both programs skip 0, and the model assumes
that standard input is open. A descriptor may be below the listening socket
(standard output or error closed at start), so that both sides of `max_socket`
matter.

**ChatRoom** is the abstract room: members, one speaker at a time, each thing said
is heard by all who are inside; **ChatRefinement** maps the chat server to it.

**TcpClient** is `tcp_client.c`, one process per connection, in place of the peer that
`SelectLoop` leaves open. A user `Type`s lines and may end the input; `typed`, `fetched`
and `given` count what was entered, what stdio has read of it and what `fgets()` has
returned. `StdinReady` is what `select()` sees of descriptor 0: what was entered and stdio
has not read. The client is in its loop, about to call `fgets()`, or in `send()`, and does
not read while it sends: `SendText` copies as much as `RcvBuf`, the server's receive
buffer, has room for, and goes on when there is more. **ChatSystem** puts the chat server
and its clients together.

| action | code (`tcp_client.c`) |
|---|---|
| `Start` | 47-56 |
| `RecvText` | 73-81 |
| `GetLine`, `EndOfInput` | 86-90 |
| `SendText` | 91 |
| `Close` (end of input, interrupt) | 94-101 |

**WebGet** is `web_get.c` and the web server it asks, which is external: it sends a response
in any pieces and may close at any time. A response is a sequence of characters; a header
line that matters is one. `response` is what stands between `response` and `p` in the code,
`body` the pointer of that name as an index. A chunk size is looked for where the code looks,
also behind `p`, where memory is stale: `SizeLines` then has any small result, and `strayed` is
set. A response may hold zero bytes (`nul`), at which `strstr` and `printf("%.*s")` stop
(`Strstr`, `UpToNul`).

| action | code (`web_get.c`) |
|---|---|
| `WebGetStart` | `parse_url` 6-58, connecting and the request 60-131 |
| `GiveUp`, `ClockAdvances` | 144-154 |
| `Receive`, `PeerClosed` | 156-217 |
| `ChunkStep` | the loop 217-234 |

**SmtpSend** is `smtp_send.c`, its user and a mail server, which is external. `reply` and `replies`
are what has arrived of a reply and what is on its way. Input is read with the limit of
`fgets()`, and its end is part of the model.

| action | code (`smtp_send.c`) |
|---|---|
| `SmtpConnect` | 90-150 |
| `WaitOnResponse` (with `NextCommand`) | `wait_on_response` 52-86 and the commands of `main` 151-214 |
| `SendLine` | the body 197-206 |
| `ServerLost` | `recv()` < 1, 60-64, or SIGPIPE |

**SshTools** is the four tools of `chapter 11 ssh` as sequences of calls of libssh; `calls` are
those still to be made, and each may fail with the exit status the code gives it (a wrong
password, and a channel that cannot be opened, exit with 0). `SshGets` is `fgets()` into an
array that keeps what it held when the input has ended. `consented` is the user's yes;
`remembered` may stay false after it, because nobody looks whether writing the host down
has failed.

**UdpPrograms** is the four programs of `chapter 4` over a network in which a datagram, once
sent, may be received at any later time, any number of times or never (`air` only grows).

**TimeServers** is `time_server.c`, its variants for IPv6 and for both, `tls_time_server.c` and
`https_simple.c`. As in SshTools `todo` are the calls still to be made; a failed handshake drops
all of them up to the next `accept()`, whose failure ends each of the programs (`AcceptFails`). A
client may connect and be silent: `SSL_accept()` and `recv()` then wait, until it speaks (`Speak`) or
leaves.

**DnsQuery** is `dns_query.c`, byte by byte: the query is encoded, and a message is printed by the
loops of `print_dns_message` and one step per call of `print_name`, with every check against the
end; labels and texts are printed up to a zero byte (`UpToZero`). A name server makes its answers
from a `Zone`, in one encoding: each record's name is the pointer 192 12 to that of the question, and a
name in its data is a label and that pointer. They may be cut off anywhere; `Strange` are other bytes
that arrive, a label with a zero byte among them.

**Ccwc** is `ccwc.c`: what `fgets()` returns, the C string that is counted of it, one pass for an
option and three for none, and no pass for an option without a letter. A tab is a character of its
own: white space for `wc`, but not one of the program's `delimiters`.

**WinInit** is `win_init.c`, with a number of adapters that changes between two calls.

**MC modules** give the constants of the runs. Definitions named `Bug_...` are
variants of the code's steps that a plausible mistake would give; the runs find each
property violated when one is put in place of the step it precedes. `MCClients` and `MCServices`
hold several programs that do not interact: `program` and `tool` say whose behaviour it is, and the
other programs stay in their initial states.

## 3. The runs

| run | instance | checks |
|---|---|---|
| `WebServer_requests` | one peer, 14 shapes of request (good, as long as the buffer, pipelined, no space, wrong method, `..`, missing file, long path, space after the end, zero byte, too long, terminator cut by the limit, two terminators), buffer of 6 tokens, all calls may fail | `TypeOK` `AnswerIsPromise` `ClosedIsAnswered` `ExactRequestNotReset` `OverrunIsAnswered` |
| `WebServer_peers` | two peers, good, bad and oversized requests, buffer of 4, two descriptors (none is left for `fopen()` when both peers are in), SIGPIPE | `CompleteNeverIdle` `BufferIsWhatWasSent` `ImplementsService` |
| `WebServer_list` | three peers with two descriptors | `ListIsOpenDescriptors` `CursorIsValid` `NeverBlocksInRecv` `DropFindsClient` |
| `WebServer_live` | two peers that ask for a page of five segments, one segment of kernel buffer | `RequestIsAnswered` `DeadPeerIsDropped` |
| `Chat_room` | three peers with one unit of text each, descriptors on both sides of the listening socket, one unit of kernel buffer, SIGPIPE, `select()` may fail | `MasterIsOpen` `NeverBlocksOnReady` `SentIsDue` `NobodyLagsBehind` `ImplementsRoom` |
| `Chat_live` | three peers for two descriptors, one of which says two units | `SaidIsHeard` `QuitterLeaves` |
| `Toupper_echo` | two peers with different texts of two units, `select()` and `accept()` may fail | `TypeOK` `EchoIsOwnText` `TextComesBack` |
| `ChatSystem_two` | server and two clients with piped input, each user pastes up to two lines of two units; the server reads one unit at a time (in the code a quarter of a line), both buffers hold three | `ClientTypeOK` `NoCircularWait` |
| `ChatSystem_live` | server and two clients on terminals, lines of one unit, one client enters two lines; fairness of the processes only | `EnteredIsHeard` |
| `Clients` | the mail client with five kinds of input (a long line, a dot in front, no newline at the end) and replies of one to three lines in any pieces; `web_get` with the three encodings and a page that does not fit; the four SSH tools with every call that fails | `ClientsTypeOK` `InStep` `MailArrives` `BodyIsPage` `TrustBeforeSecret` `WholeOrFailed` `WebGetEnds` |
| `Services` | two UDP clients and the program that sends once; two clients of the four time servers, who may be silent, late or leave; queries and two zones cut off at every byte, and five strange answers; options over files with long words, zero bytes and a tab | `ServicesTypeOK` `EchoIsOwn` `NamesArePrinted` `CountsOfFile` `TimeIsServed` |
| `WinInit_retry` | a first buffer for two adapters, up to four adapters | `RetriesWithLargerBuffer`, which the code violates |

What they show: in these instances nothing a peer does, at any moment, disturbs the
list, the buffers or the answers of another, and no visit to a client makes the HTTP
server exit. Two limits of the code show
in the statements themselves: a peer that fills the HTTP buffer exactly, without a
terminator, and waits is neither answered nor dropped (`OverrunIsAnswered` needs one
byte more, and promises only that the 400 is sent: the close is a reset), and an existing page becomes a 404 when `fopen()` gets no descriptor
(the second disjunct of `AnswerIsPromise`, `Scarce` in `HttpService`).
`ExactRequestNotReset` states when the answer may be destroyed by a TCP reset: the
400 for an oversized request is sent without reading what arrived, and only a peer
that sent more than one exact request can lose its answer so. One that sends a
terminator twice loses it too: the server answers at the first, and the rest is unread.

The two programs together have limits that the runs with clients made visible:
- Server and client can block in `send()` to each other, and then for ever, with everybody else: the
  server waits for a client to read which itself waits, in `send()`, for the server to read. With
  two clients this needs a line that fills the server's receive buffer: with `RcvBuf = LineSize =
  Window = 2` TLC finds it. Where a line fits in one `recv()` of the client and both buffers have
  room for a line and two reads of the server it cannot happen, and that is proved for any texts and
  sizes (section 5); the sizes of `ChatSystem_two` are the smallest of these. The kernel's buffers
  are many times the 4096 bytes of a line. With more clients, a client that pastes is sent, per line
  of its own, lines of all the others; it reads 4096 bytes for each line it sends, so that a crowd
  that pastes at the same time can fill any buffers. `NoCircularWait` is claimed for two clients
  only.
- Lines that come from a pipe or a file are read ahead by stdio, and `select()` does not see
  them: they wait until more input arrives or the input ends. So `EnteredIsHeard` is run with
  `Terminal = TRUE`; the variant of `GetLine` that reads ahead violates it.

`WinInit_retry` is a finding: the comment at `win_init.c:33-34` says that a buffer which was too
small is freed and the call tried again with a larger one. The loop is `while(!adapters)`, and
`free()` does not make the pointer null: the loop ends and the freed buffer is walked.

The properties of the clients and small servers have hypotheses where the code has limits. What
the hypothesis excludes does happen in the model:
- `MailArrives`: lines that fit in the buffer and end in a newline, and no line of the
  message that begins with a dot (`send_format` does not double it). At the end of the input
  `get_input` returns empty lines for ever, and the message never ends.
- `BodyIsPage`: not when stale memory passed for a chunk size (`strayed`), which can happen when
  a chunk has arrived and its CRLF has not; and not for a page with a zero byte, of which each
  piece is printed up to that byte only. A fragment behind a path is sent to the server.
- `NamesArePrinted`: answers of a name server in the encoding above, whole or cut off, without
  zero bytes in labels and texts, which would end what is printed of them. A cycle of pointers
  overflows the stack (`crashed`), a TXT record without data is printed with the length -1
  (`outside`), a question for the root is read one byte too far, a host name that begins
  with a dot is encoded without end (`hung`); the ID and the sender of an answer are not checked.
- `CountsOfFile`: a word cut by the end of the buffer may be counted twice, a zero byte hides
  the rest of its piece, and two words with a tab between them, which are two for `wc`, are one.
- `TimeIsServed`: a request that fits in the buffer; a longer one is closed unread, and the
  reset may destroy the answer. A client that stays silent in the handshake holds the server, and all
  others wait: the first part is about the runs in which none does so for ever (`HeldUp`), and
  TLC finds it violated without that condition.
- `TrustBeforeSecret`: the user's yes is required, not that the host was written down; the answer to the question for trust is looked at where something
  was typed; an answer of ten characters and more leaves its rest to be read as the password.

**Bounds and why they are enough.**
- `Conns` (2 or 3): each connection is used once; three are needed for a client dropped
  before, at and after the cursor and for a bystander of a broadcast. Descriptors are
  used again because there are fewer of them than connections.
- `MAX_REQUEST_SIZE` (2 to 6 tokens, 2047 bytes in the code): the properties tell
  apart only whether the terminator is inside, across or after the limit; every case
  is among the requests.
- `ReadSize` (1 or 2 units, 1024 bytes in the code): 2 lets a text come in one or in
  two pieces.
- `Window` (units or segments the kernel buffers for a peer): 1 or 2. `send()` blocks in the
  middle of a text in the chat and toupper runs, and in the middle of a page in the runs of the
  HTTP server but `WebServer_list`, where every answer is one segment and it never blocks.
- `Backlog` (1 or 2; 10 in the code): a connection may wait while another is accepted.
- `LineSize`, `ClientRead` (both 1 or 2; 4096 bytes in the code), `RcvBuf` (1 or 3 units;
  tens of kilobytes): equal to each other and above `ReadSize`, as in the code, with room in
  the receive buffer for a line and part of the next. `TypeAhead` (two lines): a
  user enters lines while an earlier one is still being sent.
- `Text`, `Requests`: finite scripts per connection; these bound the behaviours.
- `MAXINPUT` (4; 512 in the code), `MAXRESPONSE` (10 tokens; 1024 bytes), `RESPONSE_SIZE` (27
  characters; 8192), `READ_SIZE` (2; 1024), `buffer_size` (4; 100): below and above what is
  put in them, so that every limit is met exactly and passed.
- `MaxLines` (4 lines of a message) bounds the endless message after the end of the input;
  `MaxTyped` (2 lines per UDP client), `MaxRequest` (2 buffers), `MaxAdapters` (4).
- `MaxStale` (3): how far behind `p` a stale CRLF is found. `MaxDepth` (3; some hundred
  thousand in the code): the answers need a depth of 1, a cycle reaches any.
- `TIMEOUT` (1; 5 in the code) whole seconds of `clock()`.
- `SysErrors`, `Sigpipe`: which calls may fail. The liveness properties end with the process
  (`Up`), so `WebServer_live` and `Chat_live` are run with `SysErrors = {}`.
- `CHECK_DEADLOCK FALSE` everywhere: all peers may have done what they wanted while
  the server waits in `select()`, and nothing is modelled after the process ended.
- Connections are symmetric in the runs without temporal properties; the scripts of
  those runs are the same function for every permutation.

## 4. Fairness

`FairSpec` of each server has `WF(Serve)` and `WF(Read(c))` for every peer. `Serve` is
every step of the process but a failing `select()`: the process is one thread that the
kernel schedules as long as a call of its can return, and each of its calls has exactly
the outcomes of `Serve` that are enabled. A failure is never forced. `Read` is an
assumption about the environment, not about the code: the code blocks in `send()` on
a peer that stops reading, without a time-out, so nothing is answered to anybody unless
peers go on reading. It is stated for all peers because all of them can block the server;
a peer that does not want to read may close or reset, at any time and without fairness.
Nothing is assumed about connecting, sending, closing or resetting.

`FairSystem` has `WF(Serve)` and `WF(Work(c))` for each client. `Work` is what the client's
process and its kernel do of themselves: receive and print, `fgets()`, `send()`, the close at
the end of input, the reset of a connection whose process is gone. The assumption that peers
read is replaced by the code of the client here. Nothing is assumed about users: that
they start a client, enter a line, end the input or interrupt.

`WebGetFairness` has `WF` of the program's own steps and of `ClockAdvances`. The code measures
its time-out with `clock()`, the processor time of the process: while it waits in `select()` that
hardly advances, but each of its rounds costs a little, so that in the end the limit is passed. Nothing
is assumed of the server. `TimeFairness` has `WF` of the server, but for a failing `accept()`, and of
`https_simple` once it has begun the handshake (its loop reads as long as the connection lasts);
nothing is assumed about connecting and leaving, nor that a client that is silent ever speaks. It is assumed only in the behaviours that are the time servers'.

## 5. The proofs

For every value of the constants that satisfies the named assumptions
(`SizeAssumption`, `FdsAssumption`, ...: descriptors are numbers and not `NULL`, limits are
positive, requests are sequences of strings). No bound of section 3 is used.

**WebServerProofs** proves `Spec => []` of `TypeOK`, `ListIsOpenDescriptors`,
`CursorIsValid`, `NeverBlocksInRecv`, `BufferIsWhatWasSent` and `DropFindsClient`. The
inductive invariant `Inv` adds three facts that the code relies on and never states:
- `BacklogIsFresh`: a connection in the backlog is queued once, has no descriptor and
  nothing was taken of it, so that `accept()` cannot give one connection twice;
- `ReadsAreReady`: from `select()` to the end of the scan a descriptor of `reads`
  that is still to be visited is readable. This is what can go wrong with a stale
  `fd_set`: it holds because a client accepted in the round has a descriptor that
  was free when `reads` was filled, or is visited once, first, and because nobody
  else reads a client's bytes;
- `CursorInv`: client and successor are neighbours in the list, strengthened so that
  it survives the removal of the visited client.

`ListLemmas` has the facts about sequences they rest on: what the list without one element
contains, that it stays injective, who follows whom in it, facts on prefixes and
queues.

Its second half proves `Spec => []` of `CompleteNeverIdle`, `AnswerIsPromise`,
`ClosedIsAnswered` and `ExactRequestNotReset`, and `Spec => ImplementsService`. Its inductive
invariant `AnswerInv` relates buffers, answers and connections:
- `CompleteIsServed`: only the client being served has a complete request. This is where the
  pieces come in: a buffer is a beginning of its script (`BufferIsWhatWasSent`), it is tested
  after every `recv()`, and the client is dropped before anything else is received of it;
- `AnsweredInTurn`: a peer that was sent something is being served or closed;
- `ServedIsOwed`: what the client being served was sent, followed by what is still to be
  sent, is an answer its whole script calls for. The code decides on the buffer, the property
  speaks of the script: lemmas say that `Complete`, `Response` and the limit give the same for
  any beginning of a script that ends at or behind the first terminator, or at the limit;
- `ClosedIsOwed`: whoever was closed and has not gone has one of these answers in full.
The lemmas on tokens need no bound on scripts or buffers. The refinement adds one lemma per
action: `Accept` and every `recv()` that answers nothing are stutters; the `recv()` that
begins an answer is a step of the service, which uses `CompleteIsServed` and `AnsweredInTurn` to
know that nobody else is served.

**ChatProofs** proves `Spec => []` of `TypeOK`, `MasterIsOpen`, `NeverBlocksOnReady`,
`SentIsDue` and `NobodyLagsBehind`. `SelectLoopProofs` holds the part
that does not depend on what is sent to whom: `TypeOK`, `MasterIsOpen`, `BacklogIsFresh` and
`PassInv` (what is left of `reads` above `i` is open and ready) are preserved by each action of
the loop, for any text, targets and hearers. The chat part adds `DeliveryInv`: with `Owing`,
what a member has still to be sent in the present broadcast, `out` followed by it is `due`;
members below `j` owe nothing, the one at `j` owes `left`, those above owe all of
`read`. `NobodyLagsBehind` and `SentIsDue` follow.

**ToupperServerProofs** proves `Spec => []` of `TypeOK`, `MasterIsOpen`, `NeverBlocksOnReady`
and `EchoIsOwnText`, the first three from the lemmas of `SelectLoopProofs`. `EchoInv`
says that everybody has been sent all that was taken of it but for the client of the running
visit, which is behind by exactly what is `left` of the converted text, and that
descriptor `i` is the one written to. It compares unit by unit: what was sent at place `k` is
the capital of the text at place `k`.

ChatProofs also proves `Spec => ImplementsRoom`: the initial states map to those of
`ChatRoom`, and with `Inv` every step of `ChatServer` is a step of the room or a stutter,
one lemma per action; and `System => Spec`: a step of a client is a step of a peer of
`SelectLoop` or changes nothing the server sees. All theorems about the chat server hold of the
two programs together for any number of clients; three of them are stated. Of the clients it
proves `System => []ClientTypeOK`. That is not inductive: a `send()` of a line could pass
the end of what `fgets()` returned if that were half a line. `ClientInv` adds that `typed`,
`fetched` and `given` are whole multiples of `LineSize` (`WholeLines`), so that where there is more
there is at least a line more.

The last theorem of ChatProofs is `System => []NoCircularWait`, from `TwoClients` and `RoomToSpare`
(`LineSize <= ClientRead`, and `LineSize + 2 * ReadSize` exceeds neither buffer by more than one
unit). Client and server wait for each other only where the two buffers between them are both full.
`LoadInv` bounds what can still get into them: `Load(fd)` is what the client has been sent and not
read, what it has read of its input or will before it looks at its socket again, what the running
`send()` still has for it, and what may be broadcast to it before the server reads from it next, all
of which never exceeds `Window + RcvBuf + 1`. The last part, `Ahead`, is one read of the server
where the pass still comes to a client before it, and up to two where the pass is past it: the rest
of this pass and the beginning of the next. The load grows only when one of the two buffers is
empty, and then it is small (`EmptyIsLight`), because a client that fetches a line has just read all
that was there (`LineSize <= ClientRead`: it reads before it fetches again). With a third client
what is ahead has no bound: each line of the one lets the server read lines of all the others.

**WebGetProofs** proves `WebGetSpec => []BodyIsPage`, for any sites, URLs, size of the buffer and
cuts. What a URL and a response are is assumed of the inputs: no part of a URL holds a mark that
ends it (`UrlsAssumption`), and the headers of a response say how the page in it is delimited
(`SitesAssumption`; for a chunked one, that its chunks lie one behind the other and are the page in
pieces). `BodyIsPage` is about pages without a zero byte, so that what is printed of a part of
the page is the part (`PartIsPrinted`).
- The request: `ParseUrl` looks for marks from places it computes; lemmas on a text in three
  parts say that the first mark behind a part without marks is where the next part begins.
- The page: `WebInv` says that `response` is a beginning of the site's script (`Arrived`), that
  before the end of the headers nothing is known, and behind it `encoding`, `remaining` and `body`
  are those of the whole script (`InBody`), since what `strstr` has found in a beginning it finds in
  the whole at the same place. In the chunked encoding `body` is at the size line of a chunk, or
  behind it with the size in `remaining`, and what is printed is the page before that chunk
  (`AtChunk`); the loop waits for more only where something is missing, which is why nothing is
  missing when it exits with success.

**ClientProofs** has the theorems about the mail client and the SSH tools, and the types of all three
clients.

`SmtpSpec => []InStep` and `SmtpSpec => []MailArrives`.
- The first rests on `ReplyAssumption`: in a beginning of a server's reply every complete
  line has a dash. The invariant says that what is received and what is under way
  are together one reply or nothing, and that nothing is there while the server owes one: so when
  `parse_response` returns a code, all of the reply has been received.
- The second holds for any input that is text (`SmtpAssumption`). `LinesOf` of `MailArrives` cuts the
  input by counting its newlines; the program cuts it with one `fgets()` after the other. `MailInv`
  joins them: what was read so far are the first lines of the input, in order, and what is left of
  standard input begins where the last of them ended (`InputInv`); four are answers and the
  others the message, none of which but the last is a dot (`DialogueInv`). `GetInputFacts`
  says what one `fgets()` returns where a line fits in the buffer.

`SshSpec => []TrustBeforeSecret` and `SshSpec => []WholeOrFailed`.
- The first orders the calls that are still to be made: the host key is checked once, before the
  password, and that before any request; as long as the first is to come nothing is sent, and so
  on. It holds for the four sequences of calls because all begin with that of `ssh_auth.c`.
- The second has the invariant `OutputInv`: what is printed is always what was received of it, up
  to a zero byte; nothing is received before the request; and of the calls that may set exit
  status 0 after a request only the last one does (`EndsWell`), when all has been received.

`Spec => []ClientsTypeOK` holds for any sizes and inputs. What is behind the types: a reply fits in
`MAXRESPONSE`, because the client gives up where it would not, and is a reply of the server; a
response fits in `RESPONSE_SIZE`, and `body` never leaves twice that, also where stale memory is
read for a chunk size; the SSH calls that are left are the end of one of the four sequences, and no
more is printed than the host has sent.

**ServiceProofs** has the theorems about the programs of `MCServices`.

`UdpSpec => []EchoIsOwn`, for any number of clients, any lines and any buffer. The
property speaks of what is printed; the invariant adds what is in the air: every datagram for the
server is one its sender has sent, every one for a client is the answer to one that client
has sent. It holds under duplication and reordering because histories only grow.

`CcwcSpec => []CountsOfFile`, for any files and any size of the buffer, words where the file has no
tab. `WcInv` says of every pass
that is done that it has counted the whole input, of the running one that its count is the number of
places before `offset` that the option counts (`Counted`), and of the others that they are still 0.
A piece has no newline but at its end (`PieceFacts`), and the places in it are those of the input
moved by `offset`, so that counts add up. For words that needs more: a piece begins a word where the
input does not, unless the piece before ended with a newline, and all do where every line fits
(`FileFits`); otherwise the count can only be too large.

`Spec => []NamesArePrinted`, for any question, any list of records of the types the program knows, and
an answer in the one encoding of `ZoneReply`, cut off anywhere. What is assumed of a name server is
`ZoneAssumption`: labels of 1 to 191 bytes, none in a label or a text zero, data of the length its type has, at most 255 records; and that the program can follow one pointer
(`DnsAssumption`). The proof has two halves.
- What stands where in an answer: a message is a concatenation of parts (`Joined`), and lemmas of
  `ListLemmas` say that each part begins where those before it end, and where an element of it is.
  `FlattenSeq` is recursive and no induction theorem can be cited: `FlattenSteps` argues by the
  least number of parts for which it is not the end of sequences that grow by one part after the
  other, and all the others follow from it. They give the places of labels, pointers, types and data
  (`QuestionLayout`, `RecordLayout`), and in the same way which items of `ShouldPrint` belong to a
  record (`RecordItems`).
- What the printer does: `DnsInv` says that it is between two records, in a name, behind one, or at
  its end, at the right byte, with exactly the items printed that come before it. In a name that
  means: before the pointer of an owner, or at a label of the question's name with `back` at the
  byte behind the pointer; in the data of a CNAME or MX also at the record's own label. TLC checked
  it on the run. A beginning of an answer is read as the whole is, up to its end, where one of the
  tests of the code exits with 1.

Two things the proof brought up. A label of 192 bytes and more in the query the program makes itself
(a host name may have 253) is taken for a pointer by its own printer: the question is printed wrong,
and no name server would understand it. So nothing is claimed of the printed query, and labels of
answers have at most 191 bytes. And `back`, which models what the outermost call will return, keeps
its value after the call: it is within the message only while a name is printed, and the invariant
says no more.

`Spec => []ServicesTypeOK`, for any sizes. For the time servers it needs `TimeInv`: `todo` is
always in the order of the program's text (`CallsInOrder`), a client is being served only between the
`accept()` and the close of its own connection, it is in the backlog or served and never both, and what
it has heard and what is under way to it are together a beginning of header and time.

`PROJECT.json` lists these theorems. They are checked with `tlapm`, backends SMT (Z3),
Zenon and, for the temporal steps, LS4.

## 6. Only model-checked

- All liveness: `RequestIsAnswered`, `OverrunIsAnswered`, `DeadPeerIsDropped`, `SaidIsHeard`,
  `QuitterLeaves`, `TextComesBack`, `EnteredIsHeard`, `WebGetEnds`, `TimeIsServed`.
  TLAPS does not reason about `ENABLED`, and so not about fairness.

Every invariant and every safety property of a run that is expected to pass is stated by a theorem.
`WinInit`, whose run violates its property, has none.

The proof of `ExactRequestNotReset` failed at first, and rightly so: its first form said that a script
which ends with a terminator is never reset, and with two terminators it may be. TLC finds that
with a request of that shape, which is now in the run, and the property counts the terminators.

## 7. Abstractions, and what is not modelled

- The set-up before the loops (`getaddrinfo`, `bind`, `listen`, `WSAStartup`) is the initial
  state; if it fails the program exits before there is anything to check.
- Bytes are tokens or units; MIME types, addresses, printed text and header wording are left
  out. A `send()` of a header line is one segment and accepted whole; the chat and toupper
  servers' `send()` copies unit by unit.
- A page is its number of `BSIZE` chunks. A file that changes while it is served, or a
  directory under `public/`, is not modelled.
- `select()` and `accept()` as on Linux: a connection aborted before `accept()` stays in the
  backlog and is accepted. On systems that drop it, `accept()` may block; see the hazards.
- `fd_set` has room for every descriptor (the code does not test it).
- `Sigpipe` is nondeterministic: the first `send()` after a reset fails or raises the signal
  depending on what the kernel already knows.
- In `ChatServer` and `ToupperServer` alone peers are assumed to read on; in `ChatSystem` the
  peers are `tcp_client.c`. Its 100 ms time-out of `select()` does nothing on POSIX systems
  and is left out, and so is the `_kbhit()` branch for Windows. A line is `LineSize` units, always
  whole. What clients do after the server process has ended is not modelled.
- In the clients and small servers: host names, addresses and the connecting itself are one step
  that succeeds or fails; `select()` does not fail; printed headings, colours, the certificate's
  names, TTL and class of DNS records and the wording of flags are left out. The process's start
  on Windows (`WSAStartup`) is left out except in `WinInit`.
- External, modelled from how the code uses it: peers and browsers, the mail server, the web
  server asked by `web_get`, libssh, OpenSSL, the name server, the network between UDP programs.

Not modelled:
- `unix_list.c`, `sock_init.c`, `lookup.c`: one library call and a loop over what it returns.
- `ct.c` and `parser.c` are stubs; `time_console.c` and the version printers print a line.
- The pipelines and checks in Python: what they keep is in Airflow, files and databases; the order
  and the retries are declared, and executed by the scheduler. Two things seen there:
  `check_for_nulls` in `dataqualitychecks.py` (33) takes the truth value of the row and not of the count
  in it, and so always passes; the toll data pipeline reads `combine_extract_file` (71), which is
  defined as `combined_extract_file` (24).
- Shell scripts (lines of calls of system tools), Terraform, Kubernetes and SQL files (declarations
  that external tools interpret), lab notes and data, the vendored Spanner sample.

## 8. The plan

In order of what matters, each with its abstract statement, run and theorem:

1. done: `HttpRequest`, `WebServer`, `HttpService`; `SelectLoop`, `ChatServer`, `ToupperServer`,
   `ChatRoom`; their runs and the theorems of section 5.
2. done: `TcpClient`, `ChatSystem`. Left: the client with the toupper server, whose deadlock
   needs one client only (it sends a line and does not read the echo of it until it is sent).
3. done: `SmtpSend`, `WebGet`, `SshTools` with run `Clients`; `UdpPrograms`, `TimeServers`, `DnsQuery`,
   `Ccwc` with run `Services`; `WinInit`.
4. done, proofs: `WebServer` implements `HttpService`, with the safety of its answers; `EchoIsOwnText`;
   `MailArrives`, `WholeOrFailed`; `ClientTypeOK`.
5. done, proofs: `NoCircularWait` for two clients, `BodyIsPage`, `CountsOfFile`, `NamesArePrinted`,
   the types of clients and services.
6. left, abstract specifications: a mail session in which every command follows its reply, refined
   by `SmtpSend`; `web_get` and the web server of this repository put together.
