----------------------------- MODULE TimeServers -----------------------------
(***************************************************************************)
(* The programs that tell the time: C/time server/time_server.c and its     *)
(* variants for IPv6 and for both serve one connection and end;            *)
(* C/chapter 10 https server/tls_time_server.c serves one after the other,  *)
(* over TLS.  Each main() is a sequence of blocking calls.  The client is   *)
(* C/https openssl/https_simple.c, or any other for the servers without TLS. *)
(***************************************************************************)
EXTENDS Naturals, Sequences

CONSTANTS
    TimeClient,   \* the clients
    MaxRequest    \* buffers a request may fill, at most: a bound of the model

ASSUME TimeAssumption == MaxRequest \in Nat \ {0}

VARIABLES
    timeServer,  \* the program that runs
    todo,        \* the calls it still makes for this connection
    timeCode,    \* its end: "none", "0", "1" or "SIGPIPE"
    backlog,     \* connections that wait for accept()
    serving,     \* the connection it serves, "none" otherwise
    https,       \* each client: "off", "silent", "hello", "asked", "finished", "failed",
                 \* "left"
    secured,     \* clients whose handshake has succeeded at the server
    unread,      \* how many buffers of a client's request are not yet read
    bytes,       \* parts of the answer that are sent to a client and not received
    ended,       \* how the server has closed: "no", "closed", "reset"
    heard        \* the parts of the answer a client has received

timeVars == <<timeServer, todo, timeCode, backlog, serving, https, secured, unread,
              bytes, ended, heard>>

Answer == <<"header", "time">>

-----------------------------------------------------------------------------
\* The calls for a connection, and before the first.
ForOneConnection == <<"accept", "recv", "send_header", "send_time", "close">>
Bug_ForOneTlsConnection ==
    <<"accept", "SSL_new", "SSL_accept", "recv", "send_time", "send_header", "close">>
ForOneTlsConnection == <<"accept", "SSL_new", "SSL_accept", "recv", "send_header", "send_time", "close">>

TimeServer == <<"socket", "bind", "listen">> \o ForOneConnection
TimeServerIpv6 == <<"socket", "bind", "listen">> \o ForOneConnection
TimeServerDual == <<"socket", "setsockopt", "bind", "listen">> \o ForOneConnection
TlsTimeServer == <<"SSL_CTX_new", "certificate", "socket", "bind", "listen">> \o ForOneTlsConnection

Programs == [time_server |-> TimeServer, time_server_ipv6 |-> TimeServerIpv6,
             time_server_dual |-> TimeServerDual, tls_time_server |-> TlsTimeServer]

Tls == timeServer = "tls_time_server"
Calling(call) == timeCode = "none" /\ todo # <<>> /\ Head(todo) = call

TimeInit ==
    /\ timeServer \in DOMAIN Programs
    /\ todo = Programs[timeServer] /\ timeCode = "none" /\ backlog = <<>> /\ serving = "none"
    /\ https = [c \in TimeClient |-> "off"] /\ secured = {}
    /\ unread = [c \in TimeClient |-> 0] /\ bytes = [c \in TimeClient |-> <<>>]
    /\ ended = [c \in TimeClient |-> "no"] /\ heard = [c \in TimeClient |-> <<>>]

-----------------------------------------------------------------------------
\* A call whose failure ends the program and that does nothing the model shows.
SetupCall ==
    /\ timeCode = "none" /\ todo # <<>>
    /\ Head(todo) \in {"SSL_CTX_new", "certificate", "socket", "setsockopt", "bind", "listen", "SSL_new"}
    /\ \/ todo' = Tail(todo) /\ UNCHANGED timeCode
       \/ timeCode' = "1" /\ UNCHANGED todo
    /\ UNCHANGED <<timeServer, backlog, serving, https, secured, unread, bytes, ended, heard>>

Accept ==
    /\ Calling("accept") /\ backlog # <<>>
    /\ serving' = Head(backlog) /\ backlog' = Tail(backlog) /\ todo' = Tail(todo)
    /\ UNCHANGED <<timeServer, timeCode, https, secured, unread, bytes, ended, heard>>

\* It may fail, whether somebody waits or not, and that ends the program.
AcceptFails ==
    /\ Calling("accept") /\ timeCode' = "1"
    /\ UNCHANGED <<timeServer, todo, backlog, serving, https, secured, unread, bytes, ended, heard>>

\* The connection is closed.  What the client has sent and nobody read turns that
\* into a reset.  tls_time_server waits for the next, the others end.
CloseConnection ==
    /\ ended' = [ended EXCEPT ![serving] = IF unread[serving] = 0 THEN "closed" ELSE "reset"]
    /\ serving' = "none"
    /\ IF Tls THEN todo' = ForOneTlsConnection /\ UNCHANGED timeCode
              ELSE todo' = <<>> /\ timeCode' = "0"

Bug_SslAccept ==
    /\ Calling("SSL_accept") /\ https[serving] # "silent"
    /\ \/ /\ https[serving] = "hello" /\ todo' = Tail(todo) /\ secured' = secured \cup {serving}
          /\ UNCHANGED serving
       \/ todo' = ForOneTlsConnection /\ serving' = "none" /\ UNCHANGED secured
    /\ UNCHANGED <<timeServer, timeCode, backlog, https, unread, bytes, ended, heard>>
\* It waits for what the client sends.  The handshake succeeds, or fails and the next
\* client is waited for.
SslAccept ==
    /\ Calling("SSL_accept") /\ https[serving] # "silent"
    /\ \/ /\ https[serving] = "hello" /\ todo' = Tail(todo) /\ secured' = secured \cup {serving}
          /\ UNCHANGED <<serving, ended, timeCode>>
       \/ CloseConnection /\ UNCHANGED secured
    /\ UNCHANGED <<timeServer, backlog, https, unread, bytes, heard>>

\* recv() or SSL_read(), once: it waits for a part of the request or for the client
\* to be gone, and what it returns is not looked at.
ReadRequest ==
    /\ Calling("recv")
    /\ \/ unread[serving] > 0 /\ unread' = [unread EXCEPT ![serving] = @ - 1]
       \/ https[serving] = "left" /\ UNCHANGED unread
    /\ todo' = Tail(todo)
    /\ UNCHANGED <<timeServer, timeCode, backlog, serving, https, secured, bytes, ended, heard>>

\* One of the two writes; nor is their result looked at.  A write to a client that
\* has gone may be the end of the server.
Write(call, part) ==
    /\ Calling(call)
    /\ \/ /\ todo' = Tail(todo)
          /\ bytes' = [bytes EXCEPT ![serving] = Append(@, part)]
          /\ UNCHANGED timeCode
       \/ https[serving] = "left" /\ timeCode' = "SIGPIPE" /\ UNCHANGED <<todo, bytes>>
    /\ UNCHANGED <<timeServer, backlog, serving, https, secured, unread, ended, heard>>

Close ==
    /\ Calling("close")
    /\ CloseConnection
    /\ UNCHANGED <<timeServer, backlog, https, secured, unread, bytes, heard>>

TimeServerStep ==
    \/ SetupCall \/ Accept \/ SslAccept \/ ReadRequest \/ Close
    \/ Write("send_header", "header") \/ Write("send_time", "time")

-----------------------------------------------------------------------------
\* https_simple begins the handshake.  Another client sends its request at once,
\* which may be longer than the buffer it is read into.
Says(c) ==
    /\ https' = [https EXCEPT ![c] = IF Tls THEN "hello" ELSE "asked"]
    /\ \E n \in 1 .. MaxRequest : unread' = [unread EXCEPT ![c] = IF Tls THEN 0 ELSE n]

\* A client connects and speaks, or is silent; connecting may fail, and does while
\* nobody listens.
HttpsConnect(c) ==
    /\ https[c] = "off"
    /\ \/ /\ timeCode = "none" /\ \A k \in DOMAIN todo : todo[k] # "listen"
          /\ backlog' = Append(backlog, c)
          /\ \/ Says(c)
             \/ https' = [https EXCEPT ![c] = "silent"] /\ UNCHANGED unread
       \/ https' = [https EXCEPT ![c] = "failed"] /\ UNCHANGED <<backlog, unread>>
    /\ UNCHANGED <<timeServer, todo, timeCode, serving, secured, bytes, ended, heard>>

\* One that was silent speaks after all: nothing says that it ever does.
Speak(c) ==
    /\ https[c] = "silent" /\ Says(c)
    /\ UNCHANGED <<timeServer, todo, timeCode, backlog, serving, secured, bytes, ended, heard>>

\* The server has closed, or its program has ended and with it all connections.
Gone(c) == ended[c] # "no" \/ timeCode # "none"

\* https_simple: SSL_connect() returns, the certificate is shown and the request sent.
HttpsAsk(c) ==
    /\ https[c] = "hello"
    /\ \/ /\ c \in secured
          /\ https' = [https EXCEPT ![c] = "asked"] /\ unread' = [unread EXCEPT ![c] = 1]
       \/ c \notin secured /\ Gone(c) /\ https' = [https EXCEPT ![c] = "failed"] /\ UNCHANGED unread
    /\ UNCHANGED <<timeServer, todo, timeCode, backlog, serving, secured, bytes, ended, heard>>

\* The loop that reads to the end of the connection; an error is taken for the end,
\* and a reset loses what has not been read.
HttpsRead(c) ==
    /\ https[c] = "asked"
    /\ \/ /\ bytes[c] # <<>>
          /\ heard' = [heard EXCEPT ![c] = Append(@, Head(bytes[c]))]
          /\ bytes' = [bytes EXCEPT ![c] = Tail(@)]
          /\ UNCHANGED https
       \/ /\ Gone(c) /\ (bytes[c] = <<>> \/ ended[c] = "reset")
          /\ https' = [https EXCEPT ![c] = "finished"]
          /\ UNCHANGED <<heard, bytes>>
    /\ UNCHANGED <<timeServer, todo, timeCode, backlog, serving, secured, unread, ended>>

\* A client is interrupted.
Leave(c) ==
    /\ https[c] \in {"silent", "hello", "asked"}
    /\ https' = [https EXCEPT ![c] = "left"]
    /\ UNCHANGED <<timeServer, todo, timeCode, backlog, serving, secured, unread, bytes, ended, heard>>

HttpsStep(c) == HttpsAsk(c) \/ HttpsRead(c)
TimeNext ==
    \/ TimeServerStep \/ AcceptFails
    \/ \E c \in TimeClient : HttpsConnect(c) \/ HttpsStep(c) \/ Speak(c) \/ Leave(c)

\* The server is scheduled, and so is https_simple once it has begun; accept() need
\* not fail, and who is silent may stay so.
TimeFairness == WF_timeVars(TimeServerStep) /\ \A c \in TimeClient : WF_timeVars(HttpsStep(c))

-----------------------------------------------------------------------------
TimeTypeOK ==
    /\ timeServer \in DOMAIN Programs
    /\ timeCode \in {"none", "0", "1", "SIGPIPE"}
    /\ serving \in TimeClient \cup {"none"}
    /\ https \in [TimeClient -> {"off", "silent", "hello", "asked", "finished", "failed", "left"}]
    /\ secured \subseteq TimeClient
    /\ unread \in [TimeClient -> 0 .. MaxRequest]
    /\ ended \in [TimeClient -> {"no", "closed", "reset"}]
    /\ \A c \in TimeClient : heard[c] \o bytes[c] \in {<<>>, <<"header">>, Answer}

\* The server waits for a client that has not sent a thing.
HeldUp == serving # "none" /\ https[serving] = "silent"

\* As long as no client that says nothing holds the server up for ever, a client that
\* has begun a handshake is served or refused, whichever of the others' handshakes
\* fail and whoever disconnects or speaks late.  And a client whose request is waiting
\* when the server reads it, and fits in the buffer, receives all of the answer: both
\* parts, and never a reset in between.  A client that disconnects itself is out of
\* this.
TimeIsServed ==
    \A c \in TimeClient :
        /\ []<>(~ HeldUp) =>
              (https[c] = "hello" ~> https[c] \in {"asked", "failed", "left"})
        /\ Calling("recv") /\ serving = c /\ https[c] = "asked" /\ unread[c] = 1
              ~> https[c] = "left" \/ (https[c] = "finished" /\ heard[c] = Answer)
=============================================================================
