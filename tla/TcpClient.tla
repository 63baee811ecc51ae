----------------------------- MODULE TcpClient ------------------------------
(***************************************************************************)
(* C/tcp_client/tcp_client.c, one process per connection of SelectLoop: it *)
(* waits in select() on its socket and on standard input, prints what it   *)
(* receives and sends what is typed, with a blocking send().  It is the    *)
(* peer that SelectLoop leaves open, except that it is never reluctant to  *)
(* read: it does not read while it sends.                                  *)
(***************************************************************************)
EXTENDS SelectLoop

CONSTANTS
    LineSize,    \* units in a line, and that fgets() returns (4096 bytes)
    ClientRead,  \* units the client's recv() returns at most (4096 bytes)
    RcvBuf,      \* units the kernel buffers for the server to receive
    TypeAhead,   \* units a user enters before they are sent, at most
    Terminal     \* TRUE where standard input gives one line per read()

ASSUME ClientAssumption ==
    {LineSize, ClientRead, RcvBuf, TypeAhead} \subseteq Nat \ {0} /\ Terminal \in BOOLEAN

VARIABLES
    at,       \* where main() is: "off", "loop", "line", "send" or "gone"
    typed,    \* units entered on standard input so far
    fetched,  \* how many of them stdio has read
    given,    \* how many of them fgets() has returned
    ended     \* clients whose standard input has ended

cvars == <<at, typed, fetched, given, ended>>

-----------------------------------------------------------------------------
ClientInit ==
    /\ at = [c \in Conns |-> "off"]
    /\ typed = [c \in Conns |-> 0]
    /\ fetched = [c \in Conns |-> 0]
    /\ given = [c \in Conns |-> 0]
    /\ ended = {}

\* select() knows what is in the descriptor, not what stdio has taken from it.
StdinReady(c) == typed[c] > fetched[c] \/ c \in ended

\* The user enters a line, or ends the input.
Type(c) ==
    /\ Up /\ at[c] # "gone" /\ c \notin ended
    /\ typed[c] + LineSize <= Min({Len(Text[c]), given[c] + TypeAhead})
    /\ typed' = [typed EXCEPT ![c] = @ + LineSize]
    /\ UNCHANGED <<vars, at, fetched, given, ended>>

EndInput(c) ==
    /\ Up /\ at[c] # "gone" /\ c \notin ended
    /\ ended' = ended \cup {c}
    /\ UNCHANGED <<vars, at, typed, fetched, given>>

Start(c) ==
    /\ at[c] = "off"
    /\ Connect(c)
    /\ at' = [at EXCEPT ![c] = "loop"]
    /\ UNCHANGED <<typed, fetched, given, ended>>

\* The socket is ready: recv() and printf(), then standard input if select()
\* found it ready too.
RecvText(c) ==
    /\ at[c] = "loop"
    /\ Read(c)
    /\ seen'[c] = seen[c] + Min({ClientRead, Len(out[c]) - seen[c]})
    /\ at' = [at EXCEPT ![c] = IF StdinReady(c) THEN "line" ELSE "loop"]
    /\ UNCHANGED <<typed, fetched, given, ended>>

\* The client that asks for input before it looks at its socket.
Bug_AtInputFirst(c) == Up /\ at[c] \in {"line", "loop"} /\ StdinReady(c)
\* main() is to call fgets(): only standard input is ready, or recv() was first.
AtInput(c) ==
    /\ Up
    /\ at[c] = "line" \/ (at[c] = "loop" /\ seen[c] = Len(out[c]))
    /\ StdinReady(c)

Bug_GetLineReadsAhead(c) ==
    /\ AtInput(c)
    /\ given[c] < typed[c]
    /\ given' = [given EXCEPT ![c] = @ + LineSize]
    /\ fetched' = [fetched EXCEPT ![c] = IF given[c] < @ THEN @ ELSE typed[c]]
    /\ at' = [at EXCEPT ![c] = "send"]
    /\ UNCHANGED <<vars, typed, ended>>
\* fgets() returns a line; stdio reads ahead where more than a line is there.
GetLine(c) ==
    /\ AtInput(c)
    /\ given[c] < typed[c]
    /\ given' = [given EXCEPT ![c] = @ + LineSize]
    /\ fetched' = [fetched EXCEPT ![c] =
                     IF given[c] < @ THEN @
                     ELSE IF Terminal THEN given'[c] ELSE typed[c]]
    /\ at' = [at EXCEPT ![c] = "send"]
    /\ UNCHANGED <<vars, typed, ended>>

\* send() of the whole buffer instead of strlen(read) bytes.
Bug_SendTextBuffer(c) ==
    /\ at[c] = "send"
    /\ Unread(c) < RcvBuf
    /\ Say(c)
    /\ sent'[c] = Min({given[c] + 1, taken[c] + RcvBuf, Len(Text[c])})
    /\ at' = [at EXCEPT ![c] = IF sent'[c] >= given[c] THEN "loop" ELSE "send"]
    /\ UNCHANGED <<typed, fetched, given, ended>>
\* The blocking send() copies as much as there is room for.
SendText(c) ==
    /\ at[c] = "send"
    /\ Unread(c) < RcvBuf
    /\ Say(c)
    /\ sent'[c] = Min({given[c], taken[c] + RcvBuf})
    /\ at' = [at EXCEPT ![c] = IF sent'[c] = given[c] THEN "loop" ELSE "send"]
    /\ UNCHANGED <<typed, fetched, given, ended>>

\* Closing with text unread makes TCP reset the connection.
Close(c) ==
    /\ IF seen[c] = Len(out[c]) THEN Shutdown(c) ELSE Reset(c)
    /\ at' = [at EXCEPT ![c] = "gone"]
    /\ UNCHANGED <<typed, fetched, given, ended>>

\* fgets() returns a null pointer.
EndOfInput(c) == AtInput(c) /\ given[c] = typed[c] /\ Close(c)

\* The user interrupts the client.
Interrupt(c) == at[c] \notin {"off", "gone"} /\ Close(c)

\* What arrives for a client that is gone resets its connection.
Refuse(c) ==
    /\ at[c] = "gone"
    /\ peer[c] = "fin" /\ seen[c] < Len(out[c])
    /\ Reset(c)
    /\ UNCHANGED cvars

\* What the client's process and its kernel do of themselves.
Work(c) == RecvText(c) \/ GetLine(c) \/ SendText(c) \/ EndOfInput(c) \/ Refuse(c)

Client(c) == Type(c) \/ EndInput(c) \/ Start(c) \/ Work(c) \/ Interrupt(c)

-----------------------------------------------------------------------------
\* Nothing typed is lost, doubled or sent before fgets() returned it, and all
\* that fgets() returned is sent before the client waits again.
ClientTypeOK ==
    /\ at \in [Conns -> {"off", "loop", "line", "send", "gone"}]
    /\ \A c \in Conns :
          /\ sent[c] <= given[c] /\ given[c] <= fetched[c]
          /\ fetched[c] <= typed[c] /\ typed[c] <= Len(Text[c])
          /\ at[c] \in {"off", "loop", "line"} => sent[c] = given[c]
    /\ ended \subseteq Conns

\* The server and a client never wait for each other: the server in send()
\* for the client to read, the client in send() for the server to read.  This
\* is said of two clients and of buffers that hold a line and two reads of the
\* server: where a line just fills them, they may block for ever.
NoCircularWait ==
    pc = "send" /\ left # <<>> =>
        LET c == sock[j]
        IN  ~ ( /\ at[c] = "send" /\ sent[c] < given[c] /\ Unread(c) >= RcvBuf
                /\ peer[c] = "open" /\ Len(out[c]) - seen[c] >= Window )
=============================================================================
