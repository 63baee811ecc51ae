------------------------------ MODULE SshTools ------------------------------
(***************************************************************************)
(* C/chapter 11 ssh: ssh_connect.c, ssh_auth.c, ssh_command.c and           *)
(* ssh_download.c.  Each main() is a sequence of calls of libssh, most of   *)
(* which end it when they fail; the tools differ in how far they go.       *)
(***************************************************************************)
EXTENDS Naturals, SequencesExt

CONSTANTS
    Keyboards,  \* what a user may type: what each fgets() returns, until the end of input
    Yes,        \* of these, the ones that begin with Y or y
    Remotes     \* outputs of a command and contents of a file; "0" is a zero byte

ASSUME SshAssumption ==
    Keyboards \subseteq Seq(STRING) /\ Remotes \subseteq Seq(STRING) /\ Yes \subseteq STRING

VARIABLES
    calls,      \* the calls of main() that are still to be made
    sshCode,    \* the exit status, "none" while the tool runs
    keyboard,   \* what is typed and not yet read
    known,      \* what ssh_session_is_known_server() returned
    consented,  \* history: the user, asked, has accepted the host
    remembered, \* the host is written to the known hosts
    password,   \* what is sent as the password
    loggedIn,
    request,    \* the command or the file name that is sent
    remote,     \* history: what the host has to send
    got,        \* how much of it is received
    output,     \* what is printed of it
    keys        \* history: all that is typed

sshVars == <<calls, sshCode, keyboard, known, consented, remembered, password, loggedIn,
             request, remote, got, output, keys>>

-----------------------------------------------------------------------------
SshConnect == <<"ssh_new", "ssh_connect">>
SshAuth == SshConnect \o <<"publickey", "hash", "known_server", "password">>
SshCommand == SshAuth \o <<"channel_new", "open_session", "request_exec", "channel_read">>
SshDownload == SshAuth \o <<"scp_new", "scp_init", "pull_request", "malloc", "scp_read", "pull_eof">>

\* The calls whose failure ends the tool and that do nothing else, with the exit
\* status: -1 is 255, and two of them report success.
Failure == [c \in {"ssh_new", "ssh_connect", "publickey", "hash", "channel_new", "open_session",
                   "scp_init", "pull_request", "malloc"} |->
    CASE c \in {"ssh_connect", "publickey", "hash"} -> "255"
      [] c \in {"channel_new", "open_session"} -> "0"
      [] OTHER -> "1"]

KnownHost == {"ok", "changed", "other", "unknown", "not_found", "error"}

SshInit ==
    /\ calls = <<>> /\ sshCode = "none" /\ keyboard = <<>> /\ keys = <<>>
    /\ known = "none" /\ consented = FALSE /\ remembered = FALSE /\ password = "none" /\ loggedIn = FALSE
    /\ request = "none" /\ remote = <<>> /\ got = 0 /\ output = <<>>

SshStart ==
    /\ calls = <<>> /\ sshCode = "none"
    /\ calls' \in {SshConnect, SshAuth, SshCommand, SshDownload}
    /\ keys' \in Keyboards /\ keyboard' = keys'
    /\ remote' \in Remotes
    /\ UNCHANGED <<sshCode, known, consented, remembered, password, loggedIn, request, got,
                   output>>

\* A call succeeds: the next one is made, and main() returns 0 after the last.
Succeed ==
    /\ calls' = Tail(calls)
    /\ sshCode' = IF Len(calls) = 1 THEN "0" ELSE "none"
SshExit(code) == calls' = <<>> /\ sshCode' = code

Making(call) == calls # <<>> /\ Head(calls) = call

\* What fgets() leaves in the array: the next thing typed or, at the end of input,
\* whatever was there before.
SshGets(read) ==
    \/ keyboard # <<>> /\ read = Head(keyboard) /\ keyboard' = Tail(keyboard)
    \/ keyboard = <<>> /\ UNCHANGED keyboard

-----------------------------------------------------------------------------
PlainCall ==
    /\ calls # <<>> /\ Head(calls) \in DOMAIN Failure
    /\ Succeed \/ SshExit(Failure[Head(calls)])
    /\ UNCHANGED <<keyboard, known, consented, remembered, password, loggedIn, request, remote,
                   got, output, keys>>

Bug_CheckHost ==
    /\ Making("known_server")
    /\ known' \in KnownHost
    /\ remembered' = (known' = "unknown")
    /\ Succeed
    /\ UNCHANGED <<keyboard, consented, password, loggedIn, request, remote, got, output, keys>>
\* The host key is compared with the known hosts, and a host that is not known as
\* it is needs the user's consent.  Writing it down then may fail, and nobody looks.
CheckHost ==
    /\ Making("known_server")
    /\ known' \in KnownHost
    /\ \/ known' = "ok" /\ Succeed /\ UNCHANGED <<keyboard, consented, remembered>>
       \/ known' = "error" /\ SshExit("1") /\ UNCHANGED <<keyboard, consented, remembered>>
       \/ /\ known' \notin {"ok", "error"}
          /\ \E answer \in Yes \cup {"N"} \cup ToSet(keyboard) :
                /\ SshGets(answer)
                /\ IF answer \in Yes
                   THEN consented' = TRUE /\ remembered' \in BOOLEAN /\ Succeed
                   ELSE UNCHANGED <<consented, remembered>> /\ SshExit("0")
    /\ UNCHANGED <<password, loggedIn, request, remote, got, output, keys>>

\* ssh_userauth_password(): a refusal ends the tool with status 0.
Login ==
    /\ Making("password")
    /\ \E typed \in {"left over"} \cup ToSet(keyboard) :
          SshGets(typed) /\ password' = typed
    /\ \/ loggedIn' = TRUE /\ Succeed
       \/ loggedIn' = FALSE /\ SshExit("0")
    /\ UNCHANGED <<known, consented, remembered, request, remote, got, output, keys>>

\* The command is executed, or the file asked for.
Request ==
    /\ Making("request_exec") \/ Making("scp_new")
    /\ \E typed \in {"left over"} \cup ToSet(keyboard) :
          SshGets(typed) /\ request' = typed
    /\ Succeed \/ SshExit("1")
    /\ UNCHANGED <<known, consented, remembered, password, loggedIn, remote, got, output, keys>>

\* printf("%.*s"): up to a zero byte.
Printed(text) == SubSeq(text, 1, Min({k \in DOMAIN text : text[k] = "0"} \cup {Len(text) + 1}) - 1)

Bug_ReadOutput ==
    /\ Making("channel_read")
    /\ \/ /\ \E n \in 1 .. Len(remote) - got :
                output' = output \o Printed(SubSeq(remote, got + 1, got + n)) /\ got' = got + n
          /\ UNCHANGED <<calls, sshCode>>
       \/ Succeed /\ UNCHANGED <<got, output>>
    /\ UNCHANGED <<keyboard, known, consented, remembered, password, loggedIn, request, remote, keys>>
\* ssh_channel_read(): some of the output, its end, or an error.
ReadOutput ==
    /\ Making("channel_read")
    /\ \/ /\ \E n \in 1 .. Len(remote) - got :
                output' = output \o Printed(SubSeq(remote, got + 1, got + n)) /\ got' = got + n
          /\ UNCHANGED <<calls, sshCode>>
       \/ got = Len(remote) /\ Succeed /\ UNCHANGED <<got, output>>
       \/ SshExit("1") /\ UNCHANGED <<got, output>>
    /\ UNCHANGED <<keyboard, known, consented, remembered, password, loggedIn, request, remote, keys>>

\* ssh_scp_read() is called once and may return a part of the file; all of the
\* buffer is printed, and what malloc() left in the rest of it.
ScpRead ==
    /\ Making("scp_read")
    /\ \/ /\ got' \in Min({1, Len(remote)}) .. Len(remote)
          /\ output' = Printed([k \in 1 .. Len(remote) |-> IF k <= got' THEN remote[k] ELSE "junk"])
          /\ Succeed
       \/ SshExit("1") /\ UNCHANGED <<got, output>>
    /\ UNCHANGED <<keyboard, known, consented, remembered, password, loggedIn, request, remote, keys>>

\* The next request is the end of the transfer only when all of the file is read.
PullEof ==
    /\ Making("pull_eof")
    /\ (got = Len(remote) /\ Succeed) \/ SshExit("1")
    /\ UNCHANGED <<keyboard, known, consented, remembered, password, loggedIn, request, remote,
                   got, output, keys>>

SshNext == SshStart \/ PlainCall \/ CheckHost \/ Login \/ Request \/ ReadOutput \/ ScpRead \/ PullEof

SshSpec == SshInit /\ [][SshNext]_sshVars

-----------------------------------------------------------------------------
SshTypeOK ==
    /\ \E tool \in {SshConnect, SshAuth, SshCommand, SshDownload} : IsSuffix(calls, tool)
    /\ sshCode \in {"none", "0", "1", "255"}
    /\ known \in KnownHost \cup {"none"}
    /\ IsSuffix(keyboard, keys)
    /\ got \in 0 .. Len(remote) /\ Len(output) <= Len(remote)
    /\ consented \in BOOLEAN /\ remembered \in BOOLEAN /\ loggedIn \in BOOLEAN

\* No password is sent before the host's key has been found to be the known one or
\* the user, asked because it is not, has answered yes; no host is remembered without
\* that answer; and nothing is requested of a host that has not accepted the password.
\* (At the end of the input the answer is whatever the array holds.)
TrustBeforeSecret ==
    /\ password # "none" => known = "ok" \/ consented
    /\ remembered => consented
    /\ consented => known \notin {"ok", "none"} /\ (keys # <<>> => keys[1] \in Yes)
    /\ request # "none" => loggedIn

\* A tool that has made its request and reports success has printed all of the
\* output or the file, and nothing else, when there is no zero byte in it: a read
\* that fails or is short is never taken for the end.
WholeOrFailed ==
    request # "none" /\ sshCode = "0" =>
        IF "0" \in ToSet(remote) THEN Len(output) < Len(remote) ELSE output = remote
=============================================================================
