----------------------------- MODULE MCClients ------------------------------
(***************************************************************************)
(* Instances of the three client programs.  They do not interact: a         *)
(* behaviour is one of one of them.                                        *)
(***************************************************************************)
EXTENDS SmtpSend, WebGet, SshTools

VARIABLE program

\* Five lines are asked for and sent; a long line, a missing newline, a line that
\* begins with a dot, and an end of input.
MCInputs ==
    LET four == <<"h", "nl", "f", "nl", "t", "nl", "s", "nl">>
    IN  {four \o <<"a", "b", "nl", "nl", ".", "nl">>,
         four \o <<"a", "nl", ".", "nl", "b", "nl", ".", "nl">>,
         four \o <<"a", "b", "c", ".", "nl", ".", "nl">>,
         four \o <<".", "a", "nl", ".", "nl">>,
         four \o <<"a", "nl", ".">>}

\* One line, several, and a refusal.
MCReplies == [code \in {"220", "250", "354", "221"} |->
    CASE code = "250" -> {<<code, " ", "crlf">>, <<code, "-", "crlf", code, " ", "crlf">>}
      [] code = "221" -> {<<code, "crlf">>, <<"500", " ", "crlf">>}
      [] code = "220" -> {<<code, " ", "crlf">>, <<code, "-", "crlf", code, "-", "crlf", code, " ", "crlf">>}
      [] OTHER -> {<<code, " ", "crlf">>}]

MCUrls ==
    {[protocol |-> "http", host |-> <<"h">>, port |-> <<"8", "1">>, path |-> <<"a", "/", "b">>,
      fragment |-> <<>>],
     [protocol |-> "", host |-> <<"h">>, port |-> <<>>, path |-> <<>>, fragment |-> <<"f">>],
     [protocol |-> "", host |-> <<"h">>, port |-> <<>>, path |-> <<"a">>, fragment |-> <<"f">>],
     [protocol |-> "ftp", host |-> <<"h">>, port |-> <<>>, path |-> <<>>, fragment |-> <<>>]}

\* The page in each of the three encodings, one that does not fit, and two with
\* a zero byte.
MCSites ==
    LET head == <<"OK", "cr", "lf">>
        end == <<"cr", "lf">>
    IN  {[page |-> <<"p", "q">>, chunks |-> <<>>, script |-> head \o <<"CL", "2">> \o end \o end \o <<"p", "q">>],
         [page |-> <<"p", "q">>, chunks |-> <<>>, script |-> head \o end \o <<"p", "q">>],
         [page |-> <<"p", "q", "r">>,
          chunks |-> <<[at |-> 9, size |-> 2, before |-> 0], [at |-> 16, size |-> 1, before |-> 2],
                       [at |-> 22, size |-> 0, before |-> 3]>>,
          script |-> head \o <<"TE">> \o end \o end \o <<"2">> \o end \o <<"p", "q">> \o end
                       \o <<"1">> \o end \o <<"r">> \o end \o <<"0">> \o end \o end],
         [page |-> [k \in 1 .. 24 |-> "p"], chunks |-> <<>>,
          script |-> head \o end \o [k \in 1 .. 24 |-> "p"]],
         [page |-> <<"p", "nul", "q">>, chunks |-> <<>>,
          script |-> head \o end \o <<"p", "nul", "q">>],
         [page |-> <<"nul", "q">>,
          chunks |-> <<[at |-> 9, size |-> 2, before |-> 0], [at |-> 16, size |-> 0, before |-> 2]>>,
          script |-> head \o <<"TE">> \o end \o end \o <<"2">> \o end \o <<"nul", "q">> \o end
                       \o <<"0">> \o end \o end]}

MCKeyboards == {<<>>, <<"N">>, <<"Y", "secret", "ls">>, <<"secret", "ls">>}
MCRemotes == {<<>>, <<"x", "y">>, <<"x", "0", "y">>}

Init == SmtpInit /\ WebGetInit /\ SshInit /\ program \in {"smtp_send", "web_get", "ssh"}
Next ==
    \/ program = "smtp_send" /\ SmtpNext /\ UNCHANGED <<program, wgVars, sshVars>>
    \/ program = "web_get" /\ WebGetNext /\ UNCHANGED <<program, smtpVars, sshVars>>
    \/ program = "ssh" /\ SshNext /\ UNCHANGED <<program, smtpVars, wgVars>>

Spec == Init /\ [][Next]_<<program, smtpVars, wgVars, sshVars>> /\ WebGetFairness

\* Every program's variables have their types, in the other programs' behaviours too.
ClientsTypeOK == SmtpTypeOK /\ WebGetTypeOK /\ SshTypeOK
=============================================================================
