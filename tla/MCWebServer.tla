---------------------------- MODULE MCWebServer ----------------------------
(* Small instances of WebServer. *)
EXTENDS WebServerRefinement, TLC

MCPages == (<<"index">> :> 1) @@ (<<"page">> :> 0)
EmptyPages == <<"index">> :> 0
MCIndex == <<"index">>

Line(path) == <<"GET/">> \o path \o <<"sp", "crlf", "crlf">>
Root == Line(<<>>)
Found == Line(<<"page">>)
\* Another request follows the first one in the same stream.
Pipelined == Root \o <<"GET/">>
NoSpace == <<"GET/", "crlf", "crlf">>
WrongMethod == <<"POST", "sp", "crlf", "crlf">>
Escaping == <<"GET/", "dotdot", "sp", "crlf", "crlf">>
Missing == <<"GET/", "other", "sp", "crlf", "crlf">>
LongPath == <<"GET/", "page", "page", "sp", "crlf", "crlf">>
LateSpace == <<"GET/", "crlf", "crlf", "sp">>
WithNul == <<"GET/", "nul", "sp", "crlf", "crlf">>
TooBig == <<"GET/", "page", "crlf", "page", "crlf", "crlf", "page", "crlf">>
\* As long as a buffer of six, and one segment longer.
Exact == <<"GET/", "page", "sp", "page", "crlf", "crlf">>
CutTerminator == <<"GET/", "page", "sp", "page", "page", "crlf", "crlf", "crlf">>

\* A second terminator ends one segment after the first.
Twice == <<"GET/", "sp", "crlf", "crlf", "crlf">>

\* Few and short requests for the runs with several peers.
Bare == <<"crlf", "crlf">>
\* The terminator ends one segment after a buffer of four.
Straddling == <<"GET/", "sp", "page", "crlf", "crlf">>
FewRequests == {Root, NoSpace, Straddling}
BareRequests == {Bare}
LiveRequests == {Root}
\* Every shape of request, for the runs with one or two peers.
AllRequests ==
    {Root, Found, Pipelined, NoSpace, WrongMethod, Escaping, Missing, LongPath,
     LateSpace, WithNul, TooBig, Exact, CutTerminator, Twice}

ConnSymmetry == Permutations(Conns)
=============================================================================
