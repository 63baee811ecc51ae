----------------------------- MODULE MCServices ------------------------------
(***************************************************************************)
(* Instances of the datagram programs, the time servers, the DNS query and  *)
(* the word counter.  They do not interact: a behaviour is one of one.     *)
(***************************************************************************)
EXTENDS UdpPrograms, TimeServers, DnsQuery, Ccwc

VARIABLE tool

MCLines == {<<>>, <<"a">>, <<"b", "a", "b">>}
MCHello == <<"b">>
MCToupper == [c \in {"a", "b"} |-> IF c = "a" THEN "A" ELSE "B"]

\* Names of one and two labels, one that begins and one that ends with a dot.
MCHosts == {<<<<97>>>>, <<<<97>>, <<98, 99>>>>, <<<<>>, <<97>>>>, <<<<97>>, <<>>>>}
MCZone ==
    LET name == <<<<97>>, <<98, 99>>>>
    IN  {[name |-> name, type |-> 1, answers |->
            <<[type |-> 5, data |-> <<120>>], [type |-> 1, data |-> <<10, 0, 0, 1>>]>>],
         [name |-> name, type |-> 255, answers |->
            <<[type |-> 15, data |-> <<109, 120>>], [type |-> 16, data |-> <<116>>],
              [type |-> 28, data |-> [k \in 1 .. 16 |-> k]]>>]}
\* Nothing, an error, a pointer to itself, a text record without data for a name with
\* a zero byte, and a question for the root.
MCStrange ==
    LET header(rcode, qd, an) == <<171, 205, 129, rcode, 0, qd, 0, an, 0, 0, 0, 0>>
    IN  {<<>>, header(131, 1, 0), header(128, 1, 0) \o <<192, 12>>,
         header(128, 0, 1) \o <<2, 0, 97, 0, 0, 16, 0, 1, 0, 0, 0, 0, 0, 0>>,
         header(128, 1, 0) \o <<0, 0, 1, 0, 1>>}

\* Lines that fit in the buffer of 4, words cut by its end, a zero byte, a tab, and
\* a character of two bytes.
MCFiles ==
    {<<>>, <<"x", "nl">>, <<"x", "y", "nl", "sp", "z", "nl", "nl", "x">>,
     <<"x", "x", "x", "x", "sp", "y", "nl">>, <<"x", "sp", "sp", "sp", "y", "cr", "nl">>,
     <<"x", "nul", "y", "nl">>, <<"x", "tab", "y", "nl">>, <<"x", "cont", "x", "cont", "nl">>}

Tools == {"udp", "time", "dns", "ccwc"}

Init ==
    /\ tool \in Tools /\ UdpInit /\ TimeInit /\ DnsInit /\ CcwcInit
    /\ tool # "time" => timeServer = "time_server"
Next ==
    \/ tool = "udp" /\ UdpNext /\ UNCHANGED <<tool, timeVars, dnsVars, wcVars>>
    \/ tool = "time" /\ TimeNext /\ UNCHANGED <<tool, udpVars, dnsVars, wcVars>>
    \/ tool = "dns" /\ DnsNext /\ UNCHANGED <<tool, udpVars, timeVars, wcVars>>
    \/ tool = "ccwc" /\ CcwcNext /\ UNCHANGED <<tool, udpVars, timeVars, dnsVars>>

\* The time servers' fairness, in the behaviours that are theirs.
Spec ==
    /\ Init /\ [][Next]_<<tool, udpVars, timeVars, dnsVars, wcVars>>
    /\ tool = "time" => TimeFairness

\* Every program's variables have their types, in the other programs' behaviours too.
ServicesTypeOK == UdpTypeOK /\ TimeTypeOK /\ DnsTypeOK /\ CcwcTypeOK
=============================================================================
