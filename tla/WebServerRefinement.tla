------------------------ MODULE WebServerRefinement ------------------------
(* The server of WebServer implements the service of HttpService. *)
EXTENDS WebServer

\* A connection waits from connect() on, in the backlog and in the list.
StatusOf(c) ==
    CASE peer[c] = "new" -> "none"
      [] closed[c] # "no" -> "closed"
      [] peer[c] # "new" /\ closed[c] = "no" ->
            IF pc \in {"send", "killed"} /\ sock[client] = c THEN "served" ELSE "waiting"

Abstract ==
    INSTANCE HttpService WITH
        Connections <- Conns, Scripts <- Requests,
        Scarce <- Cardinality(Conns) >= Cardinality(Fds),
        up <- Up,
        asked <- script,
        status <- [c \in Conns |-> StatusOf(c)],
        gone <- {c \in Conns : peer[c] \in {"fin", "reset"}},
        told <- answer

\* Every step of the server and of its peers is a step of the service: one
\* client served at a time, with its own answer, whole unless its peer has gone;
\* only where every descriptor may be in use is a page answered with a 404.
ImplementsService == Abstract!Service
=============================================================================
