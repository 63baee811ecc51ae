--------------------------- MODULE ChatRefinement ---------------------------
(* The server of ChatServer implements the room of ChatRoom. *)
EXTENDS ChatServer, Functions

\* A guest is outside until accept() and gone once recv() has told the end.
PlaceOf(c) ==
    IF c \in InRoom THEN "inside"
    ELSE IF peer[c] = "new" \/ c \in Range(backlog) THEN "outside" ELSE "gone"

Abstract ==
    INSTANCE ChatRoom WITH
        Guests <- Conns,
        up <- Up,
        line <- peer,
        place <- [c \in Conns |-> PlaceOf(c)],
        said <- taken,
        heard <- out

\* Every step of the server and of its peers is a step of the room: nobody
\* speaks before all have heard the last speaker, nobody hears himself, hears
\* something twice, out of order or from before he came, and nobody is dropped
\* who did not hang up.
ImplementsRoom == Abstract!Room
=============================================================================
