-------------------------------- MODULE Ccwc --------------------------------
(***************************************************************************)
(* C/wc-tool/ccwc.c: counts the lines, words, bytes or characters of a file *)
(* or of standard input, which it reads with fgets() in pieces.            *)
(*                                                                         *)
(* Bytes are "sp", "nl", "cr" and "nul", "tab" for white space of another   *)
(* kind, "cont" for a byte that continues a character, and any other.      *)
(***************************************************************************)
EXTENDS Naturals, SequencesExt

CONSTANTS
    buffer_size,  \* 100
    Files         \* what a file may contain

ASSUME CcwcAssumption == buffer_size \in Nat \ {0, 1} /\ Files \subseteq Seq(STRING)

VARIABLES
    wc,        \* "off", "reading", "finished", "failed"
    passes,    \* what is still to be counted, one pass over the input each
    counting,  \* history: what was to be counted
    input,     \* the input
    offset,    \* how much of it is read
    count_output

wcVars == <<wc, passes, counting, input, offset, count_output>>

-----------------------------------------------------------------------------
delimiters == {"sp", "nl", "cr"}

\* What fgets() puts into the buffer, as the C string it is read as afterwards.
Piece(text) ==
    SubSeq(text, 1, Min({k \in DOMAIN text : text[k] = "nl"} \cup {Len(text), buffer_size - 1}))
CString(piece) ==
    SubSeq(piece, 1, Min({k \in DOMAIN piece : piece[k] = "nul"} \cup {Len(piece) + 1}) - 1)

count_bytes(s) == Len(s)
count_lines(s) == Cardinality({k \in DOMAIN s : s[k] = "nl"})
\* strtok(): a word begins at what is no delimiter and follows one, or nothing.
count_words(s) ==
    Cardinality({k \in DOMAIN s : s[k] \notin delimiters /\ (k = 1 \/ s[k - 1] \in delimiters)})
count_chars(s) == Cardinality({k \in DOMAIN s : s[k] # "cont"})

Count(option, s) ==
    CASE option = "c" -> count_bytes(s) [] option = "l" -> count_lines(s)
      [] option = "w" -> count_words(s) [] option = "m" -> count_chars(s)

-----------------------------------------------------------------------------
CcwcInit ==
    /\ wc = "off" /\ passes = <<>> /\ counting = <<>> /\ input = <<>> /\ offset = 0
    /\ count_output = <<0, 0, 0>>

\* main(), up to the first fgets(): one pass for an option, over the file or
\* standard input, or three over the file; a letter that is no option is not
\* noticed before there is a piece, and nothing is read when there is no letter.
\* A file that cannot be opened is an error.
CcwcStart ==
    /\ wc = "off"
    /\ input' \in Files
    /\ passes' \in {<<>>, <<"c">>, <<"l">>, <<"w">>, <<"m">>, <<"invalid">>, <<"l", "w", "c">>}
    /\ counting' = passes'
    /\ wc' \in {IF passes' = <<>> THEN "finished" ELSE "reading", "failed"}
    /\ UNCHANGED <<offset, count_output>>

\* process() and file_count_...: a piece is counted and the next one read.
CountPiece ==
    /\ wc = "reading" /\ offset < Len(input)
    /\ LET piece == Piece(SubSeq(input, offset + 1, Len(input)))
           slot == Len(counting) - Len(passes) + 1
       IN  IF Head(passes) = "invalid"
           THEN wc' = "failed" /\ UNCHANGED <<offset, count_output>>
           ELSE /\ count_output' = [count_output EXCEPT ![slot] = @ + Count(Head(passes), CString(piece))]
                /\ offset' = offset + Len(piece)
                /\ UNCHANGED wc
    /\ UNCHANGED <<passes, counting, input>>

Bug_NextPass ==
    /\ wc = "reading" /\ offset = Len(input)
    /\ passes' = Tail(passes)
    /\ wc' = IF Len(passes) = 1 THEN "finished" ELSE "reading"
    /\ UNCHANGED <<counting, input, count_output, offset>>
\* fgets() returns NULL: the file is read again from its beginning for the next
\* count, or the counts are printed.
NextPass ==
    /\ wc = "reading" /\ offset = Len(input)
    /\ passes' = Tail(passes)
    /\ wc' = IF Len(passes) = 1 THEN "finished" ELSE "reading"
    /\ offset' = IF Len(passes) = 1 THEN offset ELSE 0
    /\ UNCHANGED <<counting, input, count_output>>

CcwcNext == CcwcStart \/ CountPiece \/ NextPass
CcwcSpec == CcwcInit /\ [][CcwcNext]_wcVars

-----------------------------------------------------------------------------
CcwcTypeOK ==
    /\ wc \in {"off", "reading", "finished", "failed"}
    /\ offset \in 0 .. Len(input)
    /\ \A k \in 1 .. 3 : count_output[k] \in 0 .. Len(input)

\* Where in a text a word begins for the wc this program rebuilds (ccwc.c 1-4): words
\* are separated by white space of any kind.
WhiteSpace == {"sp", "nl", "cr", "tab"}
Words(text) == {k \in DOMAIN text :
    text[k] \notin WhiteSpace /\ (k = 1 \/ text[k - 1] \in WhiteSpace)}

\* Every line of the input fits in the buffer.
FileFits == \A i \in 1 .. Len(input) + 1 - buffer_size :
    \E j \in i .. i + buffer_size - 2 : input[j] = "nl"

\* The counts of a text without zero bytes do not depend on the pieces it is read
\* in, nor on what was counted before: lines, bytes and characters are those of
\* the whole text.  Words are, in a text whose only white space is what the program
\* takes for it (delimiters, 26), when every line fits in the buffer; otherwise a word
\* may be counted again in the next piece.
CountsOfFile ==
    wc = "finished" /\ (\A i \in DOMAIN input : input[i] # "nul") =>
        \A k \in DOMAIN counting :
            CASE counting[k] = "c" -> count_output[k] = Len(input)
              [] counting[k] = "l" -> count_output[k] = Cardinality({i \in DOMAIN input : input[i] = "nl"})
              [] counting[k] = "m" -> count_output[k] = Cardinality({i \in DOMAIN input : input[i] # "cont"})
              [] counting[k] = "w" -> "tab" \notin ToSet(input) =>
                    /\ count_output[k] >= Cardinality(Words(input))
                    /\ FileFits => count_output[k] = Cardinality(Words(input))
              [] OTHER -> input = <<>>
=============================================================================
