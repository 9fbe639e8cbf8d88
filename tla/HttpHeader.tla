----------------------------- MODULE HttpHeader -----------------------------
(***************************************************************************)
(* The text of an HTTP request: what ProtocolHttp writes for one, how      *)
(* recvRequest recognises its end and what _ParseRequestHeader makes of    *)
(* it.  Bytes are "x" (printable), "_" (blank), "r" and "n".               *)
(***************************************************************************)
EXTENDS Integers, SequencesExt

Bytes == {"x", "_", "r", "n"}
CRLF == <<"r", "n">>

-----------------------------------------------------------------------------
(* The client's writes. *)

\* The writes of ProtocolHttp::sendRequest: request line, Host, every header
\* line, and the empty line, each in a putMessage of its own.
sendRequest(lines) ==
    <<<<"x", "_", "x", "_", "x">> \o CRLF, <<"x", "_", "x">> \o CRLF>>
        \o [i \in DOMAIN lines |-> lines[i] \o CRLF] \o <<CRLF>>

\* The writes of sendRequestFd: one for each piece between the line ends of the
\* file; a file that ends in a line end has a last, empty piece.
sendRequestFd(lines) == [i \in DOMAIN lines |-> lines[i] \o CRLF]

-----------------------------------------------------------------------------
(* The end of a request and its lines. *)

\* Mutant: the scan looks for the end of a line.
EndOfLine(c) == CRLF \in SubSeqs(c)

\* Mutant: the branch for a chunk that is just CRLF is missing.
NoShortChunk(c) == Len(c) >= 4 /\ (CRLF \o CRLF) \in SubSeqs(c)

\* The lambda of recvRequest: whether the chunk c ends the request.
scanForEnd(c) ==
    \/ c = CRLF
    \/ Len(c) >= 4 /\ (CRLF \o CRLF) \in SubSeqs(c)

\* Mutant: the search starts behind the first byte.
ReadLineSkips(b, offset) ==
    LET ends == {i \in offset + 1..Len(b) - 1 : b[i] = "r" /\ b[i + 1] = "n"}
    IN  IF ends = {} THEN -1 ELSE Min(ends) - offset

\* Position of the first CRLF at or after offset, relative to it, or -1.
\* (Offsets count from 1; the byte behind the last one is NUL.)
_ReadLine(b, offset) ==
    LET ends == {i \in offset..Len(b) - 1 : b[i] = "r" /\ b[i + 1] = "n"}
    IN  IF ends = {} THEN -1 ELSE Min(ends) - offset

\* The words sscanf's %s finds in a line.
WordCount(line) ==
    Cardinality({i \in DOMAIN line : line[i] = "x" /\ (i = 1 \/ line[i - 1] # "x")})

\* The option loop of _ParseRequestHeader.  pos is unsigned: the -1 of a
\* missing CRLF is not <= 0, and the string of that length throws.
Options(b, start) ==
    LET scan[offset \in 1..Len(b) + 1] ==
            LET pos == _ReadLine(b, offset)
            IN  IF pos = -1 THEN [outcome |-> "dropped", headers |-> 0]
                ELSE IF pos = 0 THEN [outcome |-> "parsed", headers |-> 0]
                ELSE IF Len(b) < offset + pos + 2 THEN [outcome |-> "parsed", headers |-> 1]
                ELSE [scan[offset + pos + 2] EXCEPT !.headers = @ + 1]
    IN  scan[start]

\* The first line is copied up to its CRLF (with -1, up to the end of memory)
\* and has to consist of three words.
_ParseRequestHeader(b) ==
    LET pos == _ReadLine(b, 1)
    IN  IF pos = -1 THEN [outcome |-> "crash", headers |-> 0]
        ELSE IF WordCount(SubSeq(b, 1, pos)) < 3 THEN [outcome |-> "default", headers |-> 0]
        ELSE Options(b, pos + 3)

-----------------------------------------------------------------------------
\* b has a request in it up to and with its empty line.
Whole(b) == Len(b) >= 4 /\ (CRLF \o CRLF) \in SubSeqs(b)
=============================================================================
