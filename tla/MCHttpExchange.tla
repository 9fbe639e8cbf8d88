--------------------------- MODULE MCHttpExchange ---------------------------
(* An instance of HttpExchange for TLC. *)
EXTENDS HttpExchange

\* An empty line, one that is no request line, one with a carriage return, a
\* request line, and one that is too long for getline.
Lines == {<<>>, <<"x">>, <<"x", "r">>, <<"x", "_", "x", "_", "x">>,
          [i \in 1..lineMax + 1 |-> "x"]}

\* Every file of up to three of these lines.  Among them are files that fill the
\* buffer exactly, exceed it by one byte, and go on behind their empty line.
WrittenFiles == {Written(f) : f \in BoundedSeq(Lines, 3) \ {<<>>}}
=============================================================================
