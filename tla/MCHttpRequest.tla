---------------------------- MODULE MCHttpRequest ----------------------------
(* An instance of HttpRequest for TLC. *)
EXTENDS HttpRequest

\* What the project's own client writes: sendRequest with zero to two header
\* lines, sendRequestFd on a file that ends in a line end, in an empty line, and
\* in a line of text behind the empty one.
OwnRequests ==
    {sendRequest(<<>>), sendRequest(<<<<"x">>>>), sendRequest(<<<<"x">>, <<"x", "_">>>>),
     sendRequestFd(<<<<"x", "_", "x", "_", "x">>, <<"x">>, <<>>>>),
     sendRequestFd(<<<<"x", "_", "x", "_", "x">>, <<"x">>, <<>>, <<>>>>),
     sendRequestFd(<<<<"x", "_", "x", "_", "x">>, <<"x">>, <<>>, <<"x">>>>)}

\* The same bytes in segments of one byte: reads may cut them anywhere.
Bytewise(stream) == [i \in DOMAIN stream |-> <<stream[i]>>]

\* Well-formed requests with two header lines, one and none, and malformed ones:
\* a short request line, an empty one, no line end, blanks only.
AnyRequests ==
    {Bytewise(<<"x", "_", "x", "_", "x", "r", "n", "x", "x", "x", "x", "r", "n",
                "x", "_", "x", "x", "x", "x", "r", "n", "r", "n">>),
     Bytewise(<<"x", "_", "x", "_", "x", "r", "n", "x", "_", "r", "n", "r", "n">>),
     Bytewise(<<"x", "_", "x", "_", "x", "r", "n", "r", "n">>),
     Bytewise(<<"x", "_", "x", "r", "n", "x", "r", "n", "r", "n">>),
     Bytewise(<<"r", "n", "x", "r", "n", "r", "n">>),
     Bytewise(<<"x", "_", "x", "_", "x">>),
     Bytewise(<<"_", "r", "_", "n", "r", "n">>)}

AllRequests == OwnRequests \cup AnyRequests
=============================================================================
