--------------------------- MODULE MCHttpResponse ---------------------------
(* An instance of HttpResponse for TLC. *)
EXTENDS HttpResponse

\* Every list of up to two Range headers with the numbers that matter: 0, one
\* inside the file, one behind it, one of more than an int and a negative one.
AnyRange ==
    LET numbers == {noNumber, 0, 1, 3, IntMod + 1, 0 - 2}
    IN  {<<>>} \cup {<<a>> : a \in numbers} \cup {<<a, b>> : a, b \in numbers}
=============================================================================
