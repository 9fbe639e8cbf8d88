----------------------------- MODULE HttpRequest -----------------------------
(***************************************************************************)
(* The HTTP server's side of a request, as a thread of server.cpp runs it: *)
(* ProtocolHttp::recvRequest, which is IOSocket::getMessage with a scan    *)
(* for the end of the request, and then _ParseRequestHeader.               *)
(*                                                                         *)
(* The scan sees one chunk at a time, the bytes of one read, and TCP may   *)
(* hand over any number of the client's segments in one read.              *)
(***************************************************************************)
EXTENDS HttpHeader

CONSTANTS
    Requests,   \* what a client may write: each a sequence of segments
    dataMax     \* bytes recvRequest asks getMessage for (capacity - 1)

ASSUME HttpRequestAssumption ==
    /\ dataMax \in Nat \ {0}
    /\ \A r \in Requests : r \in Seq(Seq(Bytes)) /\ \A i \in DOMAIN r : r[i] # <<>>

VARIABLES
    ssl,        \* getSSL() is not null: the connection is TLS
    request,    \* the segments the client sends, fixed for the connection
    unsent,     \* those it has still to write
    net,        \* segments that have arrived and were not read
    peer,       \* the client's end: "open", "closed" or "reset"
    buffer,     \* the bytes read so far; dataRead is its length
    chunk,      \* the bytes of the last read
    outcome,    \* what became of the request, see Outcomes
    headers     \* lines _ParseRequestHeader added to m_requestHeader

vars == <<ssl, request, unsent, net, peer, buffer, chunk, outcome, headers>>

(***************************************************************************)
(* none     getMessage is still reading                                    *)
(* parsed   the request line and the header lines were taken               *)
(* default  the request line has no three words: -1, which server.cpp      *)
(*          ignores; the constructor's "GET /" is answered                 *)
(* dropped  an exception ended the thread                                  *)
(* crash    memcpy of -1 bytes: the process is gone                        *)
(***************************************************************************)
Outcomes == {"none", "parsed", "default", "dropped", "crash"}

TypeOK ==
    /\ ssl \in BOOLEAN
    /\ request \in Requests
    /\ IsSuffix(unsent, request)
    /\ net \in Seq(Seq(Bytes))
    /\ peer \in {"open", "closed", "reset"}
    /\ buffer \in Seq(Bytes) /\ Len(buffer) <= dataMax
    /\ IsSuffix(chunk, buffer)
    /\ outcome \in Outcomes
    /\ headers \in Nat

Init ==
    /\ ssl \in BOOLEAN
    /\ request \in Requests /\ unsent = request
    /\ net = <<>> /\ peer = "open"
    /\ buffer = <<>> /\ chunk = <<>>
    /\ outcome = "none" /\ headers = 0

-----------------------------------------------------------------------------
(* The thread: getMessage's loop, and the parser behind it. *)

Parsed(b) ==
    LET result == _ParseRequestHeader(b)
    IN  outcome' = result.outcome /\ headers' = result.headers

\* Mutant: size instead of size - dataRead.
FitsWhole(size) == IF size < dataMax THEN size ELSE dataMax

\* A read asks for no more than the rest of the buffer.
Fits(size) == LET room == dataMax - Len(buffer) IN IF size < room THEN size ELSE room

\* One read returns the bytes of k segments, as far as there is room; over TLS
\* one record.  The loop ends when the scan says so or the buffer is full.
Read(k) ==
    /\ outcome = "none"
    /\ k \in 1..Len(net) /\ (ssl => k = 1)
    /\ LET bytes == FlattenSeq(SubSeq(net, 1, k))
           got   == Fits(Len(bytes))
           rest  == SubSeq(bytes, got + 1, Len(bytes))
           later == SubSeq(net, k + 1, Len(net))
       IN  /\ chunk' = SubSeq(bytes, 1, got)
           /\ buffer' = buffer \o chunk'
           /\ net' = IF rest = <<>> THEN later ELSE <<rest>> \o later
    /\ IF scanForEnd(chunk') \/ Len(buffer') = dataMax
       THEN Parsed(buffer')
       ELSE UNCHANGED <<outcome, headers>>
    /\ UNCHANGED <<ssl, request, unsent, peer>>

\* End of file: read returns 0 and the loop ends; SSL_read fails and throws.
ReadEof ==
    /\ outcome = "none"
    /\ net = <<>> /\ peer = "closed"
    /\ IF ssl THEN outcome' = "dropped" /\ UNCHANGED headers ELSE Parsed(buffer)
    /\ UNCHANGED <<ssl, request, unsent, net, peer, buffer, chunk>>

\* The connection was reset: read returns -1 and getMessage throws.
ReadFails ==
    /\ outcome = "none" /\ peer = "reset"
    /\ outcome' = "dropped"
    /\ UNCHANGED <<ssl, request, unsent, net, peer, buffer, chunk, headers>>

-----------------------------------------------------------------------------
(* The client. *)

ClientWrite ==
    /\ peer = "open" /\ unsent # <<>>
    /\ net' = Append(net, Head(unsent)) /\ unsent' = Tail(unsent)
    /\ UNCHANGED <<ssl, request, peer, buffer, chunk, outcome, headers>>

ClientLeaves ==
    /\ peer = "open" /\ peer' \in {"closed", "reset"}
    /\ UNCHANGED <<ssl, request, unsent, net, buffer, chunk, outcome, headers>>

-----------------------------------------------------------------------------
Server == (\E k \in 1..Len(net) : Read(k)) \/ ReadEof \/ ReadFails
Next == Server \/ ClientWrite \/ ClientLeaves

Spec == Init /\ [][Next]_vars

\* The thread runs when there is something to read, and a client that has
\* begun writes its whole request, unless it leaves.
FairSpec == Spec /\ WF_vars(Server) /\ WF_vars(ClientWrite)

-----------------------------------------------------------------------------
(* Properties. *)

Stream == FlattenSeq(request)

\* The empty line of a whole request begins behind this byte's line end.
EmptyLine(b) == IndexFirstSubSeq(CRLF \o CRLF, b)

\* The reference for the parser: the request line is what comes before the first
\* line end, and the header lines are counted by the line ends between it and
\* the empty line.
RequestLine(b) == SubSeq(b, 1, IndexFirstSubSeq(CRLF, b) - 1)
HeaderLines(b) ==
    Cardinality({i \in 1..EmptyLine(b) : b[i] = "r" /\ b[i + 1] = "n"}) - 1

\* A request as sendRequest and sendRequestFd write it: one line a segment.  It
\* begins with three words, and the buffer has room for it and its empty line.
OwnRequest(r) ==
    LET stream == FlattenSeq(r)
    IN  /\ \A i \in DOMAIN r : IsSuffix(CRLF, r[i])
        /\ Whole(stream) /\ EmptyLine(stream) + 3 <= dataMax
        /\ WordCount(RequestLine(stream)) >= 3

\* Nothing but empty lines follows the first one.
NoBody(r) == \A i, j \in DOMAIN r : i < j /\ r[i] = CRLF => r[j] = CRLF

\* A client that writes as sendRequest and sendRequestFd do is understood,
\* however its segments are merged and whatever follows: the request is parsed
\* with every header line, never answered before its end.
OwnClientUnderstood ==
    outcome # "none" /\ peer = "open" /\ OwnRequest(request) =>
        outcome = "parsed" /\ headers = HeaderLines(Stream)

\* And its request is always recognised as complete, if nothing follows.
OwnClientServed == OwnRequest(request) /\ NoBody(request) ~> outcome # "none"

\* With any segmentation, the thread reads on although it has a request to its
\* end only when the last chunk had one or three bytes: the end of the request
\* was cut where the scan cannot see it.
MissesOnlyCutEnd ==
    outcome = "none" /\ IsSuffix(CRLF \o CRLF, buffer) => Len(chunk) \in {1, 3}

\* The thread stops before the end of a request only on a chunk that is exactly
\* a line end, when the buffer is full, or at end of file.
StopsEarlyOnlyOnBareLineEnd ==
    outcome \in {"parsed", "default", "crash"} /\ ~Whole(buffer) =>
        chunk = CRLF \/ Len(buffer) = dataMax \/ peer = "closed"

\* The copy of the request line overruns only if no line end was received at
\* all, and then the client has closed or filled the buffer: what the scan
\* accepts, the parser can copy.
OverrunOnlyWithoutLine ==
    outcome = "crash" => /\ CRLF \notin SubSeqs(buffer)
                         /\ peer = "closed" \/ Len(buffer) = dataMax

=============================================================================
