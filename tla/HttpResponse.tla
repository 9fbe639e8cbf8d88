---------------------------- MODULE HttpResponse ----------------------------
(***************************************************************************)
(* The HTTP server's side of an answer: ProtocolHttp::sendResponse with    *)
(* _GetBodySize, _SendBody and _ResponseError, IOSocket::putMessage and    *)
(* putClose, the closeSSL there and in ~SSLSocket, as a thread of          *)
(* server.cpp runs them; and a client that resumes a broken download with  *)
(* a Range request on a new connection.                                    *)
(*                                                                         *)
(* A byte of the document is its position in the file.  The file may grow  *)
(* or shrink between any two steps; the connection may break in any.       *)
(***************************************************************************)
EXTENDS Integers, Sequences

CONSTANTS
    IntMod,         \* 2^32: what %d writes into the low half of m_rangeStart
    SizeMod,        \* 2^64: size_t arithmetic wraps here
    MaxSize,        \* bound on the length of the document
    bufSize,        \* bytes _SendBody collects before it writes them
    Window,         \* bytes the kernel takes that the client has not read
    OptionLists,    \* Range headers of a first request, see below
    noNumber,       \* a Range header without a number where sscanf looks
    MaxTries        \* bound on the connections of one download

(***************************************************************************)
(* A line that contains "Range: bytes=" anywhere counts as a Range header, *)
(* but the number is read from its 14th character on.  It is represented   *)
(* by what "%d" finds there: an integer (negative for "bytes=-500") or     *)
(* noNumber.                                                               *)
(***************************************************************************)
ASSUME HttpResponseAssumption ==
    /\ IntMod \in Nat \ {0} /\ SizeMod \in Nat /\ MaxSize \in Nat
    /\ IntMod <= SizeMod /\ MaxSize < SizeMod
    /\ bufSize \in Nat \ {0} /\ Window \in Nat \ {0} /\ MaxTries \in Nat
    /\ noNumber \notin Int
    /\ OptionLists \subseteq Seq(Int \cup {noNumber})

VARIABLES
    target,         \* what the request path leads to, see Targets
    size,           \* length of the document now
    edited,         \* history: it changed since the download began
    options,        \* the request's Range headers
    pc,             \* where the thread is, see Stages
    bodySize,       \* the length _GetBodySize saw
    m_rangeStart,   \* ProtocolHttp::m_rangeStart
    head,           \* the answer's status code and Content-Length
    pos,            \* m_file's read position
    buf,            \* _SendBody's buffer; offset is its length
    dataWritten,    \* bytes of buf that putMessage has written
    wire,           \* the body bytes written on this connection
    received,       \* how many of them the client has read
    m_ssl,          \* the connection's SSL, see closeSSL
    broken,         \* the connection has been reset
    bye,            \* the client has sent its close_notify
    kept,           \* bytes the client has from earlier connections
    tries           \* connections so far

thread == <<pc, bodySize, m_rangeStart, head, pos, buf, dataWritten, wire>>
client == <<options, received, kept, tries>>
link == <<m_ssl, broken, bye>>
vars == <<target, size, edited, thread, client, link>>

(***************************************************************************)
(* file   a regular file under the document root                           *)
(* dir    a directory: it opens, has some size and cannot be read          *)
(* none   nothing: every path with a query except "?..." included, since   *)
(*        substr(uriPos - 1) keeps the query and not the path              *)
(* bare   a path that begins with "?": substr(-1) throws out_of_range      *)
(***************************************************************************)
Targets == {"file", "dir", "none", "bare"}

\* "leave" and "unwind": the thread's objects are destroyed, after a return and
\* after an exception; "done" and "dropped": they are gone.
Stages == {"size", "head", "read", "flush", "last", "close", "error", "leave", "unwind",
           "done", "dropped"}
Over == pc \in {"done", "dropped"}

noHead == [code |-> 0, length |-> 0]

TypeOK ==
    /\ target \in Targets
    /\ size \in 0..MaxSize
    /\ edited \in BOOLEAN
    /\ options \in Seq(Int \cup {noNumber})
    /\ pc \in Stages
    /\ bodySize \in 0..MaxSize
    /\ m_rangeStart \in 0..IntMod - 1
    /\ head \in [code : {0, 200, 206, 404}, length : 0..SizeMod - 1]
    /\ pos \in Nat
    /\ buf \in Seq(Nat) /\ Len(buf) <= bufSize
    /\ dataWritten \in 0..Len(buf)
    /\ wire \in Seq(Nat)
    /\ received \in 0..Len(wire)
    /\ m_ssl \in {"none", "open", "sent", "freed"}
    /\ broken \in BOOLEAN /\ bye \in BOOLEAN
    /\ kept \in Seq(Nat)
    /\ tries \in Nat

Init ==
    /\ target \in Targets /\ size \in 0..MaxSize /\ edited = FALSE
    /\ options \in OptionLists
    /\ pc = "size" /\ bodySize = 0 /\ m_rangeStart = 0 /\ head = noHead
    /\ pos = 0 /\ buf = <<>> /\ dataWritten = 0 /\ wire = <<>>
    /\ m_ssl \in {"none", "open"} /\ broken = FALSE /\ bye = FALSE
    /\ received = 0
    /\ kept = <<>> /\ tries = 1

-----------------------------------------------------------------------------
(* The size of the body and the header. *)

\* What the sscanf calls leave in m_rangeStart: the last number, cut to the
\* width of an int and never sign-extended, as the upper half stays 0.
RangeStart(opts) ==
    LET numbers == {i \in DOMAIN opts : opts[i] # noNumber}
        last == CHOOSE i \in numbers : \A j \in numbers : j <= i
    IN  IF numbers = {} THEN 0 ELSE opts[last] % IntMod

\* a - b in size_t.
SizeSub(a, b) == IF b <= a THEN a - b ELSE SizeMod + a - b

\* Mutant: the whole size although a range was asked for.
WholeLength == bodySize

\* Content-Length.
ContentLength == SizeSub(bodySize, m_rangeStart)

\* _GetBodySize.  A directory's size is whatever its file system says.
_GetBodySize ==
    /\ pc = "size"
    /\ IF target = "bare"
       THEN pc' = "unwind" /\ UNCHANGED <<bodySize, m_rangeStart>>
       ELSE /\ m_rangeStart' = RangeStart(options)
            /\ CASE target = "file" -> pc' = "head" /\ bodySize' = size
                 [] target = "dir"  -> pc' = "head" /\ bodySize' \in 0..MaxSize
                 [] OTHER           -> pc' = "error" /\ UNCHANGED bodySize
    /\ UNCHANGED <<target, size, edited, client, link, head, pos, buf, dataWritten, wire>>

\* sendResponse up to _SendBody, which begins with seekg(m_rangeStart).  A
\* putMessage that throws ends the thread.
SendHeader ==
    /\ pc = "head"
    /\ IF broken
       THEN pc' = "unwind" /\ UNCHANGED <<head, pos>>
       ELSE /\ pc' = "read"
            /\ head' = [code |-> IF options = <<>> THEN 200 ELSE 206,
                        length |-> ContentLength]
            /\ pos' = m_rangeStart
    /\ UNCHANGED <<target, size, edited, client, link, bodySize, m_rangeStart, buf,
                   dataWritten, wire>>

\* _ResponseError(404): header and text; there is no putClose behind it.
_ResponseError ==
    /\ pc = "error"
    /\ IF broken
       THEN pc' = "unwind" /\ UNCHANGED head
       ELSE pc' = "leave" /\ head' = [code |-> 404, length |-> 0]
    /\ UNCHANGED <<target, size, edited, client, link, bodySize, m_rangeStart, pos,
                   buf, dataWritten, wire>>

-----------------------------------------------------------------------------
(* The body. *)

\* Mutant: the bytes behind the last full buffer are not written.
DropsRemainder ==
    /\ pc = "read" /\ (target = "dir" \/ pos >= size)
    /\ pc' = "close"
    /\ UNCHANGED <<target, size, edited, client, link, bodySize, m_rangeStart, head,
                   pos, buf, dataWritten, wire>>

\* while (m_file.get(t)): one more byte; a full buffer is written.
ReadByte ==
    /\ pc = "read" /\ target = "file" /\ pos < size
    /\ buf' = Append(buf, pos)
    /\ pos' = pos + 1
    /\ pc' = IF Len(buf') = bufSize THEN "flush" ELSE "read"
    /\ UNCHANGED <<target, size, edited, client, link, bodySize, m_rangeStart, head,
                   dataWritten, wire>>

\* The end of the file, or nothing that can be read: the rest is written.
EndOfFile ==
    /\ pc = "read" /\ (target = "dir" \/ pos >= size)
    /\ pc' = IF buf = <<>> THEN "close" ELSE "last"
    /\ UNCHANGED <<target, size, edited, client, link, bodySize, m_rangeStart, head,
                   pos, buf, dataWritten, wire>>

\* Mutant: the loop goes on behind the whole buffer after a partial write.
putMessageOnce(k) ==
    /\ pc \in {"flush", "last"} /\ ~broken
    /\ k \in 1..Len(buf) - dataWritten
    /\ Len(wire) + k - received <= Window
    /\ wire' = wire \o SubSeq(buf, dataWritten + 1, dataWritten + k)
    /\ pc' = IF pc = "last" THEN "close" ELSE "read"
    /\ buf' = <<>> /\ dataWritten' = 0
    /\ UNCHANGED <<target, size, edited, client, link, bodySize, m_rangeStart, head, pos>>

\* One write or SSL_write of putMessage's loop: any part of what is left.
\* When all is written the buffer starts anew.
putMessage(k) ==
    /\ pc \in {"flush", "last"} /\ ~broken
    /\ k \in 1..Len(buf) - dataWritten
    /\ Len(wire) + k - received <= Window
    /\ wire' = wire \o SubSeq(buf, dataWritten + 1, dataWritten + k)
    /\ IF dataWritten + k < Len(buf)
       THEN dataWritten' = dataWritten + k /\ UNCHANGED <<pc, buf>>
       ELSE /\ pc' = IF pc = "last" THEN "close" ELSE "read"
            /\ buf' = <<>> /\ dataWritten' = 0
    /\ UNCHANGED <<target, size, edited, client, link, bodySize, m_rangeStart, head, pos>>

\* Mutant: a failed write is tried again.
RetriesForEver ==
    /\ pc \in {"flush", "last"} /\ broken
    /\ UNCHANGED vars

\* A write that fails: _SendBody swallows the exception and returns 200.
putMessageThrows ==
    /\ pc \in {"flush", "last"} /\ broken
    /\ pc' = "close"
    /\ UNCHANGED <<target, size, edited, client, link, bodySize, m_rangeStart, head,
                   pos, buf, dataWritten, wire>>

-----------------------------------------------------------------------------
(* The end. *)

\* closeSSL, called by putClose and again by ~SSLSocket: SSL_shutdown sends the
\* close_notify and is repeated until the client's has come, or fails; then the
\* SSL is freed.  Without TLS, or freed already, there is nothing to do.
closeSSL ==
    /\ pc \in {"close", "leave", "unwind"}
    /\ \/ m_ssl = "open" /\ m_ssl' = IF broken THEN "freed" ELSE "sent"
       \/ m_ssl = "sent" /\ (broken \/ bye) /\ m_ssl' = "freed"
    /\ UNCHANGED <<target, size, edited, client, broken, bye, thread>>

SslClosed == m_ssl \in {"none", "freed"}

\* The shutdown of putClose.  On a broken connection it throws, into the catch
\* of the thread.
putClose ==
    /\ pc = "close" /\ SslClosed
    /\ pc' \in IF broken THEN {"leave", "unwind"} ELSE {"leave"}
    /\ UNCHANGED <<target, size, edited, client, link, bodySize, m_rangeStart, head,
                   pos, buf, dataWritten, wire>>

\* The lambda's parameter is destroyed: the socket is closed.
EndThread ==
    /\ pc \in {"leave", "unwind"} /\ SslClosed
    /\ pc' = IF pc = "leave" THEN "done" ELSE "dropped"
    /\ UNCHANGED <<target, size, edited, client, link, bodySize, m_rangeStart, head,
                   pos, buf, dataWritten, wire>>

Server ==
    \/ _GetBodySize \/ SendHeader \/ _ResponseError
    \/ ReadByte \/ EndOfFile
    \/ \E k \in 1..bufSize : putMessage(k)
    \/ putMessageThrows \/ closeSSL \/ putClose \/ EndThread

-----------------------------------------------------------------------------
(* The client, the network and whoever edits the document. *)

\* The client has all that was announced.
Complete == head.code \in {200, 206} /\ received = head.length

ClientReads ==
    /\ received < Len(wire)
    /\ received' \in received + 1..Len(wire)
    /\ UNCHANGED <<target, size, edited, thread, options, kept, tries, link>>

\* A client takes its leave of a TLS connection.  Nothing makes it do so.  (The
\* thread looks for a goodbye only in closeSSL: an earlier one would be found by
\* the second SSL_shutdown.)
ClientSaysGoodbye ==
    /\ m_ssl = "sent" /\ ~bye
    /\ bye' = TRUE
    /\ UNCHANGED <<target, size, edited, thread, client, m_ssl, broken>>

\* A reset destroys what the client has not read yet.
ConnectionBreaks ==
    /\ ~broken /\ ~Over
    /\ broken' = TRUE
    /\ UNCHANGED <<target, size, edited, thread, client, m_ssl, bye>>

\* A client that began without a Range header asks for what it lacks, on a new
\* connection: a new ProtocolHttp in a new thread.
Resume ==
    /\ tries < MaxTries
    /\ Over /\ (broken \/ received = Len(wire))
    /\ tries = 1 => options = <<>>
    /\ head.code # 404 /\ ~Complete
    /\ kept' = kept \o SubSeq(wire, 1, received)
    /\ options' = <<Len(kept')>>
    /\ tries' = tries + 1
    /\ pc' = "size" /\ bodySize' = 0 /\ m_rangeStart' = 0 /\ head' = noHead
    /\ pos' = 0 /\ buf' = <<>> /\ dataWritten' = 0 /\ wire' = <<>>
    /\ m_ssl' = IF m_ssl = "none" THEN "none" ELSE "open"
    /\ received' = 0 /\ broken' = FALSE /\ bye' = FALSE
    /\ UNCHANGED <<target, size, edited>>

\* While the answer is made; a later edit is one at the start of the next try.
Edit ==
    /\ target = "file" /\ pc \in {"size", "head", "read", "flush", "last"}
    /\ size' \in 0..MaxSize /\ size' # size
    /\ edited' = TRUE
    /\ UNCHANGED <<target, thread, client, link>>

-----------------------------------------------------------------------------
Next == Server \/ ClientReads \/ ClientSaysGoodbye \/ ConnectionBreaks \/ Resume \/ Edit

Spec == Init /\ [][Next]_vars

\* The thread runs, and the client reads what has arrived.
FairSpec == Spec /\ WF_vars(Server) /\ WF_vars(ClientReads)

-----------------------------------------------------------------------------
(* Properties. *)

\* A finished body that is not as long as the announced Content-Length has one
\* of four reasons: the connection broke, the file changed, the range starts
\* behind the end of the file (the subtraction has wrapped), or the target is
\* a directory.  Buffering, partial writes and the swallowed exception add none.
LengthKept ==
    pc \in {"close", "leave", "done"} /\ head.code \in {200, 206} /\ Len(wire) # head.length =>
        broken \/ edited \/ m_rangeStart > bodySize \/ target = "dir"

\* Never more bytes than announced, unless the file grew meanwhile, even when
\* the subtraction has wrapped: the client's next message is never preceded by
\* stray bytes.
NeverBeyondAnnounced == Len(wire) > head.length => edited

\* However often a download is broken off and resumed, and however the file's
\* length changes, its first 2^32 bytes are the file's first bytes in order.
\* (Behind that a resumed download starts over at its offset modulo 2^32.)
ResumedInOrder ==
    tries > 1 \/ options = <<>> =>
        LET got == kept \o wire
        IN  \A i \in 1..Len(got) : i <= IntMod => got[i] = i - 1

\* When the client of an unchanged file shorter than 2^32 bytes has all that
\* the last answer announced, it has the whole file.
CompleteIsWhole ==
    /\ Complete /\ ~edited /\ target = "file" /\ size <= IntMod
    /\ tries > 1 \/ options = <<>>
    => Len(kept) + received = size

\* Every answer comes to an end, whatever happens to the connection, except for
\* one wait: over TLS closeSSL waits for the close_notify of a client that keeps
\* its connection and does not send one.
WaitsForGoodbye == m_ssl = "sent" /\ ~broken /\ ~bye
AnswerEnds == ~Over ~> Over \/ WaitsForGoodbye
=============================================================================
