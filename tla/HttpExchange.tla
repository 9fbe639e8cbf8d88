---------------------------- MODULE HttpExchange ----------------------------
(***************************************************************************)
(* client.cpp and a thread of server.cpp on one TCP connection: the client *)
(* sends the lines of a file (sendRequestFd) and reads to the end of the   *)
(* stream (recvMessage); the thread reads a request, answers and closes.   *)
(*                                                                         *)
(* The client's stream is fixed by its file, so the state counts bytes:    *)
(* the first `dataRead' of the first `sent' bytes have been read, the rest *)
(* is in the kernels.  A read may end at any byte.  The answer is a number *)
(* of bytes; HttpResponse has what they are.                               *)
(***************************************************************************)
EXTENDS HttpHeader

CONSTANTS
    Requests,   \* what sendRequestFd writes for the files, see Written
    lineMax,    \* characters getline stores of a line (2047)
    dataMax,    \* bytes recvRequest asks getMessage for (2047)
    Answers,    \* lengths of the server's answers
    NetMax,     \* bytes on their way to the server that the kernels hold
    Window      \* bytes on their way to the client that the kernels hold

ASSUME HttpExchangeAssumption ==
    /\ lineMax \in Nat \ {0} /\ dataMax \in Nat \ {0} /\ dataMax < lineMax + 2
    /\ \A r \in Requests : /\ r.bytes \in Seq(Bytes) /\ r.bytes # <<>>
                           /\ r.endless \in BOOLEAN
                           /\ r.endless => Len(r.bytes) >= lineMax + 2
    /\ Answers \subseteq Nat \ {0}
    /\ NetMax \in Nat \ {0} /\ Window \in Nat \ {0}

\* A file that cannot be opened: nothing is written.
noFile == [bytes |-> <<>>, endless |-> FALSE]

VARIABLES
    request,    \* what the file the user named makes the client write
    cpc,        \* client: "connect", "send", "recv", "sleep", "done", "killed"
    sent,       \* bytes the client has written
    spc,        \* thread: "none", "recv", "answer", "close", "end"
    dataRead,   \* bytes the thread has read
    get,        \* bytes of its last read
    answer,     \* bytes of its answer
    written,    \* how many of them it has written
    received,   \* how many of them the client has read
    lost,       \* how many of them a reset has thrown away
    conn        \* server to client: "open", "fin" or "reset"

vars == <<request, cpc, sent, spc, dataRead, get, answer, written, received, lost, conn>>

TypeOK ==
    /\ request \in Requests \cup {noFile}
    /\ cpc \in {"connect", "send", "recv", "sleep", "done", "killed"}
    /\ sent \in Nat /\ dataRead \in 0..dataMax /\ get \in 0..dataRead
    /\ spc \in {"none", "recv", "answer", "close", "end"}
    /\ answer \in Answers
    /\ written \in 0..answer /\ received \in 0..written /\ lost \in 0..written - received
    /\ conn \in {"open", "fin", "reset"}

Init ==
    /\ request \in Requests \cup {noFile} /\ answer \in Answers
    /\ cpc = "connect" /\ sent = 0
    /\ spc = "none" /\ dataRead = 0 /\ get = 0
    /\ written = 0 /\ received = 0 /\ lost = 0 /\ conn = "open"

-----------------------------------------------------------------------------
(* What the client writes. *)

\* sendRequestFd on a file of these lines.  Of the first line that is longer
\* getline stores lineMax characters and sets failbit, but not eofbit: every
\* further call leaves an empty string, and the loop sends line ends for ever.
Written(lines) ==
    LET long == {i \in DOMAIN lines : Len(lines[i]) > lineMax}
        good == IF long = {} THEN lines
                ELSE Append(SubSeq(lines, 1, Min(long) - 1),
                            SubSeq(lines[Min(long)], 1, lineMax))
    IN  [bytes |-> FlattenSeq(sendRequestFd(good)), endless |-> long # {}]

\* The first n bytes of the client's stream.
Stream(n) ==
    [i \in 1..n |-> IF i <= Len(request.bytes) THEN request.bytes[i]
                    ELSE IF (i - Len(request.bytes)) % 2 = 1 THEN "r" ELSE "n"]

-----------------------------------------------------------------------------
(* The client. *)

\* ConnectSocket, which throws or starts a thread at the server.  The result of
\* sendRequestFd is not looked at: without a file the client goes on to read.
Connect ==
    /\ cpc = "connect"
    /\ \/ cpc' = "done" /\ UNCHANGED spc
       \/ /\ cpc' = IF request = noFile THEN "recv" ELSE "send"
          /\ spc' = "recv"
    /\ UNCHANGED <<request, sent, dataRead, get, answer, written, received, lost, conn>>

\* A reset may overtake any part of the answer that is still on its way.
Reset == conn' = "reset" /\ lost' \in lost..written - received

\* A byte of a putMessage of sendRequestFd, which waits while the kernels have
\* no room.  Bytes for a closed socket are answered with a reset.
sendRequestFdByte ==
    /\ cpc = "send" /\ conn # "reset"
    /\ spc = "end" \/ sent - dataRead < NetMax
    /\ sent' = sent + 1
    /\ cpc' = IF sent' = Len(request.bytes) /\ ~request.endless THEN "recv" ELSE "send"
    /\ IF spc = "end" THEN Reset ELSE UNCHANGED <<conn, lost>>
    /\ UNCHANGED <<request, spc, dataRead, get, answer, written, received>>

\* A write after a reset: the exception ends main, or SIGPIPE does, which
\* client.cpp does not ignore.
SendFails ==
    /\ cpc = "send" /\ conn = "reset"
    /\ cpc' \in {"done", "killed"}
    /\ UNCHANGED <<request, sent, spc, dataRead, get, answer, written, received, lost, conn>>

\* recvMessage prints what arrives ...
recvMessage ==
    /\ cpc = "recv" /\ received < written - lost
    /\ received' = received + 1
    /\ UNCHANGED <<request, cpc, sent, spc, dataRead, get, answer, written, lost, conn>>

\* ... until the end of the stream, or throws after a reset.
RecvEnds ==
    /\ cpc = "recv" /\ received = written - lost /\ conn # "open"
    /\ cpc' = IF conn = "fin" THEN "sleep" ELSE "done"
    /\ UNCHANGED <<request, sent, spc, dataRead, get, answer, written, received, lost, conn>>

\* sleep(10), and the end of the process.
SleepEnds ==
    /\ cpc = "sleep" /\ cpc' = "done"
    /\ UNCHANGED <<request, sent, spc, dataRead, get, answer, written, received, lost, conn>>

-----------------------------------------------------------------------------
(* The thread. *)

buffer == Stream(dataRead)
chunk == SubSeq(buffer, dataRead - get + 1, dataRead)

\* Mutant: the last byte of the buffer is not used.
ReadOneLess(k) ==
    /\ spc = "recv"
    /\ k <= sent - dataRead /\ k <= dataMax - 1 - dataRead
    /\ dataRead' = dataRead + k /\ get' = k
    /\ UNCHANGED <<request, cpc, sent, answer, written, received, lost, conn>>
    /\ spc' = IF ~(scanForEnd(chunk') \/ dataRead' = dataMax - 1) THEN "recv"
              ELSE IF _ParseRequestHeader(buffer').outcome \in {"parsed", "default"}
              THEN "answer" ELSE "close"

\* One read of k bytes, any number that has arrived and for which the buffer has
\* room.  The loop ends when the scan of the chunk says so or the buffer is full.
\* A request without a line end crashes the server, and one that is cut behind
\* its request line is dropped; both close the connection without an answer.
Read(k) ==
    /\ spc = "recv"
    /\ k <= sent - dataRead /\ k <= dataMax - dataRead
    /\ dataRead' = dataRead + k /\ get' = k
    /\ UNCHANGED <<request, cpc, sent, answer, written, received, lost, conn>>
    /\ spc' = IF ~(scanForEnd(chunk') \/ dataRead' = dataMax) THEN "recv"
              ELSE IF _ParseRequestHeader(buffer').outcome \in {"parsed", "default"}
              THEN "answer" ELSE "close"

\* A byte of the putMessages of sendResponse or _ResponseError, which wait while
\* the client's window is full.
sendResponseByte ==
    /\ spc = "answer" /\ written < answer
    /\ written - received < Window
    /\ written' = written + 1
    /\ UNCHANGED <<request, cpc, sent, spc, dataRead, get, answer, received, lost, conn>>

\* Behind the answer putClose ends the stream; _ResponseError has no putClose.
putClose ==
    /\ spc = "answer" /\ written = answer /\ spc' = "close"
    /\ conn' \in {"open", "fin"}
    /\ UNCHANGED <<request, cpc, sent, dataRead, get, answer, written, received, lost>>

\* Mutant: SO_LINGER with timeout 0: every close is a reset.
CloseAlwaysResets ==
    /\ spc = "close" /\ spc' = "end"
    /\ Reset
    /\ UNCHANGED <<request, cpc, sent, dataRead, get, answer, written, received>>

\* Mutant: the thread waits for the client to close first.
CloseAfterClient ==
    /\ spc = "close" /\ cpc \in {"done", "killed"} /\ spc' = "end"
    /\ conn' = "fin" /\ UNCHANGED lost
    /\ UNCHANGED <<request, cpc, sent, dataRead, get, answer, written, received>>

\* The IOSocket of the thread is closed (a crash closes it as well).  Unread
\* input turns the end of the stream into a reset.
Close ==
    /\ spc = "close" /\ spc' = "end"
    /\ IF sent = dataRead THEN conn' = "fin" /\ UNCHANGED lost ELSE Reset
    /\ UNCHANGED <<request, cpc, sent, dataRead, get, answer, written, received>>

-----------------------------------------------------------------------------
Client == Connect \/ sendRequestFdByte \/ SendFails \/ recvMessage \/ RecvEnds \/ SleepEnds
Server == (\E k \in 1..NetMax : Read(k)) \/ sendResponseByte \/ putClose \/ Close
Next == Client \/ Server

Spec == Init /\ [][Next]_vars

\* Two processes and a network that delivers.
FairSpec == Spec /\ WF_vars(Client) /\ WF_vars(Server)

-----------------------------------------------------------------------------
(* Properties. *)

\* Client and thread are blocked in a write, each waiting for the other to read.
BothBlocked ==
    /\ cpc = "send" /\ sent - dataRead = NetMax
    /\ spc = "answer" /\ written < answer /\ written - received = Window

\* The client's stream ends in an empty line.
EndsInEmptyLine == request.bytes = CRLF \/ IsSuffix(CRLF \o CRLF, request.bytes)

\* And that is its first one: a request as recvRequest wants it.
WellFormed ==
    /\ request # noFile /\ ~request.endless /\ EndsInEmptyLine
    /\ ~Whole(Front(request.bytes))

\* The thread stopped on a read that was just a line end, without an empty line.
BareLineEnd == chunk = CRLF /\ ~Whole(buffer)

\* What can make the thread stop before it has read all that the client sends.
LeavesUnread ==
    \/ Whole(Front(request.bytes))
    \/ Len(request.bytes) > dataMax
    \/ BareLineEnd

\* Client and server wait for each other in a read only if the file could not be
\* opened (what sendRequestFd returns is ignored), if its last line is not empty,
\* or if the last read cut the line ends that the scan looks for.
MutualWaitOnlyWithoutEnd ==
    cpc = "recv" /\ spc = "recv" /\ sent = dataRead =>
        request = noFile \/ ~EndsInEmptyLine \/ get \in {1, 3}

\* A part of the answer is lost, or the client killed by SIGPIPE, only if the
\* thread stopped before the end of the client's stream: the file goes on behind
\* its first empty line or beyond the buffer, or a read was a bare line end.
LostOnlyIfUnread == lost > 0 \/ cpc = "killed" => LeavesUnread

\* Both block in a write only if, besides, the answer exceeds the client's
\* window and what is left of the file exceeds the server's.
BlockedOnlyIfUnread ==
    BothBlocked =>
        /\ LeavesUnread /\ answer > Window
        /\ request.endless \/ Len(request.bytes) > dataRead + NetMax

\* A well-formed file that fits into the buffer gets its answer, to the last byte
\* and the end of stream, unless a read cut it at its line ends.
WellFormedServed ==
    WellFormed /\ Len(request.bytes) <= dataMax ~>
        \/ received = answer /\ conn = "fin"
        \/ cpc = "done" /\ spc = "none"
        \/ spc = "recv" /\ dataRead = Len(request.bytes) /\ get \in {1, 3}
        \/ spc # "recv" /\ BareLineEnd

\* sendRequestFd does not send for ever: even the endless empty lines behind a
\* line of more than 2047 characters end, because the server gives up first,
\* unless both are blocked.
SendingEnds == cpc = "send" ~> cpc # "send" \/ BothBlocked
=============================================================================
