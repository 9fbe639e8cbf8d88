------------------------- MODULE HttpExchangeProofs -------------------------
(***************************************************************************)
(* client.cpp and server.cpp on one connection, proved for every set of    *)
(* files, every size of the buffers and of the answer, and reads that end  *)
(* at any byte.                                                            *)
(***************************************************************************)
EXTENDS HttpExchange, SequenceTheorems, TLAPS

\* The bytes of the file that the thread has not asked for.
Unread == request.endless \/ dataRead < Len(request.bytes)

\* Where the client is in its file.
ClientInv ==
    /\ dataRead <= sent
    /\ ~request.endless => sent <= Len(request.bytes)
    /\ cpc = "send" /\ ~request.endless => sent < Len(request.bytes)
    /\ cpc = "recv" => ~request.endless /\ sent = Len(request.bytes)
    /\ cpc = "connect" => spc = "none"

\* While the thread reads, nothing has come back, and no scan has hit.
ReadingInv ==
    /\ spc = "none" => cpc \in {"connect", "done"} /\ sent = 0
    /\ spc \in {"none", "recv"} => conn = "open" /\ lost = 0 /\ cpc # "killed"
    /\ spc \in {"none", "recv"} => written = 0
    /\ spc = "recv" => dataRead < dataMax /\ ~scanForEnd(chunk)
    /\ get = 0 => dataRead = 0

\* The thread has left the loop for one of its two reasons.
StopInv == spc \in {"answer", "close", "end"} => scanForEnd(chunk) \/ dataRead = dataMax

\* Only input that nobody reads makes a reset, and only a reset does harm.
ResetInv ==
    /\ conn = "reset" => Unread /\ spc = "end"
    /\ lost > 0 \/ cpc = "killed" => conn = "reset"

\* The inductive invariant.
ExchangeInv == TypeOK /\ ClientInv /\ ReadingInv /\ StopInv /\ ResetInv

-----------------------------------------------------------------------------
(* The stream, the buffer and the last chunk. *)

\* What the client writes is a sequence of bytes; only a file that cannot be
\* opened makes it empty, and an endless one exceeds the buffer.
LEMMA RequestTypes ==
  ASSUME TypeOK
  PROVE  /\ request.bytes \in Seq(Bytes) /\ Len(request.bytes) \in Nat
         /\ request.endless \in BOOLEAN
         /\ request # noFile => Len(request.bytes) > 0
         /\ request = noFile => Len(request.bytes) = 0 /\ ~request.endless
         /\ request.endless => Len(request.bytes) > dataMax
<1>1. CASE request = noFile
  BY <1>1 DEF noFile
<1>2. CASE request \in Requests
  <2>1. /\ request.bytes \in Seq(Bytes) /\ request.bytes # <<>>
        /\ request.endless \in BOOLEAN
        /\ request.endless => Len(request.bytes) >= lineMax + 2
    BY <1>2, HttpExchangeAssumption
  <2>2. Len(request.bytes) \in Nat /\ Len(request.bytes) # 0
    BY <2>1
  <2>3. dataMax < lineMax + 2 /\ dataMax \in Nat /\ lineMax \in Nat
    BY HttpExchangeAssumption
  <2>4. request.bytes # noFile.bytes
    BY <2>1 DEF noFile
  <2> QED BY <2>1, <2>2, <2>3, <2>4
<1> QED BY <1>1, <1>2 DEF TypeOK

\* The buffer is the stream as far as it was read, the chunk its last bytes.
LEMMA BufferTypes ==
  ASSUME TypeOK
  PROVE  /\ buffer \in Seq(Bytes) /\ Len(buffer) = dataRead
         /\ \A i \in 1..dataRead : i <= Len(request.bytes) => buffer[i] = request.bytes[i]
         /\ chunk \in Seq(Bytes) /\ Len(chunk) = get
         /\ \A j \in 1..get : chunk[j] = buffer[(dataRead - get) + j]
<1> DEFINE b == request.bytes
           n == dataRead
           g == get
<1>1. b \in Seq(Bytes) /\ Len(b) \in Nat
  BY RequestTypes
<1>2. n \in Nat /\ g \in Nat /\ g <= n
  BY HttpExchangeAssumption DEF TypeOK
<1>3. buffer = [i \in 1..n |-> IF i <= Len(b) THEN b[i]
                               ELSE IF (i - Len(b)) % 2 = 1 THEN "r" ELSE "n"]
  BY DEF buffer, Stream
<1>4. chunk = SubSeq(buffer, n - g + 1, n)
  BY DEF chunk
<1> HIDE DEF b, n, g
<1>5. ASSUME NEW i \in 1..n
      PROVE  buffer[i] \in Bytes /\ (i <= Len(b) => buffer[i] = b[i])
  <2>1. CASE i <= Len(b)
    <3>1. i \in 1..Len(b)
      BY <1>1, <1>2, <2>1
    <3>2. b[i] \in Bytes
      BY <1>1, <3>1
    <3> QED BY <1>3, <2>1, <3>2
  <2>2. CASE ~(i <= Len(b))
    <3>1. buffer[i] \in {"r", "n"}
      BY <1>3, <2>2
    <3> QED BY <2>2, <3>1 DEF Bytes
  <2> QED BY <2>1, <2>2
<1>6. buffer \in Seq(Bytes) /\ Len(buffer) = n
  <2>1. DOMAIN buffer = 1..n
    BY <1>3
  <2>2. buffer = [i \in 1..n |-> buffer[i]]
    BY <1>3
  <2> HIDE DEF buffer
  <2>3. buffer \in [1..n -> Bytes]
    BY <1>5, <2>2
  <2> QED BY <1>2, <2>3
<1> HIDE DEF buffer, chunk
<1>7. /\ chunk \in Seq(Bytes) /\ Len(chunk) = g
      /\ \A j \in 1..g : chunk[j] = buffer[(n - g) + j]
  BY <1>2, <1>4, <1>6
<1> QED BY <1>5, <1>6, <1>7 DEF b, n, g

\* A suffix, element by element.
LEMMA SuffixAt ==
  ASSUME NEW S, NEW s \in Seq(S), NEW t \in Seq(S)
  PROVE  IsSuffix(s, t) <=>
           /\ Len(s) <= Len(t)
           /\ \A i \in 1..Len(s) : s[i] = t[Len(t) - Len(s) + i]
<1> DEFINE p == Reverse(s)
           q == Reverse(t)
<1>1. Len(s) \in Nat /\ Len(t) \in Nat
  OBVIOUS
<1>2. /\ p \in Seq(S) /\ Len(p) = Len(s) /\ \A i \in 1..Len(s) : p[i] = s[Len(s) - i + 1]
  BY <1>1 DEF Reverse
<1>3. /\ q \in Seq(S) /\ Len(q) = Len(t) /\ \A i \in 1..Len(t) : q[i] = t[Len(t) - i + 1]
  BY <1>1 DEF Reverse
<1>4. IsSuffix(s, t) <=> Len(p) <= Len(q) /\ SubSeq(p, 1, Len(p)) = SubSeq(q, 1, Len(p))
  BY DEF IsSuffix, IsPrefix
<1> HIDE DEF p, q
<1>5. ASSUME Len(s) <= Len(t)
      PROVE  SubSeq(p, 1, Len(p)) = SubSeq(q, 1, Len(p)) <=>
                \A i \in 1..Len(s) : p[i] = q[i]
  BY <1>1, <1>2, <1>3, <1>5
<1>6. ASSUME Len(s) <= Len(t)
      PROVE  (\A i \in 1..Len(s) : p[i] = q[i]) <=>
                \A i \in 1..Len(s) : s[i] = t[Len(t) - Len(s) + i]
  <2>1. ASSUME \A i \in 1..Len(s) : p[i] = q[i], NEW i \in 1..Len(s)
        PROVE  s[i] = t[Len(t) - Len(s) + i]
    <3> DEFINE k == Len(s) - i + 1
    <3>1. k \in 1..Len(s) /\ k \in 1..Len(t) /\ Len(s) - k + 1 = i
          /\ Len(t) - k + 1 = Len(t) - Len(s) + i
      BY <1>1, <1>6
    <3> HIDE DEF k
    <3>2. p[k] = s[Len(s) - k + 1] /\ q[k] = t[Len(t) - k + 1] /\ p[k] = q[k]
      BY <1>2, <1>3, <2>1, <3>1
    <3> QED BY <3>1, <3>2
  <2>2. ASSUME \A i \in 1..Len(s) : s[i] = t[Len(t) - Len(s) + i], NEW i \in 1..Len(s)
        PROVE  p[i] = q[i]
    <3> DEFINE k == Len(s) - i + 1
    <3>1. k \in 1..Len(s) /\ i \in 1..Len(t) /\ Len(t) - i + 1 = Len(t) - Len(s) + k
      BY <1>1, <1>6
    <3>2. p[i] = s[k] /\ q[i] = t[Len(t) - i + 1]
      BY <1>2, <1>3, <3>1
    <3> HIDE DEF k
    <3> QED BY <2>2, <3>1, <3>2
  <2> QED BY <2>1, <2>2
<1> QED BY <1>2, <1>3, <1>4, <1>5, <1>6

\* What the line ends are made of.
LEMMA LineEnds ==
  /\ CRLF \in Seq(Bytes) /\ Len(CRLF) = 2 /\ CRLF[1] = "r" /\ CRLF[2] = "n"
  /\ CRLF \o CRLF \in Seq(Bytes) /\ Len(CRLF \o CRLF) = 4
  /\ (CRLF \o CRLF)[1] = "r" /\ (CRLF \o CRLF)[2] = "n"
  /\ (CRLF \o CRLF)[3] = "r" /\ (CRLF \o CRLF)[4] = "n"
  BY DEF CRLF, Bytes

\* An empty line stands in t behind its first i bytes.
EmptyLineAt(t, i) ==
    t[i + 1] = "r" /\ t[i + 2] = "n" /\ t[i + 3] = "r" /\ t[i + 4] = "n"

\* A request is whole where an empty line stands in it.
LEMMA WholeAt ==
  ASSUME NEW t \in Seq(Bytes)
  PROVE  Whole(t) <=> \E i \in 0..Len(t) - 4 : EmptyLineAt(t, i)
<1> DEFINE w == CRLF \o CRLF
<1>1. /\ w \in Seq(Bytes) /\ Len(w) = 4
      /\ w[1] = "r" /\ w[2] = "n" /\ w[3] = "r" /\ w[4] = "n"
  BY LineEnds
<1>2. Whole(t) <=> Len(t) >= 4 /\ w \in SubSeqs(t)
  BY DEF Whole
<1> HIDE DEF w
<1>3. Len(t) \in Nat
  OBVIOUS
<1>4. ASSUME w \in SubSeqs(t) PROVE \E i \in 0..Len(t) - 4 : EmptyLineAt(t, i)
  <2>1. PICK i \in 0..Len(t), k \in 0..Len(t) : w = SubSeq(t, i + 1, k)
    BY <1>4 DEF SubSeqs
  <2>2. i + 1 <= k /\ k = i + 4
    BY <1>1, <1>3, <2>1
  <2>3. w[1] = t[i + 1] /\ w[2] = t[i + 2] /\ w[3] = t[i + 3] /\ w[4] = t[i + 4]
    BY <1>3, <2>1, <2>2
  <2>4. i \in 0..Len(t) - 4
    BY <1>3, <2>2
  <2> QED BY <1>1, <2>3, <2>4 DEF EmptyLineAt
<1>5. ASSUME NEW i \in 0..Len(t) - 4, EmptyLineAt(t, i) PROVE w \in SubSeqs(t)
  <2> DEFINE k == i + 4
             u == SubSeq(t, i + 1, k)
  <2>1. i \in 0..Len(t) /\ k \in 0..Len(t)
    BY <1>3
  <2>2. /\ u \in Seq(Bytes) /\ Len(u) = 4
        /\ u[1] = t[i + 1] /\ u[2] = t[i + 2] /\ u[3] = t[i + 3] /\ u[4] = t[i + 4]
    BY <1>3
  <2>3. \A j \in 1..4 : j = 1 \/ j = 2 \/ j = 3 \/ j = 4
    OBVIOUS
  <2>4. w = u
    <3> HIDE DEF u
    <3>1. \A j \in 1..4 : w[j] = u[j]
      BY <1>1, <1>5, <2>2, <2>3, Zenon DEF EmptyLineAt
    <3> QED BY <1>1, <2>2, <3>1, SeqEqual
  <2> HIDE DEF k
  <2> QED BY <2>1, <2>4 DEF SubSeqs, u
<1>6. (\E i \in 0..Len(t) - 4 : EmptyLineAt(t, i)) => Len(t) >= 4
  BY <1>3
<1> QED BY <1>2, <1>4, <1>5, <1>6

\* What is whole stays so within a longer sequence.
LEMMA WholeWithin ==
  ASSUME NEW u \in Seq(Bytes), NEW t \in Seq(Bytes), NEW o \in Nat,
         o + Len(u) <= Len(t), \A j \in 1..Len(u) : u[j] = t[o + j], Whole(u)
  PROVE  Whole(t)
<1>1. Len(u) \in Nat /\ Len(t) \in Nat
  OBVIOUS
<1>2. PICK i \in 0..Len(u) - 4 : EmptyLineAt(u, i)
  BY WholeAt
<1> DEFINE k == o + i
<1>3. /\ i + 1 \in 1..Len(u) /\ i + 2 \in 1..Len(u) /\ i + 3 \in 1..Len(u) /\ i + 4 \in 1..Len(u)
      /\ o + (i + 1) = k + 1 /\ o + (i + 2) = k + 2 /\ o + (i + 3) = k + 3 /\ o + (i + 4) = k + 4
      /\ k \in 0..Len(t) - 4
  BY <1>1
<1> HIDE DEF k
<1>4. EmptyLineAt(t, k)
  <2>1. u[i + 1] = t[k + 1] /\ u[i + 2] = t[k + 2] /\ u[i + 3] = t[k + 3] /\ u[i + 4] = t[k + 4]
    <3>1. \A j \in 1..Len(u) : u[j] = t[o + j]
      OBVIOUS
    <3>2. /\ u[i + 1] = t[o + (i + 1)] /\ u[i + 2] = t[o + (i + 2)]
          /\ u[i + 3] = t[o + (i + 3)] /\ u[i + 4] = t[o + (i + 4)]
      BY <1>3, <3>1, Zenon
    <3> QED BY <1>3, <3>2, Zenon
  <2> QED BY <1>2, <2>1 DEF EmptyLineAt
<1> QED BY <1>3, <1>4, WholeAt

\* What the thread has read of a file that it has not read to the end is whole
\* only if the file goes on behind its first empty line.
LEMMA WholeBuffer ==
  ASSUME TypeOK, dataRead < Len(request.bytes), Whole(buffer)
  PROVE  Whole(Front(request.bytes))
<1> DEFINE b == request.bytes
           f == Front(b)
           n == dataRead
<1>1. b \in Seq(Bytes) /\ Len(b) \in Nat /\ n \in Nat /\ n < Len(b)
  BY RequestTypes, HttpExchangeAssumption DEF TypeOK
<1>2. /\ f \in Seq(Bytes) /\ Len(f) = Len(b) - 1
      /\ \A j \in 1..Len(b) - 1 : f[j] = b[j]
  BY <1>1 DEF Front
<1>3. buffer \in Seq(Bytes) /\ Len(buffer) = n
      /\ \A i \in 1..n : i <= Len(b) => buffer[i] = b[i]
  BY BufferTypes
<1> HIDE DEF b, f, n
<1>4. ASSUME NEW j \in 1..Len(buffer) PROVE buffer[j] = f[0 + j]
  <2>1. j \in 1..n /\ j <= Len(b) /\ j \in 1..Len(b) - 1 /\ 0 + j = j
    BY <1>1, <1>3
  <2> QED BY <1>2, <1>3, <2>1
<1>5. 0 \in Nat /\ 0 + Len(buffer) <= Len(f)
  BY <1>1, <1>2, <1>3
<1>6. Whole(f)
  BY <1>2, <1>3, <1>4, <1>5, WholeWithin, Zenon
<1> QED BY <1>6 DEF f, b

\* An empty line in the last chunk is one in the buffer.
LEMMA WholeChunk ==
  ASSUME TypeOK, Whole(chunk)
  PROVE  Whole(buffer)
<1> DEFINE o == dataRead - get
<1>1. /\ buffer \in Seq(Bytes) /\ Len(buffer) = dataRead
      /\ chunk \in Seq(Bytes) /\ Len(chunk) = get
      /\ \A j \in 1..get : chunk[j] = buffer[o + j]
  BY BufferTypes
<1>2. o \in Nat /\ o + get <= dataRead
  BY HttpExchangeAssumption DEF TypeOK
<1> HIDE DEF o
<1>3. \A j \in 1..Len(chunk) : chunk[j] = buffer[o + j]
  BY <1>1, Zenon
<1>4. o + Len(chunk) <= Len(buffer)
  BY <1>1, <1>2
<1> QED BY <1>1, <1>2, <1>3, <1>4, WholeWithin, Zenon

\* A thread that has stopped without all of the client's stream had a reason.
LEMMA StoppedUnread ==
  ASSUME TypeOK, scanForEnd(chunk) \/ dataRead = dataMax, Unread
  PROVE  LeavesUnread
<1>1. CASE request.endless
  BY <1>1, RequestTypes DEF LeavesUnread
<1>2. CASE dataRead < Len(request.bytes)
  <2>1. CASE dataRead = dataMax
    BY <1>2, <2>1 DEF LeavesUnread
  <2>2. CASE Whole(buffer)
    BY <1>2, <2>2, WholeBuffer DEF LeavesUnread
  <2>3. CASE scanForEnd(chunk) /\ ~Whole(buffer)
    <3>1. ~Whole(chunk)
      BY <2>3, WholeChunk
    <3>2. chunk = CRLF
      BY <2>3, <3>1 DEF scanForEnd, Whole
    <3> QED BY <2>3, <3>2 DEF LeavesUnread, BareLineEnd
  <2> QED BY <2>1, <2>2, <2>3
<1> QED BY <1>1, <1>2 DEF Unread

-----------------------------------------------------------------------------
(* The steps. *)

\* A step that leaves the reading alone leaves the last chunk alone.
LEMMA ChunkKept ==
  ASSUME UNCHANGED <<request, dataRead, get>>
  PROVE  buffer' = buffer /\ chunk' = chunk
  BY DEF buffer, chunk, Stream

\* Nobody has connected yet.
LEMMA InitExchange == Init => ExchangeInv
<1> SUFFICES ASSUME Init PROVE ExchangeInv
  OBVIOUS
<1>1. TypeOK
  BY HttpExchangeAssumption DEF Init, TypeOK
<1>2. Len(request.bytes) \in Nat
  BY <1>1, RequestTypes
<1> QED BY <1>1, <1>2 DEF Init, ExchangeInv, ClientInv, ReadingInv, StopInv, ResetInv

\* The client's steps.
LEMMA ClientStep == ExchangeInv /\ Client => ExchangeInv'
<1> SUFFICES ASSUME ExchangeInv, Client PROVE ExchangeInv'
  OBVIOUS
<1> USE DEF ExchangeInv
<1>1. /\ request.bytes \in Seq(Bytes) /\ Len(request.bytes) \in Nat
      /\ request.endless \in BOOLEAN
      /\ request # noFile => Len(request.bytes) > 0
      /\ request = noFile => Len(request.bytes) = 0 /\ ~request.endless
  BY RequestTypes
<1>2. UNCHANGED <<request, dataRead, get, answer, written>>
  BY DEF Client, Connect, sendRequestFdByte, SendFails, recvMessage, RecvEnds, SleepEnds
<1>3. chunk' = chunk
  BY <1>2, ChunkKept
<1>4. /\ dataRead \in Nat /\ dataMax \in Nat /\ sent \in Nat /\ answer \in Nat
      /\ written \in Nat /\ received \in Nat /\ lost \in Nat
  BY HttpExchangeAssumption DEF TypeOK
<1>5. CASE Connect
  <2>1. /\ spc = "none" /\ sent = 0 /\ dataRead = 0 /\ dataMax > 0
        /\ UNCHANGED <<sent, received, lost, conn>>
        /\ conn = "open" /\ lost = 0 /\ written = 0
    BY <1>4, <1>5, HttpExchangeAssumption DEF Connect, ClientInv, ReadingInv
  <2>2. ~scanForEnd(chunk)
    <3>1. Len(chunk) = 0
      BY <2>1, BufferTypes DEF TypeOK
    <3> HIDE DEF chunk
    <3> QED BY <3>1, LineEnds DEF scanForEnd
  <2>3. \/ cpc' = "done" /\ spc' = "none"
        \/ spc' = "recv" /\ cpc' = "recv" /\ request = noFile
        \/ spc' = "recv" /\ cpc' = "send" /\ request # noFile
    BY <1>5, <2>1 DEF Connect
  <2> QED BY <1>1, <1>2, <1>3, <1>4, <2>1, <2>2, <2>3
          DEF TypeOK, ClientInv, ReadingInv, StopInv, ResetInv, Unread
<1>6. CASE sendRequestFdByte
  <2>1. sent' = sent + 1 /\ UNCHANGED <<spc, received>> /\ cpc = "send"
        /\ cpc' = IF sent + 1 = Len(request.bytes) /\ ~request.endless THEN "recv" ELSE "send"
    BY <1>6 DEF sendRequestFdByte
  <2>2. CASE spc = "end"
    <3>1. conn' = "reset" /\ lost' \in lost..written - received
      BY <1>6, <2>2 DEF sendRequestFdByte, Reset
    <3> QED BY <1>1, <1>2, <1>3, <1>4, <2>1, <2>2, <3>1
            DEF TypeOK, ClientInv, ReadingInv, StopInv, ResetInv, Unread
  <2>3. CASE spc # "end"
    <3>1. UNCHANGED <<conn, lost>>
      BY <1>6, <2>3 DEF sendRequestFdByte
    <3> QED BY <1>1, <1>2, <1>3, <1>4, <2>1, <2>3, <3>1
            DEF TypeOK, ClientInv, ReadingInv, StopInv, ResetInv, Unread
  <2> QED BY <2>2, <2>3
<1>7. CASE SendFails
  BY <1>1, <1>2, <1>3, <1>4, <1>7
     DEF SendFails, TypeOK, ClientInv, ReadingInv, StopInv, ResetInv, Unread
<1>8. CASE recvMessage
  BY <1>1, <1>2, <1>3, <1>4, <1>8
     DEF recvMessage, TypeOK, ClientInv, ReadingInv, StopInv, ResetInv, Unread
<1>9. CASE RecvEnds \/ SleepEnds
  BY <1>1, <1>2, <1>3, <1>4, <1>9
     DEF RecvEnds, SleepEnds, TypeOK, ClientInv, ReadingInv, StopInv, ResetInv, Unread
<1> QED BY <1>5, <1>6, <1>7, <1>8, <1>9 DEF Client

\* A read, wherever it ends.
LEMMA ReadStep ==
  ASSUME ExchangeInv, NEW k \in 1..NetMax, Read(k)
  PROVE  ExchangeInv'
<1> USE DEF ExchangeInv
<1>1. /\ spc = "recv" /\ k <= sent - dataRead /\ k <= dataMax - dataRead
      /\ dataRead' = dataRead + k /\ get' = k
      /\ UNCHANGED <<request, cpc, sent, answer, written, received, lost, conn>>
  BY DEF Read
<1>2. \/ spc' = "recv" /\ ~scanForEnd(chunk') /\ dataRead' # dataMax
      \/ spc' \in {"answer", "close"} /\ (scanForEnd(chunk') \/ dataRead' = dataMax)
  BY DEF Read
<1>3. dataRead \in Nat /\ dataMax \in Nat /\ sent \in Nat /\ k \in Nat /\ k > 0
  BY HttpExchangeAssumption DEF TypeOK
<1>4. dataRead' \in 0..dataMax /\ get' \in 0..dataRead' /\ get' # 0 /\ dataRead' <= sent
  BY <1>1, <1>3
<1>5. TypeOK'
  BY <1>1, <1>2, <1>4 DEF TypeOK
<1>6. ClientInv'
  BY <1>1, <1>2, <1>4 DEF ClientInv
<1>7. ReadingInv' /\ StopInv'
  BY <1>1, <1>2, <1>3, <1>4 DEF ReadingInv, StopInv
<1>8. ResetInv'
  BY <1>1 DEF ResetInv, ReadingInv
<1> QED BY <1>5, <1>6, <1>7, <1>8

\* The answer and the close.
LEMMA AnswerStep ==
  ExchangeInv /\ (sendResponseByte \/ putClose \/ Close) => ExchangeInv'
<1> SUFFICES ASSUME ExchangeInv, sendResponseByte \/ putClose \/ Close
             PROVE  ExchangeInv'
  OBVIOUS
<1> USE DEF ExchangeInv
<1>1. Len(request.bytes) \in Nat /\ request.endless \in BOOLEAN
  BY RequestTypes
<1>2. UNCHANGED <<request, cpc, sent, dataRead, get, answer, received>>
  BY DEF sendResponseByte, putClose, Close
<1>3. chunk' = chunk
  BY <1>2, ChunkKept
<1>4. /\ dataRead \in Nat /\ dataMax \in Nat /\ sent \in Nat /\ answer \in Nat
      /\ written \in Nat /\ received \in Nat /\ lost \in Nat
  BY HttpExchangeAssumption DEF TypeOK
<1>5. CASE sendResponseByte
  BY <1>1, <1>2, <1>3, <1>4, <1>5
     DEF sendResponseByte, TypeOK, ClientInv, ReadingInv, StopInv, ResetInv, Unread
<1>6. CASE putClose
  BY <1>1, <1>2, <1>3, <1>4, <1>6
     DEF putClose, TypeOK, ClientInv, ReadingInv, StopInv, ResetInv, Unread
<1>7. CASE Close
  <2>1. spc = "close" /\ spc' = "end" /\ written' = written
    BY <1>7 DEF Close
  <2>2. CASE sent = dataRead
    <3>1. conn' = "fin" /\ lost' = lost
      BY <1>7, <2>2 DEF Close
    <3> QED BY <1>1, <1>2, <1>3, <1>4, <2>1, <3>1
            DEF TypeOK, ClientInv, ReadingInv, StopInv, ResetInv, Unread
  <2>3. CASE sent # dataRead
    <3>1. conn' = "reset" /\ lost' \in lost..written - received
      BY <1>7, <2>3 DEF Close, Reset
    <3> QED BY <1>1, <1>2, <1>3, <1>4, <2>1, <2>3, <3>1
            DEF TypeOK, ClientInv, ReadingInv, StopInv, ResetInv, Unread
  <2> QED BY <2>2, <2>3
<1> QED BY <1>5, <1>6, <1>7

LEMMA StepExchange == ExchangeInv /\ [Next]_vars => ExchangeInv'
<1>1. ASSUME ExchangeInv, UNCHANGED vars PROVE ExchangeInv'
  <2>1. chunk' = chunk
    BY <1>1, ChunkKept DEF vars
  <2> QED BY <1>1, <2>1
          DEF vars, ExchangeInv, TypeOK, ClientInv, ReadingInv, StopInv, ResetInv, Unread
<1> QED BY <1>1, ClientStep, ReadStep, AnswerStep DEF Next, Server

-----------------------------------------------------------------------------
(* The theorems. *)

\* The inductive invariant holds throughout.
THEOREM ExchangeInductive == Spec => []ExchangeInv
  BY InitExchange, StepExchange, PTL DEF Spec

\* The state of the exchange keeps its type: the reads stay within the buffer,
\* and what the client has of the answer and what a reset took away of it never
\* exceed what was written.
THEOREM ExchangeTypes == Spec => []TypeOK
<1>1. ExchangeInv => TypeOK
  BY DEF ExchangeInv
<1> QED BY <1>1, ExchangeInductive, PTL

\* A part of the answer is lost, or the client killed by SIGPIPE, only if
\* recvRequest stopped before the end of what the client sends.
THEOREM LossNeedsUnread == Spec => []LostOnlyIfUnread
<1>1. ExchangeInv => LostOnlyIfUnread
  <2> SUFFICES ASSUME ExchangeInv, lost > 0 \/ cpc = "killed" PROVE LeavesUnread
    BY DEF LostOnlyIfUnread
  <2>1. Unread /\ (scanForEnd(chunk) \/ dataRead = dataMax)
    BY DEF ExchangeInv, ResetInv, StopInv
  <2> QED BY <2>1, StoppedUnread DEF ExchangeInv
<1> QED BY <1>1, ExchangeInductive, PTL

\* sendRequestFd and the putMessages of the answer block each other only if, for
\* one of the same reasons, more of the file is unread than the connection holds,
\* and the answer is longer than the client's window.
THEOREM BlockNeedsUnread == Spec => []BlockedOnlyIfUnread
<1>1. ExchangeInv => BlockedOnlyIfUnread
  <2> SUFFICES ASSUME ExchangeInv, BothBlocked
               PROVE  /\ LeavesUnread /\ answer > Window
                      /\ request.endless \/ Len(request.bytes) > dataRead + NetMax
    BY DEF BlockedOnlyIfUnread
  <2>1. /\ dataRead \in Nat /\ sent \in Nat /\ answer \in Nat /\ written \in Nat
        /\ received \in Nat /\ NetMax \in Nat \ {0} /\ Window \in Nat
        /\ Len(request.bytes) \in Nat
    BY RequestTypes, HttpExchangeAssumption DEF ExchangeInv, TypeOK
  <2>2. /\ sent - dataRead = NetMax /\ written < answer /\ written - received = Window
        /\ ~request.endless => sent < Len(request.bytes)
        /\ scanForEnd(chunk) \/ dataRead = dataMax
    BY DEF BothBlocked, ExchangeInv, ClientInv, StopInv
  <2>3. answer > Window /\ (request.endless \/ Len(request.bytes) > dataRead + NetMax)
    BY <2>1, <2>2
  <2>4. Unread
    BY <2>1, <2>2 DEF Unread
  <2> QED BY <2>2, <2>3, <2>4, StoppedUnread DEF ExchangeInv
<1> QED BY <1>1, ExchangeInductive, PTL

\* Client and thread wait for each other in a read only if the file could not be
\* opened or does not end in an empty line, or if the last read had one byte or
\* three, so that the scan could not see the end.
THEOREM WaitNeedsNoEnd == Spec => []MutualWaitOnlyWithoutEnd
<1>1. ExchangeInv => MutualWaitOnlyWithoutEnd
  <2> DEFINE b == request.bytes
             w == CRLF \o CRLF
             g == get
             c == chunk
             N == Len(b)
  <2> SUFFICES ASSUME ExchangeInv, cpc = "recv", spc = "recv", sent = dataRead,
                      request # noFile, EndsInEmptyLine
               PROVE  g \in {1, 3}
    BY DEF MutualWaitOnlyWithoutEnd
  <2>1. /\ b \in Seq(Bytes) /\ N \in Nat /\ N > 0
    BY RequestTypes DEF ExchangeInv
  <2>2. dataRead = N /\ c # CRLF /\ ~Whole(c) /\ g \in 0..N /\ g # 0
    BY <2>1 DEF ExchangeInv, ClientInv, ReadingInv, TypeOK, scanForEnd, Whole
  <2>3. /\ c \in Seq(Bytes) /\ Len(c) = g
        /\ \A j \in 1..g : c[j] = b[(N - g) + j]
    <3>1. /\ \A i \in 1..N : i <= N => buffer[i] = b[i]
          /\ chunk \in Seq(Bytes) /\ Len(chunk) = g
          /\ \A j \in 1..g : chunk[j] = buffer[(N - g) + j]
      BY <2>2, BufferTypes DEF ExchangeInv
    <3> HIDE DEF b, g, N, chunk, buffer
    <3>2. ASSUME NEW j \in 1..g PROVE (N - g) + j \in 1..N /\ (N - g) + j <= N
      BY <2>1, <2>2
    <3> QED BY <3>1, <3>2 DEF c
  <2>4. /\ N >= 2 /\ b[N - 1] = "r" /\ b[N] = "n"
        /\ N # 2 => N >= 4 /\ b[N - 3] = "r" /\ b[N - 2] = "n"
    <3>1. CASE b = CRLF
      BY <3>1, LineEnds
    <3>2. CASE IsSuffix(w, b)
      <4>1. /\ w \in Seq(Bytes) /\ Len(w) = 4
            /\ w[1] = "r" /\ w[2] = "n" /\ w[3] = "r" /\ w[4] = "n"
        BY LineEnds
      <4> HIDE DEF w, b
      <4>2. /\ Len(w) <= Len(b)
            /\ \A i \in 1..Len(w) : w[i] = b[Len(b) - Len(w) + i]
        BY <2>1, <3>2, <4>1, SuffixAt, Zenon
      <4>3. N >= 4 /\ w[1] = b[N - 3] /\ w[2] = b[N - 2] /\ w[3] = b[N - 1] /\ w[4] = b[N]
        BY <2>1, <4>1, <4>2
      <4> QED BY <2>1, <4>1, <4>3
    <3> QED BY <3>1, <3>2 DEF EndsInEmptyLine
  <2> HIDE DEF b, g, c, N
  <2>5. g # 2
    <3> SUFFICES ASSUME g = 2 PROVE FALSE
      OBVIOUS
    <3>1. c[1] = b[N - 1] /\ c[2] = b[N]
      BY <2>1, <2>3
    <3>2. c = CRLF
      BY <2>3, <2>4, <3>1, LineEnds, SeqEqual
    <3> QED BY <2>2, <3>2
  <2>6. ~(g >= 4)
    <3> SUFFICES ASSUME g >= 4 PROVE FALSE
      OBVIOUS
    <3> DEFINE i == g - 4
    <3>1. /\ i \in 0..Len(c) - 4 /\ N # 2
          /\ i + 1 \in 1..g /\ (N - g) + (i + 1) = N - 3
          /\ i + 2 \in 1..g /\ (N - g) + (i + 2) = N - 2
          /\ i + 3 \in 1..g /\ (N - g) + (i + 3) = N - 1
          /\ i + 4 \in 1..g /\ (N - g) + (i + 4) = N
      BY <2>1, <2>2, <2>3
    <3> HIDE DEF i
    <3>2. c[i + 1] = b[N - 3] /\ c[i + 2] = b[N - 2] /\ c[i + 3] = b[N - 1] /\ c[i + 4] = b[N]
      BY <2>3, <3>1
    <3>3. EmptyLineAt(c, i)
      BY <2>4, <3>1, <3>2 DEF EmptyLineAt
    <3>4. Whole(c)
      BY <2>3, <3>1, <3>3, WholeAt
    <3> QED BY <2>2, <3>4
  <2>7. \A n \in Nat : n # 0 /\ n # 2 /\ ~(n >= 4) => n \in {1, 3}
    OBVIOUS
  <2> QED BY <2>1, <2>2, <2>5, <2>6, <2>7
<1> QED BY <1>1, ExchangeInductive, PTL
=============================================================================
