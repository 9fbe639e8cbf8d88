-------------------------- MODULE EchoServerProofs --------------------------
(***************************************************************************)
(* The echo server, proved for all buffer sizes and windows, any number of *)
(* bytes and of connections, and however reads and writes are cut.         *)
(***************************************************************************)
EXTENDS EchoServer, SequenceTheorems, TLAPS

\* n bytes of a stream, the first of them behind byte a.
Run(a, n) == [i \in 1..n |-> a + i]

\* The buffer goes on where the echo ends, and together they are what was read.
BytesInv ==
    /\ echo = Run(0, Len(echo))
    /\ buf = Run(Len(echo), Len(buf))
    /\ taken = Len(echo) + Len(buf)

\* The buffer is full exactly while it is written; a connection starts with
\* nothing; a clean end comes when all is read, and behind it nothing is sent.
StageInv ==
    /\ pc = "write" => buf # <<>> /\ tls
    /\ pc \in {"start", "accept", "tls", "read"} => buf = <<>>
    /\ clean => /\ pc \in {"end", "killed"} /\ peer # "open"
                /\ buf = <<>> /\ taken = sent

\* The client was reset for an echo it did not read, and SIGPIPE is raised on
\* a broken connection only.
PeerInv ==
    /\ peer = "reset" => back < Len(echo)
    /\ pc = "killed" => Gone

\* The inductive invariant.
IndInv == TypeOK /\ BytesInv /\ StageInv /\ PeerInv

-----------------------------------------------------------------------------
(* Runs of bytes. *)

\* A run is a sequence of its length.
LEMMA RunProperties ==
  ASSUME NEW a \in Nat, NEW n \in Nat
  PROVE  /\ Run(a, n) \in Seq(Nat) /\ Len(Run(a, n)) = n
         /\ \A i \in 1..n : Run(a, n)[i] = a + i
  BY DEF Run

\* No bytes.
LEMMA RunEmpty ==
    /\ <<>> \in Seq(Nat) /\ Len(<<>>) = 0
    /\ \A a \in Nat : Run(a, 0) = <<>>
  BY DEF Run

\* The two parts of a run.
LEMMA RunCut ==
  ASSUME NEW a \in Nat, NEW n \in Nat, NEW k \in Nat, k <= n
  PROVE  /\ SubSeq(Run(a, n), 1, k) = Run(a, k)
         /\ SubSeq(Run(a, n), k + 1, n) = Run(a + k, n - k)
<1>1. SubSeq(Run(a, n), 1, k) = [i \in 1..k |-> Run(a, n)[i]]
  BY RunProperties
<1>2. \A i \in 1..k : Run(a, n)[i] = a + i
  BY DEF Run
<1>3. SubSeq(Run(a, n), k + 1, n) = [i \in 1..(n - k) |-> Run(a, n)[k + i]]
  BY RunProperties
<1>4. \A i \in 1..(n - k) : Run(a, n)[k + i] = a + k + i
  BY DEF Run
<1> QED BY <1>1, <1>2, <1>3, <1>4 DEF Run

\* A run behind a run.
LEMMA RunConcat ==
  ASSUME NEW a \in Nat, NEW m \in Nat, NEW n \in Nat
  PROVE  Run(a, m) \o Run(a + m, n) = Run(a, m + n)
<1> DEFINE s == Run(a, m)
           t == Run(a + m, n)
<1>1. /\ s \in Seq(Nat) /\ Len(s) = m /\ t \in Seq(Nat) /\ Len(t) = n
      /\ Run(a, m + n) \in Seq(Nat) /\ Len(Run(a, m + n)) = m + n
  <2>1. a + m \in Nat /\ m + n \in Nat
    OBVIOUS
  <2> QED BY <2>1, RunProperties
<1>2. /\ s \o t \in Seq(Nat) /\ Len(s \o t) = m + n
      /\ \A i \in 1..(m + n) : (s \o t)[i] = IF i <= m THEN s[i] ELSE t[i - m]
  <2> HIDE DEF s, t
  <2> QED BY <1>1, ConcatProperties
<1>3. ASSUME NEW i \in 1..(m + n)
      PROVE  (IF i <= m THEN s[i] ELSE t[i - m]) = Run(a, m + n)[i]
  <2>1. CASE i <= m
    BY <2>1 DEF Run
  <2>2. CASE i > m
    BY <2>2 DEF Run
  <2> QED BY <2>1, <2>2
<1>4. \A i \in 1..(m + n) : (s \o t)[i] = Run(a, m + n)[i]
  BY <1>2, <1>3
<1> HIDE DEF s, t
<1>5. s \o t = Run(a, m + n)
  BY <1>1, <1>2, <1>4, SeqEqual
<1> QED BY <1>5 DEF s, t

\* The beginning of a stream is a prefix of every longer beginning.
LEMMA RunPrefix ==
  ASSUME NEW m \in Nat, NEW n \in Nat, m <= n
  PROVE  Transfer!IsPrefix(Run(0, m), Run(0, n))
<1>1. SubSeq(Run(0, m), 1, m) = Run(0, m) /\ SubSeq(Run(0, n), 1, m) = Run(0, m)
  <2>1. 0 \in Nat /\ m <= m
    OBVIOUS
  <2> QED BY <2>1, RunCut
<1>2. Len(Run(0, m)) = m /\ Len(Run(0, n)) = n
  BY RunProperties
<1> QED BY <1>1, <1>2 DEF Transfer!IsPrefix

-----------------------------------------------------------------------------
(* The steps. *)

\* Before the first connection.
LEMMA InitInv == Init => IndInv
<1> SUFFICES ASSUME Init PROVE IndInv
  OBVIOUS
<1> USE EchoServerAssumption, RunEmpty DEF Init
<1>1. TypeOK
  <2>1. sent \in 0..MaxSent /\ taken \in 0..sent /\ back \in 0..Len(echo) /\ conns \in 0..MaxConns
    OBVIOUS
  <2>2. buf \in Seq(Nat) /\ echo \in Seq(Nat) /\ Len(buf) <= BufSize
    OBVIOUS
  <2> QED BY <2>1, <2>2 DEF TypeOK
<1>2. BytesInv /\ StageInv /\ PeerInv
  BY DEF BytesInv, StageInv, PeerInv
<1> QED BY <1>1, <1>2 DEF IndInv

\* What one read takes fills the buffer.
LEMMA ReadInv == ASSUME IndInv, NEW k \in 1..BufSize, SSL_read(k) PROVE IndInv'
<1>1. TypeOK /\ BytesInv /\ StageInv /\ PeerInv /\ k \in Nat \ {0}
  BY EchoServerAssumption DEF IndInv
<1>2. buf = <<>> /\ Len(buf) = 0 /\ taken = Len(echo) /\ Len(echo) \in Nat /\ taken \in Nat
  BY <1>1, RunEmpty DEF SSL_read, StageInv, BytesInv, TypeOK
<1>3. buf' = Run(taken, k) /\ buf' \in Seq(Nat) /\ Len(buf') = k
  <2>1. buf' = Run(taken, k)
    BY DEF SSL_read, Run
  <2> QED BY <1>1, <1>2, <2>1, RunProperties
<1>4. /\ taken' = taken + k /\ taken' <= sent /\ pc' = "write" /\ pc = "read" /\ tls
      /\ UNCHANGED <<listening, tls, echo, clean, conns, batch, sent, back, peer>>
  BY DEF SSL_read, client
<1>5. TypeOK'
  BY <1>1, <1>2, <1>3, <1>4, EchoServerAssumption DEF TypeOK
<1>6. BytesInv'
  BY <1>1, <1>2, <1>3, <1>4 DEF BytesInv
<1>7. StageInv' /\ PeerInv'
  <2>1. buf' # <<>>
    BY <1>1, <1>3, RunEmpty
  <2> QED BY <1>1, <1>4, <2>1 DEF StageInv, PeerInv, Gone
<1> QED BY <1>5, <1>6, <1>7 DEF IndInv

\* A partial write moves a run from the buffer to the echo.
LEMMA WriteInv == ASSUME IndInv, NEW k \in 1..BufSize, SSL_write(k) PROVE IndInv'
<1> DEFINE e == Len(echo)
           b == Len(buf)
<1>1. TypeOK /\ BytesInv /\ StageInv /\ PeerInv
  BY DEF IndInv
<1>2. e \in Nat /\ b \in Nat /\ k \in Nat \ {0} /\ k <= b
  <2>1. echo \in Seq(Nat) /\ buf \in Seq(Nat)
    BY <1>1 DEF TypeOK
  <2>2. e \in Nat /\ b \in Nat
    BY <2>1
  <2>3. k \in 1..b
    BY DEF SSL_write
  <2> QED BY <2>2, <2>3
<1>3. echo = Run(0, e) /\ buf = Run(e, b)
  BY <1>1 DEF BytesInv
<1>4. /\ echo' = echo \o SubSeq(buf, 1, k) /\ buf' = SubSeq(buf, k + 1, b)
      /\ pc = "write" /\ pc' = IF buf' = <<>> THEN "read" ELSE "write"
      /\ UNCHANGED <<listening, tls, taken, clean, conns, batch, sent, back, peer>>
  BY DEF SSL_write, client
<1> HIDE DEF e, b
<1>5. SubSeq(buf, 1, k) = Run(e, k)
  BY <1>2, <1>3, RunCut
<1>6. echo' = Run(0, e + k) /\ echo' \in Seq(Nat) /\ Len(echo') = e + k
  <2>1. 0 \in Nat /\ 0 + e = e /\ e + k \in Nat
    BY <1>2
  <2>2. Run(0, e) \o Run(0 + e, k) = Run(0, e + k)
    <3>1. e \in Nat /\ k \in Nat
      BY <1>2
    <3> QED BY <2>1, <3>1, RunConcat, Zenon
  <2>3. echo' = Run(0, e + k)
    BY <1>3, <1>4, <1>5, <2>1, <2>2
  <2> QED BY <2>1, <2>3, RunProperties
<1>7. buf' = Run(e + k, b - k) /\ buf' \in Seq(Nat) /\ Len(buf') = b - k
  <2>1. b - k \in Nat /\ e + k \in Nat
    BY <1>2
  <2>2. SubSeq(Run(e, b), k + 1, b) = Run(e + k, b - k)
    BY <1>2, RunCut
  <2>3. buf' = Run(e + k, b - k)
    BY <1>3, <1>4, <2>2
  <2> QED BY <2>1, <2>3, RunProperties
<1>8. taken = e + b /\ back \in 0..e /\ b <= BufSize
  BY <1>1 DEF BytesInv, TypeOK, e, b
<1>9. TypeOK'
  <2>1. back' \in 0..Len(echo') /\ Len(buf') <= BufSize
    BY <1>2, <1>4, <1>6, <1>7, <1>8, EchoServerAssumption
  <2>2. pc' \in {"read", "write"}
    BY <1>4
  <2> QED BY <1>1, <1>4, <1>6, <1>7, <2>1, <2>2 DEF TypeOK
<1>10. BytesInv'
  <2>1. taken' = Len(echo') + Len(buf')
    <3>1. taken' = e + b /\ Len(echo') = e + k /\ Len(buf') = b - k
      BY <1>4, <1>6, <1>7, <1>8
    <3> QED BY <1>2, <3>1
  <2> QED BY <1>6, <1>7, <2>1 DEF BytesInv
<1>11. StageInv'
  BY <1>1, <1>4 DEF StageInv
<1>12. PeerInv'
  BY <1>1, <1>2, <1>4, <1>6, <1>8 DEF PeerInv, Gone, e
<1> QED BY <1>9, <1>10, <1>11, <1>12 DEF IndInv

\* The ends of a connection, and the next one.
LEMMA EndsInv ==
  ASSUME IndInv, Start \/ Accept \/ SSL_accept \/ ReadEnds \/ WriteFails \/ Finish
  PROVE  IndInv'
<1>1. TypeOK /\ BytesInv /\ StageInv /\ PeerInv
  BY DEF IndInv
<1>2. CASE Start \/ Accept \/ SSL_accept \/ ReadEnds \/ WriteFails
  <2>1. UNCHANGED <<taken, buf, echo, batch, sent, back, peer>>
    BY <1>2 DEF Start, Accept, SSL_accept, ReadEnds, WriteFails, client
  <2>2. TypeOK'
    <3>1. conns' \in 0..MaxConns
      <4>1. conns' = conns \/ (conns < MaxConns /\ conns' = conns + 1)
        BY <1>2 DEF Start, Accept, SSL_accept, ReadEnds, WriteFails
      <4>2. conns \in 0..MaxConns
        BY <1>1 DEF TypeOK
      <4> QED BY <4>1, <4>2, EchoServerAssumption
    <3>2. pc' \in {"start", "accept", "tls", "read", "write", "end", "exit", "killed"}
      BY <1>1, <1>2 DEF TypeOK, Start, Accept, SSL_accept, ReadEnds, WriteFails
    <3>3. listening' \in BOOLEAN /\ tls' \in BOOLEAN /\ clean' \in BOOLEAN
      BY <1>1, <1>2 DEF TypeOK, Start, Accept, SSL_accept, ReadEnds, WriteFails
    <3> QED BY <1>1, <2>1, <3>1, <3>2, <3>3 DEF TypeOK
  <2>3. BytesInv'
    BY <1>1, <2>1 DEF BytesInv
  <2>4. StageInv'
    <3>1. CASE ReadEnds
      <4>1. pc = "read" /\ pc' = "end" /\ buf = <<>> /\ UNCHANGED <<taken, buf, sent, peer>>
        BY <1>1, <2>1, <3>1 DEF ReadEnds, StageInv
      <4>2. clean' => tls /\ ~Gone
        BY <3>1 DEF ReadEnds
      <4>3. clean' => peer = "closed" /\ taken = sent
        BY <3>1, <4>2 DEF ReadEnds
      <4> QED BY <4>1, <4>3 DEF StageInv
    <3>2. CASE Start \/ Accept \/ SSL_accept \/ WriteFails
      <4>1. ~clean /\ clean' = clean
        BY <1>1, <3>2 DEF StageInv, Start, Accept, SSL_accept, WriteFails
      <4>2. pc' = "write" => FALSE
        BY <3>2 DEF Start, Accept, SSL_accept, WriteFails
      <4>3. pc' \in {"start", "accept", "tls", "read"} => buf = <<>>
        BY <1>1, <3>2 DEF StageInv, Start, Accept, SSL_accept, WriteFails
      <4> QED BY <2>1, <4>1, <4>2, <4>3 DEF StageInv
    <3> QED BY <1>2, <3>1, <3>2
  <2>5. PeerInv'
    BY <1>1, <1>2, <2>1
       DEF PeerInv, Start, Accept, SSL_accept, ReadEnds, WriteFails, Gone
  <2> QED BY <2>2, <2>3, <2>4, <2>5 DEF IndInv
<1>3. CASE Finish /\ pc' = "killed"
  <2>1. /\ UNCHANGED <<listening, conns, tls, taken, buf, echo, clean, batch, sent, back, peer>>
        /\ pc = "end" /\ Gone
    BY <1>3 DEF Finish, client
  <2>2. TypeOK' /\ BytesInv'
    BY <1>1, <1>3, <2>1 DEF TypeOK, BytesInv
  <2>3. StageInv' /\ PeerInv'
    BY <1>1, <1>3, <2>1 DEF StageInv, PeerInv, Gone
  <2> QED BY <2>2, <2>3 DEF IndInv
<1>4. CASE Finish /\ pc' # "killed"
  <2>1. /\ pc' = "accept" /\ UNCHANGED <<listening, conns>>
        /\ tls' = FALSE /\ taken' = 0 /\ buf' = <<>> /\ echo' = <<>> /\ clean' = FALSE
        /\ batch' \in BOOLEAN /\ sent' = 0 /\ back' = 0 /\ peer' = "open"
    BY <1>4 DEF Finish
  <2>2. TypeOK'
    <3>1. /\ sent' \in 0..MaxSent /\ taken' \in 0..sent' /\ back' \in 0..Len(echo')
          /\ Len(buf') <= BufSize /\ buf' \in Seq(Nat) /\ echo' \in Seq(Nat)
      BY <2>1, RunEmpty, EchoServerAssumption
    <3> QED BY <1>1, <2>1, <3>1 DEF TypeOK
  <2>3. BytesInv' /\ StageInv' /\ PeerInv'
    BY <2>1, RunEmpty DEF BytesInv, StageInv, PeerInv
  <2> QED BY <2>2, <2>3 DEF IndInv
<1> QED BY <1>2, <1>3, <1>4

\* The client writes, reads, leaves or is reset.
LEMMA ClientInv ==
  ASSUME IndInv, ClientWrites \/ ClientReads \/ ClientLeaves \/ LateEcho
  PROVE  IndInv'
<1>1. TypeOK /\ BytesInv /\ StageInv /\ PeerInv
  BY DEF IndInv
<1>2. UNCHANGED <<listening, pc, tls, taken, buf, echo, clean, conns, batch>>
  BY DEF ClientWrites, ClientReads, ClientLeaves, LateEcho, server
<1>3. BytesInv'
  BY <1>1, <1>2 DEF BytesInv
<1>4. Len(echo) \in Nat
  BY <1>1 DEF TypeOK
<1>5. TypeOK'
  <2>1. sent' \in 0..MaxSent /\ taken \in 0..sent' /\ back' \in 0..Len(echo)
    <3>1. sent \in 0..MaxSent /\ taken \in 0..sent /\ back \in 0..Len(echo)
          /\ MaxSent \in Nat
      BY <1>1, EchoServerAssumption DEF TypeOK
    <3>2. CASE ClientWrites
      <4>1. sent < MaxSent /\ sent' = sent + 1 /\ back' = back
        BY <3>2 DEF ClientWrites
      <4> QED BY <3>1, <4>1
    <3>3. CASE ClientReads
      <4>1. back < Len(echo) /\ back' = back + 1 /\ sent' = sent
        BY <3>3 DEF ClientReads
      <4> QED BY <1>4, <3>1, <4>1
    <3>4. CASE ClientLeaves \/ LateEcho
      <4>1. sent' = sent /\ back' = back
        BY <3>4 DEF ClientLeaves, LateEcho
      <4> QED BY <3>1, <4>1
    <3> QED BY <3>2, <3>3, <3>4
  <2>2. peer' \in {"open", "closed", "reset", "aborted"}
    BY <1>1 DEF TypeOK, ClientWrites, ClientReads, ClientLeaves, LateEcho
  <2> QED BY <1>1, <1>2, <2>1, <2>2 DEF TypeOK
<1>6. StageInv'
  BY <1>1, <1>2 DEF StageInv, ClientWrites, ClientReads, ClientLeaves, LateEcho
<1>7. PeerInv'
  BY <1>1, <1>2 DEF PeerInv, Gone, ClientWrites, ClientReads, ClientLeaves, LateEcho
<1> QED BY <1>3, <1>5, <1>6, <1>7 DEF IndInv

\* Every step preserves the invariant.
LEMMA StepInv == IndInv /\ [Next]_vars => IndInv'
<1> SUFFICES ASSUME IndInv, [Next]_vars PROVE IndInv'
  OBVIOUS
<1>1. CASE UNCHANGED vars
  <2>1. UNCHANGED <<listening, pc, tls, taken, buf, echo, clean, conns, batch, sent, back, peer>>
    BY <1>1 DEF vars, server, client
  <2> QED BY <2>1 DEF IndInv, TypeOK, BytesInv, StageInv, PeerInv, Gone
<1>2. ASSUME NEW k \in 1..BufSize, SSL_read(k) \/ SSL_write(k) PROVE IndInv'
  BY <1>2, ReadInv, WriteInv
<1>3. CASE Start \/ Accept \/ SSL_accept \/ ReadEnds \/ WriteFails \/ Finish
  BY <1>3, EndsInv
<1>4. CASE ClientWrites \/ ClientReads \/ ClientLeaves \/ LateEcho
  BY <1>4, ClientInv
<1> QED BY <1>1, <1>2, <1>3, <1>4 DEF Next, Server

\* The invariant holds throughout.
THEOREM EchoInductive == Spec => []IndInv
  BY InitInv, StepInv, PTL DEF Spec

-----------------------------------------------------------------------------
\* Server and client block each other only with more bytes under way than the
\* two windows hold, whatever their sizes.
THEOREM StuckNeedsMoreThanWindows == Spec => []StuckOnlyBeyondWindows
<1>1. IndInv => StuckOnlyBeyondWindows
  <2> SUFFICES ASSUME IndInv, Stuck PROVE sent > InWindow + OutWindow
    BY DEF StuckOnlyBeyondWindows
  <2>1. /\ buf # <<>> /\ buf \in Seq(Nat) /\ Len(echo) \in Nat
        /\ taken = Len(echo) + Len(buf) /\ back \in 0..Len(echo)
        /\ Len(echo) - back = OutWindow /\ sent - taken = InWindow
        /\ sent \in Nat /\ taken \in Nat /\ OutWindow \in Nat /\ InWindow \in Nat
    BY EchoServerAssumption DEF IndInv, TypeOK, BytesInv, StageInv, Stuck
  <2>2. Len(buf) \in Nat \ {0}
    BY <2>1, EmptySeq
  <2> QED BY <2>1, <2>2
<1> QED BY <1>1, EchoInductive, PTL

\* Only a client that deserted its connection takes the server down.
THEOREM KilledByDeserter == Spec => []KilledOnlyByDeserter
<1>1. IndInv => KilledOnlyByDeserter
  <2> SUFFICES ASSUME IndInv, pc = "killed", peer # "aborted" PROVE back < sent
    BY DEF KilledOnlyByDeserter
  <2>1. back < Len(echo)
    BY DEF IndInv, PeerInv, Gone
  <2>2. /\ taken = Len(echo) + Len(buf) /\ Len(echo) \in Nat /\ Len(buf) \in Nat
        /\ taken <= sent /\ sent \in Nat /\ taken \in Nat /\ back \in Nat
    BY EchoServerAssumption DEF IndInv, BytesInv, TypeOK
  <2> QED BY <2>1, <2>2
<1> QED BY <1>1, EchoInductive, PTL

-----------------------------------------------------------------------------
(* The refinement. *)

\* A step of the server or of a client is a step of the transfer: a write
\* delivers, the client offers, the next connection is the next transfer.
LEMMA StepDelivers ==
  ASSUME IndInv, IndInv', [Next]_vars
  PROVE  [Transfer!Next]_(Transfer!vars)
<1> DEFINE source == [i \in 1..sent |-> i]
           outcome == IF clean THEN "complete"
                      ELSE IF pc = "end" \/ Stopped THEN "failed" ELSE "running"
<1>1. /\ sent \in Nat /\ sent' \in Nat /\ Len(echo) \in Nat /\ Len(echo') \in Nat
      /\ Len(buf) \in Nat /\ Len(buf') \in Nat
      /\ Len(echo) <= sent /\ Len(echo') <= sent'
  <2>1. /\ sent \in 0..MaxSent /\ taken \in 0..sent /\ buf \in Seq(Nat) /\ echo \in Seq(Nat)
        /\ taken = Len(echo) + Len(buf)
    BY DEF IndInv, TypeOK, BytesInv
  <2>2. /\ sent' \in 0..MaxSent /\ taken' \in 0..sent' /\ buf' \in Seq(Nat) /\ echo' \in Seq(Nat)
        /\ taken' = Len(echo') + Len(buf')
    BY DEF IndInv, TypeOK, BytesInv
  <2>3. /\ Len(echo) \in Nat /\ Len(buf) \in Nat
        /\ Len(echo') \in Nat /\ Len(buf') \in Nat
    BY <2>1, <2>2
  <2> QED BY <2>1, <2>2, <2>3, EchoServerAssumption, SMTT(30)
<1>2. source = Run(0, sent) /\ source' = Run(0, sent')
  BY <1>1 DEF Run
<1>3. echo = Run(0, Len(echo)) /\ echo' = Run(0, Len(echo'))
  BY DEF IndInv, BytesInv
<1>4. clean => pc \in {"end", "killed"} /\ echo = source
  <2>1. clean => pc \in {"end", "killed"} /\ Len(echo) = sent
    BY <1>1, RunEmpty DEF IndInv, StageInv, BytesInv
  <2> QED BY <1>2, <1>3, <2>1
<1>5. clean' => pc' \in {"end", "killed"} /\ echo' = source'
  <2>1. clean' => pc' \in {"end", "killed"} /\ Len(echo') = sent'
    BY <1>1, RunEmpty DEF IndInv, StageInv, BytesInv
  <2> QED BY <1>2, <1>3, <2>1
<1> USE DEF Transfer!Next, Transfer!vars, Stopped
<1>6. CASE UNCHANGED <<sent, echo, clean, pc>>
  BY <1>6
<1>7. CASE Start \/ Accept \/ SSL_accept \/ WriteFails \/ ReadEnds
  <2>1. /\ UNCHANGED <<sent, echo>> /\ ~clean
        /\ pc \notin {"end", "exit", "killed"}
    BY <1>7, <1>4 DEF Start, Accept, SSL_accept, WriteFails, ReadEnds, client
  <2>2. source' = source /\ echo' = echo
    BY <2>1
  <2>3. outcome = "running" /\ outcome' \in {"running", "complete", "failed"}
    BY <2>1
  <2>4. CASE outcome' = "running"
    BY <2>2, <2>3, <2>4
  <2>5. CASE outcome' # "running"
    <3>1. outcome' = "complete" => echo = source
      BY <1>5, <2>2
    <3>2. Transfer!End
      BY <2>2, <2>3, <2>5, <3>1 DEF Transfer!End
    <3> QED BY <3>2
  <2> QED BY <2>4, <2>5
<1>8. ASSUME NEW k \in 1..BufSize, SSL_read(k)
      PROVE  UNCHANGED Transfer!vars
  <2>1. UNCHANGED <<sent, echo, clean>> /\ pc = "read" /\ pc' = "write"
    BY <1>8 DEF SSL_read, client
  <2> QED BY <2>1
<1>9. ASSUME NEW k \in 1..BufSize, SSL_write(k)
      PROVE  Transfer!Deliver
  <2>1. /\ UNCHANGED <<sent, clean>> /\ pc = "write" /\ pc' \in {"read", "write"}
        /\ echo' = echo \o SubSeq(buf, 1, k) /\ k \in 1..Len(buf)
    BY <1>9 DEF SSL_write, client
  <2>2. Len(echo) <= Len(echo')
    <3>1. echo \in Seq(Nat) /\ buf \in Seq(Nat) /\ SubSeq(buf, 1, k) \in Seq(Nat)
      BY <2>1 DEF IndInv, TypeOK
    <3>2. Len(echo') = Len(echo) + Len(SubSeq(buf, 1, k))
      BY <2>1, <3>1, ConcatProperties
    <3>3. Len(SubSeq(buf, 1, k)) \in Nat
      BY <3>1
    <3> QED BY <1>1, <3>2, <3>3
  <2>3. Transfer!IsPrefix(echo, echo') /\ Transfer!IsPrefix(echo', source)
    <3>1. Transfer!IsPrefix(Run(0, Len(echo)), Run(0, Len(echo')))
      BY <1>1, <2>2, RunPrefix
    <3>2. Transfer!IsPrefix(Run(0, Len(echo')), Run(0, sent))
      BY <1>1, <2>1, RunPrefix
    <3> QED BY <1>2, <1>3, <3>1, <3>2
  <2>4. ~clean /\ ~clean'
    BY <1>4, <2>1
  <2> QED BY <2>1, <2>3, <2>4 DEF Transfer!Deliver
<1>10. CASE Finish
  <2>1. CASE pc' = "killed"
    BY <1>10, <2>1 DEF Finish, client
  <2>2. CASE pc' # "killed"
    <3>1. pc = "end" /\ pc' = "accept" /\ sent' = 0 /\ echo' = <<>> /\ clean' = FALSE
      BY <1>10, <2>2 DEF Finish
    <3>2. source' = <<>>
      BY <1>2, <3>1, RunEmpty
    <3>3. Transfer!Again
      BY <3>1, <3>2 DEF Transfer!Again
    <3> QED BY <3>3
  <2> QED BY <2>1, <2>2
<1>11. CASE ClientWrites
  <2>1. sent' = sent + 1 /\ UNCHANGED <<echo, clean, pc>>
    BY <1>11 DEF ClientWrites, server
  <2>2. Transfer!IsPrefix(source, source')
    BY <1>1, <1>2, <2>1, RunPrefix
  <2>3. Transfer!Offer
    BY <2>1, <2>2 DEF Transfer!Offer
  <2> QED BY <2>3
<1>12. CASE ClientReads \/ ClientLeaves \/ LateEcho
  BY <1>12, <1>6 DEF ClientReads, ClientLeaves, LateEcho, server
<1>13. CASE UNCHANGED vars
  BY <1>13, <1>6 DEF vars, server, client
<1> QED BY <1>7, <1>8, <1>9, <1>10, <1>11, <1>12, <1>13 DEF Next, Server

\* The echo server implements the abstract transfer on every connection: what
\* it echoes is always a prefix of what was sent, in order and once, and all of
\* it when the connection ends cleanly.
THEOREM EchoImplementsDelivery == Spec => ImplementsDelivery
<1>1. Init => Transfer!Init
  <2> SUFFICES ASSUME Init PROVE Transfer!Init
    OBVIOUS
  <2>1. [i \in 1..sent |-> i] = <<>>
    BY DEF Init
  <2> QED BY <2>1 DEF Init, Transfer!Init, Stopped
<1>2. IndInv /\ IndInv' /\ [Next]_vars => [Transfer!Next]_(Transfer!vars)
  BY StepDelivers
<1> QED BY <1>1, <1>2, EchoInductive, PTL DEF Spec, ImplementsDelivery, Transfer!Spec
=============================================================================
