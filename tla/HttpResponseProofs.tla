------------------------- MODULE HttpResponseProofs -------------------------
(***************************************************************************)
(* An HTTP answer, proved for documents, buffers, windows and word sizes   *)
(* of any size and for any number of resumed connections.                  *)
(***************************************************************************)
EXTENDS HttpResponse, SequenceTheorems, WellFoundedInduction, TLAPS

\* The integers below a bound have a largest one among them.
LEMMA LastExists ==
  ASSUME NEW n \in Nat, NEW T \in SUBSET (1..n), T # {}
  PROVE  \E x \in T : \A y \in T : y <= x
<1> DEFINE D == {n - i : i \in T}
<1>1. D \subseteq Nat /\ D # {}
  <2>1. \A i \in T : n - i \in Nat
    OBVIOUS
  <2>2. PICK e \in T : TRUE
    OBVIOUS
  <2>3. n - e \in D
    OBVIOUS
  <2> QED BY <2>1, <2>3
<1>2. PICK x \in D : \A y \in D : ~(<<y, x>> \in OpToRel(<, Nat))
  BY <1>1, NatLessThanWellFounded, WFMin
<1>3. \A y \in D : ~(y < x)
  BY <1>1, <1>2 DEF OpToRel
<1>4. PICK i \in T : x = n - i
  OBVIOUS
<1>5. ASSUME NEW j \in T PROVE j <= i
  <2>1. n - j \in D
    OBVIOUS
  <2> HIDE DEF D
  <2>2. ~(n - j < n - i)
    BY <1>3, <1>4, <2>1
  <2> QED BY <2>2
<1> QED BY <1>5

\* m_rangeStart never has more than the width of an int.
LEMMA RangeStartType ==
  ASSUME NEW opts \in Seq(Int \cup {noNumber})
  PROVE  RangeStart(opts) \in 0..IntMod - 1
<1> USE HttpResponseAssumption
<1> DEFINE numbers == {i \in DOMAIN opts : opts[i] # noNumber}
<1> DEFINE last == CHOOSE i \in numbers : \A j \in numbers : j <= i
<1>1. CASE numbers = {}
  BY <1>1 DEF RangeStart
<1>2. CASE numbers # {}
  <2>1. numbers \in SUBSET (1..Len(opts)) /\ Len(opts) \in Nat
    OBVIOUS
  <2>2. \E i \in numbers : \A j \in numbers : j <= i
    BY <1>2, <2>1, LastExists
  <2>3. last \in numbers
    BY <2>2
  <2>4. opts[last] \in Int
    BY <2>3
  <2>5. RangeStart(opts) = opts[last] % IntMod
    BY <1>2 DEF RangeStart
  <2> HIDE DEF last
  <2> QED BY <2>4, <2>5
<1> QED BY <1>1, <1>2

\* What the request of a resumed download leads to.
LEMMA RangeStartOne == ASSUME NEW n \in Nat PROVE RangeStart(<<n>>) = n % IntMod
<1> USE HttpResponseAssumption
<1>1. n # noNumber
  OBVIOUS
<1>2. {i \in DOMAIN <<n>> : <<n>>[i] # noNumber} = {1}
  BY <1>1
<1>3. (CHOOSE i \in {1} : \A j \in {1} : j <= i) = 1
  OBVIOUS
<1>4. <<n>>[1] = n
  OBVIOUS
<1> QED BY <1>2, <1>3, <1>4 DEF RangeStart

\* A request without a Range header starts at the beginning.
LEMMA RangeStartNone == RangeStart(<<>>) = 0
  BY DEF RangeStart

-----------------------------------------------------------------------------
(* Runs of consecutive positions. *)

\* s holds the positions from a on.
Counts(s, a) == \A i \in 1..Len(s) : s[i] = a + i - 1

\* One more byte read.
LEMMA CountsAppend ==
  ASSUME NEW s \in Seq(Nat), NEW a \in Int, Counts(s, a), NEW x \in Nat, x = a + Len(s)
  PROVE  /\ Append(s, x) \in Seq(Nat) /\ Len(Append(s, x)) = Len(s) + 1
         /\ Counts(Append(s, x), a)
<1>1. /\ Append(s, x) \in Seq(Nat) /\ Len(Append(s, x)) = Len(s) + 1 /\ Len(s) \in Nat
      /\ \A i \in 1..Len(s) : Append(s, x)[i] = s[i]
      /\ Append(s, x)[Len(s) + 1] = x
  BY AppendProperties
<1>2. ASSUME NEW i \in 1..(Len(s) + 1) PROVE Append(s, x)[i] = a + i - 1
  <2>1. CASE i \in 1..Len(s)
    BY <1>1, <2>1 DEF Counts
  <2>2. CASE i = Len(s) + 1
    BY <1>1, <2>2
  <2> QED BY <1>1, <2>1, <2>2
<1> QED BY <1>1, <1>2 DEF Counts

\* A part of the buffer.
LEMMA CountsCut ==
  ASSUME NEW s \in Seq(Nat), NEW a \in Int, Counts(s, a),
         NEW d \in Nat, NEW k \in Nat, d + k <= Len(s)
  PROVE  /\ SubSeq(s, d + 1, d + k) \in Seq(Nat)
         /\ Len(SubSeq(s, d + 1, d + k)) = k
         /\ Counts(SubSeq(s, d + 1, d + k), a + d)
<1>1. Len(s) \in Nat /\ \A i \in d + 1..d + k : i \in 1..Len(s)
  OBVIOUS
<1>2. \A i \in d + 1..d + k : s[i] \in Nat
  BY <1>1
<1>3. /\ SubSeq(s, d + 1, d + k) \in Seq(Nat)
      /\ Len(SubSeq(s, d + 1, d + k)) = k
      /\ \A i \in 1..k : SubSeq(s, d + 1, d + k)[i] = s[d + i]
  BY <1>2
<1>4. ASSUME NEW i \in 1..k PROVE s[d + i] = a + d + i - 1
  <2>1. d + i \in 1..Len(s)
    BY <1>1
  <2> QED BY <2>1 DEF Counts
<1> QED BY <1>3, <1>4 DEF Counts

\* What is written goes on where the wire ends.
LEMMA CountsConcat ==
  ASSUME NEW s \in Seq(Nat), NEW t \in Seq(Nat), NEW a \in Int,
         Counts(s, a), Counts(t, a + Len(s))
  PROVE  /\ s \o t \in Seq(Nat) /\ Len(s \o t) = Len(s) + Len(t)
         /\ Counts(s \o t, a)
<1>1. /\ s \o t \in Seq(Nat) /\ Len(s \o t) = Len(s) + Len(t)
      /\ Len(s) \in Nat /\ Len(t) \in Nat
      /\ \A i \in 1..(Len(s) + Len(t)) :
            (s \o t)[i] = IF i <= Len(s) THEN s[i] ELSE t[i - Len(s)]
  BY ConcatProperties
<1>2. ASSUME NEW i \in 1..(Len(s) + Len(t)) PROVE (s \o t)[i] = a + i - 1
  <2>1. CASE i <= Len(s)
    BY <1>1, <2>1 DEF Counts
  <2>2. CASE i > Len(s)
    <3>1. i - Len(s) \in 1..Len(t)
      BY <1>1, <2>2
    <3>2. t[i - Len(s)] = a + Len(s) + (i - Len(s)) - 1
      BY <3>1 DEF Counts
    <3> QED BY <1>1, <2>2, <3>2
  <2> QED BY <1>1, <2>1, <2>2
<1> QED BY <1>1, <1>2 DEF Counts

-----------------------------------------------------------------------------
(* The invariant. *)

Sent == {"read", "flush", "last", "close"}

\* Before the header nothing is buffered or written; a 404 has no body.
HeadInv ==
    /\ pc \in {"size", "head", "error"} => head = noHead
    /\ head.code \notin {200, 206} => wire = <<>> /\ buf = <<>> /\ head.length = 0
    /\ head.code \in {200, 206} =>
          head.length = ContentLength /\ target \in {"file", "dir"}
    /\ pc \in Sent => head.code \in {200, 206}
    /\ pc = "size" => m_rangeStart = 0
    /\ pc = "head" => target \in {"file", "dir"}

\* The file position, the buffer and the wire follow each other from the range
\* start on.
BodyInv ==
    /\ Counts(wire, m_rangeStart)
    /\ head.code \in {200, 206} =>
          /\ Counts(buf, m_rangeStart + Len(wire) - dataWritten)
          /\ pos = m_rangeStart + Len(wire) - dataWritten + Len(buf)
    /\ pc = "read" => dataWritten = 0 /\ Len(buf) < bufSize
    /\ pc \in {"flush", "last"} => dataWritten < Len(buf)

\* What is known of an unchanged file, and of the end of an answer.
FileInv ==
    /\ target = "file" /\ ~edited /\ pc # "size" => bodySize = size
    /\ head.code \in {200, 206} /\ pos # m_rangeStart =>
          target = "file" /\ (edited \/ pos <= size)
    /\ head.code \in {200, 206} /\ pc \in {"last", "close", "leave", "done"} =>
          broken \/ edited \/ target = "dir" \/ pos >= size
    /\ pc \in {"close", "leave", "done"} => broken \/ buf = <<>>

\* A resumed download has the file's first bytes and asks for the next.
ResumeInv ==
    /\ tries \in Nat \ {0}
    /\ tries = 1 => kept = <<>>
    /\ tries > 1 => options = <<Len(kept)>>
    /\ pc # "size" /\ target # "bare" => m_rangeStart = RangeStart(options)
    /\ \A i \in 1..Len(kept) : i <= IntMod => kept[i] = i - 1
    /\ target = "file" /\ ~edited /\ size <= IntMod => kept = <<>> \/ Len(kept) < size

\* The inductive invariant.
IndInv == TypeOK /\ HeadInv /\ BodyInv /\ FileInv /\ ResumeInv

-----------------------------------------------------------------------------
\* Sequences of positions.
LEMMA EmptySeqs ==
    /\ <<>> \in Seq(Nat) /\ Len(<<>>) = 0
    /\ \A n \in Nat : <<n>> \in Seq(Int \cup {noNumber})
  OBVIOUS

\* A new request: nothing is read, buffered or written.
LEMMA InitInv == Init => IndInv
<1> SUFFICES ASSUME Init PROVE IndInv
  OBVIOUS
<1> USE HttpResponseAssumption, EmptySeqs DEF Init
<1>1. TypeOK
  <2>1. noHead \in [code : {0, 200, 206, 404}, length : 0..SizeMod - 1]
    BY DEF noHead
  <2>2. options \in Seq(Int \cup {noNumber})
    OBVIOUS
  <2>3. /\ 0 \in 0..MaxSize /\ 0 \in 0..IntMod - 1 /\ 0 \in 0..0
        /\ 0 <= bufSize /\ 1 \in Nat /\ 0 \in Nat
    OBVIOUS
  <2> QED BY <2>1, <2>2, <2>3 DEF TypeOK, Stages, Targets
<1>2. HeadInv /\ BodyInv
  BY DEF HeadInv, BodyInv, noHead, Sent, Counts
<1>3. FileInv /\ ResumeInv
  BY DEF FileInv, ResumeInv, noHead
<1> QED BY <1>1, <1>2, <1>3 DEF IndInv

\* The size, the header and the error answer.
LEMMA HeaderInv ==
  ASSUME IndInv, _GetBodySize \/ SendHeader \/ _ResponseError
  PROVE  IndInv'
<1> USE HttpResponseAssumption, EmptySeqs DEF IndInv, client, link, noHead
<1>1. CASE _GetBodySize
  <2>1. RangeStart(options) \in 0..IntMod - 1
    BY RangeStartType DEF TypeOK
  <2>2. pc = "size" /\ head = noHead /\ wire = <<>> /\ buf = <<>>
    BY <1>1 DEF _GetBodySize, HeadInv
  <2>3. /\ UNCHANGED <<target, size, edited, options, received, kept, tries, link, head,
                       pos, buf, dataWritten, wire>>
        /\ m_rangeStart' = IF target = "bare" THEN m_rangeStart ELSE RangeStart(options)
        /\ target = "bare" => pc' = "unwind" /\ bodySize' = bodySize
        /\ target = "file" => pc' = "head" /\ bodySize' = size
        /\ target = "dir" => pc' = "head" /\ bodySize' \in 0..MaxSize
        /\ target = "none" => pc' = "error" /\ bodySize' = bodySize
    BY <1>1 DEF _GetBodySize
  <2>4. target \in {"file", "dir", "none", "bare"}
    BY DEF TypeOK, Targets
  <2>5. TypeOK'
    BY <2>1, <2>3, <2>4, SMTT(30) DEF TypeOK, Stages, Targets
  <2>6. HeadInv'
    BY <2>2, <2>3, <2>4, SMTT(30) DEF HeadInv, Sent
  <2>7. BodyInv'
    BY <2>2, <2>3, <2>4, SMTT(30) DEF BodyInv, Counts
  <2>8. FileInv' /\ ResumeInv'
    BY <2>2, <2>3, <2>4, SMTT(30) DEF FileInv, ResumeInv
  <2> QED BY <2>5, <2>6, <2>7, <2>8
<1>2. CASE SendHeader
  <2>1. ContentLength \in 0..SizeMod - 1
    BY DEF ContentLength, SizeSub, TypeOK
  <2>2. pc = "head" /\ head = noHead /\ wire = <<>> /\ buf = <<>> /\ dataWritten = 0
    BY <1>2, SMTT(30) DEF SendHeader, HeadInv, TypeOK
  <2>3. TypeOK'
    BY <1>2, <2>1, SMTT(30) DEF SendHeader, TypeOK, Stages
  <2>4. ContentLength' = ContentLength
    BY <1>2 DEF SendHeader, ContentLength
  <2>5. HeadInv'
    BY <1>2, <2>2, <2>4, SMTT(30) DEF SendHeader, HeadInv, Sent
  <2>6. BodyInv'
    BY <1>2, <2>2, SMTT(30) DEF SendHeader, BodyInv, TypeOK, Counts
  <2>7. FileInv' /\ ResumeInv'
    BY <1>2, <2>2, SMTT(30) DEF SendHeader, FileInv, ResumeInv, TypeOK
  <2> QED BY <2>3, <2>5, <2>6, <2>7
<1>3. CASE _ResponseError
  <2>1. pc = "error" /\ head = noHead /\ wire = <<>> /\ buf = <<>> /\ dataWritten = 0
    BY <1>3, SMTT(30) DEF _ResponseError, HeadInv, TypeOK
  <2>2. TypeOK'
    BY <1>3, SMTT(30) DEF _ResponseError, TypeOK, Stages
  <2>3. HeadInv' /\ BodyInv'
    BY <1>3, <2>1, SMTT(30) DEF _ResponseError, HeadInv, BodyInv, Sent, Counts
  <2>4. FileInv' /\ ResumeInv'
    BY <1>3, <2>1 DEF _ResponseError, FileInv, ResumeInv
  <2> QED BY <2>2, <2>3, <2>4
<1> QED BY <1>1, <1>2, <1>3

\* Reading the file.
LEMMA ReadInv ==
  ASSUME IndInv, ReadByte \/ EndOfFile
  PROVE  IndInv'
<1> USE HttpResponseAssumption DEF IndInv, client, link
<1>1. CASE ReadByte
  <2>1. /\ pos \in Nat /\ buf \in Seq(Nat) /\ wire \in Seq(Nat) /\ Len(buf) < bufSize
        /\ dataWritten = 0 /\ head.code \in {200, 206} /\ Len(buf) \in Nat
    BY <1>1 DEF ReadByte, TypeOK, HeadInv, BodyInv, Sent
  <2>2. /\ buf' \in Seq(Nat) /\ Len(buf') = Len(buf) + 1
        /\ Counts(buf', m_rangeStart + Len(wire))
    <3>1. /\ Counts(buf, m_rangeStart + Len(wire)) /\ pos = m_rangeStart + Len(wire) + Len(buf)
          /\ m_rangeStart + Len(wire) \in Int /\ buf' = Append(buf, pos)
      BY <1>1, <2>1 DEF BodyInv, ReadByte, TypeOK
    <3> QED BY <2>1, <3>1, CountsAppend
  <2>3. TypeOK'
    BY <1>1, <2>1, <2>2 DEF ReadByte, TypeOK, Stages
  <2>4. HeadInv'
    BY <1>1, <2>1 DEF ReadByte, HeadInv, Sent, ContentLength
  <2>5. BodyInv'
    <3>1. /\ UNCHANGED <<wire, m_rangeStart, head, dataWritten>> /\ pos' = pos + 1
          /\ pc' = IF Len(buf') = bufSize THEN "flush" ELSE "read"
          /\ m_rangeStart + Len(wire) - dataWritten = m_rangeStart + Len(wire)
      BY <1>1, <2>1 DEF ReadByte, TypeOK
    <3>2. pos' = m_rangeStart + Len(wire) - dataWritten + Len(buf')
      BY <2>1, <2>2, <3>1, SMTT(30) DEF BodyInv, TypeOK
    <3> QED BY <2>1, <2>2, <3>1, <3>2, SMTT(30) DEF BodyInv, TypeOK
  <2>6. FileInv'
    BY <1>1, <2>1 DEF ReadByte, FileInv, TypeOK
  <2>7. ResumeInv'
    BY <1>1 DEF ReadByte, ResumeInv
  <2> QED BY <2>3, <2>4, <2>5, <2>6, <2>7
<1>2. CASE EndOfFile
  <2>1. /\ pc = "read" /\ pc' = IF buf = <<>> THEN "close" ELSE "last"
        /\ UNCHANGED <<target, size, edited, options, received, kept, tries, link, bodySize,
                       m_rangeStart, head, pos, buf, dataWritten, wire>>
        /\ head.code \in {200, 206} /\ dataWritten = 0
        /\ buf # <<>> => Len(buf) > 0
    BY <1>2 DEF EndOfFile, HeadInv, BodyInv, Sent, TypeOK
  <2>2. TypeOK'
    BY <2>1 DEF TypeOK, Stages
  <2>3. HeadInv' /\ BodyInv' /\ ResumeInv'
    BY <2>1 DEF HeadInv, BodyInv, ResumeInv, Sent, ContentLength
  <2>4. FileInv'
    BY <1>2, <2>1 DEF FileInv, EndOfFile
  <2> QED BY <2>2, <2>3, <2>4
<1> QED BY <1>1, <1>2

\* Writing, complete or partial, and the end.
LEMMA WriteInv ==
  ASSUME IndInv, (\E k \in 1..bufSize : putMessage(k)) \/ putMessageThrows
                 \/ closeSSL \/ putClose \/ EndThread
  PROVE  IndInv'
<1> USE HttpResponseAssumption DEF IndInv, client, link
<1>1. ASSUME NEW k \in 1..bufSize, putMessage(k) PROVE IndInv'
  <2> DEFINE part == SubSeq(buf, dataWritten + 1, dataWritten + k)
  <2>1. /\ buf \in Seq(Nat) /\ wire \in Seq(Nat) /\ k \in Nat \ {0}
        /\ dataWritten \in Nat /\ dataWritten + k <= Len(buf)
        /\ head.code \in {200, 206}
        /\ wire' = wire \o part /\ m_rangeStart \in Nat
        /\ UNCHANGED <<target, size, edited, options, received, kept, tries, link, bodySize,
                       m_rangeStart, head, pos>>
    BY <1>1 DEF putMessage, TypeOK, HeadInv, Sent
  <2>0. /\ m_rangeStart \in Nat /\ dataWritten \in Nat /\ k \in Nat /\ Len(wire) \in Nat
        /\ Len(buf) \in Nat
    BY <2>1
  <2>2. /\ part \in Seq(Nat) /\ Len(part) = k
        /\ Counts(part, m_rangeStart + Len(wire))
    <3> DEFINE a == m_rangeStart + Len(wire) - dataWritten
    <3>1. Counts(buf, a) /\ a \in Int /\ a + dataWritten = m_rangeStart + Len(wire)
      BY <2>1, <2>0 DEF BodyInv
    <3>2. buf \in Seq(Nat) /\ k \in Nat /\ dataWritten \in Nat /\ dataWritten + k <= Len(buf)
      BY <2>1
    <3> HIDE DEF a, IndInv
    <3>3. /\ SubSeq(buf, dataWritten + 1, dataWritten + k) \in Seq(Nat)
          /\ Len(SubSeq(buf, dataWritten + 1, dataWritten + k)) = k
          /\ Counts(SubSeq(buf, dataWritten + 1, dataWritten + k), a + dataWritten)
      BY <3>1, <3>2, CountsCut
    <3> QED BY <3>1, <3>3
  <2> HIDE DEF part
  <2>3. /\ wire' \in Seq(Nat) /\ Len(wire') = Len(wire) + k
        /\ Counts(wire', m_rangeStart)
    <3>1. Counts(wire, m_rangeStart) /\ m_rangeStart \in Int
      BY <2>1 DEF BodyInv
    <3> HIDE DEF IndInv
    <3>2. /\ wire \o part \in Seq(Nat) /\ Len(wire \o part) = Len(wire) + Len(part)
          /\ Counts(wire \o part, m_rangeStart)
      BY <2>1, <2>2, <3>1, CountsConcat
    <3> QED BY <2>1, <2>2, <3>2
  <2>5. CASE dataWritten + k < Len(buf)
    <3>1. dataWritten' = dataWritten + k /\ UNCHANGED <<pc, buf>>
      BY <1>1, <2>5 DEF putMessage
    <3>2. TypeOK'
      BY <2>1, <2>3, <2>5, <3>1 DEF TypeOK
    <3>3. HeadInv' /\ FileInv' /\ ResumeInv'
      BY <2>1, <3>1 DEF HeadInv, FileInv, ResumeInv, ContentLength
    <3>4. BodyInv'
      <4>1. Len(wire') - dataWritten' = Len(wire) - dataWritten
        BY <2>1, <2>3, <3>1
      <4>2. m_rangeStart + Len(wire') - dataWritten' = m_rangeStart + Len(wire) - dataWritten
        BY <2>1, <2>3, <4>1
      <4>3. pc # "read"
        BY <1>1 DEF putMessage
      <4> QED BY <2>1, <2>3, <2>5, <3>1, <4>2, <4>3 DEF BodyInv
    <3> QED BY <3>2, <3>3, <3>4
  <2>6. CASE ~(dataWritten + k < Len(buf))
    <3>1. /\ dataWritten' = 0 /\ buf' = <<>> /\ Len(buf') = 0 /\ buf' \in Seq(Nat)
          /\ pc \in {"flush", "last"}
          /\ pc' = IF pc = "last" THEN "close" ELSE "read"
      BY <1>1, <2>6, EmptySeqs DEF putMessage
    <3>2. TypeOK'
      BY <2>1, <2>3, <3>1 DEF TypeOK, Stages
    <3>3. HeadInv' /\ FileInv' /\ ResumeInv'
      BY <2>1, <3>1 DEF HeadInv, FileInv, ResumeInv, ContentLength, Sent
    <3>4. BodyInv'
      <4>1. dataWritten + k = Len(buf)
        BY <1>1, <2>1, <2>6
      <4>2. /\ pos = m_rangeStart + Len(wire) - dataWritten + Len(buf)
            /\ Len(wire) \in Nat /\ Len(buf) \in Nat
        BY <2>1 DEF BodyInv
      <4>3. pos = m_rangeStart + Len(wire')
        <5>1. Len(wire') = Len(wire) + k
          BY <2>3
        <5> HIDE DEF IndInv
        <5> QED BY <2>0, <4>1, <4>2, <5>1
      <4>4. /\ m_rangeStart + Len(wire') - 0 + 0 = m_rangeStart + Len(wire')
            /\ Counts(buf', m_rangeStart + Len(wire') - 0)
        BY <2>1, <2>3, <3>1, <4>2 DEF Counts
      <4>5. /\ UNCHANGED <<head, m_rangeStart, pos>>
            /\ pc' \in {"close", "read"} /\ 0 < bufSize
        BY <2>1, <3>1
      <4> HIDE DEF IndInv
      <4> QED BY <2>3, <3>1, <4>3, <4>4, <4>5 DEF BodyInv
    <3> QED BY <3>2, <3>3, <3>4
  <2> QED BY <2>5, <2>6
<1>2. CASE putMessageThrows \/ putClose \/ EndThread
  <2>1. /\ pc' \in {"close", "leave", "unwind", "done", "dropped"}
        /\ pc' = "close" => pc \in {"flush", "last"}
        /\ UNCHANGED <<target, size, edited, options, received, kept, tries, link, bodySize,
                       m_rangeStart, head, pos, buf, dataWritten, wire>>
        /\ \/ broken /\ pc \in {"flush", "last", "close"}
           \/ pc = "close" /\ pc' = "leave"
           \/ pc = "leave" /\ pc' = "done"
           \/ pc = "unwind" /\ pc' = "dropped"
    BY <1>2 DEF putMessageThrows, putClose, EndThread
  <2>2. TypeOK'
    BY <2>1 DEF TypeOK, Stages
  <2>3. HeadInv' /\ BodyInv'
    BY <2>1 DEF HeadInv, BodyInv, Sent, ContentLength
  <2>4. FileInv' /\ ResumeInv'
    BY <2>1 DEF FileInv, ResumeInv, Sent
  <2> QED BY <2>2, <2>3, <2>4
<1>3. CASE closeSSL
  <2>1. /\ UNCHANGED <<target, size, edited, thread, client, broken, bye>>
        /\ m_ssl' \in {"sent", "freed"}
    BY <1>3 DEF closeSSL
  <2> QED BY <2>1 DEF thread, TypeOK, HeadInv, BodyInv, FileInv, ResumeInv, ContentLength
<1> QED BY <1>1, <1>2, <1>3

\* The client, the network and the editor of the file.
LEMMA OutsideInv ==
  ASSUME IndInv, ClientReads \/ ClientSaysGoodbye \/ ConnectionBreaks \/ Edit
  PROVE  IndInv'
<1> USE HttpResponseAssumption DEF IndInv, thread, client, link
<1>1. CASE ClientReads
  <2>1. received' \in 0..Len(wire)
    BY <1>1 DEF ClientReads, TypeOK
  <2>2. TypeOK'
    BY <1>1, <2>1 DEF ClientReads, TypeOK
  <2>3. HeadInv' /\ BodyInv' /\ FileInv' /\ ResumeInv'
    BY <1>1 DEF ClientReads, HeadInv, BodyInv, FileInv, ResumeInv, ContentLength
  <2> QED BY <2>2, <2>3
<1>2. CASE ConnectionBreaks
  <2>1. TypeOK'
    BY <1>2 DEF ConnectionBreaks, TypeOK
  <2>2. HeadInv' /\ BodyInv' /\ FileInv' /\ ResumeInv'
    BY <1>2 DEF ConnectionBreaks, HeadInv, BodyInv, FileInv, ResumeInv, ContentLength
  <2> QED BY <2>1, <2>2
<1>3. CASE Edit
  <2>1. TypeOK'
    BY <1>3 DEF Edit, TypeOK
  <2>2. HeadInv' /\ BodyInv' /\ ResumeInv'
    BY <1>3 DEF Edit, HeadInv, BodyInv, ResumeInv, ContentLength
  <2>3. FileInv'
    BY <1>3 DEF Edit, FileInv
  <2> QED BY <2>1, <2>2, <2>3
<1>4. CASE ClientSaysGoodbye
  <2>1. UNCHANGED <<target, size, edited, thread, client, m_ssl, broken>> /\ bye' = TRUE
    BY <1>4 DEF ClientSaysGoodbye
  <2> QED BY <2>1 DEF TypeOK, HeadInv, BodyInv, FileInv, ResumeInv, ContentLength
<1> QED BY <1>1, <1>2, <1>3, <1>4

\* A number below the modulus is its own remainder.
LEMMA ModSmall == ASSUME NEW m \in Nat \ {0}, NEW n \in 0..m - 1 PROVE n % m = n
  OBVIOUS

\* Behind the first 2^32 bytes nothing is promised; up to there the wire goes on
\* where the kept bytes end.
LEMMA KeptThenWire ==
  ASSUME IndInv, tries > 1 \/ options = <<>>, NEW n \in 0..Len(wire)
  PROVE  LET got == kept \o SubSeq(wire, 1, n)
         IN  /\ got \in Seq(Nat) /\ Len(got) = Len(kept) + n
             /\ \A i \in 1..Len(got) : i <= IntMod => got[i] = i - 1
<1> USE HttpResponseAssumption
<1> DEFINE part == SubSeq(wire, 1, n)
<1> DEFINE got == kept \o part
<1>1. /\ kept \in Seq(Nat) /\ wire \in Seq(Nat) /\ Len(kept) \in Nat /\ n \in Nat
      /\ n <= Len(wire) /\ m_rangeStart \in Nat
      /\ Counts(wire, m_rangeStart)
  BY DEF IndInv, TypeOK, BodyInv
<1>2. part \in Seq(Nat) /\ Len(part) = n /\ \A i \in 1..n : part[i] = m_rangeStart + i - 1
  BY <1>1 DEF Counts
<1> HIDE DEF part
<1>3. /\ got \in Seq(Nat) /\ Len(got) = Len(kept) + n
      /\ \A i \in 1..(Len(kept) + n) :
            got[i] = IF i <= Len(kept) THEN kept[i] ELSE part[i - Len(kept)]
  <2>1. kept \in Seq(Nat) /\ part \in Seq(Nat) /\ Len(part) = n
    BY <1>1, <1>2
  <2>2. /\ got \in Seq(Nat) /\ Len(got) = Len(kept) + Len(part)
        /\ \A i \in 1..(Len(kept) + Len(part)) :
              got[i] = IF i <= Len(kept) THEN kept[i] ELSE part[i - Len(kept)]
    BY <2>1, ConcatProperties, Zenon
  <2> QED BY <2>1, <2>2, Zenon
<1> HIDE DEF got
<1>4. n > 0 => m_rangeStart = Len(kept) % IntMod
  <2> SUFFICES ASSUME n > 0 PROVE m_rangeStart = Len(kept) % IntMod
    OBVIOUS
  <2>1. wire # <<>>
    BY <1>1
  <2>2. pc # "size" /\ target # "bare"
    BY <2>1 DEF IndInv, HeadInv, noHead
  <2>3. m_rangeStart = RangeStart(options)
    BY <2>2 DEF IndInv, ResumeInv
  <2>4. CASE tries > 1
    BY <1>1, <2>3, <2>4, RangeStartOne DEF IndInv, ResumeInv
  <2>5. CASE ~(tries > 1)
    <3>1. options = <<>> /\ tries = 1
      BY <2>5 DEF IndInv, ResumeInv
    <3>2. kept = <<>>
      BY <3>1 DEF IndInv, ResumeInv
    <3>3. Len(kept) % IntMod = 0
      BY <3>2
    <3> QED BY <2>3, <3>1, <3>3, RangeStartNone
  <2> QED BY <2>4, <2>5
<1>5. ASSUME NEW i \in 1..Len(got), i <= IntMod PROVE got[i] = i - 1
  <2>1. CASE i <= Len(kept)
    <3>1. i \in 1..Len(kept) /\ got[i] = kept[i]
      BY <1>1, <1>3, <2>1
    <3>2. \A j \in 1..Len(kept) : j <= IntMod => kept[j] = j - 1
      BY DEF IndInv, ResumeInv
    <3> QED BY <1>5, <3>1, <3>2
  <2>2. CASE i > Len(kept)
    <3>1. Len(kept) % IntMod = Len(kept)
      <4>1. Len(kept) \in 0..IntMod - 1
        BY <1>1, <1>5, <2>2
      <4> QED BY <4>1, ModSmall
    <3>2. n > 0 /\ i - Len(kept) \in 1..n
      BY <1>1, <1>3, <2>2
    <3>3. part[i - Len(kept)] = Len(kept) + (i - Len(kept)) - 1
      BY <1>2, <1>4, <3>1, <3>2
    <3> QED BY <1>1, <1>3, <2>2, <3>3
  <2> QED BY <1>1, <1>3, <2>1, <2>2
<1> QED BY <1>3, <1>5 DEF got, part

\* What has been written of an unchanged file fits into what was announced.
LEMMA Announced ==
  ASSUME IndInv, ~edited, wire # <<>>
  PROVE  /\ head.code \in {200, 206} /\ target = "file" /\ pc # "size"
         /\ bodySize = size /\ m_rangeStart < size
         /\ head.length = size - m_rangeStart /\ Len(wire) <= head.length
<1>1. head.code \in {200, 206} /\ pc # "size"
  BY DEF IndInv, HeadInv, noHead
<1>2. /\ Len(wire) \in Nat \ {0} /\ Len(buf) \in Nat /\ m_rangeStart \in Nat /\ size \in Nat
      /\ dataWritten \in Nat /\ dataWritten <= Len(buf)
  BY HttpResponseAssumption DEF IndInv, TypeOK
<1>3. pos = m_rangeStart + Len(wire) - dataWritten + Len(buf)
  BY <1>1 DEF IndInv, BodyInv
<1>4. pos # m_rangeStart /\ pos >= m_rangeStart + Len(wire)
  BY <1>2, <1>3
<1>5. target = "file" /\ pos <= size
  BY <1>1, <1>4 DEF IndInv, FileInv
<1>6. bodySize = size
  BY <1>1, <1>5 DEF IndInv, FileInv
<1>7. m_rangeStart < size /\ Len(wire) <= size - m_rangeStart
  BY <1>2, <1>3, <1>4, <1>5
<1>8. head.length = size - m_rangeStart
  BY <1>1, <1>2, <1>6, <1>7 DEF IndInv, HeadInv, ContentLength, SizeSub
<1> QED BY <1>1, <1>5, <1>6, <1>7, <1>8

\* Where a download that has nothing behind the first 2^32 bytes goes on.
LEMMA ResumeOffset ==
  ASSUME IndInv, tries > 1 \/ options = <<>>, pc # "size", target # "bare",
         Len(kept) < IntMod
  PROVE  m_rangeStart = Len(kept)
<1> USE HttpResponseAssumption
<1>1. m_rangeStart = RangeStart(options) /\ Len(kept) \in Nat
  BY DEF IndInv, ResumeInv, TypeOK
<1>2. CASE tries > 1
  <2>1. RangeStart(<<Len(kept)>>) = Len(kept) % IntMod
    BY <1>1, RangeStartOne
  <2>2. Len(kept) % IntMod = Len(kept)
    BY <1>1, ModSmall
  <2> QED BY <1>1, <1>2, <2>1, <2>2 DEF IndInv, ResumeInv
<1>3. CASE ~(tries > 1)
  <2>1. options = <<>> /\ kept = <<>>
    BY <1>3 DEF IndInv, ResumeInv
  <2> QED BY <1>1, <2>1, RangeStartNone
<1> QED BY <1>2, <1>3

\* The next connection of a broken download.
LEMMA NextTryInv == ASSUME IndInv, Resume PROVE IndInv'
<1> USE HttpResponseAssumption, EmptySeqs
<1>1. /\ tries \in Nat \ {0} /\ received \in 0..Len(wire) /\ kept \in Seq(Nat)
      /\ (tries > 1 \/ options = <<>>) /\ wire \in Seq(Nat) /\ size \in Nat
      /\ Len(wire) \in Nat /\ Len(kept) \in Nat
  <2>1. /\ received \in 0..Len(wire) /\ kept \in Seq(Nat) /\ wire \in Seq(Nat)
        /\ size \in 0..MaxSize /\ tries \in Nat
    BY DEF IndInv, TypeOK
  <2>2. tries \in Nat \ {0}
    BY DEF IndInv, ResumeInv
  <2>3. tries = 1 => options = <<>>
    BY DEF Resume
  <2>4. Len(wire) \in Nat /\ Len(kept) \in Nat /\ size \in Nat
    BY <2>1
  <2>5. tries > 1 \/ options = <<>>
    BY <2>2, <2>3
  <2> QED BY <2>1, <2>2, <2>4, <2>5
<1>2. /\ tries' = tries + 1 /\ options' = <<Len(kept')>>
      /\ kept' = kept \o SubSeq(wire, 1, received)
      /\ pc' = "size" /\ bodySize' = 0 /\ m_rangeStart' = 0 /\ head' = noHead
      /\ pos' = 0 /\ buf' = <<>> /\ dataWritten' = 0 /\ wire' = <<>>
      /\ m_ssl' = IF m_ssl = "none" THEN "none" ELSE "open"
      /\ received' = 0 /\ broken' = FALSE /\ bye' = FALSE
      /\ UNCHANGED <<target, size, edited>>
      /\ ~Complete
  BY DEF Resume
<1>3. /\ kept' \in Seq(Nat) /\ Len(kept') = Len(kept) + received
      /\ \A i \in 1..Len(kept') : i <= IntMod => kept'[i] = i - 1
  BY <1>1, <1>2, KeptThenWire
<1>4. target = "file" /\ ~edited /\ size <= IntMod => kept' = <<>> \/ Len(kept') < size
  <2> SUFFICES ASSUME target = "file", ~edited, size <= IntMod
               PROVE  kept' = <<>> \/ Len(kept') < size
    OBVIOUS
  <2>1. kept = <<>> \/ Len(kept) < size
    BY DEF IndInv, ResumeInv
  <2>2. CASE received = 0
    <3>1. Len(kept') = Len(kept)
      BY <1>1, <1>3, <2>2
    <3> QED BY <1>1, <1>3, <2>1, <3>1
  <2>3. CASE received # 0
    <3>1. wire # <<>>
      BY <1>1, <2>3
    <3>2. /\ head.code \in {200, 206} /\ pc # "size" /\ m_rangeStart < size
          /\ head.length = size - m_rangeStart /\ Len(wire) <= head.length
      BY <3>1, Announced
    <3>3. Len(kept) < IntMod
      BY <1>1, <2>1
    <3>4. m_rangeStart = Len(kept)
      BY <1>1, <3>2, <3>3, ResumeOffset
    <3>5. received # head.length
      BY <1>2, <3>2 DEF Complete
    <3>6. received \in Nat /\ received < size - Len(kept)
      BY <1>1, <3>2, <3>4, <3>5, SMTT(30)
    <3> QED BY <1>1, <1>3, <3>6
  <2> QED BY <2>2, <2>3
<1>5. TypeOK'
  <2>1. noHead \in [code : {0, 200, 206, 404}, length : 0..SizeMod - 1]
    BY DEF noHead
  <2>2. /\ 0 \in 0..MaxSize /\ 0 \in 0..IntMod - 1 /\ 0 \in 0..0
        /\ 0 <= bufSize /\ tries + 1 \in Nat /\ 0 \in Nat
    BY <1>1
  <2>3. <<Len(kept')>> \in Seq(Int \cup {noNumber})
    BY <1>3
  <2>4. /\ target \in Targets /\ size \in 0..MaxSize /\ edited \in BOOLEAN
        /\ m_ssl \in {"none", "open", "sent", "freed"}
    BY DEF IndInv, TypeOK
  <2>5. /\ target' \in Targets /\ size' \in 0..MaxSize /\ edited' \in BOOLEAN
        /\ m_ssl' \in {"none", "open", "sent", "freed"}
        /\ broken' \in BOOLEAN /\ bye' \in BOOLEAN /\ pc' \in Stages
    BY <1>2, <2>4 DEF Stages
  <2>6. /\ options' \in Seq(Int \cup {noNumber}) /\ kept' \in Seq(Nat) /\ tries' \in Nat
        /\ head' \in [code : {0, 200, 206, 404}, length : 0..SizeMod - 1]
        /\ bodySize' \in 0..MaxSize /\ m_rangeStart' \in 0..IntMod - 1 /\ pos' \in Nat
    BY <1>2, <1>3, <2>1, <2>2, <2>3, Zenon
  <2>7. /\ buf' \in Seq(Nat) /\ Len(buf') <= bufSize /\ dataWritten' \in 0..Len(buf')
        /\ wire' \in Seq(Nat) /\ received' \in 0..Len(wire')
    BY <1>2, <2>2
  <2> QED BY <2>5, <2>6, <2>7, Zenon DEF TypeOK
<1>6. HeadInv' /\ BodyInv' /\ FileInv'
  BY <1>2 DEF HeadInv, BodyInv, FileInv, noHead, Sent, Counts
<1>7. ResumeInv'
  <2>1. tries' \in Nat \ {0} /\ tries' # 1
    BY <1>1, <1>2
  <2>2. /\ options' = <<Len(kept')>> /\ pc' = "size"
        /\ UNCHANGED <<target, size, edited>>
    BY <1>2
  <2> QED BY <1>3, <1>4, <2>1, <2>2 DEF ResumeInv
<1> QED BY <1>5, <1>6, <1>7 DEF IndInv

\* Every step preserves the invariant.
LEMMA StepInv == IndInv /\ [Next]_vars => IndInv'
<1> SUFFICES ASSUME IndInv, [Next]_vars PROVE IndInv'
  OBVIOUS
<1>1. CASE UNCHANGED vars
  BY <1>1 DEF vars, thread, client, link, IndInv, TypeOK, HeadInv, BodyInv, FileInv, ResumeInv,
              ContentLength
<1>2. CASE Server
  BY <1>2, HeaderInv, ReadInv, WriteInv DEF Server
<1> QED BY <1>1, <1>2, OutsideInv, NextTryInv DEF Next

-----------------------------------------------------------------------------
(* The theorems. *)

\* The invariant holds throughout.
THEOREM ResponseInductive == Spec => []IndInv
  BY InitInv, StepInv, PTL DEF Spec

\* The arithmetic of the header and of the buffer stays in range.
THEOREM ResponseTypes == Spec => []TypeOK
<1>1. IndInv => TypeOK
  BY DEF IndInv
<1> QED BY <1>1, ResponseInductive, PTL

\* A body differs in length from its Content-Length only for a broken
\* connection, an edited file, a range behind the end or a directory.
THEOREM LengthIsKept == Spec => []LengthKept
<1>1. IndInv => LengthKept
  <2> SUFFICES ASSUME IndInv, pc \in {"close", "leave", "done"}, head.code \in {200, 206}, ~broken, ~edited,
                      ~(m_rangeStart > bodySize), target # "dir"
               PROVE  Len(wire) = head.length
    BY DEF LengthKept
  <2>1. /\ size \in Nat /\ m_rangeStart \in Nat /\ Len(wire) \in Nat
        /\ dataWritten \in 0..Len(buf)
    BY HttpResponseAssumption DEF IndInv, TypeOK
  <2>2. target = "file" /\ bodySize = size /\ buf = <<>> /\ pos >= size
    BY DEF IndInv, HeadInv, FileInv
  <2>3. dataWritten = 0 /\ Len(buf) = 0
    BY <2>1, <2>2
  <2>4. pos = m_rangeStart + Len(wire)
    BY <2>1, <2>3 DEF IndInv, BodyInv
  <2>5. pos = m_rangeStart \/ pos <= size
    BY DEF IndInv, FileInv
  <2>6. head.length = size - m_rangeStart
    BY <2>1, <2>2 DEF IndInv, HeadInv, ContentLength, SizeSub
  <2> QED BY <2>1, <2>2, <2>4, <2>5, <2>6
<1> QED BY <1>1, ResponseInductive, PTL

\* Bytes behind the announced length come only from a file that grew.
THEOREM NothingBeyond == Spec => []NeverBeyondAnnounced
<1>1. IndInv => NeverBeyondAnnounced
  <2> SUFFICES ASSUME IndInv, ~edited PROVE ~(Len(wire) > head.length)
    BY DEF NeverBeyondAnnounced
  <2>1. head.length \in Nat /\ wire \in Seq(Nat)
    BY HttpResponseAssumption DEF IndInv, TypeOK
  <2>2. CASE wire = <<>>
    BY <2>1, <2>2
  <2>3. CASE wire # <<>>
    BY <2>1, <2>3, Announced
  <2> QED BY <2>2, <2>3
<1> QED BY <1>1, ResponseInductive, PTL

\* A download resumed any number of times has the file's bytes in order.
THEOREM DownloadInOrder == Spec => []ResumedInOrder
<1>1. IndInv => ResumedInOrder
  <2> SUFFICES ASSUME IndInv, tries > 1 \/ options = <<>>
               PROVE  \A i \in 1..Len(kept \o wire) :
                         i <= IntMod => (kept \o wire)[i] = i - 1
    BY DEF ResumedInOrder
  <2>1. wire \in Seq(Nat) /\ Len(wire) \in 0..Len(wire)
    BY DEF IndInv, TypeOK
  <2>2. SubSeq(wire, 1, Len(wire)) = wire
    BY <2>1
  <2> QED BY <2>1, <2>2, KeptThenWire
<1> QED BY <1>1, ResponseInductive, PTL

\* A client that has all that was announced has the whole file.
THEOREM DownloadIsWhole == Spec => []CompleteIsWhole
<1>1. IndInv => CompleteIsWhole
  <2> SUFFICES ASSUME IndInv, Complete, ~edited, target = "file", size <= IntMod,
                      tries > 1 \/ options = <<>>
               PROVE  Len(kept) + received = size
    BY DEF CompleteIsWhole
  <2> USE HttpResponseAssumption
  <2>1. /\ Len(kept) \in Nat /\ Len(wire) \in Nat /\ size \in Nat /\ m_rangeStart \in Nat
        /\ m_rangeStart < IntMod /\ received \in 0..Len(wire) /\ wire \in Seq(Nat)
    BY DEF IndInv, TypeOK
  <2>2. /\ head.code \in {200, 206} /\ received = head.length /\ pc # "size"
        /\ head.length = SizeSub(bodySize, m_rangeStart) /\ bodySize = size
    BY DEF Complete, IndInv, HeadInv, FileInv, noHead, ContentLength
  <2>3. Len(kept) < IntMod
    <3>1. kept = <<>> \/ Len(kept) < size
      BY DEF IndInv, ResumeInv
    <3> QED BY <2>1, <3>1
  <2>4. m_rangeStart = Len(kept)
    BY <2>2, <2>3, ResumeOffset
  <2>5. m_rangeStart <= size
    <3>1. CASE wire = <<>>
      <4>1. received = 0
        BY <2>1, <3>1
      <4> QED BY <2>1, <2>2, <4>1 DEF SizeSub
    <3>2. CASE wire # <<>>
      BY <2>1, <3>2, Announced
    <3> QED BY <3>1, <3>2
  <2> QED BY <2>1, <2>2, <2>4, <2>5 DEF SizeSub
<1> QED BY <1>1, ResponseInductive, PTL
=============================================================================
