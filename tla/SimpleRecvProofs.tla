-------------------------- MODULE SimpleRecvProofs --------------------------
(***************************************************************************)
(* recvMessage, proved for any capacity, any growth of it that reserve may *)
(* choose and any number of bytes, however they arrive.                    *)
(***************************************************************************)
EXTENDS SimpleRecv, TLAPS

\* The first n bytes of a stream.
Count(n) == [i \in 1..n |-> i]

\* Nothing has been read at the call; while reading the string is filled up to
\* its capacity and has room for one more byte; it always begins with the bytes
\* received, and after the end it is just those.
RecvInv ==
    /\ dataRead <= sent
    /\ pc = "call" => dataRead = 0 /\ capacity = FirstCapacity
    /\ pc = "read" => Len(message) = capacity /\ dataRead + 1 < capacity
    /\ pc \in {"returned", "threw"} => Len(message) = dataRead
    /\ pc # "call" => \A i \in 1..dataRead : message[i] = i
    /\ pc = "returned" => peer = "closed" /\ dataRead = sent

\* The inductive invariant.
IndInv == TypeOK /\ RecvInv

-----------------------------------------------------------------------------
\* string::resize, element by element.
LEMMA ResizedProperties ==
  ASSUME NEW s \in Seq(Nat), NEW n \in Nat
  PROVE  /\ Resized(s, n) \in Seq(Nat)
         /\ Len(Resized(s, n)) = n
         /\ \A i \in 1..n : i <= Len(s) => Resized(s, n)[i] = s[i]
<1>1. \A i \in 1..n : (IF i <= Len(s) THEN s[i] ELSE 0) \in Nat
  OBVIOUS
<1>2. Resized(s, n) \in [1..n -> Nat]
  BY <1>1 DEF Resized
<1>3. Resized(s, n) \in Seq(Nat) /\ Len(Resized(s, n)) = n
  BY <1>2
<1> QED BY <1>3 DEF Resized

\* The bytes of one read land behind those already there.
LEMMA StoredProperties ==
  ASSUME NEW s \in Seq(Nat), NEW k \in Nat, dataRead \in Nat, dataRead + k <= Len(s),
         \A i \in 1..dataRead : s[i] = i
  PROVE  /\ Stored(s, k) \in Seq(Nat)
         /\ Len(Stored(s, k)) = Len(s)
         /\ \A i \in 1..(dataRead + k) : Stored(s, k)[i] = i
<1>1. \A i \in 1..Len(s) : (IF i \in dataRead + 1..dataRead + k THEN i ELSE s[i]) \in Nat
  OBVIOUS
<1>2. Stored(s, k) \in [1..Len(s) -> Nat]
  BY <1>1 DEF Stored
<1>3. Stored(s, k) \in Seq(Nat) /\ Len(Stored(s, k)) = Len(s)
  BY <1>2
<1>4. \A i \in 1..(dataRead + k) : Stored(s, k)[i] = i
  BY DEF Stored
<1> QED BY <1>3, <1>4

\* The call starts with an empty string.
LEMMA InitInv == Init => IndInv
  BY SimpleRecvAssumption DEF Init, IndInv, TypeOK, RecvInv

\* Every read, return and exception of recvMessage and every step of the peer
\* preserves the invariant.
LEMMA StepInv == IndInv /\ [Next]_vars => IndInv'
<1> SUFFICES ASSUME IndInv, [Next]_vars PROVE IndInv'
  OBVIOUS
<1> USE SimpleRecvAssumption DEF IndInv, TypeOK
<1>1. CASE UNCHANGED vars
  BY <1>1 DEF vars, RecvInv
<1>2. CASE Call
  <2>1. message' \in Seq(Nat) /\ Len(message') = capacity
    <3>1. <<>> \in Seq(Nat) /\ capacity \in Nat
      OBVIOUS
    <3>2. message' = Resized(<<>>, capacity)
      BY <1>2 DEF Call
    <3> QED BY <3>1, <3>2, ResizedProperties
  <2> QED BY <1>2, <2>1 DEF Call, RecvInv
<1>3. ASSUME NEW k \in 1..MaxSent, Read(k) PROVE IndInv'
  <2> DEFINE s == Stored(message, k)
  <2> DEFINE r == Resized(s, dataRead')
  <2>1. /\ k \in Nat /\ dataRead' = dataRead + k /\ dataRead' \in Nat
        /\ dataRead' <= sent /\ dataRead' <= Len(message)
        /\ Len(message) = capacity /\ dataRead' <= capacity - 1
    BY <1>3 DEF Read, Room, RecvInv
  <2>2. capacity' \in Nat /\ capacity' >= capacity + 10
    BY <1>3 DEF Read, Reserved
  <2>3. /\ s \in Seq(Nat) /\ Len(s) = Len(message)
        /\ \A i \in 1..dataRead' : s[i] = i
    <3>1. message \in Seq(Nat) /\ dataRead \in Nat /\ \A i \in 1..dataRead : message[i] = i
      BY <1>3 DEF RecvInv, Read
    <3>2. dataRead + k <= Len(message)
      BY <2>1
    <3> HIDE DEF IndInv, TypeOK
    <3> QED BY <2>1, <3>1, <3>2, StoredProperties
  <2>4. /\ r \in Seq(Nat) /\ Len(r) = dataRead'
        /\ \A i \in 1..dataRead' : r[i] = i
    <3> HIDE DEF s, IndInv, TypeOK
    <3>1. /\ Resized(s, dataRead') \in Seq(Nat) /\ Len(Resized(s, dataRead')) = dataRead'
          /\ \A i \in 1..dataRead' : i <= Len(s) => Resized(s, dataRead')[i] = s[i]
      BY <2>1, <2>3, ResizedProperties
    <3>2. Len(s) \in Nat /\ dataRead' <= Len(s)
      BY <2>1, <2>3
    <3> QED BY <2>1, <2>3, <3>1, <3>2
  <2>5. message' = Resized(r, capacity')
    BY <1>3 DEF Read
  <2>6. /\ message' \in Seq(Nat) /\ Len(message') = capacity'
        /\ \A i \in 1..dataRead' : message'[i] = i
    <3> HIDE DEF r, IndInv, TypeOK
    <3>1. /\ Resized(r, capacity') \in Seq(Nat) /\ Len(Resized(r, capacity')) = capacity'
          /\ \A i \in 1..capacity' : i <= Len(r) => Resized(r, capacity')[i] = r[i]
      BY <2>2, <2>4, ResizedProperties
    <3>2. capacity \in Nat /\ dataRead' <= capacity'
      BY <2>1, <2>2 DEF IndInv, TypeOK
    <3> QED BY <2>1, <2>2, <2>4, <2>5, <3>1, <3>2
  <2> HIDE DEF s, r
  <2> QED BY <1>3, <2>1, <2>2, <2>6 DEF Read, RecvInv
<1>4. ASSUME Return \/ Throw PROVE IndInv'
  <2>1. /\ pc = "read" /\ pc' \in {"returned", "threw"}
        /\ message' = Resized(message, dataRead)
        /\ UNCHANGED <<ssl, sent, peer, capacity, dataRead>>
    BY <1>4 DEF Return, Throw
  <2>2. /\ message' \in Seq(Nat) /\ Len(message') = dataRead
        /\ \A i \in 1..dataRead : message'[i] = i
    <3>1. /\ message \in Seq(Nat) /\ dataRead \in Nat /\ dataRead <= Len(message)
          /\ \A i \in 1..dataRead : message[i] = i
      BY <2>1 DEF RecvInv
    <3> HIDE DEF IndInv, TypeOK
    <3>2. /\ Resized(message, dataRead) \in Seq(Nat)
          /\ Len(Resized(message, dataRead)) = dataRead
          /\ \A i \in 1..dataRead : i <= Len(message) => Resized(message, dataRead)[i] = message[i]
      BY <3>1, ResizedProperties
    <3>3. \A i \in 1..dataRead : i <= Len(message)
      BY <3>1
    <3> QED BY <2>1, <3>1, <3>2, <3>3
  <2>3. pc' = "returned" => peer = "closed" /\ dataRead = sent
    BY <1>4 DEF Return, Throw, GotNothing, Room, RecvInv
  <2> QED BY <2>1, <2>2, <2>3 DEF RecvInv
<1>5. CASE PeerSends \/ PeerLeaves
  BY <1>5 DEF PeerSends, PeerLeaves, RecvInv
<1> QED BY <1>1, <1>2, <1>3, <1>4, <1>5 DEF Next, Recv

\* The invariant holds throughout.
THEOREM RecvInductive == Spec => []IndInv
  BY InitInv, StepInv, PTL DEF Spec

-----------------------------------------------------------------------------
\* Two sequences of the same length that count up are the same.
LEMMA CountUnique ==
  ASSUME NEW s \in Seq(Nat), NEW n \in Nat, Len(s) = n, \A i \in 1..n : s[i] = i
  PROVE  s = Count(n)
  BY DEF Count

\* The beginning of a counting sequence.
LEMMA CountCut ==
  ASSUME NEW s \in Seq(Nat), NEW n \in Nat, n <= Len(s), \A i \in 1..n : s[i] = i
  PROVE  SubSeq(s, 1, n) = Count(n)
<1>1. SubSeq(s, 1, n) = [i \in 1..n |-> s[i]]
  OBVIOUS
<1> QED BY <1>1 DEF Count

\* A counting sequence is a prefix of every longer one.
LEMMA CountPrefix ==
  ASSUME NEW m \in Nat, NEW n \in Nat, m <= n
  PROVE  Transfer!IsPrefix(Count(m), Count(n))
<1>1. /\ Count(m) \in Seq(Nat) /\ Len(Count(m)) = m
      /\ Count(n) \in Seq(Nat) /\ Len(Count(n)) = n
  BY DEF Count
<1>2. SubSeq(Count(m), 1, m) = Count(m) /\ SubSeq(Count(n), 1, m) = Count(m)
  BY <1>1, CountCut DEF Count
<1> QED BY <1>1, <1>2 DEF Transfer!IsPrefix

\* A normal return means the peer's whole stream, byte for byte.
THEOREM WholeOnReturn == Spec => []ReturnsWhole
<1>1. IndInv => ReturnsWhole
  <2> SUFFICES ASSUME IndInv, pc = "returned" PROVE message = Stream /\ peer = "closed"
    BY DEF ReturnsWhole
  <2>1. message = Count(sent)
    BY CountUnique DEF IndInv, TypeOK, RecvInv
  <2> QED BY <2>1 DEF IndInv, RecvInv, Stream, Count
<1> QED BY <1>1, RecvInductive, PTL

\* However recvMessage ends, no filling is left in the string.
THEOREM FillingIsCut == Spec => []NoFillingLeft
<1>1. IndInv => NoFillingLeft
  <2> SUFFICES ASSUME IndInv, pc \in {"returned", "threw"}
               PROVE  message = SubSeq(Stream, 1, dataRead)
    BY DEF NoFillingLeft
  <2>1. message = Count(dataRead)
    BY CountUnique DEF IndInv, TypeOK, RecvInv
  <2>2. Stream \in Seq(Nat) /\ Len(Stream) = sent
    BY DEF Stream, IndInv, TypeOK
  <2>3. SubSeq(Stream, 1, dataRead) = Count(dataRead)
    BY <2>2, CountCut DEF IndInv, TypeOK, RecvInv, Stream
  <2> QED BY <2>1, <2>3
<1> QED BY <1>1, RecvInductive, PTL

-----------------------------------------------------------------------------
(* The refinement. *)

\* The bytes received, as the refinement mapping has them.
Delivered == IF pc = "call" THEN <<>> ELSE SubSeq(message, 1, dataRead)

\* They are the first ones of the stream.
LEMMA Mapped == IndInv => Delivered = Count(dataRead)
<1> SUFFICES ASSUME IndInv PROVE Delivered = Count(dataRead)
  OBVIOUS
<1> USE DEF IndInv, TypeOK, RecvInv
<1>1. CASE pc = "call"
  BY <1>1 DEF Count, Delivered
<1>2. CASE pc # "call"
  <2>1. dataRead <= Len(message) /\ \A i \in 1..dataRead : message[i] = i
    BY <1>2
  <2>2. SubSeq(message, 1, dataRead) = Count(dataRead)
    BY <2>1, CountCut
  <2> QED BY <1>2, <2>2 DEF Delivered
<1> QED BY <1>1, <1>2

\* A step of recvMessage or of its peer is a step of the transfer: a read
\* delivers, the end of the call ends it, the peer offers.
LEMMA StepDelivers ==
  ASSUME IndInv, IndInv', Delivered = Count(dataRead), Delivered' = Count(dataRead'),
         [Next]_vars
  PROVE  [Transfer!Next]_(Transfer!vars)
<1> USE DEF Transfer!Next, Transfer!vars
<1>1. Stream = Count(sent) /\ Stream' = Count(sent')
  BY DEF Stream, Count
<1>2. /\ sent \in Nat /\ sent' \in Nat /\ dataRead \in Nat /\ dataRead' \in Nat
      /\ dataRead <= sent /\ dataRead' <= sent'
  BY DEF IndInv, TypeOK, RecvInv
<1>3. CASE UNCHANGED vars
  BY <1>3 DEF vars, Stream
<1>4. CASE Call
  <2>1. UNCHANGED <<sent, dataRead>> /\ pc = "call" /\ pc' = "read"
    BY <1>4 DEF Call
  <2>2. UNCHANGED <<Stream, Delivered>>
    BY <1>1, <2>1
  <2> QED BY <2>1, <2>2 DEF Delivered
<1>5. ASSUME NEW k \in 1..MaxSent, Read(k) PROVE Transfer!Deliver
  <2>1. /\ sent' = sent /\ pc = "read" /\ pc' = "read"
        /\ dataRead <= dataRead'
    BY <1>5, <1>2 DEF Read
  <2>2. Transfer!IsPrefix(Delivered, Delivered') /\ Transfer!IsPrefix(Delivered', Stream)
    BY <1>1, <1>2, <2>1, CountPrefix
  <2> QED BY <1>1, <2>1, <2>2 DEF Transfer!Deliver, Delivered
<1>6. CASE Return \/ Throw
  <2>1. /\ UNCHANGED <<sent, dataRead>> /\ pc = "read" /\ pc' \in {"returned", "threw"}
        /\ pc' = "returned" => dataRead = sent
    BY <1>6 DEF Return, Throw, IndInv, RecvInv
  <2>2. UNCHANGED <<Stream, Delivered>> /\ (pc' = "returned" => Delivered = Stream)
    BY <1>1, <2>1
  <2>3. Transfer!End
    BY <2>1, <2>2 DEF Transfer!End, Delivered
  <2> QED BY <2>3
<1>7. CASE PeerSends
  <2>1. sent <= sent' /\ UNCHANGED <<pc, message, dataRead>>
    BY <1>7, <1>2, SimpleRecvAssumption DEF PeerSends
  <2>2. Transfer!IsPrefix(Stream, Stream')
    BY <1>1, <1>2, <2>1, CountPrefix
  <2>3. Transfer!Offer
    BY <2>1, <2>2 DEF Transfer!Offer
  <2> QED BY <2>3
<1>8. CASE PeerLeaves
  BY <1>8, <1>1 DEF PeerLeaves
<1> QED BY <1>3, <1>4, <1>5, <1>6, <1>7, <1>8 DEF Next, Recv

\* recvMessage implements the abstract transfer: what it has received is always
\* a prefix of what was sent, and a normal return is a complete transfer.
THEOREM RecvImplementsDelivery == Spec => ImplementsDelivery
<1>1. Init => Transfer!Init
  <2> SUFFICES ASSUME Init PROVE Transfer!Init
    OBVIOUS
  <2>1. Stream = <<>>
    BY DEF Init, Stream
  <2> QED BY <2>1 DEF Init, Transfer!Init
<1>2. IndInv => Delivered = Count(dataRead)
  BY Mapped
<1>3. /\ IndInv /\ Delivered = Count(dataRead)
      /\ IndInv' /\ (Delivered = Count(dataRead))'
      /\ [Next]_vars
      => [Transfer!Next]_(Transfer!vars)
  BY StepDelivers
<1> QED BY <1>1, <1>2, <1>3, RecvInductive, PTL DEF Spec, ImplementsDelivery, Transfer!Spec
=============================================================================
