----------------------------- MODULE SimpleRecv -----------------------------
(***************************************************************************)
(* ProtocolSimple::recvMessage, which reads a connection up to its end     *)
(* into a growing string: HandleSTOR receives its file with it.  Around    *)
(* every read a StringSizer first resizes the string to its capacity, so   *)
(* that getMessage can write into it, and at the end of the scope cuts it  *)
(* to the bytes read.  getMessage reports "no room" and "end of file" in   *)
(* the same way, as 0.                                                     *)
(*                                                                         *)
(* A byte is its number in the peer's stream; 0 is the filling of resize.  *)
(***************************************************************************)
EXTENDS Integers, SequencesExt

CONSTANTS
    FirstCapacity,  \* capacity of the caller's string (15 for an empty one)
    Slacks,         \* by how much reserve may round the capacity up
    MaxSent         \* bound on the bytes the peer sends

ASSUME SimpleRecvAssumption ==
    /\ FirstCapacity \in Nat /\ FirstCapacity >= 2
    /\ Slacks \subseteq Nat
    /\ MaxSent \in Nat

VARIABLES
    ssl,        \* getSSL() is not null
    sent,       \* bytes the peer has sent
    peer,       \* the peer's end: "open", "closed" or "reset"
    pc,         \* "call", "read", "returned" or "threw"
    message,    \* the string's characters
    capacity,   \* its capacity
    dataRead    \* bytes received

vars == <<ssl, sent, peer, pc, message, capacity, dataRead>>

TypeOK ==
    /\ ssl \in BOOLEAN
    /\ sent \in Nat
    /\ peer \in {"open", "closed", "reset"}
    /\ pc \in {"call", "read", "returned", "threw"}
    /\ message \in Seq(Nat)
    /\ capacity \in Nat
    /\ dataRead \in Nat

\* string::resize: cut, or fill up with NUL.
Resized(s, n) == [i \in 1..n |-> IF i <= Len(s) THEN s[i] ELSE 0]

\* What is left in the string of an earlier message does not matter.
Init ==
    /\ ssl \in BOOLEAN
    /\ sent = 0 /\ peer = "open"
    /\ pc = "call" /\ dataRead = 0
    /\ message = <<>> /\ capacity = FirstCapacity

-----------------------------------------------------------------------------
\* Mutant: the string never grows.
NeverReserve(c) == {c}

\* The capacities that message.reserve(message.capacity() * 1.5 + 10) may lead to.
Reserved(c) == {(3 * c) \div 2 + 10 + s : s \in Slacks}

\* Mutant: buffer instead of buffer + dataRead.
StoredAtStart(s, k) ==
    [i \in DOMAIN s |-> IF i \in 1..k THEN dataRead + i ELSE s[i]]

\* The string after k bytes were read to buffer + dataRead.
Stored(s, k) ==
    [i \in DOMAIN s |-> IF i \in dataRead + 1..dataRead + k THEN i ELSE s[i]]

Room == capacity - 1 - dataRead

\* The call: clear, and the first StringSizer.
Call ==
    /\ pc = "call" /\ pc' = "read"
    /\ message' = Resized(<<>>, capacity)
    /\ UNCHANGED <<ssl, sent, peer, capacity, dataRead>>

\* One read returns k bytes.  Then, in this order: the string grows, the old
\* StringSizer cuts it to the bytes read, the next one fills it up.
Read(k) ==
    /\ pc = "read" /\ peer # "reset"
    /\ k \in 1..Room /\ dataRead + k <= sent
    /\ dataRead' = dataRead + k
    /\ capacity' \in Reserved(capacity)
    /\ message' = Resized(Resized(Stored(message, k), dataRead'), capacity')
    /\ UNCHANGED <<ssl, sent, peer, pc>>

\* getMessage returns 0: the plain connection is at its end, or the loop was
\* not entered because there is no room.
GotNothing == IF Room > 0 THEN peer = "closed" /\ dataRead = sent /\ ~ssl ELSE TRUE

Return ==
    /\ pc = "read" /\ GotNothing
    /\ pc' = "returned"
    /\ message' = Resized(message, dataRead)
    /\ UNCHANGED <<ssl, sent, peer, capacity, dataRead>>

\* getMessage throws: the connection was reset, or SSL_read is at its end.
\* The StringSizer's destructor still cuts the string.
Throw ==
    /\ pc = "read" /\ Room > 0
    /\ peer = "reset" \/ (ssl /\ peer = "closed" /\ dataRead = sent)
    /\ pc' = "threw"
    /\ message' = Resized(message, dataRead)
    /\ UNCHANGED <<ssl, sent, peer, capacity, dataRead>>

-----------------------------------------------------------------------------
PeerSends ==
    /\ peer = "open" /\ sent < MaxSent
    /\ sent' \in sent + 1..MaxSent
    /\ UNCHANGED <<ssl, peer, pc, message, capacity, dataRead>>

PeerLeaves ==
    /\ peer = "open" /\ peer' \in {"closed", "reset"}
    /\ UNCHANGED <<ssl, sent, pc, message, capacity, dataRead>>

Recv == Call \/ (\E k \in 1..MaxSent : Read(k)) \/ Return \/ Throw
Next == Recv \/ PeerSends \/ PeerLeaves

Spec == Init /\ [][Next]_vars

-----------------------------------------------------------------------------
(* Properties. *)

Stream == [i \in 1..sent |-> i]

\* recvMessage returns normally only with the peer's whole stream, byte for
\* byte and nothing else, and only after the peer has closed: the 0 of a full
\* buffer is never mistaken for the end of the file.
ReturnsWhole == pc = "returned" => message = Stream /\ peer = "closed"

\* However it ends, the string holds what was received and no filling.
NoFillingLeft == pc \in {"returned", "threw"} => message = SubSeq(Stream, 1, dataRead)

\* The abstract transfer it implements.
Transfer == INSTANCE Delivery WITH
    source <- Stream,
    delivered <- IF pc = "call" THEN <<>> ELSE SubSeq(message, 1, dataRead),
    outcome <- CASE pc = "returned" -> "complete"
                 [] pc = "threw" -> "failed"
                 [] OTHER -> "running"

\* What has been received is at any time a prefix of what was sent, and never
\* shrinks or changes, although the string is moved, filled and cut.
ImplementsDelivery == Transfer!Spec
=============================================================================
