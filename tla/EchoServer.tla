----------------------------- MODULE EchoServer -----------------------------
(***************************************************************************)
(* sserver.cpp: a TLS server that echoes what it receives, one connection  *)
(* after the other in one thread.  The results of listen and SSL_accept    *)
(* are ignored, a failed accept (-1) counts as a connection, and SIGPIPE   *)
(* has its default effect.                                                 *)
(*                                                                         *)
(* A byte is its number in the client's stream.                            *)
(***************************************************************************)
EXTENDS Integers, SequencesExt

CONSTANTS
    BufSize,    \* 1024: the most one SSL_read takes
    InWindow,   \* bytes in flight from the client that the kernels hold
    OutWindow,  \* bytes in flight to the client
    MaxSent,    \* bytes the client wants to send on a connection
    MaxConns    \* bound on the connections

ASSUME EchoServerAssumption ==
    /\ {BufSize, InWindow, OutWindow} \subseteq Nat \ {0}
    /\ {MaxSent, MaxConns} \subseteq Nat

VARIABLES
    listening,  \* listen succeeded
    pc,         \* where main is
    tls,        \* the handshake of this connection is done
    taken,      \* bytes read from the client
    buf,        \* those that have not been written back: buf + offset, len
    echo,       \* the bytes written back
    clean,      \* SSL_read reported close_notify
    conns,      \* connections so far
    batch,      \* the client writes all it has before it reads
    sent,       \* bytes the client has written
    back,       \* bytes of echo it has read
    peer        \* "open", "closed" by the client, "reset" since, or "aborted"

server == <<listening, pc, tls, taken, buf, echo, clean, conns>>
client == <<batch, sent, back, peer>>
vars == <<server, client>>

Gone == peer \in {"reset", "aborted"}
Stopped == pc \in {"exit", "killed"}

TypeOK ==
    /\ listening \in BOOLEAN /\ tls \in BOOLEAN /\ clean \in BOOLEAN /\ batch \in BOOLEAN
    /\ pc \in {"start", "accept", "tls", "read", "write", "end", "exit", "killed"}
    /\ sent \in 0..MaxSent /\ taken \in 0..sent
    /\ buf \in Seq(Nat) /\ Len(buf) <= BufSize
    /\ echo \in Seq(Nat) /\ back \in 0..Len(echo)
    /\ conns \in 0..MaxConns
    /\ peer \in {"open", "closed", "reset", "aborted"}

Init ==
    /\ listening = FALSE /\ pc = "start" /\ tls = FALSE
    /\ taken = 0 /\ buf = <<>> /\ echo = <<>> /\ clean = FALSE /\ conns = 0
    /\ batch \in BOOLEAN /\ sent = 0 /\ back = 0 /\ peer = "open"

-----------------------------------------------------------------------------
(* The server. *)

\* socket and bind are checked, listen is not.
Start ==
    /\ pc = "start"
    /\ pc' \in {"accept", "exit"}
    /\ listening' \in IF pc' = "accept" THEN BOOLEAN ELSE {FALSE}
    /\ UNCHANGED <<tls, taken, buf, echo, clean, conns, client>>

\* accept, with -1 as good as a descriptor, and the SSL_CTX, which may fail.
Accept ==
    /\ pc = "accept" /\ conns < MaxConns
    /\ pc' \in {"tls", "exit"}
    /\ conns' = conns + 1
    /\ UNCHANGED <<listening, tls, taken, buf, echo, clean, client>>

\* SSL_accept, whose result is ignored; on descriptor -1 it fails.
SSL_accept ==
    /\ pc = "tls" /\ pc' = "read"
    /\ tls' \in IF listening /\ peer = "open" THEN BOOLEAN ELSE {FALSE}
    /\ UNCHANGED <<listening, taken, buf, echo, clean, conns, client>>

SSL_read(k) ==
    /\ pc = "read" /\ tls /\ ~Gone
    /\ k \in 1..BufSize /\ taken + k <= sent
    /\ taken' = taken + k
    /\ buf' = [i \in 1..k |-> taken + i]
    /\ pc' = "write"
    /\ UNCHANGED <<listening, tls, echo, clean, conns, client>>

\* close_notify or the end of the stream, once everything is read; an error on
\* a broken connection or one without handshake.
ReadEnds ==
    /\ pc = "read"
    /\ ~tls \/ Gone \/ (peer = "closed" /\ taken = sent)
    /\ pc' = "end"
    /\ clean' \in IF tls /\ ~Gone THEN BOOLEAN ELSE {FALSE}
    /\ UNCHANGED <<listening, tls, taken, buf, echo, conns, client>>

\* Mutant: len -= r without offset += r.
SSL_writeNoOffset(k) ==
    /\ pc = "write" /\ ~Gone
    /\ k \in 1..Len(buf) /\ Len(echo) - back + k <= OutWindow
    /\ echo' = echo \o SubSeq(buf, 1, k)
    /\ buf' = SubSeq(buf, 1, Len(buf) - k)
    /\ pc' = IF buf' = <<>> THEN "read" ELSE "write"
    /\ UNCHANGED <<listening, tls, taken, clean, conns, client>>

\* Mutant: the write is done once; what it did not take is dropped.
SSL_writeOnce(k) ==
    /\ pc = "write" /\ ~Gone
    /\ k \in 1..Len(buf) /\ Len(echo) - back + k <= OutWindow
    /\ echo' = echo \o SubSeq(buf, 1, k)
    /\ buf' = <<>> /\ pc' = "read"
    /\ UNCHANGED <<listening, tls, taken, clean, conns, client>>

\* Mutant: a partial write is followed by the whole buffer again.
SSL_writeRepeats(k) ==
    /\ pc = "write" /\ ~Gone
    /\ k \in 1..Len(buf) /\ Len(echo) - back + k <= OutWindow
    /\ Len(echo) < 2 * MaxSent
    /\ echo' = echo \o SubSeq(buf, 1, k)
    /\ buf' = IF k = Len(buf) THEN <<>> ELSE buf
    /\ pc' = IF buf' = <<>> THEN "read" ELSE "write"
    /\ UNCHANGED <<listening, tls, taken, clean, conns, client>>

\* The write loop, as far as the kernel takes bytes.
SSL_write(k) ==
    /\ pc = "write" /\ ~Gone
    /\ k \in 1..Len(buf) /\ Len(echo) - back + k <= OutWindow
    /\ echo' = echo \o SubSeq(buf, 1, k)
    /\ buf' = SubSeq(buf, k + 1, Len(buf))
    /\ pc' = IF buf' = <<>> THEN "read" ELSE "write"
    /\ UNCHANGED <<listening, tls, taken, clean, conns, client>>

\* A write on a broken connection fails, or SIGPIPE ends the process.
WriteFails ==
    /\ pc = "write" /\ Gone
    /\ pc' \in {"end", "killed"}
    /\ UNCHANGED <<listening, tls, taken, buf, echo, clean, conns, client>>

\* SSL_shutdown, once, which writes; then the BIO closes the descriptor and
\* main goes back to accept, where the next client waits.
Finish ==
    /\ pc = "end"
    /\ \/ /\ Gone /\ tls
          /\ pc' = "killed"
          /\ UNCHANGED <<tls, taken, buf, echo, clean, client>>
       \/ /\ pc' = "accept"
          /\ tls' = FALSE /\ taken' = 0 /\ buf' = <<>> /\ echo' = <<>> /\ clean' = FALSE
          /\ batch' \in BOOLEAN /\ sent' = 0 /\ back' = 0 /\ peer' = "open"
    /\ UNCHANGED <<listening, conns>>

Server ==
    \/ Start \/ Accept \/ SSL_accept \/ ReadEnds \/ WriteFails \/ Finish
    \/ \E k \in 1..BufSize : SSL_read(k) \/ SSL_write(k)

-----------------------------------------------------------------------------
(* The client: application data flows once the handshake is done. *)

ClientWrites ==
    /\ tls /\ peer = "open" /\ pc # "end" /\ ~Stopped
    /\ sent < MaxSent /\ sent - taken < InWindow
    /\ sent' = sent + 1
    /\ UNCHANGED <<server, batch, back, peer>>

ClientReads ==
    /\ peer = "open" /\ back < Len(echo)
    /\ batch => sent = MaxSent
    /\ back' = back + 1
    /\ UNCHANGED <<server, batch, sent, peer>>

\* It closes or vanishes, also before the handshake.
ClientLeaves ==
    /\ peer = "open" /\ peer' \in {"closed", "aborted"}
    /\ UNCHANGED <<server, batch, sent, back>>

\* Echoed bytes that reach a closed client are answered with a reset.
LateEcho ==
    /\ peer = "closed" /\ back < Len(echo)
    /\ peer' = "reset"
    /\ UNCHANGED <<server, batch, sent, back>>

-----------------------------------------------------------------------------
Next == Server \/ ClientWrites \/ ClientReads \/ ClientLeaves \/ LateEcho

Spec == Init /\ [][Next]_vars

\* The server runs; a client that waits for its echo reads it.
FairSpec == Spec /\ WF_vars(Server) /\ WF_vars(ClientReads)

-----------------------------------------------------------------------------
(* Properties. *)

\* Server and client both wait in a write for the other to read.
Stuck ==
    /\ pc = "write" /\ Len(echo) - back = OutWindow
    /\ peer = "open" /\ batch /\ sent < MaxSent /\ sent - taken = InWindow

\* They come to that only when the client has written more than the windows of
\* both directions hold without reading: below that no client gets stuck.
StuckOnlyBeyondWindows == Stuck => sent > InWindow + OutWindow

\* The whole server dies of SIGPIPE only through a client that vanished or
\* closed without reading all of its echo.
KilledOnlyByDeserter == pc = "killed" => peer = "aborted" \/ back < sent

Transfer == INSTANCE Delivery WITH
    source <- [i \in 1..sent |-> i],
    delivered <- echo,
    outcome <- IF clean THEN "complete"
               ELSE IF pc = "end" \/ Stopped THEN "failed"
               ELSE "running"

\* "echos back anything it receives": on every connection the echo is at all
\* times a prefix of what was sent, and after a clean end it is all of it.
ImplementsDelivery == Transfer!Spec

\* And to a client that stays and reads along, every byte comes back.
EchoReturns ==
    \A n \in 1..MaxSent :
        sent = n /\ ~batch ~> back >= n \/ peer # "open" \/ Stopped \/ sent < n
=============================================================================
