---------------------------- MODULE ServerProofs ----------------------------
(***************************************************************************)
(* The socket classes and the servers' main functions, proved for any      *)
(* number of objects, descriptors, SSL objects and threads.  The first     *)
(* half is about the classes alone, whatever program uses them (Spec of    *)
(* Sockets).  The second shows that the servers use them so (ServerSpec    *)
(* implements Spec, and inherits its invariant), and that they hand each   *)
(* connection from accept to its thread without losing or sharing it.      *)
(***************************************************************************)
EXTENDS Server, TLAPS

-----------------------------------------------------------------------------
(* Part 1.  Ownership of descriptors and SSL objects. *)

\* What each stage of an object's life lets it hold.
StageInv ==
    \A o \in Objs :
        /\ life[o] \in {"raw", "ctor", "linked", "base"} => m_ssl[o] = nullSSL
        /\ life[o] = "raw" => m_socket[o] = invalidSocket
        /\ life[o] \in {"linked", "tls"} => m_socket[o] # invalidSocket
        /\ life[o] = "tls" => m_ssl[o] # nullSSL /\ m_ssl[o] \notin up

\* An SSL follows the descriptor it was bound to, except in a ConnectSocket
\* whose handshake failed: there the descriptor is already closed.
BoundInv ==
    \A o \in Objs :
        m_ssl[o] # nullSSL =>
            \/ bound[m_ssl[o]] = m_socket[o] /\ m_socket[o] # invalidSocket
            \/ m_socket[o] = invalidSocket /\ m_ssl[o] \notin up

\* Only allocated SSL objects have completed a handshake.
UpInv == up \subseteq heap

\* The inductive invariant.
IndInv ==
    /\ TypeOK
    /\ SingleOwner
    /\ NothingStray
    /\ JunkContextIsInert
    /\ StageInv
    /\ BoundInv
    /\ UpInv

-----------------------------------------------------------------------------
\* No object exists at the start of the process, so nothing is held.
LEMMA InitInv == Init => IndInv
<1> SUFFICES ASSUME Init PROVE IndInv
    OBVIOUS
<1> USE DEF Init
<1>1. TypeOK
  BY DEF TypeOK, Stages
<1>2. SingleOwner /\ JunkContextIsInert /\ UpInv
  BY DEF SingleOwner, JunkContextIsInert, UpInv
<1>3. NothingStray
  BY DEF NothingStray
<1>4. StageInv /\ BoundInv
  BY DEF StageInv, BoundInv
<1> QED BY <1>1, <1>2, <1>3, <1>4 DEF IndInv

\* The steps of the constructors, of accept and of the handshakes preserve the
\* invariant, failures included.
LEMMA ConstructInv ==
  ASSUME NEW o \in Objs, IndInv, Construct(o)
  PROVE  IndInv'
<1> USE SocketsAssumption DEF IndInv, Objs
<1>1. ASSUME o \in ServerObjs \cup ConnectObjs, NEW f \in Fds \cup {invalidSocket},
             NEW c \in {"ctx", "null"}, Socket(o, f, c)
      PROVE  IndInv'
  <2>1. TypeOK'
    BY <1>1 DEF Socket, TypeOK, Stages
  <2>2. SingleOwner'
    BY <1>1 DEF Socket, TypeOK, SingleOwner, NothingStray, StageInv
  <2>3. NothingStray'
    BY <1>1 DEF Socket, TypeOK, NothingStray, SingleOwner, StageInv
  <2>4. JunkContextIsInert'
    BY <1>1 DEF Socket, TypeOK, JunkContextIsInert, StageInv
  <2>5. StageInv'
    BY <1>1 DEF Socket, TypeOK, StageInv, SingleOwner, NothingStray, UpInv
  <2>6. BoundInv'
    BY <1>1 DEF Socket, TypeOK, BoundInv, StageInv, SingleOwner, NothingStray, UpInv
  <2>7. UpInv'
    BY <1>1 DEF Socket, TypeOK, UpInv, StageInv, NothingStray, SingleOwner
  <2> QED BY <2>1, <2>2, <2>3, <2>4, <2>5, <2>6, <2>7
<1>2. CASE SetupFails(o)
  <2>1. TypeOK'
    BY <1>2 DEF SetupFails, close, TypeOK, Stages
  <2>2. SingleOwner'
    BY <1>2 DEF SetupFails, close, TypeOK, SingleOwner, NothingStray, StageInv
  <2>3. NothingStray'
    BY <1>2 DEF SetupFails, close, TypeOK, NothingStray, SingleOwner, StageInv
  <2>4. JunkContextIsInert'
    BY <1>2 DEF SetupFails, close, TypeOK, JunkContextIsInert, StageInv
  <2>5. StageInv'
    BY <1>2 DEF SetupFails, close, TypeOK, StageInv, SingleOwner, NothingStray, UpInv
  <2>6. BoundInv'
    BY <1>2
       DEF SetupFails, close, TypeOK, BoundInv, StageInv, SingleOwner,
           NothingStray, UpInv
  <2>7. UpInv'
    BY <1>2 DEF SetupFails, close, TypeOK, UpInv, StageInv, NothingStray, SingleOwner
  <2> QED BY <2>1, <2>2, <2>3, <2>4, <2>5, <2>6, <2>7
<1>3. CASE Connected(o)
  <2>1. TypeOK'
    BY <1>3 DEF Connected, TypeOK, Stages
  <2>2. StageInv'
    BY <1>3 DEF Connected, TypeOK, StageInv, SingleOwner, NothingStray, UpInv
  <2>3. SingleOwner' /\ NothingStray' /\ JunkContextIsInert' /\ BoundInv' /\ UpInv'
    BY <1>3
       DEF Connected, SingleOwner, NothingStray, JunkContextIsInert, BoundInv,
           UpInv
  <2> QED BY <2>1, <2>2, <2>3
<1>4. CASE Listening(o)
  <2>1. TypeOK'
    BY <1>4 DEF Listening, TypeOK, Stages
  <2>2. StageInv'
    BY <1>4 DEF Listening, TypeOK, StageInv, SingleOwner, NothingStray, UpInv
  <2>3. SingleOwner' /\ NothingStray' /\ JunkContextIsInert' /\ BoundInv' /\ UpInv'
    BY <1>4
       DEF Listening, SingleOwner, NothingStray, JunkContextIsInert, BoundInv,
           UpInv
  <2> QED BY <2>1, <2>2, <2>3
<1>5. ASSUME NEW l \in ServerObjs, NEW f \in Fds, Accept(l, o, f)
      PROVE  IndInv'
  <2>1. TypeOK'
    BY <1>5 DEF Accept, TypeOK, Stages
  <2>2. SingleOwner'
    BY <1>5 DEF Accept, TypeOK, SingleOwner, NothingStray, StageInv
  <2>3. NothingStray'
    BY <1>5 DEF Accept, TypeOK, NothingStray, SingleOwner, StageInv
  <2>4. JunkContextIsInert'
    BY <1>5 DEF Accept, TypeOK, JunkContextIsInert, StageInv
  <2>5. StageInv'
    BY <1>5 DEF Accept, TypeOK, StageInv, SingleOwner, NothingStray, UpInv
  <2>6. BoundInv'
    BY <1>5 DEF Accept, TypeOK, BoundInv, StageInv, SingleOwner, NothingStray, UpInv
  <2>7. UpInv'
    BY <1>5 DEF Accept, TypeOK, UpInv, StageInv, NothingStray, SingleOwner
  <2> QED BY <2>1, <2>2, <2>3, <2>4, <2>5, <2>6, <2>7
<1>6. ASSUME NEW s \in Ssls, newSSL(o, s)
      PROVE  IndInv'
  <2>1. TypeOK'
    BY <1>6 DEF newSSL, TypeOK, Stages
  <2>2. SingleOwner'
    BY <1>6 DEF newSSL, TypeOK, SingleOwner, NothingStray, StageInv
  <2>3. NothingStray'
    BY <1>6 DEF newSSL, TypeOK, NothingStray, SingleOwner, StageInv
  <2>4. JunkContextIsInert'
    BY <1>6 DEF newSSL, TypeOK, JunkContextIsInert, StageInv
  <2>5. StageInv'
    BY <1>6 DEF newSSL, TypeOK, StageInv, SingleOwner, NothingStray, UpInv
  <2>6. BoundInv'
    BY <1>6 DEF newSSL, TypeOK, BoundInv, StageInv, SingleOwner, NothingStray, UpInv
  <2>7. UpInv'
    BY <1>6 DEF newSSL, TypeOK, UpInv, StageInv, NothingStray, SingleOwner
  <2> QED BY <2>1, <2>2, <2>3, <2>4, <2>5, <2>6, <2>7
<1>7. CASE newSSLFails(o)
  <2>1. TypeOK'
    BY <1>7 DEF newSSLFails, TypeOK, Stages
  <2>2. StageInv'
    BY <1>7 DEF newSSLFails, TypeOK, StageInv, SingleOwner, NothingStray, UpInv
  <2>3. SingleOwner' /\ NothingStray' /\ JunkContextIsInert' /\ BoundInv' /\ UpInv'
    BY <1>7
       DEF newSSLFails, SingleOwner, NothingStray, JunkContextIsInert, BoundInv,
           UpInv
  <2> QED BY <2>1, <2>2, <2>3
<1>8. CASE HandshakeDone(o)
  <2>1. TypeOK'
    BY <1>8 DEF HandshakeDone, TypeOK, Stages, StageInv
  <2>2. StageInv'
    BY <1>8 DEF HandshakeDone, TypeOK, StageInv, SingleOwner, NothingStray, UpInv
  <2>3. BoundInv'
    BY <1>8
       DEF HandshakeDone, TypeOK, BoundInv, StageInv, SingleOwner, NothingStray,
           UpInv
  <2>4. UpInv'
    BY <1>8 DEF HandshakeDone, TypeOK, UpInv, StageInv, NothingStray, SingleOwner
  <2>5. SingleOwner' /\ NothingStray' /\ JunkContextIsInert'
    BY <1>8 DEF HandshakeDone, SingleOwner, NothingStray, JunkContextIsInert
  <2> QED BY <2>1, <2>2, <2>3, <2>4, <2>5
<1>9. CASE AcceptHandshakeFails(o)
  <2>1. TypeOK'
    BY <1>9 DEF AcceptHandshakeFails, TypeOK, Stages
  <2>2. StageInv'
    BY <1>9 DEF AcceptHandshakeFails, TypeOK, StageInv, SingleOwner, NothingStray, UpInv
  <2>3. SingleOwner' /\ NothingStray' /\ JunkContextIsInert' /\ BoundInv' /\ UpInv'
    BY <1>9
       DEF AcceptHandshakeFails, SingleOwner, NothingStray, JunkContextIsInert,
           BoundInv, UpInv
  <2> QED BY <2>1, <2>2, <2>3
<1>10. CASE ConnectHandshakeFails(o)
  <2>1. TypeOK'
    BY <1>10 DEF ConnectHandshakeFails, close, TypeOK, Stages
  <2>2. SingleOwner'
    BY <1>10
       DEF ConnectHandshakeFails, close, TypeOK, SingleOwner, NothingStray,
           StageInv
  <2>3. NothingStray'
    BY <1>10
       DEF ConnectHandshakeFails, close, TypeOK, NothingStray, SingleOwner,
           StageInv
  <2>4. JunkContextIsInert'
    BY <1>10 DEF ConnectHandshakeFails, close, TypeOK, JunkContextIsInert, StageInv
  <2>5. StageInv'
    BY <1>10
       DEF ConnectHandshakeFails, close, TypeOK, StageInv, SingleOwner,
           NothingStray, UpInv
  <2>6. BoundInv'
    BY <1>10
       DEF ConnectHandshakeFails, close, TypeOK, BoundInv, StageInv, SingleOwner,
           NothingStray, UpInv
  <2>7. UpInv'
    BY <1>10
       DEF ConnectHandshakeFails, close, TypeOK, UpInv, StageInv, NothingStray,
           SingleOwner
  <2> QED BY <2>1, <2>2, <2>3, <2>4, <2>5, <2>6, <2>7
<1> QED BY <1>1, <1>2, <1>3, <1>4, <1>5, <1>6, <1>7, <1>8, <1>9, <1>10 DEF Construct

\* A move exchanges what two objects hold and preserves the invariant.
LEMMA MoveInv ==
  ASSUME NEW o \in Objs, IndInv, Move(o)
  PROVE  IndInv'
<1> USE SocketsAssumption DEF IndInv, Objs
<1>1. ASSUME NEW src \in Objs, MoveConstruct(o, src)
      PROVE  IndInv'
  <2>1. TypeOK'
    BY <1>1 DEF MoveConstruct, Swapped, TypeOK, Stages
  <2>2. SingleOwner'
    BY <1>1 DEF MoveConstruct, Swapped, TypeOK, SingleOwner, NothingStray, StageInv
  <2>3. NothingStray'
    BY <1>1 DEF MoveConstruct, Swapped, TypeOK, NothingStray, SingleOwner, StageInv
  <2>4. JunkContextIsInert'
    BY <1>1 DEF MoveConstruct, Swapped, TypeOK, JunkContextIsInert, StageInv
  <2>5. StageInv'
    BY <1>1
       DEF MoveConstruct, Swapped, TypeOK, StageInv, SingleOwner, NothingStray,
           UpInv
  <2>6. BoundInv'
    BY <1>1
       DEF MoveConstruct, Swapped, TypeOK, BoundInv, StageInv, SingleOwner,
           NothingStray, UpInv
  <2>7. UpInv'
    BY <1>1
       DEF MoveConstruct, Swapped, TypeOK, UpInv, StageInv, NothingStray,
           SingleOwner
  <2> QED BY <2>1, <2>2, <2>3, <2>4, <2>5, <2>6, <2>7
<1>2. ASSUME NEW src \in Objs, MoveAssign(o, src)
      PROVE  IndInv'
  <2>1. TypeOK'
    BY <1>2 DEF MoveAssign, Swapped, TypeOK, Stages
  <2>2. SingleOwner'
    BY <1>2 DEF MoveAssign, Swapped, TypeOK, SingleOwner, NothingStray, StageInv
  <2>3. NothingStray'
    BY <1>2 DEF MoveAssign, Swapped, TypeOK, NothingStray, SingleOwner, StageInv
  <2>4. JunkContextIsInert'
    BY <1>2 DEF MoveAssign, Swapped, TypeOK, JunkContextIsInert, StageInv
  <2>5. StageInv'
    BY <1>2 DEF MoveAssign, Swapped, TypeOK, StageInv, SingleOwner, NothingStray, UpInv
  <2>6. BoundInv'
    BY <1>2
       DEF MoveAssign, Swapped, TypeOK, BoundInv, StageInv, SingleOwner,
           NothingStray, UpInv
  <2>7. UpInv'
    BY <1>2 DEF MoveAssign, Swapped, TypeOK, UpInv, StageInv, NothingStray, SingleOwner
  <2> QED BY <2>1, <2>2, <2>3, <2>4, <2>5, <2>6, <2>7
<1> QED BY <1>1, <1>2 DEF Move

\* putClose, the two destructors and the lost pointer of ~ProtocolFtp preserve
\* the invariant.
LEMMA ReleaseInv ==
  ASSUME NEW o \in Objs, IndInv, Release(o)
  PROVE  IndInv'
<1> USE SocketsAssumption DEF IndInv, Objs
<1>1. CASE putClose(o)
  <2>1. TypeOK'
    BY <1>1 DEF putClose, closeSSL, TypeOK, Stages
  <2>2. SingleOwner'
    BY <1>1 DEF putClose, closeSSL, TypeOK, SingleOwner, NothingStray, StageInv
  <2>3. NothingStray'
    BY <1>1 DEF putClose, closeSSL, TypeOK, NothingStray, SingleOwner, StageInv
  <2>4. JunkContextIsInert'
    BY <1>1 DEF putClose, closeSSL, TypeOK, JunkContextIsInert, StageInv
  <2>5. StageInv'
    BY <1>1 DEF putClose, closeSSL, TypeOK, StageInv, SingleOwner, NothingStray, UpInv
  <2>6. BoundInv'
    BY <1>1
       DEF putClose, closeSSL, TypeOK, BoundInv, StageInv, SingleOwner,
           NothingStray, UpInv
  <2>7. UpInv'
    BY <1>1 DEF putClose, closeSSL, TypeOK, UpInv, StageInv, NothingStray, SingleOwner
  <2> QED BY <2>1, <2>2, <2>3, <2>4, <2>5, <2>6, <2>7
<1>2. CASE DestroySSLSocket(o)
  <2>1. TypeOK'
    BY <1>2 DEF DestroySSLSocket, closeSSL, TypeOK, Stages
  <2>2. SingleOwner'
    BY <1>2 DEF DestroySSLSocket, closeSSL, TypeOK, SingleOwner, NothingStray, StageInv
  <2>3. NothingStray'
    BY <1>2 DEF DestroySSLSocket, closeSSL, TypeOK, NothingStray, SingleOwner, StageInv
  <2>4. JunkContextIsInert'
    BY <1>2 DEF DestroySSLSocket, closeSSL, TypeOK, JunkContextIsInert, StageInv
  <2>5. StageInv'
    BY <1>2
       DEF DestroySSLSocket, closeSSL, TypeOK, StageInv, SingleOwner, NothingStray,
           UpInv
  <2>6. BoundInv'
    BY <1>2
       DEF DestroySSLSocket, closeSSL, TypeOK, BoundInv, StageInv, SingleOwner,
           NothingStray, UpInv
  <2>7. UpInv'
    BY <1>2
       DEF DestroySSLSocket, closeSSL, TypeOK, UpInv, StageInv, NothingStray,
           SingleOwner
  <2> QED BY <2>1, <2>2, <2>3, <2>4, <2>5, <2>6, <2>7
<1>3. CASE DestroyBaseSocket(o)
  <2>1. TypeOK'
    BY <1>3 DEF DestroyBaseSocket, close, TypeOK, Stages
  <2>2. SingleOwner'
    BY <1>3 DEF DestroyBaseSocket, close, TypeOK, SingleOwner, NothingStray, StageInv
  <2>3. NothingStray'
    BY <1>3 DEF DestroyBaseSocket, close, TypeOK, NothingStray, SingleOwner, StageInv
  <2>4. JunkContextIsInert'
    BY <1>3 DEF DestroyBaseSocket, close, TypeOK, JunkContextIsInert, StageInv
  <2>5. StageInv'
    BY <1>3
       DEF DestroyBaseSocket, close, TypeOK, StageInv, SingleOwner, NothingStray,
           UpInv
  <2>6. BoundInv'
    BY <1>3
       DEF DestroyBaseSocket, close, TypeOK, BoundInv, StageInv, SingleOwner,
           NothingStray, UpInv
  <2>7. UpInv'
    BY <1>3
       DEF DestroyBaseSocket, close, TypeOK, UpInv, StageInv, NothingStray,
           SingleOwner
  <2> QED BY <2>1, <2>2, <2>3, <2>4, <2>5, <2>6, <2>7
<1>4. CASE Forget(o)
  <2>1. TypeOK'
    BY <1>4 DEF Forget, TypeOK, Stages
  <2>2. StageInv'
    BY <1>4 DEF Forget, TypeOK, StageInv, SingleOwner, NothingStray, UpInv
  <2>3. SingleOwner' /\ NothingStray' /\ JunkContextIsInert' /\ BoundInv' /\ UpInv'
    BY <1>4 DEF Forget, SingleOwner, NothingStray, JunkContextIsInert, BoundInv, UpInv
  <2> QED BY <2>1, <2>2, <2>3
<1> QED BY <1>1, <1>2, <1>3, <1>4 DEF Release

\* Every step of the process, or a stuttering one, preserves the invariant.
LEMMA StepInv == IndInv /\ [Next]_vars => IndInv'
<1> SUFFICES ASSUME IndInv, [Next]_vars PROVE IndInv'
    OBVIOUS
<1>1. CASE Next
  <2>1. PICK o \in Objs : Construct(o) \/ Move(o) \/ Release(o)
    BY <1>1 DEF Next
  <2> QED BY <2>1, ConstructInv, MoveInv, ReleaseInv
<1>2. CASE UNCHANGED vars
  BY <1>2 DEF vars, IndInv, TypeOK, SingleOwner, NothingStray,
              JunkContextIsInert, StageInv, BoundInv, UpInv
<1> QED BY <1>1, <1>2

\* The invariant holds in every reachable state.
THEOREM Inductive == Spec => []IndInv
  BY InitInv, StepInv, PTL DEF Spec

-----------------------------------------------------------------------------
\* The fields of the socket objects, the descriptor table and the SSL objects
\* keep their types.
THEOREM TypeCorrect == Spec => []TypeOK
<1>1. IndInv => TypeOK
  BY DEF IndInv
<1> QED BY <1>1, Inductive, PTL

\* The swap-based moves and the two-stage destructors keep every descriptor
\* and every SSL with exactly one object, however threads interleave.
THEOREM UniqueOwnership == Spec => []SingleOwner
<1>1. IndInv => SingleOwner
  BY DEF IndInv
<1> QED BY <1>1, Inductive, PTL

\* No exception path in a constructor or in accept leaks a descriptor or an
\* SSL, and none is released twice.
THEOREM NoLeakNoDoubleFree == Spec => []NothingStray
<1>1. IndInv => NothingStray
  BY DEF IndInv
<1> QED BY <1>1, Inductive, PTL

\* TLS I/O, the close_notify of closeSSL included, goes to the connection of
\* the object it is called on.
THEOREM TlsStaysOnSocket == Spec => []TlsOnOwnSocket
<1>1. IndInv => TlsOnOwnSocket
  BY SocketsAssumption
     DEF IndInv, TypeOK, TlsOnOwnSocket, NothingStray, BoundInv, UpInv
<1> QED BY <1>1, Inductive, PTL

\* The context pointer the move constructor does not initialise cannot be read
\* by an operation on a connection.
THEOREM JunkIsInert == Spec => []JunkContextIsInert
<1>1. IndInv => JunkContextIsInert
  BY DEF IndInv
<1> QED BY <1>1, Inductive, PTL

\* The step form of NeverClosedInUse.
LEMMA ClosedByOwner ==
  ASSUME IndInv, [Next]_vars
  PROVE  \A o \in Objs :
            m_socket[o] \in open \ open' => life[o] \in {"ctor", "tls", "base"}
<1> USE SocketsAssumption
<1>1. CASE UNCHANGED vars
  BY <1>1 DEF vars
<1>2. CASE Next
  <2>1. PICK p \in Objs : Construct(p) \/ Move(p) \/ Release(p)
    BY <1>2 DEF Next
  <2>2. \/ open \subseteq open'
        \/ /\ open' = open \ {m_socket[p]}
           /\ life[p] \in {"ctor", "tls", "base"}
    <3>1. CASE Construct(p)
      BY <3>1 DEF Construct, Socket, SetupFails, Connected, Listening, Accept,
                  newSSL, newSSLFails, HandshakeDone, AcceptHandshakeFails,
                  ConnectHandshakeFails, close
    <3>2. CASE Move(p)
      BY <3>2 DEF Move, MoveConstruct, MoveAssign
    <3>3. CASE Release(p)
      BY <3>3 DEF Release, putClose, DestroySSLSocket, DestroyBaseSocket, Forget, close
    <3> QED BY <2>1, <3>1, <3>2, <3>3
  <2> QED BY <2>2 DEF IndInv, TypeOK, SingleOwner
<1> QED BY <1>1, <1>2

\* No thread ever closes the descriptor of an object that is in use.
THEOREM DescriptorStaysOpen == Spec => NeverClosedInUse
  BY Inductive, ClosedByOwner, PTL DEF Spec, NeverClosedInUse

-----------------------------------------------------------------------------
(* Part 2.  The servers. *)

\* A connection that can be served: over TLS the handshake is done.
Ready(o) ==
    /\ life[o] = "live"
    /\ m_socket[o] # invalidSocket
    /\ m_ssl[o] = nullSSL \/ m_ssl[o] \in up
    /\ m_sslctx[o] = "ctx" => m_ssl[o] # nullSSL

\* Main's sockets at each point of the loop.
MainInv ==
    /\ m_ssl[server] = nullSSL
    /\ main \notin {"start", "bind", "quit", "exit"}
          => life[server] = "live" /\ m_socket[server] # invalidSocket
    /\ main \in {"start", "bind", "loop", "tls", "ret"} => life[accept] = "raw"
    /\ main \in {"start", "bind", "loop", "spawn", "create", "detach", "unspawn"}
          => life[newssl] = "raw"
    /\ main = "tls" => life[newssl] \in {"linked", "tls"}
    /\ main = "ret" => Ready(newssl)
    /\ main = "drop" => life[newssl] \in {"live", "base"}
    /\ main = "create" => life[accept] = "live"
    /\ main = "detach" => life[accept] \in {"live", "base"}
    /\ main \in {"drop", "spawn"} => Ready(accept)
    /\ main \in {"drop", "quit"} => m_ssl[newssl] \notin up
    /\ main \in {"create", "detach", "unspawn", "quit"} => m_ssl[accept] \notin up

\* The thread that main is creating has its argument but does not run.
CreateInv ==
    /\ main = "create" => Ready(arg[cur])
    /\ main \in {"create", "unspawn"} => thr[cur] = "idle"

\* A thread's sockets: what it has before and after it serves, and what it serves.
ThreadOK(t) ==
    /\ thr[t] = "idle" /\ ~(main \in {"create", "unspawn"} /\ cur = t)
          => life[arg[t]] = "raw"
    /\ thr[t] = "start" => Ready(arg[t])
    /\ thr[t] = "serve" => life[arg[t]] = "live"
    /\ thr[t] = "end" => life[arg[t]] \in {"live", "base"}
    /\ thr[t] \in {"idle", "start"} => life[par[t]] = "raw"
    /\ thr[t] # "serve" => life[con[t]] \in {"raw", "lost"}
    /\ thr[t] = "serve" =>
          /\ life[par[t]] = "live"
          /\ m_socket[par[t]] # invalidSocket
          /\ m_ssl[par[t]] = nullSSL \/ m_ssl[par[t]] \in up
          /\ ftp /\ m_sslctx[par[t]] = "ctx" => m_ssl[par[t]] # nullSSL
ThreadInv == \A t \in Threads : ThreadOK(t)

\* The program has no other socket objects.
UsedObjs == {server, newssl, accept} \cup {arg[t] : t \in Threads}
               \cup {par[t] : t \in Threads} \cup {con[t] : t \in Threads}
UnusedInv == \A o \in Objs \ UsedObjs : life[o] = "raw"

\* The inductive invariant, on top of that of part 1.
ServerInv ==
    /\ ServerTypeOK /\ MainInv /\ CreateInv /\ ThreadInv /\ UnusedInv
    /\ ~crashed

\* An object that a step leaves alone.
Same(p) ==
    /\ life'[p] = life[p]
    /\ m_socket'[p] = m_socket[p]
    /\ m_ssl'[p] = m_ssl[p]
    /\ m_sslctx'[p] = m_sslctx[p]
    /\ m_ssl[p] \in up <=> m_ssl[p] \in up'

-----------------------------------------------------------------------------
(* The steps of Server are steps of Sockets. *)

\* Which objects are which kind.
LEMMA Kinds ==
    /\ {server, newssl, accept} \subseteq Objs
    /\ \A t \in Threads : {arg[t], par[t], con[t]} \subseteq Objs
    /\ server # newssl /\ server # accept /\ newssl # accept
    /\ \A t \in Threads :
          /\ {arg[t], par[t], con[t]} \cap {server, newssl, accept} = {}
          /\ arg[t] # par[t] /\ arg[t] # con[t] /\ par[t] # con[t]
          /\ arg[t] \in IOObjs /\ par[t] \in IOObjs /\ con[t] \in ConnectObjs
    /\ \A t, u \in Threads :
          t # u => {arg[t], par[t], con[t]} \cap {arg[u], par[u], con[u]} = {}
<1>1. {server, newssl, accept} \subseteq Objs
  BY ServerAssumption DEF Objs
<1>2. \A t \in Threads : {arg[t], par[t], con[t]} \subseteq Objs
  BY ServerAssumption DEF Objs
<1>3. server # newssl /\ server # accept /\ newssl # accept
  BY ServerAssumption, SocketsAssumption
<1>4. ASSUME NEW t \in Threads
      PROVE  /\ {arg[t], par[t], con[t]} \cap {server, newssl, accept} = {}
             /\ arg[t] # par[t] /\ arg[t] # con[t] /\ par[t] # con[t]
             /\ arg[t] \in IOObjs /\ par[t] \in IOObjs /\ con[t] \in ConnectObjs
  BY ServerAssumption, SocketsAssumption
<1>5. ASSUME NEW t \in Threads, NEW u \in Threads, t # u
      PROVE  {arg[t], par[t], con[t]} \cap {arg[u], par[u], con[u]} = {}
  BY <1>5, <1>4, ServerAssumption, SocketsAssumption
<1> QED BY <1>1, <1>2, <1>3, <1>4, <1>5

\* Where main and the threads are.
LEMMA StepTypes == ServerTypeOK /\ [ServerNext]_serverVars => ServerTypeOK'
<1> SUFFICES ASSUME ServerTypeOK, [ServerNext]_serverVars PROVE ServerTypeOK'
  OBVIOUS
<1> USE DEF ServerTypeOK, MainStages
<1>0. UNCHANGED ftp
  BY DEF ServerNext, serverVars
<1>1. CASE UNCHANGED serverVars
  BY <1>1 DEF serverVars
<1>2. CASE Main
  BY <1>0, <1>2 DEF Main, StartServer, AcceptLoop, Handshake, ReturnSocket, SpawnThread,
              Unwind, After
<1>3. ASSUME NEW t \in Threads, Thread(t) PROVE ServerTypeOK'
  BY <1>0, <1>3 DEF Thread, EnterLambda, DataConnection, HttpClose, ServiceEnds, LeaveLambda
<1> QED BY <1>1, <1>2, <1>3 DEF ServerNext

\* Every step of main and of a thread calls the socket classes in a way that
\* module Sockets knows, or not at all.
LEMMA StepRefines == ServerTypeOK /\ [ServerNext]_serverVars => [Next]_vars
<1> SUFFICES ASSUME ServerTypeOK, ServerNext PROVE [Next]_vars
  BY DEF serverVars
<1> USE Kinds, ServerAssumption
<1>1. ~crashed
  BY DEF ServerNext
<1>2. ASSUME NEW o \in Objs, Construct(o) \/ Release(o) PROVE Next
  BY <1>1, <1>2 DEF Next
<1>3. ASSUME NEW o \in Objs, NEW p \in Objs, MoveConstruct(o, p) PROVE Next
  BY <1>1, <1>3 DEF Next, Move
<1>4. ASSUME NEW o \in Objs, Destroy(o) PROVE Next
  BY <1>2, <1>4 DEF Destroy, Release
<1>5. CASE StartServer
  BY <1>2, <1>5 DEF StartServer, Construct
<1>6. CASE AcceptLoop
  BY <1>2, <1>6 DEF AcceptLoop, Construct
<1>7. CASE Handshake
  BY <1>2, <1>7 DEF Handshake, Construct
<1>8. CASE ReturnSocket
  BY <1>3, <1>4, <1>8 DEF ReturnSocket
<1>9. CASE SpawnThread
  BY <1>3, <1>4, <1>9 DEF SpawnThread
<1>10. CASE Unwind
  <2>1. arg[cur] \in Objs
    BY DEF Objs, ServerTypeOK
  <2> QED BY <1>4, <1>10, <2>1 DEF Unwind
<1>11. ASSUME NEW t \in Threads, Thread(t) PROVE [Next]_vars
  <2>1. CASE EnterLambda(t)
    BY <1>3, <2>1 DEF EnterLambda
  <2>2. CASE DataConnection(t)
    BY <1>2, <1>4, <2>2 DEF DataConnection, Construct
  <2>3. CASE HttpClose(t)
    BY <1>2, <2>3 DEF HttpClose, Release
  <2>4. CASE ServiceEnds(t)
    BY <1>2, <2>4 DEF ServiceEnds, Release
  <2>5. CASE LeaveLambda(t)
    BY <1>4, <2>5 DEF LeaveLambda
  <2> QED BY <1>11, <2>1, <2>2, <2>3, <2>4, <2>5 DEF Thread
<1> QED BY <1>5, <1>6, <1>7, <1>8, <1>9, <1>10, <1>11 DEF ServerNext, Main

-----------------------------------------------------------------------------
(* What a step does to the objects it is not about, and to those it moves. *)

\* A constructor or destructor step of one object leaves all others alone; the
\* others' TLS sessions too, as no two objects share an SSL.
LEMMA FrameOne ==
  ASSUME IndInv, NEW o \in Objs, Construct(o) \/ Release(o), NEW p \in Objs, p # o
  PROVE  Same(p)
<1> USE SocketsAssumption DEF IndInv, TypeOK, Same
<1>1. CASE Construct(o)
  BY <1>1 DEF Construct, Socket, SetupFails, Connected, Listening, Accept, newSSL,
              newSSLFails, HandshakeDone, AcceptHandshakeFails, ConnectHandshakeFails,
              close, StageInv, SingleOwner
<1>2. CASE Release(o)
  BY <1>2 DEF Release, putClose, DestroySSLSocket, DestroyBaseSocket, Forget, close,
              closeSSL, SingleOwner, UpInv
<1> QED BY <1>1, <1>2

\* A destructor empties its object before it is gone.
LEMMA DestroyEffect ==
  ASSUME IndInv, NEW o \in Objs, Destroy(o)
  PROVE  /\ Release(o)
         /\ life[o] # "raw"
         /\ m_ssl'[o] = nullSSL
         /\ life[o] = "base" => life'[o] = "raw"
         /\ life[o] # "base" => life'[o] = "base"
         /\ UNCHANGED crashed
  BY DEF Destroy, Release, DestroySSLSocket, DestroyBaseSocket, closeSSL, IndInv,
         TypeOK, StageInv

\* A move hands over everything and leaves an empty object behind.
LEMMA MoveEffect ==
  ASSUME IndInv, NEW dst \in Objs, NEW src \in Objs, dst # src,
         MoveConstruct(dst, src)
  PROVE  /\ \A p \in Objs \ {dst, src} : Same(p)
         /\ life[dst] = "raw" /\ life'[dst] = "live" /\ life'[src] = "live"
         /\ m_ssl'[src] = nullSSL
         /\ Ready(src) => Ready(dst)'
         /\ UNCHANGED <<up, crashed>>
  BY DEF MoveConstruct, Swapped, Ready, Same, IndInv, TypeOK

\* The null SSL has no session.
LEMMA NullDown == IndInv => nullSSL \notin up
  BY SocketsAssumption DEF IndInv, TypeOK

\* Main's steps on its own sockets leave the threads as they are.
LEMMA ThreadsKept ==
  ASSUME ServerInv, UNCHANGED <<ftp, cur, thr>>,
         main \notin {"create", "unspawn"}, main' \notin {"create", "unspawn"},
         \A p \in Objs \ {server, newssl, accept} : Same(p)
  PROVE  CreateInv' /\ ThreadInv' /\ UnusedInv'
<1> USE Kinds DEF ServerInv, Same
<1>1. CreateInv'
  BY DEF CreateInv
<1>2. ASSUME NEW t \in Threads PROVE ThreadOK(t)'
  <2>1. ThreadOK(t)
    BY DEF ThreadInv
  <2>2. Same(arg[t]) /\ Same(par[t]) /\ Same(con[t])
    OBVIOUS
  <2> QED BY <2>1, <2>2 DEF ThreadOK, Ready
<1>3. UnusedInv'
  BY DEF UnusedInv, UsedObjs
<1> QED BY <1>1, <1>2, <1>3 DEF ThreadInv

\* A thread's steps on its own sockets leave main and the other threads alone.
LEMMA OthersKept ==
  ASSUME ServerInv, NEW t \in Threads, thr[t] # "idle", UNCHANGED <<ftp, main, cur>>,
         \A u \in Threads \ {t} : thr'[u] = thr[u],
         \A p \in Objs \ {arg[t], par[t], con[t]} : Same(p)
  PROVE  /\ MainInv' /\ CreateInv' /\ UnusedInv'
         /\ \A u \in Threads \ {t} : ThreadOK(u)'
<1> USE Kinds DEF ServerInv, Same
<1>1. MainInv'
  <2>1. Same(server) /\ Same(newssl) /\ Same(accept)
    OBVIOUS
  <2> QED BY <2>1 DEF MainInv, Ready
<1>2. CreateInv'
  <2>1. CASE main \in {"create", "unspawn"}
    <3>1. cur \in Threads \ {t}
      BY <2>1 DEF CreateInv, ServerTypeOK
    <3>2. Same(arg[cur])
      BY <3>1
    <3> QED BY <3>1, <3>2 DEF CreateInv, Ready
  <2>2. CASE main \notin {"create", "unspawn"}
    BY <2>2 DEF CreateInv
  <2> QED BY <2>1, <2>2
<1>3. UnusedInv'
  BY DEF UnusedInv, UsedObjs
<1>4. ASSUME NEW u \in Threads \ {t} PROVE ThreadOK(u)'
  <2>1. ThreadOK(u)
    BY DEF ThreadInv
  <2>2. Same(arg[u]) /\ Same(par[u]) /\ Same(con[u])
    OBVIOUS
  <2> QED BY <2>1, <2>2 DEF ThreadOK, Ready
<1> QED BY <1>1, <1>2, <1>3, <1>4

-----------------------------------------------------------------------------
(* The steps preserve the invariant. *)

\* At the start there is no socket object and no thread.
LEMMA InitServerInv == ServerInit => ServerInv
<1> SUFFICES ASSUME ServerInit PROVE ServerInv
  OBVIOUS
<1> USE Kinds, ServerAssumption DEF ServerInit, Init
<1>1. ServerTypeOK /\ ~crashed
  BY DEF ServerTypeOK, MainStages
<1>2. MainInv /\ CreateInv
  BY DEF MainInv, CreateInv
<1>3. ThreadInv /\ UnusedInv
  BY DEF ThreadInv, ThreadOK, UnusedInv
<1> QED BY <1>1, <1>2, <1>3 DEF ServerInv

\* Start-up and server.accept(), failures included.
LEMMA AcceptingInv ==
  ASSUME IndInv, IndInv', ServerInv, ServerTypeOK', UNCHANGED ftp,
         StartServer \/ AcceptLoop \/ Handshake
  PROVE  ServerInv'
<1> USE Kinds, NullDown
<1>1. ASSUME StartServer PROVE Construct(server) /\ UNCHANGED <<up, crashed>>
  BY <1>1, ServerAssumption
     DEF StartServer, Construct, Socket, SetupFails, Listening
<1>2. ASSUME AcceptLoop \/ Handshake
      PROVE  (Construct(newssl) \/ UNCHANGED vars) /\ UNCHANGED crashed
  BY <1>2, ServerAssumption, SocketsAssumption
     DEF AcceptLoop, Handshake, Construct, Accept, newSSL, newSSLFails, HandshakeDone,
         AcceptHandshakeFails, vars
<1>3. \A p \in Objs \ {server, newssl} : Same(p)
  BY <1>1, <1>2, FrameOne DEF vars, Same
<1>4. CreateInv' /\ ThreadInv' /\ UnusedInv'
  <2>1. UNCHANGED <<cur, thr>> /\ main \notin {"create", "unspawn"}
           /\ main' \notin {"create", "unspawn"}
    BY DEF StartServer, AcceptLoop, Handshake
  <2> QED BY <1>3, <2>1, ThreadsKept
<1>5. MainInv'
  <2>1. CASE StartServer
    <3>1. Same(newssl) /\ Same(accept)
      BY <1>1, <2>1, FrameOne
    <3>2. m_ssl'[server] = nullSSL
      BY <2>1 DEF StartServer, Socket, SetupFails, Listening, ServerInv, MainInv, IndInv,
                  TypeOK
    <3>3. main \in {"start", "bind"} /\ main' \in {"bind", "quit", "loop"}
      BY <2>1 DEF StartServer
    <3>4. m_ssl[newssl] = nullSSL /\ m_ssl[accept] = nullSSL
      BY <3>3 DEF ServerInv, MainInv, IndInv, StageInv
    <3>5. main' = "loop" => life'[server] = "live" /\ m_socket'[server] # invalidSocket
      BY <2>1 DEF StartServer, Listening, IndInv, TypeOK
    <3> QED BY <1>1, <2>1, <3>1, <3>2, <3>3, <3>4, <3>5 DEF ServerInv, MainInv, Same
  <2>2. CASE AcceptLoop
    <3>1. Same(server) /\ Same(accept)
      BY <1>2, <2>2, FrameOne DEF vars, Same
    <3>2. m_ssl[newssl] = nullSSL /\ m_ssl[accept] = nullSSL
      BY <2>2 DEF AcceptLoop, ServerInv, MainInv, IndInv, StageInv
    <3>3. CASE \E f \in Fds : Accept(server, newssl, f)
      <4>1. UNCHANGED up /\ main = "loop" /\ main' = IF life'[newssl] = "linked" THEN "tls" ELSE "ret"
        BY <2>2, <3>3 DEF AcceptLoop, Accept, vars, IndInv, TypeOK
      <4>2. life'[newssl] = "linked" \/ Ready(newssl)'
        BY <3>3, SocketsAssumption DEF Accept, Ready, IndInv, TypeOK
      <4> QED BY <3>1, <3>2, <4>1, <4>2 DEF ServerInv, MainInv, Same
    <3>4. CASE UNCHANGED vars /\ main' = "quit"
      BY <2>2, <3>1, <3>2, <3>4 DEF AcceptLoop, ServerInv, MainInv, Same, vars
    <3> QED BY <2>2, <3>3, <3>4 DEF AcceptLoop
  <2>3. CASE Handshake
    <3>1. Same(server) /\ Same(accept)
      BY <1>2, <2>3, FrameOne DEF vars, Same
    <3>2. m_ssl[accept] = nullSSL
      BY <2>3 DEF Handshake, ServerInv, MainInv, IndInv, StageInv
    <3>3. main = "tls" /\ life[newssl] \in {"linked", "tls"}
      BY <2>3 DEF Handshake, ServerInv, MainInv
    <3>4. \/ main' = "tls" /\ life'[newssl] = "tls"
          \/ main' = "ret" /\ Ready(newssl)'
          \/ main' = "quit" /\ m_ssl'[newssl] \notin up'
      <4>1. CASE \E s \in Ssls : newSSL(newssl, s) /\ main' = "tls"
        BY <4>1 DEF newSSL, IndInv, TypeOK
      <4>2. CASE newSSLFails(newssl) /\ main' = "quit"
        BY <4>2 DEF newSSLFails, IndInv, TypeOK, StageInv
      <4>3. CASE HandshakeDone(newssl) /\ main' = "ret"
        BY <4>3 DEF HandshakeDone, Ready, IndInv, TypeOK, StageInv
      <4>4. CASE AcceptHandshakeFails(newssl) /\ main' = "quit"
        BY <4>4 DEF AcceptHandshakeFails, IndInv, TypeOK, StageInv
      <4> QED BY <2>3, <4>1, <4>2, <4>3, <4>4 DEF Handshake
    <3> QED BY <3>1, <3>2, <3>3, <3>4 DEF ServerInv, MainInv, Same
  <2> QED BY <2>1, <2>2, <2>3
<1> QED BY <1>1, <1>2, <1>4, <1>5 DEF ServerInv

\* return, the end of the loop body, and unwinding to the end of main.
LEMMA LeavingInv ==
  ASSUME IndInv, IndInv', ServerInv, ServerTypeOK', UNCHANGED ftp,
         ReturnSocket \/ Unwind
  PROVE  ServerInv'
<1> USE Kinds, NullDown
<1>1. CASE main = "ret" /\ main' = "drop" /\ MoveConstruct(accept, newssl)
           /\ UNCHANGED <<cur, thr>>
  <2>1. /\ \A p \in Objs \ {newssl, accept} : Same(p)
        /\ life'[newssl] = "live" /\ m_ssl'[newssl] = nullSSL
        /\ Ready(accept)' /\ UNCHANGED crashed
    BY <1>1, MoveEffect DEF ServerInv, MainInv
  <2>2. MainInv'
    BY <1>1, <2>1 DEF ServerInv, MainInv, Same
  <2>3. CreateInv' /\ ThreadInv' /\ UnusedInv'
    BY <1>1, <2>1, ThreadsKept
  <2> QED BY <2>1, <2>2, <2>3 DEF ServerInv
<1>2. CASE main = "drop" /\ Destroy(newssl) /\ After(newssl, "drop", "spawn")
           /\ UNCHANGED <<cur, thr>>
  <2>1. /\ \A p \in Objs \ {newssl} : Same(p)
        /\ m_ssl'[newssl] = nullSSL /\ UNCHANGED crashed
        /\ main' = IF life'[newssl] = "raw" THEN "spawn" ELSE "drop"
    BY <1>2, DestroyEffect, FrameOne DEF After
  <2>2. MainInv'
    BY <1>2, <2>1, DestroyEffect DEF ServerInv, MainInv, Same, Ready
  <2>3. CreateInv' /\ ThreadInv' /\ UnusedInv'
    BY <1>2, <2>1, ThreadsKept
  <2> QED BY <2>1, <2>2, <2>3 DEF ServerInv
<1>3. CASE main = "unspawn" /\ Destroy(arg[cur]) /\ After(arg[cur], "unspawn", "quit")
           /\ UNCHANGED <<cur, thr>>
  <2>0. cur \in Threads /\ thr[cur] = "idle"
    BY <1>3 DEF ServerInv, ServerTypeOK, CreateInv
  <2>1. /\ \A p \in Objs \ {arg[cur]} : Same(p)
        /\ UNCHANGED crashed
        /\ main' = IF life'[arg[cur]] = "raw" THEN "quit" ELSE "unspawn"
    BY <1>3, <2>0, DestroyEffect, FrameOne DEF After
  <2>2. MainInv'
    <3>1. Same(server) /\ Same(accept) /\ Same(newssl)
      BY <2>0, <2>1
    <3>2. m_ssl[newssl] = nullSSL
      BY <1>3 DEF ServerInv, MainInv, IndInv, StageInv
    <3> QED BY <1>3, <2>1, <3>1, <3>2 DEF ServerInv, MainInv, Same
  <2>3. CreateInv' /\ UnusedInv'
    BY <1>3, <2>0, <2>1 DEF ServerInv, CreateInv, UnusedInv, UsedObjs, Same
  <2>4. ASSUME NEW t \in Threads PROVE ThreadOK(t)'
    <3>1. ThreadOK(t)
      BY DEF ServerInv, ThreadInv
    <3>2. Same(par[t]) /\ Same(con[t]) /\ (t # cur => Same(arg[t]))
      BY <2>0, <2>1
    <3> QED BY <1>3, <2>0, <2>1, <3>1, <3>2 DEF ThreadOK, Ready, Same
  <2> QED BY <2>1, <2>2, <2>3, <2>4 DEF ServerInv, ThreadInv
<1>4. ASSUME main = "quit", NEW o \in {newssl, accept, server}, Destroy(o),
             UNCHANGED <<main, cur, thr>>
      PROVE  ServerInv'
  <2>1. /\ \A p \in Objs \ {o} : Same(p)
        /\ m_ssl'[o] = nullSSL /\ UNCHANGED crashed
    BY <1>4, DestroyEffect, FrameOne
  <2>2. MainInv'
    BY <1>4, <2>1 DEF ServerInv, MainInv, Same
  <2>3. CreateInv' /\ ThreadInv' /\ UnusedInv'
    BY <1>4, <2>1, ThreadsKept
  <2> QED BY <2>1, <2>2, <2>3 DEF ServerInv
<1>5. CASE main = "quit" /\ main' = "exit" /\ UNCHANGED <<vars, cur, thr>>
  BY <1>5, ThreadsKept DEF ServerInv, MainInv, vars, Same
<1> QED BY <1>1, <1>2, <1>3, <1>4, <1>5 DEF ReturnSocket, Unwind

\* The hand-over to a new thread.
LEMMA SpawnInv ==
  ASSUME IndInv, IndInv', ServerInv, ServerTypeOK', UNCHANGED ftp, SpawnThread
  PROVE  ServerInv'
<1> USE Kinds, NullDown
<1>1. CASE main = "spawn" /\ main' = "create" /\ thr' = thr
           /\ cur' \in {t \in Threads : thr[t] = "idle"}
           /\ MoveConstruct(arg[cur'], accept)
  <2>0. PICK c \in Threads : cur' = c /\ thr[c] = "idle" /\ MoveConstruct(arg[c], accept)
    BY <1>1
  <2>1. /\ \A p \in Objs \ {arg[c], accept} : Same(p)
        /\ life'[accept] = "live" /\ m_ssl'[accept] = nullSSL
        /\ Ready(arg[c])' /\ UNCHANGED crashed
    BY <1>1, <2>0, MoveEffect DEF ServerInv, MainInv
  <2>2. MainInv'
    <3>1. Same(server) /\ Same(newssl)
      BY <2>0, <2>1
    <3> QED BY <1>1, <2>1, <3>1 DEF ServerInv, MainInv, Same
  <2>3. CreateInv'
    BY <1>1, <2>0, <2>1 DEF CreateInv, Ready
  <2>4. UnusedInv'
    BY <2>0, <2>1 DEF ServerInv, UnusedInv, UsedObjs, Same
  <2>5. ASSUME NEW t \in Threads PROVE ThreadOK(t)'
    <3>1. ThreadOK(t)
      BY DEF ServerInv, ThreadInv
    <3>2. Same(par[t]) /\ Same(con[t]) /\ (t # c => Same(arg[t]))
      BY <2>0, <2>1
    <3> QED BY <1>1, <2>0, <2>1, <3>1, <3>2 DEF ThreadOK, Ready, Same
  <2> QED BY <2>1, <2>2, <2>3, <2>4, <2>5 DEF ServerInv, ThreadInv
<1>2. CASE main = "create" /\ main' = "detach" /\ thr' = [thr EXCEPT ![cur] = "start"]
           /\ UNCHANGED <<vars, cur>>
  <2>1. MainInv' /\ CreateInv' /\ UnusedInv'
    BY <1>2 DEF ServerInv, MainInv, CreateInv, UnusedInv, vars
  <2>2. ASSUME NEW t \in Threads PROVE ThreadOK(t)'
    <3>1. ThreadOK(t) /\ cur \in Threads /\ thr \in [Threads -> {"idle", "start", "serve", "end"}]
      BY DEF ServerInv, ThreadInv, ServerTypeOK
    <3>2. Ready(arg[cur]) /\ thr[cur] = "idle"
      BY <1>2 DEF ServerInv, CreateInv
    <3> QED BY <1>2, <3>1, <3>2 DEF ThreadOK, Ready, vars
  <2> QED BY <1>2, <2>1, <2>2 DEF ServerInv, ThreadInv, vars
<1>3. CASE main = "create" /\ main' = "unspawn" /\ UNCHANGED <<vars, cur, thr>>
  BY <1>3 DEF ServerInv, MainInv, CreateInv, ThreadInv, ThreadOK, Ready, UnusedInv, vars
<1>4. CASE main = "detach" /\ Destroy(accept) /\ After(accept, "detach", "loop")
           /\ UNCHANGED <<cur, thr>>
  <2>1. /\ \A p \in Objs \ {accept} : Same(p)
        /\ m_ssl'[accept] = nullSSL /\ UNCHANGED crashed
        /\ main' = IF life'[accept] = "raw" THEN "loop" ELSE "detach"
    BY <1>4, DestroyEffect, FrameOne DEF After
  <2>2. MainInv'
    BY <1>4, <2>1, DestroyEffect DEF ServerInv, MainInv, Same
  <2>3. CreateInv' /\ ThreadInv' /\ UnusedInv'
    BY <1>4, <2>1, ThreadsKept
  <2> QED BY <2>1, <2>2, <2>3 DEF ServerInv
<1> QED BY <1>1, <1>2, <1>3, <1>4 DEF SpawnThread

\* The steps of the threads.
LEMMA ThreadsInv ==
  ASSUME IndInv, IndInv', ServerInv, ServerTypeOK', UNCHANGED ftp,
         NEW t \in Threads, Thread(t)
  PROVE  ServerInv'
<1> USE Kinds, NullDown
<1>1. thr \in [Threads -> {"idle", "start", "serve", "end"}] /\ ThreadOK(t) /\ ~crashed
  BY DEF ServerInv, ServerTypeOK, ThreadInv
<1>2. SUFFICES /\ \A p \in Objs \ {arg[t], par[t], con[t]} : Same(p)
               /\ \A u \in Threads \ {t} : thr'[u] = thr[u]
               /\ UNCHANGED <<main, cur, crashed>>
               /\ thr[t] # "idle"
               /\ ThreadOK(t)'
  BY <1>1, OthersKept DEF ServerInv, ThreadInv
<1>3. CASE EnterLambda(t)
  <2>1. /\ \A p \in Objs \ {arg[t], par[t]} : Same(p)
        /\ life'[arg[t]] = "live" /\ Ready(par[t])' /\ UNCHANGED crashed
    BY <1>1, <1>3, MoveEffect DEF EnterLambda, ThreadOK
  <2> QED BY <1>1, <1>3, <2>1 DEF EnterLambda, ThreadOK, Ready, Same
<1>4. CASE DataConnection(t)
  <2>1. (Construct(con[t]) \/ Release(con[t])) /\ UNCHANGED crashed
    BY <1>4, DestroyEffect
       DEF DataConnection, Construct, Socket, Connected, SetupFails
  <2>2. \A p \in Objs \ {con[t]} : Same(p)
    BY <2>1, FrameOne
  <2>3. Same(arg[t]) /\ Same(par[t])
    BY <2>2
  <2> QED BY <1>1, <1>4, <2>1, <2>2, <2>3 DEF DataConnection, ThreadOK, Same
<1>5. CASE HttpClose(t)
  <2>1. Release(par[t]) /\ UNCHANGED crashed
    BY <1>5 DEF HttpClose, Release, putClose
  <2>2. \A p \in Objs \ {par[t]} : Same(p)
    BY <2>1, FrameOne
  <2>3. /\ m_ssl'[par[t]] = nullSSL
        /\ UNCHANGED <<life, m_socket, m_sslctx>>
    BY <1>5 DEF HttpClose, putClose, closeSSL, IndInv, TypeOK
  <2>4. Same(arg[t]) /\ Same(con[t])
    BY <2>2
  <2> QED BY <1>1, <1>5, <2>1, <2>2, <2>3, <2>4 DEF HttpClose, ThreadOK, Same
<1>6. CASE ServiceEnds(t)
  <2>1. (Release(con[t]) \/ UNCHANGED vars) /\ UNCHANGED crashed
    BY <1>6 DEF ServiceEnds, Release, Forget, vars
  <2>2. \A p \in Objs \ {con[t]} : Same(p)
    BY <2>1, FrameOne DEF vars, Same
  <2>3. life'[con[t]] \in {"raw", "lost"}
    BY <1>6 DEF ServiceEnds, Forget, vars, IndInv, TypeOK
  <2>4. Same(arg[t]) /\ Same(par[t])
    BY <2>2
  <2> QED BY <1>1, <1>6, <2>1, <2>2, <2>3, <2>4 DEF ServiceEnds, ThreadOK, Same
<1>7. CASE LeaveLambda(t)
  <2>0. UNCHANGED <<main, cur>> /\ thr[t] = "end"
        /\ thr' = IF life'[arg[t]] = "raw" THEN [thr EXCEPT ![t] = "idle"] ELSE thr
    BY <1>7 DEF LeaveLambda
  <2>1. CASE Destroy(par[t])
    <3>1. UNCHANGED crashed /\ \A p \in Objs \ {par[t]} : Same(p)
      BY <2>1, DestroyEffect, FrameOne
    <3>2. Same(arg[t]) /\ Same(con[t])
      BY <3>1
    <3> QED BY <1>1, <2>0, <3>1, <3>2 DEF ThreadOK, Same
  <2>2. CASE life[par[t]] = "raw" /\ Destroy(arg[t])
    <3>1. UNCHANGED crashed /\ \A p \in Objs \ {arg[t]} : Same(p)
      BY <2>2, DestroyEffect, FrameOne
    <3>2. Same(par[t]) /\ Same(con[t])
      BY <3>1
    <3>3. life'[arg[t]] \in {"raw", "base"}
      BY <2>2, DestroyEffect
    <3> QED BY <1>1, <2>0, <2>2, <3>1, <3>2, <3>3 DEF ThreadOK, Same
  <2> QED BY <1>7, <2>1, <2>2 DEF LeaveLambda
<1> QED BY <1>3, <1>4, <1>5, <1>6, <1>7 DEF Thread

\* Every step preserves the invariant.
LEMMA StepServerInv ==
  IndInv /\ IndInv' /\ ServerInv /\ [ServerNext]_serverVars => ServerInv'
<1> SUFFICES ASSUME IndInv, IndInv', ServerInv, [ServerNext]_serverVars
             PROVE  ServerInv'
  OBVIOUS
<1>0. UNCHANGED ftp
  BY DEF ServerNext, serverVars
<1>1. ServerTypeOK'
  BY StepTypes DEF ServerInv
<1>2. CASE UNCHANGED serverVars
  BY <1>2 DEF serverVars, vars, ServerInv, ServerTypeOK, MainInv, CreateInv, ThreadInv,
              ThreadOK, Ready, UnusedInv
<1>3. CASE Main
  BY <1>0, <1>1, <1>3, AcceptingInv, LeavingInv, SpawnInv DEF Main
<1>4. ASSUME NEW t \in Threads, Thread(t) PROVE ServerInv'
  BY <1>0, <1>1, <1>4, ThreadsInv
<1> QED BY <1>2, <1>3, <1>4 DEF ServerNext

-----------------------------------------------------------------------------
(* The theorems. *)

\* The steps of the servers are built from steps of module Sockets, so each of
\* its invariants carries over.
LEMMA ServerUsesSockets == ServerSpec => Spec
<1>1. ServerInit => ServerTypeOK
  BY DEF ServerInit, ServerTypeOK, MainStages
<1>2. ServerInit => Init
  BY DEF ServerInit
<1> QED BY <1>1, <1>2, StepTypes, StepRefines, PTL DEF ServerSpec, Spec

\* Both invariants hold throughout.
THEOREM ServerInductive == ServerSpec => [](IndInv /\ ServerInv)
<1>1. ServerSpec => []IndInv
  BY ServerUsesSockets, Inductive, PTL
<1> QED BY <1>1, InitServerInv, StepServerInv, PTL DEF ServerSpec

\* No client makes a server dereference a null SSL.
THEOREM NoNullSSL == ServerSpec => []NeverNullSSL
<1>1. ServerInv => NeverNullSSL
  BY DEF ServerInv, NeverNullSSL
<1> QED BY <1>1, ServerInductive, PTL

\* A thread's connection is open, its own and past its handshake for as long as
\* the thread serves it.
THEOREM EachServesItsOwn == ServerSpec => []ServesOwnConnection
<1>1. IndInv /\ ServerInv => ServesOwnConnection
  <2> SUFFICES ASSUME IndInv, ServerInv PROVE ServesOwnConnection
    OBVIOUS
  <2>1. \A t \in Threads : ThreadOK(t)
    BY DEF ServerInv, ThreadInv
  <2>2. ASSUME NEW t \in Threads, thr[t] = "serve" PROVE m_socket[par[t]] \in open
    <3>1. par[t] \in Objs /\ m_socket[par[t]] # invalidSocket
      BY <2>1, <2>2, Kinds DEF ThreadOK
    <3> QED BY <3>1 DEF IndInv, NothingStray
  <2>3. ASSUME NEW t \in Threads, NEW u \in Threads \ {t}, thr[t] = "serve"
        PROVE  m_socket[par[u]] # m_socket[par[t]]
    <3>1. par[t] \in Objs /\ par[u] \in Objs /\ par[t] # par[u]
          /\ m_socket[par[t]] # invalidSocket
      BY <2>1, <2>3, Kinds DEF ThreadOK
    <3> QED BY <3>1 DEF IndInv, SingleOwner
  <2> QED BY <2>1, <2>2, <2>3 DEF ServesOwnConnection, ThreadOK
<1> QED BY <1>1, ServerInductive, PTL

\* When main waits for the next client, what is open belongs to a running
\* session, or is the data connection of one that has ended.
THEOREM AllDescriptorsAccounted == ServerSpec => []DescriptorsAccounted
<1>1. IndInv /\ ServerInv => DescriptorsAccounted
  <2> SUFFICES ASSUME IndInv, ServerInv, main = "loop",
                      NEW f \in open \ {m_socket[server]}
               PROVE  \E t \in Threads :
                        \/ thr[t] # "idle"
                           /\ f \in {m_socket[par[t]], m_socket[arg[t]], m_socket[con[t]]}
                        \/ life[con[t]] = "lost" /\ f = m_socket[con[t]]
    BY DEF DescriptorsAccounted
  <2>1. PICK o \in Objs : f = m_socket[o] /\ f # invalidSocket
    BY DEF IndInv, NothingStray
  <2>2. life[o] # "raw" /\ o # server
    BY <2>1 DEF IndInv, StageInv
  <2>3. o \in UsedObjs \ {server, newssl, accept}
    BY <2>1, <2>2 DEF ServerInv, UnusedInv, MainInv
  <2>4. PICK t \in Threads : o \in {arg[t], par[t], con[t]}
    BY <2>3 DEF UsedObjs
  <2>5. ThreadOK(t)
    BY DEF ServerInv, ThreadInv
  <2> QED BY <2>1, <2>2, <2>4, <2>5 DEF ThreadOK
<1> QED BY <1>1, ServerInductive, PTL

\* The accept loop and its threads never construct over a living object, nor
\* move or destroy one that is not there, for any number of connections.
THEOREM ObjectsAlwaysFit == ServerSpec => []ObjectsFitTheCalls
<1>1. IndInv /\ ServerInv => ObjectsFitTheCalls
  <2> SUFFICES ASSUME IndInv, ServerInv PROVE ObjectsFitTheCalls
    OBVIOUS
  <2>1. \A t \in Threads : ThreadOK(t)
    BY DEF ServerInv, ThreadInv
  <2>2. m_socket[server] # invalidSocket => m_socket[server] \in open
    BY Kinds DEF IndInv, NothingStray
  <2>3. MainInv
    BY DEF ServerInv
  <2> QED BY <2>1, <2>2, <2>3 DEF ObjectsFitTheCalls, MainInv, ThreadOK, Ready
<1> QED BY <1>1, ServerInductive, PTL

\* The accept loop never waits for a client's goodbye.
THEOREM NoGoodbyeInMain == ServerSpec => []MainNeverWaitsForGoodbye
<1>1. IndInv /\ ServerInv => MainNeverWaitsForGoodbye
  BY DEF ServerInv, MainInv, MainNeverWaitsForGoodbye
<1> QED BY <1>1, ServerInductive, PTL
=============================================================================
