------------------------------- MODULE Sockets -------------------------------
(***************************************************************************)
(* The socket classes of libs/Inet (Socket.h, Socket.cpp): BaseSocket,     *)
(* SSLSocket, IOSocket, ConnectSocket and ServerSocket, as owners of       *)
(* kernel descriptors and OpenSSL objects.                                 *)
(*                                                                         *)
(* Objects belong to different threads (the accept loop and one detached   *)
(* thread per connection), so the steps of their constructors and          *)
(* destructors interleave; a descriptor number is handed out again as soon *)
(* as it is closed.  Every kernel or OpenSSL call is one step.             *)
(***************************************************************************)
EXTENDS Naturals, FiniteSets

CONSTANTS
    ServerObjs,     \* storage for ServerSocket objects
    ConnectObjs,    \* storage for ConnectSocket objects
    NewsslObjs,     \* storage for the local SSLSocket of ServerSocket::accept
    IOObjs,         \* storage for IOSocket objects (return value, locals, thread arguments)
    Fds,            \* descriptor numbers the kernel hands out
    Ssls,           \* SSL objects OpenSSL hands out
    invalidSocket,  \* BaseSocket::invalidSocket, -1
    nullSSL         \* the null SSL*

Objs == ServerObjs \cup ConnectObjs \cup NewsslObjs \cup IOObjs

ASSUME SocketsAssumption ==
    /\ invalidSocket \notin Fds
    /\ nullSSL \notin Ssls
    /\ ServerObjs \cap ConnectObjs = {}
    /\ (ServerObjs \cup ConnectObjs) \cap (NewsslObjs \cup IOObjs) = {}
    /\ NewsslObjs \cap IOObjs = {}

VARIABLES
    life,       \* stage of each object's life, see Stages
    m_socket,   \* BaseSocket::m_socket
    m_ssl,      \* SSLSocket::m_ssl
    m_sslctx,   \* SSLSocket::m_sslctx: "ctx", "null", or "junk" (never initialised)
    open,       \* kernel: the descriptors that are open
    heap,       \* OpenSSL: the SSL objects that are allocated
    bound,      \* OpenSSL: the descriptor number SSL_set_fd gave to each SSL
    up,         \* OpenSSL: the SSL objects whose handshake has completed
    crashed     \* the process has dereferenced a null SSL*

vars == <<life, m_socket, m_ssl, m_sslctx, open, heap, bound, up, crashed>>

(***************************************************************************)
(* raw    no object in this storage                                        *)
(* ctor   constructor body, before connect / bind and listen               *)
(* linked connected or accepted, an SSL_CTX is set, no SSL yet             *)
(* tls    SSL created, SSL_connect or SSL_accept in progress               *)
(* live   constructed                                                      *)
(* dying  an exception unwinds through the object                          *)
(* base   ~SSLSocket has run, ~BaseSocket has not                          *)
(* lost   the last pointer to the heap object is gone, it is never deleted *)
(***************************************************************************)
Stages == {"raw", "ctor", "linked", "tls", "live", "dying", "base", "lost"}

TypeOK ==
    /\ life \in [Objs -> Stages]
    /\ m_socket \in [Objs -> Fds \cup {invalidSocket}]
    /\ m_ssl \in [Objs -> Ssls \cup {nullSSL}]
    /\ m_sslctx \in [Objs -> {"ctx", "null", "junk"}]
    /\ open \subseteq Fds
    /\ heap \subseteq Ssls
    /\ bound \in [Ssls -> Fds \cup {invalidSocket}]
    /\ up \subseteq Ssls
    /\ crashed \in BOOLEAN

Init ==
    /\ life = [o \in Objs |-> "raw"]
    /\ m_socket = [o \in Objs |-> invalidSocket]
    /\ m_ssl = [o \in Objs |-> nullSSL]
    /\ m_sslctx = [o \in Objs |-> "null"]
    /\ open = {}
    /\ heap = {}
    /\ bound = [s \in Ssls |-> invalidSocket]
    /\ up = {}
    /\ crashed = FALSE

-----------------------------------------------------------------------------
(* Mutants of the operators below: each is the code with one plausible slip. *)

\* A move that copies the field instead of exchanging it.
CopiedNotSwapped(f, a, b) == [f EXCEPT ![a] = f[b]]

\* close() that leaves m_socket as it was after ::close.
CloseKeepsNumber(o) ==
    /\ open' = open \ {m_socket[o]}
    /\ UNCHANGED m_socket

\* ~BaseSocket that trusts the value it is going to overwrite and closes nothing.
DestroyWithoutClose(o) ==
    /\ life[o] = "base"
    /\ life' = [life EXCEPT ![o] = "raw"]
    /\ m_sslctx' = [m_sslctx EXCEPT ![o] = "null"]
    /\ m_socket' = [m_socket EXCEPT ![o] = invalidSocket]
    /\ UNCHANGED <<m_ssl, open, heap, bound, up, crashed>>

\* The move constructor of BaseSocket where SSLSocket's is meant: m_ssl and
\* m_sslctx stay behind.
MoveBaseOnly(dst, src) ==
    /\ dst \in IOObjs /\ life[dst] = "raw"
    /\ src \in NewsslObjs \cup IOObjs /\ life[src] = "live"
    /\ life' = [life EXCEPT ![dst] = "live"]
    /\ m_socket' = [m_socket EXCEPT ![dst] = m_socket[src], ![src] = invalidSocket]
    /\ m_sslctx' = [m_sslctx EXCEPT ![dst] = "junk"]
    /\ UNCHANGED <<m_ssl, open, heap, bound, up, crashed>>

-----------------------------------------------------------------------------
(* Building blocks: the member functions that change state. *)

\* std::swap of one field of two objects.
Swapped(f, a, b) == [f EXCEPT ![a] = f[b], ![b] = f[a]]

\* BaseSocket::close.  ::close of an open socket succeeds; on an invalid
\* object the function throws and changes nothing.
close(o) ==
    /\ open' = open \ {m_socket[o]}
    /\ m_socket' = [m_socket EXCEPT ![o] = invalidSocket]

\* SSLSocket::closeSSL: SSL_shutdown until it is done, then SSL_free.
\* SSL_shutdown only touches the descriptor when the handshake has completed.
closeSSL(o) ==
    /\ heap' = heap \ {m_ssl[o]}
    /\ up' = up \ {m_ssl[o]}
    /\ m_ssl' = [m_ssl EXCEPT ![o] = nullSSL]
    /\ bound' = [s \in Ssls |-> IF s = m_ssl[o] THEN invalidSocket ELSE bound[s]]

-----------------------------------------------------------------------------
(* Constructors. *)

\* ServerSocket and ConnectSocket start from ::socket, whose failure (-1) the
\* BaseSocket constructor only logs.
Socket(o, f, c) ==
    /\ life[o] = "raw"
    /\ f \in (Fds \ open) \cup {invalidSocket}
    /\ life' = [life EXCEPT ![o] = "ctor"]
    /\ m_socket' = [m_socket EXCEPT ![o] = f]
    /\ m_ssl' = [m_ssl EXCEPT ![o] = nullSSL]
    /\ m_sslctx' = [m_sslctx EXCEPT ![o] = c]
    /\ open' = open \cup ({f} \ {invalidSocket})
    /\ UNCHANGED <<heap, bound, up, crashed>>

\* bind, listen or connect fails (always, on an invalid descriptor): close()
\* and throw; the base-class destructors follow.
SetupFails(o) ==
    /\ life[o] = "ctor"
    /\ life' = [life EXCEPT ![o] = "dying"]
    /\ close(o)
    /\ UNCHANGED <<m_ssl, m_sslctx, heap, bound, up, crashed>>

\* connect succeeds.
Connected(o) ==
    /\ o \in ConnectObjs /\ life[o] = "ctor"
    /\ m_socket[o] # invalidSocket
    /\ life' = [life EXCEPT ![o] = IF m_sslctx[o] = "ctx" THEN "linked" ELSE "live"]
    /\ UNCHANGED <<m_socket, m_ssl, m_sslctx, open, heap, bound, up, crashed>>

\* bind and listen succeed; with an SSL_CTX the certificate files are loaded,
\* and a failure there closes nothing itself: the destructors do.
Listening(o) ==
    /\ o \in ServerObjs /\ life[o] = "ctor"
    /\ m_socket[o] # invalidSocket
    /\ \/ life' = [life EXCEPT ![o] = "live"]
       \/ m_sslctx[o] = "ctx" /\ life' = [life EXCEPT ![o] = "dying"]
    /\ UNCHANGED <<m_socket, m_ssl, m_sslctx, open, heap, bound, up, crashed>>

\* ServerSocket::accept up to the construction of newssl.
Accept(server, o, f) ==
    /\ server \in ServerObjs /\ life[server] = "live"
    /\ m_socket[server] # invalidSocket
    /\ o \in NewsslObjs /\ life[o] = "raw"
    /\ f \in Fds \ open
    /\ life' = [life EXCEPT ![o] = IF m_sslctx[server] = "ctx" THEN "linked" ELSE "live"]
    /\ m_socket' = [m_socket EXCEPT ![o] = f]
    /\ m_ssl' = [m_ssl EXCEPT ![o] = nullSSL]
    /\ m_sslctx' = [m_sslctx EXCEPT ![o] = m_sslctx[server]]
    /\ open' = open \cup {f}
    /\ UNCHANGED <<heap, bound, up, crashed>>

\* newSSL: SSL_new and SSL_set_fd.
newSSL(o, s) ==
    /\ life[o] = "linked"
    /\ s \in Ssls \ heap
    /\ life' = [life EXCEPT ![o] = "tls"]
    /\ m_ssl' = [m_ssl EXCEPT ![o] = s]
    /\ heap' = heap \cup {s}
    /\ bound' = [bound EXCEPT ![s] = m_socket[o]]
    /\ UNCHANGED <<m_socket, m_sslctx, open, up, crashed>>

\* newSSL throws.  accept() lets the exception unwind newssl; ConnectSocket
\* swallows it and calls SSL_connect on the null SSL.
newSSLFails(o) ==
    /\ life[o] = "linked"
    /\ \/ /\ o \in NewsslObjs
          /\ life' = [life EXCEPT ![o] = "dying"]
          /\ UNCHANGED crashed
       \/ /\ o \in ConnectObjs
          /\ crashed' = TRUE
          /\ UNCHANGED life
    /\ UNCHANGED <<m_socket, m_ssl, m_sslctx, open, heap, bound, up>>

\* SSL_connect or SSL_accept completes the handshake.
HandshakeDone(o) ==
    /\ life[o] = "tls"
    /\ life' = [life EXCEPT ![o] = "live"]
    /\ up' = up \cup {m_ssl[o]}
    /\ UNCHANGED <<m_socket, m_ssl, m_sslctx, open, heap, bound, crashed>>

\* SSL_accept <= 0: accept() throws, the destructors of newssl do the rest.
AcceptHandshakeFails(o) ==
    /\ o \in NewsslObjs /\ life[o] = "tls"
    /\ life' = [life EXCEPT ![o] = "dying"]
    /\ UNCHANGED <<m_socket, m_ssl, m_sslctx, open, heap, bound, up, crashed>>

\* SSL_connect == -1: close() first, the SSL is freed later by ~SSLSocket.
\* SSL_connect == 0 is not recognised as a failure.
ConnectHandshakeFails(o) ==
    /\ o \in ConnectObjs /\ life[o] = "tls"
    /\ \/ /\ life' = [life EXCEPT ![o] = "dying"]
          /\ close(o)
       \/ /\ life' = [life EXCEPT ![o] = "live"]
          /\ UNCHANGED <<m_socket, open>>
    /\ UNCHANGED <<m_ssl, m_sslctx, heap, bound, up, crashed>>

-----------------------------------------------------------------------------
(* Moves. *)

\* SSLSocket(SSLSocket&&): an empty object whose m_sslctx is not initialised,
\* then swap: the source ends up with the uninitialised pointer.
MoveConstruct(dst, src) ==
    /\ dst \in IOObjs /\ life[dst] = "raw"
    /\ src \in NewsslObjs \cup IOObjs /\ life[src] = "live"
    /\ life' = [life EXCEPT ![dst] = "live"]
    /\ m_socket' = Swapped([m_socket EXCEPT ![dst] = invalidSocket], dst, src)
    /\ m_ssl' = Swapped([m_ssl EXCEPT ![dst] = nullSSL], dst, src)
    /\ m_sslctx' = Swapped([m_sslctx EXCEPT ![dst] = "junk"], dst, src)
    /\ UNCHANGED <<open, heap, bound, up, crashed>>

\* SSLSocket::operator=(SSLSocket&&): the objects exchange all they hold.
MoveAssign(dst, src) ==
    /\ {dst, src} \subseteq IOObjs
    /\ life[dst] = "live" /\ life[src] = "live"
    /\ m_socket' = Swapped(m_socket, dst, src)
    /\ m_ssl' = Swapped(m_ssl, dst, src)
    /\ m_sslctx' = Swapped(m_sslctx, dst, src)
    /\ UNCHANGED <<life, open, heap, bound, up, crashed>>

-----------------------------------------------------------------------------
(* End of life. *)

\* IOSocket::putClose: closeSSL, then shutdown(SHUT_WR), which leaves the
\* descriptor open (and throws when the socket is not connected).
putClose(o) ==
    /\ o \in IOObjs \cup ConnectObjs /\ life[o] = "live"
    /\ closeSSL(o)
    /\ UNCHANGED <<life, m_socket, m_sslctx, open, crashed>>

\* ~SSLSocket, at the end of the object's scope or while unwinding.
DestroySSLSocket(o) ==
    /\ life[o] \in {"live", "dying"}
    /\ life' = [life EXCEPT ![o] = "base"]
    /\ closeSSL(o)
    /\ UNCHANGED <<m_socket, m_sslctx, open, crashed>>

\* ~BaseSocket: close() unless the object holds no descriptor.
DestroyBaseSocket(o) ==
    /\ life[o] = "base"
    /\ life' = [life EXCEPT ![o] = "raw"]
    /\ m_sslctx' = [m_sslctx EXCEPT ![o] = "null"]
    /\ close(o)
    /\ UNCHANGED <<m_ssl, heap, bound, up, crashed>>

\* ~ProtocolFtp does not delete m_client: a session that ends with a data
\* connection loses the only pointer to it.
Forget(o) ==
    /\ o \in ConnectObjs /\ life[o] = "live"
    /\ life' = [life EXCEPT ![o] = "lost"]
    /\ UNCHANGED <<m_socket, m_ssl, m_sslctx, open, heap, bound, up, crashed>>

-----------------------------------------------------------------------------
Construct(o) ==
    \/ /\ o \in ServerObjs \cup ConnectObjs
       /\ \E f \in Fds \cup {invalidSocket}, c \in {"ctx", "null"} : Socket(o, f, c)
    \/ SetupFails(o)
    \/ Connected(o)
    \/ Listening(o)
    \/ \E server \in ServerObjs, f \in Fds : Accept(server, o, f)
    \/ \E s \in Ssls : newSSL(o, s)
    \/ newSSLFails(o)
    \/ HandshakeDone(o)
    \/ AcceptHandshakeFails(o)
    \/ ConnectHandshakeFails(o)

Move(o) ==
    \E src \in Objs : MoveConstruct(o, src) \/ MoveAssign(o, src)

Release(o) ==
    \/ putClose(o)
    \/ DestroySSLSocket(o)
    \/ DestroyBaseSocket(o)
    \/ Forget(o)

Next ==
    /\ ~crashed
    /\ \E o \in Objs : Construct(o) \/ Move(o) \/ Release(o)

Spec == Init /\ [][Next]_vars

-----------------------------------------------------------------------------
(* Properties. *)

\* No two socket objects ever hold the same descriptor or the same SSL.
\* Otherwise the second destructor closes a number that the kernel may already
\* have given to another thread's connection.
SingleOwner ==
    \A o, p \in Objs :
        o # p => /\ m_socket[o] = m_socket[p] => m_socket[o] = invalidSocket
                 /\ m_ssl[o] = m_ssl[p] => m_ssl[o] = nullSSL

\* Whatever path a constructor, an exception or a move takes, an open
\* descriptor or an allocated SSL is held by some object, and an object holds
\* only what is open or allocated: nothing leaks, nothing is released twice.
\* (The objects in stage "lost" are the leak of ~ProtocolFtp.)
NothingStray ==
    /\ open = {m_socket[o] : o \in Objs} \ {invalidSocket}
    /\ heap = {m_ssl[o] : o \in Objs} \ {nullSSL}

\* An SSL that can still do I/O (SSL_read, SSL_write, the close_notify of
\* SSL_shutdown) is bound to the open descriptor of the very object that holds
\* it, although moves, close() and descriptor reuse happen around it.
TlsOnOwnSocket ==
    \A o \in Objs :
        m_ssl[o] \in up => /\ bound[m_ssl[o]] = m_socket[o]
                           /\ m_socket[o] \in open

\* The m_sslctx that the move constructor leaves uninitialised is only ever
\* found in an object with neither descriptor nor SSL, so nothing that works
\* on a connection can read it.
JunkContextIsInert ==
    \A o \in Objs :
        m_sslctx[o] = "junk" => m_socket[o] = invalidSocket /\ m_ssl[o] = nullSSL

\* The descriptor of an object in use (constructed, or accepted and about to
\* start TLS) is never closed under it: a descriptor goes back to the kernel
\* only in the failure path of its holder's constructor or in ~BaseSocket,
\* whatever numbers other threads close and reuse meanwhile.
NeverClosedInUse ==
    [][\A o \in Objs :
          m_socket[o] \in open \ open' => life[o] \in {"ctor", "tls", "base"}]_vars
=============================================================================
