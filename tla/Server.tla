------------------------------- MODULE Server -------------------------------
(***************************************************************************)
(* The main functions of server.cpp, ftpServer.cpp and muxServer.cpp: the  *)
(* accept loop, a detached std::thread per connection, and the socket      *)
(* objects they pass along, whose steps are those of module Sockets:       *)
(*                                                                         *)
(*    newssl     local of ServerSocket::accept                             *)
(*    accept     its return value, local of main's loop                    *)
(*    arg[t]     the copy std::thread keeps of its argument                *)
(*    par[t]     the parameter of the thread's lambda                      *)
(*    con[t]     m_client, the data connection of an FTP session           *)
(*                                                                         *)
(* Any exception leaves the loop; main destroys the listening socket and   *)
(* returns, and with the process all threads are gone.                     *)
(***************************************************************************)
EXTENDS Sockets

CONSTANTS
    Threads,                \* thread slots
    server, newssl, accept, \* main's socket objects
    arg, par, con           \* those of each thread

ASSUME ServerAssumption ==
    /\ server \in ServerObjs /\ newssl \in NewsslObjs /\ accept \in IOObjs
    /\ arg \in [Threads -> IOObjs] /\ par \in [Threads -> IOObjs]
    /\ con \in [Threads -> ConnectObjs]
    /\ \A t \in Threads : arg[t] # accept /\ par[t] # accept /\ arg[t] # par[t]
    /\ \A t, u \in Threads :
          t # u => {arg[t], par[t]} \cap {arg[u], par[u]} = {} /\ con[t] # con[u]

VARIABLES
    ftp,        \* which program it is: its threads run ProtocolFtp, else ProtocolHttp
    main,       \* where main is, see MainStages
    cur,        \* the thread it is creating
    thr         \* where each thread is: "idle" (none), "start", "serve", "end"

serverVars == <<vars, ftp, main, cur, thr>>

(***************************************************************************)
(* start, bind   the ServerSocket's constructor                            *)
(* loop          blocked in ::accept                                       *)
(* tls           newSSL and SSL_accept                                     *)
(* ret, drop     the return value is moved out of newssl, which then goes  *)
(* spawn, create accept is moved into the std::thread; pthread_create      *)
(* detach        the loop body ends: accept is destroyed                   *)
(* unspawn       no thread could be created: its copy is destroyed         *)
(* quit, exit    unwinding to the end of main; the process is gone         *)
(***************************************************************************)
MainStages == {"start", "bind", "loop", "tls", "ret", "drop", "spawn", "create",
               "detach", "unspawn", "quit", "exit"}

ServerTypeOK ==
    /\ ftp \in BOOLEAN
    /\ main \in MainStages
    /\ cur \in Threads
    /\ thr \in [Threads -> {"idle", "start", "serve", "end"}]

ServerInit ==
    /\ Init
    /\ ftp \in BOOLEAN
    /\ main = "start"
    /\ cur \in Threads
    /\ thr = [t \in Threads |-> "idle"]

-----------------------------------------------------------------------------
(* main. *)

\* One of the two destructor steps of an object.
Destroy(o) == DestroySSLSocket(o) \/ DestroyBaseSocket(o)

\* main stays at "here" until the object is gone.
After(o, here, there) == main' = IF life'[o] = "raw" THEN there ELSE here

\* ServerSocket server(port, ctx), with an SSL_CTX on port 443 only.
StartServer ==
    \/ /\ main = "start" /\ main' = "bind"
       /\ \E f \in Fds \cup {invalidSocket}, c \in {"ctx", "null"} : Socket(server, f, c)
       /\ UNCHANGED <<cur, thr>>
    \/ /\ main = "bind"
       /\ \/ SetupFails(server) /\ main' = "quit"
          \/ Listening(server) /\ main' = IF life'[server] = "live" THEN "loop" ELSE "quit"
       /\ UNCHANGED <<cur, thr>>

\* server.accept() up to its return, or an exception.  ::accept may always
\* fail, and does when there is no descriptor left.
AcceptLoop ==
    \/ /\ main = "loop"
       /\ \E f \in Fds : Accept(server, newssl, f)
       /\ main' = IF life'[newssl] = "linked" THEN "tls" ELSE "ret"
       /\ UNCHANGED <<cur, thr>>
    \/ /\ main = "loop" /\ main' = "quit"
       /\ UNCHANGED <<vars, cur, thr>>

Handshake ==
    /\ main = "tls"
    /\ \/ (\E s \in Ssls : newSSL(newssl, s)) /\ main' = "tls"
       \/ newSSLFails(newssl) /\ main' = "quit"
       \/ HandshakeDone(newssl) /\ main' = "ret"
       \/ AcceptHandshakeFails(newssl) /\ main' = "quit"
    /\ UNCHANGED <<cur, thr>>

\* return IOSocket(std::move(newssl)), built in place in main's variable.
ReturnSocket ==
    \/ /\ main = "ret" /\ main' = "drop"
       /\ MoveConstruct(accept, newssl)
       /\ UNCHANGED <<cur, thr>>
    \/ /\ main = "drop"
       /\ Destroy(newssl) /\ After(newssl, "drop", "spawn")
       /\ UNCHANGED <<cur, thr>>

\* Mutant: the thread is given a reference to accept.
SpawnByReference ==
    \/ /\ main = "spawn" /\ main' = "detach"
       /\ cur' \in {t \in Threads : thr[t] = "idle"}
       /\ thr' = [thr EXCEPT ![cur'] = "start"]
       /\ UNCHANGED vars
    \/ /\ main = "detach"
       /\ Destroy(accept) /\ After(accept, "detach", "loop")
       /\ UNCHANGED <<cur, thr>>

\* Mutant: th.join().
SpawnAndJoin ==
    \/ /\ main = "spawn" /\ main' = "create"
       /\ cur' \in {t \in Threads : thr[t] = "idle"}
       /\ MoveConstruct(arg[cur'], accept)
       /\ UNCHANGED thr
    \/ /\ main = "create" /\ main' = "detach"
       /\ thr' = [thr EXCEPT ![cur] = "start"]
       /\ UNCHANGED <<vars, cur>>
    \/ /\ main = "detach" /\ thr[cur] = "idle"
       /\ Destroy(accept) /\ After(accept, "detach", "loop")
       /\ UNCHANGED <<cur, thr>>

\* std::thread th(lambda, std::move(accept)); th.detach()
SpawnThread ==
    \/ /\ main = "spawn" /\ main' = "create"
       /\ cur' \in {t \in Threads : thr[t] = "idle"}
       /\ MoveConstruct(arg[cur'], accept)
       /\ UNCHANGED thr
    \/ /\ main = "create" /\ main' = "detach"
       /\ thr' = [thr EXCEPT ![cur] = "start"]
       /\ UNCHANGED <<vars, cur>>
    \/ /\ main = "create" /\ main' = "unspawn"
       /\ UNCHANGED <<vars, cur, thr>>
    \/ /\ main = "detach"
       /\ Destroy(accept) /\ After(accept, "detach", "loop")
       /\ UNCHANGED <<cur, thr>>

\* An exception: the locals are destroyed from the inside out.
Unwind ==
    \/ /\ main = "unspawn"
       /\ Destroy(arg[cur]) /\ After(arg[cur], "unspawn", "quit")
       /\ UNCHANGED <<cur, thr>>
    \/ /\ main = "quit" /\ UNCHANGED <<main, cur, thr>>
       /\ \/ Destroy(newssl)
          \/ Destroy(accept)
          \/ life[newssl] = "raw" /\ life[accept] = "raw" /\ Destroy(server)
    \/ /\ main = "quit" /\ life[server] = "raw" /\ main' = "exit"
       /\ UNCHANGED <<vars, cur, thr>>

-----------------------------------------------------------------------------
(* The threads. *)

\* Mutant: the lambda takes its argument by reference and main's copy is used.
LambdaByReference(t) ==
    /\ thr[t] = "start" /\ thr' = [thr EXCEPT ![t] = "serve"]
    /\ UNCHANGED <<vars, main, cur>>

\* The lambda's parameter is constructed from the thread's copy.
EnterLambda(t) ==
    /\ thr[t] = "start" /\ thr' = [thr EXCEPT ![t] = "serve"]
    /\ MoveConstruct(par[t], arg[t])
    /\ UNCHANGED <<main, cur>>

\* PORT, and the delete of LIST, RETR, STOR and of the next PORT.
DataConnection(t) ==
    /\ ftp /\ thr[t] = "serve"
    /\ \/ \E f \in Fds \cup {invalidSocket} : Socket(con[t], f, "null")
       \/ Connected(con[t]) \/ SetupFails(con[t]) \/ Destroy(con[t])
    /\ UNCHANGED <<main, cur, thr>>

\* sendResponse's putClose.
HttpClose(t) ==
    /\ ~ftp /\ thr[t] = "serve"
    /\ m_ssl[par[t]] # nullSSL
    /\ putClose(par[t])
    /\ UNCHANGED <<main, cur, thr>>

\* The protocol object goes, and with ProtocolFtp the pointer m_client.
ServiceEnds(t) ==
    /\ thr[t] = "serve" /\ thr' = [thr EXCEPT ![t] = "end"]
    /\ \/ Forget(con[t])
       \/ life[con[t]] \in {"raw", "lost"} /\ UNCHANGED vars
    /\ UNCHANGED <<main, cur>>

\* Mutant: the thread ends without destroying the lambda's parameter.
LeaveLambdaEarly(t) ==
    /\ thr[t] = "end"
    /\ Destroy(arg[t])
    /\ thr' = IF life'[arg[t]] = "raw" THEN [thr EXCEPT ![t] = "idle"] ELSE thr
    /\ UNCHANGED <<main, cur>>

\* The lambda's parameter is destroyed, then the thread's copy.
LeaveLambda(t) ==
    /\ thr[t] = "end"
    /\ \/ Destroy(par[t])
       \/ life[par[t]] = "raw" /\ Destroy(arg[t])
    /\ thr' = IF life'[arg[t]] = "raw" THEN [thr EXCEPT ![t] = "idle"] ELSE thr
    /\ UNCHANGED <<main, cur>>

Main == StartServer \/ AcceptLoop \/ Handshake \/ ReturnSocket \/ SpawnThread \/ Unwind
Thread(t) == EnterLambda(t) \/ DataConnection(t) \/ HttpClose(t) \/ ServiceEnds(t) \/ LeaveLambda(t)

ServerNext ==
    /\ ~crashed /\ main # "exit"
    /\ Main \/ \E t \in Threads : Thread(t)
    /\ UNCHANGED ftp

ServerSpec == ServerInit /\ [][ServerNext]_serverVars

\* main waits for a client: in SSL_accept, or in the SSL_shutdown of a
\* connection for which no thread could be created.
WaitsForPeer ==
    \/ main = "tls" /\ life[newssl] = "tls"
    \/ main = "unspawn" /\ m_ssl[arg[cur]] \in up

\* main runs when it can go on by itself; nothing is assumed of the clients.
ServerFairSpec == ServerSpec /\ WF_serverVars(ServerNext /\ Main /\ ~WaitsForPeer)

-----------------------------------------------------------------------------
(* Properties. *)

\* Every call finds the objects it needs: ::accept a listening server and empty
\* storage for newssl, each move of the connection a constructed source and
\* empty storage for its target (that of an earlier connection of the same
\* thread slot included), each destructor an object.  Where this failed the
\* program would construct over a living object, or move or destroy one that is
\* gone; the model would only have no step there.
ObjectsFitTheCalls ==
    /\ main \notin {"start", "bind", "quit", "exit"} =>
          life[server] = "live" /\ m_socket[server] \in open
    /\ main = "loop" => life[newssl] = "raw"
    /\ main = "ret" => life[newssl] = "live" /\ life[accept] = "raw"
    /\ main = "drop" => life[newssl] \in {"live", "base"}
    /\ main = "spawn" =>
          /\ life[accept] = "live"
          /\ \A t \in Threads : thr[t] = "idle" => life[arg[t]] = "raw"
    /\ main = "detach" => life[accept] \in {"live", "base"}
    /\ \A t \in Threads :
          /\ thr[t] = "start" => life[arg[t]] = "live" /\ life[par[t]] = "raw"
          /\ thr[t] = "serve" => life[arg[t]] = "live" /\ life[par[t]] = "live"
          /\ thr[t] = "end" => life[arg[t]] \in {"live", "base"}

\* No thread, and so no client, makes the process dereference a null SSL: the
\* ConnectSocket that would is never given an SSL_CTX.
NeverNullSSL == ~crashed

\* A thread serves a connected, open socket of its own, over TLS with the
\* handshake completed (until putClose), whatever main and other threads close.
ServesOwnConnection ==
    \A t \in Threads : thr[t] = "serve" =>
        /\ m_socket[par[t]] \in open
        /\ \A u \in Threads \ {t} :
              thr[u] = "serve" => m_socket[par[u]] # m_socket[par[t]]
        /\ m_ssl[par[t]] = nullSSL \/ m_ssl[par[t]] \in up
        /\ ftp /\ m_sslctx[par[t]] = "ctx" => m_ssl[par[t]] # nullSSL

\* While main waits for a client, every open descriptor but its own is held by
\* a running session or is a data connection that ~ProtocolFtp has lost: those
\* alone bring ::accept to EMFILE, which ends the server.
DescriptorsAccounted ==
    main = "loop" =>
        \A f \in open \ {m_socket[server]} : \E t \in Threads :
            \/ thr[t] # "idle" /\ f \in {m_socket[par[t]], m_socket[arg[t]], m_socket[con[t]]}
            \/ life[con[t]] = "lost" /\ f = m_socket[con[t]]

\* The accept loop never waits in SSL_shutdown for a client that is slow to say
\* goodbye: what main destroys has no completed TLS session left, except when
\* no thread could be created and the server is about to end.
MainNeverWaitsForGoodbye ==
    /\ main \in {"drop", "quit"} => m_ssl[newssl] \notin up
    /\ main \in {"detach", "quit"} => m_ssl[accept] \notin up
    /\ m_ssl[server] = nullSSL

\* A connection keeps the accept loop from its next client only while main
\* waits in SSL_accept for a silent one (or every thread slot of the model is
\* taken): sessions, however long, never do.
MainComesBack ==
    main # "exit" ~> \/ main \in {"loop", "exit"} \/ WaitsForPeer
                     \/ \A t \in Threads : thr[t] # "idle"
=============================================================================
