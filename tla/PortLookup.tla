----------------------------- MODULE PortLookup -----------------------------
(***************************************************************************)
(* HandlePORT of several FTP sessions, each in its own thread.  The host   *)
(* the client named goes through gethostbyname, whose result lies in one   *)
(* static hostent of the process: HandlePORT reads the address out of it   *)
(* after the call has returned.  (FtpSession has the rest of a session.)   *)
(***************************************************************************)
EXTENDS Naturals

CONSTANTS
    Sessions,   \* threads that run ProtocolFtp::startProtocol
    Hosts,      \* the hosts clients name in PORT
    BadHosts,   \* those gethostbyname does not take, 999.0.0.1 say
    none        \* no host

VARIABLES
    pc,         \* each session: "idle", "call", "read", "connect"
    asked,      \* the host its client named last
    host,       \* HandlePORT's local: the textual address to connect to
    hostent,    \* the static result of gethostbyname: one address
    m_client,   \* the host each session's data connection goes to, or none
    overlapped  \* history: another lookup came between this one's call and read

vars == <<pc, asked, host, hostent, m_client, overlapped>>

TypeOK ==
    /\ pc \in [Sessions -> {"idle", "call", "read", "connect"}]
    /\ asked \in [Sessions -> Hosts \cup {none}]
    /\ host \in [Sessions -> Hosts \cup {none}]
    /\ hostent \in (Hosts \ BadHosts) \cup {none}
    /\ m_client \in [Sessions -> Hosts \cup {none}]
    /\ overlapped \in [Sessions -> BOOLEAN]

Init ==
    /\ pc = [s \in Sessions |-> "idle"]
    /\ asked = [s \in Sessions |-> none]
    /\ host = [s \in Sessions |-> none]
    /\ hostent = none
    /\ m_client = [s \in Sessions |-> none]
    /\ overlapped = [s \in Sessions |-> FALSE]

-----------------------------------------------------------------------------
\* PORT h1,h2,h3,h4,p1,p2
Port(s, h) ==
    /\ pc[s] = "idle" /\ pc' = [pc EXCEPT ![s] = "call"]
    /\ asked' = [asked EXCEPT ![s] = h]
    /\ host' = [host EXCEPT ![s] = h]
    /\ overlapped' = [overlapped EXCEPT ![s] = FALSE]
    /\ UNCHANGED <<hostent, m_client>>

\* NULL leaves the static hostent, and HandlePORT keeps the text it has.
gethostbyname(s) ==
    /\ pc[s] = "call"
    /\ IF host[s] \in BadHosts
       THEN pc' = [pc EXCEPT ![s] = "connect"] /\ UNCHANGED <<hostent, overlapped>>
       ELSE /\ pc' = [pc EXCEPT ![s] = "read"]
            /\ hostent' = host[s]
            /\ overlapped' = [t \in Sessions |-> overlapped[t] \/ (t # s /\ pc[t] = "read")]
    /\ UNCHANGED <<asked, host, m_client>>

\* host = inet_ntoa(*hp->h_addr_list[0]): whatever is there by now.
ReadAddress(s) ==
    /\ pc[s] = "read" /\ pc' = [pc EXCEPT ![s] = "connect"]
    /\ host' = [host EXCEPT ![s] = hostent]
    /\ UNCHANGED <<asked, hostent, m_client, overlapped>>

\* The old data connection is deleted, then the new one made; it may fail, and
\* does for an address inet_addr does not take.  The answer is 200 either way.
Connect(s) ==
    /\ pc[s] = "connect" /\ pc' = [pc EXCEPT ![s] = "idle"]
    /\ \/ m_client' = [m_client EXCEPT ![s] = none]
       \/ host[s] \notin BadHosts /\ m_client' = [m_client EXCEPT ![s] = host[s]]
    /\ UNCHANGED <<asked, host, hostent, overlapped>>

Next ==
    \E s \in Sessions :
        \/ \E h \in Hosts : Port(s, h)
        \/ gethostbyname(s) \/ ReadAddress(s) \/ Connect(s)

Spec == Init /\ [][Next]_vars

-----------------------------------------------------------------------------
(* Properties. *)

\* After PORT the data connection goes to the host this session's client named
\* ("주소 및 포트 지정": PORT specifies the address and port).
PortTargetsOwnHost ==
    \A s \in Sessions :
        pc[s] = "idle" /\ m_client[s] # none => m_client[s] = asked[s]

\* A session's data goes to a host another client named only if that client's
\* lookup fell between this session's call and its read: a lookup that fails,
\* an earlier PORT, or a finished one never leads there.
StrayOnlyIfOverlapped ==
    \A s \in Sessions :
        pc[s] = "idle" /\ m_client[s] # none => m_client[s] = asked[s] \/ overlapped[s]
=============================================================================
