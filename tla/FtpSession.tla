----------------------------- MODULE FtpSession -----------------------------
(***************************************************************************)
(* One FTP session: ProtocolFtp (libs/Protocols) on the control connection *)
(* that ftpServer accepted, its data connection m_client, and the client   *)
(* at the other end of both.                                               *)
(*                                                                         *)
(* A command is a record: its verb, and the word that follows it.  TCP     *)
(* keeps no message boundaries: recvMessage returns whatever has arrived,  *)
(* one command or several.  A command is never cut in two.                 *)
(* A reply is its code.  A blocking send is a step of its own, so the peer *)
(* can act between any two sends of a handler.                             *)
(***************************************************************************)
EXTENDS Integers, Sequences, FiniteSetsExt

CONSTANTS
    Verbs,      \* the commands the client uses
    Args,       \* the words the client puts behind a verb
    Window,     \* replies a client leaves outstanding (1: lock-step)
    MaxCmds,    \* bound: commands the client sends in a session
    MaxEntries, \* bound: entries of a directory
    SockBuf,    \* replies the control connection buffers before send blocks
    Clients     \* the kinds of client, see Kinds

\* Words a client may send: the keywords the dispatch looks for that have a
\* handler, two of those that are refused, "NOOP" and "QUIT", and as arguments
\* nothing, an ordinary word (a name, or a full address), or a keyword.
Keywords == {"CWD", "LIST", "MKD", "NOOP", "PASS", "PASV", "PORT", "PWD", "QUIT",
             "RETR", "SIZE", "STOR", "SYST", "TYPE", "USER"}

(***************************************************************************)
(* any      sends, reads and closes as it likes                            *)
(* careful  keeps to the commands the server answers, and cooperates       *)
(* patient  ends the data of a STOR only after a 150                       *)
(***************************************************************************)
Kinds == {"any", "careful", "patient"}

ASSUME FtpAssumption ==
    /\ Verbs \subseteq Keywords
    /\ Args \subseteq Keywords \cup {"none", "word"}
    /\ Window \in Nat \ {0}
    /\ MaxCmds \in Nat
    /\ MaxEntries \in Nat
    /\ SockBuf \in Nat \ {0}
    /\ Clients \subseteq Kinds

Commands == [verb : Verbs, arg : Args]
Codes == {150, 200, 215, 220, 226, 227, 230, 250, 257, 331, 500, 530}

VARIABLES
    pc,             \* where the session thread is, see Places
    toSend,         \* replies the current handler has still to send
    authed,         \* startProtocol has left its login loop
    m_recvMessage,  \* the commands of the last read
    m_client,       \* "null", "open", "gone" (its peer has closed)
    m_pwd,          \* "dir" or "nodir": whether the directory exists
    todo,           \* directory entries HandleLIST has still to send
    conns,          \* kernel: open descriptors of data connections
    dirs,           \* kernel: open descriptors of directory streams
    inbox,          \* control connection, client to server
    outbox,         \* control connection, server to client
    ctl,            \* client's end of it: "open", "half", "closed", "reset"
    kind,           \* client: its kind, fixed for the session
    owed,           \* client: replies it still waits for, the greeting included
    sent,           \* client: commands sent so far
    ready,          \* client: its data connection was accepted and not used up
    swallowed,      \* history: commands read that no reply will ever answer
    broken          \* history: the peer of a data connection closed it

server == <<pc, toSend, authed, m_recvMessage, m_client, m_pwd, todo, conns, dirs>>
client == <<kind, owed, sent>>
elsewhere == <<inbox, outbox, ctl, client, swallowed, broken>>
vars == <<server, elsewhere, ready>>

(***************************************************************************)
(* login    HandleLogin waits for USER                                     *)
(* pass     HandleLogin waits for the message after 331                    *)
(* cmd      startProtocol waits for a command                              *)
(* opendir, list    HandleLIST before and after opendir                    *)
(* retr     HandleRETR after its 150                                       *)
(* stor     HandleSTOR reads the data connection                           *)
(* end      startProtocol has thrown, the thread is over                   *)
(* crash    a null m_client was used: the process is gone                  *)
(***************************************************************************)
Working == {"opendir", "list", "retr", "stor"}
Places == {"login", "pass", "cmd", "end", "crash"} \cup Working

TypeOK ==
    /\ pc \in Places
    /\ toSend \in Seq(Codes)
    /\ authed \in BOOLEAN
    /\ m_recvMessage \in Seq(Commands)
    /\ m_client \in {"null", "open", "gone"}
    /\ m_pwd \in {"dir", "nodir"}
    /\ todo \in 0..MaxEntries
    /\ conns \in Nat
    /\ dirs \in Nat
    /\ inbox \in Seq(Commands)
    /\ outbox \in Seq(Codes)
    /\ ctl \in {"open", "half", "closed", "reset"}
    /\ kind \in Clients
    /\ owed \in Nat
    /\ sent \in 0..MaxCmds
    /\ ready \in BOOLEAN
    /\ swallowed \in Nat
    /\ broken \in BOOLEAN

\* The thread has constructed its ProtocolFtp and is about to send 220.
Init ==
    /\ pc = "login" /\ toSend = <<220>> /\ authed = FALSE
    /\ m_recvMessage = <<>>
    /\ m_client = "null" /\ m_pwd \in {"dir", "nodir"}
    /\ todo = 0 /\ conns = 0 /\ dirs = 0
    /\ inbox = <<>> /\ outbox = <<>> /\ ctl = "open"
    /\ kind \in Clients /\ owed = 1 /\ sent = 0 /\ ready = FALSE
    /\ swallowed = 0 /\ broken = FALSE

-----------------------------------------------------------------------------
(* Helpers. *)

Bool01(b) == IF b THEN 1 ELSE 0

\* m_client points to a live ConnectSocket.
Connected == m_client \in {"open", "gone"}

\* The keywords of a message: std::string::find does not tell a verb from an
\* argument, nor one command from the next.
Words(m) == {m[i].verb : i \in DOMAIN m} \cup {m[i].arg : i \in DOMAIN m}

\* startProtocol compares the keywords in this order and stops at the first
\* that occurs anywhere in the message.
Chain == <<"CWD", "LIST", "MKD", "NOOP", "PASS", "PASV", "PORT", "PWD", "QUIT",
           "RETR", "SIZE", "STOR", "SYST", "TYPE", "USER">>

Verb(m) ==
    LET found == {i \in 1..Len(Chain) : Chain[i] \in Words(m)}
    IN  IF found = {} THEN "other" ELSE Chain[Min(found)]

\* sscanf anchors its format at the head of the message; the %s of CWD, RETR
\* and MKD skips line ends and may take the verb of the next command.
ScansWord(m, v) == Head(m).verb = v /\ (Head(m).arg # "none" \/ Len(m) > 1)
ScansAddress(m) == Head(m).verb = "PORT" /\ Head(m).arg = "word"

\* A handler leaves replies to send and says where the thread goes on.
Reply(codes, where) == toSend' = codes /\ pc' = where

Crash == Reply(<<>>, "crash")

\* delete m_client; m_client = nullptr
DeleteClient ==
    /\ m_client' = "null"
    /\ conns' = conns - Bool01(Connected)
    /\ UNCHANGED ready

KeepClient == UNCHANGED <<m_client, conns, ready>>

-----------------------------------------------------------------------------
(* sendMessage and recvMessage on the control connection. *)

\* putMessage.  It blocks while the buffers are full, throws once the
\* connection has been reset (no caller survives that), and is lost unnoticed
\* when the client has closed but no RST has come back yet.
sendMessage ==
    /\ toSend # <<>>
    /\ \/ /\ ctl = "reset"
          /\ Reply(<<>>, "end")
          /\ UNCHANGED outbox
       \/ /\ ctl # "reset"
          /\ \/ Len(outbox) < SockBuf /\ outbox' = Append(outbox, Head(toSend))
             \/ Len(outbox) >= SockBuf /\ ctl = "closed" /\ UNCHANGED outbox
          /\ toSend' = Tail(toSend)
          /\ UNCHANGED pc
    /\ KeepClient
    /\ UNCHANGED <<authed, m_recvMessage, m_pwd, todo, dirs,
                   inbox, ctl, client, swallowed, broken>>

\* recvMessage returns the first n of the commands that have arrived.
recvMessage(n) ==
    /\ toSend = <<>>
    /\ n \in 1..Len(inbox)
    /\ m_recvMessage' = SubSeq(inbox, 1, n)
    /\ inbox' = SubSeq(inbox, n + 1, Len(inbox))
    /\ UNCHANGED <<outbox, ctl, client, broken>>

\* recvMessage throws: end of file after what has arrived, or a reset.  The
\* timeout its callers pass is not used, so nothing else ends the wait.
RecvThrows ==
    /\ toSend = <<>>
    /\ ctl = "reset" \/ (ctl # "open" /\ inbox = <<>>)
    /\ m_recvMessage' = <<>>
    /\ UNCHANGED <<inbox, outbox, ctl, client, swallowed, broken>>

-----------------------------------------------------------------------------
(* HandleLogin.  Called by the login loop of startProtocol, which repeats it *)
(* until it returns 0, and once for a USER command after that.               *)

\* Mutant: startProtocol ignores what HandleLogin returns.
LoginResultIgnored(n) ==
    /\ pc = "login"
    /\ recvMessage(n)
    /\ swallowed' = swallowed + n - 1
    /\ IF "USER" \in Words(m_recvMessage')
       THEN Reply(<<331>>, "pass")
       ELSE Reply(<<530>>, "cmd")
    /\ KeepClient /\ UNCHANGED <<authed, m_pwd, todo, dirs>>

HandleLoginUser(n) ==
    /\ pc = "login"
    /\ recvMessage(n)
    /\ swallowed' = swallowed + n - 1
    /\ IF "USER" \in Words(m_recvMessage')
       THEN Reply(<<331>>, "pass")
       ELSE Reply(<<530>>, IF authed THEN "cmd" ELSE "login")
    /\ KeepClient /\ UNCHANGED <<authed, m_pwd, todo, dirs>>

\* Mutant: the exception is dropped without a reply.
LoginFailsSilently ==
    /\ pc = "login"
    /\ RecvThrows
    /\ Reply(<<>>, IF authed THEN "cmd" ELSE "login")
    /\ KeepClient /\ UNCHANGED <<authed, m_pwd, todo, dirs>>

\* The first read throws: the exception is answered with 530 and forgotten.
HandleLoginFails ==
    /\ pc = "login"
    /\ RecvThrows
    /\ Reply(<<530>>, IF authed THEN "cmd" ELSE "login")
    /\ KeepClient /\ UNCHANGED <<authed, m_pwd, todo, dirs>>

\* Any message after 331 is taken for the password.
HandleLoginPass(n) ==
    /\ pc = "pass"
    /\ recvMessage(n)
    /\ swallowed' = swallowed + n - 1
    /\ Reply(<<230>>, "cmd")
    /\ authed' = TRUE
    /\ KeepClient /\ UNCHANGED <<m_pwd, todo, dirs>>

-----------------------------------------------------------------------------
(* The handlers of the command loop, for the message m. *)

HandleError(err) ==
    /\ Reply(<<err>>, "cmd")
    /\ KeepClient /\ UNCHANGED m_pwd

HandleCWD(m) ==
    IF ScansWord(m, "CWD")
    THEN Reply(<<250>>, "cmd") /\ m_pwd' \in {"dir", "nodir"} /\ KeepClient
    ELSE HandleError(500)

\* Mutant: the old data connection is forgotten instead of deleted.
PortForgetsOld(m) ==
    IF ScansAddress(m)
    THEN /\ \/ m_client' = "open" /\ ready' = TRUE /\ conns' = conns + 1
            \/ DeleteClient
         /\ Reply(<<200>>, "cmd") /\ UNCHANGED m_pwd
    ELSE HandleError(500)

\* The old data connection is deleted before the new one is tried; when
\* connect fails the constructor throws and m_client stays null: 200 all the same.
HandlePORT(m) ==
    IF ScansAddress(m)
    THEN /\ \/ /\ m_client' = "open" /\ ready' = TRUE
               /\ conns' = conns - Bool01(Connected) + 1
            \/ DeleteClient
         /\ Reply(<<200>>, "cmd") /\ UNCHANGED m_pwd
    ELSE HandleError(500)

HandleLIST == Reply(<<150>>, "opendir") /\ KeepClient /\ UNCHANGED m_pwd

HandleRETR == Reply(<<150>>, "retr") /\ KeepClient /\ UNCHANGED m_pwd

HandleSTOR == Reply(<<>>, "stor") /\ KeepClient /\ UNCHANGED m_pwd

\* Mutant: a name that does not scan returns without HandleError.
MkdSilentOnError(m) ==
    /\ Reply(IF ScansWord(m, "MKD") THEN <<257>> ELSE <<>>, "cmd")
    /\ KeepClient /\ UNCHANGED m_pwd

HandleMKD(m) ==
    /\ Reply(IF ScansWord(m, "MKD") THEN <<257>> ELSE <<500>>, "cmd")
    /\ KeepClient /\ UNCHANGED m_pwd

\* Mutant: HandlePASV builds its reply and does not send it.
PasvNotSent(code) ==
    /\ Reply(IF code = 227 THEN <<>> ELSE <<code>>, "cmd")
    /\ KeepClient /\ UNCHANGED m_pwd

\* HandleTYPE, HandlePWD, HandlePASV and SYST: one reply.
HandleSimple(code) == Reply(<<code>>, "cmd") /\ KeepClient /\ UNCHANGED m_pwd

\* HandleSIZE returns without a reply.
HandleSIZE == Reply(<<>>, "cmd") /\ KeepClient /\ UNCHANGED m_pwd

\* USER in the command loop enters HandleLogin, which first reads again.
HandleUSER == Reply(<<>>, "login") /\ KeepClient /\ UNCHANGED m_pwd

\* One round of startProtocol's command loop.
Dispatch(n) ==
    LET m == m_recvMessage'
        v == Verb(m)
    IN  /\ pc = "cmd"
        /\ recvMessage(n)
        /\ swallowed' = swallowed + n - Bool01(v \notin {"SIZE", "USER"})
        /\ \/ v \in {"NOOP", "PASS", "QUIT", "other"} /\ HandleError(500)
           \/ v = "CWD"  /\ HandleCWD(m)
           \/ v = "LIST" /\ HandleLIST
           \/ v = "MKD"  /\ HandleMKD(m)
           \/ v = "PASV" /\ HandleSimple(227)
           \/ v = "PORT" /\ HandlePORT(m)
           \/ v = "PWD"  /\ HandleSimple(257)
           \/ v = "RETR" /\ HandleRETR
           \/ v = "SIZE" /\ HandleSIZE
           \/ v = "STOR" /\ HandleSTOR
           \/ v = "SYST" /\ HandleSimple(215)
           \/ v = "TYPE" /\ HandleSimple(200)
           \/ v = "USER" /\ HandleUSER
        /\ UNCHANGED <<authed, todo, dirs>>

\* recvMessage throws where nothing catches it: startProtocol is left, and
\* ~ProtocolFtp does not delete m_client.
SessionEnds ==
    /\ pc \in {"pass", "cmd"}
    /\ RecvThrows
    /\ Reply(<<>>, "end")
    /\ KeepClient /\ UNCHANGED <<authed, m_pwd, todo, dirs>>

-----------------------------------------------------------------------------
(* The transfers. *)

\* opendir succeeds on a directory with some number of entries.
DirOpens ==
    /\ m_pwd = "dir"
    /\ Reply(<<>>, "list")
    /\ todo' \in 0..MaxEntries
    /\ dirs' = dirs + 1

\* Mutant: HandleError(500) without the return, so that 226 follows.
OpenDirFallsThrough ==
    /\ pc = "opendir" /\ toSend = <<>>
    /\ \/ Reply(<<500, 226>>, "cmd") /\ UNCHANGED <<todo, dirs>>
       \/ DirOpens
    /\ KeepClient
    /\ UNCHANGED <<authed, m_recvMessage, m_pwd, elsewhere>>

\* Mutant: a failed opendir also gives up the data connection.
OpenDirFailureDeletes ==
    /\ pc = "opendir" /\ toSend = <<>>
    /\ \/ Reply(<<500>>, "cmd") /\ DeleteClient /\ UNCHANGED <<todo, dirs>>
       \/ DirOpens /\ KeepClient
    /\ UNCHANGED <<authed, m_recvMessage, m_pwd, elsewhere>>

\* opendir fails when there is no such directory (or no descriptor left).
OpenDir ==
    /\ pc = "opendir" /\ toSend = <<>>
    /\ \/ Reply(<<500>>, "cmd") /\ UNCHANGED <<todo, dirs>>
       \/ DirOpens
    /\ KeepClient
    /\ UNCHANGED <<authed, m_recvMessage, m_pwd, elsewhere>>

\* One entry is sent.  When the send throws, the handler skips closedir and
\* delete, and reports success.
ListEntry ==
    /\ pc = "list" /\ todo > 0
    /\ \/ ~Connected /\ Crash /\ UNCHANGED todo
       \/ Connected /\ todo' = todo - 1 /\ UNCHANGED <<pc, toSend>>
       \/ m_client = "gone" /\ Reply(<<226>>, "cmd") /\ todo' = 0
    /\ KeepClient
    /\ UNCHANGED <<authed, m_recvMessage, m_pwd, dirs, elsewhere>>

\* closedir, delete, 226.
ListDone ==
    /\ pc = "list" /\ todo = 0
    /\ dirs' = dirs - 1
    /\ DeleteClient
    /\ Reply(<<226>>, "cmd")
    /\ UNCHANGED <<authed, m_recvMessage, m_pwd, todo, elsewhere>>

\* The rest of HandleRETR.  An empty file is sent without touching m_client.
RetrFile ==
    /\ pc = "retr" /\ toSend = <<>>
    /\ \/ Reply(<<500>>, "cmd") /\ KeepClient
       \/ /\ ScansWord(m_recvMessage, "RETR") /\ m_pwd = "dir"
          /\ \/ Reply(<<226>>, "cmd") /\ DeleteClient
             \/ ~Connected /\ Crash /\ KeepClient
             \/ m_client = "gone" /\ Reply(<<226>>, "cmd") /\ KeepClient
    /\ UNCHANGED <<authed, m_recvMessage, m_pwd, todo, dirs, elsewhere>>

\* HandleSTOR reads until the peer closes (or the read fails, and m_client is
\* kept), and only then says 150 and 226.
StorData ==
    /\ pc = "stor"
    /\ \/ ~Connected /\ Crash /\ KeepClient
       \/ m_client = "gone" /\ Reply(<<150, 226>>, "cmd") /\ (DeleteClient \/ KeepClient)
    /\ m_recvMessage' = <<>>
    /\ UNCHANGED <<authed, m_pwd, todo, dirs, elsewhere>>

-----------------------------------------------------------------------------
(* The client and the network. *)

\* A careful client does not ask for what the server does not answer, names no
\* file by a word the dispatch would find, and asks for a transfer only after
\* its listener has accepted a data connection that it has not closed itself
\* and that no 226 has used up.
Wise(c) ==
    /\ c.verb # "SIZE" /\ c.arg \notin Keywords
    /\ c.verb = "USER" => ~authed
    /\ c.verb \in {"LIST", "RETR", "STOR"} => ready

ClientSend(c) ==
    /\ ctl = "open" /\ pc # "crash"
    /\ owed < Window /\ sent < MaxCmds
    /\ kind = "careful" => Wise(c)
    /\ inbox' = Append(inbox, c)
    /\ owed' = owed + 1 /\ sent' = sent + 1
    /\ ready' = (ready /\ c.verb # "PORT")
    /\ UNCHANGED <<server, outbox, ctl, kind, swallowed, broken>>

\* Only a final reply settles a command.
ClientRead ==
    /\ ctl \in {"open", "half"} /\ outbox # <<>>
    /\ outbox' = Tail(outbox)
    /\ owed' = IF Head(outbox) # 150 /\ owed > 0 THEN owed - 1 ELSE owed
    /\ ready' = (ready /\ Head(outbox) # 226)
    /\ UNCHANGED <<server, inbox, ctl, kind, sent, swallowed, broken>>

ClientHalfClose ==
    /\ ctl = "open" /\ ctl' = "half"
    /\ UNCHANGED <<server, inbox, outbox, client, ready, swallowed, broken>>

ClientClose ==
    /\ ctl \in {"open", "half"} /\ ctl' = "closed"
    /\ UNCHANGED <<server, inbox, outbox, client, ready, swallowed, broken>>

\* The client's kernel answers data for a closed socket with RST.
Reset ==
    /\ ctl = "closed" /\ outbox # <<>> /\ ctl' = "reset"
    /\ UNCHANGED <<server, inbox, outbox, client, ready, swallowed, broken>>

\* The peer closes the data connection: the end of the data of a STOR, or a
\* client that gives up.
DataPeerClose ==
    /\ m_client = "open"
    /\ kind = "patient" => pc # "stor" \/ ctl \in {"closed", "reset"}
    /\ m_client' = "gone" /\ broken' = TRUE /\ ready' = FALSE
    /\ UNCHANGED <<pc, toSend, authed, m_recvMessage, m_pwd, todo, conns, dirs,
                   inbox, outbox, ctl, client, swallowed>>

-----------------------------------------------------------------------------
Login == (\E n \in 1..Len(inbox) : HandleLoginUser(n) \/ HandleLoginPass(n)) \/ HandleLoginFails
Command == (\E n \in 1..Len(inbox) : Dispatch(n)) \/ SessionEnds
Transfer == OpenDir \/ ListEntry \/ ListDone \/ RetrFile \/ StorData
Server == sendMessage \/ Login \/ Command \/ Transfer

Environment ==
    \/ \E c \in Commands : ClientSend(c)
    \/ ClientRead \/ ClientHalfClose \/ ClientClose \/ Reset \/ DataPeerClose

Next == Server \/ Environment

Spec == Init /\ [][Next]_vars

-----------------------------------------------------------------------------
(* Fairness. *)

\* A transfer to a peer that is still there waits for that peer to read.
PeerReads == m_client = "open" /\ (ListEntry \/ RetrFile)

\* The session thread runs whenever it is not blocked in a system call; a
\* client that has closed has exited, so its kernel resets what arrives later
\* and closes its data connections.  A careful client reads what the server
\* sends, on both connections, and ends the data of a STOR.  Nothing is assumed
\* of any other that is still there: it may never send, read or close.
Fairness ==
    /\ WF_vars(Server /\ ~PeerReads)
    /\ WF_vars(Reset)
    /\ WF_vars(ctl \in {"closed", "reset"} /\ DataPeerClose)
    /\ WF_vars(kind = "careful" /\ ClientRead)
    /\ WF_vars(kind = "careful" /\ PeerReads)
    /\ WF_vars(kind = "careful" /\ pc = "stor" /\ DataPeerClose)

FairSpec == Spec /\ Fairness

-----------------------------------------------------------------------------
(* Properties. *)

\* The session never holds a second data connection: PORT, the transfers that
\* complete and those that break off leave one descriptor exactly while
\* m_client points to it.  (What it points to at the end is leaked.)
OneDataConnection == conns = Bool01(Connected)

\* After a LIST its directory stream is closed, unless the peer of a data
\* connection had closed it: only then does the exception path skip closedir.
DirLeaksOnlyIfBroken == pc # "crash" /\ dirs > Bool01(pc = "list") => broken

\* No transfer and no data connection before the login loop was left, however
\* commands are coalesced, repeated or cut off by an end of file.
TransfersNeedLogin ==
    Connected \/ pc \in Working => authed

\* The final replies in a sequence of codes.
Finals(codes) == Cardinality({i \in DOMAIN codes : codes[i] # 150})

\* The client's ledger: while it is connected, every reply it waits for is on
\* its way, will come from the handler at work or from a command still to be
\* read, or belongs to a command the server has swallowed.  No handler answers
\* twice, whatever path it takes, and only Dispatch and HandleLogin swallow.
RepliesAccounted ==
    ctl = "open" /\ pc # "crash" =>
        owed = Len(inbox) + Finals(toSend) + Finals(outbox) + swallowed
               + Bool01(pc \in Working)

\* Server and client wait for each other and neither will ever move.
MutualWait ==
    /\ ctl = "open" /\ owed > 0
    /\ toSend = <<>> /\ inbox = <<>> /\ outbox = <<>>
    /\ pc \in {"login", "pass", "cmd"} \/ (pc = "stor" /\ m_client = "open" /\ kind = "patient")

\* With a lock-step client the session gets stuck in three ways only: SIZE,
\* which has no reply; USER after login, where HandleLogin reads before it
\* replies; and STOR with a client that waits for the 150.
StuckOnlyWhereSilent ==
    Window = 1 /\ MutualWait =>
        \/ pc = "cmd" /\ "SIZE" \in Words(m_recvMessage)
        \/ pc = "login" /\ authed
        \/ pc = "stor"

\* The session never uses a null m_client when the client is in
\* lock-step and goes by the replies: a data connection outlives every command
\* but PORT and a transfer answered with 226, the refused transfers included,
\* and it may break at any moment.
NoCrash == kind = "careful" /\ Window = 1 => pc # "crash"

\* When the client is gone the thread ends: it does not stay in the login loop
\* (which answers every end of file with 530) nor in a transfer.
GoneClientEndsSession == ctl \in {"closed", "reset"} ~> pc \in {"end", "crash"}

\* Every command of a careful client is answered, as long as it stays.
EveryCommandAnswered ==
    kind = "careful" /\ owed > 0 ~> owed = 0 \/ ctl # "open"

\* HandleLogin waits at most 5 seconds for a message (the timeout it passes to
\* recvMessage, which getMessage implements): the wait comes to an end.
LoginReadEnds == (pc = "login" /\ toSend = <<>>) ~> (pc # "login" \/ toSend # <<>>)
=============================================================================
