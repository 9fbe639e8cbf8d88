-------------------------- MODULE FtpSessionProofs --------------------------
(***************************************************************************)
(* Invariants of an FTP session, proved for every client (any commands,    *)
(* any window, of any kind) and any bounds: what the server keeps, what    *)
(* the client is owed, and, at the end, where the data connections of      *)
(* several sessions go.                                                    *)
(***************************************************************************)
EXTENDS FtpSession, SequenceTheorems, FiniteSetTheorems, WellFoundedInduction, TLAPS

\* The places of the thread that lie behind the login loop.
LoggedIn == {"cmd", "opendir", "list", "retr", "stor"}

\* TransfersNeedLogin, with the command loop itself added.
LoginInv == /\ Connected => authed
            /\ pc \in LoggedIn => authed

\* DirLeaksOnlyIfBroken, with what ListEntry and ListDone rely on.
DirInv == /\ m_client = "gone" => broken
          /\ pc = "list" => dirs >= 1
          /\ pc \in {"list", "crash"} => toSend = <<>>
          /\ DirLeaksOnlyIfBroken

\* Kept folded in the proofs, where a handler's replies are literal tuples.
IsReply(codes) == codes \in Seq(Codes)

\* TypeOK in two parts: the sequences, and the rest.
SeqTypes ==
    /\ IsReply(toSend) /\ outbox \in Seq(Codes)
    /\ m_recvMessage \in Seq(Commands) /\ inbox \in Seq(Commands)

ScalarTypes ==
    /\ pc \in Places
    /\ authed \in BOOLEAN /\ ready \in BOOLEAN /\ broken \in BOOLEAN
    /\ m_client \in {"null", "open", "gone"}
    /\ m_pwd \in {"dir", "nodir"}
    /\ ctl \in {"open", "half", "closed", "reset"}
    /\ todo \in 0..MaxEntries /\ sent \in 0..MaxCmds
    /\ conns \in Nat /\ dirs \in Nat /\ owed \in Nat /\ swallowed \in Nat
    /\ kind \in Clients

\* The inductive invariant.
SessionInv == SeqTypes /\ ScalarTypes /\ LoginInv /\ DirInv /\ OneDataConnection

-----------------------------------------------------------------------------
\* A message read from the control connection, and what stays behind in it,
\* are sequences of commands.
LEMMA ReadTypes ==
  ASSUME SeqTypes, NEW n \in 1..Len(inbox), recvMessage(n)
  PROVE  /\ m_recvMessage' \in Seq(Commands)
         /\ inbox' \in Seq(Commands)
         /\ Len(inbox) \in Nat /\ n \in Nat
<1>1. inbox \in Seq(Commands) /\ Len(inbox) \in Nat
  BY LenProperties DEF SeqTypes
<1>2. n \in Nat /\ 1 <= n /\ n <= Len(inbox)
  BY <1>1
<1>3. \A i \in 1..n : inbox[i] \in Commands
  BY <1>1, <1>2, LenProperties, ElementOfSeq
<1>4. \A i \in (n + 1)..Len(inbox) : inbox[i] \in Commands
  BY <1>1, <1>2, LenProperties, ElementOfSeq
<1>5. SubSeq(inbox, 1, n) \in Seq(Commands)
  BY <1>2, <1>3, SubSeqProperties
<1>6. SubSeq(inbox, n + 1, Len(inbox)) \in Seq(Commands)
  BY <1>1, <1>2, <1>4, SubSeqProperties
<1> QED BY <1>1, <1>2, <1>5, <1>6 DEF recvMessage

\* What the handlers leave to send are sequences of codes.
LEMMA ReplyTypes ==
  /\ IsReply(<<>>) /\ IsReply(<<150, 226>>)
  /\ IsReply(<<150>>) /\ IsReply(<<200>>) /\ IsReply(<<215>>) /\ IsReply(<<220>>)
  /\ IsReply(<<226>>) /\ IsReply(<<227>>) /\ IsReply(<<230>>) /\ IsReply(<<250>>)
  /\ IsReply(<<257>>) /\ IsReply(<<331>>) /\ IsReply(<<500>>) /\ IsReply(<<530>>)
  BY DEF Codes, IsReply

\* A session starts with nothing on its way.
LEMMA EmptyTypes == <<>> \in Seq(Codes) /\ <<>> \in Seq(Commands)
  OBVIOUS

\* No data connection, no directory stream and no login at the start.
LEMMA InitSession == Init => SessionInv
<1> SUFFICES ASSUME Init PROVE SessionInv
    OBVIOUS
<1>1. SeqTypes
  BY ReplyTypes, EmptyTypes DEF Init, SeqTypes
<1>2. ScalarTypes
  <2>1. todo \in 0..MaxEntries /\ sent \in 0..MaxCmds
    BY FtpAssumption DEF Init
  <2>2. authed \in BOOLEAN /\ ready \in BOOLEAN /\ broken \in BOOLEAN
    BY DEF Init
  <2> QED BY <2>1, <2>2 DEF Init, ScalarTypes, Places, Working
<1>3. LoginInv /\ DirInv /\ OneDataConnection
  BY DEF Init, LoginInv, LoggedIn, DirInv, DirLeaksOnlyIfBroken,
         OneDataConnection, Connected, Bool01
<1> QED BY <1>1, <1>2, <1>3 DEF SessionInv

\* sendMessage preserves the invariant.
LEMMA SendInv ==
  ASSUME SessionInv, sendMessage
  PROVE  SessionInv'
<1> USE FtpAssumption DEF SessionInv
<1>1. CASE sendMessage
  <2>1. SeqTypes'
    <3>1. IsReply(toSend')
      <4>1. IsReply(Tail(toSend))
        BY <1>1, HeadTailProperties DEF sendMessage, SeqTypes, IsReply
      <4>2. toSend' \in {<<>>, Tail(toSend)}
        BY <1>1 DEF sendMessage, Reply
      <4>3. IsReply(<<>>)
        BY DEF IsReply
      <4> QED BY <4>1, <4>2, <4>3, Zenon
    <3>2. outbox' \in Seq(Codes)
      <4>1. Head(toSend) \in Codes
        BY <1>1, HeadTailProperties DEF sendMessage, SeqTypes, IsReply
      <4>2. outbox \in Seq(Codes)
        BY DEF SeqTypes
      <4>3. Append(outbox, Head(toSend)) \in Seq(Codes)
        BY <4>1, <4>2, AppendProperties
      <4>4. outbox' \in {outbox, Append(outbox, Head(toSend))}
        BY <1>1 DEF sendMessage
      <4> QED BY <4>2, <4>3, <4>4
    <3> QED BY <1>1, <3>1, <3>2 DEF sendMessage, SeqTypes
  <2>2. ScalarTypes'
    BY <1>1
       DEF sendMessage, Reply, KeepClient, client, ScalarTypes, Places, Working, Connected,
           Bool01, OneDataConnection, DirInv
  <2>3. LoginInv'
    BY <1>1
       DEF sendMessage, Reply, KeepClient, client, ScalarTypes, LoginInv, LoggedIn,
           Connected
  <2>4. DirInv'
    BY <1>1
       DEF sendMessage, Reply, KeepClient, client, ScalarTypes, DirInv,
           DirLeaksOnlyIfBroken, Bool01, OneDataConnection, Connected
  <2>5. OneDataConnection'
    BY <1>1
       DEF sendMessage, Reply, KeepClient, client, ScalarTypes,
           OneDataConnection, Connected, Bool01
  <2> QED BY <2>1, <2>2, <2>3, <2>4, <2>5
<1> QED BY <1>1 DEF sendMessage

\* The steps of HandleLogin preserve the invariant.
LEMMA LoginStepInv ==
  ASSUME SessionInv, Login
  PROVE  SessionInv'
<1> USE FtpAssumption DEF SessionInv
<1>1. ASSUME NEW n \in 1..Len(inbox), HandleLoginUser(n)
      PROVE  SessionInv'
  <2>1. SeqTypes'
    <3>1. IsReply(toSend')
      BY <1>1, ReplyTypes, SMTT(30) DEF HandleLoginUser, Reply
    <3>2. /\ m_recvMessage' \in Seq(Commands) /\ inbox' \in Seq(Commands)
          /\ outbox' \in Seq(Codes)
      BY <1>1, ReadTypes DEF HandleLoginUser, recvMessage, SeqTypes
    <3> QED BY <3>1, <3>2 DEF SeqTypes
  <2>2. ScalarTypes'
    BY <1>1, ReadTypes
       DEF HandleLoginUser, recvMessage, Reply, KeepClient, client, ScalarTypes,
           Places, Working, Connected, Bool01, OneDataConnection, DirInv
  <2>3. LoginInv'
    BY <1>1
       DEF HandleLoginUser, recvMessage, Reply, KeepClient, client, ScalarTypes,
           LoginInv, LoggedIn, Connected
  <2>4. DirInv'
    BY <1>1
       DEF HandleLoginUser, recvMessage, Reply, KeepClient, client, ScalarTypes,
           DirInv, DirLeaksOnlyIfBroken, Bool01, OneDataConnection,
           Connected
  <2>5. OneDataConnection'
    BY <1>1
       DEF HandleLoginUser, recvMessage, Reply, KeepClient, client, ScalarTypes,
           OneDataConnection, Connected, Bool01
  <2> QED BY <2>1, <2>2, <2>3, <2>4, <2>5
<1>2. ASSUME NEW n \in 1..Len(inbox), HandleLoginPass(n)
      PROVE  SessionInv'
  <2>1. SeqTypes'
    <3>1. IsReply(toSend')
      BY <1>2, ReplyTypes DEF HandleLoginPass, Reply
    <3>2. /\ m_recvMessage' \in Seq(Commands) /\ inbox' \in Seq(Commands)
          /\ outbox' \in Seq(Codes)
      BY <1>2, ReadTypes DEF HandleLoginPass, recvMessage, SeqTypes
    <3> QED BY <3>1, <3>2 DEF SeqTypes
  <2>2. ScalarTypes'
    BY <1>2, ReadTypes
       DEF HandleLoginPass, recvMessage, Reply, KeepClient, client, ScalarTypes,
           Places, Working, Connected, Bool01, OneDataConnection, DirInv
  <2>3. LoginInv'
    BY <1>2
       DEF HandleLoginPass, recvMessage, Reply, KeepClient, client, ScalarTypes,
           LoginInv, LoggedIn, Connected
  <2>4. DirInv'
    BY <1>2
       DEF HandleLoginPass, recvMessage, Reply, KeepClient, client, ScalarTypes,
           DirInv, DirLeaksOnlyIfBroken, Bool01, OneDataConnection,
           Connected
  <2>5. OneDataConnection'
    BY <1>2
       DEF HandleLoginPass, recvMessage, Reply, KeepClient, client, ScalarTypes,
           OneDataConnection, Connected, Bool01
  <2> QED BY <2>1, <2>2, <2>3, <2>4, <2>5
<1>3. CASE HandleLoginFails
  <2>1. SeqTypes'
    <3>1. IsReply(toSend')
      BY <1>3, ReplyTypes DEF HandleLoginFails, Reply
    <3>2. /\ m_recvMessage' \in Seq(Commands) /\ inbox' \in Seq(Commands)
          /\ outbox' \in Seq(Codes)
      BY <1>3, EmptyTypes DEF HandleLoginFails, RecvThrows, SeqTypes
    <3> QED BY <3>1, <3>2 DEF SeqTypes
  <2>2. ScalarTypes'
    BY <1>3
       DEF HandleLoginFails, RecvThrows, Reply, KeepClient, client, ScalarTypes,
           Places, Working, Connected, Bool01, OneDataConnection, DirInv
  <2>3. LoginInv'
    BY <1>3
       DEF HandleLoginFails, RecvThrows, Reply, KeepClient, client, ScalarTypes,
           LoginInv, LoggedIn, Connected
  <2>4. DirInv'
    BY <1>3
       DEF HandleLoginFails, RecvThrows, Reply, KeepClient, client, ScalarTypes,
           DirInv, DirLeaksOnlyIfBroken, Bool01, OneDataConnection,
           Connected
  <2>5. OneDataConnection'
    BY <1>3
       DEF HandleLoginFails, RecvThrows, Reply, KeepClient, client, ScalarTypes,
           OneDataConnection, Connected, Bool01
  <2> QED BY <2>1, <2>2, <2>3, <2>4, <2>5
<1> QED BY <1>1, <1>2, <1>3 DEF Login

\* What the dispatch may call for the message m.
HandlerStep(m) ==
    \/ HandleError(500) \/ HandleCWD(m) \/ HandleLIST \/ HandleMKD(m) \/ HandlePORT(m)
    \/ \E code \in {200, 215, 227, 257} : HandleSimple(code)
    \/ HandleRETR \/ HandleSIZE \/ HandleSTOR \/ HandleUSER

\* The effect of a handler, whichever it is: it goes on behind the login loop
\* (or to HandleLogin), and keeps, deletes or replaces the data connection.
LEMMA HandlerEffect ==
  ASSUME SessionInv, NEW m, HandlerStep(m)
  PROVE  /\ IsReply(toSend')
         /\ pc' \in {"cmd", "opendir", "retr", "stor", "login"}
         /\ m_pwd' \in {"dir", "nodir"} /\ ready' \in BOOLEAN
         /\ \/ UNCHANGED <<m_client, conns>>
            \/ m_client' = "null" /\ conns' = 0
            \/ m_client' = "open" /\ conns' = 1
<1> USE DEF HandlerStep, HandleError, HandleCWD, HandleLIST, HandleMKD, HandlePORT,
            HandleSimple, HandleRETR, HandleSIZE, HandleSTOR, HandleUSER
<1>1. IsReply(toSend')
  BY ReplyTypes DEF Reply
<1>2. pc' \in {"cmd", "opendir", "retr", "stor", "login"}
  BY DEF Reply
<1>3. m_pwd' \in {"dir", "nodir"} /\ ready' \in BOOLEAN
  <2>1. m_pwd' \in {"dir", "nodir"}
    BY DEF SessionInv, ScalarTypes
  <2>2. ready' \in BOOLEAN
    BY DEF SessionInv, ScalarTypes, KeepClient, DeleteClient
  <2> QED BY <2>1, <2>2
<1>4. \/ UNCHANGED <<m_client, conns>>
      \/ m_client' = "null" /\ conns' = 0
      \/ m_client' = "open" /\ conns' = 1
  BY SMTT(30) DEF SessionInv, ScalarTypes, OneDataConnection, Connected, Bool01,
         KeepClient, DeleteClient
<1> QED BY <1>1, <1>2, <1>3, <1>4

\* A round of the command loop preserves the invariant, whatever the dispatch
\* makes of the message.
LEMMA CommandInv ==
  ASSUME SessionInv, Command
  PROVE  SessionInv'
<1> USE FtpAssumption DEF SessionInv
<1>1. ASSUME NEW n \in 1..Len(inbox), Dispatch(n)
      PROVE  SessionInv'
  <2>1. HandlerStep(m_recvMessage')
    BY <1>1 DEF Dispatch, HandlerStep
  <2>2. /\ pc = "cmd" /\ recvMessage(n)
        /\ UNCHANGED <<authed, todo, dirs, outbox, ctl, kind, owed, sent, broken>>
    BY <1>1 DEF Dispatch, recvMessage, client
  <2>3. SeqTypes'
    BY <2>1, <2>2, HandlerEffect, ReadTypes DEF SeqTypes
  <2>4. ScalarTypes'
    <3>1. swallowed' \in Nat
      BY <1>1, <2>2, ReadTypes DEF Dispatch, ScalarTypes, Bool01
    <3> QED BY <3>1, <2>1, <2>2, HandlerEffect DEF ScalarTypes, Places, Working
  <2>5. LoginInv'
    BY <2>1, <2>2, HandlerEffect DEF LoginInv, LoggedIn, Connected
  <2>6. DirInv'
    BY <2>1, <2>2, HandlerEffect DEF DirInv, DirLeaksOnlyIfBroken, Bool01
  <2>7. OneDataConnection'
    BY <2>1, <2>2, HandlerEffect DEF OneDataConnection, Connected, Bool01
  <2> QED BY <2>3, <2>4, <2>5, <2>6, <2>7
<1>2. CASE SessionEnds
  <2>1. SeqTypes'
    <3>1. IsReply(toSend')
      BY <1>2, ReplyTypes DEF SessionEnds, Reply
    <3>2. /\ m_recvMessage' \in Seq(Commands) /\ inbox' \in Seq(Commands)
          /\ outbox' \in Seq(Codes)
      BY <1>2, EmptyTypes DEF SessionEnds, RecvThrows, SeqTypes
    <3> QED BY <3>1, <3>2 DEF SeqTypes
  <2>2. ScalarTypes'
    BY <1>2
       DEF SessionEnds, RecvThrows, Reply, KeepClient, client, ScalarTypes, Places, Working,
           Connected, Bool01, OneDataConnection, DirInv
  <2>3. LoginInv'
    BY <1>2
       DEF SessionEnds, RecvThrows, Reply, KeepClient, client, ScalarTypes,
           LoginInv, LoggedIn, Connected
  <2>4. DirInv'
    BY <1>2
       DEF SessionEnds, RecvThrows, Reply, KeepClient, client, ScalarTypes, DirInv,
           DirLeaksOnlyIfBroken, Bool01, OneDataConnection, Connected
  <2>5. OneDataConnection'
    BY <1>2
       DEF SessionEnds, RecvThrows, Reply, KeepClient, client, ScalarTypes,
           OneDataConnection, Connected, Bool01
  <2> QED BY <2>1, <2>2, <2>3, <2>4, <2>5
<1> QED BY <1>1, <1>2 DEF Command

\* The steps of HandleLIST, HandleRETR and HandleSTOR preserve the invariant.
LEMMA TransferInv ==
  ASSUME SessionInv, Transfer
  PROVE  SessionInv'
<1> USE FtpAssumption DEF SessionInv
<1>1. CASE OpenDir
  <2>1. SeqTypes'
    <3>1. IsReply(toSend')
      BY <1>1, ReplyTypes DEF OpenDir, DirOpens, Reply
    <3>2. /\ m_recvMessage' \in Seq(Commands) /\ inbox' \in Seq(Commands)
          /\ outbox' \in Seq(Codes)
      BY <1>1, EmptyTypes DEF OpenDir, elsewhere, SeqTypes
    <3> QED BY <3>1, <3>2 DEF SeqTypes
  <2>2. ScalarTypes'
    BY <1>1
       DEF OpenDir, DirOpens, Reply, KeepClient, elsewhere, client, ScalarTypes,
           Places, Working, Connected, Bool01, OneDataConnection, DirInv
  <2>3. LoginInv'
    BY <1>1
       DEF OpenDir, DirOpens, Reply, KeepClient, elsewhere, client, ScalarTypes,
           LoginInv, LoggedIn, Connected
  <2>4. DirInv'
    BY <1>1
       DEF OpenDir, DirOpens, Reply, KeepClient, elsewhere, client, ScalarTypes,
           DirInv, DirLeaksOnlyIfBroken, Bool01, OneDataConnection,
           Connected
  <2>5. OneDataConnection'
    BY <1>1
       DEF OpenDir, DirOpens, Reply, KeepClient, elsewhere, client, ScalarTypes,
           OneDataConnection, Connected, Bool01
  <2> QED BY <2>1, <2>2, <2>3, <2>4, <2>5
<1>2. CASE ListEntry
  <2>1. SeqTypes'
    <3>1. IsReply(toSend')
      <4>1. IsReply(toSend)
        BY DEF SeqTypes
      <4> QED BY <1>2, <4>1, ReplyTypes DEF ListEntry, Crash, Reply
    <3>2. /\ m_recvMessage' \in Seq(Commands) /\ inbox' \in Seq(Commands)
          /\ outbox' \in Seq(Codes)
      BY <1>2, EmptyTypes DEF ListEntry, elsewhere, SeqTypes
    <3> QED BY <3>1, <3>2 DEF SeqTypes
  <2>2. ScalarTypes'
    BY <1>2
       DEF ListEntry, Crash, Reply, KeepClient, elsewhere, client, ScalarTypes,
           Places, Working, Connected, Bool01, OneDataConnection, DirInv
  <2>3. LoginInv'
    BY <1>2
       DEF ListEntry, Crash, Reply, KeepClient, elsewhere, client, ScalarTypes,
           LoginInv, LoggedIn, Connected
  <2>4. DirInv'
    BY <1>2
       DEF ListEntry, Crash, Reply, KeepClient, elsewhere, client, ScalarTypes,
           DirInv, DirLeaksOnlyIfBroken, Bool01, OneDataConnection,
           Connected
  <2>5. OneDataConnection'
    BY <1>2
       DEF ListEntry, Crash, Reply, KeepClient, elsewhere, client, ScalarTypes,
           OneDataConnection, Connected, Bool01
  <2> QED BY <2>1, <2>2, <2>3, <2>4, <2>5
<1>3. CASE ListDone
  <2>1. SeqTypes'
    <3>1. IsReply(toSend')
      BY <1>3, ReplyTypes DEF ListDone, Reply
    <3>2. /\ m_recvMessage' \in Seq(Commands) /\ inbox' \in Seq(Commands)
          /\ outbox' \in Seq(Codes)
      BY <1>3, EmptyTypes DEF ListDone, elsewhere, SeqTypes
    <3> QED BY <3>1, <3>2 DEF SeqTypes
  <2>2. ScalarTypes'
    BY <1>3
       DEF ListDone, DeleteClient, Reply, KeepClient, elsewhere, client,
           ScalarTypes, Places, Working, Connected, Bool01, OneDataConnection,
           DirInv
  <2>3. LoginInv'
    BY <1>3
       DEF ListDone, DeleteClient, Reply, KeepClient, elsewhere, client,
           ScalarTypes, LoginInv, LoggedIn, Connected
  <2>4. DirInv'
    BY <1>3
       DEF ListDone, DeleteClient, Reply, KeepClient, elsewhere, client,
           ScalarTypes, DirInv, DirLeaksOnlyIfBroken, Bool01,
           OneDataConnection, Connected
  <2>5. OneDataConnection'
    BY <1>3
       DEF ListDone, DeleteClient, Reply, KeepClient, elsewhere, client,
           ScalarTypes, OneDataConnection, Connected, Bool01
  <2> QED BY <2>1, <2>2, <2>3, <2>4, <2>5
<1>4. CASE RetrFile
  <2>1. SeqTypes'
    <3>1. IsReply(toSend')
      BY <1>4, ReplyTypes DEF RetrFile, Crash, Reply
    <3>2. /\ m_recvMessage' \in Seq(Commands) /\ inbox' \in Seq(Commands)
          /\ outbox' \in Seq(Codes)
      BY <1>4, EmptyTypes DEF RetrFile, elsewhere, SeqTypes
    <3> QED BY <3>1, <3>2 DEF SeqTypes
  <2>2. ScalarTypes'
    BY <1>4
       DEF RetrFile, Crash, DeleteClient, Reply, KeepClient, elsewhere, client,
           ScalarTypes, Places, Working, Connected, Bool01, OneDataConnection,
           DirInv
  <2>3. LoginInv'
    BY <1>4
       DEF RetrFile, Crash, DeleteClient, Reply, KeepClient, elsewhere, client,
           ScalarTypes, LoginInv, LoggedIn, Connected
  <2>4. DirInv'
    BY <1>4
       DEF RetrFile, Crash, DeleteClient, Reply, KeepClient, elsewhere, client,
           ScalarTypes, DirInv, DirLeaksOnlyIfBroken, Bool01,
           OneDataConnection, Connected
  <2>5. OneDataConnection'
    BY <1>4
       DEF RetrFile, Crash, DeleteClient, Reply, KeepClient, elsewhere, client,
           ScalarTypes, OneDataConnection, Connected, Bool01
  <2> QED BY <2>1, <2>2, <2>3, <2>4, <2>5
<1>5. CASE StorData
  <2>1. SeqTypes'
    <3>1. IsReply(toSend')
      BY <1>5, ReplyTypes DEF StorData, Crash, Reply
    <3>2. /\ m_recvMessage' \in Seq(Commands) /\ inbox' \in Seq(Commands)
          /\ outbox' \in Seq(Codes)
      BY <1>5, EmptyTypes DEF StorData, elsewhere, SeqTypes
    <3> QED BY <3>1, <3>2 DEF SeqTypes
  <2>2. ScalarTypes'
    BY <1>5
       DEF StorData, Crash, DeleteClient, Reply, KeepClient, elsewhere, client,
           ScalarTypes, Places, Working, Connected, Bool01, OneDataConnection,
           DirInv
  <2>3. LoginInv'
    BY <1>5
       DEF StorData, Crash, DeleteClient, Reply, KeepClient, elsewhere, client,
           ScalarTypes, LoginInv, LoggedIn, Connected
  <2>4. DirInv'
    BY <1>5
       DEF StorData, Crash, DeleteClient, Reply, KeepClient, elsewhere, client,
           ScalarTypes, DirInv, DirLeaksOnlyIfBroken, Bool01,
           OneDataConnection, Connected
  <2>5. OneDataConnection'
    BY <1>5
       DEF StorData, Crash, DeleteClient, Reply, KeepClient, elsewhere, client,
           ScalarTypes, OneDataConnection, Connected, Bool01
  <2> QED BY <2>1, <2>2, <2>3, <2>4, <2>5
<1> QED BY <1>1, <1>2, <1>3, <1>4, <1>5 DEF Transfer

\* The client and the network preserve the invariant.
LEMMA EnvironmentInv ==
  ASSUME SessionInv, Environment
  PROVE  SessionInv'
<1> USE FtpAssumption DEF SessionInv
<1>1. ASSUME NEW c \in Commands, ClientSend(c)
      PROVE  SessionInv'
  <2>1. SeqTypes'
    BY <1>1, AppendProperties DEF ClientSend, server, client, SeqTypes
  <2>2. ScalarTypes'
    BY <1>1
       DEF ClientSend, server, client, ScalarTypes, Places, Working, Connected, Bool01,
           OneDataConnection, DirInv
  <2>3. LoginInv'
    BY <1>1 DEF ClientSend, server, client, ScalarTypes, LoginInv, LoggedIn, Connected
  <2>4. DirInv'
    BY <1>1
       DEF ClientSend, server, client, ScalarTypes, DirInv, DirLeaksOnlyIfBroken,
           Bool01, OneDataConnection, Connected
  <2>5. OneDataConnection'
    BY <1>1
       DEF ClientSend, server, client, ScalarTypes, OneDataConnection,
           Connected, Bool01
  <2> QED BY <2>1, <2>2, <2>3, <2>4, <2>5
<1>2. CASE ClientRead
  <2>1. SeqTypes'
    BY <1>2, HeadTailProperties DEF ClientRead, server, client, SeqTypes
  <2>2. ScalarTypes'
    BY <1>2
       DEF ClientRead, server, client, ScalarTypes, Places, Working, Connected, Bool01,
           OneDataConnection, DirInv
  <2>3. LoginInv'
    BY <1>2 DEF ClientRead, server, client, ScalarTypes, LoginInv, LoggedIn, Connected
  <2>4. DirInv'
    BY <1>2
       DEF ClientRead, server, client, ScalarTypes, DirInv, DirLeaksOnlyIfBroken,
           Bool01, OneDataConnection, Connected
  <2>5. OneDataConnection'
    BY <1>2
       DEF ClientRead, server, client, ScalarTypes, OneDataConnection,
           Connected, Bool01
  <2> QED BY <2>1, <2>2, <2>3, <2>4, <2>5
<1>3. CASE ClientHalfClose
  <2>1. SeqTypes'
    BY <1>3 DEF ClientHalfClose, server, client, SeqTypes
  <2>2. ScalarTypes'
    BY <1>3
       DEF ClientHalfClose, server, client, ScalarTypes, Places, Working, Connected, Bool01,
           OneDataConnection, DirInv
  <2>3. LoginInv'
    BY <1>3
       DEF ClientHalfClose, server, client, ScalarTypes, LoginInv, LoggedIn,
           Connected
  <2>4. DirInv'
    BY <1>3
       DEF ClientHalfClose, server, client, ScalarTypes, DirInv,
           DirLeaksOnlyIfBroken, Bool01, OneDataConnection, Connected
  <2>5. OneDataConnection'
    BY <1>3
       DEF ClientHalfClose, server, client, ScalarTypes,
           OneDataConnection, Connected, Bool01
  <2> QED BY <2>1, <2>2, <2>3, <2>4, <2>5
<1>4. CASE ClientClose
  <2>1. SeqTypes'
    BY <1>4 DEF ClientClose, server, client, SeqTypes
  <2>2. ScalarTypes'
    BY <1>4
       DEF ClientClose, server, client, ScalarTypes, Places, Working, Connected, Bool01,
           OneDataConnection, DirInv
  <2>3. LoginInv'
    BY <1>4 DEF ClientClose, server, client, ScalarTypes, LoginInv, LoggedIn, Connected
  <2>4. DirInv'
    BY <1>4
       DEF ClientClose, server, client, ScalarTypes, DirInv, DirLeaksOnlyIfBroken,
           Bool01, OneDataConnection, Connected
  <2>5. OneDataConnection'
    BY <1>4
       DEF ClientClose, server, client, ScalarTypes, OneDataConnection,
           Connected, Bool01
  <2> QED BY <2>1, <2>2, <2>3, <2>4, <2>5
<1>5. CASE Reset
  <2>1. SeqTypes'
    BY <1>5 DEF Reset, server, client, SeqTypes
  <2>2. ScalarTypes'
    BY <1>5
       DEF Reset, server, client, ScalarTypes, Places, Working, Connected, Bool01,
           OneDataConnection, DirInv
  <2>3. LoginInv'
    BY <1>5 DEF Reset, server, client, ScalarTypes, LoginInv, LoggedIn, Connected
  <2>4. DirInv'
    BY <1>5
       DEF Reset, server, client, ScalarTypes, DirInv, DirLeaksOnlyIfBroken,
           Bool01, OneDataConnection, Connected
  <2>5. OneDataConnection'
    BY <1>5
       DEF Reset, server, client, ScalarTypes, OneDataConnection,
           Connected, Bool01
  <2> QED BY <2>1, <2>2, <2>3, <2>4, <2>5
<1>6. CASE DataPeerClose
  <2>1. SeqTypes'
    BY <1>6 DEF DataPeerClose, server, client, SeqTypes
  <2>2. ScalarTypes'
    BY <1>6
       DEF DataPeerClose, server, client, ScalarTypes, Places, Working, Connected, Bool01,
           OneDataConnection, DirInv
  <2>3. LoginInv'
    BY <1>6
       DEF DataPeerClose, server, client, ScalarTypes, LoginInv, LoggedIn,
           Connected
  <2>4. DirInv'
    BY <1>6
       DEF DataPeerClose, server, client, ScalarTypes, DirInv,
           DirLeaksOnlyIfBroken, Bool01, OneDataConnection, Connected
  <2>5. OneDataConnection'
    BY <1>6
       DEF DataPeerClose, server, client, ScalarTypes,
           OneDataConnection, Connected, Bool01
  <2> QED BY <2>1, <2>2, <2>3, <2>4, <2>5
<1> QED BY <1>1, <1>2, <1>3, <1>4, <1>5, <1>6 DEF Environment

\* Every step, or a stuttering one, preserves the invariant.
LEMMA StepSession == SessionInv /\ [Next]_vars => SessionInv'
<1> SUFFICES ASSUME SessionInv, [Next]_vars PROVE SessionInv'
    OBVIOUS
<1>1. CASE Next
  BY <1>1, SendInv, LoginStepInv, CommandInv, TransferInv, EnvironmentInv
     DEF Next, Server
<1>2. CASE UNCHANGED vars
  BY <1>2
     DEF vars, server, elsewhere, client, SessionInv, SeqTypes, IsReply,
         ScalarTypes, LoginInv, DirInv,
              DirLeaksOnlyIfBroken, OneDataConnection, Connected, Bool01
<1> QED BY <1>1, <1>2

\* The invariant holds in every reachable state of every session.
THEOREM SessionInductive == Spec => []SessionInv
  BY InitSession, StepSession, PTL DEF Spec

-----------------------------------------------------------------------------
\* The state of the session, of its connections and of the client keeps its
\* type; the descriptor counts never go below zero.
THEOREM SessionTypes == Spec => []TypeOK
<1>1. SessionInv => TypeOK
  BY DEF SessionInv, SeqTypes, ScalarTypes, IsReply, TypeOK
<1> QED BY <1>1, SessionInductive, PTL

\* HandlePORT and the transfers never hold two data connections, nor drop one
\* that is open while the session runs.
THEOREM AtMostOneDataConnection == Spec => []OneDataConnection
<1>1. SessionInv => OneDataConnection
  BY DEF SessionInv
<1> QED BY <1>1, SessionInductive, PTL

\* HandleLIST leaks a directory stream only after a data peer has gone away.
THEOREM DirLeakNeedsBrokenPeer == Spec => []DirLeaksOnlyIfBroken
<1>1. SessionInv => DirLeaksOnlyIfBroken
  BY DEF SessionInv, DirInv
<1> QED BY <1>1, SessionInductive, PTL

\* startProtocol lets no client transfer data before it has logged in.
THEOREM LoginComesFirst == Spec => []TransfersNeedLogin
<1>1. SessionInv => TransfersNeedLogin
  BY DEF SessionInv, LoginInv, LoggedIn, TransfersNeedLogin, Working
<1> QED BY <1>1, SessionInductive, PTL

-----------------------------------------------------------------------------
(* What the client is owed. *)

\* A 226 the client has not seen yet.
Pending226 == \/ \E i \in 1..Len(toSend) : toSend[i] = 226
              \/ \E i \in 1..Len(outbox) : outbox[i] = 226

\* RepliesAccounted, with what the steps of STOR and of the client rely on.
LedgerInv ==
    /\ RepliesAccounted
    /\ pc = "stor" => toSend = <<>>
    /\ owed <= Window

\* In lock-step a command is read alone, and none waits behind a transfer.
OneCommand ==
    Window = 1 => Len(inbox) <= 1 /\ (inbox # <<>> => pc \notin Working)

\* In lock-step a swallowed command is the last one: the session stays where it
\* was swallowed.
SilentInv ==
    Window = 1 /\ ctl = "open" /\ pc # "crash" /\ swallowed > 0 =>
        /\ toSend = <<>>
        /\ \/ pc = "cmd" /\ "SIZE" \in Words(m_recvMessage)
           \/ pc = "login" /\ authed

\* What a careful client relies on when it asks for a transfer: the connection
\* that was accepted is still there when the command is read, because only a
\* PORT or a 226 it has not seen yet can have taken it away.
CarefulInv ==
    kind = "careful" /\ Window = 1 =>
        /\ pc # "crash"
        /\ pc \in Working => Connected
        /\ inbox # <<>> =>
              /\ Head(inbox).arg \notin Keywords
              /\ Head(inbox).verb \in {"LIST", "RETR", "STOR"} => Connected
              /\ Head(inbox).verb = "PORT" => ~ready
        /\ ctl = "open" /\ ready => m_client = "open" \/ Pending226

\* Where the final replies of a sequence are.
Marks(codes) == {i \in 1..Len(codes) : codes[i] # 150}

\* The final replies of a sequence are finitely many.
LEMMA MarksFinite ==
  ASSUME NEW s \in Seq(Codes)
  PROVE  /\ IsFiniteSet(Marks(s)) /\ Finals(s) = Cardinality(Marks(s))
         /\ Finals(s) \in Nat
<1>1. Len(s) \in Nat /\ DOMAIN s = 1..Len(s)
  OBVIOUS
<1>2. IsFiniteSet(1..Len(s))
  BY <1>1, FS_Interval
<1>3. Marks(s) \subseteq 1..Len(s)
  BY DEF Marks
<1>4. IsFiniteSet(Marks(s))
  BY <1>2, <1>3, FS_Subset
<1>5. Finals(s) = Cardinality(Marks(s))
  BY <1>1 DEF Finals, Marks
<1> QED BY <1>4, <1>5, FS_CardinalityType

\* An empty sequence holds no reply.
LEMMA FinalsEmpty == Finals(<<>>) = 0
<1>1. <<>> \in Seq(Codes) /\ Marks(<<>>) = {}
  BY DEF Marks
<1> QED BY <1>1, MarksFinite, FS_EmptySet

\* A reply put on the connection counts once, unless it is a 150.
LEMMA FinalsAppend ==
  ASSUME NEW s \in Seq(Codes), NEW c \in Codes
  PROVE  Finals(Append(s, c)) = Finals(s) + Bool01(c # 150)
<1> DEFINE t == Append(s, c)
<1>1. t \in Seq(Codes) /\ Len(t) = Len(s) + 1 /\ Len(s) \in Nat /\ t[Len(s) + 1] = c
      /\ \A i \in 1..Len(s) : t[i] = s[i]
  OBVIOUS
<1> HIDE DEF t
<1>2. /\ Finals(t) = Cardinality(Marks(t)) /\ Finals(s) = Cardinality(Marks(s))
      /\ IsFiniteSet(Marks(s)) /\ Finals(s) \in Nat
  BY <1>1, MarksFinite
<1>3. CASE c = 150
  <2>1. Marks(t) = Marks(s)
    BY <1>1, <1>3 DEF Marks
  <2> QED BY <1>2, <1>3, <2>1 DEF Bool01, t
<1>4. CASE c # 150
  <2>1. Marks(t) = Marks(s) \cup {Len(s) + 1} /\ (Len(s) + 1) \notin Marks(s)
    BY <1>1, <1>4 DEF Marks
  <2>2. Cardinality(Marks(t)) = Cardinality(Marks(s)) + 1
    BY <1>2, <2>1, FS_AddElement
  <2> QED BY <1>2, <1>4, <2>2 DEF Bool01, t
<1> QED BY <1>3, <1>4

\* So does a reply taken off it.
LEMMA FinalsTail ==
  ASSUME NEW s \in Seq(Codes), s # <<>>
  PROVE  Finals(s) = Finals(Tail(s)) + Bool01(Head(s) # 150)
<1> DEFINE t == Tail(s)
           f == [i \in Marks(t) |-> i + 1]
<1>1. t \in Seq(Codes) /\ Len(t) = Len(s) - 1 /\ Len(s) \in Nat \ {0} /\ s[1] = Head(s)
      /\ \A i \in 1..Len(t) : t[i] = s[i + 1]
  OBVIOUS
<1> HIDE DEF t
<1>2. /\ Finals(t) = Cardinality(Marks(t)) /\ Finals(s) = Cardinality(Marks(s))
      /\ IsFiniteSet(Marks(s)) /\ IsFiniteSet(Marks(t)) /\ Finals(t) \in Nat
      /\ Finals(s) \in Nat
  BY <1>1, MarksFinite
<1>3. Cardinality(Marks(s) \ {1}) = Cardinality(Marks(t))
  <2>1. \A i \in Marks(t) : i + 1 \in Marks(s) \ {1}
    BY <1>1 DEF Marks
  <2>2. \A j \in Marks(s) \ {1} : j - 1 \in Marks(t) /\ j = (j - 1) + 1
    BY <1>1 DEF Marks
  <2>3. Marks(t) \subseteq Nat
    BY DEF Marks
  <2>4. f \in Injection(Marks(t), Marks(s) \ {1})
    BY <2>1, <2>3 DEF Injection, IsInjective
  <2>5. f \in Surjection(Marks(t), Marks(s) \ {1})
    BY <2>1, <2>2 DEF Surjection
  <2>6. ExistsBijection(Marks(t), Marks(s) \ {1})
    BY <2>4, <2>5 DEF ExistsBijection, Bijection
  <2> QED BY <1>2, <2>6, FS_Bijection
<1>4. Cardinality(Marks(s) \ {1}) = IF 1 \in Marks(s) THEN Finals(s) - 1 ELSE Finals(s)
  BY <1>2, FS_RemoveElement
<1>5. 1 \in Marks(s) <=> Head(s) # 150
  BY <1>1 DEF Marks
<1> QED BY <1>2, <1>3, <1>4, <1>5 DEF Bool01, t

\* The replies of a handler that sends one.
LEMMA FinalsOne ==
  ASSUME NEW c \in Codes
  PROVE  Finals(<<c>>) = Bool01(c # 150)
<1>1. <<c>> = Append(<<>>, c) /\ <<>> \in Seq(Codes)
  OBVIOUS
<1>2. Finals(Append(<<>>, c)) = Finals(<<>>) + Bool01(c # 150)
  BY <1>1, FinalsAppend
<1> QED BY <1>1, <1>2, FinalsEmpty DEF Bool01

\* What the handlers leave to send: one final reply, or none so far.
LEMMA FinalsReplies ==
  /\ Finals(<<>>) = 0 /\ Finals(<<150>>) = 0 /\ Finals(<<150, 226>>) = 1
  /\ \A c \in Codes \ {150} : Finals(<<c>>) = 1
<1>1. Finals(<<150>>) = 0 /\ \A c \in Codes \ {150} : Finals(<<c>>) = 1
  BY FinalsOne DEF Codes, Bool01
<1>2. Finals(<<150, 226>>) = 1
  <2>1. <<150, 226>> = Append(<<150>>, 226) /\ <<150>> \in Seq(Codes) /\ 226 \in Codes
    BY DEF Codes
  <2>2. Finals(Append(<<150>>, 226)) = Finals(<<150>>) + Bool01(226 # 150)
    BY <2>1, FinalsAppend
  <2>3. Bool01(226 # 150) = 1
    BY DEF Bool01
  <2>4. Finals(Append(<<150>>, 226)) = 1
    BY <1>1, <2>2, <2>3
  <2> QED BY <2>1, <2>4, Zenon
<1> QED BY <1>1, <1>2, FinalsEmpty

\* A set of naturals that is not empty has a least element.
LEMMA LeastNat ==
  ASSUME NEW T, T \subseteq Nat, T # {}
  PROVE  \E x \in T : \A y \in T : x <= y
<1>1. IsWellFoundedOn({ss \in Nat \X Nat : ss[1] < ss[2]}, Nat)
  BY NatLessThanWellFounded DEF OpToRel
<1>2. PICK x \in T : \A y \in T : ~ (<<y, x>> \in {ss \in Nat \X Nat : ss[1] < ss[2]})
  BY <1>1, WFMin
<1>3. ASSUME NEW y \in T PROVE x <= y
  <2>1. x \in Nat /\ y \in Nat
    OBVIOUS
  <2>2. ~ (<<y, x>> \in {ss \in Nat \X Nat : ss[1] < ss[2]})
    BY <1>2
  <2>3. <<y, x>> \in Nat \X Nat /\ <<y, x>>[1] = y /\ <<y, x>>[2] = x
    BY <2>1
  <2>4. ~(y < x)
    BY <2>2, <2>3
  <2> QED BY <2>1, <2>4
<1> QED BY <1>3

\* The keyword the dispatch goes by occurs in the message.
LEMMA VerbFound ==
  ASSUME NEW m
  PROVE  Verb(m) # "other" => Verb(m) \in Keywords /\ Verb(m) \in Words(m)
<1> DEFINE found == {i \in 1..Len(Chain) : Chain[i] \in Words(m)}
<1>1. CASE found = {}
  BY <1>1 DEF Verb
<1>2. CASE found # {}
  <2>1. Len(Chain) = 15
    BY DEF Chain
  <2>2. found \subseteq Nat
    BY <2>1
  <2> HIDE DEF found
  <2>3. \E x \in found : \A y \in found : x <= y
    BY <1>2, <2>2, LeastNat
  <2>4. Min(found) \in found
    BY <2>3 DEF Min
  <2>5. Verb(m) = Chain[Min(found)]
    BY <1>2 DEF Verb, found
  <2>6. Chain[Min(found)] \in Words(m) /\ Min(found) \in 1..15
    BY <2>1, <2>4 DEF found
  <2>7. \A i \in 1..15 : Chain[i] \in Keywords
    BY DEF Chain, Keywords
  <2> QED BY <2>5, <2>6, <2>7
<1> QED BY <1>1, <1>2

\* A read in lock-step or not: what it takes out of the inbox.
LEMMA ReadLen ==
  ASSUME SeqTypes, NEW n \in 1..Len(inbox), recvMessage(n)
  PROVE  /\ Len(inbox') = Len(inbox) - n /\ n \in Nat \ {0} /\ n <= Len(inbox)
         /\ Len(inbox) \in Nat /\ Len(m_recvMessage') = n
         /\ \A i \in 1..n : m_recvMessage'[i] = inbox[i]
  BY DEF SeqTypes, recvMessage

\* What a round of the command loop leaves behind when the dispatch finds v: a
\* final reply sent or under way, unless v is SIZE or USER; a transfer only for
\* the verbs of one; and a new data connection only for PORT.
RoundEffect(v) ==
    /\ pc' \in {"cmd", "opendir", "retr", "stor", "login"}
    /\ Finals(toSend') + Bool01(pc' \in Working) = Bool01(v \notin {"SIZE", "USER"})
    /\ v = "SIZE" => pc' = "cmd" /\ toSend' = <<>>
    /\ v = "USER" => pc' = "login" /\ toSend' = <<>>
    /\ pc' \in Working => v \in {"LIST", "RETR", "STOR"}
    /\ pc' = "stor" => toSend' = <<>>
    /\ v # "PORT" => UNCHANGED <<m_client, ready>>
    /\ v = "PORT" => (m_client' = "open" \/ ready' = ready) /\ pc' = "cmd"

\* A round of the command loop, whichever handler it calls.
LEMMA DispatchEffect ==
  ASSUME SessionInv, NEW n \in 1..Len(inbox), Dispatch(n)
  PROVE  /\ pc = "cmd" /\ toSend = <<>> /\ recvMessage(n)
         /\ swallowed' = swallowed + n
                         - Bool01(Verb(m_recvMessage') \notin {"SIZE", "USER"})
         /\ RoundEffect(Verb(m_recvMessage'))
         /\ UNCHANGED <<authed, outbox, ctl, kind, owed, sent, broken>>
<1> DEFINE v == Verb(m_recvMessage')
           m == m_recvMessage'
<1>1. /\ pc = "cmd" /\ recvMessage(n)
      /\ swallowed' = swallowed + n - Bool01(v \notin {"SIZE", "USER"})
      /\ UNCHANGED authed
  BY DEF Dispatch
<1>2. toSend = <<>> /\ UNCHANGED <<outbox, ctl, kind, owed, sent, broken>>
  BY <1>1 DEF recvMessage, client
<1>3. RoundEffect(v)
  <2> HIDE DEF v, m
  <2> USE DEF KeepClient, Reply, Bool01, Working, RoundEffect
  <2>1. /\ Finals(<<>>) = 0 /\ Finals(<<150>>) = 0 /\ Finals(<<500>>) = 1
        /\ Finals(<<250>>) = 1 /\ Finals(<<257>>) = 1 /\ Finals(<<200>>) = 1
        /\ Finals(<<215>>) = 1 /\ Finals(<<227>>) = 1
    BY FinalsReplies DEF Codes
  <2>2. CASE v \in {"NOOP", "PASS", "QUIT", "other"} /\ HandleError(500)
    BY <2>1, <2>2 DEF HandleError
  <2>3. CASE v = "CWD" /\ HandleCWD(m)
    BY <2>1, <2>3 DEF HandleCWD, HandleError
  <2>4. CASE v = "LIST" /\ HandleLIST
    BY <2>1, <2>4 DEF HandleLIST
  <2>5. CASE v = "MKD" /\ HandleMKD(m)
    BY <2>1, <2>5 DEF HandleMKD
  <2>6. CASE \/ v = "PASV" /\ HandleSimple(227)
             \/ v = "PWD" /\ HandleSimple(257)
             \/ v = "SYST" /\ HandleSimple(215)
             \/ v = "TYPE" /\ HandleSimple(200)
    BY <2>1, <2>6 DEF HandleSimple
  <2>7. CASE v = "PORT" /\ HandlePORT(m)
    BY <2>1, <2>7 DEF HandlePORT, HandleError, DeleteClient
  <2>8. CASE v = "RETR" /\ HandleRETR
    BY <2>1, <2>8 DEF HandleRETR
  <2>9. CASE v = "SIZE" /\ HandleSIZE
    BY <2>1, <2>9 DEF HandleSIZE
  <2>10. CASE v = "STOR" /\ HandleSTOR
    BY <2>1, <2>10 DEF HandleSTOR
  <2>11. CASE v = "USER" /\ HandleUSER
    BY <2>1, <2>11 DEF HandleUSER
  <2> HIDE DEF KeepClient, Reply, Bool01, Working, RoundEffect
  <2> QED BY <2>2, <2>3, <2>4, <2>5, <2>6, <2>7, <2>8, <2>9, <2>10, <2>11 DEF Dispatch, v, m
<1> QED BY <1>1, <1>2, <1>3

\* Every step of the session, the client and the network keeps the ledger.
LEMMA LedgerStep ==
  ASSUME SessionInv, SessionInv', LedgerInv, [Next]_vars
  PROVE  LedgerInv'
<1> DEFINE B == Bool01(pc \in Working)
           C == Bool01(pc' \in Working)
           I == Len(inbox)
           J == Len(inbox')
           T == Finals(toSend)
           U == Finals(toSend')
           X == Finals(outbox)
           Y == Finals(outbox')
           After == owed' = J + U + Y + swallowed' + C
<1>1. /\ T \in Nat /\ X \in Nat /\ I \in Nat
      /\ U \in Nat /\ Y \in Nat /\ J \in Nat
      /\ owed \in Nat /\ swallowed \in Nat /\ Window \in Nat /\ owed <= Window
      /\ B \in Nat /\ C \in Nat /\ owed' \in Nat /\ swallowed' \in Nat
  <2>1. /\ T \in Nat /\ X \in Nat
        /\ U \in Nat /\ Y \in Nat
    BY MarksFinite DEF SessionInv, SeqTypes, IsReply
  <2>2. /\ owed \in Nat /\ swallowed \in Nat /\ owed' \in Nat /\ swallowed' \in Nat
    BY DEF SessionInv, ScalarTypes
  <2>3. I \in Nat /\ J \in Nat
    BY DEF SessionInv, SeqTypes
  <2>4. Window \in Nat /\ owed <= Window
    BY FtpAssumption DEF LedgerInv
  <2>5. B \in Nat /\ C \in Nat
    BY DEF Bool01
  <2> QED BY <2>1, <2>2, <2>3, <2>4, <2>5
<1>2. ctl = "open" /\ pc # "crash" =>
        owed = I + T + X + swallowed + B
  BY DEF LedgerInv, RepliesAccounted
<1>3. pc = "stor" => toSend = <<>>
  BY DEF LedgerInv
<1>4. ASSUME ctl' = "open" /\ pc' # "crash" => After,
             pc' = "stor" => toSend' = <<>>, owed' <= Window
      PROVE  LedgerInv'
  BY <1>4 DEF LedgerInv, RepliesAccounted
<1>5. /\ pc \in Working => B = 1
      /\ pc \notin Working => B = 0
      /\ pc' \in Working => C = 1
      /\ pc' \notin Working => C = 0
      /\ pc = pc' => B = C
  BY DEF Bool01
<1> HIDE DEF B, C, I, J, T, U, X, Y
<1>6. \A c \in Codes \ {150} : Finals(<<c>>) = 1
  BY FinalsReplies
<1>7. Finals(<<>>) = 0 /\ Finals(<<150, 226>>) = 1
  BY FinalsReplies
<1>8. CASE UNCHANGED vars
  BY <1>1, <1>2, <1>3, <1>4, <1>5, <1>8 DEF I, J, T, U, X, Y, vars, server, elsewhere, client
<1>9. CASE sendMessage
  <2>1. /\ toSend # <<>> /\ UNCHANGED <<owed, inbox, ctl, swallowed>> /\ pc' \in {pc, "end"}
        /\ ctl = "open" => /\ toSend' = Tail(toSend) /\ pc' = pc
                           /\ outbox' = Append(outbox, Head(toSend))
    BY <1>9 DEF sendMessage, Reply, client
  <2>2. ASSUME ctl = "open"
        PROVE  U + Y = T + X
    <3> DEFINE b == Bool01(Head(toSend) # 150)
    <3>1. T = Finals(Tail(toSend)) + b
      BY <2>1, FinalsTail DEF T, SessionInv, SeqTypes, IsReply
    <3>2. Head(toSend) \in Codes /\ outbox \in Seq(Codes)
      BY <2>1 DEF SessionInv, SeqTypes, IsReply
    <3>3. Finals(Append(outbox, Head(toSend))) = X + b
      BY <3>2, FinalsAppend DEF X
    <3>4. b \in Nat
      BY DEF Bool01
    <3> HIDE DEF b
    <3>5. T = U + b /\ Y = X + b
      BY <2>1, <2>2, <3>1, <3>3 DEF T, U, X, Y
    <3> QED BY <1>1, <3>4, <3>5
  <2>3. ctl' = "open" /\ pc' # "crash" => After
    <3> SUFFICES ASSUME ctl' = "open", pc' # "crash" PROVE After
      OBVIOUS
    <3>1. owed = I + T + X + swallowed + B
      BY <1>2, <2>1
    <3>2. /\ owed' = owed /\ J = I /\ swallowed' = swallowed /\ C = B
          /\ U + Y = T + X
      BY <1>5, <2>1, <2>2 DEF I, J, T, U, X, Y
    <3> QED BY <1>1, <3>1, <3>2
  <2> QED BY <1>1, <1>3, <1>4, <2>1, <2>3
<1>10. ASSUME NEW n \in 1..Len(inbox), HandleLoginUser(n) \/ HandleLoginPass(n)
       PROVE  LedgerInv'
  <2>1. /\ recvMessage(n) /\ swallowed' = swallowed + n - 1 /\ pc \in {"login", "pass"}
        /\ toSend = <<>> /\ UNCHANGED <<outbox, ctl, owed>>
        /\ pc' \in {"pass", "cmd", "login"}
        /\ toSend' \in {<<331>>, <<530>>, <<230>>}
    BY <1>10 DEF HandleLoginUser, HandleLoginPass, recvMessage, Reply, client
  <2>2. U = 1
    BY <1>6, <2>1 DEF U, Codes
  <2>3. J = I - n /\ n \in Nat
    BY <2>1, ReadLen DEF I, J, SessionInv
  <2>4. B = 0 /\ C = 0 /\ T = 0
    BY <1>5, <1>7, <2>1 DEF T, Working
  <2>5. ctl' = "open" /\ pc' # "crash" => After
    BY <1>1, <1>2, <2>1, <2>2, <2>3, <2>4, SMTT(20) DEF X, Y
  <2> QED BY <1>1, <1>4, <2>1, <2>5
<1>11. CASE HandleLoginFails \/ SessionEnds
  <2>1. ctl' # "open" /\ pc' # "stor" /\ owed' = owed
    BY <1>11 DEF HandleLoginFails, SessionEnds, RecvThrows, Reply, client
  <2> QED BY <1>1, <1>4, <2>1
<1>12. ASSUME NEW n \in 1..Len(inbox), Dispatch(n)
       PROVE  LedgerInv'
  <2> DEFINE b == Bool01(Verb(m_recvMessage') \notin {"SIZE", "USER"})
  <2>1. /\ pc = "cmd" /\ toSend = <<>> /\ swallowed' = swallowed + n - b
        /\ UNCHANGED <<outbox, ctl, owed>>
        /\ U + C = b
        /\ pc' = "stor" => toSend' = <<>>
    BY <1>12, DispatchEffect DEF U, RoundEffect, C
  <2>2. J = I - n /\ n \in Nat
    BY <1>12, DispatchEffect, ReadLen DEF I, J, SessionInv
  <2> HIDE DEF b
  <2>3. B = 0 /\ T = 0 /\ Y = X /\ b \in Nat
    BY <1>1, <1>5, <1>7, <2>1 DEF T, X, Y, Working
  <2>4. ctl' = "open" /\ pc' # "crash" => After
    <3> SUFFICES ASSUME ctl' = "open", pc' # "crash" PROVE After
      OBVIOUS
    <3>1. owed = I + X + swallowed
      BY <1>1, <1>2, <2>1, <2>3
    <3>2. swallowed' = swallowed + n - b /\ U + C = b /\ owed' = owed
      BY <2>1
    <3> QED BY <1>1, <2>2, <2>3, <3>1, <3>2
  <2> QED BY <1>1, <1>4, <2>1, <2>4
<1>13. CASE OpenDir \/ ListEntry \/ ListDone \/ RetrFile \/ StorData
  <2>1. UNCHANGED <<inbox, outbox, ctl, owed, swallowed>>
    BY <1>13 DEF OpenDir, ListEntry, ListDone, RetrFile, StorData, elsewhere, client
  <2>2. toSend = <<>> /\ pc \in Working
    BY <1>3, <1>13
       DEF SessionInv, DirInv, OpenDir, ListEntry, ListDone, RetrFile, StorData, Working
  <2>3. \/ pc' = "crash"
        \/ pc' = "cmd" /\ toSend' \in {<<500>>, <<226>>, <<150, 226>>}
        \/ pc' = "list" /\ toSend' = <<>>
    BY <1>13, <2>2
       DEF OpenDir, DirOpens, ListEntry, ListDone, RetrFile, StorData, Reply, Crash
  <2>4. T = 0 /\ B = 1 /\ pc # "crash"
    BY <1>5, <1>7, <2>2 DEF T, Working
  <2>5. CASE pc' = "cmd" /\ toSend' \in {<<500>>, <<226>>, <<150, 226>>}
    <3>1. U = 1 /\ C = 0
      BY <1>5, <1>6, <1>7, <2>5 DEF U, Codes, Working
    <3>2. (ctl' = "open" /\ pc' # "crash" => After) /\ pc' # "stor"
      BY <1>1, <1>2, <2>1, <2>4, <2>5, <3>1 DEF I, J, X, Y
    <3> QED BY <1>1, <1>4, <2>1, <3>2
  <2>6. CASE pc' = "list" /\ toSend' = <<>>
    <3>1. U = 0 /\ C = 1
      BY <1>5, <1>7, <2>6 DEF U, Working
    <3>2. (ctl' = "open" /\ pc' # "crash" => After) /\ pc' # "stor"
      BY <1>1, <1>2, <2>1, <2>4, <2>6, <3>1 DEF I, J, X, Y
    <3> QED BY <1>1, <1>4, <2>1, <3>2
  <2> QED BY <1>1, <1>4, <2>1, <2>3, <2>5, <2>6
<1>14. ASSUME NEW c \in Commands, ClientSend(c)
       PROVE  LedgerInv'
  <2>1. /\ inbox' = Append(inbox, c) /\ owed' = owed + 1 /\ owed < Window
        /\ UNCHANGED <<pc, toSend, outbox, ctl, swallowed>>
    BY <1>14 DEF ClientSend, server
  <2>2. J = I + 1
    BY <2>1 DEF I, J, SessionInv, SeqTypes
  <2>3. ctl' = "open" /\ pc' # "crash" => After
    BY <1>1, <1>2, <1>5, <2>1, <2>2, SMTT(20) DEF T, U, X, Y
  <2> QED BY <1>1, <1>3, <1>4, <2>1, <2>3
<1>15. CASE ClientRead
  <2> DEFINE b == Bool01(Head(outbox) # 150)
  <2>1. /\ outbox # <<>> /\ outbox' = Tail(outbox)
        /\ owed' = IF Head(outbox) # 150 /\ owed > 0 THEN owed - 1 ELSE owed
        /\ UNCHANGED <<pc, toSend, inbox, ctl, swallowed>>
    BY <1>15 DEF ClientRead, server
  <2>2. X = Y + b
    BY <2>1, FinalsTail DEF X, Y, SessionInv, SeqTypes
  <2>3. b \in Nat /\ owed' = IF b = 1 /\ owed > 0 THEN owed - 1 ELSE owed
    BY <2>1 DEF Bool01
  <2>4. b \in {0, 1}
    BY DEF Bool01
  <2> HIDE DEF b
  <2>5. ctl' = "open" /\ pc' # "crash" => After
    <3> SUFFICES ASSUME ctl' = "open", pc' # "crash" PROVE After
      OBVIOUS
    <3>1. owed = I + T + (Y + b) + swallowed + B
      BY <1>2, <2>1, <2>2
    <3>2. owed' = owed - b
      BY <1>1, <2>3, <2>4, <3>1
    <3>3. /\ J = I /\ swallowed' = swallowed /\ C = B
          /\ U = T
      BY <1>5, <2>1 DEF I, J, T, U
    <3> QED BY <1>1, <2>3, <3>1, <3>2, <3>3
  <2> QED BY <1>1, <1>3, <1>4, <2>1, <2>3, <2>5
<1>16. CASE ClientHalfClose \/ ClientClose \/ Reset
  <2>1. ctl' # "open" /\ UNCHANGED <<pc, toSend, owed>>
    BY <1>16 DEF ClientHalfClose, ClientClose, Reset, server, client
  <2> QED BY <1>1, <1>3, <1>4, <2>1
<1>17. CASE DataPeerClose
  <2>1. UNCHANGED <<pc, toSend, inbox, outbox, ctl, owed, swallowed>>
    BY <1>17 DEF DataPeerClose, client
  <2> QED BY <1>1, <1>2, <1>3, <1>4, <1>5, <2>1 DEF I, J, T, U, X, Y
<1> QED BY <1>8, <1>9, <1>10, <1>11, <1>12, <1>13, <1>14, <1>15, <1>16, <1>17
        DEF Next, Server, Login, Command, Transfer, Environment

\* What the ledger says of a lock-step client: a command on its way, or one that
\* was swallowed, is the only one.
LEMMA LockStepLedger ==
  ASSUME SessionInv, LedgerInv, Window = 1, ctl = "open", pc # "crash"
  PROVE  /\ swallowed > 0 => inbox = <<>> /\ owed = 1
         /\ owed < Window => /\ inbox = <<>> /\ pc \notin Working /\ swallowed = 0
                             /\ Finals(toSend) = 0 /\ Finals(outbox) = 0
<1> DEFINE B == Bool01(pc \in Working)
           I == Len(inbox)
           T == Finals(toSend)
           X == Finals(outbox)
<1>1. T \in Nat /\ X \in Nat
  BY MarksFinite DEF SessionInv, SeqTypes, IsReply
<1>2. I \in Nat /\ (I = 0 => inbox = <<>>)
  BY DEF SessionInv, SeqTypes
<1>3. B \in Nat /\ (B = 0 => pc \notin Working)
  BY DEF Bool01
<1>4. swallowed \in Nat /\ owed \in Nat /\ owed <= 1
  BY DEF SessionInv, ScalarTypes, LedgerInv
<1>5. owed = I + T + X + swallowed + B
  BY DEF LedgerInv, RepliesAccounted
<1> HIDE DEF B, I, T, X
<1>6. swallowed > 0 => I = 0 /\ owed = 1
  BY <1>1, <1>2, <1>3, <1>4, <1>5
<1>7. owed < Window => I = 0 /\ T = 0 /\ X = 0 /\ swallowed = 0 /\ B = 0
  BY <1>1, <1>2, <1>3, <1>4, <1>5
<1> QED BY <1>2, <1>3, <1>6, <1>7 DEF T, X

\* In lock-step a read takes the only command there is.
LEMMA LockStepRead ==
  ASSUME SessionInv, OneCommand, Window = 1, NEW n \in 1..Len(inbox), recvMessage(n)
  PROVE  /\ n = 1 /\ inbox' = <<>> /\ inbox # <<>>
         /\ Words(m_recvMessage') = {Head(inbox).verb, Head(inbox).arg}
<1>1. /\ Len(inbox') = Len(inbox) - n /\ n \in Nat \ {0} /\ n <= Len(inbox)
      /\ Len(inbox) \in Nat /\ Len(m_recvMessage') = n
      /\ \A i \in 1..n : m_recvMessage'[i] = inbox[i]
  BY ReadLen DEF SessionInv
<1>2. n = 1 /\ Len(inbox') = 0 /\ Len(inbox) = 1
  BY <1>1 DEF OneCommand
<1>3. inbox \in Seq(Commands) /\ inbox' \in Seq(Commands) /\ m_recvMessage' \in Seq(Commands)
  BY ReadTypes DEF SessionInv, SeqTypes
<1>4. inbox' = <<>> /\ inbox # <<>> /\ Head(inbox) = inbox[1]
  <2>1. inbox' = <<>>
    BY <1>2, <1>3, EmptySeq
  <2>2. inbox # <<>>
    BY <1>2
  <2> QED BY <2>1, <2>2
<1>5. DOMAIN m_recvMessage' = {1}
  BY <1>1, <1>2, <1>3
<1>6. Words(m_recvMessage') = {m_recvMessage'[1].verb, m_recvMessage'[1].arg}
  BY <1>5 DEF Words
<1> QED BY <1>1, <1>2, <1>4, <1>6

\* A lock-step client keeps one command on its way, and a swallowed one stops
\* the session.
LEMMA LockStep ==
  ASSUME SessionInv, LedgerInv, OneCommand, SilentInv, Window = 1, [Next]_vars
  PROVE  OneCommand' /\ SilentInv'
<1>1. swallowed \in Nat /\ inbox \in Seq(Commands)
  BY DEF SessionInv, ScalarTypes, SeqTypes
<1>2. CASE UNCHANGED vars
  BY <1>2 DEF vars, server, elsewhere, client, OneCommand, SilentInv, Words
<1>3. CASE sendMessage
  <2>1. toSend # <<>> /\ UNCHANGED <<inbox, ctl, swallowed>> /\ pc' \in {pc, "end"}
        /\ (ctl = "open" => pc' = pc)
    BY <1>3 DEF sendMessage, Reply
  <2>2. OneCommand'
    BY <2>1 DEF OneCommand, Working
  <2>3. SilentInv'
    BY <2>1 DEF SilentInv
  <2> QED BY <2>2, <2>3
<1>4. ASSUME NEW n \in 1..Len(inbox), HandleLoginUser(n) \/ HandleLoginPass(n)
      PROVE  OneCommand' /\ SilentInv'
  <2>1. /\ recvMessage(n) /\ swallowed' = swallowed + n - 1 /\ ctl' = ctl
        /\ pc \in {"login", "pass"}
    BY <1>4 DEF HandleLoginUser, HandleLoginPass, recvMessage
  <2>2. n = 1 /\ inbox' = <<>> /\ inbox # <<>>
    BY <2>1, LockStepRead
  <2>3. OneCommand'
    BY <2>2 DEF OneCommand
  <2>4. ctl = "open" => swallowed = 0
    BY <1>1, <2>1, <2>2, LockStepLedger
  <2>5. ctl' = "open" => swallowed' = 0
    BY <2>1, <2>2, <2>4
  <2> QED BY <2>3, <2>5 DEF SilentInv
<1>5. CASE HandleLoginFails \/ SessionEnds
  <2>1. ctl' # "open" /\ inbox' = inbox /\ pc' \notin Working
    BY <1>5 DEF HandleLoginFails, SessionEnds, RecvThrows, Reply, Working
  <2> QED BY <2>1 DEF OneCommand, SilentInv
<1>6. ASSUME NEW n \in 1..Len(inbox), Dispatch(n)
      PROVE  OneCommand' /\ SilentInv'
  <2> DEFINE v == Verb(m_recvMessage')
  <2>1. /\ pc = "cmd" /\ recvMessage(n) /\ authed' = authed /\ ctl' = ctl
        /\ swallowed' = swallowed + n - Bool01(v \notin {"SIZE", "USER"})
        /\ v = "SIZE" => pc' = "cmd" /\ toSend' = <<>>
        /\ v = "USER" => pc' = "login" /\ toSend' = <<>>
    BY <1>6, DispatchEffect DEF RoundEffect
  <2>2. n = 1 /\ inbox' = <<>> /\ inbox # <<>>
    BY <2>1, LockStepRead
  <2>3. OneCommand'
    BY <2>2 DEF OneCommand
  <2>4. ctl = "open" => swallowed = 0
    BY <1>1, <2>1, <2>2, LockStepLedger
  <2>5. authed
    BY <2>1 DEF SessionInv, LoginInv, LoggedIn
  <2>6. v = "SIZE" => "SIZE" \in Words(m_recvMessage')
    BY VerbFound
  <2> HIDE DEF v
  <2>7. ctl = "open" /\ swallowed' > 0 => v \in {"SIZE", "USER"}
    BY <2>1, <2>2, <2>4 DEF Bool01
  <2>8. SilentInv'
    BY <2>1, <2>5, <2>6, <2>7 DEF SilentInv
  <2> QED BY <2>3, <2>8
<1>7. CASE OpenDir \/ ListEntry \/ ListDone \/ RetrFile \/ StorData
  <2>1. /\ UNCHANGED <<inbox, ctl, swallowed>> /\ pc \in Working
    BY <1>7 DEF OpenDir, ListEntry, ListDone, RetrFile, StorData, elsewhere, Working
  <2> QED BY <2>1 DEF OneCommand, SilentInv, Working
<1>8. ASSUME NEW c \in Commands, ClientSend(c)
      PROVE  OneCommand' /\ SilentInv'
  <2>1. /\ ctl = "open" /\ pc # "crash" /\ owed < Window /\ inbox' = Append(inbox, c)
        /\ UNCHANGED <<pc, swallowed>>
    BY <1>8 DEF ClientSend, server
  <2>2. inbox = <<>> /\ pc \notin Working /\ swallowed = 0
    BY <2>1, LockStepLedger
  <2>3. Len(inbox') = 1
    BY <2>1, <2>2
  <2> QED BY <2>1, <2>2, <2>3 DEF OneCommand, SilentInv
<1>9. CASE ClientRead \/ DataPeerClose
  <2>1. UNCHANGED <<pc, toSend, authed, m_recvMessage, inbox, ctl, swallowed>>
    BY <1>9 DEF ClientRead, DataPeerClose, server
  <2> QED BY <2>1 DEF OneCommand, SilentInv, Words
<1>10. CASE ClientHalfClose \/ ClientClose \/ Reset
  <2>1. ctl' # "open" /\ UNCHANGED <<pc, inbox>>
    BY <1>10 DEF ClientHalfClose, ClientClose, Reset, server
  <2> QED BY <2>1 DEF OneCommand, SilentInv
<1> QED BY <1>2, <1>3, <1>4, <1>5, <1>6, <1>7, <1>8, <1>9, <1>10
        DEF Next, Server, Login, Command, Transfer, Environment

\* While no final reply is pending, no 226 is.
LEMMA NothingPending ==
  ASSUME SeqTypes, Finals(toSend) = 0, Finals(outbox) = 0
  PROVE  ~Pending226
<1>1. ASSUME NEW s \in Seq(Codes), Finals(s) = 0, NEW i \in 1..Len(s)
      PROVE  s[i] # 226
  <2>1. Marks(s) = {}
    BY <1>1, MarksFinite, FS_EmptySet
  <2> QED BY <2>1 DEF Marks
<1> QED BY <1>1 DEF Pending226, SeqTypes, IsReply

\* sendMessage and ClientRead carry a 226 along, up to the client.
LEMMA PendingMoves ==
  ASSUME SeqTypes
  PROVE  /\ (/\ toSend # <<>> /\ toSend' = Tail(toSend)
             /\ outbox' = Append(outbox, Head(toSend)) /\ Pending226) => Pending226'
         /\ (/\ outbox # <<>> /\ outbox' = Tail(outbox) /\ Head(outbox) # 226
             /\ toSend' = toSend /\ Pending226) => Pending226'
<1> USE DEF SeqTypes, IsReply
<1>1. ASSUME toSend # <<>>, toSend' = Tail(toSend),
             outbox' = Append(outbox, Head(toSend)), Pending226
      PROVE  Pending226'
  <2>1. CASE \E i \in 1..Len(outbox) : outbox[i] = 226
    <3>1. PICK i \in 1..Len(outbox) : outbox[i] = 226
      BY <2>1
    <3>2. i \in 1..Len(outbox') /\ outbox'[i] = 226
      BY <1>1, <3>1
    <3> QED BY <3>2 DEF Pending226
  <2>2. CASE \E i \in 1..Len(toSend) : toSend[i] = 226
    <3>1. PICK i \in 1..Len(toSend) : toSend[i] = 226
      BY <2>2
    <3>2. CASE i = 1
      <4>1. Len(outbox) + 1 \in 1..Len(outbox') /\ outbox'[Len(outbox) + 1] = 226
        BY <1>1, <3>1, <3>2
      <4> QED BY <4>1 DEF Pending226
    <3>3. CASE i # 1
      <4>1. i - 1 \in 1..Len(toSend') /\ toSend'[i - 1] = 226
        BY <1>1, <3>1, <3>3
      <4> QED BY <4>1 DEF Pending226
    <3> QED BY <3>2, <3>3
  <2> QED BY <1>1, <2>1, <2>2 DEF Pending226
<1>2. ASSUME outbox # <<>>, outbox' = Tail(outbox), Head(outbox) # 226,
             toSend' = toSend, Pending226
      PROVE  Pending226'
  <2>1. CASE \E i \in 1..Len(toSend) : toSend[i] = 226
    BY <1>2, <2>1 DEF Pending226
  <2>2. CASE \E i \in 1..Len(outbox) : outbox[i] = 226
    <3>1. PICK i \in 1..Len(outbox) : outbox[i] = 226
      BY <2>2
    <3>2. i # 1
      BY <1>2, <3>1
    <3>3. i - 1 \in 1..Len(outbox') /\ outbox'[i - 1] = 226
      BY <1>2, <3>1, <3>2
    <3> QED BY <3>3 DEF Pending226
  <2> QED BY <1>2, <2>1, <2>2 DEF Pending226
<1> QED BY <1>1, <1>2

\* A careful client in lock-step keeps the connection its transfers need.
LEMMA CarefulStep ==
  ASSUME SessionInv, LedgerInv, OneCommand, CarefulInv, [Next]_vars,
         kind = "careful", Window = 1
  PROVE  CarefulInv'
<1>1. /\ pc # "crash"
      /\ pc \in Working => Connected
      /\ inbox # <<>> =>
            /\ Head(inbox).arg \notin Keywords
            /\ Head(inbox).verb \in {"LIST", "RETR", "STOR"} => Connected
            /\ Head(inbox).verb = "PORT" => ~ready
      /\ ctl = "open" /\ ready => m_client = "open" \/ Pending226
  BY DEF CarefulInv
<1>2. SeqTypes /\ inbox \in Seq(Commands)
  BY DEF SessionInv, SeqTypes
<1>3. CASE UNCHANGED vars
  BY <1>1, <1>3 DEF vars, server, elsewhere, client, CarefulInv, Connected, Pending226
<1>4. CASE sendMessage
  <2>1. /\ UNCHANGED <<inbox, ctl, m_client, ready>> /\ pc' \in {pc, "end"}
        /\ ctl = "open" => /\ toSend # <<>> /\ toSend' = Tail(toSend)
                           /\ outbox' = Append(outbox, Head(toSend))
    BY <1>4 DEF sendMessage, Reply, KeepClient
  <2>2. ctl = "open" /\ Pending226 => Pending226'
    BY <1>2, <2>1, PendingMoves
  <2> QED BY <1>1, <2>1, <2>2 DEF CarefulInv, Connected, Working
<1>5. ASSUME NEW n \in 1..Len(inbox), HandleLoginUser(n) \/ HandleLoginPass(n)
      PROVE  CarefulInv'
  <2>1. /\ recvMessage(n) /\ UNCHANGED <<outbox, ctl, m_client, ready>> /\ toSend = <<>>
        /\ pc' \in {"pass", "cmd", "login"}
    BY <1>5 DEF HandleLoginUser, HandleLoginPass, recvMessage, KeepClient, Reply
  <2>2. inbox' = <<>>
    BY <2>1, LockStepRead
  <2>3. Pending226 => Pending226'
    BY <2>1 DEF Pending226
  <2> QED BY <1>1, <2>1, <2>2, <2>3 DEF CarefulInv, Working
<1>6. CASE HandleLoginFails \/ SessionEnds
  <2>1. /\ ctl' # "open" /\ UNCHANGED <<inbox, m_client, ready>>
        /\ pc' \in {"cmd", "login", "end"}
    BY <1>6 DEF HandleLoginFails, SessionEnds, RecvThrows, Reply, KeepClient
  <2> QED BY <1>1, <2>1 DEF CarefulInv, Connected, Working
<1>7. ASSUME NEW n \in 1..Len(inbox), Dispatch(n)
      PROVE  CarefulInv'
  <2> DEFINE v == Verb(m_recvMessage')
  <2>1. /\ recvMessage(n) /\ toSend = <<>> /\ UNCHANGED <<outbox, ctl>>
        /\ pc' \in {"cmd", "opendir", "retr", "stor", "login"}
        /\ pc' \in Working => v \in {"LIST", "RETR", "STOR"}
        /\ v # "PORT" => UNCHANGED <<m_client, ready>>
        /\ v = "PORT" => (m_client' = "open" \/ ready' = ready) /\ pc' = "cmd"
    BY <1>7, DispatchEffect DEF RoundEffect
  <2>2. inbox' = <<>> /\ inbox # <<>>
        /\ Words(m_recvMessage') = {Head(inbox).verb, Head(inbox).arg}
    BY <2>1, LockStepRead
  <2>3. v = "other" \/ v = Head(inbox).verb
    BY <1>1, <2>2, VerbFound
  <2> HIDE DEF v
  <2>4. Pending226 => Pending226'
    BY <2>1 DEF Pending226
  <2>5. pc' \in Working => Connected'
    BY <1>1, <2>1, <2>2, <2>3 DEF Connected
  <2>6. ctl' = "open" /\ ready' => m_client' = "open" \/ Pending226'
    BY <1>1, <2>1, <2>2, <2>3, <2>4
  <2> QED BY <2>1, <2>2, <2>5, <2>6 DEF CarefulInv
<1>8. CASE OpenDir \/ ListEntry \/ ListDone \/ RetrFile \/ StorData
  <2>1. UNCHANGED <<inbox, outbox, ctl, ready>> /\ pc \in Working
    BY <1>8 DEF OpenDir, ListEntry, ListDone, RetrFile, StorData, elsewhere,
                KeepClient, DeleteClient, Working
  <2>2. toSend = <<>>
    BY <1>8 DEF SessionInv, LedgerInv, DirInv, OpenDir, ListEntry, ListDone, RetrFile, StorData
  <2>3. inbox' = <<>>
    BY <2>1 DEF OneCommand
  <2>4. Connected
    BY <1>1, <2>1
  <2>5. \/ m_client' = m_client /\ pc' # "crash"
        \/ pc' = "cmd" /\ toSend' \in {<<226>>, <<150, 226>>}
    BY <1>8, <2>4 DEF OpenDir, DirOpens, ListEntry, ListDone, RetrFile, StorData,
                      KeepClient, DeleteClient, Reply, Crash
  <2>6. CASE m_client' = m_client /\ pc' # "crash"
    <3>1. Pending226 => Pending226'
      BY <2>1, <2>2 DEF Pending226
    <3> QED BY <1>1, <2>1, <2>3, <2>4, <2>6, <3>1 DEF CarefulInv, Connected
  <2>7. CASE pc' = "cmd" /\ toSend' \in {<<226>>, <<150, 226>>}
    <3>1. Pending226'
      <4>1. CASE toSend' = <<226>>
        <5>1. 1 \in 1..Len(toSend') /\ toSend'[1] = 226
          BY <4>1
        <5> QED BY <5>1 DEF Pending226
      <4>2. CASE toSend' = <<150, 226>>
        <5>1. 2 \in 1..Len(toSend') /\ toSend'[2] = 226
          BY <4>2
        <5> QED BY <5>1 DEF Pending226
      <4> QED BY <2>7, <4>1, <4>2
    <3> QED BY <2>3, <2>7, <3>1 DEF CarefulInv, Working
  <2> QED BY <2>5, <2>6, <2>7
<1>9. ASSUME NEW c \in Commands, ClientSend(c)
      PROVE  CarefulInv'
  <2>1. /\ ctl = "open" /\ owed < Window /\ Wise(c) /\ inbox' = Append(inbox, c)
        /\ ready' = (ready /\ c.verb # "PORT")
        /\ UNCHANGED <<pc, m_client>>
    BY <1>9 DEF ClientSend, server
  <2>2. inbox = <<>> /\ Finals(toSend) = 0 /\ Finals(outbox) = 0
    BY <1>1, <2>1, LockStepLedger
  <2>3. inbox' = <<c>> /\ Head(inbox') = c
    BY <2>1, <2>2
  <2>4. ready => m_client = "open"
    BY <1>1, <1>2, <2>1, <2>2, NothingPending
  <2>5. /\ c.arg \notin Keywords
        /\ c.verb \in {"LIST", "RETR", "STOR"} => Connected'
        /\ c.verb = "PORT" => ~ready'
    BY <2>1, <2>4 DEF Wise, Connected
  <2>6. ready' => m_client' = "open"
    BY <2>1, <2>4
  <2> QED BY <1>1, <2>1, <2>3, <2>5, <2>6 DEF CarefulInv, Connected
<1>10. CASE ClientRead
  <2>1. /\ UNCHANGED <<pc, m_client, toSend, inbox, ctl>>
        /\ outbox # <<>> /\ outbox' = Tail(outbox)
        /\ ready' = (ready /\ Head(outbox) # 226)
    BY <1>10 DEF ClientRead, server
  <2>2. ready' => ready /\ (Pending226 => Pending226')
    BY <1>2, <2>1, PendingMoves
  <2> QED BY <1>1, <2>1, <2>2 DEF CarefulInv, Connected
<1>11. CASE ClientHalfClose \/ ClientClose \/ Reset
  <2>1. ctl' # "open" /\ UNCHANGED <<pc, m_client, inbox, ready>>
    BY <1>11 DEF ClientHalfClose, ClientClose, Reset, server
  <2> QED BY <1>1, <2>1 DEF CarefulInv, Connected
<1>12. CASE DataPeerClose
  <2>1. /\ m_client' = "gone" /\ ready' = FALSE /\ UNCHANGED <<pc, inbox>>
    BY <1>12 DEF DataPeerClose
  <2> QED BY <1>1, <2>1 DEF CarefulInv, Connected
<1> QED BY <1>3, <1>4, <1>5, <1>6, <1>7, <1>8, <1>9, <1>10, <1>11, <1>12
        DEF Next, Server, Login, Command, Transfer, Environment

\* The invariant of the session and its client: what the server keeps, what
\* the client is owed, and what a lock-step and a careful client add to it.
ClientInv == SessionInv /\ LedgerInv /\ OneCommand /\ SilentInv /\ CarefulInv

\* Only the greeting is owed at the start.
LEMMA InitClient == Init => ClientInv
<1> SUFFICES ASSUME Init PROVE ClientInv
    OBVIOUS
<1>1. SessionInv
  BY InitSession
<1>2. LedgerInv
  <2>1. Finals(<<220>>) = 1 /\ Finals(<<>>) = 0
    BY FinalsReplies DEF Codes
  <2>2. Len(inbox) = 0 /\ Finals(toSend) = 1 /\ Finals(outbox) = 0
    BY <2>1 DEF Init
  <2>3. Window \in Nat \ {0}
    BY FtpAssumption
  <2> QED BY <2>2, <2>3 DEF Init, LedgerInv, RepliesAccounted, Bool01, Working
<1>3. OneCommand /\ SilentInv /\ CarefulInv
  BY DEF Init, OneCommand, SilentInv, CarefulInv, Working
<1> QED BY <1>1, <1>2, <1>3 DEF ClientInv

\* Every step keeps it.
LEMMA StepClient == ClientInv /\ [Next]_vars => ClientInv'
<1> SUFFICES ASSUME ClientInv, [Next]_vars PROVE ClientInv'
    OBVIOUS
<1> USE DEF ClientInv
<1>1. SessionInv'
  BY StepSession
<1>2. LedgerInv'
  BY <1>1, LedgerStep
<1>3. OneCommand' /\ SilentInv'
  BY LockStep DEF OneCommand, SilentInv
<1>4. CarefulInv'
  <2>1. kind' = kind
    BY DEF Next, Server, Login, Command, Transfer, Environment, vars, server, elsewhere,
           client, sendMessage, HandleLoginUser, HandleLoginPass, HandleLoginFails,
           recvMessage, RecvThrows, Dispatch, SessionEnds, OpenDir, ListEntry, ListDone,
           RetrFile, StorData, ClientSend, ClientRead, ClientHalfClose, ClientClose,
           Reset, DataPeerClose
  <2>2. CASE kind = "careful" /\ Window = 1
    BY <2>2, CarefulStep
  <2>3. CASE ~(kind = "careful" /\ Window = 1)
    BY <2>1, <2>3 DEF CarefulInv
  <2> QED BY <2>2, <2>3
<1> QED BY <1>1, <1>2, <1>3, <1>4

\* The invariant holds in every reachable state, for every client.
THEOREM ClientInductive == Spec => []ClientInv
  BY InitClient, StepClient, PTL DEF Spec

\* The client's ledger balances: no handler answers a command twice, on any of
\* its paths, and none but Dispatch and HandleLogin swallow one.
THEOREM RepliesAlwaysAccounted == Spec => []RepliesAccounted
<1>1. ClientInv => RepliesAccounted
  BY DEF ClientInv, LedgerInv
<1> QED BY <1>1, ClientInductive, PTL

\* A lock-step client and the server wait for each other only after SIZE, after
\* a second USER, or in a STOR.
THEOREM StuckNeedsSilence == Spec => []StuckOnlyWhereSilent
<1>1. ClientInv => StuckOnlyWhereSilent
  <2> SUFFICES ASSUME ClientInv, Window = 1, MutualWait, pc # "stor"
               PROVE  \/ pc = "cmd" /\ "SIZE" \in Words(m_recvMessage)
                      \/ pc = "login" /\ authed
    BY DEF StuckOnlyWhereSilent
  <2>1. /\ ctl = "open" /\ owed > 0 /\ toSend = <<>> /\ inbox = <<>> /\ outbox = <<>>
        /\ pc \in {"login", "pass", "cmd"}
    BY DEF MutualWait
  <2>2. Len(inbox) = 0 /\ Finals(toSend) = 0 /\ Finals(outbox) = 0
        /\ Bool01(pc \in Working) = 0
    BY <2>1, FinalsReplies DEF Bool01, Working
  <2>3. owed = swallowed
    BY <2>1, <2>2 DEF ClientInv, SessionInv, ScalarTypes, LedgerInv, RepliesAccounted
  <2> QED BY <2>1, <2>3 DEF ClientInv, SilentInv
<1> QED BY <1>1, ClientInductive, PTL

\* A session with a careful lock-step client never uses a null m_client.
THEOREM CarefulClientNeverCrashes == Spec => []NoCrash
<1>1. ClientInv => NoCrash
  BY DEF ClientInv, CarefulInv, NoCrash
<1> QED BY <1>1, ClientInductive, PTL

-----------------------------------------------------------------------------
(* HandlePORT of several sessions (PortLookup), whose variables get names of  *)
(* their own here.                                                            *)

CONSTANTS Sessions, Hosts, BadHosts, none
VARIABLES places, asked, host, hostent, clients, overlapped

Lookup == INSTANCE PortLookup WITH pc <- places, m_client <- clients

\* What the shared hostent and HandlePORT's local hold at each point: until the
\* call the text is the client's; between call and read the hostent is this
\* session's unless a lookup overlapped; from the read on the local is.
LookupInv ==
    \A s \in Sessions :
        /\ places[s] = "call" => host[s] = asked[s]
        /\ places[s] = "read" => hostent = asked[s] \/ overlapped[s]
        /\ places[s] = "connect" => host[s] = asked[s] \/ overlapped[s]

\* The inductive invariant.
PortInv == Lookup!TypeOK /\ LookupInv /\ Lookup!StrayOnlyIfOverlapped

\* Before the first PORT no session has a data connection.
LEMMA InitPort == Lookup!Init => PortInv
  BY DEF Lookup!Init, PortInv, Lookup!TypeOK, LookupInv, Lookup!StrayOnlyIfOverlapped

\* Every step of HandlePORT preserves the invariant, in the session that takes
\* it and in all others.
LEMMA StepPort == PortInv /\ [Lookup!Next]_(Lookup!vars) => PortInv'
<1> SUFFICES ASSUME PortInv, [Lookup!Next]_(Lookup!vars) PROVE PortInv'
  OBVIOUS
<1> USE DEF PortInv, Lookup!TypeOK
<1>1. CASE UNCHANGED Lookup!vars
  BY <1>1 DEF Lookup!vars, LookupInv, Lookup!StrayOnlyIfOverlapped
<1>2. ASSUME NEW s \in Sessions, NEW h \in Hosts, Lookup!Port(s, h) PROVE PortInv'
  <2>1. Lookup!TypeOK'
    BY <1>2 DEF Lookup!Port
  <2>2. LookupInv'
    BY <1>2 DEF Lookup!Port, LookupInv
  <2>3. Lookup!StrayOnlyIfOverlapped'
    BY <1>2 DEF Lookup!Port, Lookup!StrayOnlyIfOverlapped
  <2> QED BY <2>1, <2>2, <2>3
<1>3. ASSUME NEW s \in Sessions, Lookup!gethostbyname(s) PROVE PortInv'
  <2>1. Lookup!TypeOK'
    BY <1>3 DEF Lookup!gethostbyname
  <2>2. LookupInv'
    <3>1. CASE host[s] \in BadHosts
      BY <1>3, <3>1 DEF Lookup!gethostbyname, LookupInv
    <3>2. CASE host[s] \notin BadHosts
      BY <1>3, <3>2 DEF Lookup!gethostbyname, LookupInv
    <3> QED BY <3>1, <3>2
  <2>3. Lookup!StrayOnlyIfOverlapped'
    BY <1>3 DEF Lookup!gethostbyname, Lookup!StrayOnlyIfOverlapped
  <2> QED BY <2>1, <2>2, <2>3
<1>4. ASSUME NEW s \in Sessions, Lookup!ReadAddress(s) PROVE PortInv'
  <2>1. Lookup!TypeOK'
    BY <1>4 DEF Lookup!ReadAddress
  <2>2. LookupInv' /\ Lookup!StrayOnlyIfOverlapped'
    BY <1>4 DEF Lookup!ReadAddress, LookupInv, Lookup!StrayOnlyIfOverlapped
  <2> QED BY <2>1, <2>2
<1>5. ASSUME NEW s \in Sessions, Lookup!Connect(s) PROVE PortInv'
  <2>1. Lookup!TypeOK'
    BY <1>5 DEF Lookup!Connect
  <2>2. LookupInv' /\ Lookup!StrayOnlyIfOverlapped'
    BY <1>5 DEF Lookup!Connect, LookupInv, Lookup!StrayOnlyIfOverlapped
  <2> QED BY <2>1, <2>2
<1> QED BY <1>1, <1>2, <1>3, <1>4, <1>5 DEF Lookup!Next

\* A session's data connection goes to another client's host only when that
\* client's gethostbyname fell between this session's call and its read.
THEOREM StrayNeedsOverlap == Lookup!Spec => []Lookup!StrayOnlyIfOverlapped
<1>1. PortInv => Lookup!StrayOnlyIfOverlapped
  BY DEF PortInv
<1> QED BY InitPort, StepPort, <1>1, PTL DEF Lookup!Spec
=============================================================================
