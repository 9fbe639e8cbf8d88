# A TLA+ model of SocketProgram

SocketProgram is a small C++ socket library with an HTTP server and client and
an FTP server built on it. This directory holds TLA+ modules translated from its
source, TLC configurations that check them on small instances, and TLAPS proofs
of the invariants that matter most. `PROJECT.json` maps every definition to the
source lines it stands for, lists the runs, the mutants that show each property
can fail, the hazards the properties are aimed at, and the theorems.

The repository has no tests and no documentation besides comments, so the source
is the only reference. Source paths below are relative to `src/`.

## Inventory

### Components, their state and operations

| Component | State | Operations |
|---|---|---|
| `libs/Inet` `BaseSocket`, `SSLSocket`, `IOSocket`, `ConnectSocket`, `ServerSocket` | `m_socket`, `m_ssl`, `m_sslctx`; behind them the kernel's descriptor table and OpenSSL's objects | constructors (`socket`, `connect`, `bind`/`listen`), `accept`, `newSSL`, `closeSSL`, move construction and assignment, `close`, `putClose`, destructors |
| `IOSocket::getMessage`, `putMessage` | bytes read so far | the read loop with its scan lambda, the write loop, `select` timeout |
| `SSLCtx` | one `SSL_CTX` | library set-up, loading of certificate and key |
| `libs/Protocols/ProtocolFtp` | `m_recvMessage`, `m_sendMessage`, `m_pwd`, `m_client` (the data connection) | `startProtocol` (login loop, command loop), one `Handle...` per command |
| `ProtocolSimple` | none | `sendMessage`, `recvMessage` up to end of file |
| `ProtocolHttp` | request line, `m_requestHeader`, `m_rangeStart` | `recvRequest`, `_ParseRequestHeader`, `sendResponse`; for the client `sendRequest`, `sendRequestFd`, `recvMessage` |
| `src/server.cpp`, `ftpServer.cpp`, `muxServer.cpp` | listening socket, detached threads | accept loop, one thread per connection |
| `src/client.cpp` | one connection | writes a request, prints the response |
| `libs/Ffmpeg`, `src/muxer.cpp` | two output streams with their time stamps | the loop that writes the stream that is behind |
| `src/sserver.cpp` | one connection | TLS echo, one connection at a time |
| `main.cpp`, `Person`, `Elevator`, `vimtest.cpp` | - | language exercises |

`muxServer.cpp` includes `ProtocolMuxer.h`, which is not in the repository.

### How they interact

The main thread of a server constructs a `ServerSocket` and loops over `accept`.
Each accepted `IOSocket` is moved (through a local of `accept`, the return value,
and the thread's argument) into a detached thread, which wraps it in a protocol
object and runs one request (HTTP) or one session (FTP). Threads share nothing
but the process: the descriptor table, in which a number is handed out again as
soon as it is closed, and the fate of the process, which a null pointer in any
thread, or a return from `main`, ends for all of them. An FTP session opens a
second connection, `m_client`, towards the client on `PORT` and uses it up in
`LIST`, `RETR` or `STOR`. It also calls `gethostbyname`, whose result is one static
buffer for all threads. `client.cpp` is the other end of an HTTP connection;
`sserver.cpp` and `muxer.cpp` are programs of their own.

### What is hard here

* Ownership across moves, exceptions in constructors, and descriptor reuse by
  other threads.
* TCP has no message boundaries; both protocols treat "what one read returned" as
  a unit. FTP looks a keyword up anywhere in it; HTTP looks for the end of the
  request in it.
* `m_client` is used without asking whether there is one, and the exception
  paths of the transfers skip `closedir` and `delete`.
* Both sides of an FTP session can end up waiting for each other; timeouts are
  passed down and ignored. So can the HTTP client and server, and the echo server
  and a client that writes before it reads.
* Signed results stored in unsigned variables (`_ReadLine`, range starts), and a
  `Content-Length` that is a `size_t` difference.
* An answer announces the length of a file that may change while it is sent, in
  partial writes, over a connection that may break; `_SendBody` swallows the
  exception of a failed write.
* `recvMessage` of `ProtocolSimple` resizes its string to the capacity and back
  around every read; "no room" and "end of file" are the same result, 0.
* A close with unread input is a reset, which can destroy an answer under way; an
  answer that nobody reads blocks the thread that writes it.
* The accept loop ends, and with it the process, on one failed handshake. An
  accepted connection is moved three times before a thread serves it.
* `gethostbyname` is called by all FTP threads without a lock.
* The muxer chooses between two streams that count in different units, and has to
  get the frames out that the encoders hold back.

### What correctness means

* Sockets: every descriptor and every SSL has exactly one holder, nothing leaks
  or is released twice, an SSL only works on its holder's descriptor.
* FTP: one data connection at most, no work before login, every command answered
  exactly once except where the code is silent by design, a session ends when its
  client is gone.
* HTTP request: it is parsed exactly when it is complete, with all its headers;
  where this fails, it fails only for a stated reason.
* HTTP response: the body is as long as announced, or there is a stated reason; a
  download that is broken off and resumed is the file.
* HTTP exchange: a well-formed request file that fits into the buffer gets its
  answer; the two wait for each other in a read or in a write, or lose an answer,
  only for stated reasons.
* Transfers (`recvMessage`, the echo server): what comes out is a prefix of what
  went in at all times, and all of it on success.
* Servers: each thread serves an open connection of its own, every descriptor is
  accounted for, sessions do not keep `main` from the next client.
* Muxer: the streams stay interleaved, the file is complete, the program ends.

`PROJECT.json` lists the individual hazards with their lines and properties.

## The modules

| Module | Models | Extends |
|---|---|---|
| `Sockets` | the socket classes as owners of descriptors and SSL objects | |
| `MCSockets` | symmetry for TLC | `Sockets` |
| `FtpSession` | one FTP session, its data connection, the client | |
| `FtpSessionProofs` | its theorems, and that of `PortLookup` | `FtpSession` |
| `MCFtpSession` | sets of commands for TLC | `FtpSession` |
| `HttpHeader` | the bytes of a request: what the client writes, the scan for its end, the parser | |
| `HttpRequest` | receiving a request in any segments | `HttpHeader` |
| `HttpRequestProofs` | its theorems | `HttpRequest` |
| `MCHttpRequest` | requests for TLC | `HttpRequest` |
| `HttpResponse` | answering: ranges, header, body, a client that resumes | |
| `HttpResponseProofs` | its theorems | `HttpResponse` |
| `MCHttpResponse` | Range headers for TLC | `HttpResponse` |
| `HttpExchange` | `client.cpp` and a server thread on one connection | `HttpHeader` |
| `HttpExchangeProofs` | its theorems | `HttpExchange` |
| `MCHttpExchange` | request files for TLC | `HttpExchange` |
| `Delivery` | abstract: what a transfer of bytes promises | |
| `SimpleRecv` | `ProtocolSimple::recvMessage`; implements `Delivery` | |
| `SimpleRecvProofs` | its theorems, the refinement among them | `SimpleRecv` |
| `EchoServer` | `sserver.cpp` and its client; implements `Delivery` | |
| `EchoServerProofs` | its theorems, the refinement among them | `EchoServer` |
| `Server` | the accept loops and their threads, composed of the steps of `Sockets` | `Sockets` |
| `ServerProofs` | the theorems of `Sockets` and of `Server` | `Server` |
| `MCServer` | two threads for TLC | `Server` |
| `PortLookup` | `HandlePORT` of several sessions and the static `hostent` | |
| `Muxer` | `muxer.cpp` and `libs/Ffmpeg` | |
| `MuxerProofs` | its theorems | `Muxer` |

Some definitions are the code with one plausible slip (most are introduced by the
word "Mutant"). No specification uses them; `PROJECT.json` says which definition each one
stands in for and which property it then breaks.

### Sockets

`life[o]` is the stage of each object's life, from raw storage over the steps of
its constructor to the two destructors. `m_socket`, `m_ssl` and `m_sslctx` are the
members, `open`, `heap`, `bound` and `up` the kernel's and OpenSSL's side: open
descriptors, allocated SSL objects, the descriptor number each SSL was given, and
the SSL objects whose handshake is complete. Each system or OpenSSL call is a
step of its own, because other threads run in between; a member function that
only touches members (`Swapped`) is one step, and so is `closeSSL`: `SSL_shutdown`
and `SSL_free` work on an SSL that no other object holds.
Faithfully kept: `~SSLSocket` runs before `~BaseSocket`; `ConnectSocket` closes its
descriptor before the SSL bound to it is freed; `SSL_connect` returning 0 is
taken for success; `ConnectSocket` swallows an exception of `newSSL` and goes on
with a null `SSL*` (`crashed`); the move constructor leaves `m_sslctx`
uninitialised (`"junk"`) and swaps that into the source; `~ProtocolFtp` forgets its
data connection (`Forget`). Left out: a failed `SSL_set_fd`, which `newSSL` only logs
(`Socket.cpp:113`); it fails when memory runs out, and the handshake that follows on
an SSL without a descriptor fails.

### FtpSession

The thread's position is `pc` together with `toSend`, the replies its handler has
still to send: each blocking send is a step, so the client can act between two
sends of one handler. A command is a verb and a word; a message is the sequence of
commands that one read returned. `Dispatch` is one round of the command loop: it
takes the first keyword of the chain that occurs anywhere in the message, verb or
argument. The handlers that go on after a send (`LIST`, `RETR`, `STOR`) continue in
`OpenDir`, `ListEntry`, `ListDone`, `RetrFile`, `StorData`. `conns` and `dirs` count
the kernel's descriptors, `swallowed` the commands that nobody will answer, and
`broken` remembers that a data peer closed. The client is an actor: it sends
within a window, reads, half-closes, closes and ends its data connection whenever
it likes. Its `kind`, fixed for a session, restricts it: a `"careful"` client keeps to
the commands the server answers and cooperates, a `"patient"` one does not end the
data of a `STOR` before it has seen 150.

### HttpHeader and HttpRequest

Bytes are `x` (printable), `_` (blank), `r`, `n`. `HttpHeader` has the operators on them
that `HttpRequest` and `HttpExchange` share. In `HttpRequest`, `Read(k)` is one turn of
`getMessage`'s loop: it takes the bytes of `k` arrived segments as far as there is
room (over TLS, one record), asks `scanForEnd`, the lambda of `recvRequest`, about
that chunk alone, and when the loop ends `_ParseRequestHeader` decides the outcome.
The parser is a function of the bytes, checked against `RequestLine` and `HeaderLines`,
definitions of the request line and the header count that do not follow the parser's
loop. The client writes the segments that `sendRequest` and `sendRequestFd` write, or
arbitrary ones. `OwnRequest` says what the former have in common: every segment is a
whole line, the first line has three words, and the empty line fits into the buffer.
Such a request is understood with a body or without; that it is always recognised as
complete holds without a body only (`NoBody`): a read may bring the empty line together
with the body but without the line before, and in that chunk the scan sees no end.

### HttpResponse

`pc` follows `sendResponse`: `_GetBodySize`, the header, the byte-wise read of the
file into a buffer (`ReadByte`, `EndOfFile`), `putMessage` with partial writes, its
exception, `putClose`, or `_ResponseError`, and the end of the thread. A byte of the document is its position.
`RangeStart` is what several `sscanf("%d")` leave in the low half of a `size_t`, modulo
`IntMod` (2^32 in the code), and `ContentLength` a difference modulo `SizeMod` (2^64).
Between any two steps the file may change length (`Edit`), the connection may break
and the client may read; `Resume` is the next connection of a client that asks for
the rest. A connection is plain or TLS. Over TLS `closeSSL`, which `putClose` and
`~SSLSocket` call, sends its close_notify and repeats `SSL_shutdown` until the client's
has come or the connection breaks; the client sends one only if it likes
(`ClientSaysGoodbye`).

### HttpExchange

`Written` is what `sendRequestFd` makes of a file: each line with a line end, and of the
first line of more than `lineMax` (2047) characters that many, after which `getline` fails
for ever without reaching end of file and the stream goes on with empty lines. The
stream is fixed by the file, so the state counts: `sent`, `dataRead`, `written`,
`received` bytes. Every byte of a `putMessage`, on either side, is a step that waits while
the kernels have no room (`NetMax` towards the server, `Window` towards the client).
`Read(k)` takes any number of bytes that have arrived, as far as the buffer of `dataMax`
bytes has room, so a read may end anywhere, also within the final line ends; scan and
parser are those of `HttpHeader`. `Close` on unread input resets the connection, and a
reset may overtake any part of the answer; a write after it ends the client by an
exception or by `SIGPIPE`. The connection is plain, as `client.cpp` passes no `SSLCtx`.

### SimpleRecv and EchoServer, and Delivery

`Delivery` has three variables: the bytes offered, the bytes delivered, the outcome.
`SimpleRecv` keeps the string as it is, filling included: `Read(k)` is one
`getMessage` followed by `reserve`, the old `StringSizer`'s cut and the new one's
filling, in the order the code has them. `EchoServer` is the `main` of `sserver.cpp` with
its unchecked `listen`, `accept` and `SSL_accept`, the read and write loops and the one
`SSL_shutdown`; the client reads along or, if `batch`, writes everything first. In both
the bytes are numbered, and the refinement mapping takes what has been received, or
echoed, for `delivered`. `SSL_write` may write a part in the model; `sserver.cpp` never
sets `SSL_MODE_ENABLE_PARTIAL_WRITE`, so there it writes all or fails, and the model has
more behaviours than the program.

### Server

`main`'s position, the thread slot it fills and the threads' positions are the only
new variables; everything else is a step of `Sockets` on one of the objects `server`,
`newssl`, `accept` and, for each thread, `arg[t]`, `par[t]`, `con[t]`. `ftp` says which
program it is: in `ftpServer` the threads make data connections and forget the last
one, in `server` they call `putClose`. `Unwind` is every exception that leaves the
loop, up to the exit of the process. Since a step on an object that does not fit has no
step of `Sockets`, a misuse would only disable it; `ObjectsFitTheCalls` therefore states
that the objects fit wherever the program gets to.

### PortLookup

Each session's `HandlePORT` in four steps: the scan, `gethostbyname`, the read of its
static result, the new connection. `overlapped` is a history variable.

### Muxer

`next_pts` counts pictures and samples, `samples_count` stamps the audio frames,
`held` are the frames inside an encoder, `written` the packets in the file. `Encode` is
FFmpeg as the code uses it: a frame goes in or not, a packet comes out or not, and
every frame gives one packet in the end. The last is an assumption about the encoders:
one that primes its output, as AAC encoders do, gives more packets than frames when it is
flushed, and the counts of `FileIsWhole` are then those of the frames. The rates, the frame size and the duration are parameters; any call of FFmpeg may fail.

## The runs

| Run | Instance | What it shows |
|---|---|---|
| `sockets` | one listener, one outgoing socket, one `accept` local, two moved-to sockets, three descriptors, two SSL objects; symmetric | ownership is unique and complete, an SSL works on its own descriptor, descriptors in use are never closed |
| `ftp_pipelined` | five commands of five verbs, arguments that are keywords, two outstanding | one data connection, login before transfers, and the ledger of replies, with coalesced commands |
| `ftp_lockstep` | all verbs, six commands, lock-step clients, careful and patient | a careful client never crashes the server and has every command answered; the session gets stuck in three ways only; it ends when the client is gone |
| `ftp_login_wait` (violation) | | the login timeout never happens |
| `http_request` | the client's own writes, one of them with a body, merged in every way, and seven requests cut at every byte, the longest of them longer than the buffer | the own requests are parsed with all headers and, without a body, always recognised; where scan and parser go wrong on others, and where they cannot |
| `http_response` | files of up to 5 bytes, plain and TLS, int of 4, `size_t` of 16, buffer 2, window 3, up to two Range headers, three connections | announced and delivered length agree but for four reasons; resumed downloads are in order and whole; every answer ends, but for the wait for a TLS client's goodbye |
| `http_exchange` | every file of up to three of five lines, lines and buffer of 12 bytes, 4 bytes in flight one way and 2 the other, answers of 1 and 3 | who waits for whom in reads and in writes, when an answer is lost; a well-formed file that fits is answered unless a read cuts its line ends; sending ends unless both are blocked |
| `simple_recv` | capacity 3, two roundings of `reserve`, 7 bytes | the string is exactly what was sent; refinement of `Delivery` |
| `echo` | buffer and windows of 2, 6 bytes, two connections | when it blocks or is killed; refinement of `Delivery`; the echo comes back |
| `server` | two threads, four descriptors, two SSL objects, both programs | every call finds its objects, each thread has its connection, descriptors accounted for, `main` comes back |
| `port_own` (violation) | three sessions, three hosts | a data connection goes to another client's host |
| `muxer` | rates 7 and 40, frames of 6 samples, 4 seconds, delay 3 | interleaving, a whole file, termination |

Why the bounds are enough. In `sockets` two moved-to objects, an `accept` local and
an outgoing socket compete for fewer descriptors and SSL objects than there are
objects, so numbers are reused while stale copies could exist. In `ftp_pipelined` the
shortest ways to the interesting states (USER, any, PORT, then two transfers of which
the first breaks off) take five commands, and a window of two makes messages of two
commands, which is when keywords of different commands meet. In `ftp_lockstep` six
commands allow PORT, a transfer that is refused or breaks off, another PORT, and a
second transfer. `SockBuf` is small so that sends block. In `http_request` requests
have zero to two header lines and the buffer is one byte shorter than the longest, so
it fills up in the last line end. In `http_response` files are longer than an int, so
range starts are truncated; ranges lie inside and behind the file, are negative, too
wide or without a number; a body takes several buffers and a buffer several writes.
In `http_exchange` there are files that fill the buffer exactly, exceed it by one byte, go
on behind their empty line, or never end; four bytes in flight hold both line ends that
the scan looks for, in one read or cut in any way, and an answer of three bytes exceeds
the client's window, so that each of the stated exceptions happens.
In `simple_recv` the first read has room for two bytes only and every read grows the
string.
In `echo` 6 bytes are more than both windows and the buffer hold. In `server` two
sessions, the listener and one data connection, lost or not, use up the descriptors,
so that `accept` and `socket` fail. In `muxer` no rate is a multiple of another and the
last audio frame overruns the duration. The proofs then cover every size.

Deadlock is not checked: a session thread, a connection, a finished or crashed
process really stop, and the waits that should not last are stated as properties.

### Fairness

* `FtpSession`: the session thread runs when it is not blocked in a system call (`WF`
  on `Server`). A transfer to a data peer that is still there is excluded: it waits
  for that peer to read. `Reset`, and the closing of data connections after the
  client has closed, are what the kernel of an exited client does. A careful client
  also reads what it is sent and ends the data of a `STOR`; only
  `EveryCommandAnswered` is about such clients.
* `HttpRequest`: the thread runs when there is something to read, and the client
  finishes writing unless it leaves.
* `HttpResponse`: the thread runs, and the client reads what has arrived (or the
  connection breaks). That a TLS client says goodbye is not assumed.
* `HttpExchange`: both processes run when they are not blocked.
* `EchoServer`: the server runs, and a client reads an echo it waits for.
* `Server`: `main` runs, except where it waits for a client (`WaitsForPeer`:
  `SSL_accept`, and the goodbye of a connection that got no thread). Nothing is
  assumed of clients and threads.
* `Muxer`: a single thread that runs on.

Every condition is weak fairness of an action that stays enabled until it is
taken; nothing else is assumed of a client that is present and silent.

### Findings

* `ftp_login_wait`: `HandleLogin` passes a timeout of five seconds
  (`ProtocolFtp.cpp:198`) that the comments of `getMessage` describe
  (`Socket.tpp:73`, `89`), but `ProtocolFtp::recvMessage` hands down -1
  (`ProtocolFtp.cpp:39`). A silent client keeps thread and descriptor for ever.
* `port_own`: `PORT` is to name the address of the data connection
  (`ProtocolFtp.cpp:127`), but its address goes through the static result of
  `gethostbyname` (lines 237 to 242), which another session's thread may overwrite
  in between. The connection then goes to the host the other client named.

A further one is part of `StuckOnlyWhereSilent`: the dispatch says that `SIZE` returns
the size of the file (`ProtocolFtp.cpp:149`), `HandleSIZE` (line 460) sends nothing, and
a lock-step client and the server wait for each other.

## The proofs

Each proof module states an inductive invariant, proves that `Init` establishes it
and that every action preserves it, and derives the properties. The constants are
arbitrary, within the named assumption of the module.

`ServerProofs`, first part (`Spec` of `Sockets`, whatever program uses the classes): all
invariants of the run `sockets`, the types and `JunkContextIsInert` (the
uninitialised context never belongs to a socket with a connection) hold, and
descriptors in use are never closed. `IndInv` adds `StageInv` (what an object can hold in
each stage of its life), `BoundInv` (an SSL is bound to its holder's descriptor, except
in the one path that closes the descriptor first, where the handshake never
completed) and `UpInv`. Without `StageInv`, constructing an object could overwrite a
descriptor it still holds; without `BoundInv`, `TlsOnOwnSocket` is not preserved when a
handshake completes.

`FtpSessionProofs`: types, `OneDataConnection`, `TransfersNeedLogin` and
`DirLeaksOnlyIfBroken` (a directory stream outlives its `LIST` only after a data peer has
gone away; no run repeats it) for every client. `SessionInv` strengthens them: the command loop
itself is behind the login (`LoginInv`); `"gone"` implies `broken`, a directory is open
while one is listed, and no reply is pending there (`DirInv`).

Its second section is about the client at the other end, and its invariant is
`ClientInv`. `LedgerInv` is `RepliesAccounted`, which is almost inductive: it needs that
`STOR` has nothing left to send and that no more is owed than the window. The final
replies in a queue are counted as the cardinality of a set of positions, and the
lemmas `FinalsAppend` and `FinalsTail` say what appending and taking the head do to
that number. From the ledger: in lock-step one command is read at a time and none
waits behind a transfer (`OneCommand`), so a swallowed command is the last one
(`SilentInv`), which gives `StuckOnlyWhereSilent`; and for a careful client the accepted
data connection is there until a `PORT` of its own or a 226 it has not read yet
(`CarefulInv`), which gives `NoCrash`. All three hold for any number of commands, any
window, socket buffer and directory size.

The last section proves of `PortLookup` (an instance) that a stray data connection
needs a lookup that overlapped with another one's (`StrayOnlyIfOverlapped`): the
converse of the finding.

`HttpRequestProofs`: all invariants of the run, for any requests in any segments and
any buffer. `RequestInv` is enough for the types, `MissesOnlyCutEnd`,
`StopsEarlyOnlyOnBareLineEnd` and `OverrunOnlyWithoutLine`: it adds `ReadInv` (no segment is
empty, the chunk is empty only at the start, and while the thread reads the last chunk
did not satisfy the scan and the buffer is not full). The lemmas carry the weight: what
it means that one sequence stands in another (`SubSeqsAt`, `SuffixAt`, `IndexFirst`), what
`_ReadLine` returns (`ReadLineFinds`), and that the recursive option loop is well defined
and returns a proper result for every buffer and offset (`OptionsResult`).

`OwnClientUnderstood` needs the bytes themselves. `OwnInv` adds `SegmentsInOrder`: while
the thread reads, the buffer is the concatenation of the first segments of the
request and the net holds the next ones. It is preserved because `FlattenSeq` of two
lists is the concatenation of both (`FlattenConcat`) and a read that does not fill the
buffer takes whole segments (`ReadContinues`). The read that ends the loop then has the
whole request (`StopHasWhole`): the scan has seen the empty line, or the chunk is a
bare line end behind a segment that ends in one, or the full buffer reaches the empty
line; the case left, a line end as the very first chunk, would be an empty request
line. On such a buffer the parser agrees with the reference (`ParseCounts`): from any line
end on, the option loop counts the line ends up to the empty line (`OptionsCount`, by
induction on the distance to it), and bytes behind the empty line change nothing
(`PrefixParses`). `SendRequestIsOwn` and `SendRequestFdIsOwn` show that what the client
writes is such a request, and `SendRequestUnderstood` puts both ends together: the server
counts the Host line and exactly the header lines that `sendRequest` was given. Header
lines that are empty or contain a carriage return are excluded there, for they would
end the header or make two lines out of one.

The inductions are over a set of naturals (`NatSetInduction`, from the well-foundedness
of `<`), since the library's theorems with an operator as parameter cannot be used by
these provers.

`HttpExchangeProofs`: types, `MutualWaitOnlyWithoutEnd`, `LostOnlyIfUnread` and
`BlockedOnlyIfUnread`, for files, buffers and windows of any size and reads of any length.
`ExchangeInv`: where the client is in its file (`ClientInv`); while the thread reads, nothing
has come back, the buffer is not full and the last chunk did not satisfy the scan
(`ReadingInv`); it has stopped for one of its two reasons (`StopInv`); only input that
nobody will read makes a reset, and only a reset does harm (`ResetInv`). What is left is
about bytes: an empty line in the buffer, or in the last chunk, stands at the same place
in the file (`WholeBuffer`, `WholeChunk`), so a thread that stopped with something
unread has met an empty line before the end, a full buffer, or a bare line end
(`StoppedUnread`); and a last read of two bytes, or of four and more, that reaches the
end of a file with an empty last line satisfies the scan, so only one or three are left.

`HttpResponseProofs`: types, `LengthKept`, `NeverBeyondAnnounced` (no byte more than
announced of an unchanged file), `ResumedInOrder`, `CompleteIsWhole`. `BodyInv` is the
heart: wire, the unwritten rest of the buffer and the file position are consecutive
bytes from the range start on. `HeadInv` says what the header was computed from,
`FileInv` how far reading has come in an unchanged file, `ResumeInv` what earlier
connections have left with the client.

`SimpleRecvProofs`: `ReturnsWhole`, `NoFillingLeft` (an exception leaves no filling either)
and the refinement of `Delivery`. `RecvInv`: while a read is possible the string is
as long as its capacity and has room for two more bytes (so 0 means end of file),
and its first `dataRead` bytes are those of the stream.

`EchoServerProofs`: both invariants of the run and the refinement. `BytesInv`: the
buffer goes on where the echo ends and both together are what was read; `StageInv`:
the buffer is empty but for the write loop; `PeerInv`: why a client was reset.

`ServerProofs`, second part: the steps of `Server` are steps of `Sockets`, so the invariant of
the first part holds of the programs; on top of it `ObjectsFitTheCalls`,
`ServesOwnConnection`, `DescriptorsAccounted`, `MainNeverWaitsForGoodbye`, and `NeverNullSSL` (the
`ConnectSocket` that would use a null SSL is never given a context). `ServerInv` lists
what each of main's and the threads' objects holds at each point of the program; it
is preserved because a step of `Sockets` on one object leaves all others as they are
(`FrameOne`, which needs unique ownership).

`MuxerProofs`: `InterleavedClosely` and `FileIsWhole`, for all rates, frame sizes,
durations and delays. `CountInv`: what was generated is written or held; `LimitInv`:
no generator goes past the duration by a frame; `EndInv`: a stream that is over is
complete and its encoder empty.

Only model-checked: the liveness properties `EveryCommandAnswered`,
`GoneClientEndsSession`, `OwnClientServed`, `AnswerEnds`, `EchoReturns`, `WellFormedServed`,
`SendingEnds`, `MainComesBack` and `Terminates`: the prover has no fairness. The two
violations are TLC's as well.

## What is left out

* A command cut in two by a read, NUL bytes, and the overlong words that `sscanf`
  copies unbounded: the FTP messages are whole commands.
* The `select` branch of `getMessage`: no caller passes a timeout that reaches it.
* Which OpenSSL error is reported: all end in an exception. The set-up calls of
  `SSLCtx` and the key and certificate that `sserver.cpp` generates.
* Interrupted system calls: a failed `::close`, and `EINTR` in `accept`.
* Contents of files, directories and headers; the text of a request path, of which only
  what it leads to is kept (so that `substr(uriPos-1)` loses the path of a request with
  a query is in the model as an answer of 404, not as a failure); log output; the `Date` line, whose
  `asctime` buffer the threads share.
* Pixels, samples and FFmpeg's own work in the muxer.
* `ProtocolMuxer`, which `muxServer.cpp` includes and the repository does not have;
  its accept loop is that of `server.cpp`.
* `main.cpp`, `Person`, `Elevator` and `vimtest.cpp`: exercises that no other part
  uses.

## Plan

The modules were written in the order of the table: socket ownership first, since
every other part stands on it, then the FTP session, which has the most state, the
two halves of HTTP and their composition, the accept loops on top of `Sockets`, and
the stand-alone programs. All components with state of their own are modelled.
Every invariant, action property and refinement that a passing run checks is proved
for all sizes. What could come next is TLS in `HttpExchange`, where a record and not a
byte is the unit of a read, and a server whose threads are those of `HttpResponse`, to
relate the wait for a goodbye to the number of descriptors that are left.
