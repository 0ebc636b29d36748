# A TLA+ model of NetworkBase

NetworkBase (`src/src`) is a small asynchronous network library in C++: an application
creates numbered connections through static calls of `Connector`, one engine thread does the
I/O, and every connection's `SocketHandler` is called back from that thread. This directory
holds TLA+ modules of its engine, sockets, connections and buffers, TLC configurations that
check them on small instances, and TLAPS proofs for all values of the constants.
`PROJECT.json` maps every definition to the lines it models.

Run inside this directory: `tlc -config engine_safety.cfg MCEngine.tla` (the module of each
run is in `PROJECT.json`), `tlapm EngineProofs.tla`.

## 1. Inventory

| Part | State | Operations | Modelled in |
|---|---|---|---|
| `Connector` (`f_connector.cpp`) | statics `init_`, `engine_`, `dns_` | Start, Stop, Create, Connect, Close, Send | `Connector`; the calls of several threads in `Engine`; what Send sends in `Transmission` |
| `Engine` (`base/engine/f_engine.cpp`) | `fd_` (last number), `sockets_`, `mutex_` | Add, Query, readThread, afterThread, beforeStop | `Engine`; lines 138-163 in `Transmission` |
| `Thread` (`utils/system/f_thread.cpp`) | `running_`, `quit_` | Start, Stop, thread | `Engine` (one Start), `Connector` (restarts) |
| `Socket` (`base/transport/f_socket.cpp`) | `status_`, `fd_`, address, timeout | Connect, Close, RealConnect, RealDisconnect, RealRead, RealWrite, RealConnectCheck | `Socket`, `Engine`, `Transmission` |
| `Transmission` (`base/transport/f_transmission.cpp`) | buffers `send_`, `read_` | Send, OnConnect, OnDisconnect, OnRead, OnWrite | `Transmission` |
| `AutoGrowBuffer` (`utils/tool/f_auto_grow_buffer.cpp`) | block, length, two cursors, mutex | AddTailData, PopHeadData, GetSize, GetReallocLen | `AutoGrowBuffer` |
| `SocketHandler` (`f_socket_handler.h`) | the application's | OnConnect, OnDisconnect, OnData, OnWrite | `HandlerContract` |
| `IoMultiplexing` (`base/engine/f_io_multiplexing.cpp`) | table of descriptors, events | AddFd, DeleteFd, Dispatch, FdCheck | `IoMultiplexing`; what it answers without a descriptor in `Engine` |
| `TransmissionSecurity` (`base/transport/f_transmission_security.cpp`) | `init_`, `tls_read_`, `source_read_`, `source_send_` (`tls_send_` stays empty), mbedtls contexts | SetSecurityLicence, Send, OnRead, OnWrite, mbedtlsNetRecv, mbedtlsNetSend | `TransmissionSecurity` |
| `DnsService`, `ConnectorDns` (`base/dns`) | servers, one `DnsProtocolProcess` per query | Start, GetAddrInfo, OnConnect, OnData, OnDisconnect, OnResult | `Connector`, `DnsProtocol` |
| `DnsProtocol` | none | RequestConstruct, ResponseParse | `DnsProtocol` |
| `SocketPair` | two descriptors, `close_` | Start, Send, Readable, Stop, GetReadFd | `SocketPair`, `WakeUp` |
| `SocketAssistant` | none | IpValid, MakeNonBlock, ErrorWouldBlock, SocketFinishConnecting | `DnsProtocol`, `SocketPair`; the rest as results in `Transmission` |
| Log, Time | none | | not modelled: output and the clock |

How they interact. Application threads call `Connector`, which takes `mutex_` to find the
socket and then works on it without a lock: `status_` is shared with the engine thread and
read and written bare. The engine thread copies the map under `mutex_` into four local maps
by `status_`, then closes, dials and serves. Handlers run on the engine thread and may call
`Connector` themselves. `Send` and the engine thread meet in `send_`, under the buffer's
mutex. A host name goes through a second, UDP, connection of the same engine whose handler
calls back into `Connector`.

What is hard here: the interleaving of `status_` accesses; the double lock of `mutex_`; the
hand-over of sockets between the shared map, local maps and the sweep at thread exit; the
life of descriptors whose numbers the kernel reuses; partial reads and writes; FIN, reset
and SIGPIPE against data still buffered; Stop against a worker that hangs. `PROJECT.json`
lists every hazard at its line.

What makes each part correct: handlers hear OnConnect first, OnDisconnect once and last
(`HandlerContract`); no descriptor is closed for somebody else or leaked; every socket is
reported in the end; calls and Stop return; no byte is lost, doubled or reordered; data
received is shown, data sent is flushed, the end of a connection is noticed.

## 2. Modules

    HandlerContract  <--implements--  Engine  --EXTENDS-->  Socket
       ^                                 ^-- MCEngine, EngineProofs
       +--implements-- TransmissionSecurity  <-- SecurityProofs
    Transmission  <-- TransmissionProofs
         (the serving loop; TransmissionSecurity has it too, with mbedtls between)
    MCConnector --> Connector --EXTENDS--> DnsProtocol  <-- DnsProtocolProofs
         (with Engine's locks and scan, and its serving taken together)
    ConnectorProofs --> Connector, DnsProtocolProofs
    WakeUp --EXTENDS--> SocketPair --EXTENDS--> IoMultiplexing
       ^-- WakeUpProofs
    ByteQueue  <--implements--  AutoGrowBuffer  <-- MCAutoGrowBuffer, AutoGrowBufferProofs
    DataInduction  <-- DnsProtocolProofs, AutoGrowBufferProofs

**Socket** holds `status_`, `fd_` and the kernel's open descriptors, and the engine thread's
methods as operators. `RealConnect` is two steps, `RealConnectOpen` (lines 66-76) and
`RealConnectResult` (78-105), so that a Close can fall between its accesses to `status_`; the
`return` missing after line 69 is kept: a socket that is not in START_CONNECT is dialled.
`socket(2)` gives out the lowest free number, and fails when all are open.

**Engine** has one action per step of the engine thread (`pc`) and of a `Connector` call
(`call`). What the code does between two accesses to shared state is one action; what it
does under one lock of `mutex_` by an application thread is one action. Each comparison of
the scan reads `status_` anew (`NextComparison`, `Classify`, `FallThrough`).

| Code | Actions |
|---|---|
| `Thread::Start`, `Stop`, `thread` | Start; StopBegin, StopReturn; Loop, Quit |
| `readThread` 48-76 | FirstLock, IdleDispatch |
| 84-105 | Relock, NextComparison, Classify, FallThrough, ScanDone |
| 107-113 | ReportDisconnect (the callback), EndDisconnect (`close`), ReapDone |
| 115-136 | DialOpen, DialResult, DialDone |
| `afterThread` | Exit, ReportDisconnect and EndDisconnect in the sweep |
| `Create`, `Connect`, `Close` | Begin; Add; Query, Connect, StartConnect; Query, Close |

Three things the source leaves to the platform are constants:

- `MutexKinds`. Locking a `std::mutex` twice is undefined. POSIX lets the default mutex be
  any kind, so the model has the three outcomes a pthread build can produce: `normal`
  (glibc; blocks), `errorcheck` (throws out of the thread function: terminate) and
  `recursive` (counts; then line 105 leaves it held).
- `Backends`. With epoll, waiting for zero events fails (EINVAL); select sleeps, or is
  interrupted.
- `ConnectResults`. Line 96 passes `sizeof(sin) < 0`, that is 0, as the address length.
  Linux and the BSDs refuse it; POSIX does not forbid the rest, which `engine_safety`
  allows.

**Transmission** is one connection from `connect()` on: the engine's serving loop, `RealWrite`
and `RealRead` for a socket that is in the maps, against a peer and the kernels (external).
Because of line 92 the engine never gets there (`NothingServed`, proved as `NeverServes`); the
module says what that code does when it is run. RealWrite and RealRead look at `status_` twice, for
DISCONNECTED and then for CONNECTING, and each look is a step of its own (`RealWrite`,
`StillConnecting`; `RealRead`, `NotConnecting`): a Close between them passes for a connection, and
OnWrite or OnData come to a handler that has not heard OnConnect. That is why a connection does not
implement `HandlerContract`; what it does keep, OnConnect once, OnDisconnect last, and nothing before
OnConnect unless the socket had been closed, is `HeardInOrder`. Bytes are counted; their order is
`AutoGrowBuffer`'s property. The thread may end in or between passes (`ThreadEnds`), for a Stop or a Dispatch or
FdCheck that fails. A reset leaves arrived bytes readable, as on Linux; a `write()` after the peer's
FIN and reset raises SIGPIPE, which nothing ignores, and the process ends (`pc = "killed"`). The
comments at lines 155 and 158 of the engine both ask for reading first, and the code writes first: a
write that fails drops what had arrived. On a connection that lives on nothing is put off past
the pass (`ReadInPass`).

**TransmissionSecurity** is one TLS connection in the same serving loop. mbedtls is external and
modelled by how it is used: ssl_handshake writes a flight and waits for the peer's, records are
fetched header first, then body, each only when whole (`Complete`, `FetchRecord`, `FetchHeader`:
`mbedtlsNetRecv`); `NetSend` says that all went out when write() took a part, which makes the
stream `torn`. OnRead and OnWrite are the steps from pc "handshake" over "decrypt" and "show", or
"encrypt"; nobody else touches their state. A failed SetSecurityLicence is `init = FALSE`, which
Connector does not look at: OnConnect is heard and the connection ends. The handler hears OnData
even when nothing was decrypted (line 158), with no bytes. A Close between two tests of `status_`
leads into OnWrite or OnRead here as well, but no further than the handshake, which is not over by
then: this class does implement `HandlerContract`.

**Connector** is the library's front and name lookup behind it. Start, StopBegin and StopEnd
(which waits for `quit_`: `Quit`) bracket the life of one engine; the numbers restart with
the next. Create, Connect by address, Connect by name (`GetAddrInfo`, which adds a second, UDP,
socket) and Close are made by one application thread or by a handler (`Begin`, then one step
per access: `Query`, `Connect`, `StartConnect`, `Close`). A lookup's OnConnect, OnData and
OnDisconnect lead through `OnResult` to a Connect or Close of the socket that asked, by its
number. The engine's passes are as in Engine: with a socket in the map `mutex_` is locked twice
(`LockTwice`), which hangs the thread or leaves the mutex locked, so that an application's Query and
Add wait from then on (`Free`); the scan compares one status at a time and gives up when the last
comparison fails (`FallThrough`), which drops whom it had already taken out of the map; an idle
Dispatch may end the thread. What follows the scan is taken together as "serve": Connected, Lost and
Data, each handler hearing OnConnect at most once. There a connection may come about, which
`NothingServed` denies of today's engine: otherwise nothing behind a connected lookup would run.
`DnsInit` is `DnsService::init_`: the source leaves it FALSE, so that a Connect by name does nothing
(`f_dns_service.cpp:111`); the run sets it, to see what stands behind the test. A name server that is
no IPv4 address leaves the lookup in INIT (`server`, from `Start`'s reading of resolv.conf). An answer
that ResponseParse walks around in for ever hangs the thread (`Endless`). What a lookup
asks and what it makes of the answer is computed by **DnsProtocol**, with `Byte` as the signed char of x86: RequestConstruct, ResponseParse (with both walks bounded; one that does not
come to rest is "endless"), intToStr, IpValid and the reading of `/etc/resolv.conf` as lines of
words. Each loop is a recursive function of the number of its rounds, so that it can be reasoned
about. The name server is external: it repeats the question and answers with records that name
their owner by a pointer. Its datagrams are whole. What is claimed of a lookup is claimed of names
as the DNS has them (`HostName`: labels of 1 to 63 bytes) and of records the walk can skip
(`Skippable`: data shorter than 128 bytes, and of four only in an address).

**IoMultiplexing**, **SocketPair** and **WakeUp** are the wake-up pipe. IoMultiplexing and
SocketPair have one operator per method; WakeUp is the thread of `readThread` lines 53-76 that
waits in Dispatch and reads the pair, others that send a byte (Engine::Add, beforeStop), and a
connection whose descriptor comes and goes in the same table. Today no line calls
SocketPair::Start and AddFd is reached by none, so that in Engine the pair is always closed, and the
wake-up that the comments at `f_engine.cpp:28` and `:182` speak of does not happen. WakeUp makes both
steps that may or may not be taken (`Ask` is the caller of AddFd that the repository does not have),
and shows what the classes do then. A Start whose MakeNonBlock fails closes both ends again and is no
step; a socketpair() that fails passes the test after it, and what then happens to two numbers that
were never set is not followed. With epoll nothing changes: AddFd refuses when `epoll_create` worked, and fails when it did not. With
select the pair works, although Readable reads the end that Send writes to: nothing is ever
there, and the thread comes back because that end is the non-blocking one. It is then woken by
the same byte again and again. DeleteFd is given `GetFd() < 0`, so that a closed connection
stays in the table; select refuses it (EBADF) and the thread ends.

**AutoGrowBuffer** has the block itself, byte by byte, with moves, growth and the int overflow
of `1 << size_pow`; its abstract specification is **ByteQueue**. `GetReallocLen`'s loop is the
recursive function `SizePow`. What it is for, the power of two above the length, is
`LoopFindsThePower`: TLC evaluates it in `MCAutoGrowBuffer` up to 2^5, and it is proved for every
length. `LimitAssumption` relates kMaxLen (2^20) to the int.

**HandlerContract** is what `f_socket_handler.h` promises. Engine maps `lastId` and the history
of callbacks to its phases, TransmissionSecurity the last callback.

## 3. Runs and what they show

| Run | Instance | Result |
|---|---|---|
| `engine_safety` | 2 threads, handler calls, all mutexes, backends, outcomes; 2 sockets, 2 descriptors | 6 properties hold |
| `engine_single_caller` | 1 thread, recursive or blocking mutex, no handler calls, `connect` fails | 5 properties hold |
| `engine_calls_block` | Linux | violated: calls never return |
| `engine_none_lost` | 2 threads, recursive mutex | violated: a racing Connect loses reported-to-be sockets |
| `engine_listens` | 1 thread, recursive mutex, `connect` may be under way | violated: a pass does not listen to a connection under way (line 92) |
| `engine_idle` | Linux | violated: the thread ends in its first pass without a socket |
| `buffer` | blocks of 2-8 bytes, chunks of 1-3, a 5-bit int | 5 properties hold |
| `transmission` | cache 2, window 2, 4 bytes in, 3 out | 8 properties hold (306,075 states) |
| `transmission_data_stuck` | same | violated: a full last read is not shown |
| `connector` | 2 sockets, 2 lives of the engine, blocking or recursive mutex, lookups get past `init_`; 12 names, 57 answers, 259 files | 7 properties hold (253,350 states) |
| `security` | records of 3 bytes, header 1, cache 2, 2 pieces of data each way | 6 properties hold (234,363 states) |
| `wakeup` | 2 senders, descriptors 0-3, select and epoll | 3 properties hold |

The violated properties each quote a document or comment; `PROJECT.json` "findings" has them.

Bounds. Two sockets and two descriptors are enough for one to be reaped while the other is
dialled, for a number to be reused and for socket() to fail; each race needs two callers at
most, since a third adds no third access to one `status_`. `MaxDepth` caps the recursive
mutex's count: a pass adds two and gives one back, and depths from 3 up behave alike.
In `buffer`, `MinLen` < `MaxLen` and chunks up to `MaxLen - 1` reach all three branches of AddTailData at
their boundaries; the rejected chunk has `MaxLen + 1` bytes; a 5-bit int overflows at
2^4, the block for 8 bytes and more, so that the overflow happens. In `transmission`, four bytes in with a cache of two make reads that
are partial, full, and full twice; three bytes out with a window of two make partial writes
and a full window. In `security`, a cache of two and
records of three cut every record, at its header too, and let a read end on a full cache with
a record complete, or not. In `connector`, two sockets are
one that asks and its lookup, or two that call; a second life repeats the numbers. Two lookups
of one socket at once need a third socket, which is out of reach with liveness; they share
nothing but the socket they act on. Names of up to five characters have one to three labels;
a room of 23 bytes is one that the longest just does not fit. Answers of two records put every
kind before an address, with data of 3, 5, 16 and 127 bytes around the four that stop the walk
and up to the last length that is not negative, and of 244, over which it goes back to where it was;
files of three lines have a server on each, on none, a line without one, or an IPv6 server. In
`engine_listens` and `engine_idle` one thread and one socket are enough for the violation. In `wakeup`, four descriptors are the program's input, the pair and
a connection, so that the kernel gives the pair the numbers of a connection that was closed;
two bytes fill the pair. Standard input is open, and socketpair() has descriptors to give. Identical application threads are symmetric in `engine_safety`, which
checks no liveness. Deadlock checking is off where the system really may stop: the engine
thread hangs or ends, a killed process, a buffer whose allocation failed.

`NoLeak` and `NoneLost` are run, and proved, with one caller on purpose: with two, a Connect that wrote
late makes the engine dial a socket twice (a descriptor is leaked) or drop its maps
(`engine_none_lost`). Likewise a connect() that succeeds is dialled again at once (line 92)
and leaks. A Close that falls between the second test of `RealWrite` and line 190 is overwritten:
`Transmission` has the step (`Connected`), and `CloseReported` starts from a Close that is visible after
OnConnect.

Fairness. The scheduler runs a thread that can run: weak fairness of the worker's and of each
call's steps. An application thread waiting for `mutex_` gets it if it stays free (weak: no
queue is promised). A handler may make call after call, but returns: strong fairness of
`EndDisconnect`. In Transmission the engine thread is weakly fair (it is the only user of
its descriptor), and a peer that is there reads; the application and the peer's sends are
free. In Connector the engine thread is weakly fair and so is each call; a handler returns
(strong: it may call in between); the network owes nothing. `StopReturns` there leaves out a thread
that hangs, behind the second lock or in an endless answer, and nothing else: on Linux, where every
pass with a socket hangs, it is about Stops before the first one; `NobodyWaits`, like
`RequestAnswered` in Engine, is about the recursive mutex, as far as it is about a pass at all. In TransmissionSecurity a peer that
is there answers and its bytes arrive, and the socket is writable again and again (strong: a
pass may find it full). In WakeUp the waiting thread and a Send that has passed its test are
weakly fair; the rest, a signal too, may happen or not.

## 4. Proofs

`EngineProofs`: for any threads, sockets, descriptors and platform. TypeOK and the safety
properties are not inductive: that no handler is told twice needs to know that what is to be
reported has left the map, that the map and the local maps hold no foreign number, and that
the mutex is deep enough for an unlock. `IInv` adds `Maps` (which local map holds what at which
`pc`), `Holds` (how deep the worker holds `mutex_`), `Told`, `Owned`. One lemma per action proves
`IInv /\ Action => IInv'`; `Invariance` puts them together; the invariants follow, and the action
properties `MutexNeverReleased`, `NoDialAfterDisconnect` and the refinement of `HandlerContract`
use it step by step. Assumptions: `SocketAssumption`, `EngineAssumption`, both on constants.
Two theorems have a hypothesis more. `NothingLost` is for one thread that calls, and none of the
calls in a handler (`SingleCaller`; both constants are free otherwise, and the hypothesis is
what `engine_single_caller` has): then no Connect can write between two comparisons of the scan,
and the status a comparison is about is still ahead of the scan (`SingleInv`). `NothingLeaks` also
takes `AlwaysFails`, connect() failing, which it does on Linux because of line 96 of
`f_socket.cpp`: then a socket is dialled once, and a dial never overwrites an open descriptor
(`DialledOnce`).

`AutoGrowBufferProofs`: `Sound == TypeOK /\ InBounds` is inductive. Each branch of AddTailData is
shown to append to `Content` and PopHeadData to cut its head (`AddKeeps`, `PopKeeps`), which gives
the refinement of `ByteQueue`. The loop of GetReallocLen is shown to find the power of two above
any length (`LoopBrackets`, by induction over the length); `GrowthTight` rests on it. So does
`Limited`, that the block is never longer than an int can say and that a buffer that has died
needed more: hence `DiesOnlyHuge`, and that no shift passes the sign bit, whatever the buffer holds
(`NoShiftUndefined`). Assumptions: `BufferAssumption`, `LimitAssumption`.

`DataInduction` is what the loops need. The library's induction theorems take an operator, which
the provers cannot instantiate; its lemmas take the set of the numbers a statement holds of, and
show that a set closed under the next number, or from all smaller ones, is all of Nat.
A recursive function means what it says only if a function with its equation exists:
`RecursionWorks`, `LoopWorks` and `WalkWorks` show that for a recursion to any smaller number, for
a loop and for a walk over positions. The powers of two are there too, from the number of subsets.

`DnsProtocolProofs`: for names, answers and files of any length. What RequestConstruct writes is
the question (`RequestAsks`), by an invariant of its loop: after each round the bytes written are
the question up to the last dot. Each walk of ResponseParse is shown to rest before its bound:
over the question at its last zero (`NameWalkStops`), over the records at the first address, or
behind the end if there is none (`RecordWalkStops`); an answer therefore leads to its first address
or to a failure (`AnswerLeads`). The text made of an address is taken by IpValid and says its bytes
(`TextSays`: the fields of the text are the four decimals, and the number of a decimal is the byte).
The server asked is the first one the file names (`FirstServerAsked`). Hypotheses: `HostName`,
`Skippable`. Without them the walks do go wrong (section 5); `EveryParseEnds` shows
that under them no answer is endless, so that Connector's `Endless` does not happen.
Assumption: `DnsProtocolAssumption`.

`TransmissionProofs`: `TInv` adds to the four invariants of the run `Heard`, what the handler can
have heard at each `pc` and `status_`, where a step behind the second test says only that there was an
OnConnect or a Close, and `Ahead`, that a pass that writes has its reading still before it and that what was
there when it polled still is. There is one lemma per action. `HeardInOrder` is shown step by step
from `Heard` (`CalledInOrder`). That a read of a whole cache keeps whole caches is the arithmetic
lemma `AddWhole`. Assumption: `TransmissionAssumption`.

`ConnectorProofs`: for any number of sockets and lives of the engine, any names, answers and
resolv.conf. That nobody uses a deleted engine and that a lookup answers once are not inductive.
`CInv` adds `Lives` (when there is an engine and who can be in it), `Callbacks` (what the socket of
the callback in progress has been through), `Owes` (a socket is not in the map and in the thread's at
once, who has been told is in neither but for the one being told, and only the scan has any to
visit; that everybody is told in the end is not claimed, since FallThrough drops some), `Answered` (a lookup's count follows from `on_result_` and from its OnDisconnect,
and one that is connected has not answered) and `Callers` (a call is about a socket of the
application, never about a lookup's own: without it a Close of a lookup's number could go round
`OnResult`). There is one lemma per action; the callbacks, which also lead through `OnResult`, are
shown socket by socket. Assumptions: `ConnectorAssumption`, which is about kinds of mutexes, the
bounds and the built-in server, and `DnsProtocolAssumption`. What a lookup asks and what its answer leads to (`QueriesNameHosts`, `AnswersFound`)
comes from `DnsProtocolProofs`.

`WakeUpProofs`: for any senders and descriptors, in the select and the epoll build. `WInv` adds
`Ends` (the ends of the pair are open and nobody else's, and only descriptor 0 and `wakeup_in` are
ever made non-blocking), `Bytes` (a byte waits only at an end of an open pair) and `Seen`
(what Dispatch's result means to a thread that has not looked yet; epoll's table is always empty).
That a reused descriptor number is never taken for the pair's end is what `Ends` is for. Assumptions:
`IoMultiplexingAssumption`, `SocketPairAssumption`.

`SecurityProofs`: for any size of cache, header and record and any number of records. All four
invariants of the run are proved together as `SInv`, with `Behind` (mbedtls is entered with a licence
only, and `decrypt`, `show` and `encrypt` are reached behind the handshake), `Ordered` (data comes
behind the peer's `finished`: without it the handshake could drop data as a wrong record) and
`Waits` (`since` is a number of caches, and a whole record waits outside of OnRead only when it is
not 0). That a sequence's data can be counted while records are appended and taken is a lemma on
finite sets, by a bijection. That it implements `HandlerContract` (`Implementation`) rests on
`Unheard`, invariant beside `SInv`: OnWrite and OnRead are entered before OnConnect only for a socket
closed between two tests of `status_`, once, and the handshake does not end there, since a peer that
has not heard the hello has sent nothing but an alert. Assumption: `SecurityAssumption`.

Only model-checked: all liveness (RequestAnswered, ExitReports, StopReturns,
SendsFlushed, CloseReported, EndNoticed, NobodyWaits, HandshakeEnds, WakeUpArrives), which needs
fairness and ENABLED. Every other property of a passing run is proved; NoLeak and NoneLost under the
hypotheses above, since without them they are false. Proved and not run: `NeverServes` (no pass reaches
the Dispatch for sockets, which is what line 92 comes to in the end), `NeverDials` (without a
recursive mutex no descriptor is opened), `NoShiftUndefined` and `EveryParseEnds`.

## 5. Not modelled, and the plan

Out of scope: Log and Time, the mbedtls library, socket options, addresses and ports.
`Socket::timeout_ms_` is stored and read by nobody, and so is the time a lookup leaves over.
A second application thread that calls while the first is in Stop: nothing synchronises
`init_` and `engine_`, and no document promises it. Datagrams cut short, records of 128 bytes
and more, names with empty labels or labels above 63 bytes, and queries longer than their room: ResponseParse and
RequestConstruct read and write outside of what they were given, and nothing says what should
come of it.

Next, in this order:

1. Engine's dialling and descriptors in `Connector`, which has its locks and its scan: then each life
   of an engine would be a behaviour of Engine, with a serving part that is reached.
2. close_notify, which makes OnRead drop what it has decrypted (line 148 of
   `TransmissionSecurity`), and the torn record, as properties.
