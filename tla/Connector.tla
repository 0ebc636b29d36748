------------------------------ MODULE Connector ------------------------------
(***************************************************************************)
(* The library's front, class Connector in f_connector.cpp, and host names *)
(* behind it: DnsService and DnsProtocolProcess, base/dns/f_dns_service.cpp*)
(* and ConnectorDns, base/dns/f_connector_dns.cpp.  A Connect by name adds *)
(* a second, UDP, socket to the same engine; what its handler hears leads  *)
(* back into Connector by the number of the socket that asked.             *)
(*                                                                         *)
(* The engine's passes are Engine's: the two locks of mutex_, the          *)
(* comparisons, the early ends.  What they do to a connection is taken     *)
(* together as "serve", and here one that is asked for may come about,     *)
(* which Engine.NothingServed denies: what is behind a connected lookup is *)
(* code of this component.                                                 *)
(*                                                                         *)
(* init_, engine_ and dns_ are plain statics: the application calls from   *)
(* one thread, handlers from the engine's.  The calls of several threads   *)
(* into one running engine are Engine's subject.                           *)
(***************************************************************************)
EXTENDS DnsProtocol, FiniteSets

CONSTANTS
  kDnsRequestLen, (* the room for a query                                   *)
  MaxSockets,  (* bound: sockets of one engine                              *)
  MaxLives,    (* bound: successful calls of Start                          *)
  MutexKinds,  (* what the second lock may do: "normal" blocks for ever,    *)
               (* "recursive" counts; one that ends the process is Engine's *)
  Addresses,   (* the words of Files that IpValid takes                     *)
  DnsInit      (* DnsService::init_, FALSE from the constructor on; TRUE    *)
               (* for a run of what GetAddrInfo has behind its test         *)

ASSUME ConnectorAssumption ==
  /\ MaxSockets \in Nat /\ MaxLives \in Nat
  /\ DnsInit \in BOOLEAN /\ kDnsRequestLen \in Nat
  /\ MutexKinds \subseteq {"normal", "recursive"}
  /\ "223.5.5.5" \in Addresses

Ids == 1 .. MaxSockets
Threads == {"app", "engine"}

VARIABLES
  init,      (* Connector::init_                                            *)
  engine,    (* what engine_ points to                                      *)
  life,      (* how many engines there were                                 *)
  stopping,  (* the application is in Stop; running_ is FALSE               *)
  lastId,    (* Engine::fd_                                                 *)
  sockets,   (* Engine::sockets_, by number                                 *)
  sock,      (* the Socket objects of this engine and their handlers        *)
  mutex,     (* the build's kind of mutex; never changes                    *)
  locked,    (* whether the engine thread holds mutex_ from a pass on       *)
  server,    (* whether name_service_[0] is an address IpValid takes        *)
  pc,        (* where the engine thread is                                  *)
  todo,      (* sockets the scan has still to visit                         *)
  probe,     (* which comparison of the scan is next                        *)
  reaping,   (* its local map of sockets to disconnect                      *)
  callback,  (* the handler's method it is in                               *)
  call       (* the Connector call each thread is in                        *)

scanVars == <<todo, probe>>
engineVars == <<lastId, sockets, reaping, locked, scanVars>>
lifeVars == <<init, engine, life, stopping, mutex, server>>
vars == <<lifeVars, engineVars, sock, pc, callback, call>>

(* A socket and its handler: on_result_ and the socket that asked are of a *)
(* lookup's; results, and whether the handler has heard OnConnect (met)    *)
(* and OnDisconnect (told), are history; answer is a datagram to be read.  *)
Nobody == [kind |-> "none", status |-> "INIT", target |-> 0, on_result |-> FALSE,
           results |-> 0, met |-> FALSE, told |-> FALSE, answer |-> FALSE]

NoCallback == [of |-> 0, what |-> "none"]
NoCall == [at |-> "none", id |-> 0]

(* The comparisons of the scan in their order; CONNECTING counts as        *)
(* START_CONNECT, after which it is compared and like which it is sorted.  *)
Compared == <<"INIT", "START_CONNECT", "CONNECTED", "DISCONNECTED">>
Statuses == {"INIT", "START_CONNECT", "CONNECTED", "DISCONNECTED"}

PCs == {"none", "scan", "idle", "sort", "reap", "serve", "exit", "sweep", "done", "hung"}
Methods == {"none", "OnConnect", "OnData", "OnDisconnect"}

Objects == [kind : {"none", "user", "lookup"}, status : Statuses,
            target : 0 .. MaxSockets, on_result : BOOLEAN, results : Nat,
            met : BOOLEAN, told : BOOLEAN, answer : BOOLEAN]

Stages == {"none", "add", "queryConnect", "connect", "start", "lookup",
           "queryClose", "close", "querySend", "send"}

Calls == [at : Stages, id : 0 .. MaxSockets]

TypeOK ==
  /\ init \in BOOLEAN /\ stopping \in BOOLEAN
  /\ engine \in {"none", "alive", "deleted"} /\ life \in 0 .. MaxLives
  /\ lastId \in 0 .. MaxSockets /\ sockets \subseteq 1 .. lastId
  /\ sock \in [Ids -> Objects]
  /\ mutex \in MutexKinds /\ locked \in BOOLEAN /\ server \in BOOLEAN
  /\ pc \in PCs
  /\ todo \subseteq 1 .. lastId /\ probe \in 1 .. 4
  /\ reaping \subseteq 1 .. lastId
  /\ callback \in [of : 0 .. MaxSockets, what : Methods]
  /\ call \in [Threads -> Calls]

Init ==
  /\ init = FALSE /\ engine = "none" /\ life = 0 /\ stopping = FALSE
  /\ mutex \in MutexKinds /\ locked = FALSE /\ server = FALSE
  /\ lastId = 0 /\ sockets = {} /\ reaping = {} /\ todo = {} /\ probe = 1
  /\ sock = [i \in Ids |-> Nobody]
  /\ pc = "none" /\ callback = NoCallback
  /\ call = [t \in Threads |-> NoCall]

GoTo(t, stage, i) == call' = [call EXCEPT ![t] = [at |-> stage, id |-> i]]
EndCall(t) == call' = [call EXCEPT ![t] = NoCall]
SetStatus(i, s) == sock' = [sock EXCEPT ![i].status = s]

-----------------------------------------------------------------------------
(* Connector::Start and Stop.  Start reads a resolv.conf.                  *)

Servers == {NameService(file)[1] : file \in Files}

AppIdle == call["app"] = NoCall /\ ~stopping

Start ==
  /\ AppIdle /\ ~init /\ life < MaxLives
  /\ init' = TRUE /\ engine' = "alive" /\ life' = life + 1
  /\ \E name \in Servers : server' = (name \in Addresses)
  /\ lastId' = 0 /\ sockets' = {} /\ reaping' = {} /\ todo' = {} /\ probe' = 1
  /\ locked' = FALSE
  /\ sock' = [i \in Ids |-> Nobody]
  /\ pc' = "scan"
  /\ UNCHANGED <<stopping, mutex, callback, call>>

StopBegin ==
  /\ AppIdle /\ init
  /\ stopping' = TRUE
  /\ UNCHANGED <<init, engine, life, mutex, server, engineVars, sock, pc, callback, call>>

(* Thread::Stop waits for quit_; only then engine_ and dns_ are deleted.   *)
(* Mutant: Stop only says it.                                              *)
Quit_Any == TRUE
Quit == pc = "done"

StopEnd ==
  /\ stopping /\ Quit
  /\ engine' = "deleted" /\ init' = FALSE /\ stopping' = FALSE
  /\ UNCHANGED <<life, mutex, server, engineVars, sock, pc, callback, call>>

-----------------------------------------------------------------------------
(* Create, Connect, Close and Send, by the application with the numbers    *)
(* Create has returned, and by its handlers.  The first step tests init_.  *)

Users == {i \in 1 .. lastId : sock[i].kind = "user"}

MayCall(t) ==
  /\ init /\ call[t] = NoCall
  /\ IF t = "app" THEN ~stopping ELSE callback.of \in Users

Begin(t) ==
  /\ MayCall(t)
  /\ \/ GoTo(t, "add", 0)
     \/ \E i \in Users, stage \in {"queryConnect", "lookup", "queryClose", "querySend"} :
          GoTo(t, stage, i)
  /\ UNCHANGED <<lifeVars, engineVars, sock, pc, callback>>

(* Add and Query lock mutex_, which a thread that holds it may if it is    *)
(* recursive, and which never holds the "normal" one and calls.            *)
Free(t) == ~locked \/ (t = "engine" /\ mutex = "recursive")

(* Engine::Add of a new socket, numbered ++fd_.  Mutant: fd_++.            *)
NewNumber_Old == lastId
NewNumber == lastId + 1

Add(t, new) ==
  /\ Free(t) /\ lastId < MaxSockets
  /\ lastId' = lastId + 1 /\ sockets' = sockets \cup {NewNumber}
  /\ sock' = [sock EXCEPT ![NewNumber] = new]
  /\ UNCHANGED <<reaping, locked, scanVars>>

Create(t) ==
  /\ call[t].at = "add"
  /\ Add(t, [Nobody EXCEPT !.kind = "user"])
  /\ EndCall(t)
  /\ UNCHANGED <<lifeVars, pc, callback>>

(* Engine::Query.                                                          *)
Found(stage) == CASE stage = "queryConnect" -> "connect"
                  [] stage = "queryClose"   -> "close"
                  [] stage = "querySend"    -> "send"

Query(t) ==
  /\ call[t].at \in {"queryConnect", "queryClose", "querySend"} /\ Free(t)
  /\ IF call[t].id \in sockets THEN GoTo(t, Found(call[t].at), call[t].id) ELSE EndCall(t)
  /\ UNCHANGED <<lifeVars, engineVars, sock, pc, callback>>

(* Socket::Connect reads status_ and writes it.                            *)
Connect(t) ==
  /\ call[t].at = "connect"
  /\ IF sock[call[t].id].status = "INIT" THEN GoTo(t, "start", call[t].id) ELSE EndCall(t)
  /\ UNCHANGED <<lifeVars, engineVars, sock, pc, callback>>

StartConnect(t) ==
  /\ call[t].at = "start"
  /\ SetStatus(call[t].id, "START_CONNECT")
  /\ EndCall(t)
  /\ UNCHANGED <<lifeVars, engineVars, pc, callback>>

Close(t) ==
  /\ call[t].at = "close"
  /\ SetStatus(call[t].id, "DISCONNECTED")
  /\ EndCall(t)
  /\ UNCHANGED <<lifeVars, engineVars, pc, callback>>

(* Transmission::Send: bytes for send_, which do not matter here.          *)
Send(t) ==
  /\ call[t].at = "send"
  /\ EndCall(t)
  /\ UNCHANGED <<lifeVars, engineVars, sock, pc, callback>>

(* DnsService::GetAddrInfo: the UDP socket is told to connect before it is *)
(* added, which it does only if the server's address is one: the lookup    *)
(* stays in INIT otherwise.  Nobody looks whether the asking socket still  *)
(* exists.                                                                 *)
GetAddrInfo(t) ==
  /\ call[t].at = "lookup"
  /\ IF DnsInit
     THEN Add(t, [Nobody EXCEPT !.kind = "lookup", !.target = call[t].id,
                                !.status = IF server THEN "START_CONNECT" ELSE "INIT"])
     ELSE UNCHANGED <<engineVars, sock>>
  /\ EndCall(t)
  /\ UNCHANGED <<lifeVars, pc, callback>>

(* A call that would exceed the bound of sockets ends without an effect.   *)
OutOfSockets(t) ==
  /\ call[t].at = "add" \/ (call[t].at = "lookup" /\ DnsInit)
  /\ Free(t) /\ lastId = MaxSockets
  /\ EndCall(t)
  /\ UNCHANGED <<lifeVars, engineVars, sock, pc, callback>>

CallStep(t) ==
  \/ Create(t) \/ Query(t) \/ Connect(t) \/ StartConnect(t) \/ Close(t)
  \/ Send(t) \/ GetAddrInfo(t) \/ OutOfSockets(t)

-----------------------------------------------------------------------------
(* The handler of a lookup.  OnResult is ConnectorDns's: an address goes   *)
(* to connectIp, which looks at its text again, an error to Close.         *)
(* Mutant: an error is dropped.                                            *)

Verdict(answer) ==
  LET result == ResponseParse(answer)
  IN  IF result.ret = "ok" /\ ~IpValid(intToStr(result.ip)) THEN "refused" ELSE result.ret

Verdicts == {Verdict(answer) : answer \in Answers}

(* Whether the queries fit; one that is longer than the room has been      *)
(* written behind it by then, which no instance reaches.                   *)
Fits == {Len(RequestConstruct(name)) < kDnsRequestLen : name \in Names}

OnResult_Drops(l, r) ==
  IF r = "ok" THEN GoTo("engine", "queryConnect", sock[l].target) ELSE UNCHANGED call

OnResult(l, r) ==
  CASE r = "ok"      -> GoTo("engine", "queryConnect", sock[l].target)
    [] r = "failed"  -> GoTo("engine", "queryClose", sock[l].target)
    [] r = "refused" -> UNCHANGED call

(* Who sets on_result_.  Mutant: OnData does not.                          *)
Marks_Never(l) == sock[l].on_result
Marks(l) == TRUE

In(i, what) == callback' = [of |-> i, what |-> what]

(* DnsProtocolProcess::OnConnect sends the query, or, if the name does not *)
(* fit, closes its socket and reports the failure.                         *)
LookupOnConnect(l) ==
  \/ /\ TRUE \in Fits
     /\ sock' = [sock EXCEPT ![l].status = "CONNECTED", ![l].met = TRUE]
     /\ UNCHANGED call
  \/ /\ FALSE \in Fits
     /\ sock' = [sock EXCEPT ![l].status = "DISCONNECTED", ![l].met = TRUE,
                             ![l].on_result = TRUE, ![l].results = @ + 1]
     /\ OnResult(l, "failed")

(* OnData: any datagram is the answer; the socket is closed when OnResult  *)
(* returns.                                                                *)
LookupOnData(l) ==
  /\ sock' = [sock EXCEPT ![l].on_result = Marks(l), ![l].results = @ + 1,
                          ![l].answer = FALSE]
  /\ \E r \in Verdicts \ {"endless"} : OnResult(l, r)

(* OnDisconnect reports a failure unless there was a result.  Mutant: it   *)
(* does not.                                                               *)
Reports_Never(l) == FALSE
Reports(l) == ~sock[l].on_result

LookupOnDisconnect(l, status) ==
  IF Reports(l)
  THEN /\ sock' = [sock EXCEPT ![l].status = status, ![l].told = TRUE,
                               ![l].results = @ + 1]
       /\ OnResult(l, "failed")
  ELSE /\ sock' = [sock EXCEPT ![l].status = status, ![l].told = TRUE]
       /\ UNCHANGED call

-----------------------------------------------------------------------------
(* The engine thread.                                                      *)

First(S, i) == i \in S /\ \A j \in S : i <= j
Lookup(i) == sock[i].kind = "lookup"

(* The loop of Thread::thread.  Mutant: it does not read running_.         *)
Running_Ignored == TRUE
Running == ~stopping

(* readThread with no socket: Dispatch sleeps or, on epoll always, fails.  *)
Idle ==
  /\ pc = "scan" /\ Running /\ sockets = {}
  /\ pc' = "idle"
  /\ UNCHANGED <<lifeVars, engineVars, sock, callback, call>>

IdleDispatch ==
  /\ pc = "idle"
  /\ pc' \in {"scan", "exit"}
  /\ UNCHANGED <<lifeVars, engineVars, sock, callback, call>>

(* With one, mutex_ is locked, and locked again.  One of the two locks is  *)
(* never given back.                                                       *)
LockTwice ==
  /\ pc = "scan" /\ Running /\ sockets # {}
  /\ locked' = TRUE
  /\ IF mutex = "normal" THEN pc' = "hung" /\ UNCHANGED scanVars
                         ELSE pc' = "sort" /\ todo' = sockets /\ probe' = 1
  /\ UNCHANGED <<lifeVars, lastId, sockets, reaping, sock, callback, call>>

(* The scan, as in Engine: a comparison that fails, ...                    *)
NextComparison ==
  /\ pc = "sort" /\ probe < 4
  /\ \E i \in todo : First(todo, i) /\ sock[i].status # Compared[probe]
  /\ probe' = probe + 1
  /\ UNCHANGED <<lifeVars, lastId, sockets, reaping, locked, todo, sock, pc, callback, call>>

(* ... one that holds, which takes a DISCONNECTED socket out of the map,   *)
Classify ==
  /\ pc = "sort"
  /\ \E i \in todo :
       LET closed == IF sock[i].status = "DISCONNECTED" THEN {i} ELSE {}
       IN  /\ First(todo, i) /\ sock[i].status = Compared[probe]
           /\ todo' = todo \ {i}
           /\ sockets' = sockets \ closed /\ reaping' = reaping \cup closed
  /\ probe' = 1
  /\ UNCHANGED <<lifeVars, lastId, locked, sock, pc, callback, call>>

(* ... and the last one failing: the local maps are lost, the thread ends. *)
FallThrough ==
  /\ pc = "sort" /\ probe = 4
  /\ \E i \in todo : First(todo, i) /\ sock[i].status # Compared[probe]
  /\ reaping' = {} /\ todo' = {} /\ probe' = 1
  /\ pc' = "exit"
  /\ UNCHANGED <<lifeVars, lastId, sockets, locked, sock, callback, call>>

ScanDone ==
  /\ pc = "sort" /\ todo = {}
  /\ pc' = "reap"
  /\ UNCHANGED <<lifeVars, engineVars, sock, callback, call>>

(* afterThread takes all that is in the map, after Stop or a failure of    *)
(* readThread.                                                             *)
Exit ==
  /\ pc = "exit" \/ (pc = "scan" /\ ~Running)
  /\ reaping' = sockets /\ sockets' = {}
  /\ pc' = "sweep"
  /\ UNCHANGED <<lifeVars, lastId, locked, scanVars, sock, callback, call>>

Disconnect ==
  /\ pc \in {"reap", "sweep"} /\ callback = NoCallback
  /\ \E i \in reaping :
       /\ First(reaping, i)
       /\ In(i, "OnDisconnect")
       /\ LET status == IF pc = "sweep" THEN "DISCONNECTED" ELSE sock[i].status
          IN  IF Lookup(i)
              THEN LookupOnDisconnect(i, status)
              ELSE sock' = [sock EXCEPT ![i].status = status, ![i].told = TRUE]
                   /\ UNCHANGED call
  /\ UNCHANGED <<lifeVars, engineVars, pc>>

ReapDone ==
  /\ pc \in {"reap", "sweep"} /\ reaping = {} /\ callback = NoCallback
  /\ pc' = IF pc = "reap" THEN "serve" ELSE "done"
  /\ UNCHANGED <<lifeVars, engineVars, sock, callback, call>>

(* connect() ends, once for a socket.  RealConnect may overwrite a Close.  *)
Connected ==
  /\ pc = "serve" /\ callback = NoCallback
  /\ \E i \in sockets :
       /\ sock[i].status \in {"START_CONNECT", "DISCONNECTED"} /\ ~sock[i].met
       /\ In(i, "OnConnect")
       /\ IF Lookup(i) THEN LookupOnConnect(i)
                       ELSE sock' = [sock EXCEPT ![i].status = "CONNECTED", ![i].met = TRUE]
                            /\ UNCHANGED call
  /\ UNCHANGED <<lifeVars, engineVars, pc>>

(* connect() fails, or the connection is lost.                             *)
Lost ==
  /\ pc = "serve" /\ callback = NoCallback
  /\ \E i \in sockets :
       sock[i].status \in {"START_CONNECT", "CONNECTED"} /\ SetStatus(i, "DISCONNECTED")
  /\ UNCHANGED <<lifeVars, engineVars, pc, callback, call>>

Data ==
  /\ pc = "serve" /\ callback = NoCallback
  /\ \E l \in sockets :
       /\ Lookup(l) /\ sock[l].status = "CONNECTED" /\ sock[l].answer
       /\ In(l, "OnData")
       /\ LookupOnData(l)
  /\ UNCHANGED <<lifeVars, engineVars, pc>>

(* ResponseParse does not return.                                          *)
Endless ==
  /\ pc = "serve" /\ callback = NoCallback /\ "endless" \in Verdicts
  /\ \E l \in sockets :
       /\ Lookup(l) /\ sock[l].status = "CONNECTED" /\ sock[l].answer
       /\ In(l, "OnData")
  /\ pc' = "hung"
  /\ UNCHANGED <<lifeVars, engineVars, sock, call>>

(* A handler's method returns; a lookup's OnData closes its socket first.  *)
Return ==
  /\ callback # NoCallback /\ call["engine"] = NoCall /\ pc # "hung"
  /\ IF callback.what = "OnData" THEN SetStatus(callback.of, "DISCONNECTED")
                                 ELSE UNCHANGED sock
  /\ reaping' = reaping \ (IF callback.what = "OnDisconnect" THEN {callback.of} ELSE {})
  /\ callback' = NoCallback
  /\ UNCHANGED <<lifeVars, lastId, sockets, locked, scanVars, pc, call>>

(* The pass ends; or Dispatch, or FdCheck of one of the sockets, fails.    *)
PassDone ==
  /\ pc = "serve" /\ callback = NoCallback
  /\ pc' \in {"scan", "exit"}
  /\ UNCHANGED <<lifeVars, engineVars, sock, callback, call>>

(* The network: an answer arrives, late, again after the first, or never.  *)
Arrive ==
  /\ \E l \in 1 .. lastId :
       /\ Lookup(l) /\ sock[l].met /\ ~sock[l].told
       /\ sock' = [sock EXCEPT ![l].answer = TRUE]
  /\ UNCHANGED <<lifeVars, engineVars, pc, callback, call>>

-----------------------------------------------------------------------------
Scan == NextComparison \/ Classify \/ FallThrough \/ ScanDone

Pass == Idle \/ IdleDispatch \/ LockTwice \/ Scan \/ Exit
          \/ Disconnect \/ ReapDone \/ PassDone

Next ==
  \/ Start \/ StopBegin \/ StopEnd
  \/ \E t \in Threads : Begin(t) \/ CallStep(t)
  \/ Pass \/ Connected \/ Lost \/ Data \/ Endless \/ Return
  \/ Arrive

Spec == Init /\ [][Next]_vars

(* The engine thread runs and goes on to its next pass; calls and handlers *)
(* end; a Stop that may return does.                                       *)
FairSpec ==
  /\ Spec
  /\ WF_vars(Pass) /\ SF_vars(Return) /\ WF_vars(StopEnd)
  /\ \A t \in Threads : WF_vars(CallStep(t))

-----------------------------------------------------------------------------
(* Nobody is in, or on the way into, an engine that has been deleted: Stop *)
(* waits for the thread whose handlers may be in the middle of a call.     *)
NoUseAfterDelete ==
  engine = "deleted" =>
    pc = "done" /\ callback = NoCallback /\ \A t \in Threads : call[t] = NoCall

(* A lookup answers once, whichever of OnConnect, OnData, a second         *)
(* datagram and OnDisconnect come together, and it has answered when its   *)
(* socket has heard OnDisconnect.                                          *)
AnswersOnce ==
  \A l \in 1 .. lastId :
    Lookup(l) => sock[l].results <= 1 /\ (sock[l].told => sock[l].results = 1)

(* A lookup that has sent its query has asked for the whole name, each     *)
(* label behind its length, the first server resolv.conf names, or, if it  *)
(* names none, the one built in.                                           *)
QueriesNameHosts ==
  \A l \in 1 .. lastId : Lookup(l) /\ sock[l].status = "CONNECTED" => QueriesName

(* A lookup that has been answered found the first address in the answer,  *)
(* whatever name was asked and whatever records come before it, and in a   *)
(* text that connectIp takes; or a failure, if there was none.             *)
AnswersFound ==
  \A l \in 1 .. lastId : Lookup(l) /\ sock[l].results > 0 => AnswersLead

(* A socket does not wait for a lookup that has ended: its address came    *)
(* and it dials, or it has been closed.                                    *)
Waits(i, l) == i \in sockets /\ sock[i].status = "INIT"
               /\ sock[l].target = i /\ sock[l].results > 0
NobodyWaits == \A i, l \in Ids : Waits(i, l) ~> ~Waits(i, l)

(* Stop returns whatever handlers and lookups are in progress, unless the  *)
(* engine thread hangs, behind its own lock or in an answer it cannot walk *)
(* over.                                                                   *)
StopReturns == stopping ~> ~stopping \/ pc = "hung"

=============================================================================
