------------------------------- MODULE Engine -------------------------------
(***************************************************************************)
(* The network engine, class Engine in base/engine/f_engine.cpp, on its    *)
(* base class Thread, utils/system/f_thread.cpp: one worker thread runs    *)
(* readThread until told to stop; application threads create, connect and  *)
(* close sockets through Connector's calls.  Handlers run on the worker    *)
(* and may make the same calls from OnDisconnect.                          *)
(*                                                                         *)
(* readThread locks mutex_, finds a socket and locks mutex_ a second time. *)
(* For std::mutex that is undefined; `build' holds what the build's mutex  *)
(* makes of it: "normal" blocks for ever, "errorcheck" throws through the  *)
(* thread function (std::terminate), "recursive" counts.                   *)
(***************************************************************************)
EXTENDS Socket, FiniteSets

CONSTANTS
  Users,        (* the application's threads                               *)
  Worker,       (* the engine's thread                                     *)
  HandlerCalls, (* whether handlers make calls from OnDisconnect           *)
  MutexKinds,   (* kinds of mutex a run considers                          *)
  Backends,     (* IoMultiplexing builds a run considers                   *)
  MaxDepth      (* bound: deeper holds of a recursive mutex count as this  *)

ASSUME EngineAssumption ==
  /\ Worker \notin Users
  /\ HandlerCalls \in BOOLEAN
  /\ MutexKinds \subseteq {"normal", "errorcheck", "recursive"}
  /\ Backends \subseteq {"epoll", "select"}
  /\ MaxDepth \in Nat /\ MaxDepth >= 3

Threads == Users \cup {Worker}

(* The four local maps readThread sorts the sockets into.                  *)
Buckets == {"start_connect", "connecting", "connected", "disconnect"}
NoBuckets == [b \in Buckets |-> {}]

(* The comparisons of the scan, in the order the code makes them.  Each    *)
(* one reads status_ anew.                                                 *)
Compared == <<"INIT", "START_CONNECT", "CONNECTING", "CONNECTED", "DISCONNECTED">>

(* Where a socket is sorted; line 92 puts CONNECTING with START_CONNECT.   *)
BucketOf(s) == CASE s = "START_CONNECT" -> "start_connect"
                 [] s = "CONNECTING"    -> "start_connect"
                 [] s = "CONNECTED"     -> "connected"
                 [] s = "DISCONNECTED"  -> "disconnect"

VARIABLES
  build,     (* the build's mutex and multiplexer; never changes            *)
  running,   (* Thread::running_                                            *)
  quit,      (* Thread::quit_                                               *)
  stopper,   (* where the one caller of Thread::Stop is                     *)
  pc,        (* where the worker is                                         *)
  lastId,    (* Engine::fd_, the last number Add gave out                   *)
  sockets,   (* Engine::sockets_, by number                                 *)
  depth,     (* how often the worker holds mutex_                           *)
  todo,      (* sockets the scan has still to visit                         *)
  probe,     (* which comparison of the scan is next                        *)
  bucket,    (* the local maps                                              *)
  call       (* the Connector call each thread is in                        *)

threadVars == <<running, quit, stopper>>
engineVars == <<lastId, sockets, depth>>
scanVars == <<todo, probe, bucket>>
vars == <<build, threadVars, pc, engineVars, scanVars, call, socketVars>>

PCs == {"unstarted", "loop", "lock", "idle", "relock", "scan", "reap", "inReap",
        "dial", "dialling", "serve", "exit", "sweep", "inSweep", "done", "hung",
        "aborted"}
Stages == {"none", "add", "queryConnect", "queryClose", "connect", "start", "close"}
NoCall == [at |-> "none", id |-> 0]

TypeOK ==
  /\ SocketTypeOK
  /\ build \in [mutex : MutexKinds, io : Backends]
  /\ running \in BOOLEAN /\ quit \in BOOLEAN
  /\ stopper \in {"idle", "waiting", "returned"}
  /\ pc \in PCs
  /\ lastId \in 0 .. MaxSockets
  /\ sockets \subseteq 1 .. lastId
  /\ depth \in 0 .. MaxDepth
  /\ todo \subseteq Ids
  /\ probe \in DOMAIN Compared
  /\ bucket \in [Buckets -> SUBSET Ids]
  /\ call \in [Threads -> [at : Stages, id : 0 .. MaxSockets]]

Init ==
  /\ SocketInit
  /\ build \in [mutex : MutexKinds, io : Backends]
  /\ running = FALSE /\ quit = TRUE /\ stopper = "idle"
  /\ pc = "unstarted"
  /\ lastId = 0 /\ sockets = {}
  /\ depth = 0
  /\ todo = {} /\ probe = 1 /\ bucket = NoBuckets
  /\ call = [t \in Threads |-> NoCall]

(* std::map iterates in the order of its keys.                             *)
First(S, i) == i \in S /\ \A j \in S : i <= j

-----------------------------------------------------------------------------
(* mutex_.  Application threads hold it only inside one step.              *)

Free(t) == depth = 0 \/ (t = Worker /\ build.mutex = "recursive")
Lock == depth' = IF depth < MaxDepth THEN depth + 1 ELSE depth
(* Mutant: both locks are given back.                                      *)
Unlock_Both == depth' = depth - 2
Unlock == depth' = depth - 1

-----------------------------------------------------------------------------
(* Connector's calls, made by application threads at any time and by the   *)
(* handler while the worker is inside its OnDisconnect.                    *)

InCallback == pc \in {"inReap", "inSweep"}
Alive == pc \notin {"unstarted", "aborted"}
MayCall(t) ==
  /\ Alive /\ call[t] = NoCall
  /\ t = Worker => InCallback /\ HandlerCalls
GoTo(t, stage, i) == call' = [call EXCEPT ![t] = [at |-> stage, id |-> i]]
EndCall(t) == call' = [call EXCEPT ![t] = NoCall]

Begin(t) ==
  /\ MayCall(t)
  /\ \/ /\ lastId + Cardinality({u \in Threads : call[u].at = "add"}) < MaxSockets
        /\ GoTo(t, "add", 0)
     \/ \E i \in 1 .. lastId : GoTo(t, "queryConnect", i)
     \/ \E i \in 1 .. lastId : GoTo(t, "queryClose", i)
  /\ UNCHANGED <<build, threadVars, pc, engineVars, scanVars, socketVars>>

(* ++fd_; mutant: fd_++.                                                   *)
NewId_Post == lastId
NewId == lastId + 1

(* Engine::Add.  Its write to the wake-up pair has no effect: the pair is  *)
(* closed, nobody calls SocketPair::Start.                                 *)
Add(t) ==
  /\ Alive /\ call[t].at = "add" /\ Free(t)
  /\ lastId < MaxSockets
  /\ lastId' = lastId + 1
  /\ sockets' = sockets \cup {NewId}
  /\ EndCall(t)
  /\ UNCHANGED <<build, threadVars, pc, depth, scanVars, socketVars>>

(* Engine::Query; the call ends when the number is unknown.                *)
Query(t) ==
  /\ Alive /\ call[t].at \in {"queryConnect", "queryClose"} /\ Free(t)
  /\ IF call[t].id \notin sockets THEN EndCall(t)
     ELSE GoTo(t, IF call[t].at = "queryClose" THEN "close" ELSE "connect", call[t].id)
  /\ UNCHANGED <<build, threadVars, pc, engineVars, scanVars, socketVars>>

(* Socket::Connect reads status_ here and writes it in the next step.      *)
Connect(t) ==
  /\ Alive /\ call[t].at = "connect"
  /\ IF status[call[t].id] = "INIT" THEN GoTo(t, "start", call[t].id) ELSE EndCall(t)
  /\ UNCHANGED <<build, threadVars, pc, engineVars, scanVars, socketVars>>

StartConnect(t) ==
  /\ Alive /\ call[t].at = "start"
  /\ SetStatus(call[t].id, "START_CONNECT")
  /\ EndCall(t)
  /\ UNCHANGED <<build, threadVars, pc, engineVars, scanVars, fd, open, disconnects>>

(* Socket::Close.                                                          *)
Close(t) ==
  /\ Alive /\ call[t].at = "close"
  /\ SetStatus(call[t].id, "DISCONNECTED")
  /\ EndCall(t)
  /\ UNCHANGED <<build, threadVars, pc, engineVars, scanVars, fd, open, disconnects>>

-----------------------------------------------------------------------------
(* Thread::Start and Thread::Stop, by the thread that owns the engine.     *)

Start ==
  /\ pc = "unstarted"
  /\ running' = TRUE /\ quit' = FALSE /\ pc' = "loop"
  /\ UNCHANGED <<build, stopper, engineVars, scanVars, call, socketVars>>

StopBegin ==
  /\ Alive /\ stopper = "idle"
  /\ IF quit THEN stopper' = "returned" /\ UNCHANGED running
             ELSE stopper' = "waiting" /\ running' = FALSE
  /\ UNCHANGED <<build, quit, pc, engineVars, scanVars, call, socketVars>>

StopReturn ==
  /\ Alive /\ stopper = "waiting" /\ quit
  /\ stopper' = "returned"
  /\ UNCHANGED <<build, running, quit, pc, engineVars, scanVars, call, socketVars>>

-----------------------------------------------------------------------------
(* The worker: Thread::thread and Engine::readThread.                      *)

(* while (running_); readThread begins with a sleep, which changes nothing.*)
Loop ==
  /\ pc = "loop"
  /\ pc' = IF running THEN "lock" ELSE "exit"
  /\ UNCHANGED <<build, threadVars, engineVars, scanVars, call, socketVars>>

(* A negative result of readThread.                                        *)
Fail == running' = FALSE /\ pc' = "loop"

(* The first lock.  The branch for an empty map unlocks, the other one     *)
(* keeps the mutex.                                                        *)
FirstLock ==
  /\ pc = "lock" /\ Free(Worker)
  /\ IF sockets = {} THEN pc' = "idle" /\ UNCHANGED depth
                     ELSE pc' = "relock" /\ Lock
  /\ UNCHANGED <<build, threadVars, lastId, sockets, scanVars, call, socketVars>>

(* Dispatch with no descriptor registered: epoll_wait refuses to wait for  *)
(* zero events; select sleeps its time out, or a signal interrupts it.     *)
IdleDispatch ==
  /\ pc = "idle"
  /\ \/ Fail
     \/ /\ build.io = "select"
        /\ pc' = "loop"
        /\ UNCHANGED running
  /\ UNCHANGED <<build, quit, stopper, engineVars, scanVars, call, socketVars>>

(* The second lock.                                                        *)
Relock ==
  /\ pc = "relock"
  /\ IF Free(Worker)
     THEN pc' = "scan" /\ Lock /\ todo' = sockets
     ELSE /\ pc' = IF build.mutex = "normal" THEN "hung" ELSE "aborted"
          /\ UNCHANGED <<depth, todo>>
  /\ UNCHANGED <<build, threadVars, lastId, sockets, probe, bucket, call, socketVars>>

(* The scan.  A comparison that fails ...                                  *)
NextComparison ==
  /\ pc = "scan" /\ probe < 5
  /\ \E i \in todo : First(todo, i) /\ status[i] # Compared[probe]
  /\ probe' = probe + 1
  /\ UNCHANGED <<build, threadVars, pc, engineVars, todo, bucket, call, socketVars>>

(* The map after a socket is sorted.  Mutant: erase() is forgotten.        *)
MapAfter_NoErase(i) == sockets
MapAfter(i) == IF status[i] = "DISCONNECTED" THEN sockets \ {i} ELSE sockets

(* ... one that holds, which sorts the socket in, and a DISCONNECTED one   *)
(* out of the map ...                                                      *)
Classify ==
  /\ pc = "scan"
  /\ \E i \in todo :
       /\ First(todo, i) /\ status[i] = Compared[probe]
       /\ todo' = todo \ {i}
       /\ bucket' = IF status[i] = "INIT" THEN bucket
                    ELSE [bucket EXCEPT ![BucketOf(status[i])] = @ \cup {i}]
       /\ sockets' = MapAfter(i)
  /\ probe' = 1
  /\ UNCHANGED <<build, threadVars, pc, lastId, depth, call, socketVars>>

(* ... and the last one failing: one unlock, the local maps are lost.      *)
FallThrough ==
  /\ pc = "scan" /\ probe = 5
  /\ \E i \in todo : First(todo, i) /\ status[i] # Compared[probe]
  /\ Unlock
  /\ todo' = {} /\ probe' = 1 /\ bucket' = NoBuckets
  /\ Fail
  /\ UNCHANGED <<build, quit, stopper, lastId, sockets, call, socketVars>>

(* One unlock for the two locks.                                           *)
ScanDone ==
  /\ pc = "scan" /\ todo = {}
  /\ Unlock
  /\ pc' = "reap"
  /\ UNCHANGED <<build, threadVars, lastId, sockets, scanVars, call, socketVars>>

(* RealDisconnect of the sockets taken out of the map, and at thread exit, *)
(* after Close, of all that were left in it.  DeleteFd gets the number     *)
(* `GetFd() < 0', 0 or 1, which is never registered.                       *)
ReportDisconnect ==
  /\ pc \in {"reap", "sweep"}
  /\ \E i \in bucket["disconnect"] :
       /\ First(bucket["disconnect"], i)
       /\ CallOnDisconnect(i)
       /\ IF pc = "sweep" THEN SetStatus(i, "DISCONNECTED") ELSE UNCHANGED status
  /\ pc' = IF pc = "reap" THEN "inReap" ELSE "inSweep"
  /\ UNCHANGED <<build, threadVars, engineVars, scanVars, call, fd, open>>

(* The handler returns and RealDisconnect closes the descriptor.           *)
EndDisconnect ==
  /\ InCallback /\ call[Worker] = NoCall
  /\ \E i \in bucket["disconnect"] :
       /\ First(bucket["disconnect"], i)
       /\ CloseFd(i)
       /\ bucket' = [bucket EXCEPT !["disconnect"] = @ \ {i}]
  /\ pc' = IF pc = "inReap" THEN "reap" ELSE "sweep"
  /\ UNCHANGED <<build, threadVars, engineVars, todo, probe, call>>

ReapDone ==
  /\ pc = "reap" /\ bucket["disconnect"] = {}
  /\ pc' = "dial"
  /\ UNCHANGED <<build, threadVars, engineVars, scanVars, call, socketVars>>

(* RealConnect of every socket in start_connect.                           *)
DialOpen ==
  /\ pc = "dial"
  /\ \E i \in bucket["start_connect"] :
       First(bucket["start_connect"], i) /\ RealConnectOpen(i)
  /\ pc' = "dialling"
  /\ UNCHANGED <<build, threadVars, engineVars, scanVars, call>>

DialResult ==
  /\ pc = "dialling"
  /\ \E i \in bucket["start_connect"] :
       /\ First(bucket["start_connect"], i)
       /\ RealConnectResult(i)
       /\ bucket' = [bucket EXCEPT !["start_connect"] = @ \ {i}]
  /\ pc' = "dial"
  /\ UNCHANGED <<build, threadVars, engineVars, todo, probe, call>>

(* The pass ends when it has nothing to watch.  "serve" stands for the     *)
(* rest of readThread, which no step here leads out of: NothingServed says *)
(* that no execution gets there.                                           *)
DialDone ==
  /\ pc = "dial" /\ bucket["start_connect"] = {}
  /\ pc' = IF bucket["connecting"] = {} /\ bucket["connected"] = {}
           THEN "loop" ELSE "serve"
  /\ UNCHANGED <<build, threadVars, engineVars, scanVars, call, socketVars>>

(* afterThread takes the whole map and reports what it took.  Mutants: the *)
(* map is cleared, or copied instead of swapped.                           *)
Taken_None == {}
Taken == sockets
Left_Copy == sockets
Left == {}

Exit ==
  /\ pc = "exit" /\ Free(Worker)
  /\ bucket' = [bucket EXCEPT !["disconnect"] = Taken]
  /\ sockets' = Left
  /\ pc' = "sweep"
  /\ UNCHANGED <<build, threadVars, lastId, depth, todo, probe, call, socketVars>>

(* Then thread() sets quit_.  Mutants: the loop ends after one socket;     *)
(* quit_ is forgotten.                                                     *)
SweepOver_Early == TRUE
SweepOver == bucket["disconnect"] = {}
SetQuit_Not == UNCHANGED quit
SetQuit == quit' = TRUE

Quit ==
  /\ pc = "sweep" /\ SweepOver
  /\ SetQuit
  /\ pc' = "done"
  /\ UNCHANGED <<build, running, stopper, engineVars, scanVars, call, socketVars>>

-----------------------------------------------------------------------------
(* Begin is the application's choice; CallStep is what a call then does.   *)

CallStep(t) == Add(t) \/ Query(t) \/ Connect(t) \/ StartConnect(t) \/ Close(t)

Scan == NextComparison \/ Classify \/ FallThrough \/ ScanDone

WorkerStep ==
  \/ Loop \/ FirstLock \/ IdleDispatch \/ Relock
  \/ Scan
  \/ ReportDisconnect \/ ReapDone
  \/ DialOpen \/ DialResult \/ DialDone
  \/ Exit \/ Quit

Next ==
  \/ Start \/ StopBegin \/ StopReturn
  \/ \E t \in Threads : Begin(t) \/ CallStep(t)
  \/ WorkerStep \/ EndDisconnect

Spec == Init /\ [][Next]_vars

(* Threads that can run do run.  A call waiting for mutex_ is weakly fair: *)
(* it gets in if the mutex stays free.  A handler may make call after call *)
(* but its OnDisconnect returns in the end.                                *)
Fairness ==
  /\ WF_vars(Start) /\ WF_vars(StopReturn)
  /\ WF_vars(WorkerStep) /\ SF_vars(EndDisconnect)
  /\ \A t \in Threads : WF_vars(CallStep(t))

FairSpec == Spec /\ Fairness

-----------------------------------------------------------------------------
(* What a handler is promised, HandlerContract: a socket exists from       *)
(* Connector::Create on, and hears OnDisconnect once and nothing after it. *)

Phase(i) == IF disconnects[i] > 1 THEN "corrupt"
            ELSE IF disconnects[i] = 1 THEN "OnDisconnect"
            ELSE IF i <= lastId THEN "created" ELSE "absent"

Phases == [i \in Ids |-> Phase(i)]

Contract == INSTANCE HandlerContract WITH phase <- Phases

(* Every run of the engine is a run the handlers' contract allows: the     *)
(* numbers are handed out in order and no handler hears OnDisconnect twice *)
(* or before its socket was created, however the reaping of closed sockets *)
(* and the sweep at thread exit interleave with calls.                     *)
ImplementsContract == Contract!Spec

(* Sockets the engine is responsible for: those of the map and those taken *)
(* out of it whose OnDisconnect is due or running.                         *)
Held == sockets \cup bucket["disconnect"]

(* RealDisconnect closes fd_ without resetting it and RealConnect          *)
(* overwrites it: still, what a socket the engine holds will close is open *)
(* and no other held socket's, so no close() hits a descriptor the kernel  *)
(* has since given to someone else.                                        *)
DescriptorsOwned ==
  \A i \in Held :
    fd[i] > 0 => /\ fd[i] \in open
                 /\ \A j \in Held \ {i} : fd[j] # fd[i]

(* No handler hears OnDisconnect twice, and the engine lets go of what it  *)
(* has reported: of the sockets it holds, only the one whose callback is   *)
(* running has been told.                                                  *)
DisconnectOnce ==
  \A i \in Ids :
    /\ disconnects[i] <= 1
    /\ disconnects[i] = 1 /\ i \in Held =>
         InCallback /\ First(bucket["disconnect"], i)

(* No socket is ever watched: readThread never gets as far as its Dispatch *)
(* for sockets, so no RealRead, no RealWrite and no OnConnect happens.     *)
(* CONNECTING sockets are sorted into start_connect, line 92.              *)
NothingServed == pc # "serve"

(* When a pass has sorted the map, the sockets that are connected or under *)
(* way are among those its Dispatch will wait for, as the comment at line  *)
(* 138 says.                                                               *)
SocketsListened ==
  pc = "reap" =>
    \A i \in sockets : status[i] \in {"CONNECTING", "CONNECTED"} =>
      i \in bucket["connecting"] \cup bucket["connected"]

(* The thread ends when it is told to and not for want of sockets, for     *)
(* which it sleeps a while, as the comments at lines 61 and 133 say.       *)
EndsOnlyWhenStopped == pc = "exit" => stopper # "idle"

(* No socket() for a socket whose handler has heard OnDisconnect.          *)
NoDialAfterDisconnect ==
  [][\A i \in Ids : disconnects[i] > 0 => fd'[i] = fd[i]]_vars

(* Once a readThread has left a hold of mutex_ behind, nothing the engine  *)
(* does gives the mutex back: application threads stay locked out of Add   *)
(* and Query for good, past the end of the thread that holds it.           *)
MutexNeverReleased == [][depth > 0 => depth' > 0]_vars

(* Without a recursive mutex the engine never opens a descriptor: the      *)
(* first socket found leads into the second lock.                          *)
NothingDialled == build.mutex # "recursive" => open = {} /\ fd = [i \in Ids |-> 0]

(* Every open descriptor belongs to a socket the engine still holds.  Two  *)
(* racing calls can break this (a stale Connect dials twice), as can a     *)
(* connect() that succeeds; see the README.                                *)
NoLeak == open \subseteq {fd[i] : i \in Held}

-----------------------------------------------------------------------------
(* Liveness.                                                               *)

(* A socket the engine still scans whose Connect or Close was called gets  *)
(* its OnDisconnect, if the mutex lets the second lock through: connect()  *)
(* fails where its address length is zero.                                 *)
Scanned == pc \notin {"sweep", "inSweep", "done"}
RequestAnswered ==
  \A i \in Ids :
    build.mutex = "recursive" /\ i \in sockets /\ Scanned
    /\ status[i] \in {"START_CONNECT", "DISCONNECTED"}
      ~> disconnects[i] = 1

(* The sweep at thread exit reports every socket the map holds then.       *)
ExitReports == \A i \in Ids : pc = "exit" /\ i \in sockets ~> disconnects[i] = 1

(* Thread::Stop returns, whatever the callers and the handlers do, if the  *)
(* worker does not wait for a mutex it holds.                              *)
StopReturns == stopper = "waiting" ~> stopper = "returned" \/ pc = "hung"

(* Connector is an asynchronous module: its calls return.                  *)
CallsReturn == \A t \in Users : call[t] # NoCall ~> call[t] = NoCall

(* When the thread has ended, every socket it took out of the map has been *)
(* reported.                                                               *)
NoneLost ==
  pc = "done" => \A i \in 1 .. lastId : i \notin sockets => disconnects[i] = 1

=============================================================================
