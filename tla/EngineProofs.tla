---------------------------- MODULE EngineProofs ----------------------------
(***************************************************************************)
(* What TLAPS proves of Engine, for any application threads, any number of *)
(* sockets and descriptors, every kind of mutex, every multiplexer and     *)
(* every outcome of connect().  The invariant is Engine's TypeOK           *)
(* strengthened by what the worker's local maps hold at each of its steps  *)
(* (Maps), how deep it holds mutex_ (Holds), which handlers can have been  *)
(* told (Told) and which descriptors the sockets own (Owned).  Two more    *)
(* results, that no socket is lost and no descriptor leaks, are proved for *)
(* one calling thread; with two they are false.                            *)
(***************************************************************************)
EXTENDS Engine, TLAPS

Sorting == {"scan", "reap", "inReap", "dial", "dialling"}
Reporting == {"scan", "reap", "inReap", "sweep", "inSweep"}

(* A socket is in one place: still to visit, to dial, to report.  What is  *)
(* to visit or to dial is in the map, what is to report has left it.       *)
Maps ==
  /\ pc # "serve"
  /\ \A i \in Ids : status[i] # "CONNECTED"
  /\ bucket["connecting"] = {} /\ bucket["connected"] = {}
  /\ pc \notin Sorting => bucket["start_connect"] = {}
  /\ pc \notin Reporting => bucket["disconnect"] = {}
  /\ pc # "scan" => todo = {}
  /\ todo \subseteq sockets /\ bucket["start_connect"] \subseteq sockets
  /\ todo \cap bucket["start_connect"] = {}
  /\ bucket["disconnect"] \cap sockets = {}
  /\ bucket["disconnect"] \subseteq 1 .. lastId

(* Two holds inside the scan, one before it; only a recursive mutex lets   *)
(* the worker in.                                                          *)
Holds ==
  /\ pc = "relock" => depth >= 1
  /\ pc = "scan" => depth >= 2
  /\ pc \in Sorting => build.mutex = "recursive"

Told ==
  /\ DisconnectOnce
  /\ \A i \in Ids : i > lastId => disconnects[i] = 0

Owned ==
  /\ DescriptorsOwned
  /\ NothingDialled
  /\ \A i \in Ids : i > lastId => fd[i] = 0

IInv == TypeOK /\ Maps /\ Holds /\ Told /\ Owned

-----------------------------------------------------------------------------
(* The invariant holds when the process starts: nothing runs, nothing is   *)
(* held and the maps are empty.                                            *)
LEMMA InitIInv == Init => IInv
<1> SUFFICES ASSUME Init PROVE IInv
  OBVIOUS
<1> USE SocketAssumption, EngineAssumption DEF Init, SocketInit
<1>1. TypeOK
  <2>1. SocketTypeOK
    BY DEF SocketTypeOK, Status
  <2>2. bucket \in [Buckets -> SUBSET Ids] /\ probe \in DOMAIN Compared
    BY DEF NoBuckets, Compared
  <2>3. call \in [Threads -> [at : Stages, id : 0 .. MaxSockets]]
    BY DEF NoCall, Stages
  <2>4. /\ lastId \in 0 .. MaxSockets /\ sockets \subseteq 1 .. lastId
        /\ depth \in 0 .. MaxDepth /\ todo \subseteq Ids
    OBVIOUS
  <2>5. /\ running \in BOOLEAN /\ quit \in BOOLEAN
        /\ stopper \in {"idle", "waiting", "returned"} /\ pc \in PCs
    BY DEF PCs
  <2> QED BY <2>1, <2>2, <2>3, <2>4, <2>5 DEF TypeOK
<1>2. Maps
  BY DEF Maps, Sorting, Reporting, NoBuckets, Buckets
<1>3. Holds
  BY DEF Holds, Sorting
<1>4. Told
  BY DEF Told, DisconnectOnce
<1>5. Owned
  BY DEF Owned, DescriptorsOwned, NothingDialled, Held, NoBuckets, Buckets, Ids
<1> QED BY <1>1, <1>2, <1>3, <1>4, <1>5 DEF IInv

-----------------------------------------------------------------------------
(* Starting, stopping and calling.                                         *)

(* Thread::Start starts the worker at the head of its loop, with no local  *)
(* map.                                                                    *)
LEMMA StartStep == ASSUME IInv, Start PROVE IInv'
<1> USE SocketAssumption, EngineAssumption
    DEF IInv, Start,
        engineVars, threadVars, scanVars, socketVars
<1>1. TypeOK' BY DEF TypeOK, SocketTypeOK, PCs
<1>2. Maps' BY DEF Maps, Sorting, Reporting
<1>3. Holds' BY DEF Holds, Sorting
<1>4. Told' BY DEF Told, DisconnectOnce, Held, InCallback
<1>5. Owned' BY DEF Owned, DescriptorsOwned, NothingDialled, Held
<1> QED BY <1>1, <1>2, <1>3, <1>4, <1>5

(* Thread::Stop takes running_ back; the maps and the mutex are not its    *)
(* business.                                                               *)
LEMMA StopBeginStep == ASSUME IInv, StopBegin PROVE IInv'
<1> USE SocketAssumption, EngineAssumption
    DEF IInv, StopBegin,
        engineVars, threadVars, scanVars, socketVars
<1>1. TypeOK' BY DEF TypeOK, SocketTypeOK
<1>2. Maps' BY DEF Maps
<1>3. Holds' BY DEF Holds
<1>4. Told' BY DEF Told, DisconnectOnce, Held, InCallback
<1>5. Owned' BY DEF Owned, DescriptorsOwned, NothingDialled, Held
<1> QED BY <1>1, <1>2, <1>3, <1>4, <1>5

(* Thread::Stop returning changes nothing the invariant is about.          *)
LEMMA StopReturnStep == ASSUME IInv, StopReturn PROVE IInv'
<1> USE SocketAssumption, EngineAssumption
    DEF IInv, StopReturn,
        engineVars, threadVars, scanVars, socketVars
<1>1. TypeOK' BY DEF TypeOK, SocketTypeOK
<1>2. Maps' BY DEF Maps
<1>3. Holds' BY DEF Holds
<1>4. Told' BY DEF Told, DisconnectOnce, Held, InCallback
<1>5. Owned' BY DEF Owned, DescriptorsOwned, NothingDialled, Held
<1> QED BY <1>1, <1>2, <1>3, <1>4, <1>5

(* A thread entering one of Connector's calls has touched nothing yet.     *)
LEMMA BeginStep == ASSUME NEW t \in Threads, IInv, Begin(t) PROVE IInv'
<1> USE SocketAssumption, EngineAssumption
    DEF IInv, Begin, GoTo,
        engineVars, threadVars, scanVars, socketVars
<1>1. TypeOK' BY DEF TypeOK, SocketTypeOK, Stages, NoCall
<1>2. Maps' BY DEF Maps
<1>3. Holds' BY DEF Holds
<1>4. Told' BY DEF Told, DisconnectOnce, Held, InCallback
<1>5. Owned' BY DEF Owned, DescriptorsOwned, NothingDialled, Held
<1> QED BY <1>1, <1>2, <1>3, <1>4, <1>5

(* Engine::Add: the new number is above every other, so nobody was told    *)
(* about it and it owns no descriptor.                                     *)
LEMMA AddStep == ASSUME NEW t \in Threads, IInv, Add(t) PROVE IInv'
<1> USE SocketAssumption, EngineAssumption
    DEF IInv, Add, NewId, EndCall,
        engineVars, threadVars, scanVars, socketVars
<1>1. TypeOK' BY DEF TypeOK, SocketTypeOK, Ids, Stages, NoCall
<1>2. Maps'
  BY DEF Maps, Sorting, Reporting, TypeOK, Ids, Buckets, Compared,
      InCallback, NoBuckets
<1>3. Holds' BY DEF Holds
<1>4. Told'
  BY DEF Told, DisconnectOnce, Held, InCallback, TypeOK, SocketTypeOK, Ids,
      Maps, Reporting, Buckets, First, NoBuckets
<1>5. Owned'
  BY DEF Owned, DescriptorsOwned, NothingDialled, Held, TypeOK,
      SocketTypeOK, Ids, Maps, Buckets
<1> QED BY <1>1, <1>2, <1>3, <1>4, <1>5

(* Engine::Query only looks a number up.                                   *)
LEMMA QueryStep == ASSUME NEW t \in Threads, IInv, Query(t) PROVE IInv'
<1> USE SocketAssumption, EngineAssumption
    DEF IInv, Query, EndCall, GoTo,
        engineVars, threadVars, scanVars, socketVars
<1>1. TypeOK' BY DEF TypeOK, SocketTypeOK, Stages, NoCall
<1>2. Maps' BY DEF Maps
<1>3. Holds' BY DEF Holds
<1>4. Told' BY DEF Told, DisconnectOnce, Held, InCallback
<1>5. Owned' BY DEF Owned, DescriptorsOwned, NothingDialled, Held
<1> QED BY <1>1, <1>2, <1>3, <1>4, <1>5

(* Socket::Connect's read of status_.                                      *)
LEMMA ConnectStep == ASSUME NEW t \in Threads, IInv, Connect(t) PROVE IInv'
<1> USE SocketAssumption, EngineAssumption
    DEF IInv, Connect, EndCall, GoTo,
        engineVars, threadVars, scanVars, socketVars
<1>1. TypeOK' BY DEF TypeOK, SocketTypeOK, Stages, NoCall
<1>2. Maps' BY DEF Maps
<1>3. Holds' BY DEF Holds
<1>4. Told' BY DEF Told, DisconnectOnce, Held, InCallback
<1>5. Owned' BY DEF Owned, DescriptorsOwned, NothingDialled, Held
<1> QED BY <1>1, <1>2, <1>3, <1>4, <1>5

(* Socket::Connect's write of status_: never CONNECTED, whatever it        *)
(* overwrites.                                                             *)
LEMMA StartConnectStep == ASSUME NEW t \in Threads, IInv, StartConnect(t) PROVE IInv'
<1> USE SocketAssumption, EngineAssumption
    DEF IInv, StartConnect, EndCall, SetStatus,
        engineVars, threadVars, scanVars, socketVars
<1>1. TypeOK'
  <2>1. status' \in [Ids -> Status] BY DEF TypeOK, SocketTypeOK, Status
  <2>2. call' \in [Threads -> [at : Stages, id : 0 .. MaxSockets]]
    BY DEF TypeOK, NoCall, Stages
  <2> QED BY <2>1, <2>2 DEF TypeOK, SocketTypeOK
<1>2. Maps' BY DEF Maps
<1>3. Holds' BY DEF Holds
<1>4. Told' BY DEF Told, DisconnectOnce, Held, InCallback
<1>5. Owned' BY DEF Owned, DescriptorsOwned, NothingDialled, Held
<1> QED BY <1>1, <1>2, <1>3, <1>4, <1>5

(* Socket::Close: never CONNECTED, whatever it overwrites.                 *)
LEMMA CloseStep == ASSUME NEW t \in Threads, IInv, Close(t) PROVE IInv'
<1> USE SocketAssumption, EngineAssumption
    DEF IInv, Close, EndCall, SetStatus,
        engineVars, threadVars, scanVars, socketVars
<1>1. TypeOK'
  <2>1. status' \in [Ids -> Status] BY DEF TypeOK, SocketTypeOK, Status
  <2>2. call' \in [Threads -> [at : Stages, id : 0 .. MaxSockets]]
    BY DEF TypeOK, NoCall, Stages
  <2> QED BY <2>1, <2>2 DEF TypeOK, SocketTypeOK
<1>2. Maps' BY DEF Maps
<1>3. Holds' BY DEF Holds
<1>4. Told' BY DEF Told, DisconnectOnce, Held, InCallback
<1>5. Owned' BY DEF Owned, DescriptorsOwned, NothingDialled, Held
<1> QED BY <1>1, <1>2, <1>3, <1>4, <1>5

-----------------------------------------------------------------------------
(* The worker's loop and its locks.                                        *)

(* The test of running_: no local map is alive there.                      *)
LEMMA LoopStep == ASSUME IInv, Loop PROVE IInv'
<1> USE SocketAssumption, EngineAssumption
    DEF IInv, Loop,
        engineVars, threadVars, scanVars, socketVars
<1>1. TypeOK' BY DEF TypeOK, SocketTypeOK, PCs
<1>2. Maps' BY DEF Maps, Sorting, Reporting
<1>3. Holds' BY DEF Holds, Sorting
<1>4. Told' BY DEF Told, DisconnectOnce, Held, InCallback
<1>5. Owned' BY DEF Owned, DescriptorsOwned, NothingDialled, Held
<1> QED BY <1>1, <1>2, <1>3, <1>4, <1>5

(* The first lock: it is kept only on the way to the second.               *)
LEMMA FirstLockStep == ASSUME IInv, FirstLock PROVE IInv'
<1> USE SocketAssumption, EngineAssumption
    DEF IInv, FirstLock, Lock,
        engineVars, threadVars, scanVars, socketVars
<1>1. TypeOK' BY DEF TypeOK, SocketTypeOK, PCs
<1>2. Maps' BY DEF Maps, Sorting, Reporting
<1>3. Holds' BY DEF Holds, Sorting, TypeOK, InCallback
<1>4. Told' BY DEF Told, DisconnectOnce, Held, InCallback
<1>5. Owned' BY DEF Owned, DescriptorsOwned, NothingDialled, Held
<1> QED BY <1>1, <1>2, <1>3, <1>4, <1>5

(* Dispatch for an empty map.                                              *)
LEMMA IdleDispatchStep == ASSUME IInv, IdleDispatch PROVE IInv'
<1> USE SocketAssumption, EngineAssumption
    DEF IInv, IdleDispatch, Fail,
        engineVars, threadVars, scanVars, socketVars
<1>1. TypeOK' BY DEF TypeOK, SocketTypeOK, PCs
<1>2. Maps' BY DEF Maps, Sorting, Reporting
<1>3. Holds' BY DEF Holds, Sorting
<1>4. Told' BY DEF Told, DisconnectOnce, Held, InCallback
<1>5. Owned' BY DEF Owned, DescriptorsOwned, NothingDialled, Held
<1> QED BY <1>1, <1>2, <1>3, <1>4, <1>5

(* The second lock: only a recursive mutex lets the worker into the scan,  *)
(* then with two holds.                                                    *)
LEMMA RelockStep == ASSUME IInv, Relock PROVE IInv'
<1> USE SocketAssumption, EngineAssumption
    DEF IInv, Relock, Free, Lock,
        engineVars, threadVars, scanVars, socketVars
<1>1. TypeOK'
  <2>1. pc' \in PCs BY DEF PCs
  <2>2. depth' \in 0 .. MaxDepth BY DEF TypeOK
  <2>3. todo' \in {todo, sockets} BY DEF TypeOK
  <2>4. todo' \subseteq Ids BY <2>3 DEF TypeOK, Ids
  <2> QED BY <2>1, <2>2, <2>4 DEF TypeOK, SocketTypeOK
<1>2. Maps' BY DEF Maps, Sorting, Reporting
<1>3. Holds' BY DEF Holds, Sorting, TypeOK, InCallback
<1>4. Told' BY DEF Told, DisconnectOnce, Held, InCallback
<1>5. Owned' BY DEF Owned, DescriptorsOwned, NothingDialled, Held
<1> QED BY <1>1, <1>2, <1>3, <1>4, <1>5

-----------------------------------------------------------------------------
(* The scan.                                                               *)

(* A failed comparison of the scan.                                        *)
LEMMA NextComparisonStep == ASSUME IInv, NextComparison PROVE IInv'
<1> USE SocketAssumption, EngineAssumption
    DEF IInv, NextComparison,
        engineVars, threadVars, scanVars, socketVars
<1>1. TypeOK' BY DEF TypeOK, SocketTypeOK, Compared
<1>2. Maps' BY DEF Maps
<1>3. Holds' BY DEF Holds
<1>4. Told' BY DEF Told, DisconnectOnce, Held, InCallback
<1>5. Owned' BY DEF Owned, DescriptorsOwned, NothingDialled, Held
<1> QED BY <1>1, <1>2, <1>3, <1>4, <1>5

(* Sorting a socket moves it within what the engine holds: out of the map  *)
(* exactly when it is to be reported.                                      *)
LEMMA ClassifyStep == ASSUME IInv, Classify PROVE IInv'
<1> USE SocketAssumption, EngineAssumption
    DEF IInv, Classify, First, MapAfter, BucketOf,
        engineVars, threadVars, scanVars, socketVars
<1>1. TypeOK'
  <2>1. sockets' \subseteq sockets /\ todo' \subseteq todo
    OBVIOUS
  <2>2. bucket' \in [Buckets -> SUBSET Ids]
    <3>1. PICK i \in todo :
            bucket' = IF status[i] = "INIT" THEN bucket
                      ELSE [bucket EXCEPT ![BucketOf(status[i])] = @ \cup {i}]
      OBVIOUS
    <3>2. ASSUME NEW b, bucket' = [bucket EXCEPT ![b] = @ \cup {i}]
          PROVE  bucket' \in [Buckets -> SUBSET Ids]
      BY <3>2 DEF TypeOK
    <3> QED BY <3>1, <3>2 DEF TypeOK
  <2>3. probe' \in DOMAIN Compared
    BY DEF Compared
  <2> QED BY <2>1, <2>2, <2>3 DEF TypeOK, SocketTypeOK
<1>2. Maps'
  BY DEF Maps, Sorting, Reporting, TypeOK, Ids, Buckets, Compared,
      InCallback, NoBuckets
<1>3. Holds' BY DEF Holds
<1>4. Told'
  <2> PICK i \in todo :
        /\ First(todo, i) /\ status[i] = Compared[probe]
        /\ bucket' = IF status[i] = "INIT" THEN bucket
                     ELSE [bucket EXCEPT ![BucketOf(status[i])] = @ \cup {i}]
        /\ sockets' = MapAfter(i)
    OBVIOUS
  <2>1. disconnects[i] = 0 /\ i \in sockets
    BY DEF Told, DisconnectOnce, Held, InCallback, Maps, TypeOK, SocketTypeOK, Ids
  <2>2. Held' = Held
    BY <2>1 DEF Held, Maps, TypeOK, SocketTypeOK, Status, Buckets, Ids
  <2> QED BY <2>1, <2>2 DEF Told, DisconnectOnce, InCallback
<1>5. Owned'
  <2> PICK i \in todo :
        /\ First(todo, i) /\ status[i] = Compared[probe]
        /\ bucket' = IF status[i] = "INIT" THEN bucket
                     ELSE [bucket EXCEPT ![BucketOf(status[i])] = @ \cup {i}]
        /\ sockets' = MapAfter(i)
    OBVIOUS
  <2>1. Held' = Held
    BY DEF Held, Maps, TypeOK, SocketTypeOK, Status, Buckets, Ids
  <2> QED BY <2>1 DEF Owned, DescriptorsOwned, NothingDialled
<1> QED BY <1>1, <1>2, <1>3, <1>4, <1>5

(* The scan falling through forgets sockets; what is left keeps the        *)
(* invariant.                                                              *)
LEMMA FallThroughStep == ASSUME IInv, FallThrough PROVE IInv'
<1> USE SocketAssumption, EngineAssumption
    DEF IInv, FallThrough, Unlock, Fail,
        engineVars, threadVars, scanVars, socketVars
<1>1. TypeOK'
  <2>1. pc' \in PCs BY DEF PCs
  <2>2. depth' \in 0 .. MaxDepth BY DEF TypeOK, Holds
  <2>3. probe' \in DOMAIN Compared BY DEF Compared
  <2>4. bucket' \in [Buckets -> SUBSET Ids] BY DEF NoBuckets
  <2> QED BY <2>1, <2>2, <2>3, <2>4 DEF TypeOK, SocketTypeOK
<1>2. Maps'
  BY DEF Maps, Sorting, Reporting, TypeOK, Ids, Buckets, Compared,
      InCallback, NoBuckets
<1>3. Holds' BY DEF Holds, Sorting
<1>4. Told'
  BY DEF Told, DisconnectOnce, Held, InCallback, TypeOK, SocketTypeOK, Ids,
      Maps, Reporting, Buckets, First, NoBuckets
<1>5. Owned'
  BY DEF Owned, DescriptorsOwned, NothingDialled, Held, TypeOK,
      SocketTypeOK, Ids, Fds, Maps, Sorting, Reporting, Holds, Buckets,
      NoBuckets, InCallback
<1> QED BY <1>1, <1>2, <1>3, <1>4, <1>5

(* The scan ends with one hold of the two given back.                      *)
LEMMA ScanDoneStep == ASSUME IInv, ScanDone PROVE IInv'
<1> USE SocketAssumption, EngineAssumption
    DEF IInv, ScanDone, Unlock,
        engineVars, threadVars, scanVars, socketVars
<1>1. TypeOK' BY DEF TypeOK, SocketTypeOK, PCs, Holds
<1>2. Maps' BY DEF Maps, Sorting, Reporting
<1>3. Holds' BY DEF Holds, Sorting
<1>4. Told' BY DEF Told, DisconnectOnce, Held, InCallback
<1>5. Owned' BY DEF Owned, DescriptorsOwned, NothingDialled, Held
<1> QED BY <1>1, <1>2, <1>3, <1>4, <1>5

-----------------------------------------------------------------------------
(* Reporting and dialling.                                                 *)

(* OnDisconnect goes to a socket that has left the map and was not told    *)
(* before: the first of those to report.                                   *)
LEMMA ReportDisconnectStep == ASSUME IInv, ReportDisconnect PROVE IInv'
<1> USE SocketAssumption, EngineAssumption
    DEF IInv, ReportDisconnect, First, CallOnDisconnect, SetStatus,
        engineVars, threadVars, scanVars, socketVars
<1>1. TypeOK'
  BY SMTT(30) DEF TypeOK, SocketTypeOK, Status, PCs, Holds, Compared, NoBuckets,
      Ids, Buckets
<1>2. Maps'
  BY DEF Maps, Sorting, Reporting, TypeOK, SocketTypeOK, Ids, Buckets,
      NoBuckets, Compared, Status, InCallback
<1>3. Holds' BY DEF Holds, Sorting
<1>4. Told'
  BY DEF Told, DisconnectOnce, Held, InCallback, TypeOK, SocketTypeOK, Ids,
      Maps, Reporting, Buckets, First, NoBuckets
<1>5. Owned' BY DEF Owned, DescriptorsOwned, NothingDialled, Held
<1> QED BY <1>1, <1>2, <1>3, <1>4, <1>5

(* The reported socket's descriptor is closed as the engine lets go of it. *)
LEMMA EndDisconnectStep == ASSUME IInv, EndDisconnect PROVE IInv'
<1> USE SocketAssumption, EngineAssumption
    DEF IInv, EndDisconnect, First, CloseFd,
        engineVars, threadVars, scanVars, socketVars
<1>1. TypeOK'
BY DEF TypeOK, SocketTypeOK, PCs, Buckets
<1>2. Maps'
  BY DEF Maps, Sorting, Reporting, TypeOK, Ids, Buckets, Compared,
      InCallback, NoBuckets
<1>3. Holds' BY DEF Holds, Sorting
<1>4. Told'
  BY DEF Told, DisconnectOnce, Held, InCallback, TypeOK, SocketTypeOK, Ids,
      Maps, Reporting, Buckets, First, NoBuckets
<1>5. Owned'
  BY DEF Owned, DescriptorsOwned, NothingDialled, Held, TypeOK,
      SocketTypeOK, Ids, Maps, Buckets
<1> QED BY <1>1, <1>2, <1>3, <1>4, <1>5

(* The reaping ends when nothing is left to report.                        *)
LEMMA ReapDoneStep == ASSUME IInv, ReapDone PROVE IInv'
<1> USE SocketAssumption, EngineAssumption
    DEF IInv, ReapDone,
        engineVars, threadVars, scanVars, socketVars
<1>1. TypeOK' BY DEF TypeOK, SocketTypeOK, PCs
<1>2. Maps' BY DEF Maps, Sorting, Reporting
<1>3. Holds' BY DEF Holds, Sorting
<1>4. Told' BY DEF Told, DisconnectOnce, Held, InCallback
<1>5. Owned' BY DEF Owned, DescriptorsOwned, NothingDialled, Held
<1> QED BY <1>1, <1>2, <1>3, <1>4, <1>5

(* socket() gives a socket of the map a descriptor nobody has.             *)
LEMMA DialOpenStep == ASSUME IInv, DialOpen PROVE IInv'
<1> USE SocketAssumption, EngineAssumption
    DEF IInv, DialOpen, First, RealConnectOpen, OpenFd, Lowest, SetStatus,
        engineVars, threadVars, scanVars, socketVars
<1>1. TypeOK'
BY DEF TypeOK, SocketTypeOK, PCs, Status, Buckets
<1>2. Maps'
  BY DEF Maps, Sorting, Reporting, TypeOK, SocketTypeOK, Ids, Buckets,
      NoBuckets, Compared, Status, InCallback
<1>3. Holds' BY DEF Holds, Sorting
<1>4. Told' BY DEF Told, DisconnectOnce, Held, InCallback
<1>5. Owned'
  BY SMTT(30) DEF Owned, DescriptorsOwned, NothingDialled, Held, TypeOK,
      SocketTypeOK, Ids, Fds, Maps, Sorting, Reporting, Holds, Buckets,
      NoBuckets, InCallback
<1> QED BY <1>1, <1>2, <1>3, <1>4, <1>5

(* connect()'s outcome; the socket stays in the map.                       *)
LEMMA DialResultStep == ASSUME IInv, DialResult PROVE IInv'
<1> USE SocketAssumption, EngineAssumption
    DEF IInv, DialResult, First, RealConnectResult, ConnectFailed, SetStatus,
        engineVars, threadVars, scanVars, socketVars
<1>1. TypeOK' BY DEF TypeOK, SocketTypeOK, Status, Buckets, PCs
<1>2. Maps'
  BY DEF Maps, Sorting, Reporting, TypeOK, SocketTypeOK, Ids, Buckets,
      NoBuckets, Compared, Status, InCallback
<1>3. Holds' BY DEF Holds, Sorting
<1>4. Told' BY DEF Told, DisconnectOnce, Held, InCallback
<1>5. Owned' BY DEF Owned, DescriptorsOwned, NothingDialled, Held
<1> QED BY <1>1, <1>2, <1>3, <1>4, <1>5

(* After dialling both other maps are empty, so the pass ends here and     *)
(* never goes on to serve.                                                 *)
LEMMA DialDoneStep == ASSUME IInv, DialDone PROVE IInv'
<1> USE SocketAssumption, EngineAssumption
    DEF IInv, DialDone,
        engineVars, threadVars, scanVars, socketVars
<1>1. TypeOK' BY DEF TypeOK, SocketTypeOK, PCs
<1>2. Maps' BY DEF Maps, Sorting, Reporting
<1>3. Holds' BY DEF Holds, Sorting
<1>4. Told' BY DEF Told, DisconnectOnce, Held, InCallback
<1>5. Owned' BY DEF Owned, DescriptorsOwned, NothingDialled, Held
<1> QED BY <1>1, <1>2, <1>3, <1>4, <1>5

-----------------------------------------------------------------------------
(* The end of the thread.                                                  *)

(* afterThread moves the whole map to what is to be reported.              *)
LEMMA ExitStep == ASSUME IInv, Exit PROVE IInv'
<1> USE SocketAssumption, EngineAssumption
    DEF IInv, Exit, Taken, Left,
        engineVars, threadVars, scanVars, socketVars
<1>1. TypeOK' BY DEF TypeOK, SocketTypeOK, Buckets, Ids, PCs
<1>2. Maps'
  BY DEF Maps, Sorting, Reporting, TypeOK, Ids, Buckets, Compared,
      InCallback, NoBuckets
<1>3. Holds' BY DEF Holds, Sorting
<1>4. Told' BY DEF Told, DisconnectOnce, Held, InCallback
<1>5. Owned' BY DEF Owned, DescriptorsOwned, NothingDialled, Held
<1> QED BY <1>1, <1>2, <1>3, <1>4, <1>5

(* quit_ is set when everything taken has been reported.                   *)
LEMMA QuitStep == ASSUME IInv, Quit PROVE IInv'
<1> USE SocketAssumption, EngineAssumption
    DEF IInv, Quit, SweepOver, SetQuit,
        engineVars, threadVars, scanVars, socketVars
<1>1. TypeOK' BY DEF TypeOK, SocketTypeOK, PCs
<1>2. Maps' BY DEF Maps, Sorting, Reporting
<1>3. Holds' BY DEF Holds, Sorting
<1>4. Told' BY DEF Told, DisconnectOnce, Held, InCallback
<1>5. Owned' BY DEF Owned, DescriptorsOwned, NothingDialled, Held
<1> QED BY <1>1, <1>2, <1>3, <1>4, <1>5

-----------------------------------------------------------------------------
(* The invariant is inductive: every step of any thread preserves it.      *)
LEMMA NextIInv == IInv /\ [Next]_vars => IInv'
<1> SUFFICES ASSUME IInv, [Next]_vars PROVE IInv'
  OBVIOUS
<1>1. CASE Start
  BY <1>1, StartStep
<1>2. CASE StopBegin
  BY <1>2, StopBeginStep
<1>3. CASE StopReturn
  BY <1>3, StopReturnStep
<1>4. ASSUME NEW t \in Threads, Begin(t) \/ CallStep(t) PROVE IInv'
  BY <1>4, BeginStep, AddStep, QueryStep, ConnectStep, StartConnectStep, CloseStep
     DEF CallStep
<1>5. CASE Scan
  BY <1>5, NextComparisonStep, ClassifyStep, FallThroughStep, ScanDoneStep DEF Scan
<1>6. CASE Loop \/ FirstLock \/ IdleDispatch \/ Relock
  BY <1>6, LoopStep, FirstLockStep, IdleDispatchStep, RelockStep
<1>7. CASE ReportDisconnect \/ EndDisconnect \/ ReapDone
  BY <1>7, ReportDisconnectStep, EndDisconnectStep, ReapDoneStep
<1>8. CASE DialOpen \/ DialResult \/ DialDone
  BY <1>8, DialOpenStep, DialResultStep, DialDoneStep
<1>9. CASE Exit \/ Quit
  BY <1>9, ExitStep, QuitStep
<1>10. CASE UNCHANGED vars
  <2> USE <1>10 DEF IInv, vars, engineVars, threadVars, scanVars, socketVars
  <2>1. TypeOK'
    BY DEF TypeOK, SocketTypeOK
  <2>2. Maps' /\ Holds'
    BY DEF Maps, Holds
  <2>3. Told'
    BY DEF Told, DisconnectOnce, Held, InCallback
  <2>4. Owned'
    BY DEF Owned, DescriptorsOwned, NothingDialled, Held
  <2> QED BY <2>1, <2>2, <2>3, <2>4
<1> QED
  BY <1>1, <1>2, <1>3, <1>4, <1>5, <1>6, <1>7, <1>8, <1>9, <1>10 DEF Next, WorkerStep

(* Every reachable state satisfies the invariant.                          *)
THEOREM Invariance == Spec => []IInv
<1> QED BY InitIInv, NextIInv, PTL DEF Spec

(* Every variable keeps its type; in particular mutex_ is never unlocked   *)
(* more often than it was locked.                                          *)
THEOREM TypeCorrect == Spec => []TypeOK
<1>1. IInv => TypeOK
  BY DEF IInv
<1> QED BY <1>1, Invariance, PTL

(* No handler hears OnDisconnect twice, and what has been reported is not  *)
(* held any more.                                                          *)
THEOREM DisconnectedOnce == Spec => []DisconnectOnce
<1>1. IInv => DisconnectOnce
  BY DEF IInv, Told
<1> QED BY <1>1, Invariance, PTL

(* What RealDisconnect will close is open and belongs to one socket only.  *)
THEOREM OwnedDescriptors == Spec => []DescriptorsOwned
<1>1. IInv => DescriptorsOwned
  BY DEF IInv, Owned
<1> QED BY <1>1, Invariance, PTL

(* The part of readThread that waits for and serves connected sockets is   *)
(* dead code: no execution of any build reaches it.                        *)
THEOREM NeverServes == Spec => []NothingServed
<1>1. IInv => NothingServed
  BY DEF IInv, Maps, NothingServed
<1> QED BY <1>1, Invariance, PTL

(* Where the mutex is not recursive no socket is ever given a descriptor.  *)
THEOREM NeverDials == Spec => []NothingDialled
<1>1. IInv => NothingDialled
  BY DEF IInv, Owned
<1> QED BY <1>1, Invariance, PTL

(* mutex_, once held between two steps, is held for ever.                  *)
THEOREM MutexKept == Spec => MutexNeverReleased
<1>1. IInv /\ [Next]_vars => [depth > 0 => depth' > 0]_vars
  <2> SUFFICES ASSUME IInv, Next, depth > 0 PROVE depth' > 0
    BY DEF vars, engineVars
  <2> USE EngineAssumption DEF IInv, TypeOK, engineVars, Lock, Unlock
  <2>1. CASE FallThrough \/ ScanDone
    BY <2>1 DEF FallThrough, ScanDone, Holds
  <2>2. CASE FirstLock
    BY <2>2 DEF FirstLock, Lock
  <2>3. CASE Relock
    BY <2>3 DEF Relock
  <2>4. CASE Start \/ StopBegin \/ StopReturn
    BY <2>4 DEF Start, StopBegin, StopReturn
  <2>5. ASSUME NEW t \in Threads, Begin(t) \/ CallStep(t) PROVE depth' > 0
    BY <2>5 DEF Begin, CallStep, Add, Query, Connect, StartConnect, Close
  <2>6. CASE Loop \/ IdleDispatch \/ NextComparison \/ Classify
    BY <2>6 DEF Loop, IdleDispatch, NextComparison, Classify
  <2>7. CASE ReportDisconnect \/ EndDisconnect \/ ReapDone
    BY <2>7 DEF ReportDisconnect, EndDisconnect, ReapDone
  <2>8. CASE DialOpen \/ DialResult \/ DialDone \/ Exit \/ Quit
    BY <2>8 DEF DialOpen, DialResult, DialDone, Exit, Quit
  <2> QED
    BY <2>1, <2>2, <2>3, <2>4, <2>5, <2>6, <2>7, <2>8 DEF Next, WorkerStep, Scan
<1> QED BY <1>1, Invariance, PTL DEF Spec, MutexNeverReleased

(* A socket whose handler has heard OnDisconnect never dials again.        *)
THEOREM NeverRedials == Spec => NoDialAfterDisconnect
<1>1. IInv /\ [Next]_vars =>
        [\A i \in Ids : disconnects[i] > 0 => fd'[i] = fd[i]]_vars
  <2> SUFFICES ASSUME IInv, Next PROVE \A i \in Ids : disconnects[i] > 0 => fd'[i] = fd[i]
    BY DEF vars, socketVars
  <2>1. CASE DialOpen
    <3>1. PICK j \in bucket["start_connect"] : RealConnectOpen(j)
      BY <2>1 DEF DialOpen
    <3>2. j \in Ids /\ disconnects[j] = 0
      BY <2>1 DEF DialOpen, IInv, TypeOK, SocketTypeOK, Maps, Told, DisconnectOnce, Held,
                  InCallback, Buckets, Ids
    <3> QED
      BY <3>1, <3>2 DEF RealConnectOpen, OpenFd, IInv, TypeOK, SocketTypeOK
  <2>2. ASSUME Next, ~DialOpen PROVE fd' = fd
    <3> USE DEF socketVars
    <3>1. CASE Start \/ StopBegin \/ StopReturn
      BY <3>1 DEF Start, StopBegin, StopReturn
    <3>2. ASSUME NEW t \in Threads, Begin(t) \/ CallStep(t) PROVE fd' = fd
      BY <3>2 DEF Begin, CallStep, Add, Query, Connect, StartConnect, Close
    <3>3. CASE Loop \/ FirstLock \/ IdleDispatch \/ Relock \/ Scan
      BY <3>3 DEF Loop, FirstLock, IdleDispatch, Relock, Scan, NextComparison, Classify,
                  FallThrough, ScanDone
    <3>4. CASE ReportDisconnect \/ EndDisconnect \/ ReapDone
      BY <3>4 DEF ReportDisconnect, EndDisconnect, CloseFd, ReapDone
    <3>5. CASE DialResult \/ DialDone \/ Exit \/ Quit
      BY <3>5 DEF DialResult, RealConnectResult, DialDone, Exit, Quit
    <3> QED BY <2>2, <3>1, <3>2, <3>3, <3>4, <3>5 DEF Next, WorkerStep
  <2> QED BY <2>1, <2>2
<1> QED BY <1>1, Invariance, PTL DEF Spec, NoDialAfterDisconnect

-----------------------------------------------------------------------------
(* Steps that neither add a socket nor report one are invisible to the     *)
(* handlers' contract.                                                     *)
LEMMA OtherSteps ==
  ASSUME Next, ~ReportDisconnect, ~DialResult, \A t \in Threads : ~Add(t)
  PROVE  UNCHANGED <<lastId, disconnects>>
<1> USE DEF engineVars, socketVars
<1>1. CASE Start \/ StopBegin \/ StopReturn
  BY <1>1 DEF Start, StopBegin, StopReturn
<1>2. ASSUME NEW t \in Threads, Begin(t) \/ CallStep(t)
      PROVE  UNCHANGED <<lastId, disconnects>>
  BY <1>2 DEF Begin, CallStep, Query, Connect, StartConnect, Close
<1>3. CASE Loop \/ FirstLock \/ IdleDispatch \/ Relock \/ Scan
  BY <1>3 DEF Loop, FirstLock, IdleDispatch, Relock, Scan, NextComparison, Classify,
              FallThrough, ScanDone
<1>4. CASE EndDisconnect \/ ReapDone \/ DialOpen
  BY <1>4 DEF EndDisconnect, CloseFd, ReapDone, DialOpen, RealConnectOpen
<1>5. CASE DialDone \/ Exit \/ Quit
  BY <1>5 DEF DialDone, Exit, Quit
<1> QED BY <1>1, <1>2, <1>3, <1>4, <1>5 DEF Next, WorkerStep

(* connect()'s outcome is not the handler's business either.               *)
LEMMA DialResultSilent ==
  ASSUME DialResult PROVE UNCHANGED <<lastId, disconnects>>
<1> QED BY DEF DialResult, RealConnectResult, ConnectFailed, engineVars

(* The engine implements the contract of its handlers: each of its steps   *)
(* is Create, OnDisconnect or invisible.                                   *)
THEOREM Implementation == Spec => ImplementsContract
<1>1. ASSUME Init PROVE Contract!Init
  <2>1. Phases = [i \in Ids |-> IF i <= 0 THEN "created" ELSE "absent"]
    BY <1>1, SocketAssumption DEF Init, SocketInit, Phases, Phase, Ids
  <2>2. 0 \in 0 .. MaxSockets
    BY SocketAssumption
  <2> QED BY <2>1, <2>2 DEF Contract!Init, Contract!Ids, Ids
<1>2. ASSUME IInv, [Next]_vars PROVE [Contract!Next]_Phases
  <2> USE SocketAssumption DEF Phases, Phase
  <2>1. lastId \in Nat /\ disconnects \in [Ids -> Nat]
    BY <1>2 DEF IInv, TypeOK, SocketTypeOK
  <2>2. ASSUME NEW t \in Threads, Add(t) PROVE Contract!Next
    <3>1. PICK n \in Ids : n = lastId + 1 /\ lastId' = n /\ disconnects' = disconnects
      BY <2>1, <2>2 DEF Add, Ids, socketVars
    <3>2. disconnects[n] = 0 /\ \A j \in Ids : disconnects[j] <= 1
      BY <1>2, <2>1, <3>1 DEF IInv, Told, DisconnectOnce
    <3>3. Phases[n] = "absent" /\ Phases' = [Phases EXCEPT ![n] = "created"]
      <4>1. Phase(n) = "absent" /\ Phase(n)' = "created"
        BY <2>1, <3>1, <3>2 DEF Ids
      <4>2. \A j \in Ids \ {n} : Phase(j)' = Phase(j)
        BY <2>1, <3>1, <3>2 DEF Ids
      <4> QED BY <3>1, <4>1, <4>2 DEF Phases
    <3>4. \A j \in Ids : j < n => Phases[j] # "absent"
      BY <2>1, <3>1, <3>2 DEF Ids
    <3> QED BY <3>1, <3>3, <3>4 DEF Contract!Next, Contract!Create, Contract!Becomes,
                                Contract!Ids, Ids
  <2>3. CASE ReportDisconnect
    <3>1. PICK i \in bucket["disconnect"] :
            First(bucket["disconnect"], i) /\ CallOnDisconnect(i)
      BY <2>3 DEF ReportDisconnect
    <3>2. i \in Ids /\ i <= lastId /\ disconnects[i] = 0 /\ lastId' = lastId
      BY <1>2, <2>1, <2>3, <3>1
         DEF IInv, Maps, Told, DisconnectOnce, Held, InCallback, ReportDisconnect, Ids,
             TypeOK, engineVars
    <3>3. disconnects' = [disconnects EXCEPT ![i] = 1]
      BY <2>1, <3>1, <3>2 DEF CallOnDisconnect
    <3>4. Phases[i] = "created" /\ Phases' = [Phases EXCEPT ![i] = "OnDisconnect"]
      <4>1. Phase(i) = "created" /\ Phase(i)' = "OnDisconnect"
        BY <2>1, <3>2, <3>3 DEF Ids
      <4>2. \A j \in Ids \ {i} : Phase(j)' = Phase(j)
        BY <2>1, <3>2, <3>3
      <4> QED BY <3>2, <4>1, <4>2 DEF Phases
    <3> QED BY <3>2, <3>4 DEF Contract!Next, Contract!OnDisconnect,
                           Contract!Becomes, Contract!Talking, Contract!Ids, Ids
  <2>4. CASE DialResult
    BY <2>4, DialResultSilent
  <2>5. CASE UNCHANGED vars
    BY <2>5 DEF vars, engineVars, socketVars
  <2>6. CASE Next /\ ~ReportDisconnect /\ ~DialResult /\ \A t \in Threads : ~Add(t)
    BY <2>6, OtherSteps
  <2> QED BY <1>2, <2>2, <2>3, <2>4, <2>5, <2>6
<1> QED BY <1>1, <1>2, Invariance, PTL DEF Spec, ImplementsContract, Contract!Spec

-----------------------------------------------------------------------------
(* One thread that calls, and handlers that do not: then no two threads    *)
(* read and write the status of the same socket in turn, and more holds.   *)

SingleCaller == ~HandlerCalls /\ \A t, u \in Users : t = u

(* A call has a socket to work on, and a Connect that has read INIT still  *)
(* writes over INIT, as long as the thread scans.                          *)
Undisturbed ==
  /\ call[Worker] = NoCall
  /\ \A t \in Threads :
       /\ call[t].at \in {"connect", "start", "close"} => call[t].id \in Ids
       /\ call[t].at = "start" /\ Scanned => status[call[t].id] = "INIT"

(* The status of the socket the scan looks at is still ahead of the scan,  *)
(* and a socket to dial has left INIT behind.                              *)
Ahead ==
  /\ pc = "scan" => \A i \in todo : First(todo, i) =>
                      \A k \in 1 .. 4 : k < probe => status[i] # Compared[k]
  /\ todo = {} => probe = 1
  /\ \A i \in bucket["start_connect"] : status[i] # "INIT"

(* Every socket is in the map, to be reported, or has been.                *)
Accounted ==
  /\ \A i \in 1 .. lastId : i \in Held \/ disconnects[i] = 1
  /\ InCallback => \A i \in bucket["disconnect"] :
                     First(bucket["disconnect"], i) => disconnects[i] = 1

SingleInv == IInv /\ Undisturbed /\ Ahead /\ Accounted

(* Where connect() always fails, a socket is given a descriptor once, on   *)
(* its way from START_CONNECT to DISCONNECTED.                             *)
Dialling(i) == pc = "dialling" /\ First(bucket["start_connect"], i)
DialledOnce ==
  /\ \A i \in Ids : status[i] # "CONNECTING"
  /\ \A i \in Ids : Scanned /\ status[i] \in {"INIT", "START_CONNECT"} =>
       fd[i] = 0 \/ Dialling(i)
  /\ \A i \in bucket["start_connect"] : fd[i] = 0 \/ Dialling(i)

LeakInv == SingleInv /\ DialledOnce /\ NoLeak

-----------------------------------------------------------------------------
(* Nothing has been called and no socket exists.                           *)
LEMMA InitSingleInv == Init => SingleInv
<1> SUFFICES ASSUME Init PROVE SingleInv
  OBVIOUS
<1> USE SocketAssumption, EngineAssumption DEF Init, SocketInit
<1>1. IInv
  BY InitIInv
<1>2. Undisturbed
  BY DEF Undisturbed, NoCall, Threads
<1>3. Ahead
  BY DEF Ahead, NoBuckets, Buckets
<1>4. Accounted
  BY DEF Accounted, InCallback
<1> QED BY <1>1, <1>2, <1>3, <1>4 DEF SingleInv

(* No step leads back from the sweep at thread exit to the scan.           *)
LEMMA ScannedBefore == ASSUME Next, Scanned' PROVE Scanned
<1> USE DEF Scanned
<1>1. CASE Start \/ StopBegin \/ StopReturn
  BY <1>1 DEF Start, StopBegin, StopReturn
<1>2. ASSUME NEW t \in Threads, Begin(t) \/ CallStep(t) PROVE Scanned
  BY <1>2 DEF Begin, CallStep, Add, Query, Connect, StartConnect, Close
<1>3. CASE Loop \/ FirstLock \/ IdleDispatch \/ Relock \/ Scan
  BY <1>3 DEF Loop, FirstLock, IdleDispatch, Relock, Scan, NextComparison, Classify,
              FallThrough, ScanDone
<1>4. CASE ReportDisconnect \/ EndDisconnect \/ ReapDone
  BY <1>4 DEF ReportDisconnect, EndDisconnect, ReapDone
<1>5. CASE DialOpen \/ DialResult \/ DialDone \/ Exit \/ Quit
  BY <1>5 DEF DialOpen, DialResult, DialDone, Exit, Quit
<1> QED BY <1>1, <1>2, <1>3, <1>4, <1>5 DEF Next, WorkerStep

(* What one call does to itself: it works on a socket that exists, and     *)
(* only Socket::Connect's test of status_ leads to its write.              *)
LEMMA CallsUndisturbed ==
  ASSUME SingleCaller, SingleInv, NEW t \in Threads, Begin(t) \/ CallStep(t)
  PROVE  Undisturbed'
<1> USE SocketAssumption, EngineAssumption
    DEF SingleInv, IInv, TypeOK, SocketTypeOK, Undisturbed, Threads, Scanned
<1>0. t \in Users
  BY DEF SingleCaller, Begin, MayCall, CallStep, Add, Query, Connect, StartConnect, Close,
         NoCall
<1>1. \A u \in Threads : u # t => call[u].at # "start"
  <2> SUFFICES ASSUME NEW u \in Threads, u # t PROVE call[u].at # "start"
    OBVIOUS
  <2>1. u = Worker
    BY <1>0 DEF SingleCaller
  <2> QED BY <2>1 DEF NoCall
<1>2. CASE Begin(t)
  <2>1. UNCHANGED <<pc, status>>
    BY <1>2 DEF Begin, socketVars
  <2>2. ASSUME NEW stage \in {"add", "queryConnect", "queryClose"}, NEW i, GoTo(t, stage, i)
        PROVE  Undisturbed'
    BY <1>0, <2>1, <2>2 DEF GoTo
  <2> QED BY <1>2, <2>2 DEF Begin
<1>3. CASE Add(t)
  BY <1>0, <1>3 DEF Add, EndCall, NoCall, socketVars
<1>4. CASE Query(t)
  <2>1. \/ call' = [call EXCEPT ![t] = NoCall]
        \/ /\ call[t].id \in Ids
           /\ \E stage \in {"connect", "close"} :
                call' = [call EXCEPT ![t] = [at |-> stage, id |-> call[t].id]]
    BY <1>4 DEF Query, EndCall, GoTo, Ids
  <2>2. UNCHANGED <<pc, status>>
    BY <1>4 DEF Query, socketVars
  <2> QED BY <1>0, <2>1, <2>2 DEF NoCall
<1>5. CASE Connect(t)
  BY <1>0, <1>5 DEF Connect, EndCall, GoTo, NoCall, socketVars
<1>6. CASE StartConnect(t)
  BY <1>0, <1>1, <1>6 DEF StartConnect, EndCall, NoCall, SetStatus
<1>7. CASE Close(t)
  BY <1>0, <1>1, <1>7 DEF Close, EndCall, NoCall, SetStatus
<1> QED BY <1>2, <1>3, <1>4, <1>5, <1>6, <1>7 DEF CallStep

(* The engine's steps leave the calls alone, and no status goes back to or *)
(* away from INIT before a Connect in progress has written it.             *)
LEMMA UndisturbedStep ==
  ASSUME SingleCaller, SingleInv, Next PROVE Undisturbed'
<1> USE SocketAssumption, EngineAssumption
    DEF SingleInv, IInv, TypeOK, SocketTypeOK
<1>1. ASSUME UNCHANGED <<call, status>> PROVE Undisturbed'
  BY <1>1, ScannedBefore DEF Undisturbed
<1>2. CASE Start \/ StopBegin \/ StopReturn
  BY <1>1, <1>2 DEF Start, StopBegin, StopReturn, socketVars
<1>3. ASSUME NEW t \in Threads, Begin(t) \/ CallStep(t) PROVE Undisturbed'
  BY <1>3, CallsUndisturbed
<1>4. CASE Loop \/ FirstLock \/ IdleDispatch \/ Relock \/ Scan
  BY <1>1, <1>4 DEF Loop, FirstLock, IdleDispatch, Relock, Scan, NextComparison, Classify,
              FallThrough, ScanDone, socketVars
<1>5. CASE EndDisconnect \/ ReapDone \/ DialDone \/ Exit \/ Quit
  BY <1>1, <1>5 DEF EndDisconnect, CloseFd, ReapDone, DialDone, Exit, Quit, socketVars
<1>6. CASE ReportDisconnect
  <2>1. call' = call /\ (status' = status \/ ~Scanned')
    BY <1>6 DEF ReportDisconnect, Scanned
  <2>2. CASE ~Scanned'
    BY <2>1, <2>2 DEF Undisturbed
  <2> QED BY <1>1, <2>1, <2>2
<1>7. CASE DialOpen
  <2>1. PICK i \in bucket["start_connect"] : RealConnectOpen(i)
    BY <1>7 DEF DialOpen
  <2>2. call' = call /\ status[i] # "INIT" /\ \A j \in Ids \ {i} : status'[j] = status[j]
    BY <1>7, <2>1 DEF DialOpen, RealConnectOpen, SetStatus, Ahead
  <2> QED BY <2>2, ScannedBefore DEF Undisturbed
<1>8. CASE DialResult
  <2>1. PICK i \in bucket["start_connect"] : RealConnectResult(i)
    BY <1>8 DEF DialResult
  <2>2. call' = call /\ status[i] # "INIT" /\ \A j \in Ids \ {i} : status'[j] = status[j]
    BY <1>8, <2>1 DEF DialResult, RealConnectResult, ConnectFailed, SetStatus, Ahead
  <2> QED BY <2>2, ScannedBefore DEF Undisturbed
<1> QED
  BY <1>2, <1>3, <1>4, <1>5, <1>6, <1>7, <1>8 DEF Next, WorkerStep

(* Statuses only advance: INIT is written by nobody, and what a call       *)
(* writes lies ahead of what the scan has compared.                        *)
LEMMA AheadStep ==
  ASSUME SingleCaller, SingleInv, Next PROVE Ahead'
<1> USE SocketAssumption, EngineAssumption
    DEF SingleInv, IInv, TypeOK, SocketTypeOK
<1>1. ASSUME UNCHANGED <<todo, probe, bucket, status>>, pc' = "scan" => pc = "scan"
      PROVE  Ahead'
  BY <1>1 DEF Ahead, First
<1>2. CASE Start \/ StopBegin \/ StopReturn
  BY <1>1, <1>2 DEF Start, StopBegin, StopReturn, socketVars, scanVars
<1>3. ASSUME NEW t \in Threads,
             Begin(t) \/ Add(t) \/ Query(t) \/ Connect(t)
      PROVE  Ahead'
  BY <1>1, <1>3 DEF Begin, Add, Query, Connect, socketVars, scanVars
<1>4. ASSUME NEW t \in Threads, StartConnect(t) PROVE Ahead'
  <2> DEFINE i == call[t].id
  <2>1. i \in Ids /\ status' = [status EXCEPT ![i] = "START_CONNECT"]
    BY <1>4 DEF StartConnect, SetStatus, Undisturbed
  <2>2. UNCHANGED <<pc, todo, probe, bucket>>
    BY <1>4 DEF StartConnect, scanVars
  <2>3. pc = "scan" => status[i] = "INIT"
    BY <1>4 DEF StartConnect, Undisturbed, Scanned
  <2>4. ASSUME pc = "scan", NEW j \in todo, First(todo, j), NEW k \in 1 .. 4, k < probe
        PROVE  status'[j] # Compared[k]
    <3>1. status[j] # Compared[k] /\ status[j] # Compared[1]
      BY <2>4 DEF Ahead, Compared
    <3>2. CASE j = i
      BY <2>3, <2>4, <3>1, <3>2 DEF Compared
    <3>3. CASE j # i
      BY <2>1, <3>1, <3>3
    <3> QED BY <3>2, <3>3
  <2>5. \A j \in bucket["start_connect"] : status'[j] # "INIT"
    BY <2>1 DEF Ahead
  <2> QED BY <2>2, <2>4, <2>5 DEF Ahead, First
<1>5. ASSUME NEW t \in Threads, Close(t) PROVE Ahead'
  <2> DEFINE i == call[t].id
  <2>1. i \in Ids /\ status' = [status EXCEPT ![i] = "DISCONNECTED"]
    BY <1>5 DEF Close, SetStatus, Undisturbed
  <2>2. UNCHANGED <<pc, todo, probe, bucket>>
    BY <1>5 DEF Close, scanVars
  <2>3. \A k \in 1 .. 4 : Compared[k] # "DISCONNECTED"
    BY DEF Compared
  <2> QED BY <2>1, <2>2, <2>3 DEF Ahead, First
<1>6. CASE Loop \/ FirstLock \/ IdleDispatch \/ ScanDone
  BY <1>1, <1>6 DEF Loop, FirstLock, IdleDispatch, Fail, ScanDone, socketVars, scanVars
<1>7. CASE Relock
  <2>1. UNCHANGED <<probe, bucket, status>>
    BY <1>7 DEF Relock, socketVars
  <2>2. pc' = "scan" => probe = 1
    BY <1>7 DEF Relock, Maps, Ahead
  <2>3. todo' = {} => probe = 1
    BY <1>7 DEF Relock, Maps, Ahead
  <2> QED BY <2>1, <2>2, <2>3 DEF Ahead
<1>8. CASE NextComparison
  <2>1. PICK i \in todo : First(todo, i) /\ status[i] # Compared[probe]
    BY <1>8 DEF NextComparison
  <2>2. /\ pc = "scan" /\ probe \in 1 .. 4 /\ probe' = probe + 1
        /\ UNCHANGED <<pc, todo, bucket, status>>
    BY <1>8 DEF NextComparison, Compared, socketVars
  <2>3. \A j \in todo : First(todo, j) => j = i
    BY <2>1 DEF First, Ids
  <2> QED BY <2>1, <2>2, <2>3 DEF Ahead
<1>9. CASE Classify
  <2>1. PICK i \in todo :
          bucket' = IF status[i] = "INIT" THEN bucket
                    ELSE [bucket EXCEPT ![BucketOf(status[i])] = @ \cup {i}]
    BY <1>9 DEF Classify
  <2>2. probe' = 1 /\ status' = status
    BY <1>9 DEF Classify, socketVars
  <2>3. \A j \in bucket'["start_connect"] : status[j] # "INIT"
    BY <2>1 DEF Ahead, Buckets
  <2> QED BY <2>2, <2>3 DEF Ahead
<1>10. CASE FallThrough
  BY <1>10 DEF FallThrough, Fail, Ahead, NoBuckets, Buckets
<1>11. CASE ReportDisconnect
  <2>1. UNCHANGED <<todo, probe, bucket>> /\ pc' # "scan"
    BY <1>11 DEF ReportDisconnect, scanVars
  <2>2. \A i \in Ids : status[i] # "INIT" => status'[i] # "INIT"
    BY <1>11 DEF ReportDisconnect, SetStatus
  <2>3. bucket["start_connect"] \subseteq Ids
    BY DEF Buckets
  <2> QED BY <2>1, <2>2, <2>3 DEF Ahead
<1>12. CASE EndDisconnect \/ ReapDone \/ DialDone \/ Exit \/ Quit
  <2>1. UNCHANGED <<todo, probe, status>> /\ pc' # "scan"
    BY <1>12 DEF EndDisconnect, CloseFd, ReapDone, DialDone, Exit, Quit, socketVars, scanVars
  <2>2. bucket'["start_connect"] = bucket["start_connect"]
    BY <1>12 DEF EndDisconnect, ReapDone, DialDone, Exit, Quit, scanVars, Buckets
  <2> QED BY <2>1, <2>2 DEF Ahead
<1>13. CASE DialOpen \/ DialResult
  <2>1. /\ UNCHANGED <<todo, probe>> /\ pc' # "scan"
        /\ bucket'["start_connect"] \subseteq bucket["start_connect"]
    BY <1>13 DEF DialOpen, DialResult, scanVars, Buckets
  <2>2. \A i \in Ids : status[i] # "INIT" => status'[i] # "INIT"
    BY <1>13 DEF DialOpen, DialResult, RealConnectOpen, RealConnectResult, ConnectFailed,
                 SetStatus
  <2>3. bucket["start_connect"] \subseteq Ids
    BY DEF Buckets
  <2> QED BY <2>1, <2>2, <2>3 DEF Ahead
<1> QED
  BY <1>2, <1>3, <1>4, <1>5, <1>6, <1>7, <1>8, <1>9, <1>10, <1>11, <1>12, <1>13
     DEF Next, WorkerStep, CallStep, Scan

(* The last comparison cannot fail: what could be there has been compared, *)
(* and nothing went back.                                                  *)
LEMMA NeverFallsThrough == ASSUME SingleInv PROVE ~FallThrough
<1> SUFFICES ASSUME FallThrough PROVE FALSE
  OBVIOUS
<1> USE DEF SingleInv, IInv, TypeOK, SocketTypeOK
<1>1. PICK i \in todo : First(todo, i) /\ status[i] # Compared[5]
  BY DEF FallThrough
<1>2. \A k \in 1 .. 4 : status[i] # Compared[k]
  BY <1>1 DEF FallThrough, Ahead
<1>3. status[i] \notin Status
  BY <1>1, <1>2 DEF Compared, Status
<1> QED BY <1>1, <1>3

(* A socket leaves the map to be reported and is let go of when it has     *)
(* been; the scan never drops its local maps half way.                     *)
LEMMA AccountedStep ==
  ASSUME SingleCaller, SingleInv, Next PROVE Accounted'
<1> USE SocketAssumption, EngineAssumption
    DEF SingleInv, IInv, TypeOK, SocketTypeOK
<1>1. ASSUME UNCHANGED <<lastId, sockets, bucket, disconnects>>, ~InCallback'
      PROVE  Accounted'
  BY <1>1 DEF Accounted, Held
<1>2. ASSUME UNCHANGED <<lastId, sockets, bucket, disconnects, pc>> PROVE Accounted'
  BY <1>2 DEF Accounted, Held, InCallback, First
<1>3. CASE Start \/ StopBegin \/ StopReturn
  <2>1. CASE Start
    BY <1>1, <2>1 DEF Start, InCallback, engineVars, scanVars, socketVars
  <2>2. CASE StopBegin \/ StopReturn
    BY <1>2, <2>2 DEF StopBegin, StopReturn, engineVars, scanVars, socketVars
  <2> QED BY <1>3, <2>1, <2>2
<1>4. ASSUME NEW t \in Threads,
             Begin(t) \/ Query(t) \/ Connect(t) \/ StartConnect(t) \/ Close(t)
      PROVE  Accounted'
  BY <1>2, <1>4 DEF Begin, Query, Connect, StartConnect, Close, engineVars, scanVars,
                    socketVars
<1>5. ASSUME NEW t \in Threads, Add(t) PROVE Accounted'
  <2>1. /\ lastId' = lastId + 1 /\ sockets' = sockets \cup {lastId + 1}
        /\ UNCHANGED <<bucket, disconnects, pc>>
    BY <1>5 DEF Add, NewId, scanVars, socketVars
  <2> QED BY <2>1 DEF Accounted, Held, InCallback, First
<1>6. CASE Loop \/ FirstLock \/ IdleDispatch \/ Relock \/ NextComparison \/ ScanDone
  <2>1. UNCHANGED <<lastId, sockets, bucket, disconnects>>
    BY <1>6 DEF Loop, FirstLock, IdleDispatch, Relock, NextComparison, ScanDone,
                engineVars, scanVars, socketVars
  <2>2. pc' \notin {"inReap", "inSweep"}
    BY <1>6 DEF Loop, FirstLock, IdleDispatch, Fail, Relock, NextComparison, ScanDone
  <2> QED BY <1>1, <2>1, <2>2 DEF InCallback
<1>7. CASE Classify
  <2>1. PICK i \in todo :
          /\ bucket' = IF status[i] = "INIT" THEN bucket
                       ELSE [bucket EXCEPT ![BucketOf(status[i])] = @ \cup {i}]
          /\ sockets' = MapAfter(i)
    BY <1>7 DEF Classify
  <2>2. /\ UNCHANGED <<lastId, disconnects>> /\ pc' = "scan"
    BY <1>7 DEF Classify, socketVars
  <2>3. Held \subseteq Held'
    BY <2>1 DEF Held, MapAfter, BucketOf, Buckets, Status
  <2> QED BY <2>2, <2>3 DEF Accounted, InCallback
<1>8. CASE FallThrough
  BY <1>8, NeverFallsThrough
<1>9. CASE ReportDisconnect
  <2>1. PICK i \in bucket["disconnect"] :
          First(bucket["disconnect"], i) /\ CallOnDisconnect(i)
    BY <1>9 DEF ReportDisconnect
  <2>2. /\ UNCHANGED <<lastId, sockets, bucket>> /\ pc \in {"reap", "sweep"}
    BY <1>9 DEF ReportDisconnect, engineVars, scanVars
  <2>3. i \in Ids /\ disconnects[i] = 0
    <3>1. i \in Ids /\ i \in Held
      BY DEF Held, Buckets
    <3>2. ~InCallback
      BY <2>2 DEF InCallback
    <3>3. disconnects[i] <= 1 /\ disconnects[i] # 1
      BY <3>1, <3>2 DEF Told, DisconnectOnce
    <3> QED BY <3>1, <3>3
  <2>4. /\ disconnects'[i] = 1
        /\ \A j \in Ids \ {i} : disconnects'[j] = disconnects[j]
    BY <2>1, <2>3 DEF CallOnDisconnect
  <2>5. \A j \in bucket["disconnect"] : First(bucket["disconnect"], j) => j = i
    BY <2>1 DEF First, Buckets, Ids
  <2> QED BY <2>2, <2>4, <2>5 DEF Accounted, Held, First, Ids
<1>10. CASE EndDisconnect
  <2>1. PICK i \in bucket["disconnect"] :
          /\ First(bucket["disconnect"], i)
          /\ bucket' = [bucket EXCEPT !["disconnect"] = @ \ {i}]
    BY <1>10 DEF EndDisconnect
  <2>2. UNCHANGED <<lastId, sockets, disconnects>> /\ ~InCallback' /\ InCallback
    BY <1>10 DEF EndDisconnect, InCallback, CloseFd, engineVars
  <2>3. disconnects[i] = 1 /\ Held \subseteq Held' \cup {i}
    BY <2>1, <2>2 DEF Accounted, Held, Buckets
  <2> QED BY <2>2, <2>3 DEF Accounted
<1>11. CASE ReapDone \/ DialOpen \/ DialDone \/ Quit
  <2>1. UNCHANGED <<lastId, sockets, bucket, disconnects>>
    BY <1>11 DEF ReapDone, DialOpen, RealConnectOpen, DialDone, Quit, engineVars, scanVars,
                 socketVars
  <2>2. pc' \notin {"inReap", "inSweep"}
    BY <1>11 DEF ReapDone, DialOpen, DialDone, Quit
  <2> QED BY <1>1, <2>1, <2>2 DEF InCallback
<1>12. CASE DialResult
  <2>1. UNCHANGED <<lastId, sockets, disconnects>> /\ pc' = "dial"
    BY <1>12, DialResultSilent DEF DialResult, engineVars
  <2>2. bucket'["disconnect"] = bucket["disconnect"]
    BY <1>12 DEF DialResult, Buckets
  <2> QED BY <2>1, <2>2 DEF Accounted, Held, InCallback
<1>13. CASE Exit
  <2>1. UNCHANGED <<lastId, disconnects>> /\ pc = "exit" /\ pc' = "sweep"
    BY <1>13 DEF Exit, socketVars
  <2>2. Held' = sockets /\ bucket["disconnect"] = {}
    BY <1>13, <2>1 DEF Exit, Taken, Left, Held, Maps, Reporting, Buckets
  <2> QED BY <2>1, <2>2 DEF Accounted, Held, InCallback
<1> QED
  BY <1>3, <1>4, <1>5, <1>6, <1>7, <1>8, <1>9, <1>10, <1>11, <1>12, <1>13
     DEF Next, WorkerStep, CallStep, Scan

(* Where one thread calls, SingleInv is inductive.                         *)
LEMMA NextSingleInv == SingleCaller /\ SingleInv /\ [Next]_vars => SingleInv'
<1> SUFFICES ASSUME SingleCaller, SingleInv, [Next]_vars PROVE SingleInv'
  OBVIOUS
<1>1. CASE Next
  BY <1>1, NextIInv, UndisturbedStep, AheadStep, AccountedStep DEF SingleInv
<1>2. CASE UNCHANGED vars
  <2>1. IInv'
    BY <1>2, NextIInv DEF SingleInv
  <2>2. Undisturbed' /\ Ahead' /\ Accounted'
    BY <1>2 DEF SingleInv, Undisturbed, Ahead, Accounted, Scanned, First, Held, InCallback,
                vars, engineVars, scanVars, socketVars
  <2> QED BY <2>1, <2>2 DEF SingleInv
<1> QED BY <1>1, <1>2

(* With one calling thread, when the engine's thread has ended every       *)
(* socket it took out of the map has been reported, whatever statuses the  *)
(* calls changed under the scan, on every build and for every outcome of   *)
(* connect().  engine_none_lost shows a second caller break this.          *)
THEOREM NothingLost == SingleCaller /\ Spec => []NoneLost
<1> DEFINE J == SingleCaller /\ SingleInv
<1>1. SingleCaller /\ Init => J
  BY InitSingleInv
<1>2. J /\ [Next]_vars => J'
  BY NextSingleInv DEF SingleCaller
<1>3. J => NoneLost
  BY DEF SingleInv, IInv, TypeOK, Maps, Reporting, Accounted, Held, NoneLost
<1> QED BY <1>1, <1>2, <1>3, PTL DEF Spec

-----------------------------------------------------------------------------
(* Where connect() fails, no descriptor is forgotten.                      *)

AlwaysFails == ConnectResults = {"error"}

(* No socket has been dialled and nothing is open.                         *)
LEMMA InitLeakInv == Init => LeakInv
<1> SUFFICES ASSUME Init PROVE LeakInv
  OBVIOUS
<1>1. SingleInv
  BY InitSingleInv
<1>2. DialledOnce /\ NoLeak
  BY DEF Init, SocketInit, DialledOnce, NoLeak, NoBuckets, Buckets
<1> QED BY <1>1, <1>2 DEF LeakInv

(* A call cannot send a socket back to START_CONNECT: what it overwrites   *)
(* was INIT, never dialled.                                                *)
LEMMA CallsDialledOnce ==
  ASSUME SingleCaller, LeakInv, NEW t \in Threads, Begin(t) \/ CallStep(t)
  PROVE  DialledOnce'
<1> USE DEF LeakInv, SingleInv, IInv, TypeOK, SocketTypeOK
<1>1. CASE Begin(t) \/ Add(t) \/ Query(t) \/ Connect(t)
  BY <1>1 DEF Begin, Add, Query, Connect, DialledOnce, Dialling, First, Scanned, scanVars,
              socketVars
<1>2. ASSUME NEW i \in Ids, NEW s \in {"START_CONNECT", "DISCONNECTED"},
             SetStatus(i, s), UNCHANGED <<fd, pc, bucket>>,
             s = "START_CONNECT" /\ Scanned => status[i] = "INIT"
      PROVE  DialledOnce'
  <2>1. status' = [status EXCEPT ![i] = s]
    BY <1>2 DEF SetStatus
  <2>2. \A j \in Ids : status'[j] # "CONNECTING"
    BY <2>1 DEF DialledOnce
  <2>3. ASSUME NEW j \in Ids, Scanned, status'[j] \in {"INIT", "START_CONNECT"}
        PROVE  fd[j] = 0 \/ Dialling(j)
    <3>1. status[j] \in {"INIT", "START_CONNECT"}
      BY <1>2, <2>1, <2>3
    <3> QED BY <2>3, <3>1 DEF DialledOnce
  <2> QED BY <1>2, <2>2, <2>3 DEF DialledOnce, Dialling, First, Scanned
<1>3. CASE StartConnect(t)
  <2>1. call[t].id \in Ids /\ (Scanned => status[call[t].id] = "INIT")
    BY <1>3 DEF StartConnect, Undisturbed
  <2>2. SetStatus(call[t].id, "START_CONNECT") /\ UNCHANGED <<fd, pc, bucket>>
    BY <1>3 DEF StartConnect, scanVars
  <2> QED BY <1>2, <2>1, <2>2
<1>4. CASE Close(t)
  <2>1. call[t].id \in Ids
    BY <1>4 DEF Close, Undisturbed
  <2>2. SetStatus(call[t].id, "DISCONNECTED") /\ UNCHANGED <<fd, pc, bucket>>
    BY <1>4 DEF Close, scanVars
  <2> QED BY <1>2, <2>1, <2>2
<1> QED BY <1>1, <1>3, <1>4 DEF CallStep

(* RealConnect is the only step that gives a descriptor, and it leaves     *)
(* START_CONNECT behind for good.                                          *)
LEMMA DialledOnceStep ==
  ASSUME SingleCaller, AlwaysFails, LeakInv, Next PROVE DialledOnce'
<1> USE DEF LeakInv, SingleInv, IInv, TypeOK, SocketTypeOK
<1>1. ASSUME UNCHANGED <<status, fd>>, pc # "dialling",
             bucket'["start_connect"] = bucket["start_connect"]
      PROVE  DialledOnce'
  BY <1>1, ScannedBefore DEF DialledOnce, Dialling
<1>2. ASSUME UNCHANGED <<status, fd, pc, bucket>> PROVE DialledOnce'
  BY <1>2 DEF DialledOnce, Dialling, First, Scanned
<1>3. CASE Start
  BY <1>1, <1>3 DEF Start, scanVars, socketVars
<1>4. CASE StopBegin \/ StopReturn
  BY <1>2, <1>4 DEF StopBegin, StopReturn, scanVars, socketVars
<1>5. ASSUME NEW t \in Threads, Begin(t) \/ CallStep(t) PROVE DialledOnce'
  BY <1>5, CallsDialledOnce
<1>6. CASE Loop \/ FirstLock \/ IdleDispatch \/ Relock \/ NextComparison \/ ScanDone
  BY <1>1, <1>6 DEF Loop, FirstLock, IdleDispatch, Relock, NextComparison, ScanDone,
                    scanVars, socketVars
<1>7. CASE Classify
  <2>1. PICK i \in todo :
          bucket' = IF status[i] = "INIT" THEN bucket
                    ELSE [bucket EXCEPT ![BucketOf(status[i])] = @ \cup {i}]
    BY <1>7 DEF Classify
  <2>2. UNCHANGED <<status, fd>> /\ pc = "scan" /\ pc' = pc
    BY <1>7 DEF Classify, socketVars
  <2>3. \/ bucket'["start_connect"] = bucket["start_connect"]
        \/ /\ status[i] = "START_CONNECT"
           /\ bucket'["start_connect"] = bucket["start_connect"] \cup {i}
    BY <2>1 DEF BucketOf, Buckets, Status, DialledOnce, Maps
  <2>4. i \in Ids /\ Scanned /\ ~Dialling(i)
    BY <2>2 DEF Scanned, Dialling
  <2>5. \A j \in bucket'["start_connect"] : fd[j] = 0
    BY <2>2, <2>3, <2>4 DEF DialledOnce, Dialling
  <2> QED BY <2>2, <2>5 DEF DialledOnce, Dialling, Scanned
<1>8. CASE FallThrough
  BY <1>8, NeverFallsThrough
<1>9. CASE ReportDisconnect
  <2>1. fd' = fd /\ bucket' = bucket /\ pc # "dialling" /\ (status' = status \/ ~Scanned')
    BY <1>9 DEF ReportDisconnect, scanVars, Scanned
  <2>2. \A i \in Ids : status'[i] # "CONNECTING"
    BY <1>9 DEF ReportDisconnect, SetStatus, DialledOnce
  <2> QED BY <2>1, <2>2, ScannedBefore DEF DialledOnce, Dialling
<1>10. CASE EndDisconnect \/ ReapDone \/ DialDone \/ Exit \/ Quit
  <2>1. UNCHANGED <<status, fd>> /\ pc # "dialling"
    BY <1>10 DEF EndDisconnect, InCallback, CloseFd, ReapDone, DialDone, Exit, Quit,
                 socketVars
  <2>2. bucket'["start_connect"] = bucket["start_connect"]
    BY <1>10 DEF EndDisconnect, ReapDone, DialDone, Exit, Quit, scanVars, Buckets
  <2> QED BY <1>1, <2>1, <2>2
<1>11. CASE DialOpen
  <2>1. PICK i \in bucket["start_connect"] :
          First(bucket["start_connect"], i) /\ RealConnectOpen(i)
    BY <1>11 DEF DialOpen
  <2>2. pc = "dial" /\ pc' = "dialling" /\ bucket' = bucket
    BY <1>11 DEF DialOpen, scanVars
  <2>3. i \in Ids
    BY DEF Buckets
  <2>4. \A j \in Ids \ {i} : fd'[j] = fd[j] /\ status'[j] = status[j]
    BY <2>1, <2>3 DEF RealConnectOpen, OpenFd, SetStatus
  <2>5. status'[i] \in {"START_CONNECT", "DISCONNECTED"}
    BY <2>1, <2>3 DEF RealConnectOpen, SetStatus
  <2>6. Dialling(i)'
    BY <2>1, <2>2 DEF Dialling, First
  <2> QED BY <2>2, <2>4, <2>5, <2>6 DEF DialledOnce, Dialling, Scanned, Buckets
<1>12. CASE DialResult
  <2>1. PICK i \in bucket["start_connect"] :
          /\ First(bucket["start_connect"], i) /\ RealConnectResult(i)
          /\ bucket' = [bucket EXCEPT !["start_connect"] = @ \ {i}]
    BY <1>12 DEF DialResult
  <2>2. i \in Ids /\ \A j \in bucket["start_connect"] :
                       First(bucket["start_connect"], j) => j = i
    BY <2>1 DEF First, Buckets, Ids
  <2>3. status' = [status EXCEPT ![i] = "DISCONNECTED"] /\ fd' = fd
    BY <2>1 DEF RealConnectResult, ConnectFailed, SetStatus, AlwaysFails
  <2>4. bucket'["start_connect"] = bucket["start_connect"] \ {i} /\ Scanned
    BY <1>12, <2>1 DEF DialResult, Scanned, Buckets
  <2>5. \A j \in Ids \ {i} : ~Dialling(j)
    BY <2>2 DEF Dialling, First
  <2> QED BY <2>3, <2>4, <2>5 DEF DialledOnce, Buckets
<1> QED
  BY <1>3, <1>4, <1>5, <1>6, <1>7, <1>8, <1>9, <1>10, <1>11, <1>12
     DEF Next, WorkerStep, Scan

(* A descriptor stays with the socket it was opened for until that socket  *)
(* closes it and is let go of.                                             *)
LEMMA NoLeakStep ==
  ASSUME SingleCaller, AlwaysFails, LeakInv, Next PROVE NoLeak'
<1> USE SocketAssumption DEF LeakInv, SingleInv, IInv, TypeOK, SocketTypeOK
<1>1. ASSUME UNCHANGED <<fd, open>>, Held \subseteq Held' PROVE NoLeak'
  BY <1>1 DEF NoLeak
<1>2. CASE Start \/ StopBegin \/ StopReturn
  BY <1>1, <1>2 DEF Start, StopBegin, StopReturn, Held, engineVars, scanVars, socketVars
<1>3. ASSUME NEW t \in Threads, Begin(t) \/ CallStep(t) PROVE NoLeak'
  BY <1>1, <1>3 DEF Begin, CallStep, Add, Query, Connect, StartConnect, Close, Held,
                    engineVars, scanVars, socketVars
<1>4. CASE Loop \/ FirstLock \/ IdleDispatch \/ Relock \/ NextComparison \/ ScanDone
  BY <1>1, <1>4 DEF Loop, FirstLock, IdleDispatch, Relock, NextComparison, ScanDone, Held,
                    engineVars, scanVars, socketVars
<1>5. CASE Classify
  <2>1. PICK i \in todo :
          /\ bucket' = IF status[i] = "INIT" THEN bucket
                       ELSE [bucket EXCEPT ![BucketOf(status[i])] = @ \cup {i}]
          /\ sockets' = MapAfter(i)
    BY <1>5 DEF Classify
  <2>2. Held \subseteq Held'
    BY <2>1 DEF Held, MapAfter, BucketOf, Buckets, Status
  <2> QED BY <1>1, <1>5, <2>2 DEF Classify, socketVars
<1>6. CASE FallThrough
  BY <1>6, NeverFallsThrough
<1>7. CASE ReportDisconnect \/ ReapDone \/ DialDone \/ Quit
  BY <1>1, <1>7 DEF ReportDisconnect, ReapDone, DialDone, Quit, Held, engineVars, scanVars,
                    socketVars
<1>8. CASE EndDisconnect
  <2>1. PICK i \in bucket["disconnect"] :
          /\ open' = open \ {fd[i]} /\ fd' = fd
          /\ bucket' = [bucket EXCEPT !["disconnect"] = @ \ {i}]
    BY <1>8 DEF EndDisconnect, CloseFd
  <2>2. Held \ {i} \subseteq Held'
    BY <1>8, <2>1 DEF EndDisconnect, Held, Buckets, engineVars
  <2> QED BY <2>1, <2>2 DEF NoLeak
<1>9. CASE DialOpen
  <2>1. PICK i \in bucket["start_connect"] : RealConnectOpen(i)
    BY <1>9 DEF DialOpen
  <2>2. Held' = Held /\ i \in Held /\ i \in Ids
    BY <1>9 DEF DialOpen, Held, Maps, Buckets, engineVars, scanVars
  <2>3. fd[i] = 0
    BY <1>9 DEF DialOpen, DialledOnce, Dialling
  <2>4. \A j \in Ids \ {i} : fd'[j] = fd[j]
    BY <2>1, <2>2 DEF RealConnectOpen, OpenFd
  <2>5. open' \subseteq open \cup {fd'[i]}
    BY <2>1, <2>2 DEF RealConnectOpen, OpenFd
  <2>6. Held \subseteq Ids
    <3>1. sockets \subseteq Ids
      BY DEF Ids
    <3>2. bucket["disconnect"] \subseteq Ids
      BY DEF Buckets
    <3> QED BY <3>1, <3>2 DEF Held
  <2>7. \A f \in open : \E j \in Held : f = fd[j] /\ j # i
    BY <2>3 DEF NoLeak, Fds
  <2> QED BY <2>2, <2>4, <2>5, <2>6, <2>7 DEF NoLeak
<1>10. CASE DialResult
  <2>1. UNCHANGED <<fd, open, sockets>>
    BY <1>10 DEF DialResult, RealConnectResult, engineVars
  <2>2. bucket'["disconnect"] = bucket["disconnect"]
    BY <1>10 DEF DialResult, Buckets
  <2> QED BY <1>1, <2>1, <2>2 DEF Held
<1>11. CASE Exit
  <2>1. bucket["disconnect"] = {} /\ Held' = sockets
    BY <1>11 DEF Exit, Taken, Left, Held, Maps, Reporting, Buckets
  <2> QED BY <1>1, <1>11, <2>1 DEF Exit, Held, socketVars
<1> QED
  BY <1>2, <1>3, <1>4, <1>5, <1>6, <1>7, <1>8, <1>9, <1>10, <1>11
     DEF Next, WorkerStep, Scan

(* Where connect() always fails, as it does for an empty address on Linux  *)
(* and the BSDs, and one thread calls, every open descriptor belongs to a  *)
(* socket the engine still holds: each is opened once and closed as its    *)
(* socket is let go of.                                                    *)
THEOREM NothingLeaks == SingleCaller /\ AlwaysFails /\ Spec => []NoLeak
<1> DEFINE J == SingleCaller /\ AlwaysFails /\ LeakInv
<1>1. SingleCaller /\ AlwaysFails /\ Init => J
  BY InitLeakInv
<1>2. J /\ [Next]_vars => J'
  <2> SUFFICES ASSUME J, [Next]_vars PROVE LeakInv'
    BY DEF SingleCaller, AlwaysFails
  <2>1. SingleInv'
    BY NextSingleInv DEF LeakInv
  <2>2. CASE Next
    BY <2>1, <2>2, DialledOnceStep, NoLeakStep DEF LeakInv
  <2>3. CASE UNCHANGED vars
    BY <2>1, <2>3 DEF LeakInv, DialledOnce, Dialling, First, Scanned, NoLeak, Held, vars,
                      engineVars, scanVars, socketVars
  <2> QED BY <2>2, <2>3
<1>3. J => NoLeak
  BY DEF LeakInv
<1> QED BY <1>1, <1>2, <1>3, PTL DEF Spec

=============================================================================
