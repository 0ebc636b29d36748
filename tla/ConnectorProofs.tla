--------------------------- MODULE ConnectorProofs ---------------------------
(***************************************************************************)
(* What TLAPS proves of Connector, for any number of sockets and of lives  *)
(* of the engine, any names, answers and contents of resolv.conf.  The     *)
(* invariant is TypeOK strengthened by when an engine lives and who is in  *)
(* it (Lives), where the engine thread's callbacks come from (Callbacks),  *)
(* which sockets it has taken out of the map and told (Owes), what a       *)
(* lookup has answered (Answered) and which sockets calls are about        *)
(* (Callers).  What a lookup asks and what its answer leads to is          *)
(* DnsProtocolProofs'.                                                     *)
(***************************************************************************)
EXTENDS Connector, DnsProtocolProofs, TLAPS

(* init_ says whether there is an engine; without one nobody is in a call, *)
(* and only in a callback the engine thread makes calls.                   *)
Lives ==
  /\ init <=> engine = "alive"
  /\ stopping => init /\ call["app"] = NoCall
  /\ ~init => call["app"] = NoCall /\ pc \in {"none", "done"}
  /\ engine = "deleted" => pc = "done"
  /\ pc \in {"none", "done"} => reaping = {} /\ callback = NoCallback
  /\ callback = NoCallback => call["engine"] = NoCall

(* OnDisconnect is for a socket out of the map, OnConnect and OnData are   *)
(* for one that is served, and OnData of a lookup has its result, if it    *)
(* does not walk over the answer for ever.                                 *)
Callbacks ==
  /\ callback.what = "none" => callback = NoCallback
  /\ callback.what # "none" => callback.of \in 1 .. lastId
  /\ callback # NoCallback => pc \in {"serve", "reap", "sweep", "hung"}
  /\ callback.what = "OnDisconnect" => callback.of \in reaping /\ sock[callback.of].told
  /\ callback.what = "OnData" /\ pc # "hung" => sock[callback.of].on_result

(* A socket is in the map or out of it, in the thread's while it is told,  *)
(* and only the scan has any to visit.                                     *)
Owes ==
  /\ reaping \cap sockets = {}
  /\ reaping # {} => pc \in {"sort", "reap", "sweep"}
  /\ todo \subseteq sockets /\ (pc # "sort" => todo = {})
  /\ \A i \in 1 .. lastId :
       /\ sock[i].told => i \notin sockets
       /\ sock[i].told /\ i \in reaping => callback = [of |-> i, what |-> "OnDisconnect"]

(* A lookup's result is counted once, when on_result_ is set or, last,     *)
(* with OnDisconnect; one that is connected has none, unless it is in the  *)
(* middle of OnData.                                                       *)
Answered ==
  \A l \in 1 .. lastId : Lookup(l) =>
    /\ sock[l].results = IF sock[l].on_result \/ sock[l].told THEN 1 ELSE 0
    /\ ~sock[l].met => ~sock[l].on_result /\ sock[l].status # "CONNECTED"
    /\ sock[l].status = "CONNECTED" /\ sock[l].on_result =>
         callback = [of |-> l, what |-> "OnData"]

(* Calls are about sockets of the application, never about a lookup's own. *)
Callers ==
  /\ \A t \in Threads : call[t].at \notin {"none", "add"} => call[t].id \in Users
  /\ \A l \in 1 .. lastId : Lookup(l) => sock[l].target \in Users

CInv == TypeOK /\ Lives /\ Callbacks /\ Owes /\ Answered /\ Callers

-----------------------------------------------------------------------------
(* What the proofs use of the assumption.                                 *)
LEMMA BoundsAreNatural == MaxSockets \in Nat /\ MaxLives \in Nat
  BY ConnectorAssumption

(* What OnResult can be called with: an answer whose parse ends is taken,  *)
(* refused for its text, or failed.                                        *)
LEMMA VerdictRange == Verdicts \ {"endless"} \subseteq {"ok", "failed", "refused"}
<1>1. SUFFICES ASSUME NEW p \in Answers
               PROVE  Verdict(p) \in {"ok", "failed", "refused", "endless"}
  BY DEF Verdicts
<1>2. ResponseParse(p).ret \in {"ok", "failed", "endless"}
  BY DEF ResponseParse
<1> QED BY <1>2 DEF Verdict

(* A write of a status keeps the types.                                    *)
LEMMA StatusType ==
  ASSUME NEW i \in Ids, NEW s \in Statuses, sock \in [Ids -> Objects],
         sock' = [sock EXCEPT ![i].status = s]
  PROVE  sock' \in [Ids -> Objects]
<1>1. [sock[i] EXCEPT !.status = s] \in Objects
  BY DEF Objects
<1>2. sock' = [sock EXCEPT ![i] = [sock[i] EXCEPT !.status = s]]
  OBVIOUS
<1> QED BY <1>1, <1>2

(* So does an answer that arrives,                                         *)
LEMMA AnswerType ==
  ASSUME NEW i \in Ids, sock \in [Ids -> Objects],
         sock' = [sock EXCEPT ![i].answer = TRUE]
  PROVE  sock' \in [Ids -> Objects]
<1>1. [sock[i] EXCEPT !.answer = TRUE] \in Objects
  BY DEF Objects
<1>2. sock' = [sock EXCEPT ![i] = [sock[i] EXCEPT !.answer = TRUE]]
  OBVIOUS
<1> QED BY <1>1, <1>2

(* and the sockets Create and GetAddrInfo add are of their type.           *)
LEMMA NewTypes ==
  /\ [Nobody EXCEPT !.kind = "user"] \in Objects
  /\ \A i \in 0 .. MaxSockets, s \in {"INIT", "START_CONNECT"} :
       [Nobody EXCEPT !.kind = "lookup", !.target = i, !.status = s] \in Objects
<1>1. Nobody \in Objects
  BY BoundsAreNatural DEF Nobody, Objects, Statuses
<1>2. ASSUME NEW r \in Objects
      PROVE  [r EXCEPT !.kind = "user"] \in Objects
  BY DEF Objects
<1>3. ASSUME NEW r \in Objects, NEW i \in 0 .. MaxSockets,
             NEW s \in {"INIT", "START_CONNECT"}
      PROVE  [r EXCEPT !.kind = "lookup", !.target = i, !.status = s] \in Objects
  BY DEF Objects, Statuses
<1> QED BY <1>1, <1>2, <1>3

(* What OnResult makes of the engine thread's call.                        *)
LEMMA ResultCall ==
  ASSUME NEW l \in Ids, NEW r \in {"ok", "failed", "refused"}, OnResult(l, r),
         sock \in [Ids -> Objects], call \in [Threads -> Calls], call["engine"] = NoCall
  PROVE  /\ call' \in [Threads -> Calls] /\ call'["app"] = call["app"]
         /\ call'["engine"].at \notin {"none", "add"} => call'["engine"].id = sock[l].target
<1> USE DEF OnResult, GoTo, Threads, Objects, NoCall
<1>1. CASE r = "ok" BY <1>1 DEF Calls, Stages
<1>2. CASE r = "failed" BY <1>2 DEF Calls, Stages
<1>3. CASE r = "refused" BY <1>3
<1> QED BY <1>1, <1>2, <1>3

(* Before Start there is no engine and nobody in it.                       *)
LEMMA InitCInv == Init => CInv
<1> SUFFICES ASSUME Init PROVE CInv
  OBVIOUS
<1> USE BoundsAreNatural DEF Init, NoCallback, NoCall
<1>1. TypeOK
  <2>1. sock \in [Ids -> Objects]
    BY DEF Nobody, Objects, Statuses
  <2>2. call \in [Threads -> Calls]
    BY DEF Calls, Stages
  <2>3. /\ lastId \in 0 .. MaxSockets /\ life \in 0 .. MaxLives
        /\ sockets \subseteq 1 .. lastId /\ reaping \subseteq 1 .. lastId
        /\ todo \subseteq 1 .. lastId /\ probe \in 1 .. 4
    OBVIOUS
  <2>5. /\ init \in BOOLEAN /\ stopping \in BOOLEAN /\ engine \in {"none", "alive", "deleted"}
        /\ mutex \in MutexKinds /\ locked \in BOOLEAN /\ server \in BOOLEAN
    OBVIOUS
  <2>4. pc \in PCs /\ callback \in [of : 0 .. MaxSockets, what : Methods]
    BY DEF PCs, Methods
  <2> HIDE DEF Init
  <2> QED BY <2>1, <2>2, <2>3, <2>4, <2>5 DEF TypeOK
<1>2. Lives /\ Callbacks
  BY DEF Lives, Callbacks, Threads
<1>3. Owes /\ Answered /\ Callers
  BY DEF Owes, Answered, Callers
<1> QED BY <1>1, <1>2, <1>3 DEF CInv

-----------------------------------------------------------------------------
(* A new engine: nobody is in it and its numbers start over.               *)
LEMMA StartStep == ASSUME CInv, Start PROVE CInv'
<1> USE BoundsAreNatural DEF CInv, Start, AppIdle, Nobody,
        lifeVars, engineVars, scanVars
<1>1. TypeOK'
  <2>1. sock' \in [Ids -> Objects]
    BY DEF Objects, Statuses
  <2>2. /\ init' \in BOOLEAN /\ stopping' \in BOOLEAN
        /\ engine' \in {"none", "alive", "deleted"}
        /\ mutex' \in MutexKinds /\ locked' \in BOOLEAN
    BY DEF TypeOK
  <2>6. life' \in 0 .. MaxLives
    <3>1. life \in 0 .. MaxLives /\ life < MaxLives /\ life' = life + 1
      BY DEF TypeOK
    <3> HIDE DEF CInv, Start
    <3> QED BY <3>1
  <2>5. server' \in BOOLEAN
    <3>1. PICK name \in Servers : server' = (name \in Addresses)
      OBVIOUS
    <3> HIDE DEF CInv, Start
    <3> QED BY <3>1
  <2>3. /\ lastId' \in 0 .. MaxSockets /\ sockets' \subseteq 1 .. lastId'
        /\ reaping' \subseteq 1 .. lastId' /\ todo' \subseteq 1 .. lastId' /\ probe' \in 1 .. 4
    OBVIOUS
  <2>4. /\ pc' \in PCs /\ callback' \in [of : 0 .. MaxSockets, what : Methods]
        /\ call' \in [Threads -> Calls]
    BY DEF TypeOK, PCs
  <2> HIDE DEF CInv, Start
  <2> QED BY <2>1, <2>2, <2>3, <2>4, <2>5, <2>6 DEF TypeOK
<1>2. Lives'
  BY DEF Lives
<1>3. Callbacks'
  <2>1. callback' = NoCallback
    BY DEF Lives
  <2> QED BY <2>1 DEF Callbacks, NoCallback
<1>4. Owes'
  BY DEF Owes
<1>5. Answered'
  BY DEF Answered
<1>6. Callers'
  BY DEF Callers, Lives, Threads, NoCall
<1> QED BY <1>1, <1>2, <1>3, <1>4, <1>5, <1>6

(* Stop begins when its thread is in no other call.                        *)
LEMMA StopBeginStep == ASSUME CInv, StopBegin PROVE CInv'
<1> USE BoundsAreNatural DEF CInv, StopBegin, AppIdle,
        lifeVars, engineVars, scanVars
<1>1. TypeOK'
  BY DEF TypeOK
<1>2. Lives'
  BY DEF Lives
<1>3. Callbacks'
  BY DEF Callbacks
<1>4. Owes'
  BY DEF Owes
<1>5. Answered'
  BY DEF Answered, Lookup
<1>6. Callers'
  BY DEF Callers, Users, Lookup
<1> QED BY <1>1, <1>2, <1>3, <1>4, <1>5, <1>6

(* Stop deletes the engine when its thread is gone, and so out of any      *)
(* handler.                                                                *)
LEMMA StopEndStep == ASSUME CInv, StopEnd PROVE CInv'
<1> USE BoundsAreNatural DEF CInv, StopEnd, Quit,
        lifeVars, engineVars, scanVars
<1>1. TypeOK'
  BY DEF TypeOK
<1>2. Lives'
  BY DEF Lives
<1>3. Callbacks'
  BY DEF Callbacks
<1>4. Owes'
  BY DEF Owes
<1>5. Answered'
  BY DEF Answered, Lookup
<1>6. Callers'
  BY DEF Callers, Users, Lookup
<1> QED BY <1>1, <1>2, <1>3, <1>4, <1>5, <1>6

(* A call begins outside of Stop, or in a handler, for a socket of the     *)
(* application.                                                            *)
LEMMA BeginStep == ASSUME NEW t \in Threads, CInv, Begin(t) PROVE CInv'
<1> USE BoundsAreNatural DEF CInv, Begin, MayCall, GoTo, AppIdle,
        lifeVars, engineVars, scanVars
<1>1. TypeOK'
  <2>1. sock' \in [Ids -> Objects]
    BY DEF TypeOK
  <2>2. call' \in [Threads -> Calls]
    BY DEF TypeOK, Calls, Stages, NoCall, Users
  <2>3. /\ init' \in BOOLEAN /\ stopping' \in BOOLEAN
        /\ engine' \in {"none", "alive", "deleted"} /\ life' \in 0 .. MaxLives
        /\ lastId' \in 0 .. MaxSockets /\ sockets' \subseteq 1 .. lastId'
        /\ todo' \subseteq 1 .. lastId' /\ probe' \in 1 .. 4
        /\ reaping' \subseteq 1 .. lastId'
        /\ mutex' \in MutexKinds /\ locked' \in BOOLEAN /\ server' \in BOOLEAN
    BY DEF TypeOK
  <2>4. pc' \in PCs /\ callback' \in [of : 0 .. MaxSockets, what : Methods]
    BY DEF TypeOK
  <2> QED BY <2>1, <2>2, <2>3, <2>4 DEF TypeOK
<1>2. Lives'
  BY DEF Lives, NoCallback, Threads, TypeOK, Users
<1>3. Callbacks'
  BY DEF Callbacks
<1>4. Owes'
  BY DEF Owes
<1>5. Answered'
  BY DEF Answered, Lookup
<1>6. Callers'
  BY DEF Callers, Users, Lookup, TypeOK
<1> QED BY <1>1, <1>2, <1>3, <1>4, <1>5, <1>6

(* The new number is above every other: it is no lookup's and nobody was   *)
(* told.                                                                   *)
LEMMA CreateStep == ASSUME NEW t \in Threads, CInv, Create(t) PROVE CInv'
<1> USE BoundsAreNatural DEF CInv, Create, Add, NewNumber, EndCall, Nobody,
        lifeVars, engineVars, scanVars
<1>1. TypeOK'
  <2>1. sock' \in [Ids -> Objects]
    <3>1. [Nobody EXCEPT !.kind = "user"] \in Objects
      BY NewTypes
    <3> QED BY <3>1 DEF TypeOK
  <2>2. call' \in [Threads -> Calls]
    BY DEF TypeOK, Calls, Stages, NoCall
  <2>3. /\ init' \in BOOLEAN /\ stopping' \in BOOLEAN
        /\ engine' \in {"none", "alive", "deleted"} /\ life' \in 0 .. MaxLives
        /\ lastId' \in 0 .. MaxSockets /\ sockets' \subseteq 1 .. lastId'
        /\ todo' \subseteq 1 .. lastId' /\ probe' \in 1 .. 4
        /\ reaping' \subseteq 1 .. lastId'
        /\ mutex' \in MutexKinds /\ locked' \in BOOLEAN /\ server' \in BOOLEAN
    BY DEF TypeOK
  <2>4. pc' \in PCs /\ callback' \in [of : 0 .. MaxSockets, what : Methods]
    BY DEF TypeOK
  <2> QED BY <2>1, <2>2, <2>3, <2>4 DEF TypeOK
<1>2. Lives'
  BY DEF Lives
<1>3. Callbacks'
  BY DEF Callbacks, TypeOK
<1>4. Owes'
  BY DEF Owes, TypeOK, Ids
<1>5. Answered'
  BY DEF Answered, Lookup, TypeOK, Ids
<1>6. Callers'
  BY DEF Callers, Users, Lookup, TypeOK, Ids, NoCall
<1> QED BY <1>1, <1>2, <1>3, <1>4, <1>5, <1>6

(* Query takes a call one step further, about the same socket, or ends it. *)
LEMMA QueryStep == ASSUME NEW t \in Threads, CInv, Query(t) PROVE CInv'
<1> USE BoundsAreNatural DEF CInv, Query, Found, GoTo, EndCall,
        lifeVars, engineVars, scanVars
<1>1. TypeOK'
  <2>1. sock' \in [Ids -> Objects]
    BY DEF TypeOK
  <2>2. call' \in [Threads -> Calls]
    BY DEF TypeOK, Calls, Stages, NoCall
  <2>3. /\ init' \in BOOLEAN /\ stopping' \in BOOLEAN
        /\ engine' \in {"none", "alive", "deleted"} /\ life' \in 0 .. MaxLives
        /\ lastId' \in 0 .. MaxSockets /\ sockets' \subseteq 1 .. lastId'
        /\ todo' \subseteq 1 .. lastId' /\ probe' \in 1 .. 4
        /\ reaping' \subseteq 1 .. lastId'
        /\ mutex' \in MutexKinds /\ locked' \in BOOLEAN /\ server' \in BOOLEAN
    BY DEF TypeOK
  <2>4. pc' \in PCs /\ callback' \in [of : 0 .. MaxSockets, what : Methods]
    BY DEF TypeOK
  <2> QED BY <2>1, <2>2, <2>3, <2>4 DEF TypeOK
<1>2. Lives'
  BY DEF Lives, NoCall, Threads, TypeOK
<1>3. Callbacks'
  BY DEF Callbacks
<1>4. Owes'
  BY DEF Owes
<1>5. Answered'
  BY DEF Answered, Lookup
<1>6. Callers'
  BY DEF Callers, Users, Lookup, TypeOK, NoCall
<1> QED BY <1>1, <1>2, <1>3, <1>4, <1>5, <1>6

(* Connect's look at status_ changes nothing but where the call is.        *)
LEMMA ConnectStep == ASSUME NEW t \in Threads, CInv, Connect(t) PROVE CInv'
<1> USE BoundsAreNatural DEF CInv, Connect, GoTo, EndCall,
        lifeVars, engineVars, scanVars
<1>1. TypeOK'
  <2>1. sock' \in [Ids -> Objects]
    BY DEF TypeOK
  <2>2. call' \in [Threads -> Calls]
    BY DEF TypeOK, Calls, Stages, NoCall
  <2>3. /\ init' \in BOOLEAN /\ stopping' \in BOOLEAN
        /\ engine' \in {"none", "alive", "deleted"} /\ life' \in 0 .. MaxLives
        /\ lastId' \in 0 .. MaxSockets /\ sockets' \subseteq 1 .. lastId'
        /\ todo' \subseteq 1 .. lastId' /\ probe' \in 1 .. 4
        /\ reaping' \subseteq 1 .. lastId'
        /\ mutex' \in MutexKinds /\ locked' \in BOOLEAN /\ server' \in BOOLEAN
    BY DEF TypeOK
  <2>4. pc' \in PCs /\ callback' \in [of : 0 .. MaxSockets, what : Methods]
    BY DEF TypeOK
  <2> QED BY <2>1, <2>2, <2>3, <2>4 DEF TypeOK
<1>2. Lives'
  BY DEF Lives, NoCall, Threads, TypeOK
<1>3. Callbacks'
  BY DEF Callbacks
<1>4. Owes'
  BY DEF Owes
<1>5. Answered'
  BY DEF Answered, Lookup
<1>6. Callers'
  BY DEF Callers, Users, Lookup, TypeOK, NoCall
<1> QED BY <1>1, <1>2, <1>3, <1>4, <1>5, <1>6

(* Connect writes the status of a socket of the application, no lookup's.  *)
LEMMA StartConnectStep == ASSUME NEW t \in Threads, CInv, StartConnect(t) PROVE CInv'
<1> USE BoundsAreNatural DEF CInv, StartConnect, SetStatus, EndCall,
        lifeVars, engineVars, scanVars
<1>1. TypeOK'
  <2>1. sock' \in [Ids -> Objects]
    <3>1. call[t].id \in Ids
      <4>1. call[t].at \notin {"none", "add"} /\ lastId \in 0 .. MaxSockets
        BY DEF TypeOK
      <4>2. call[t].id \in 1 .. lastId
        BY <4>1 DEF Callers, Users
      <4> QED BY <4>1, <4>2 DEF Ids
    <3>2. sock \in [Ids -> Objects] /\ "START_CONNECT" \in Statuses
      BY DEF TypeOK, Statuses
    <3>3. sock' = [sock EXCEPT ![call[t].id].status = "START_CONNECT"]
      OBVIOUS
    <3> QED BY <3>1, <3>2, <3>3, StatusType
  <2>2. call' \in [Threads -> Calls]
    BY DEF TypeOK, Calls, Stages, NoCall
  <2>3. /\ init' \in BOOLEAN /\ stopping' \in BOOLEAN
        /\ engine' \in {"none", "alive", "deleted"} /\ life' \in 0 .. MaxLives
        /\ lastId' \in 0 .. MaxSockets /\ sockets' \subseteq 1 .. lastId'
        /\ todo' \subseteq 1 .. lastId' /\ probe' \in 1 .. 4
        /\ reaping' \subseteq 1 .. lastId'
        /\ mutex' \in MutexKinds /\ locked' \in BOOLEAN /\ server' \in BOOLEAN
    BY DEF TypeOK
  <2>4. pc' \in PCs /\ callback' \in [of : 0 .. MaxSockets, what : Methods]
    BY DEF TypeOK
  <2> QED BY <2>1, <2>2, <2>3, <2>4 DEF TypeOK
<1>2. Lives'
  BY DEF Lives
<1>3. Callbacks'
  BY DEF Callbacks
<1>4. Owes'
  BY DEF Owes
<1>5. Answered'
  BY DEF Answered, Lookup
<1>6. Callers'
  BY DEF Callers, Users, Lookup, NoCall
<1> QED BY <1>1, <1>2, <1>3, <1>4, <1>5, <1>6

(* Close writes the status of a socket of the application, no lookup's.    *)
LEMMA CloseStep == ASSUME NEW t \in Threads, CInv, Close(t) PROVE CInv'
<1> USE BoundsAreNatural DEF CInv, Close, SetStatus, EndCall,
        lifeVars, engineVars, scanVars
<1>1. TypeOK'
  <2>1. sock' \in [Ids -> Objects]
    <3>1. call[t].id \in Ids
      <4>1. call[t].at \notin {"none", "add"} /\ lastId \in 0 .. MaxSockets
        BY DEF TypeOK
      <4>2. call[t].id \in 1 .. lastId
        BY <4>1 DEF Callers, Users
      <4> QED BY <4>1, <4>2 DEF Ids
    <3>2. sock \in [Ids -> Objects] /\ "DISCONNECTED" \in Statuses
      BY DEF TypeOK, Statuses
    <3>3. sock' = [sock EXCEPT ![call[t].id].status = "DISCONNECTED"]
      OBVIOUS
    <3> QED BY <3>1, <3>2, <3>3, StatusType
  <2>2. call' \in [Threads -> Calls]
    BY DEF TypeOK, Calls, Stages, NoCall
  <2>3. /\ init' \in BOOLEAN /\ stopping' \in BOOLEAN
        /\ engine' \in {"none", "alive", "deleted"} /\ life' \in 0 .. MaxLives
        /\ lastId' \in 0 .. MaxSockets /\ sockets' \subseteq 1 .. lastId'
        /\ todo' \subseteq 1 .. lastId' /\ probe' \in 1 .. 4
        /\ reaping' \subseteq 1 .. lastId'
        /\ mutex' \in MutexKinds /\ locked' \in BOOLEAN /\ server' \in BOOLEAN
    BY DEF TypeOK
  <2>4. pc' \in PCs /\ callback' \in [of : 0 .. MaxSockets, what : Methods]
    BY DEF TypeOK
  <2> QED BY <2>1, <2>2, <2>3, <2>4 DEF TypeOK
<1>2. Lives'
  BY DEF Lives
<1>3. Callbacks'
  BY DEF Callbacks
<1>4. Owes'
  BY DEF Owes
<1>5. Answered'
  BY DEF Answered, Lookup
<1>6. Callers'
  BY DEF Callers, Users, Lookup, NoCall
<1> QED BY <1>1, <1>2, <1>3, <1>4, <1>5, <1>6

(* Send ends.                                                              *)
LEMMA SendStep == ASSUME NEW t \in Threads, CInv, Send(t) PROVE CInv'
<1> USE BoundsAreNatural DEF CInv, Send, EndCall,
        lifeVars, engineVars, scanVars
<1>1. TypeOK'
  BY DEF TypeOK, Calls, Stages, NoCall
<1>2. Lives'
  BY DEF Lives
<1>3. Callbacks'
  BY DEF Callbacks
<1>4. Owes'
  BY DEF Owes
<1>5. Answered'
  BY DEF Answered, Lookup
<1>6. Callers'
  BY DEF Callers, Users, Lookup, NoCall
<1> QED BY <1>1, <1>2, <1>3, <1>4, <1>5, <1>6

(* A new lookup has answered nothing and points to the socket of its call. *)
LEMMA GetAddrInfoStep == ASSUME NEW t \in Threads, CInv, GetAddrInfo(t) PROVE CInv'
<1> USE BoundsAreNatural DEF CInv, lifeVars
<1>1. /\ call[t].at = "lookup" /\ call' = [call EXCEPT ![t] = NoCall]
      /\ init' = init /\ engine' = engine /\ life' = life /\ stopping' = stopping
      /\ mutex' = mutex /\ server' = server
      /\ pc' = pc /\ callback' = callback
  BY DEF GetAddrInfo, EndCall
<1>2. call[t].id \in Users /\ call[t].id \in 0 .. MaxSockets
  BY <1>1 DEF TypeOK, Calls, Callers
<1>3. call' \in [Threads -> Calls] /\ \A u \in Threads : call'[u] \in {call[u], NoCall}
  BY <1>1 DEF TypeOK, Calls, Stages, NoCall
<1>4. CASE ~DnsInit
  <2>1. UNCHANGED <<engineVars, sock>>
    BY <1>4 DEF GetAddrInfo
  <2>2. TypeOK'
    BY <1>1, <1>3, <2>1 DEF TypeOK, engineVars, scanVars
  <2>3. Lives' /\ Callbacks' /\ Owes'
    BY <1>1, <1>3, <2>1 DEF Lives, Callbacks, Owes, engineVars, scanVars, NoCall,
       Threads
  <2>4. Answered' /\ Callers'
    BY <1>1, <1>3, <2>1 DEF Answered, Callers, Lookup, Users, engineVars, NoCall
  <2> QED BY <2>2, <2>3, <2>4
<1>5. CASE DnsInit
  <2> DEFINE s == IF server THEN "START_CONNECT" ELSE "INIT"
             new == [Nobody EXCEPT !.kind = "lookup", !.target = call[t].id, !.status = s]
  <2>1. /\ lastId < MaxSockets /\ lastId' = lastId + 1 /\ sockets' = sockets \cup {lastId + 1}
        /\ sock' = [sock EXCEPT ![lastId + 1] = new] /\ reaping' = reaping
        /\ todo' = todo /\ probe' = probe /\ locked' = locked
    BY <1>1, <1>5 DEF GetAddrInfo, Add, NewNumber, scanVars
  <2>2. new \in Objects
    BY <1>2, NewTypes
  <2>3. /\ new.kind = "lookup" /\ new.target = call[t].id /\ new.results = 0
        /\ ~new.on_result /\ ~new.told /\ new.status # "CONNECTED"
    BY DEF Nobody
  <2> HIDE DEF new
  <2>4. /\ lastId + 1 \in Ids /\ sock'[lastId + 1] = new /\ sock' \in [Ids -> Objects]
        /\ \A i \in 1 .. lastId : i \in Ids /\ sock'[i] = sock[i]
    BY <2>1, <2>2 DEF TypeOK, Ids
  <2>5. 1 .. lastId' = (1 .. lastId) \cup {lastId + 1} /\ lastId + 1 \notin 1 .. lastId
    BY <2>1 DEF TypeOK
  <2>6. TypeOK'
    <3>1. /\ lastId' \in 0 .. MaxSockets /\ sockets' \subseteq 1 .. lastId'
          /\ todo' \subseteq 1 .. lastId' /\ reaping' \subseteq 1 .. lastId'
      BY <2>1, <2>5 DEF TypeOK
    <3> QED BY <1>1, <1>3, <2>1, <2>4, <3>1 DEF TypeOK
  <2>7. Lives' /\ Callbacks'
    BY <1>1, <1>3, <2>1, <2>4, <2>5 DEF Lives, Callbacks, NoCall, NoCallback, TypeOK, Threads
  <2>8. Owes'
    BY <1>1, <2>1, <2>3, <2>4, <2>5 DEF Owes, TypeOK
  <2>9. Answered'
    BY <1>1, <2>1, <2>3, <2>4, <2>5 DEF Answered, Lookup
  <2>10. Users' = Users
    BY <2>1, <2>3, <2>4, <2>5 DEF Users
  <2>11. Callers'
    BY <1>2, <1>3, <2>1, <2>3, <2>4, <2>5, <2>10 DEF Callers, Lookup, NoCall
  <2> QED BY <2>6, <2>7, <2>8, <2>9, <2>11
<1> QED BY <1>4, <1>5

(* A call beyond the bound ends.                                           *)
LEMMA OutOfSocketsStep == ASSUME NEW t \in Threads, CInv, OutOfSockets(t) PROVE CInv'
<1> USE BoundsAreNatural DEF CInv, OutOfSockets, EndCall,
        lifeVars, engineVars, scanVars
<1>1. TypeOK'
  BY DEF TypeOK, Calls, Stages, NoCall
<1>2. Lives'
  BY DEF Lives
<1>3. Callbacks'
  BY DEF Callbacks
<1>4. Owes'
  BY DEF Owes
<1>5. Answered'
  BY DEF Answered, Lookup
<1>6. Callers'
  BY DEF Callers, Users, Lookup, NoCall
<1> QED BY <1>1, <1>2, <1>3, <1>4, <1>5, <1>6

(* The thread sleeps,                                                     *)
LEMMA IdleStep == ASSUME CInv, Idle PROVE CInv'
<1> USE BoundsAreNatural DEF CInv, Idle, Running,
        lifeVars, engineVars, scanVars
<1>1. TypeOK'
  BY DEF TypeOK, PCs
<1>2. Lives'
  BY DEF Lives
<1>3. Callbacks'
  BY DEF Callbacks, Owes
<1>4. Owes'
  BY DEF Owes
<1>5. Answered'
  BY DEF Answered, Lookup
<1>6. Callers'
  BY DEF Callers, Users, Lookup
<1> QED BY <1>1, <1>2, <1>3, <1>4, <1>5, <1>6

(* or Dispatch fails.                                                      *)
LEMMA IdleDispatchStep == ASSUME CInv, IdleDispatch PROVE CInv'
<1> USE BoundsAreNatural DEF CInv, IdleDispatch,
        lifeVars, engineVars, scanVars
<1>1. TypeOK'
  BY DEF TypeOK, PCs
<1>2. Lives'
  BY DEF Lives
<1>3. Callbacks'
  BY DEF Callbacks, Owes
<1>4. Owes'
  BY DEF Owes
<1>5. Answered'
  BY DEF Answered, Lookup
<1>6. Callers'
  BY DEF Callers, Users, Lookup
<1> QED BY <1>1, <1>2, <1>3, <1>4, <1>5, <1>6

(* Its two locks lead into the scan of the whole map or nowhere.           *)
LEMMA LockTwiceStep == ASSUME CInv, LockTwice PROVE CInv'
<1> USE BoundsAreNatural DEF CInv, LockTwice, Running,
        lifeVars, engineVars, scanVars
<1>1. TypeOK'
  <2>1. /\ locked' = TRUE
        /\ \/ pc' = "hung" /\ todo' = todo /\ probe' = probe
           \/ pc' = "sort" /\ todo' = sockets /\ probe' = 1
    OBVIOUS
  <2>2. UNCHANGED <<lifeVars, lastId, sockets, reaping, sock, callback, call>>
    OBVIOUS
  <2>3. TypeOK
    OBVIOUS
  <2> HIDE DEF CInv, LockTwice
  <2>4. pc' \in PCs
    BY <2>1 DEF PCs
  <2>5. todo' \subseteq 1 .. lastId /\ probe' \in 1 .. 4
    <3>1. todo \subseteq 1 .. lastId /\ sockets \subseteq 1 .. lastId /\ probe \in 1 .. 4
      BY <2>3 DEF TypeOK
    <3>2. CASE todo' = todo /\ probe' = probe
      BY <3>1, <3>2
    <3>3. CASE todo' = sockets /\ probe' = 1
      BY <3>1, <3>3
    <3> QED BY <2>1, <3>2, <3>3
  <2> QED BY <2>1, <2>2, <2>3, <2>4, <2>5 DEF TypeOK
<1>2. Lives'
  BY DEF Lives
<1>3. Callbacks'
  BY DEF Callbacks, Owes
<1>4. Owes'
  BY DEF Owes
<1>5. Answered'
  BY DEF Answered, Lookup
<1>6. Callers'
  BY DEF Callers, Users, Lookup
<1> QED BY <1>1, <1>2, <1>3, <1>4, <1>5, <1>6

(* A comparison fails.                                                     *)
LEMMA NextComparisonStep == ASSUME CInv, NextComparison PROVE CInv'
<1> USE BoundsAreNatural DEF CInv, NextComparison,
        lifeVars, engineVars, scanVars
<1>1. TypeOK'
  BY DEF TypeOK
<1>2. Lives'
  BY DEF Lives
<1>3. Callbacks'
  BY DEF Callbacks, Owes
<1>4. Owes'
  BY DEF Owes
<1>5. Answered'
  BY DEF Answered, Lookup
<1>6. Callers'
  BY DEF Callers, Users, Lookup
<1> QED BY <1>1, <1>2, <1>3, <1>4, <1>5, <1>6

(* One holds: the socket is sorted, a DISCONNECTED one out of the map.     *)
LEMMA ClassifyStep == ASSUME CInv, Classify PROVE CInv'
<1> USE BoundsAreNatural DEF CInv, Classify, First,
        lifeVars, engineVars, scanVars
<1>1. TypeOK'
  BY DEF TypeOK
<1>2. Lives'
  BY DEF Lives
<1>3. Callbacks'
  BY DEF Callbacks, Owes
<1>4. Owes'
  BY DEF Owes, TypeOK
<1>5. Answered'
  BY DEF Answered, Lookup
<1>6. Callers'
  BY DEF Callers, Users, Lookup
<1> QED BY <1>1, <1>2, <1>3, <1>4, <1>5, <1>6

(* All fail: what was sorted is lost, nobody is told.                      *)
LEMMA FallThroughStep == ASSUME CInv, FallThrough PROVE CInv'
<1> USE BoundsAreNatural DEF CInv, FallThrough,
        lifeVars, engineVars, scanVars
<1>1. TypeOK'
  BY DEF TypeOK, PCs
<1>2. Lives'
  BY DEF Lives
<1>3. Callbacks'
  <2>1. callback = NoCallback
    BY DEF Callbacks
  <2> QED BY <2>1 DEF Callbacks, NoCallback
<1>4. Owes'
  BY DEF Owes
<1>5. Answered'
  BY DEF Answered, Lookup
<1>6. Callers'
  BY DEF Callers, Users, Lookup
<1> QED BY <1>1, <1>2, <1>3, <1>4, <1>5, <1>6

(* All are sorted.                                                         *)
LEMMA ScanDoneStep == ASSUME CInv, ScanDone PROVE CInv'
<1> USE BoundsAreNatural DEF CInv, ScanDone,
        lifeVars, engineVars, scanVars
<1>1. TypeOK'
  BY DEF TypeOK, PCs
<1>2. Lives'
  BY DEF Lives
<1>3. Callbacks'
  BY DEF Callbacks, Owes
<1>4. Owes'
  BY DEF Owes
<1>5. Answered'
  BY DEF Answered, Lookup
<1>6. Callers'
  BY DEF Callers, Users, Lookup
<1> QED BY <1>1, <1>2, <1>3, <1>4, <1>5, <1>6

(* The thread's end takes all that are in the map.                         *)
LEMMA ExitStep == ASSUME CInv, Exit PROVE CInv'
<1> USE BoundsAreNatural DEF CInv, Exit, Running,
        lifeVars, engineVars, scanVars
<1>1. TypeOK'
  BY DEF TypeOK, PCs
<1>2. Lives'
  BY DEF Lives
<1>3. Callbacks'
  BY DEF Callbacks, Owes
<1>4. Owes'
  BY DEF Owes
<1>5. Answered'
  BY DEF Answered, Lookup
<1>6. Callers'
  BY DEF Callers, Users, Lookup
<1> QED BY <1>1, <1>2, <1>3, <1>4, <1>5, <1>6

(* OnDisconnect of the next one; a lookup without a result has its one     *)
(* result now.                                                             *)
LEMMA DisconnectStep == ASSUME CInv, Disconnect PROVE CInv'
<1> USE BoundsAreNatural DEF CInv, lifeVars, engineVars, scanVars
<1>1. PICK i \in reaping :
        /\ pc \in {"reap", "sweep"} /\ callback = NoCallback
        /\ callback' = [of |-> i, what |-> "OnDisconnect"]
        /\ LET status == IF pc = "sweep" THEN "DISCONNECTED" ELSE sock[i].status
           IN  IF Lookup(i)
               THEN LookupOnDisconnect(i, status)
               ELSE sock' = [sock EXCEPT ![i].status = status, ![i].told = TRUE]
                    /\ UNCHANGED call
        /\ UNCHANGED <<lifeVars, engineVars, pc>>
  BY DEF Disconnect, In
<1>2. i \in 1 .. lastId /\ i \in Ids /\ sock[i] \in Objects
      /\ sock[i].kind \in {"none", "user", "lookup"}
  BY DEF TypeOK, Ids, Objects
<1>3. i \notin sockets /\ ~sock[i].told /\ call["engine"] = NoCall
  BY <1>1, <1>2 DEF Owes, NoCallback, Lives
<1> DEFINE s == IF pc = "sweep" THEN "DISCONNECTED" ELSE sock[i].status
           reports == Lookup(i) /\ ~sock[i].on_result
<1>4. s \in Statuses
  BY <1>2 DEF Objects, Statuses
<1>5. \/ /\ reports /\ OnResult(i, "failed")
         /\ sock' = [sock EXCEPT ![i].status = s, ![i].told = TRUE, ![i].results = @ + 1]
      \/ /\ ~reports /\ UNCHANGED call
         /\ sock' = [sock EXCEPT ![i].status = s, ![i].told = TRUE]
  BY <1>1 DEF LookupOnDisconnect, Reports
<1>6. /\ sock' \in [Ids -> Objects]
      /\ \A j \in Ids : /\ sock'[j].kind = sock[j].kind /\ sock'[j].target = sock[j].target
                        /\ sock'[j].on_result = sock[j].on_result
                        /\ sock'[j].met = sock[j].met
                        /\ j # i => sock'[j] = sock[j]
      /\ sock'[i].status = s /\ sock'[i].told
      /\ sock'[i].results = IF reports THEN sock[i].results + 1 ELSE sock[i].results
  <2> HIDE DEF s, reports
  <2> QED BY <1>2, <1>4, <1>5 DEF TypeOK, Objects
<1>7. /\ call' \in [Threads -> Calls] /\ call'["app"] = call["app"]
      /\ call'["engine"].at \notin {"none", "add"} =>
           Lookup(i) /\ call'["engine"].id = sock[i].target
  BY <1>2, <1>3, <1>5, ResultCall DEF TypeOK, NoCall
<1> HIDE DEF s
<1>8. TypeOK'
  <2>1. callback' \in [of : 0 .. MaxSockets, what : Methods]
    BY <1>1, <1>2 DEF Methods, Ids
  <2>2. UNCHANGED <<lifeVars, engineVars, pc>> /\ TypeOK
    BY <1>1
  <2>3. sock' \in [Ids -> Objects] /\ call' \in [Threads -> Calls]
    BY <1>6, <1>7
  <2> HIDE DEF CInv
  <2> QED BY <2>1, <2>2, <2>3 DEF TypeOK
<1>9. Lives' /\ Callbacks'
  <2>1. Lives /\ UNCHANGED <<lifeVars, engineVars, pc>> /\ pc \in {"reap", "sweep"}
    BY <1>1
  <2>2. callback' = [of |-> i, what |-> "OnDisconnect"] /\ sock'[i].told
    BY <1>1, <1>6
  <2> HIDE DEF CInv
  <2>3. Lives'
    BY <1>7, <2>1, <2>2 DEF Lives, NoCallback
  <2>4. Callbacks'
    BY <1>2, <2>1, <2>2 DEF Callbacks, NoCallback
  <2> QED BY <2>3, <2>4
<1>10. Owes'
  BY <1>1, <1>2, <1>3, <1>6 DEF Owes, NoCallback, TypeOK, Ids
<1>11. Answered'
  <2>1. ASSUME NEW j \in 1 .. lastId', Lookup(j)'
        PROVE  j \in 1 .. lastId /\ j \in Ids /\ Lookup(j) /\ (j # i => sock'[j] = sock[j])
    BY <1>1, <1>6, <2>1 DEF Lookup, TypeOK, Ids
  <2>2. \A j \in 1 .. lastId : Lookup(j) => ~(sock[j].status = "CONNECTED" /\ sock[j].on_result)
    BY <1>1 DEF Answered, NoCallback
  <2>3. Answered
    OBVIOUS
  <2> HIDE DEF CInv
  <2>4. ASSUME NEW j \in 1 .. lastId', Lookup(j)', j # i
        PROVE  /\ sock'[j].results = IF sock'[j].on_result \/ sock'[j].told THEN 1 ELSE 0
               /\ ~sock'[j].met => ~sock'[j].on_result /\ sock'[j].status # "CONNECTED"
               /\ ~(sock'[j].status = "CONNECTED" /\ sock'[j].on_result)
    BY <2>1, <2>2, <2>3, <2>4 DEF Answered
  <2>5. ASSUME Lookup(i)
        PROVE  /\ sock'[i].results = IF sock'[i].on_result \/ sock'[i].told THEN 1 ELSE 0
               /\ ~sock'[i].met => ~sock'[i].on_result /\ sock'[i].status # "CONNECTED"
               /\ ~(sock'[i].status = "CONNECTED" /\ sock'[i].on_result)
    BY <1>2, <1>3, <1>6, <2>2, <2>3, <2>5 DEF s, Answered
  <2> QED BY <2>1, <2>4, <2>5 DEF Answered
<1>12. Users' = Users
  BY <1>1, <1>6 DEF Users, TypeOK, Ids
<1>13. Callers'
  <2>1. \A j \in 1 .. lastId :
          j \in Ids /\ sock'[j].kind = sock[j].kind /\ sock'[j].target = sock[j].target
    BY <1>6 DEF TypeOK, Ids
  <2>2. lastId' = lastId /\ Callers
    BY <1>1
  <2> HIDE DEF CInv
  <2> QED BY <1>2, <1>7, <1>12, <2>1, <2>2 DEF Callers, Lookup, Threads
<1> QED BY <1>8, <1>9, <1>10, <1>11, <1>13

(* With its map empty the thread goes on, or has ended and owes nobody.    *)
LEMMA ReapDoneStep == ASSUME CInv, ReapDone PROVE CInv'
<1> USE BoundsAreNatural DEF CInv, ReapDone,
        lifeVars, engineVars, scanVars
<1>1. TypeOK'
  BY DEF TypeOK, PCs
<1>2. Lives'
  BY DEF Lives
<1>3. Callbacks'
  BY DEF Callbacks
<1>4. Owes'
  BY DEF Owes
<1>5. Answered'
  BY DEF Answered, Lookup
<1>6. Callers'
  BY DEF Callers, Users, Lookup
<1> QED BY <1>1, <1>2, <1>3, <1>4, <1>5, <1>6

(* OnConnect, once; a lookup that cannot send its query has its one result *)
(* now.                                                                    *)
LEMMA ConnectedStep == ASSUME CInv, Connected PROVE CInv'
<1> USE BoundsAreNatural DEF CInv, lifeVars, engineVars, scanVars
<1>1. PICK i \in sockets :
        /\ pc = "serve" /\ callback = NoCallback
        /\ ~sock[i].met
        /\ callback' = [of |-> i, what |-> "OnConnect"]
        /\ IF Lookup(i) THEN LookupOnConnect(i)
           ELSE sock' = [sock EXCEPT ![i].status = "CONNECTED", ![i].met = TRUE]
                /\ UNCHANGED call
        /\ UNCHANGED <<lifeVars, engineVars, pc>>
  BY DEF Connected, In
<1>2. i \in 1 .. lastId /\ i \in Ids /\ sock[i] \in Objects
  BY DEF TypeOK, Ids
<1>3. i \notin reaping /\ ~sock[i].told /\ call["engine"] = NoCall /\ reaping = {}
  BY <1>1, <1>2 DEF Owes, Lives
<1>4. Lookup(i) => ~sock[i].on_result /\ sock[i].results = 0
  BY <1>1, <1>2, <1>3 DEF Answered
<1>5. \/ /\ UNCHANGED call
         /\ sock' = [sock EXCEPT ![i].status = "CONNECTED", ![i].met = TRUE]
      \/ /\ Lookup(i) /\ OnResult(i, "failed")
         /\ sock' = [sock EXCEPT ![i].status = "DISCONNECTED", ![i].met = TRUE,
                                 ![i].on_result = TRUE, ![i].results = @ + 1]
  BY <1>1 DEF LookupOnConnect
<1>6. /\ sock' \in [Ids -> Objects]
      /\ \A j \in Ids : /\ sock'[j].kind = sock[j].kind /\ sock'[j].target = sock[j].target
                        /\ sock'[j].told = sock[j].told
                        /\ j # i => sock'[j] = sock[j]
      /\ sock'[i].met
      /\ Lookup(i) =>
           \/ ~sock'[i].on_result /\ sock'[i].results = 0
           \/ sock'[i].status = "DISCONNECTED" /\ sock'[i].on_result /\ sock'[i].results = 1
  BY <1>2, <1>4, <1>5 DEF TypeOK, Objects, Statuses
<1>7. /\ call' \in [Threads -> Calls] /\ call'["app"] = call["app"]
      /\ call'["engine"].at \notin {"none", "add"} =>
           Lookup(i) /\ call'["engine"].id = sock[i].target
  BY <1>2, <1>3, <1>5, ResultCall DEF TypeOK, NoCall
<1>8. TypeOK'
  <2>1. callback' \in [of : 0 .. MaxSockets, what : Methods]
    BY <1>1, <1>2 DEF Methods, Ids
  <2>2. UNCHANGED <<lifeVars, engineVars, pc>> /\ TypeOK
    BY <1>1
  <2>3. sock' \in [Ids -> Objects] /\ call' \in [Threads -> Calls]
    BY <1>6, <1>7
  <2> HIDE DEF CInv
  <2> QED BY <2>1, <2>2, <2>3 DEF TypeOK
<1>9. Lives' /\ Callbacks'
  BY <1>1, <1>2, <1>7 DEF Lives, Callbacks, NoCallback, TypeOK
<1>10. Owes'
  <2>1. UNCHANGED <<sockets, reaping, pc, lastId>>
    BY <1>1
  <2>2. \A j \in 1 .. lastId : sock'[j].told = sock[j].told
    BY <1>6 DEF TypeOK, Ids
  <2>3. /\ \A j \in 1 .. lastId : sock[j].told => j \notin sockets
        /\ todo \subseteq sockets /\ (pc # "sort" => todo = {}) /\ todo' = todo
    BY <1>1 DEF Owes
  <2> HIDE DEF CInv
  <2> QED BY <1>3, <2>1, <2>2, <2>3 DEF Owes
<1>11. Answered'
  BY <1>1, <1>2, <1>3, <1>6 DEF Answered, Lookup, TypeOK, Ids, NoCallback
<1>12. Users' = Users
  BY <1>1, <1>6 DEF Users, TypeOK, Ids
<1>13. Callers'
  <2>1. \A j \in 1 .. lastId :
          j \in Ids /\ sock'[j].kind = sock[j].kind /\ sock'[j].target = sock[j].target
    BY <1>6 DEF TypeOK, Ids
  <2>2. lastId' = lastId /\ Callers
    BY <1>1
  <2> HIDE DEF CInv
  <2> QED BY <1>2, <1>7, <1>12, <2>1, <2>2 DEF Callers, Lookup, Threads
<1> QED BY <1>8, <1>9, <1>10, <1>11, <1>13

(* A connection fails.                                                     *)
LEMMA LostStep == ASSUME CInv, Lost PROVE CInv'
<1> USE BoundsAreNatural DEF CInv, Lost, SetStatus,
        lifeVars, engineVars, scanVars
<1>1. TypeOK'
  <2>1. sock' \in [Ids -> Objects]
    <3>1. PICK i \in sockets : sock' = [sock EXCEPT ![i].status = "DISCONNECTED"]
      OBVIOUS
    <3>2. i \in Ids
      BY DEF TypeOK, Ids
    <3> QED BY <3>1, <3>2, StatusType DEF TypeOK, Statuses
  <2>2. call' \in [Threads -> Calls]
    BY DEF TypeOK
  <2>3. /\ init' \in BOOLEAN /\ stopping' \in BOOLEAN
        /\ engine' \in {"none", "alive", "deleted"} /\ life' \in 0 .. MaxLives
        /\ lastId' \in 0 .. MaxSockets /\ sockets' \subseteq 1 .. lastId'
        /\ todo' \subseteq 1 .. lastId' /\ probe' \in 1 .. 4
        /\ reaping' \subseteq 1 .. lastId'
        /\ mutex' \in MutexKinds /\ locked' \in BOOLEAN /\ server' \in BOOLEAN
    BY DEF TypeOK
  <2>4. pc' \in PCs /\ callback' \in [of : 0 .. MaxSockets, what : Methods]
    BY DEF NoCallback, TypeOK
  <2> QED BY <2>1, <2>2, <2>3, <2>4 DEF TypeOK
<1>2. Lives'
  BY DEF Lives
<1>3. Callbacks'
  BY DEF Callbacks
<1>4. Owes'
  BY DEF Owes
<1>5. Answered'
  BY DEF Answered, Lookup
<1>6. Callers'
  BY DEF Callers, Users, Lookup
<1> QED BY <1>1, <1>2, <1>3, <1>4, <1>5, <1>6

(* A lookup that is connected and not in OnData has had no result, so that *)
(* OnData's is the first.                                                  *)
LEMMA DataStep == ASSUME CInv, Data PROVE CInv'
<1> USE BoundsAreNatural DEF CInv, lifeVars, engineVars, scanVars
<1>1. PICK l \in sockets :
        /\ pc = "serve" /\ callback = NoCallback
        /\ Lookup(l) /\ sock[l].status = "CONNECTED"
        /\ callback' = [of |-> l, what |-> "OnData"]
        /\ LookupOnData(l)
        /\ UNCHANGED <<lifeVars, engineVars, pc>>
  BY DEF Data, In
<1>2. l \in 1 .. lastId /\ l \in Ids /\ sock[l] \in Objects
  BY DEF TypeOK, Ids
<1>3. l \notin reaping /\ ~sock[l].told /\ call["engine"] = NoCall /\ reaping = {}
  BY <1>1, <1>2 DEF Owes, Lives
<1>4. ~sock[l].on_result /\ sock[l].results = 0 /\ sock[l].met
  <2>1. callback # [of |-> l, what |-> "OnData"]
    BY <1>1 DEF NoCallback
  <2>2. ~sock[l].on_result
    BY <1>1, <1>2, <2>1 DEF Answered
  <2> QED BY <1>1, <1>2, <1>3, <2>2 DEF Answered
<1>5. /\ sock' = [sock EXCEPT ![l].on_result = TRUE, ![l].results = @ + 1, ![l].answer = FALSE]
      /\ \E r \in {"ok", "failed", "refused"} : OnResult(l, r)
  BY <1>1, VerdictRange DEF LookupOnData, Marks
<1>6. /\ sock' \in [Ids -> Objects]
      /\ \A j \in Ids : /\ sock'[j].kind = sock[j].kind /\ sock'[j].target = sock[j].target
                        /\ sock'[j].told = sock[j].told
                        /\ j # l => sock'[j] = sock[j]
      /\ sock'[l].met = sock[l].met /\ sock'[l].on_result /\ sock'[l].results = 1
  BY <1>2, <1>4, <1>5 DEF TypeOK, Objects
<1>7. /\ call' \in [Threads -> Calls] /\ call'["app"] = call["app"]
      /\ call'["engine"].at \notin {"none", "add"} => call'["engine"].id = sock[l].target
  BY <1>2, <1>3, <1>5, ResultCall DEF TypeOK
<1>8. TypeOK'
  <2>1. callback' \in [of : 0 .. MaxSockets, what : Methods]
    BY <1>1, <1>2 DEF Methods, Ids
  <2>2. UNCHANGED <<lifeVars, engineVars, pc>> /\ TypeOK
    BY <1>1
  <2>3. sock' \in [Ids -> Objects] /\ call' \in [Threads -> Calls]
    BY <1>6, <1>7
  <2> HIDE DEF CInv
  <2> QED BY <2>1, <2>2, <2>3 DEF TypeOK
<1>9. Lives' /\ Callbacks'
  BY <1>1, <1>2, <1>6, <1>7 DEF Lives, Callbacks, NoCallback, TypeOK
<1>10. Owes'
  BY <1>1, <1>2, <1>3, <1>6 DEF Owes, NoCallback, TypeOK, Ids
<1>11. Answered'
  <2>1. ASSUME NEW j \in 1 .. lastId', Lookup(j)', j # l
        PROVE  /\ Lookup(j) /\ j \in 1 .. lastId /\ sock'[j] = sock[j]
               /\ ~(sock[j].status = "CONNECTED" /\ sock[j].on_result)
    <3>1. Lookup(j) /\ j \in 1 .. lastId /\ sock'[j] = sock[j]
      BY <1>1, <1>6, <2>1 DEF Lookup, TypeOK, Ids
    <3> QED BY <1>1, <3>1 DEF Answered, NoCallback
  <2>2. ASSUME NEW j \in 1 .. lastId', Lookup(j)', j # l
        PROVE  /\ sock'[j].results = IF sock'[j].on_result \/ sock'[j].told THEN 1 ELSE 0
               /\ ~sock'[j].met => ~sock'[j].on_result /\ sock'[j].status # "CONNECTED"
    BY <2>1, <2>2 DEF Answered
  <2>3. /\ sock'[l].results = IF sock'[l].on_result \/ sock'[l].told THEN 1 ELSE 0
        /\ sock'[l].met /\ callback' = [of |-> l, what |-> "OnData"]
    BY <1>1, <1>2, <1>4, <1>6
  <2>4. ASSUME NEW j \in 1 .. lastId', Lookup(j)'
        PROVE  /\ sock'[j].results = IF sock'[j].on_result \/ sock'[j].told THEN 1 ELSE 0
               /\ ~sock'[j].met => ~sock'[j].on_result /\ sock'[j].status # "CONNECTED"
               /\ sock'[j].status = "CONNECTED" /\ sock'[j].on_result =>
                    callback' = [of |-> j, what |-> "OnData"]
    BY <2>1, <2>2, <2>3, <2>4
  <2> QED BY <2>4 DEF Answered
<1>12. Users' = Users
  BY <1>1, <1>6 DEF Users, TypeOK, Ids
<1>13. Callers'
  BY <1>1, <1>2, <1>6, <1>7, <1>12 DEF Callers, Lookup, TypeOK, Ids, Threads
<1> QED BY <1>8, <1>9, <1>10, <1>11, <1>13

(* In an answer it cannot walk over the thread stays.                      *)
LEMMA EndlessStep == ASSUME CInv, Endless PROVE CInv'
<1> USE BoundsAreNatural DEF CInv, lifeVars, engineVars, scanVars
<1>1. PICK l \in sockets :
        /\ pc = "serve" /\ callback = NoCallback /\ pc' = "hung"
        /\ Lookup(l) /\ callback' = [of |-> l, what |-> "OnData"]
        /\ UNCHANGED <<lifeVars, engineVars, sock, call>>
  BY DEF Endless, In
<1>2. l \in 1 .. lastId /\ l \in Ids
  BY DEF TypeOK, Ids
<1>3. TypeOK'
  <2>1. callback' \in [of : 0 .. MaxSockets, what : Methods] /\ pc' \in PCs
    BY <1>1, <1>2 DEF Methods, Ids, PCs
  <2>2. TypeOK
    OBVIOUS
  <2> HIDE DEF CInv
  <2> QED BY <1>1, <2>1, <2>2 DEF TypeOK
<1>4. Lives' /\ Callbacks'
  BY <1>1, <1>2 DEF Lives, Callbacks, NoCallback
<1>5. Owes'
  BY <1>1 DEF Owes, NoCallback
<1>6. Answered'
  BY <1>1 DEF Answered, Lookup, NoCallback
<1>7. Callers'
  BY <1>1 DEF Callers, Lookup, Users
<1> QED BY <1>3, <1>4, <1>5, <1>6, <1>7

(* A callback returns.  With OnDisconnect's the thread is rid of the       *)
(* socket; a lookup's OnData has closed its own.                           *)
LEMMA ReturnStep == ASSUME CInv, Return PROVE CInv'
<1> USE BoundsAreNatural DEF CInv, lifeVars, scanVars
<1>1. /\ callback # NoCallback /\ call["engine"] = NoCall /\ callback' = NoCallback
      /\ reaping' = reaping \ (IF callback.what = "OnDisconnect" THEN {callback.of} ELSE {})
      /\ UNCHANGED <<lifeVars, lastId, sockets, locked, scanVars, pc, call>>
  BY DEF Return
<1> DEFINE i == callback.of
<1>2. i \in 1 .. lastId /\ i \in Ids /\ sock[i] \in Objects
  BY <1>1 DEF Callbacks, TypeOK, Ids
<1>3. \/ UNCHANGED sock /\ callback.what # "OnData"
      \/ sock' = [sock EXCEPT ![i].status = "DISCONNECTED"] /\ callback.what = "OnData"
  BY DEF Return, SetStatus
<1>4. /\ sock' \in [Ids -> Objects]
      /\ \A j \in Ids :
           /\ sock'[j].kind = sock[j].kind /\ sock'[j].target = sock[j].target
           /\ sock'[j].results = sock[j].results /\ sock'[j].on_result = sock[j].on_result
           /\ sock'[j].told = sock[j].told /\ sock'[j].met = sock[j].met
           /\ j # i => sock'[j] = sock[j]
      /\ IF callback.what = "OnData" THEN sock'[i].status = "DISCONNECTED" ELSE sock' = sock
  <2> HIDE DEF i
  <2> QED BY <1>2, <1>3 DEF TypeOK, Objects, Statuses
<1>5. TypeOK'
  <2>1. callback' \in [of : 0 .. MaxSockets, what : Methods]
    BY <1>1 DEF NoCallback, Methods
  <2>2. reaping' \subseteq 1 .. lastId' /\ todo' \subseteq 1 .. lastId' /\ probe' \in 1 .. 4
    BY <1>1 DEF TypeOK
  <2>3. TypeOK
    OBVIOUS
  <2> HIDE DEF CInv
  <2> QED BY <1>1, <1>4, <2>1, <2>2, <2>3 DEF TypeOK
<1>6. Lives' /\ Callbacks'
  BY <1>1 DEF Lives, Callbacks, NoCallback, TypeOK
<1>7. Owes'
  <2>1. /\ reaping' \cap sockets' = {} /\ (reaping' # {} => pc' \in {"sort", "reap", "sweep"})
        /\ todo' \subseteq sockets' /\ (pc' # "sort" => todo' = {})
    BY <1>1 DEF Owes
  <2>2. ASSUME NEW j \in 1 .. lastId'
        PROVE  /\ sock'[j].told => j \notin sockets'
               /\ ~(sock'[j].told /\ j \in reaping')
    <3>1. j \in 1 .. lastId /\ j \in Ids /\ sock'[j].told = sock[j].told
      BY <1>1, <1>4, <2>2 DEF TypeOK, Ids
    <3>2. sock[j].told /\ j \in reaping => callback = [of |-> j, what |-> "OnDisconnect"]
      BY <3>1 DEF Owes
    <3>3. callback.what = "OnDisconnect" => sock[i].told
      BY DEF Callbacks
    <3> QED BY <1>1, <1>2, <3>1, <3>2, <3>3 DEF Owes
  <2> QED BY <2>1, <2>2 DEF Owes
<1>8. Answered'
  <2>1. ASSUME NEW l \in 1 .. lastId', Lookup(l)'
        PROVE  /\ sock'[l].results = IF sock'[l].on_result \/ sock'[l].told THEN 1 ELSE 0
               /\ ~sock'[l].met => ~sock'[l].on_result /\ sock'[l].status # "CONNECTED"
               /\ ~(sock'[l].status = "CONNECTED" /\ sock'[l].on_result)
    <3>1. l \in 1 .. lastId /\ l \in Ids /\ Lookup(l)
      BY <1>1, <1>4, <2>1 DEF TypeOK, Ids, Lookup
    <3>2. sock[l].status = "CONNECTED" /\ sock[l].on_result =>
            callback = [of |-> l, what |-> "OnData"]
      BY <3>1 DEF Answered
    <3> QED BY <1>4, <3>1, <3>2 DEF Answered
  <2> QED BY <2>1 DEF Answered
<1>9. Users' = Users
  BY <1>1, <1>4 DEF Users, TypeOK, Ids
<1>10. Callers'
  BY <1>1, <1>4, <1>9 DEF Callers, Lookup, TypeOK, Ids
<1> QED BY <1>5, <1>6, <1>7, <1>8, <1>10

(* The pass is over.                                                       *)
LEMMA PassDoneStep == ASSUME CInv, PassDone PROVE CInv'
<1> USE BoundsAreNatural DEF CInv, PassDone,
        lifeVars, engineVars, scanVars
<1>1. TypeOK'
  BY DEF TypeOK, PCs
<1>2. Lives'
  BY DEF Lives
<1>3. Callbacks'
  BY DEF Callbacks, NoCallback
<1>4. Owes'
  BY DEF Owes
<1>5. Answered'
  BY DEF Answered, Lookup
<1>6. Callers'
  BY DEF Callers, Users, Lookup
<1> QED BY <1>1, <1>2, <1>3, <1>4, <1>5, <1>6

(* A datagram changes nothing until it is read.                            *)
LEMMA ArriveStep == ASSUME CInv, Arrive PROVE CInv'
<1> USE BoundsAreNatural DEF CInv, Arrive,
        lifeVars, engineVars, scanVars
<1>1. TypeOK'
  <2>1. sock' \in [Ids -> Objects]
    <3>1. PICK l \in 1 .. lastId : sock' = [sock EXCEPT ![l].answer = TRUE]
      OBVIOUS
    <3>2. l \in Ids
      BY DEF TypeOK, Ids
    <3> QED BY <3>1, <3>2, AnswerType DEF TypeOK
  <2>2. call' \in [Threads -> Calls]
    BY DEF TypeOK
  <2>3. /\ init' \in BOOLEAN /\ stopping' \in BOOLEAN
        /\ engine' \in {"none", "alive", "deleted"} /\ life' \in 0 .. MaxLives
        /\ lastId' \in 0 .. MaxSockets /\ sockets' \subseteq 1 .. lastId'
        /\ todo' \subseteq 1 .. lastId' /\ probe' \in 1 .. 4
        /\ reaping' \subseteq 1 .. lastId'
        /\ mutex' \in MutexKinds /\ locked' \in BOOLEAN /\ server' \in BOOLEAN
    BY DEF TypeOK
  <2>4. pc' \in PCs /\ callback' \in [of : 0 .. MaxSockets, what : Methods]
    BY DEF TypeOK
  <2> QED BY <2>1, <2>2, <2>3, <2>4 DEF TypeOK
<1>2. Lives'
  BY DEF Lives
<1>3. Callbacks'
  BY DEF Callbacks
<1>4. Owes'
  BY DEF Owes
<1>5. Answered'
  BY DEF Answered, Lookup
<1>6. Callers'
  BY DEF Callers, Users, Lookup
<1> QED BY <1>1, <1>2, <1>3, <1>4, <1>5, <1>6

-----------------------------------------------------------------------------
(* The invariant holds always: no step of the application, of a handler or *)
(* of the engine thread breaks it.                                         *)
THEOREM Invariance == Spec => []CInv
<1>1. CInv /\ [Next]_vars => CInv'
  <2> SUFFICES ASSUME CInv, [Next]_vars PROVE CInv'
    OBVIOUS
  <2>1. CASE Next
    <3>1. CASE Start \/ StopBegin \/ StopEnd
      BY <3>1, StartStep, StopBeginStep, StopEndStep
    <3>2. ASSUME NEW t \in Threads, Begin(t) PROVE CInv'
      BY <3>2, BeginStep
    <3>3. ASSUME NEW t \in Threads, CallStep(t) PROVE CInv'
      BY <3>3, CreateStep, QueryStep, ConnectStep, StartConnectStep, CloseStep, SendStep,
         GetAddrInfoStep, OutOfSocketsStep
      DEF CallStep
    <3>4. CASE Pass
      BY <3>4, IdleStep, IdleDispatchStep, LockTwiceStep, NextComparisonStep, ClassifyStep,
         FallThroughStep, ScanDoneStep, ExitStep, DisconnectStep, ReapDoneStep, PassDoneStep
      DEF Pass, Scan
    <3>5. CASE Connected \/ Lost \/ Data \/ Endless \/ Return \/ Arrive
      BY <3>5, ConnectedStep, LostStep, DataStep, EndlessStep, ReturnStep, ArriveStep
    <3> QED BY <2>1, <3>1, <3>2, <3>3, <3>4, <3>5 DEF Next
  <2>2. CASE UNCHANGED vars
    <3> USE <2>2 DEF vars, lifeVars, engineVars, scanVars
    <3>1. TypeOK'
      BY DEF CInv, TypeOK
    <3>2. Lives' /\ Callbacks' /\ Owes'
      BY DEF CInv, Lives, Callbacks, Owes
    <3>3. Answered' /\ Callers'
      BY DEF CInv, Answered, Callers, Lookup, Users
    <3> QED BY <3>1, <3>2, <3>3 DEF CInv
  <2> QED BY <2>1, <2>2
<1> QED BY InitCInv, <1>1, PTL DEF Spec

(* The state of Connector, its engine and its lookups keeps its types.     *)
THEOREM TypeCorrect == Spec => []TypeOK
<1>1. CInv => TypeOK
  BY DEF CInv
<1> QED BY Invariance, <1>1, PTL

(* When Stop deletes the engine the thread has ended, no handler is in the *)
(* middle of a callback and nobody in a call, whatever was in progress     *)
(* when Stop began.                                                        *)
THEOREM NobodyLeftBehind == Spec => []NoUseAfterDelete
<1>1. CInv => NoUseAfterDelete
  BY DEF CInv, Lives, NoUseAfterDelete, Threads
<1> QED BY Invariance, <1>1, PTL

(* A lookup answers at most once, and has answered when it has heard       *)
(* OnDisconnect, in whatever order its answers, its own Close, the scan    *)
(* and the thread's end come.                                              *)
THEOREM AnsweredOnce == Spec => []AnswersOnce
<1>1. CInv => AnswersOnce
  BY DEF CInv, Answered, AnswersOnce
<1> QED BY Invariance, <1>1, PTL

(* A lookup that has sent its query has asked for its name, if it is a     *)
(* host name, and the server it should ask, for names and files of any     *)
(* length.                                                                 *)
THEOREM NamesAsked == Spec => []QueriesNameHosts
<1>1. QueriesNameHosts
  BY EveryNameAsks DEF QueriesNameHosts
<1> QED BY <1>1, PTL

(* A lookup that has been answered found the first address, in a text      *)
(* connectIp takes, or a failure if the answer had none, for chains of any *)
(* length whose records the walk can skip.                                 *)
THEOREM AddressesFound == Spec => []AnswersFound
<1>1. AnswersFound
  BY EveryAnswerLeads DEF AnswersFound
<1> QED BY <1>1, PTL

=============================================================================
