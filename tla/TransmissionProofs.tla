------------------------- MODULE TransmissionProofs -------------------------
(***************************************************************************)
(* What TLAPS proves of Transmission, for any size of the read cache and   *)
(* of the kernels' buffers and any number of bytes: bytes are conserved,   *)
(* only whole caches stay behind, a pass reads what had arrived, and the   *)
(* handler is called in order.                                             *)
(***************************************************************************)
EXTENDS Transmission, TLAPS

(* What the handler has heard, by where the engine thread is: created as   *)
(* long as the connection may still be coming up, told of the end only     *)
(* when all is done.  Between its two tests RealWrite, or RealRead, can    *)
(* find the socket DISCONNECTED only by a Close; what it then does comes   *)
(* before OnConnect.                                                       *)
Heard ==
  /\ status = "CONNECTING" \/ pc \in {"finish", "connected"} => heard = "created"
  /\ status = "CONNECTING" => ~closed
  /\ status = "CONNECTED" => heard \in Talking
  /\ pc \in {"writing", "checked"} => status # "DISCONNECTED" \/ closed
  /\ pc \in {"flush", "reading"} => heard \in Talking \/ closed
  /\ pc # "done" => heard # "OnDisconnect"
  /\ pc \in {"reap", "done"} => status = "DISCONNECTED"

(* What had arrived when the pass polled and is not read yet is still      *)
(* there, and a pass that is writing has reading ahead of it.              *)
Ahead ==
  /\ due <= incoming
  /\ pc \in {"write", "writing", "finish", "connected", "flush"} /\ due > 0 => readable
  /\ ReadInPass

TInv == TypeOK /\ NothingLost /\ OnlyWholeCachesStick /\ Heard /\ Ahead

-----------------------------------------------------------------------------
(* Adding a whole cache to whole caches makes whole caches: RealRead's     *)
(* reads that do not finish.                                               *)
LEMMA AddWhole ==
  ASSUME NEW n \in Nat, NEW c \in Nat \ {0}, n % c = 0
  PROVE  (n + c) % c = 0
<1>1. n = c * (n \div c) + (n % c)
  BY SMT
<1>2. /\ n + c = c * ((n + c) \div c) + ((n + c) % c)
      /\ (n + c) % c \in 0 .. c - 1
  BY SMT
<1> QED BY <1>1, <1>2, SMT

(* Nothing left behind is no part of a cache.                              *)
LEMMA ZeroWhole ==
  ASSUME NEW n \in Nat, NEW c \in Nat \ {0}
  PROVE  (n - n) % c = 0
<1> QED OBVIOUS

-----------------------------------------------------------------------------
(* The invariant holds when Transmission's constructor returns.            *)
LEMMA InitTInv == Init => TInv
<1> SUFFICES ASSUME Init PROVE TInv
  OBVIOUS
<1> USE TransmissionAssumption DEF Init
<1>1. TypeOK
  <2>1. readable \in BOOLEAN /\ fin \in BOOLEAN /\ reset \in BOOLEAN /\ closed \in BOOLEAN
    OBVIOUS
  <2> QED BY <2>1 DEF TypeOK, Talking
<1>2. NothingLost BY DEF NothingLost
<1>3. OnlyWholeCachesStick BY ZeroWhole DEF OnlyWholeCachesStick
<1>4. Heard BY DEF Heard, Talking
<1>5. Ahead BY DEF Ahead, ReadInPass
<1> QED BY <1>1, <1>2, <1>3, <1>4, <1>5 DEF TInv

-----------------------------------------------------------------------------

(* The handshake's end is nobody's bytes.                                  *)
LEMMA ConnectEndsStep == ASSUME TInv, ConnectEnds PROVE TInv'
<1> USE TransmissionAssumption DEF TInv, ConnectEnds, kernelVars, bufferVars, countVars
<1>1. TypeOK' BY DEF TypeOK, Talking, NothingLost, Heard
<1>2. NothingLost' BY DEF NothingLost, TypeOK
<1>3. OnlyWholeCachesStick' BY DEF OnlyWholeCachesStick
<1>4. Heard' BY DEF Heard, Talking, TypeOK
<1>5. Ahead' BY DEF Ahead, ReadInPass, TypeOK
<1> QED BY <1>1, <1>2, <1>3, <1>4, <1>5

(* A byte arrives: one more in the kernel, one more to account for.        *)
LEMMA PeerSendStep == ASSUME TInv, PeerSend PROVE TInv'
<1> USE TransmissionAssumption DEF TInv, PeerSend, Up, kernelVars, bufferVars, countVars
<1>1. TypeOK' BY DEF TypeOK, Talking, NothingLost, Heard
<1>2. NothingLost' BY DEF NothingLost, TypeOK
<1>3. OnlyWholeCachesStick' BY DEF OnlyWholeCachesStick
<1>4. Heard' BY DEF Heard, Talking, TypeOK
<1>5. Ahead' BY DEF Ahead, ReadInPass, TypeOK
<1> QED BY <1>1, <1>2, <1>3, <1>4, <1>5

(* The peer reads: a byte moves from the kernels to the peer.              *)
LEMMA PeerReadStep == ASSUME TInv, PeerRead PROVE TInv'
<1> USE TransmissionAssumption DEF TInv, PeerRead, Up, kernelVars, bufferVars, countVars
<1>1. TypeOK' BY DEF TypeOK, Talking, NothingLost, Heard
<1>2. NothingLost' BY DEF NothingLost, TypeOK
<1>3. OnlyWholeCachesStick' BY DEF OnlyWholeCachesStick
<1>4. Heard' BY DEF Heard, Talking, TypeOK
<1>5. Ahead' BY DEF Ahead, ReadInPass, TypeOK
<1> QED BY <1>1, <1>2, <1>3, <1>4, <1>5

(* The peer's FIN moves no byte.                                           *)
LEMMA PeerCloseStep == ASSUME TInv, PeerClose PROVE TInv'
<1> USE TransmissionAssumption DEF TInv, PeerClose, Up, kernelVars, bufferVars, countVars
<1>1. TypeOK' BY DEF TypeOK, Talking, NothingLost, Heard
<1>2. NothingLost' BY DEF NothingLost, TypeOK
<1>3. OnlyWholeCachesStick' BY DEF OnlyWholeCachesStick
<1>4. Heard' BY DEF Heard, Talking, TypeOK
<1>5. Ahead' BY DEF Ahead, ReadInPass, TypeOK
<1> QED BY <1>1, <1>2, <1>3, <1>4, <1>5

(* A reset leaves what has arrived readable.                               *)
LEMMA PeerResetStep == ASSUME TInv, PeerReset PROVE TInv'
<1> USE TransmissionAssumption DEF TInv, PeerReset, Up, kernelVars, bufferVars, countVars
<1>1. TypeOK' BY DEF TypeOK, Talking, NothingLost, Heard
<1>2. NothingLost' BY DEF NothingLost, TypeOK
<1>3. OnlyWholeCachesStick' BY DEF OnlyWholeCachesStick
<1>4. Heard' BY DEF Heard, Talking, TypeOK
<1>5. Ahead' BY DEF Ahead, ReadInPass, TypeOK
<1> QED BY <1>1, <1>2, <1>3, <1>4, <1>5

(* Send puts into send_ what it accepts.                                   *)
LEMMA SendStep == ASSUME TInv, Send PROVE TInv'
<1> USE TransmissionAssumption DEF TInv, Send, kernelVars, bufferVars, countVars
<1>1. TypeOK' BY DEF TypeOK, Talking, NothingLost, Heard
<1>2. NothingLost' BY DEF NothingLost, TypeOK
<1>3. OnlyWholeCachesStick' BY DEF OnlyWholeCachesStick
<1>4. Heard' BY DEF Heard, Talking, TypeOK
<1>5. Ahead' BY DEF Ahead, ReadInPass, TypeOK
<1> QED BY <1>1, <1>2, <1>3, <1>4, <1>5

(* Close only writes status_, and DISCONNECTED asks nothing of what the    *)
(* handler has heard.                                                      *)
LEMMA CloseStep == ASSUME TInv, Close PROVE TInv'
<1> USE TransmissionAssumption DEF TInv, Close, kernelVars, bufferVars, countVars
<1>1. TypeOK' BY DEF TypeOK, Talking, NothingLost, Heard
<1>2. NothingLost' BY DEF NothingLost, TypeOK
<1>3. OnlyWholeCachesStick' BY DEF OnlyWholeCachesStick
<1>4. Heard' BY DEF Heard, Talking, TypeOK
<1>5. Ahead' BY DEF Ahead, ReadInPass, TypeOK
<1> QED BY <1>1, <1>2, <1>3, <1>4, <1>5

(* The scan moves the engine thread, nothing else.                         *)
LEMMA ScanStep == ASSUME TInv, Scan PROVE TInv'
<1> USE TransmissionAssumption DEF TInv, Scan, Gone, kernelVars, bufferVars, countVars
<1>1. TypeOK' BY DEF TypeOK, Talking, NothingLost, Heard
<1>2. NothingLost' BY DEF NothingLost, TypeOK
<1>3. OnlyWholeCachesStick' BY DEF OnlyWholeCachesStick
<1>4. Heard' BY DEF Heard, Talking, TypeOK
<1>5. Ahead' BY DEF Ahead, ReadInPass, TypeOK
<1> QED BY <1>1, <1>2, <1>3, <1>4, <1>5

(* The end of the loop moves the thread.                                   *)
LEMMA ThreadEndsStep == ASSUME TInv, ThreadEnds PROVE TInv'
<1> USE TransmissionAssumption DEF TInv, ThreadEnds, kernelVars, bufferVars, countVars
<1>1. TypeOK' BY DEF TypeOK, Talking, NothingLost, Heard
<1>2. NothingLost' BY DEF NothingLost, TypeOK
<1>3. OnlyWholeCachesStick' BY DEF OnlyWholeCachesStick
<1>4. Heard' BY DEF Heard, Talking, TypeOK
<1>5. Ahead' BY DEF Ahead, ReadInPass, TypeOK
<1> QED BY <1>1, <1>2, <1>3, <1>4, <1>5

(* afterThread's Close.                                                    *)
LEMMA ExitStep == ASSUME TInv, Exit PROVE TInv'
<1> USE TransmissionAssumption DEF TInv, Exit, kernelVars, bufferVars, countVars
<1>1. TypeOK' BY DEF TypeOK, Talking, NothingLost, Heard
<1>2. NothingLost' BY DEF NothingLost, TypeOK
<1>3. OnlyWholeCachesStick' BY DEF OnlyWholeCachesStick
<1>4. Heard' BY DEF Heard, Talking, TypeOK
<1>5. Ahead' BY DEF Ahead, ReadInPass, TypeOK
<1> QED BY <1>1, <1>2, <1>3, <1>4, <1>5

(* RealDisconnect is the step into "done".                                 *)
LEMMA ReapStep == ASSUME TInv, Reap PROVE TInv'
<1> USE TransmissionAssumption DEF TInv, Reap, kernelVars, bufferVars, countVars
<1>1. TypeOK' BY DEF TypeOK, Talking, NothingLost, Heard
<1>2. NothingLost' BY DEF NothingLost, TypeOK
<1>3. OnlyWholeCachesStick' BY DEF OnlyWholeCachesStick
<1>4. Heard' BY DEF Heard, Talking, TypeOK
<1>5. Ahead' BY DEF Ahead, ReadInPass, TypeOK
<1> QED BY <1>1, <1>2, <1>3, <1>4, <1>5

(* Dispatch and FdCheck look at the kernel.                                *)
LEMMA PollStep == ASSUME TInv, Poll PROVE TInv'
<1> USE TransmissionAssumption DEF TInv, Poll, Readable, kernelVars, bufferVars, countVars
<1>1. TypeOK' BY DEF TypeOK, Talking, NothingLost, Heard
<1>2. NothingLost' BY DEF NothingLost, TypeOK
<1>3. OnlyWholeCachesStick' BY DEF OnlyWholeCachesStick
<1>4. Heard' BY DEF Heard, Talking, TypeOK
<1>5. Ahead'
  <2>1. due' = incoming /\ incoming' = incoming /\ incoming \in Nat
    BY DEF TypeOK
  <2>2. CASE Readable
    <3>1. readable' BY <2>2
    <3>2. pc' # "scan" BY <2>2
    <3> QED BY <2>1, <3>1, <3>2 DEF Ahead, ReadInPass
  <2>3. CASE ~Readable
    <3>1. due' = 0 BY <2>1, <2>3
    <3> QED BY <2>1, <3>1 DEF Ahead, ReadInPass
  <2> QED BY <2>2, <2>3
<1> QED BY <1>1, <1>2, <1>3, <1>4, <1>5

(* RealWrite's first test lets nothing but what is not DISCONNECTED on.    *)
LEMMA RealWriteStep == ASSUME TInv, RealWrite PROVE TInv'
<1> USE TransmissionAssumption DEF TInv, RealWrite, AfterWrite, kernelVars, bufferVars, countVars
<1>1. TypeOK' BY DEF TypeOK, Talking, NothingLost, Heard
<1>2. NothingLost' BY DEF NothingLost, TypeOK
<1>3. OnlyWholeCachesStick' BY DEF OnlyWholeCachesStick
<1>4. Heard' BY DEF Heard, Talking, TypeOK
<1>5. Ahead' BY DEF Ahead, ReadInPass, TypeOK
<1> QED BY <1>1, <1>2, <1>3, <1>4, <1>5

(* Its second test: CONNECTING leads to the error test, all else to        *)
(* OnWrite.                                                                *)
LEMMA StillConnectingStep == ASSUME TInv, StillConnecting PROVE TInv'
<1> USE TransmissionAssumption DEF TInv, StillConnecting, kernelVars, bufferVars, countVars
<1>1. TypeOK' BY DEF TypeOK, Talking, NothingLost, Heard
<1>2. NothingLost' BY DEF NothingLost, TypeOK
<1>3. OnlyWholeCachesStick' BY DEF OnlyWholeCachesStick
<1>4. Heard' BY DEF Heard, Talking, TypeOK
<1>5. Ahead' BY DEF Ahead, ReadInPass, TypeOK
<1> QED BY <1>1, <1>2, <1>3, <1>4, <1>5

(* SocketFinishConnecting: on to OnConnect, to DISCONNECTED, or back.      *)
LEMMA FinishConnectingStep == ASSUME TInv, FinishConnecting PROVE TInv'
<1> USE TransmissionAssumption DEF TInv, FinishConnecting, AfterWrite, kernelVars, bufferVars, countVars
<1>1. TypeOK' BY DEF TypeOK, Talking, NothingLost, Heard
<1>2. NothingLost' BY DEF NothingLost, TypeOK
<1>3. OnlyWholeCachesStick' BY DEF OnlyWholeCachesStick
<1>4. Heard' BY DEF Heard, Talking, TypeOK
<1>5. Ahead' BY DEF Ahead, ReadInPass, TypeOK
<1> QED BY <1>1, <1>2, <1>3, <1>4, <1>5

(* OnConnect is the first the handler hears.                               *)
LEMMA ConnectedStep == ASSUME TInv, Connected PROVE TInv'
<1> USE TransmissionAssumption DEF TInv, Connected, NewStatus, kernelVars, bufferVars, countVars
<1>1. TypeOK' BY DEF TypeOK, Talking, NothingLost, Heard
<1>2. NothingLost' BY DEF NothingLost, TypeOK
<1>3. OnlyWholeCachesStick' BY DEF OnlyWholeCachesStick
<1>4. Heard' BY DEF Heard, Talking, TypeOK
<1>5. Ahead' BY DEF Ahead, ReadInPass, TypeOK
<1> QED BY <1>1, <1>2, <1>3, <1>4, <1>5

(* Nothing to send: the handler is asked for more.                         *)
LEMMA AskForMoreStep == ASSUME TInv, AskForMore PROVE TInv'
<1> USE TransmissionAssumption DEF TInv, AskForMore, AfterWrite, kernelVars, bufferVars, countVars
<1>1. TypeOK' BY DEF TypeOK, Talking, NothingLost, Heard
<1>2. NothingLost' BY DEF NothingLost, TypeOK
<1>3. OnlyWholeCachesStick' BY DEF OnlyWholeCachesStick
<1>4. Heard' BY DEF Heard, Talking, TypeOK
<1>5. Ahead' BY DEF Ahead, ReadInPass, TypeOK
<1> QED BY <1>1, <1>2, <1>3, <1>4, <1>5

(* What write() takes moves from send_ to the kernels.                     *)
LEMMA WriteStep == ASSUME TInv, Write PROVE TInv'
<1> USE TransmissionAssumption DEF TInv, Write, AfterWrite, kernelVars, bufferVars, countVars
<1>1. TypeOK' BY DEF TypeOK, Talking, NothingLost, Heard
<1>2. NothingLost' BY DEF NothingLost, TypeOK
<1>3. OnlyWholeCachesStick' BY DEF OnlyWholeCachesStick
<1>4. Heard' BY DEF Heard, Talking, TypeOK
<1>5. Ahead' BY DEF Ahead, ReadInPass, TypeOK
<1> QED BY <1>1, <1>2, <1>3, <1>4, <1>5

(* A failing write() moves nothing.                                        *)
LEMMA WriteFailsStep == ASSUME TInv, WriteFails PROVE TInv'
<1> USE TransmissionAssumption DEF TInv, WriteFails, AfterWrite, kernelVars, bufferVars, countVars
<1>1. TypeOK' BY DEF TypeOK, Talking, NothingLost, Heard
<1>2. NothingLost' BY DEF NothingLost, TypeOK
<1>3. OnlyWholeCachesStick' BY DEF OnlyWholeCachesStick
<1>4. Heard' BY DEF Heard, Talking, TypeOK
<1>5. Ahead' BY DEF Ahead, ReadInPass, TypeOK
<1> QED BY <1>1, <1>2, <1>3, <1>4, <1>5

(* RealRead's first test.                                                  *)
LEMMA RealReadStep == ASSUME TInv, RealRead PROVE TInv'
<1> USE TransmissionAssumption DEF TInv, RealRead, kernelVars, bufferVars, countVars
<1>1. TypeOK' BY DEF TypeOK, Talking, NothingLost, Heard
<1>2. NothingLost' BY DEF NothingLost, TypeOK
<1>3. OnlyWholeCachesStick' BY DEF OnlyWholeCachesStick
<1>4. Heard' BY DEF Heard, Talking, TypeOK
<1>5. Ahead' BY DEF Ahead, ReadInPass, TypeOK
<1> QED BY <1>1, <1>2, <1>3, <1>4, <1>5

(* Its second test: only a socket that is not CONNECTING is read.          *)
LEMMA NotConnectingStep == ASSUME TInv, NotConnecting PROVE TInv'
<1> USE TransmissionAssumption DEF TInv, NotConnecting, kernelVars, bufferVars, countVars
<1>1. TypeOK' BY DEF TypeOK, Talking, NothingLost, Heard
<1>2. NothingLost' BY DEF NothingLost, TypeOK
<1>3. OnlyWholeCachesStick' BY DEF OnlyWholeCachesStick
<1>4. Heard' BY DEF Heard, Talking, TypeOK
<1>5. Ahead' BY DEF Ahead, ReadInPass, TypeOK
<1> QED BY <1>1, <1>2, <1>3, <1>4, <1>5

(* A read() moves a cache or what there is to read_; if it was less than a *)
(* cache, OnData is shown everything and takes a part.                     *)
LEMMA ReadSomeStep == ASSUME TInv, ReadSome PROVE TInv'
<1> USE TransmissionAssumption DEF TInv, ReadSome, Finish, kernelVars, bufferVars, countVars
<1>0. Taken \in 1 .. incoming /\ Taken <= CacheLen
  BY DEF Taken, TypeOK
<1>1. CASE Finish
  <2>1. PICK n \in Takes : readBuf' = Left(n) /\ delivered' = delivered + n
    BY <1>1
  <2>2. n \in 0 .. readBuf + Taken /\ readBuf' = readBuf + Taken - n
    BY <2>1, <1>0 DEF Takes, Left
  <2>3. offered' = readBuf' /\ heard' = "OnData" /\ pc' = "scan" /\ status' = status
    BY <1>1
  <2>4. TypeOK' BY <1>0, <2>1, <2>2, <2>3 DEF TypeOK, Talking, NothingLost, Heard
  <2>5. NothingLost' BY <1>0, <2>1, <2>2 DEF NothingLost, TypeOK
  <2>6. OnlyWholeCachesStick'
    <3>1. readBuf' \in Nat BY <2>4 DEF TypeOK
    <3>2. (readBuf' - readBuf') % CacheLen = 0
      <4> HIDE DEF TInv, ReadSome
      <4> QED BY <3>1, ZeroWhole
    <3> QED BY <2>3, <3>2 DEF OnlyWholeCachesStick
  <2>7. Heard' BY <2>3 DEF Heard, Talking
  <2>8. Ahead'
    <3>1. Taken = incoming /\ incoming \in Nat /\ due \in Nat /\ due <= incoming
      BY <1>1 DEF Taken, TypeOK, Ahead
    <3>2. due' = 0 /\ incoming' = 0
      BY <3>1
    <3> QED BY <2>3, <3>2 DEF Ahead, ReadInPass
  <2> QED BY <2>4, <2>5, <2>6, <2>7, <2>8
<1>2. CASE ~Finish
  <2>1. readBuf' = readBuf + CacheLen /\ UNCHANGED <<delivered, offered, heard, pc, status>>
    BY <1>0, <1>2 DEF TypeOK
  <2>2. TypeOK' BY <1>0, <1>2, <2>1 DEF TypeOK, Talking, NothingLost
  <2>3. NothingLost' BY <1>0, <1>2, <2>1 DEF NothingLost, TypeOK
  <2>4. OnlyWholeCachesStick'
    <3>1. readBuf - offered \in Nat /\ readBuf' - offered' = (readBuf - offered) + CacheLen
      BY <2>1 DEF TypeOK
    <3> QED BY <3>1, AddWhole DEF OnlyWholeCachesStick
  <2>5. Heard' BY <2>1 DEF Heard
  <2>6. Ahead' BY <1>0, <2>1 DEF Ahead, ReadInPass, TypeOK
  <2> QED BY <2>2, <2>3, <2>4, <2>5, <2>6
<1> QED BY <1>1, <1>2

(* A read() that finds nothing moves nothing.                              *)
LEMMA ReadNothingStep == ASSUME TInv, ReadNothing PROVE TInv'
<1> USE TransmissionAssumption DEF TInv, ReadNothing, kernelVars, bufferVars, countVars
<1>1. TypeOK' BY DEF TypeOK, Talking, NothingLost, Heard
<1>2. NothingLost' BY DEF NothingLost, TypeOK
<1>3. OnlyWholeCachesStick' BY DEF OnlyWholeCachesStick
<1>4. Heard' BY DEF Heard, Talking, TypeOK
<1>5. Ahead' BY DEF Ahead, ReadInPass, TypeOK
<1> QED BY <1>1, <1>2, <1>3, <1>4, <1>5

(* No step of anybody breaks the invariant, nor does a step of the rest of *)
(* the process.                                                            *)
LEMMA NextTInv == TInv /\ [Next]_vars => TInv'
<1> SUFFICES ASSUME TInv, [Next]_vars PROVE TInv'
  OBVIOUS
<1>1. CASE Peer
  BY <1>1, ConnectEndsStep, PeerSendStep, PeerReadStep, PeerCloseStep, PeerResetStep DEF Peer
<1>2. CASE Send \/ Close
  BY <1>2, SendStep, CloseStep
<1>3. CASE EngineStep
  BY <1>3, ScanStep, ReapStep, PollStep, ExitStep, RealWriteStep, StillConnectingStep,
     FinishConnectingStep, ConnectedStep, AskForMoreStep, WriteStep, WriteFailsStep,
     RealReadStep, NotConnectingStep, ReadSomeStep, ReadNothingStep DEF EngineStep
<1>4. CASE ThreadEnds
  BY <1>4, ThreadEndsStep
<1>5. CASE UNCHANGED vars
  BY <1>5 DEF vars, kernelVars, bufferVars, countVars, TInv, TypeOK, NothingLost,
             OnlyWholeCachesStick, Heard, Ahead, ReadInPass
<1> QED BY <1>1, <1>2, <1>3, <1>4, <1>5 DEF Next

-----------------------------------------------------------------------------
(* The invariant, and with it the four properties it is made of, holds in  *)
(* every state.                                                            *)
THEOREM Invariance == Spec => []TInv
<1> QED BY InitTInv, NextTInv, PTL DEF Spec

(* Every variable keeps its type, whatever is sent, read, closed or reset. *)
THEOREM TypeCorrect == Spec => []TypeOK
<1>1. TInv => TypeOK BY DEF TInv
<1> QED BY <1>1, Invariance, PTL

(* Bytes are conserved in both directions, whatever parts read(), write()  *)
(* and OnData take.                                                        *)
THEOREM Conservation == Spec => []NothingLost
<1>1. TInv => NothingLost BY DEF TInv
<1> QED BY <1>1, Invariance, PTL

(* What RealRead has read and not shown to the handler is a whole number   *)
(* of caches.                                                              *)
THEOREM WholeCaches == Spec => []OnlyWholeCachesStick
<1>1. TInv => OnlyWholeCachesStick BY DEF TInv
<1> QED BY <1>1, Invariance, PTL

(* A connected socket's pass ends with everything read that had arrived    *)
(* when it polled, for any amount of it.                                   *)
THEOREM PassReads == Spec => []ReadInPass
<1>1. TInv => ReadInPass BY DEF TInv, Ahead
<1> QED BY <1>1, Invariance, PTL

(* OnConnect is heard once and OnDisconnect last; what comes before        *)
(* OnConnect comes to a socket that had been closed.                       *)
THEOREM CalledInOrder == Spec => HeardInOrder
<1>1. ASSUME TInv, [Next]_vars PROVE [heard' # heard => Hears(heard')]_vars
  <2> SUFFICES ASSUME heard' # heard PROVE Hears(heard')
    OBVIOUS
  <2>1. CASE Reap
    BY <1>1, <2>1 DEF Reap, TInv, Heard, Hears
  <2>2. CASE Connected
    BY <1>1, <2>2 DEF Connected, TInv, Heard, Hears
  <2>3. CASE AskForMore \/ ReadSome
    <3>1. heard \in Talking \/ closed
      BY <1>1, <2>3 DEF AskForMore, ReadSome, TInv, Heard
    <3>2. heard \in {"created"} \cup Talking /\ heard' \in {"OnData", "OnWrite"}
      BY <1>1, <2>3 DEF AskForMore, ReadSome, TInv, TypeOK, Heard
    <3> QED BY <3>1, <3>2 DEF Hears
  <2>4. CASE Peer \/ Send \/ Close \/ ThreadEnds \/ UNCHANGED vars
    BY <2>4 DEF Peer, ConnectEnds, PeerSend, PeerRead, PeerClose, PeerReset, Send, Close,
                ThreadEnds, vars
  <2>5. CASE Scan \/ Poll \/ Exit \/ RealWrite \/ StillConnecting \/ FinishConnecting
    BY <2>5 DEF Scan, Poll, Exit, RealWrite, StillConnecting, FinishConnecting
  <2>6. CASE Write \/ WriteFails \/ RealRead \/ NotConnecting \/ ReadNothing
    BY <2>6 DEF Write, WriteFails, RealRead, NotConnecting, ReadNothing
  <2> QED BY <1>1, <2>1, <2>2, <2>3, <2>4, <2>5, <2>6 DEF Next, EngineStep
<1> QED BY <1>1, Invariance, PTL DEF Spec, HeardInOrder

=============================================================================
