---------------------------- MODULE WakeUpProofs ----------------------------
(***************************************************************************)
(* What TLAPS proves of WakeUp, for any descriptors, senders and room in   *)
(* the pair, in the select and the epoll build.  The invariant is TypeOK   *)
(* strengthened by whose descriptors are whose (Ends), where bytes wait    *)
(* (Bytes) and what the thread may have seen (Seen).                       *)
(***************************************************************************)
EXTENDS WakeUp, TLAPS

(* The pair's ends are two open descriptors that are neither standard      *)
(* input nor the connection's, and only one of them and input are ever     *)
(* made non-blocking.                                                      *)
Ends ==
  /\ closed => wakeup_in = 0 /\ wakeup_out = 0
  /\ ~closed => /\ wakeup_in \in open /\ wakeup_out \in open
                /\ wakeup_in # wakeup_out /\ wakeup_in # 0 /\ wakeup_out # 0
  /\ 0 \in open /\ conn \in open
  /\ conn # 0 => conn # wakeup_in /\ conn # wakeup_out
  /\ nonblock \subseteq {0, wakeup_in}

(* A byte waits only at an end of a pair that is open, and nobody is in    *)
(* Send of one that is closed.                                             *)
Bytes ==
  /\ sending # {} => ~closed
  /\ \A f \in Fds : waiting[f] > 0 => ~closed /\ f \in {wakeup_in, wakeup_out}

(* epoll's table stays empty; a thread that will find the pair readable    *)
(* will find a byte.                                                       *)
Seen ==
  /\ io = "epoll" => DOMAIN table = {}
  /\ pc = "awake" /\ Any /\ GetReadFd \in read_set => ~closed /\ waiting[GetReadFd] > 0
  /\ NoFalseWakeUp

WInv == TypeOK /\ Ends /\ Bytes /\ Seen

-----------------------------------------------------------------------------
(* A new program has its standard input and nothing else.                  *)
LEMMA InitWInv == Init => WInv
<1> SUFFICES ASSUME Init PROVE WInv
  OBVIOUS
<1> USE IoMultiplexingAssumption, SocketPairAssumption DEF Init, IoInit, PairInit
<1>1. TypeOK
  BY DEF TypeOK, IoTypeOK, PairTypeOK
<1>2. Ends /\ Bytes /\ Seen
  BY DEF Ends, Bytes, Seen, NoFalseWakeUp
<1> QED BY <1>1, <1>2 DEF WInv

(* AddFd keeps the table's types: epoll's counter is not touched, since    *)
(* nothing is ever in its table.                                           *)
LEMMA AddFdType ==
  ASSUME NEW fd \in Fds, NEW how \in SUBSET {"r", "w"}, IoTypeOK,
         io = "epoll" => DOMAIN table = {}, AddFd(fd, how)
  PROVE  IoTypeOK' /\ (io' = "epoll" => DOMAIN table' = {})
<1> USE DEF AddFd, IoTypeOK
<1>1. io = "epoll" => ~Adds
  BY DEF Adds, GivesUp
<1>2. DOMAIN table' \subseteq Fds /\ \A f \in DOMAIN table' : table'[f] \subseteq {"r", "w"}
  <2>1. CASE Adds /\ fd \notin DOMAIN table
    <3>1. table' = [f \in DOMAIN table \cup {fd} |-> IF f = fd THEN how ELSE table[f]]
      BY <2>1
    <3> QED BY <3>1
  <2>2. CASE ~(Adds /\ fd \notin DOMAIN table)
    <3>1. table' = table
      BY <2>2
    <3> QED BY <3>1
  <2> QED BY <2>1, <2>2
<1>3. fd_max' \in Fds /\ fd_num' \in Nat
  OBVIOUS
<1>4. io' = "epoll" => DOMAIN table' = {}
  BY <1>1
<1> QED BY <1>2, <1>3, <1>4

(* DeleteFd likewise.                                                      *)
LEMMA DeleteFdType ==
  ASSUME NEW fd \in Fds, IoTypeOK, io = "epoll" => DOMAIN table = {}, DeleteFd(fd)
  PROVE  IoTypeOK' /\ (io' = "epoll" => DOMAIN table' = {})
<1> USE DEF DeleteFd, IoTypeOK
<1>1. DOMAIN table' = DOMAIN table \ {fd} /\ \A f \in DOMAIN table' : table'[f] = table[f]
  OBVIOUS
<1>2. fd_num' = fd_num
  BY DEF NumberLeft
<1> QED BY <1>1, <1>2

-----------------------------------------------------------------------------
(* What is done to the pair and the table between two waits.               *)

(* SocketPair::Start: two numbers nobody had.                              *)
LEMMA StartStep == ASSUME WInv, Start PROVE WInv'
<1> USE IoMultiplexingAssumption, SocketPairAssumption DEF WInv, ioVars
<1>1. PICK a, b \in FreeFds :
        /\ closed /\ pc = "dispatch" /\ a # b
        /\ wakeup_in' = a /\ wakeup_out' = b /\ open' = open \cup {a, b}
        /\ nonblock' = nonblock \cup {a, 0} /\ closed' = FALSE
        /\ waiting' = waiting /\ UNCHANGED <<ioVars, pc, sending, asked, conn>>
  BY DEF Start, PairStart, Lowest, MadeNonBlock
<1>2. a \notin open /\ b \notin open /\ a \in Fds /\ b \in Fds
  BY DEF FreeFds
<1>3. TypeOK'
  BY <1>1, <1>2 DEF TypeOK, IoTypeOK, PairTypeOK, Ends
<1>4. Ends'
  BY <1>1, <1>2 DEF Ends
<1>5. Bytes' /\ Seen'
  BY <1>1 DEF Bytes, Seen, NoFalseWakeUp
<1> QED BY <1>3, <1>4, <1>5

(* AddFd of the pair's read end.                                           *)
LEMMA AskStep == ASSUME WInv, Ask PROVE WInv'
<1> USE DEF WInv, Ask, pairVars
<1>1. GetReadFd \in Fds
  BY DEF GetReadFd, TypeOK, PairTypeOK
<1>2. IoTypeOK' /\ (io' = "epoll" => DOMAIN table' = {})
  BY <1>1, AddFdType DEF TypeOK, Seen
<1>3. TypeOK'
  BY <1>2 DEF TypeOK, PairTypeOK
<1>4. Ends' /\ Bytes'
  BY DEF Ends, Bytes
<1>5. Seen'
  BY <1>2 DEF Seen, NoFalseWakeUp
<1> QED BY <1>3, <1>4, <1>5

(* Send gets in while the pair is open.                                    *)
LEMMA SendStep == ASSUME NEW t \in Senders, WInv, Send(t) PROVE WInv'
<1> USE DEF WInv, Send, ioVars, pairVars
<1>1. TypeOK'
  BY DEF TypeOK, IoTypeOK, PairTypeOK
<1>2. Ends' /\ Bytes'
  BY DEF Ends, Bytes
<1>3. Seen'
  BY DEF Seen, NoFalseWakeUp, Any, GetReadFd
<1> QED BY <1>1, <1>2, <1>3

(* Its write adds a byte at the read end, or finds it full.                *)
LEMMA WriteStep == ASSUME NEW t \in Senders, WInv, Write(t) PROVE WInv'
<1> USE SocketPairAssumption DEF WInv, Write, PairWrite, Reaches, ioVars
<1>1. ~closed /\ wakeup_out \in Fds /\ waiting \in [Fds -> 0 .. MaxBytes]
  BY DEF Bytes, TypeOK, PairTypeOK
<1>2. /\ waiting' \in [Fds -> 0 .. MaxBytes]
      /\ \A f \in Fds : f # wakeup_out => waiting'[f] = waiting[f]
      /\ waiting'[wakeup_out] >= waiting[wakeup_out]
  BY <1>1
<1>3. TypeOK'
  BY <1>2 DEF TypeOK, IoTypeOK, PairTypeOK
<1>4. Ends'
  BY DEF Ends
<1>5. Bytes'
  BY <1>1, <1>2 DEF Bytes
<1>6. Seen'
  BY <1>1, <1>2 DEF Seen, NoFalseWakeUp, Any, GetReadFd
<1> QED BY <1>3, <1>4, <1>5, <1>6

(* SocketPair's destructor: its bytes go with it.                          *)
LEMMA StopStep == ASSUME WInv, Stop PROVE WInv'
<1> USE SocketPairAssumption, IoMultiplexingAssumption DEF WInv, Stop, PairStop, ioVars
<1>1. /\ wakeup_in \in Fds /\ wakeup_out \in Fds /\ waiting \in [Fds -> 0 .. MaxBytes]
  BY DEF TypeOK, PairTypeOK
<1>2. /\ waiting' \in [Fds -> 0 .. MaxBytes]
      /\ \A f \in Fds : waiting'[f] = IF f \in {wakeup_in, wakeup_out} THEN 0 ELSE waiting[f]
  BY <1>1
<1>3. TypeOK'
  BY <1>2 DEF TypeOK, IoTypeOK, PairTypeOK
<1>4. Ends'
  BY DEF Ends
<1>5. Bytes'
  <2>1. ASSUME NEW f \in Fds PROVE ~(waiting'[f] > 0)
    <3>1. CASE f \in {wakeup_in, wakeup_out}
      BY <1>2, <3>1
    <3>2. CASE f \notin {wakeup_in, wakeup_out}
      BY <1>2, <3>2 DEF Bytes
    <3> QED BY <3>1, <3>2
  <2> QED BY <2>1 DEF Bytes
<1>6. Seen'
  BY DEF Seen, NoFalseWakeUp
<1> QED BY <1>3, <1>4, <1>5, <1>6

(* A connection gets a number nobody had.                                  *)
LEMMA ConnectStep == ASSUME WInv, Connect PROVE WInv'
<1> USE DEF WInv
<1>1. PICK f \in FreeFds :
        /\ pc = "dispatch" /\ conn' = f /\ open' = open \cup {f} /\ AddFd(f, {"r", "w"})
        /\ UNCHANGED <<closed, wakeup_in, wakeup_out, waiting, nonblock, pc, sending, asked>>
  BY DEF Connect
<1>2. f \notin open /\ f \in Fds
  BY DEF FreeFds
<1>3. IoTypeOK' /\ (io' = "epoll" => DOMAIN table' = {})
  BY <1>1, <1>2, AddFdType DEF TypeOK, Seen
<1>4. TypeOK'
  BY <1>1, <1>2, <1>3 DEF TypeOK, PairTypeOK
<1>5. Ends'
  BY <1>1, <1>2 DEF Ends
<1>6. Bytes' /\ Seen'
  BY <1>1, <1>3 DEF Bytes, Seen, NoFalseWakeUp
<1> QED BY <1>4, <1>5, <1>6

(* It is closed, and stays in the table.                                   *)
LEMMA DisconnectStep == ASSUME WInv, Disconnect PROVE WInv'
<1> USE IoMultiplexingAssumption DEF WInv, Disconnect
<1>1. IoTypeOK' /\ (io' = "epoll" => DOMAIN table' = {})
  BY DeleteFdType DEF TypeOK, Seen
<1>2. TypeOK'
  BY <1>1 DEF TypeOK, PairTypeOK, Ends
<1>3. Ends'
  BY DEF Ends
<1>4. Bytes' /\ Seen'
  BY <1>1 DEF Bytes, Seen, NoFalseWakeUp
<1> QED BY <1>2, <1>3, <1>4

-----------------------------------------------------------------------------
(* The waiting thread.                                                     *)

(* An error, or a signal, ends it.                                         *)
LEMMA EndStep == ASSUME WInv, DispatchError \/ Interrupted PROVE WInv'
<1> USE DEF WInv, ioVars, pairVars
<1>1. pc' = "ended" /\ UNCHANGED <<ioVars, pairVars, sending, asked, conn>>
  BY DEF DispatchError, Interrupted
<1>2. TypeOK'
  BY <1>1 DEF TypeOK, IoTypeOK, PairTypeOK
<1>3. Ends' /\ Bytes'
  BY <1>1 DEF Ends, Bytes
<1>4. Seen'
  BY <1>1 DEF Seen, NoFalseWakeUp
<1> QED BY <1>2, <1>3, <1>4

(* The wait returns: what it says of the pair's end it says because a byte *)
(* waits there, since that number is nobody else's.                        *)
LEMMA DispatchReturnsStep == ASSUME WInv, DispatchReturns PROVE WInv'
<1> USE DEF WInv, pairVars
<1>1. PICK data \in SUBSET ({conn} \ {0}) :
        /\ pc' = "awake" /\ Dispatch(PairReads \cup data, open)
        /\ UNCHANGED <<pairVars, sending, asked, conn>>
  BY DEF DispatchReturns
<1>2. /\ UNCHANGED <<io, up, table, fd_max, fd_num>>
      /\ read_set' \subseteq Fds /\ write_set' \subseteq Fds
  BY <1>1 DEF Dispatch, Watched, Found, TypeOK, IoTypeOK
<1>3. TypeOK'
  BY <1>1, <1>2 DEF TypeOK, IoTypeOK, PairTypeOK
<1>4. Ends' /\ Bytes'
  BY <1>1 DEF Ends, Bytes
<1>5. ASSUME Any', wakeup_out \in read_set' PROVE ~closed /\ waiting[wakeup_out] > 0
  <2>1. wakeup_out \in PairReads \cup data
    BY <1>1, <1>2, <1>5 DEF Any, Dispatch, Found
  <2>2. wakeup_out \notin data
    BY <1>1 DEF Ends
  <2>3. wakeup_out \in Fds /\ waiting[wakeup_out] > 0
    BY <2>1, <2>2 DEF PairReads, TypeOK, PairTypeOK
  <2> QED BY <2>3 DEF Bytes
<1>6. Seen'
  BY <1>1, <1>2, <1>5 DEF Seen, NoFalseWakeUp, GetReadFd
<1> QED BY <1>3, <1>4, <1>6

(* FdCheck.                                                                *)
LEMMA CheckPairStep == ASSUME WInv, CheckPair PROVE WInv'
<1> USE DEF WInv, CheckPair, ioVars, pairVars
<1>1. TypeOK'
  BY DEF TypeOK, IoTypeOK, PairTypeOK
<1>2. Ends' /\ Bytes'
  BY DEF Ends, Bytes
<1>3. Seen'
  BY DEF Seen, NoFalseWakeUp, FdCheck, GetReadFd
<1> QED BY <1>1, <1>2, <1>3

(* Readable takes what is at the end it looks at.                          *)
LEMMA ReadableStep == ASSUME WInv, Readable PROVE WInv'
<1> USE SocketPairAssumption DEF WInv, Readable, PairReadable, ReadFrom, ioVars
<1>1. wakeup_in \in Fds /\ waiting \in [Fds -> 0 .. MaxBytes]
  BY DEF TypeOK, PairTypeOK
<1>2. /\ waiting' \in [Fds -> 0 .. MaxBytes]
      /\ \A f \in Fds : waiting'[f] > 0 => waiting[f] > 0
  BY <1>1
<1>3. TypeOK'
  BY <1>2 DEF TypeOK, IoTypeOK, PairTypeOK
<1>4. Ends'
  BY DEF Ends
<1>5. Bytes' /\ Seen'
  BY <1>2 DEF Bytes, Seen, NoFalseWakeUp
<1> QED BY <1>3, <1>4, <1>5

-----------------------------------------------------------------------------
(* The invariant holds always: no step breaks it.                          *)
THEOREM Invariance == Spec => []WInv
<1>1. WInv /\ [Next]_vars => WInv'
  <2> SUFFICES ASSUME WInv, [Next]_vars PROVE WInv'
    OBVIOUS
  <2>1. CASE Next
    BY <2>1, StartStep, AskStep, StopStep, ConnectStep, DisconnectStep, SendStep, WriteStep,
       EndStep, DispatchReturnsStep, CheckPairStep, ReadableStep
    DEF Next, Wait
  <2>2. CASE UNCHANGED vars
    <3> USE <2>2 DEF WInv, vars, ioVars, pairVars
    <3>1. TypeOK'
      BY DEF TypeOK, IoTypeOK, PairTypeOK
    <3>2. Ends' /\ Bytes' /\ Seen'
      BY DEF Ends, Bytes, Seen, NoFalseWakeUp, Any, GetReadFd
    <3> QED BY <3>1, <3>2
  <2> QED BY <2>1, <2>2
<1> QED BY InitWInv, <1>1, PTL DEF Spec

(* The table, the pair and the process's descriptors keep their types;     *)
(* epoll's counter of descriptors does not go below 0.                     *)
THEOREM TypeCorrect == Spec => []TypeOK
<1>1. WInv => TypeOK
  BY DEF WInv
<1> QED BY Invariance, <1>1, PTL

(* The thread reads the pair only when a byte waits there, for any reuse   *)
(* of descriptor numbers between the pair and connections.                 *)
THEOREM WakesForAByte == Spec => []NoFalseWakeUp
<1>1. WInv => NoFalseWakeUp
  BY DEF WInv, Seen
<1> QED BY Invariance, <1>1, PTL

=============================================================================
