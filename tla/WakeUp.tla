-------------------------------- MODULE WakeUp --------------------------------
(***************************************************************************)
(* IoMultiplexing and SocketPair together, as f_engine.cpp 53-76 uses them:*)
(* a thread waits in Dispatch, others send a byte to wake it, it reads the *)
(* pair and waits again.  A descriptor of a connection comes and goes in   *)
(* the same table, lines 107-113 and 120-131.  Today the library neither   *)
(* starts the pair nor adds a descriptor; both are steps here that may or  *)
(* may not be taken.                                                       *)
(***************************************************************************)
EXTENDS SocketPair

CONSTANT Senders  (* the threads that call Engine's Add and beforeStop      *)

VARIABLES
  pc,       (* where the waiting thread is                                  *)
  sending,  (* who is between Send's test of close_ and its write           *)
  asked,    (* AddFd was called for the pair's read end                     *)
  conn      (* the connection's descriptor, or 0                            *)

vars == <<ioVars, pairVars, pc, sending, asked, conn>>

TypeOK ==
  /\ IoTypeOK /\ PairTypeOK
  /\ pc \in {"dispatch", "awake", "read", "ended"}
  /\ sending \subseteq Senders
  /\ asked \in BOOLEAN
  /\ conn \in Fds

Init ==
  /\ IoInit /\ PairInit
  /\ pc = "dispatch" /\ sending = {} /\ asked = FALSE /\ conn = 0

-----------------------------------------------------------------------------
(* What is done to the pair and the table is done between two waits.       *)

Start ==
  /\ pc = "dispatch" /\ PairStart
  /\ UNCHANGED <<ioVars, pc, sending, asked, conn>>

Ask ==
  /\ pc = "dispatch" /\ ~closed /\ ~asked
  /\ AddFd(GetReadFd, {"r"})
  /\ asked' = TRUE
  /\ UNCHANGED <<pairVars, pc, sending, conn>>

(* Engine::Add and beforeStop, from any thread.                            *)
Send(t) ==
  /\ t \notin sending /\ ~closed
  /\ sending' = sending \cup {t}
  /\ UNCHANGED <<ioVars, pairVars, pc, asked, conn>>

Write(t) ==
  /\ t \in sending
  /\ PairWrite
  /\ sending' = sending \ {t}
  /\ UNCHANGED <<ioVars, pc, asked, conn>>

(* The destructor: the thread has ended and nobody calls any more.         *)
Stop ==
  /\ pc = "ended" /\ sending = {} /\ PairStop
  /\ UNCHANGED <<ioVars, pc, sending, asked, conn>>

(* socket() and AddFd of a connection; close() after a DeleteFd whose      *)
(* argument is `GetFd() < 0', that is 0.                                   *)
Connect ==
  /\ pc = "dispatch" /\ conn = 0
  /\ \E f \in FreeFds :
       /\ Lowest(f, FreeFds)
       /\ conn' = f /\ open' = open \cup {f}
       /\ AddFd(f, {"r", "w"})
  /\ UNCHANGED <<closed, wakeup_in, wakeup_out, waiting, nonblock, pc, sending, asked>>

Disconnect ==
  /\ pc = "dispatch" /\ conn # 0
  /\ DeleteFd(0)
  /\ open' = open \ {conn} /\ conn' = 0
  /\ UNCHANGED <<closed, wakeup_in, wakeup_out, waiting, nonblock, pc, sending, asked>>

-----------------------------------------------------------------------------
(* The waiting thread.                                                     *)

DispatchError ==
  /\ pc = "dispatch" /\ DispatchFails(open)
  /\ pc' = "ended"
  /\ UNCHANGED <<ioVars, pairVars, sending, asked, conn>>

(* A signal ends the wait, too, and readThread takes it for an error.      *)
Interrupted ==
  /\ pc = "dispatch"
  /\ pc' = "ended"
  /\ UNCHANGED <<ioVars, pairVars, sending, asked, conn>>

(* It wakes when a descriptor is ready and after its time; the connection  *)
(* can be written, and may have something to read.                         *)
DispatchReturns ==
  /\ pc = "dispatch" /\ ~DispatchFails(open)
  /\ \E data \in SUBSET ({conn} \ {0}) :
       Dispatch(PairReads \cup data, open)
  /\ pc' = "awake"
  /\ UNCHANGED <<pairVars, sending, asked, conn>>

CheckPair ==
  /\ pc = "awake"
  /\ pc' = IF Any /\ FdCheck(GetReadFd).read THEN "read" ELSE "dispatch"
  /\ UNCHANGED <<ioVars, pairVars, sending, asked, conn>>

Readable ==
  /\ pc = "read" /\ PairReadable
  /\ pc' = "dispatch"
  /\ UNCHANGED <<ioVars, sending, asked, conn>>

Wait == DispatchError \/ DispatchReturns \/ CheckPair \/ Readable

Next ==
  \/ Start \/ Ask \/ Stop \/ Connect \/ Disconnect
  \/ \E t \in Senders : Send(t) \/ Write(t)
  \/ Wait \/ Interrupted

Spec == Init /\ [][Next]_vars
FairSpec == Spec /\ WF_vars(Wait) /\ \A t \in Senders : WF_vars(Write(t))

-----------------------------------------------------------------------------
(* The thread reads the pair only when somebody has sent, whatever else    *)
(* woke it and whatever numbers the kernel has given out again.            *)
NoFalseWakeUp == pc = "read" => ~closed /\ waiting[GetReadFd] > 0

(* A Send that got in reaches the thread, unless the thread has ended, and *)
(* the thread comes back from reading, though the read finds nothing at    *)
(* the end it looks at.                                                    *)
WakeUpArrives ==
  /\ \A t \in Senders : t \in sending /\ asked ~> pc \in {"read", "ended"}
  /\ pc = "read" ~> pc = "dispatch"

=============================================================================
