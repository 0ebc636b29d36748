------------------------------ MODULE SocketPair ------------------------------
(***************************************************************************)
(* Class SocketPair, base/transport/f_socket_pair.cpp: two connected       *)
(* descriptors that wake a thread waiting in IoMultiplexing.  Its methods  *)
(* are operators; who calls them is WakeUp's.                              *)
(***************************************************************************)
EXTENDS IoMultiplexing

CONSTANT MaxBytes  (* bound: what one direction of the pair holds          *)

ASSUME SocketPairAssumption == MaxBytes \in Nat \ {0}

VARIABLES
  closed,      (* close_                                                    *)
  wakeup_in,   (* wakeup_in_                                                *)
  wakeup_out,  (* wakeup_out_                                               *)
  waiting,     (* bytes to be read at each end                              *)
  open,        (* the process's open descriptors                            *)
  nonblock     (* those with O_NONBLOCK                                     *)

pairVars == <<closed, wakeup_in, wakeup_out, waiting, open, nonblock>>

PairTypeOK ==
  /\ closed \in BOOLEAN
  /\ wakeup_in \in Fds /\ wakeup_out \in Fds
  /\ waiting \in [Fds -> 0 .. MaxBytes]
  /\ open \subseteq Fds /\ nonblock \subseteq open

PairInit ==
  /\ closed = TRUE /\ wakeup_in = 0 /\ wakeup_out = 0
  /\ waiting = [f \in Fds |-> 0]
  /\ open = {0} /\ nonblock = {}

(* The kernel gives out the lowest numbers that are free.                  *)
FreeFds == Fds \ open
Lowest(f, S) == f \in S /\ \A g \in S : f <= g

(* socketpair(), then MakeNonBlock of one end and, for `sockets[1] < 0',   *)
(* of descriptor 0.  If one of these fails both ends are closed again and  *)
(* all is as before.  socketpair() itself is taken to succeed: its -1      *)
(* passes the test, and what the code then does with two numbers it never  *)
(* set is not followed.  Mutant: the end Send and Readable use is left out.*)
MadeNonBlock_Second(a, b) == {0, b}
MadeNonBlock(a, b) == {a, 0}

PairStart ==
  /\ closed
  /\ \E a, b \in FreeFds :
       /\ Lowest(a, FreeFds) /\ Lowest(b, FreeFds \ {a})
       /\ wakeup_in' = a /\ wakeup_out' = b
       /\ open' = open \cup {a, b}
       /\ nonblock' = nonblock \cup MadeNonBlock(a, b)
  /\ closed' = FALSE
  /\ UNCHANGED waiting

(* Stop closes both ends and forgets them.                                 *)
PairStop ==
  /\ ~closed
  /\ open' = open \ {wakeup_in, wakeup_out}
  /\ nonblock' = nonblock \ {wakeup_in, wakeup_out}
  /\ waiting' = [waiting EXCEPT ![wakeup_in] = 0, ![wakeup_out] = 0]
  /\ wakeup_in' = 0 /\ wakeup_out' = 0 /\ closed' = TRUE

(* Send's write of one byte to wakeup_in_, to be read at the other end; it *)
(* fails when nothing more fits.                                           *)
Reaches == wakeup_out

PairWrite ==
  /\ waiting' = [waiting EXCEPT ![Reaches] = IF @ < MaxBytes THEN @ + 1 ELSE @]
  /\ UNCHANGED <<closed, wakeup_in, wakeup_out, open, nonblock>>

GetReadFd == wakeup_out

(* Readable reads wakeup_in_ until nothing comes.                          *)
ReadFrom == wakeup_in
ReadBlocks == waiting[ReadFrom] = 0 /\ ReadFrom \notin nonblock

PairReadable ==
  /\ ~ReadBlocks
  /\ waiting' = [waiting EXCEPT ![ReadFrom] = 0]
  /\ UNCHANGED <<closed, wakeup_in, wakeup_out, open, nonblock>>

(* The ends a read would find something at.                                *)
PairReads == {f \in {wakeup_in, wakeup_out} \cap open : waiting[f] > 0}

=============================================================================
