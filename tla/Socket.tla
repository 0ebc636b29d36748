------------------------------- MODULE Socket -------------------------------
(***************************************************************************)
(* The objects of class Socket, base/transport/f_socket.cpp, and the       *)
(* kernel's table of open descriptors.  A Socket is named by the number    *)
(* Engine::Add returned for it.  Application threads call Connect and      *)
(* Close, the engine thread calls the Real... methods; status_ is read and *)
(* written by all of them without a lock, so every action below holds at   *)
(* most one access to it that another thread can tell apart.               *)
(***************************************************************************)
EXTENDS Integers

CONSTANTS
  MaxSockets,     (* bound: sockets created in a behaviour                  *)
  MaxFds,         (* the process's limit of open descriptors                *)
  ConnectResults  (* what connect(2) may return for a zero-length address:  *)
                  (* {"error"} on Linux and the BSDs; POSIX allows the rest *)

ASSUME SocketAssumption ==
  /\ MaxSockets \in Nat
  /\ MaxFds \in Nat
  /\ ConnectResults # {}
  /\ ConnectResults \subseteq {"ok", "wait", "error"}

Ids == 1 .. MaxSockets
Fds == 1 .. MaxFds

Status == {"INIT", "START_CONNECT", "CONNECTING", "CONNECTED", "DISCONNECTED"}

VARIABLES
  status,       (* status_ of every socket                                  *)
  fd,           (* fd_ of every socket: 0 never opened, -1 socket() failed  *)
  open,         (* kernel: descriptors the process has open                 *)
  disconnects   (* history: OnDisconnect callbacks each handler received    *)

socketVars == <<status, fd, open, disconnects>>

SocketTypeOK ==
  /\ status \in [Ids -> Status]
  /\ fd \in [Ids -> Fds \cup {0, -1}]
  /\ open \subseteq Fds
  /\ disconnects \in [Ids -> Nat]

(* The constructor; no descriptor of these sockets is open yet.            *)
SocketInit ==
  /\ status = [i \in Ids |-> "INIT"]
  /\ fd = [i \in Ids |-> 0]
  /\ open = {}
  /\ disconnects = [i \in Ids |-> 0]

SetStatus(i, s) == status' = [status EXCEPT ![i] = s]

-----------------------------------------------------------------------------
(* socket(2) and close(2): the kernel hands out the lowest free number.    *)

Lowest(f) == f \in Fds \ open /\ \A g \in Fds \ open : f <= g

OpenFd(i) ==
  \/ \E f \in Fds :
       /\ Lowest(f)
       /\ open' = open \cup {f}
       /\ fd' = [fd EXCEPT ![i] = f]
  \/ /\ Fds \subseteq open
     /\ fd' = [fd EXCEPT ![i] = -1]
     /\ UNCHANGED open

-----------------------------------------------------------------------------
(* Methods of the engine thread.                                           *)

(* RealConnect up to and with socket(): a status other than START_CONNECT  *)
(* is overwritten and the call goes on.  fd_ is overwritten as well.       *)
RealConnectOpen(i) ==
  /\ IF status[i] = "START_CONNECT" THEN UNCHANGED status
                                    ELSE SetStatus(i, "DISCONNECTED")
  /\ OpenFd(i)
  /\ UNCHANGED disconnects

(* RealDisconnect's first step, the handler's callback.                    *)
CallOnDisconnect(i) == disconnects' = [disconnects EXCEPT ![i] = @ + 1]

(* What a failed RealConnect leaves: fcntl() and connect() errors keep the *)
(* descriptor open.  Mutants: the handler is told at once, and the socket  *)
(* dials again or is left to the scan; the status is forgotten.            *)
ConnectFailed_Retry(i) == SetStatus(i, "START_CONNECT") /\ CallOnDisconnect(i)
ConnectFailed_Reports(i) == SetStatus(i, "DISCONNECTED") /\ CallOnDisconnect(i)
ConnectFailed_Silent(i) == UNCHANGED <<status, disconnects>>
ConnectFailed(i) == SetStatus(i, "DISCONNECTED") /\ UNCHANGED disconnects

(* RealConnect from the test of fd_ on.                                    *)
RealConnectResult(i) ==
  /\ \E r \in ConnectResults :
       IF fd[i] < 0 \/ r = "error"
       THEN ConnectFailed(i)
       ELSE SetStatus(i, "CONNECTING") /\ UNCHANGED disconnects
  /\ UNCHANGED <<fd, open>>

(* RealDisconnect's close(): fd_ keeps its value, close(-1) fails and      *)
(* changes nothing.                                                        *)
(* Mutant: `if (!fd_)'.                                                    *)
CloseFd_Swapped(i) ==
  /\ open' = IF fd[i] = 0 THEN open \ {fd[i]} ELSE open
  /\ UNCHANGED <<status, fd, disconnects>>

CloseFd(i) ==
  /\ open' = open \ {fd[i]}
  /\ UNCHANGED <<status, fd, disconnects>>

=============================================================================
