---------------------------- MODULE IoMultiplexing ----------------------------
(***************************************************************************)
(* Class IoMultiplexing, base/engine/f_io_multiplexing.cpp, in its select  *)
(* and its epoll build: a table of descriptors, the wait for one of them   *)
(* to be ready and the answer for each.  Its methods are operators; who    *)
(* calls them is WakeUp's.                                                 *)
(***************************************************************************)
EXTENDS Integers

CONSTANTS
  Fds,      (* descriptor numbers; 0 is the program's standard input        *)
  Backends  (* builds a run considers                                       *)

ASSUME IoMultiplexingAssumption ==
  Fds \subseteq Nat /\ 0 \in Fds /\ Backends \subseteq {"select", "epoll"}

VARIABLES
  io,         (* the build                                                  *)
  up,         (* epoll: init_; TRUE with select                             *)
  table,      (* select: map_; epoll: the kernel's interest list            *)
  fd_max,     (* select                                                     *)
  fd_num,     (* epoll                                                      *)
  read_set,   (* select: read_set_; epoll: the EPOLLIN events of events_    *)
  write_set

ioVars == <<io, up, table, fd_max, fd_num, read_set, write_set>>

IoTypeOK ==
  /\ io \in Backends /\ up \in BOOLEAN
  /\ DOMAIN table \subseteq Fds
  /\ \A f \in DOMAIN table : table[f] \subseteq {"r", "w"}
  /\ fd_max \in Fds /\ fd_num \in Nat
  /\ read_set \subseteq Fds /\ write_set \subseteq Fds

IoInit ==
  /\ io \in Backends
  /\ up \in (IF io = "epoll" THEN BOOLEAN ELSE {TRUE})
  /\ table = [f \in {} |-> {}] /\ fd_max = 0 /\ fd_num = 0
  /\ read_set = {} /\ write_set = {}

(* epoll's AddFd gives up if it is initialised, and without an epoll       *)
(* descriptor epoll_ctl fails: it never adds anything.                     *)
GivesUp == io = "epoll" /\ up
Adds == ~GivesUp /\ up

(* std::map::insert and EPOLL_CTL_ADD leave an entry that is there alone.  *)
AddFd(fd, how) ==
  /\ table' = IF Adds /\ fd \notin DOMAIN table
              THEN [f \in DOMAIN table \cup {fd} |-> IF f = fd THEN how ELSE table[f]]
              ELSE table
  /\ fd_max' = IF io = "select" /\ fd > fd_max THEN fd ELSE fd_max
  /\ fd_num' = IF io = "epoll" /\ Adds /\ fd \notin DOMAIN table THEN fd_num + 1 ELSE fd_num
  /\ UNCHANGED <<io, up, read_set, write_set>>

(* Mutant: fd_num_ does not wait for epoll_ctl's result.                   *)
NumberLeft_Any(fd) == IF io = "epoll" THEN fd_num - 1 ELSE fd_num
NumberLeft(fd) == IF io = "epoll" /\ fd \in DOMAIN table THEN fd_num - 1 ELSE fd_num

DeleteFd(fd) ==
  /\ table' = [f \in DOMAIN table \ {fd} |-> table[f]]
  /\ fd_num' = NumberLeft(fd)
  /\ UNCHANGED <<io, up, fd_max, read_set, write_set>>

(* Dispatch.  select refuses a descriptor that is not open, epoll_wait to  *)
(* wait for no event.                                                      *)
DispatchFails(open) ==
  IF io = "epoll" THEN ~up \/ fd_num = 0
  ELSE fd_max # 0 /\ \E f \in DOMAIN table : f \notin open

Watched(how) == {f \in DOMAIN table : how \in table[f]}

(* What the call leaves in the sets.  Mutant: what was asked for.          *)
Found_Asked(how, ready) == Watched(how)
Found(how, ready) == Watched(how) \cap ready

(* Without descriptors select only sleeps, and the sets stay as asked for. *)
Dispatch(readable, writable) ==
  /\ IF fd_max = 0 /\ io = "select"
     THEN read_set' = Watched("r") /\ write_set' = Watched("w")
     ELSE read_set' = Found("r", readable) /\ write_set' = Found("w", writable)
  /\ UNCHANGED <<io, up, table, fd_max, fd_num>>

(* How many it returned: none if it was asked for none.                    *)
Any == (io = "epoll" \/ fd_max # 0) /\ read_set \cup write_set # {}

FdCheck(fd) == [read |-> fd \in read_set, write |-> fd \in write_set]

=============================================================================
