------------------------------ MODULE MCEngine ------------------------------
(***************************************************************************)
(* Instances of Engine for TLC: the sets the configurations choose from.   *)
(***************************************************************************)
EXTENDS Engine, TLC

CONSTANTS u1, u2, worker

OneUser == {u1}
TwoUsers == {u1, u2}
UserSymmetry == Permutations(TwoUsers)

AnyMutex == {"normal", "errorcheck", "recursive"}
AnyBackend == {"epoll", "select"}
AnyResult == {"ok", "wait", "error"}

(* The build CMakeLists.txt makes on Linux, and what connect(2) does there *)
(* with a zero-length address.                                             *)
LinuxMutex == {"normal"}
LinuxBackend == {"epoll"}
LinuxResult == {"error"}

RecursiveMutex == {"recursive"}
BlockingOrRecursive == LinuxMutex \cup RecursiveMutex
=============================================================================
