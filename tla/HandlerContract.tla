-------------------------- MODULE HandlerContract --------------------------
(***************************************************************************)
(* What the SocketHandler of a socket may hear, abstracted from threads,   *)
(* locks and descriptors.  Sockets are created in the order of their       *)
(* numbers; a handler hears OnConnect at most once, OnData and OnWrite     *)
(* only after it, OnDisconnect at most once and then nothing more.         *)
(***************************************************************************)
EXTENDS Integers

CONSTANT MaxSockets

Ids == 1 .. MaxSockets

VARIABLE phase   (* of each socket: how far it is, by its last callback     *)

Talking == {"OnConnect", "OnData", "OnWrite"}

TypeOK == phase \in [Ids -> {"absent", "created", "OnDisconnect"} \cup Talking]

Init == \E n \in 0 .. MaxSockets :
          phase = [i \in Ids |-> IF i <= n THEN "created" ELSE "absent"]

Becomes(i, p) == phase' = [phase EXCEPT ![i] = p]

Create(i) ==
  /\ phase[i] = "absent"
  /\ \A j \in Ids : j < i => phase[j] # "absent"
  /\ Becomes(i, "created")

OnConnect(i) == phase[i] = "created" /\ Becomes(i, "OnConnect")

OnData(i) == phase[i] \in Talking /\ Becomes(i, "OnData")

OnWrite(i) == phase[i] \in Talking /\ Becomes(i, "OnWrite")

OnDisconnect(i) ==
  /\ phase[i] \in {"created"} \cup Talking
  /\ Becomes(i, "OnDisconnect")

Next ==
  \E i \in Ids : Create(i) \/ OnConnect(i) \/ OnData(i) \/ OnWrite(i) \/ OnDisconnect(i)

Spec == Init /\ [][Next]_phase

=============================================================================
