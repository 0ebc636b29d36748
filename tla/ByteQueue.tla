----------------------------- MODULE ByteQueue ------------------------------
(***************************************************************************)
(* What AutoGrowBuffer promises its users: a first-in first-out queue of   *)
(* bytes, to the tail of which chunks are added and from the head of which *)
(* a callback takes what it wants, and which serves nobody any more once   *)
(* an allocation has failed.                                               *)
(***************************************************************************)
EXTENDS Integers, Sequences

CONSTANT Chunks   (* the chunks added                                       *)

VARIABLES
  queue,   (* the bytes held                                                *)
  dead     (* an allocation failed                                          *)

Init == queue = <<>> /\ dead = FALSE

Add(d) == ~dead /\ queue' = queue \o d /\ UNCHANGED dead

Pop(n) ==
  /\ ~dead
  /\ queue' = SubSeq(queue, n + 1, Len(queue))
  /\ UNCHANGED dead

Die == ~dead /\ dead' = TRUE /\ UNCHANGED queue

Next == (\E d \in Chunks : Add(d)) \/ (\E n \in 0 .. Len(queue) : Pop(n)) \/ Die

Spec == Init /\ [][Next]_<<queue, dead>>

=============================================================================
