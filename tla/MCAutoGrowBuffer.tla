-------------------------- MODULE MCAutoGrowBuffer --------------------------
(***************************************************************************)
(* A small instance of AutoGrowBuffer: chunks of one to three bytes and    *)
(* one too long, blocks of two to eight bytes.  Two byte values, since     *)
(* nothing looks at them.                                                  *)
(***************************************************************************)
EXTENDS AutoGrowBuffer

CONSTANTS a, b, junk

Bytes == {a, b}
Short == UNION {[1 .. n -> Bytes] : n \in 1 .. 3}
TooLong == {[k \in 1 .. 5 |-> a]}
SomeChunks == Short \cup TooLong
SomeLens == {0, 3, 9}

(* What GetReallocLen is for: the power of two above the length, at most   *)
(* its double.  Its loop finds it, where an int can hold it.               *)
PowersOfTwo == {2 ^ k : k \in 0 .. IntWidth - 2}

ASSUME LoopFindsThePower ==
  \A n \in 1 .. 2 ^ IntWidth :
    ReallocLens(n) = {m \in PowersOfTwo : n < m /\ m <= 2 * n}
=============================================================================
