--------------------------- MODULE AutoGrowBuffer ---------------------------
(***************************************************************************)
(* The byte buffer between application threads and the engine thread,      *)
(* class AutoGrowBuffer in utils/tool/f_auto_grow_buffer.cpp: one memory   *)
(* block, the bytes held lie in it from current_begin_position_ on up to   *)
(* current_end_position_.  Every operation runs under the buffer's mutex,  *)
(* the callback of PopHeadData too, so each is one step.                   *)
(***************************************************************************)
EXTENDS Integers, Sequences

CONSTANTS
  Byte,         (* the bytes users add                                      *)
  Junk,         (* what memory holds that nobody has written                *)
  Chunks,       (* the chunks users add                                     *)
  DefaultLens,  (* the sizes buffers are constructed with                   *)
  MinLen,       (* kMinLen                                                  *)
  MaxLen,       (* kMaxLen                                                  *)
  IntWidth      (* bits of an int                                           *)

ASSUME BufferAssumption ==
  /\ Junk \notin Byte
  /\ Chunks \subseteq Seq(Byte)
  /\ DefaultLens \subseteq Nat /\ DefaultLens # {}
  /\ MinLen \in Nat \ {0} /\ MaxLen \in Nat /\ MinLen <= MaxLen
  /\ IntWidth \in Nat /\ IntWidth >= 3

(* kMaxLen is 2 ^ 20.                                                      *)
ASSUME LimitAssumption == MaxLen < 2 ^ (IntWidth - 2)

VARIABLES
  mem,     (* the block true_buf_ points to                                 *)
  cap,     (* true_len_                                                     *)
  begin,   (* current_begin_position_                                       *)
  end,     (* current_end_position_                                         *)
  held     (* an exception has left with mutex_ locked                      *)

vars == <<mem, cap, begin, end, held>>

Size == end - begin

TypeOK ==
  /\ cap \in Nat \ {0}
  /\ mem \in [0 .. cap - 1 -> Byte \cup {Junk}]
  /\ begin \in Nat /\ end \in Nat
  /\ held \in BOOLEAN

(* The constructor clamps the length it is given.  Mutant: only from above.*)
Clamp_NoMin(n) == IF n < MaxLen THEN n ELSE MaxLen
Clamp(n) ==
  LET atLeast == IF n > MinLen THEN n ELSE MinLen
  IN  IF atLeast < MaxLen THEN atLeast ELSE MaxLen

Init ==
  /\ \E n \in DefaultLens : cap = Clamp(n)
  /\ mem = [p \in 0 .. cap - 1 |-> Junk]
  /\ begin = 0 /\ end = 0
  /\ held = FALSE

-----------------------------------------------------------------------------
(* GetReallocLen: size_pow counts the halvings that make the length zero,  *)
(* and the result is 1 << size_pow.  The shift is done in an int; where it *)
(* reaches the sign bit the result, as a size_t, is more than any memory,  *)
(* and new throws: there is no length then.                                *)

SizePow[n \in Nat] == IF n = 0 THEN 0 ELSE 1 + SizePow[n \div 2]

ReallocLens(n) == IF SizePow[n] <= IntWidth - 2 THEN {2 ^ SizePow[n]} ELSE {}

-----------------------------------------------------------------------------
(* AddTailData.                                                            *)

(* The chunks it does not return at once for.  Mutant: no limit.           *)
Accepts_Any(d) == Len(d) > 0
Accepts(d) == Len(d) > 0 /\ Len(d) <= MaxLen

(* Room behind the data, and room if the data moves to the front.          *)
(* Mutants: off by one, either way.                                        *)
FitsBehind_OffByOne(d) == end + Len(d) <= cap + 1
FitsBehind(d) == end + Len(d) <= cap
FitsMoved_Strict(d) == cap - end + begin > Len(d)
FitsMoved(d) == cap - end + begin >= Len(d)

(* memcpy of d to position `at' of block m.                                *)
Write(m, at, d) ==
  [p \in DOMAIN m |-> IF at <= p /\ p < at + Len(d) THEN d[p - at + 1] ELSE m[p]]

(* The block after memmove, and a new block of n bytes after memcpy.       *)
(* Mutant: the data is copied from the start of the old block.             *)
Moved == [p \in 0 .. cap - 1 |-> IF p < Size THEN mem[begin + p] ELSE mem[p]]
Copied_FromStart(n) == [p \in 0 .. n - 1 |-> IF p < Size THEN mem[p] ELSE Junk]
Copied(n) == [p \in 0 .. n - 1 |-> IF p < Size THEN mem[begin + p] ELSE Junk]

AddBehind(d) ==
  /\ ~held /\ Accepts(d) /\ FitsBehind(d)
  /\ mem' = Write(mem, end, d)
  /\ end' = end + Len(d)
  /\ UNCHANGED <<cap, begin, held>>

AddMoved(d) ==
  /\ ~held /\ Accepts(d) /\ ~FitsBehind(d) /\ FitsMoved(d)
  /\ mem' = Write(Moved, Size, d)
  /\ begin' = 0 /\ end' = Size + Len(d)
  /\ UNCHANGED <<cap, held>>

AddGrown(d) ==
  /\ ~held /\ Accepts(d) /\ ~FitsBehind(d) /\ ~FitsMoved(d)
  /\ \E n \in ReallocLens(Size + Len(d)) :
       /\ cap' = n
       /\ mem' = Write(Copied(n), Size, d)
  /\ begin' = 0 /\ end' = Size + Len(d)
  /\ UNCHANGED held

(* new throws: nothing is changed and nothing is unlocked.                 *)
AddFails(d) ==
  /\ ~held /\ Accepts(d) /\ ~FitsBehind(d) /\ ~FitsMoved(d)
  /\ ReallocLens(Size + Len(d)) = {}
  /\ held' = TRUE
  /\ UNCHANGED <<mem, cap, begin, end>>

AddTailData(d) == AddBehind(d) \/ AddMoved(d) \/ AddGrown(d) \/ AddFails(d)

(* PopHeadData: the callback sees the bytes held and returns how many of   *)
(* them it took; any other result changes nothing.                         *)
PopHeadData(n) ==
  /\ ~held
  /\ n <= Size
  /\ begin' = begin + n
  /\ UNCHANGED <<mem, cap, end, held>>

Next == (\E d \in Chunks : AddTailData(d)) \/ (\E n \in 0 .. Size : PopHeadData(n))

Spec == Init /\ [][Next]_vars

-----------------------------------------------------------------------------
(* The bytes held, in order.                                               *)
Content == [k \in 1 .. Size |-> mem[begin + k - 1]]

Queue == INSTANCE ByteQueue WITH queue <- Content, dead <- held

(* Whatever mix of appending, moving and growing the sizes lead to, bytes  *)
(* come out in the order they went in, none lost, doubled or invented.     *)
ImplementsQueue == Queue!Spec

(* The cursors stay inside the block, so no copy leaves it, and everything *)
(* between them has been written: no callback is shown junk.               *)
InBounds ==
  /\ begin <= end /\ end <= cap
  /\ \A p \in begin .. end - 1 : mem[p] # Junk

(* The block is replaced only by one that the data needs: what it holds    *)
(* then did not fit before, fits now, and fills at least half of it.       *)
GrowthTight ==
  [][cap' # cap => Size' > cap /\ Size' < cap' /\ cap' <= 2 * Size']_vars

(* kMaxLen bounds each chunk but not what is held.  The buffer dies, with  *)
(* its mutex locked, only when an int cannot say the new length any more:  *)
(* then it holds a quarter of the int's values but for one chunk.          *)
DiesOnlyHuge == held => Size >= 2 ^ (IntWidth - 2) - MaxLen

=============================================================================
