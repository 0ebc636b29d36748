------------------------ MODULE AutoGrowBufferProofs ------------------------
(***************************************************************************)
(* What TLAPS proves of AutoGrowBuffer, for any byte values, chunks, limits*)
(* and width of int: its cursors and its contents stay sound, and it is a  *)
(* first-in first-out queue.  All ways of adding a chunk come down to one  *)
(* lemma, AddKeeps: the data is found at the front of a block that is the  *)
(* old one, the old one shifted or a new one, and the chunk goes behind it.*)
(* How long a new block is, the loop of GetReallocLen decides; what it     *)
(* computes is proved by induction over the length.                        *)
(***************************************************************************)
EXTENDS AutoGrowBuffer, DataInduction, SequenceTheorems, TLAPS

-----------------------------------------------------------------------------
(* GetReallocLen.  The loop's count for a length is one more than for half *)
(* of it.                                                                  *)
LEMMA SizePowRule ==
  /\ SizePow \in [Nat -> Nat]
  /\ \A n \in Nat : SizePow[n] = IF n = 0 THEN 0 ELSE 1 + SizePow[n \div 2]
<1> DEFINE G == [p \in Nat \X Nat |-> 1 + p[2]]
           h == [n \in Nat |-> n \div 2]
<1>1. IsRule(Nat, 0, G, h)
  <2>1. G \in [Nat \X Nat -> Nat]
    OBVIOUS
  <2>2. h \in [Nat -> Nat] /\ \A n \in Nat \ {0} : h[n] < n
    OBVIOUS
  <2> HIDE DEF G, h
  <2> QED BY <2>1, <2>2 DEF IsRule
<1>2. PICK f \in [Nat -> Nat] : \A n \in Nat : f[n] = IF n = 0 THEN 0 ELSE G[<<n, f[h[n]]>>]
  <2> HIDE DEF G, h
  <2> QED BY <1>1, RecursionWorks
<1>3. ASSUME NEW n \in Nat PROVE f[n] = IF n = 0 THEN 0 ELSE 1 + f[n \div 2]
  <2>1. h[n] = n \div 2 /\ n \div 2 \in Nat
    OBVIOUS
  <2>2. \A k \in Nat : G[<<n, k>>] = 1 + k
    OBVIOUS
  <2> HIDE DEF G, h
  <2> QED BY <1>2, <2>1, <2>2
<1>4. f = [n \in Nat |-> IF n = 0 THEN 0 ELSE 1 + f[n \div 2]]
  BY <1>3
<1>5. SizePow = [n \in Nat |-> IF n = 0 THEN 0 ELSE 1 + SizePow[n \div 2]]
  BY Zenon, <1>4 DEF SizePow
<1>6. \A n \in Nat : SizePow[n] = IF n = 0 THEN 0 ELSE 1 + SizePow[n \div 2]
  BY <1>5
<1>7. \A n \in Nat : SizePow[n] \in Nat
  <2> DEFINE T == {n \in Nat : SizePow[n] \in Nat}
  <2>1. ASSUME NEW n \in Nat, \A m \in Nat : m < n => m \in T PROVE n \in T
    BY <1>6, <2>1
  <2>2. T = Nat
    BY <2>1, NatSetStrongInduction
  <2> QED BY <2>2
<1> QED BY <1>5, <1>6, <1>7

(* What it returns lies above the length, and not above its double.        *)
LEMMA LoopBrackets ==
  ASSUME NEW n \in Nat \ {0}
  PROVE  /\ SizePow[n] \in Nat
         /\ n < Power(SizePow[n]) /\ Power(SizePow[n]) <= 2 * n
<1> DEFINE T == {m \in Nat : m # 0 => m < Power(SizePow[m]) /\ Power(SizePow[m]) <= 2 * m}
<1>1. ASSUME NEW m \in Nat, \A j \in Nat : j < m => j \in T PROVE m \in T
  <2> SUFFICES ASSUME m # 0 PROVE m < Power(SizePow[m]) /\ Power(SizePow[m]) <= 2 * m
    OBVIOUS
  <2>1. PICK k \in Nat : k = m \div 2 /\ k < m /\ 2 * k <= m /\ m <= 2 * k + 1
    OBVIOUS
  <2>2. SizePow[m] = SizePow[k] + 1 /\ SizePow[k] \in Nat
    BY <2>1, SizePowRule
  <2>3. Power(SizePow[m]) = 2 * Power(SizePow[k]) /\ Power(SizePow[k]) \in Nat
    BY <2>2, PowerNext, PowerType
  <2>4. CASE k = 0
    <3>1. Power(SizePow[k]) = 1
      BY <2>4, SizePowRule, PowerZero
    <3> QED BY <2>1, <2>3, <2>4, <3>1
  <2>5. CASE k # 0
    <3>1. k < Power(SizePow[k]) /\ Power(SizePow[k]) <= 2 * k
      BY <1>1, <2>1, <2>5
    <3> QED BY <2>1, <2>3, <3>1
  <2> QED BY <2>4, <2>5
<1>2. T = Nat
  BY <1>1, NatSetStrongInduction
<1>3. n \in T
  <2> HIDE DEF T
  <2> QED BY <1>2
<1> QED BY <1>3, SizePowRule

(* The same with the power of two named.                                   *)
LEMMA ReallocLensIs ==
  ASSUME NEW n
  PROVE  ReallocLens(n) =
           IF SizePow[n] <= IntWidth - 2 THEN {Power(SizePow[n])} ELSE {}
<1> QED BY DEF ReallocLens, Power

(* The largest length an int can hold.                                     *)
MaxBlock == Power(IntWidth - 2)

(* A length that is found is enough, and no more than double.              *)
LEMMA ReallocLenFits ==
  ASSUME NEW n \in Nat \ {0}, NEW m \in ReallocLens(n)
  PROVE  m \in Nat /\ n < m /\ m <= 2 * n /\ m <= MaxBlock
<1>1. SizePow[n] <= IntWidth - 2 /\ m = Power(SizePow[n])
  BY ReallocLensIs
<1>2. IntWidth - 2 \in Nat /\ SizePow[n] \in Nat
  BY BufferAssumption, LoopBrackets
<1>3. m <= MaxBlock
  <2>1. MaxBlock \in Nat /\ m \in Nat
    BY <1>1, <1>2, PowerType DEF MaxBlock
  <2>2. CASE SizePow[n] = IntWidth - 2
    BY <1>1, <2>1, <2>2 DEF MaxBlock
  <2>3. CASE SizePow[n] < IntWidth - 2
    <3>1. 2 * m <= MaxBlock
      BY <1>1, <1>2, <2>3, PowerGrows DEF MaxBlock
    <3> QED BY <2>1, <3>1
  <2> QED BY <1>1, <1>2, <2>2, <2>3
<1> QED BY <1>1, <1>2, <1>3, LoopBrackets, PowerType

(* A length is missing only where the data needs more than an int can say. *)
LEMMA ReallocLenMissing ==
  ASSUME NEW n \in Nat \ {0}, ReallocLens(n) = {}
  PROVE  n >= MaxBlock
<1>1. IntWidth - 2 \in Nat /\ SizePow[n] \in Nat /\ IntWidth - 2 < SizePow[n]
  <2>1. IntWidth - 2 \in Nat /\ SizePow[n] \in Nat
    BY BufferAssumption, LoopBrackets
  <2>2. ~(SizePow[n] <= IntWidth - 2)
    BY ReallocLensIs
  <2> QED BY <2>1, <2>2
<1>2. 2 * MaxBlock <= Power(SizePow[n]) /\ MaxBlock \in Nat
  BY <1>1, PowerGrows, PowerType DEF MaxBlock
<1>3. Power(SizePow[n]) <= 2 * n /\ Power(SizePow[n]) \in Nat
  BY <1>1, LoopBrackets, PowerType
<1> QED BY <1>2, <1>3

(* GetReallocLen's loop finds, for every length, the one power of two      *)
(* above it that is at most its double, if an int can hold that.           *)
THEOREM LoopFindsThePower ==
  ASSUME NEW n \in Nat \ {0}
  PROVE  ReallocLens(n) =
           {m \in {Power(k) : k \in 0 .. IntWidth - 2} : n < m /\ m <= 2 * n}
<1> DEFINE s == SizePow[n]
           w == IntWidth - 2
           Found == {m \in {Power(k) : k \in 0 .. w} : n < m /\ m <= 2 * n}
<1>1. s \in Nat /\ Power(s) \in Nat /\ n < Power(s) /\ Power(s) <= 2 * n /\ w \in Nat
  <2>1. s \in Nat /\ n < Power(s) /\ Power(s) <= 2 * n
    BY LoopBrackets
  <2>2. Power(s) \in Nat
    BY <2>1, PowerType
  <2>3. w \in Nat
    BY BufferAssumption
  <2> QED BY <2>1, <2>2, <2>3
<1>2. ReallocLens(n) = IF s <= w THEN {Power(s)} ELSE {}
  BY ReallocLensIs
<1>3. ASSUME NEW k \in 0 .. w, n < Power(k), Power(k) <= 2 * n PROVE k = s
  <2>1. Power(k) \in Nat /\ k \in Nat
    BY <1>1, PowerType
  <2>2. k < s => 2 * Power(k) <= Power(s)
    BY <1>1, <2>1, PowerGrows
  <2>3. s < k => 2 * Power(s) <= Power(k)
    BY <1>1, <2>1, PowerGrows
  <2> HIDE DEF s, w
  <2> QED BY <1>1, <1>3, <2>1, <2>2, <2>3
<1>4. s <= w => s \in 0 .. w
  <2> HIDE DEF s, w
  <2> QED BY <1>1
<1>5. ReallocLens(n) = Found
  <2> HIDE DEF s, w
  <2>1. \A m \in Found : s <= w /\ m = Power(s)
    BY <1>1, <1>3
  <2>2. s <= w => Power(s) \in Found
    BY <1>1, <1>4
  <2> HIDE DEF Found
  <2> QED BY <1>2, <2>1, <2>2
<1> QED BY <1>5

-----------------------------------------------------------------------------
Sound == TypeOK /\ InBounds

(* What is held are bytes users added, as many as the cursors say.         *)
LEMMA ContentType ==
  ASSUME Sound
  PROVE  /\ Size \in Nat
         /\ Content \in Seq(Byte)
         /\ Len(Content) = Size
<1> USE DEF Sound, TypeOK, InBounds
<1>1. Size \in Nat
  BY DEF Size
<1>2. \A k \in 1 .. Size : mem[begin + k - 1] \in Byte
  <2> SUFFICES ASSUME NEW k \in 1 .. Size PROVE mem[begin + k - 1] \in Byte
    OBVIOUS
  <2> DEFINE p == begin + k - 1
  <2>1. p \in begin .. end - 1 /\ p \in 0 .. cap - 1
    BY <1>1 DEF Size
  <2>2. mem[p] \in Byte \cup {Junk} /\ mem[p] # Junk
    BY <2>1
  <2> QED BY <2>2
<1>3. Content \in [1 .. Size -> Byte]
  BY <1>2 DEF Content
<1> QED BY <1>1, <1>3

(* A sequence that starts with s and goes on with d is s \o d.             *)
LEMMA ConcatIs ==
  ASSUME NEW s \in Seq(Byte), NEW d \in Seq(Byte), NEW t \in Seq(Byte),
         Len(t) = Len(s) + Len(d),
         \A k \in 1 .. Len(s) : t[k] = s[k],
         \A k \in 1 .. Len(d) : t[Len(s) + k] = d[k]
  PROVE  t = s \o d
<1>1. s \o d \in Seq(Byte) /\ Len(s \o d) = Len(t)
  BY ConcatProperties
<1>2. \A k \in 1 .. Len(t) : t[k] = (s \o d)[k]
  <2> SUFFICES ASSUME NEW k \in 1 .. Len(t) PROVE t[k] = (s \o d)[k]
    OBVIOUS
  <2>1. CASE k <= Len(s)
    BY <2>1
  <2>2. CASE k > Len(s)
    <3>1. k - Len(s) \in 1 .. Len(d) /\ k = Len(s) + (k - Len(s))
      BY <2>2
    <3> QED BY <2>2, <3>1
  <2> QED BY <2>1, <2>2
<1> QED BY <1>1, <1>2, SeqEqual

(* Adding a chunk, whatever block the data was brought into first.         *)
LEMMA AddKeeps ==
  ASSUME Sound, NEW d \in Seq(Byte),
         NEW c \in Nat \ {0}, NEW b \in Nat, NEW m \in [0 .. c - 1 -> Byte \cup {Junk}],
         b + Size + Len(d) <= c,
         \A p \in 0 .. Size - 1 : m[b + p] = mem[begin + p],
         cap' = c, mem' = Write(m, b + Size, d),
         begin' = b, end' = b + Size + Len(d), held' \in BOOLEAN
  PROVE  Sound' /\ Content' = Content \o d
<1>1. Size \in Nat /\ Content \in Seq(Byte) /\ Len(Content) = Size /\ Len(d) \in Nat
  BY ContentType
<1>2. TypeOK'
  <2>1. \A p \in 0 .. c - 1 : b + Size <= p /\ p < b + Size + Len(d) =>
          d[p - (b + Size) + 1] \in Byte
    BY <1>1
  <2>2. mem' \in [0 .. c - 1 -> Byte \cup {Junk}]
    BY <2>1 DEF Write
  <2> QED BY <1>1, <2>2 DEF TypeOK
<1>3. Size' = Size + Len(d)
  BY <1>1 DEF Size
<1>4. \A k \in 1 .. Size : mem'[b + k - 1] = Content[k]
  <2> SUFFICES ASSUME NEW k \in 1 .. Size PROVE mem'[b + k - 1] = Content[k]
    OBVIOUS
  <2>1. b + k - 1 \in 0 .. c - 1 /\ b + k - 1 < b + Size /\ k - 1 \in 0 .. Size - 1
    BY <1>1
  <2>2. mem'[b + k - 1] = m[b + (k - 1)]
    BY <1>1, <2>1 DEF Write
  <2>3. begin + (k - 1) = begin + k - 1
    BY DEF Sound, TypeOK
  <2> QED BY <2>1, <2>2, <2>3 DEF Content
<1>5. \A k \in 1 .. Len(d) : mem'[b + Size + k - 1] = d[k]
  <2> SUFFICES ASSUME NEW k \in 1 .. Len(d) PROVE mem'[b + Size + k - 1] = d[k]
    OBVIOUS
  <2>1. /\ b + Size + k - 1 \in 0 .. c - 1
        /\ b + Size <= b + Size + k - 1 /\ b + Size + k - 1 < b + Size + Len(d)
        /\ b + Size + k - 1 - (b + Size) + 1 = k
    BY <1>1
  <2> QED BY <1>1, <2>1 DEF Write
<1>6. \A p \in b .. b + Size + Len(d) - 1 : mem'[p] \in Byte
  <2> SUFFICES ASSUME NEW p \in b .. b + Size + Len(d) - 1 PROVE mem'[p] \in Byte
    OBVIOUS
  <2>1. CASE p < b + Size
    <3>1. p - b + 1 \in 1 .. Size /\ b + (p - b + 1) - 1 = p
      BY <1>1, <2>1
    <3>2. Content[p - b + 1] \in Byte
      BY <1>1, <3>1
    <3> QED BY <1>4, <3>1, <3>2
  <2>2. CASE p >= b + Size
    <3>1. p - b - Size + 1 \in 1 .. Len(d) /\ b + Size + (p - b - Size + 1) - 1 = p
      BY <1>1, <2>2
    <3> QED BY <1>5, <3>1
  <2> QED BY <1>1, <2>1, <2>2
<1>7. InBounds'
  BY <1>1, <1>6, BufferAssumption DEF InBounds
<1>8. Content' \in Seq(Byte) /\ Len(Content') = Size + Len(d)
  BY <1>1, <1>3, <1>6 DEF Content
<1>9. Content' = Content \o d
  <2>1. \A k \in 1 .. Size : Content'[k] = Content[k]
    BY <1>1, <1>3, <1>4 DEF Content
  <2>2. \A k \in 1 .. Len(d) : Content'[Size + k] = d[k]
    <3> SUFFICES ASSUME NEW k \in 1 .. Len(d) PROVE Content'[Size + k] = d[k]
      OBVIOUS
    <3>1. Size + k \in 1 .. Size' /\ b + (Size + k) - 1 = b + Size + k - 1
      BY <1>1, <1>3
    <3> QED BY <1>5, <3>1 DEF Content
  <2> QED BY <1>1, <1>8, <2>1, <2>2, ConcatIs
<1> QED BY <1>2, <1>7, <1>9 DEF Sound

-----------------------------------------------------------------------------
(* AddTailData where the block is kept.                                    *)
LEMMA AddBehindKeeps ==
  ASSUME Sound, NEW d \in Chunks, AddBehind(d)
  PROVE  Sound' /\ Content' = Content \o d
<1>1. d \in Seq(Byte) /\ Size \in Nat /\ begin + Size = end
  BY BufferAssumption, ContentType DEF Size, Sound, TypeOK
<1> QED
  BY <1>1, AddKeeps DEF AddBehind, FitsBehind, Sound, TypeOK

(* AddTailData where the data is moved to the front of the block.          *)
LEMMA AddMovedKeeps ==
  ASSUME Sound, NEW d \in Chunks, AddMoved(d)
  PROVE  Sound' /\ Content' = Content \o d
<1>1. d \in Seq(Byte) /\ Size \in Nat /\ 0 + Size = Size /\ Len(d) \in Nat
  BY BufferAssumption, ContentType
<1>2. Moved \in [0 .. cap - 1 -> Byte \cup {Junk}]
  <2>1. \A p \in 0 .. cap - 1 : p < Size => begin + p \in 0 .. cap - 1
    BY <1>1 DEF Sound, TypeOK, InBounds, Size
  <2> QED BY <2>1 DEF Moved, Sound, TypeOK
<1>3. \A p \in 0 .. Size - 1 : Moved[0 + p] = mem[begin + p]
  BY <1>1 DEF Moved, Sound, TypeOK, InBounds, Size
<1>4. 0 + Size + Len(d) <= cap
  BY <1>1 DEF AddMoved, FitsMoved, Size, Sound, TypeOK
<1> QED
  BY <1>1, <1>2, <1>3, <1>4, AddKeeps DEF AddMoved, Sound, TypeOK

(* AddTailData where the block is replaced: GetReallocLen returns more     *)
(* than what the new block has to hold.                                    *)
LEMMA AddGrownKeeps ==
  ASSUME Sound, NEW d \in Chunks, AddGrown(d)
  PROVE  Sound' /\ Content' = Content \o d
<1>1. d \in Seq(Byte) /\ Size \in Nat /\ 0 + Size = Size /\ Len(d) \in Nat
  BY BufferAssumption, ContentType
<1>2. PICK n \in ReallocLens(Size + Len(d)) :
        cap' = n /\ mem' = Write(Copied(n), Size, d)
  BY DEF AddGrown
<1>3. n \in Nat \ {0} /\ Size + Len(d) < n
  <2>1. Size + Len(d) \in Nat \ {0}
    BY <1>1 DEF AddGrown, Accepts
  <2> QED BY <1>2, <2>1, ReallocLenFits
<1>4. Copied(n) \in [0 .. n - 1 -> Byte \cup {Junk}]
  <2>1. \A p \in 0 .. n - 1 : p < Size => begin + p \in 0 .. cap - 1
    BY <1>1, <1>3 DEF Sound, TypeOK, InBounds, Size
  <2> QED BY <2>1 DEF Copied, Sound, TypeOK
<1>5. \A p \in 0 .. Size - 1 : Copied(n)[0 + p] = mem[begin + p]
  BY <1>1, <1>3 DEF Copied
<1>6. begin' = 0 /\ end' = 0 + Size + Len(d) /\ held' \in BOOLEAN
  BY <1>1 DEF AddGrown, Sound, TypeOK
<1>7. mem' = Write(Copied(n), 0 + Size, d)
  BY <1>1, <1>2
<1>8. 0 + Size + Len(d) <= n
  BY <1>1, <1>3
<1> QED BY <1>1, <1>2, <1>3, <1>4, <1>5, <1>6, <1>7, <1>8, AddKeeps

(* PopHeadData takes a prefix of what is held.                             *)
LEMMA PopKeeps ==
  ASSUME Sound, NEW n \in 0 .. Size, PopHeadData(n)
  PROVE  Sound' /\ Content' = SubSeq(Content, n + 1, Len(Content))
<1>1. Size \in Nat /\ Content \in Seq(Byte) /\ Len(Content) = Size
  BY ContentType
<1>2. begin' = begin + n /\ n \in Nat /\ n <= Size
  BY <1>1 DEF PopHeadData
<1>3. Sound'
  BY <1>1, <1>2 DEF PopHeadData, Sound, TypeOK, InBounds, Size
<1>4. Size' = Size - n
  BY <1>2 DEF PopHeadData, Size, Sound, TypeOK
<1>5. \A k \in 1 .. Size - n : mem'[begin' + k - 1] = Content[n + 1 + k - 1]
  <2> SUFFICES ASSUME NEW k \in 1 .. Size - n
               PROVE  mem'[begin' + k - 1] = Content[n + 1 + k - 1]
    OBVIOUS
  <2>1. n + 1 + k - 1 \in 1 .. Size /\ begin' + k - 1 = begin + (n + 1 + k - 1) - 1
    BY <1>1, <1>2 DEF Sound, TypeOK
  <2> QED BY <2>1 DEF Content, PopHeadData
<1>6. LET t == SubSeq(Content, n + 1, Len(Content))
      IN  /\ t \in Seq(Byte) /\ Len(t) = Size - n
          /\ \A k \in 1 .. Size - n : t[k] = Content[n + 1 + k - 1]
  <2>1. \A k \in n + 1 .. Size : Content[k] \in Byte
    BY <1>1, <1>2
  <2> QED BY <1>1, <1>2, <2>1, SubSeqProperties
<1>7. /\ Content' \in Seq(Byte) /\ Len(Content') = Size - n
      /\ \A k \in 1 .. Size - n : Content'[k] = Content[n + 1 + k - 1]
  <2>1. \A k \in 1 .. Size - n : n + 1 + k - 1 \in 1 .. Size
    BY <1>1, <1>2
  <2>2. \A k \in 1 .. Size - n : Content[n + 1 + k - 1] \in Byte
    BY <1>1, <2>1
  <2>3. Content' = [k \in 1 .. Size - n |-> mem'[begin' + k - 1]]
    BY <1>4 DEF Content
  <2>4. Content' \in [1 .. Size - n -> Byte]
    BY <1>5, <2>2, <2>3
  <2>5. Size - n \in Nat
    BY <1>1, <1>2
  <2>6. Content' \in Seq(Byte) /\ Len(Content') = Size - n
    BY <2>3, <2>4, <2>5
  <2>7. \A k \in 1 .. Size - n : Content'[k] = Content[n + 1 + k - 1]
    BY <1>5, <2>3
  <2> QED BY <2>6, <2>7
<1> QED BY <1>3, <1>6, <1>7, SeqEqual

-----------------------------------------------------------------------------
(* The constructed buffer is sound: its block is never empty.              *)
LEMMA InitSound == Init => Sound
<1> SUFFICES ASSUME Init PROVE Sound
  OBVIOUS
<1>1. cap \in Nat \ {0}
  BY BufferAssumption DEF Init, Clamp
<1>2. mem \in [0 .. cap - 1 -> Byte \cup {Junk}]
  BY DEF Init
<1>3. begin .. end - 1 = {}
  BY DEF Init
<1>4. TypeOK
  BY <1>1, <1>2 DEF Init, TypeOK
<1>5. InBounds
  BY <1>1, <1>3 DEF Init, InBounds
<1> QED BY <1>4, <1>5 DEF Sound

(* Every operation keeps the buffer sound.                                 *)
LEMMA NextSound == Sound /\ [Next]_vars => Sound'
<1> SUFFICES ASSUME Sound, [Next]_vars PROVE Sound'
  OBVIOUS
<1>1. ASSUME NEW d \in Chunks, AddTailData(d) PROVE Sound'
  <2>1. CASE AddFails(d)
    BY <2>1 DEF AddFails, Sound, TypeOK, InBounds
  <2> QED BY <1>1, <2>1, AddBehindKeeps, AddMovedKeeps, AddGrownKeeps DEF AddTailData
<1>2. ASSUME NEW n \in 0 .. Size, PopHeadData(n) PROVE Sound'
  BY <1>2, PopKeeps
<1>3. CASE UNCHANGED vars
  BY <1>3 DEF vars, Sound, TypeOK, InBounds
<1> QED BY <1>1, <1>2, <1>3 DEF Next

(* The cursors stay inside the block and show only what was written, for   *)
(* every sequence of calls.                                                *)
THEOREM Soundness == Spec => [](TypeOK /\ InBounds)
<1>1. Spec => []Sound
  BY InitSound, NextSound, PTL DEF Spec
<1> QED BY <1>1, PTL DEF Sound

(* Every variable keeps its type: the block is never empty.                *)
THEOREM TypeCorrect == Spec => []TypeOK
<1> QED BY Soundness, PTL

(* The block is never longer than an int can say, and the buffer dies only *)
(* where a longer one is needed.                                           *)
Limited ==
  /\ cap <= MaxBlock
  /\ held => Size >= MaxBlock - MaxLen

(* The first block is at most kMaxLen long.                                *)
LEMMA InitLimited == Init => Limited
<1> SUFFICES ASSUME Init PROVE Limited
  OBVIOUS
<1>1. MaxLen < MaxBlock
  BY Zenon, LimitAssumption DEF MaxBlock, Power
<1>2. IntWidth - 2 \in Nat
  BY BufferAssumption
<1>3. cap \in Nat /\ cap <= MaxLen /\ MaxBlock \in Nat
  <2>1. PICK n \in Nat : cap = Clamp(n)
    BY BufferAssumption DEF Init
  <2>2. cap \in Nat /\ cap <= MaxLen
    BY <2>1, BufferAssumption DEF Clamp
  <2>3. MaxBlock \in Nat
    BY <1>2, PowerType DEF MaxBlock
  <2> QED BY <2>2, <2>3
<1> QED BY <1>1, <1>3, BufferAssumption DEF Init, Limited

(* A new block is what GetReallocLen found; where it found nothing, the    *)
(* data and the chunk need more.                                           *)
LEMMA NextLimited == Sound /\ Limited /\ [Next]_vars => Limited'
<1> SUFFICES ASSUME Sound, Limited, [Next]_vars PROVE Limited'
  OBVIOUS
<1>1. ASSUME NEW d \in Chunks, AddTailData(d) PROVE Limited'
  <2>1. CASE AddBehind(d) \/ AddMoved(d)
    BY <2>1 DEF AddBehind, AddMoved, Limited
  <2>2. CASE AddGrown(d)
    <3>1. Size + Len(d) \in Nat \ {0}
      BY <2>2, BufferAssumption, ContentType DEF AddGrown, Accepts
    <3>2. cap' <= MaxBlock /\ ~held'
      BY <2>2, <3>1, ReallocLenFits DEF AddGrown
    <3> QED BY <3>2 DEF Limited
  <2>3. CASE AddFails(d)
    <3>1. Size \in Nat /\ Size + Len(d) \in Nat \ {0} /\ Len(d) <= MaxLen
      BY <2>3, BufferAssumption, ContentType DEF AddFails, Accepts
    <3>2. Size + Len(d) >= MaxBlock
      BY <2>3, <3>1, ReallocLenMissing DEF AddFails
    <3>3. MaxBlock \in Nat /\ MaxLen \in Nat /\ Len(d) \in Nat
      BY BufferAssumption, PowerType DEF MaxBlock
    <3>4. Size >= MaxBlock - MaxLen
      BY <3>1, <3>2, <3>3
    <3>5. cap' = cap /\ Size' = Size
      BY <2>3 DEF AddFails, Size
    <3> QED BY <3>4, <3>5 DEF Limited
  <2> QED BY <1>1, <2>1, <2>2, <2>3 DEF AddTailData
<1>2. ASSUME NEW n \in 0 .. Size, PopHeadData(n) PROVE Limited'
  BY <1>2 DEF PopHeadData, Limited
<1>3. CASE UNCHANGED vars
  BY <1>3 DEF vars, Limited, Size
<1> QED BY <1>1, <1>2, <1>3 DEF Next

(* Whatever the width of an int, an allocation fails, and the buffer dies  *)
(* with its mutex locked, only when it holds all that the largest length   *)
(* an int can hold leaves beside one chunk.                                *)
THEOREM DiesHuge == Spec => []DiesOnlyHuge
<1>1. Limited => DiesOnlyHuge
  BY Zenon DEF Limited, DiesOnlyHuge, MaxBlock, Power
<1> QED BY <1>1, InitSound, NextSound, InitLimited, NextLimited, PTL DEF Spec

(* GetReallocLen never shifts past the sign bit, where the result of the   *)
(* shift would be undefined: no chunk the buffer accepts is long enough    *)
(* for that, whatever it holds already.                                    *)
ShiftsDefined ==
  \A d \in Chunks : Accepts(d) => SizePow[Size + Len(d)] <= IntWidth - 1

THEOREM NoShiftUndefined == Spec => []ShiftsDefined
<1>1. Sound /\ Limited => ShiftsDefined
  <2> SUFFICES ASSUME Sound, Limited, NEW d \in Chunks, Accepts(d)
               PROVE  SizePow[Size + Len(d)] <= IntWidth - 1
    BY DEF ShiftsDefined
  <2> DEFINE n == Size + Len(d)
             w == IntWidth - 2
  <2>1. n \in Nat \ {0} /\ w \in Nat /\ MaxLen \in Nat
    BY BufferAssumption, ContentType DEF Accepts
  <2>2. n <= cap + MaxLen /\ cap \in Nat
    <3>1. Len(d) \in Nat /\ Len(d) <= MaxLen
      BY BufferAssumption DEF Accepts
    <3>2. cap \in Nat /\ Size \in Nat /\ Size <= cap
      BY ContentType DEF Sound, TypeOK, InBounds, Size
    <3> QED BY <2>1, <3>1, <3>2
  <2>3. MaxLen < MaxBlock
    BY Zenon, LimitAssumption DEF MaxBlock, Power
  <2>4. SizePow[n] \in Nat /\ w + 1 = IntWidth - 1
    BY <2>1, LoopBrackets, BufferAssumption
  <2>5. Power(w + 1) = 2 * MaxBlock /\ MaxBlock \in Nat
    BY <2>1, PowerNext, PowerType DEF MaxBlock
  <2>6. w + 1 < SizePow[n] => 2 * Power(w + 1) <= Power(SizePow[n])
    BY <2>1, <2>4, PowerGrows
  <2>7. Power(SizePow[n]) <= 2 * n /\ Power(SizePow[n]) \in Nat
    BY <2>1, <2>4, LoopBrackets, PowerType
  <2>8. cap <= MaxBlock
    BY DEF Limited
  <2>9. SizePow[n] <= IntWidth - 1
    <3> HIDE DEF n, w
    <3> QED BY <2>1, <2>2, <2>3, <2>4, <2>5, <2>6, <2>7, <2>8
  <2> QED BY <2>9
<1> QED BY <1>1, InitSound, NextSound, InitLimited, NextLimited, PTL DEF Spec

(* The block is replaced only when the data needs it, and by one it half   *)
(* fills at least.                                                         *)
THEOREM TightGrowth == Spec => GrowthTight
<1>1. Sound /\ [Next]_vars =>
        [cap' # cap => Size' > cap /\ Size' < cap' /\ cap' <= 2 * Size']_vars
  <2> SUFFICES ASSUME Sound, Next, cap' # cap
               PROVE  Size' > cap /\ Size' < cap' /\ cap' <= 2 * Size'
    BY DEF vars
  <2>1. PICK d \in Chunks : AddGrown(d)
    BY DEF Next, AddTailData, AddBehind, AddMoved, AddFails, PopHeadData
  <2>2. Size \in Nat /\ Len(d) \in Nat
    BY BufferAssumption, ContentType
  <2>3. Size' = Size + Len(d)
    BY <2>1, <2>2 DEF AddGrown, Size
  <2>4. Size + Len(d) < cap' /\ cap' <= 2 * (Size + Len(d))
    <3>1. Size + Len(d) \in Nat \ {0}
      BY <2>1, <2>2 DEF AddGrown, Accepts
    <3> QED BY <2>1, <3>1, ReallocLenFits DEF AddGrown
  <2>5. Size + Len(d) > cap
    BY <2>1, <2>2 DEF AddGrown, FitsMoved, Size, Sound, TypeOK
  <2> QED BY <2>3, <2>4, <2>5
<1> QED BY <1>1, InitSound, NextSound, PTL DEF Spec, GrowthTight

(* The buffer is a first-in first-out queue of the bytes added to it.      *)
THEOREM QueueImplemented == Spec => ImplementsQueue
<1>1. Init => Queue!Init
  BY DEF Init, Queue!Init, Content, Size
<1>2. Sound /\ [Next]_vars => [Queue!Next]_<<Content, held>>
  <2> SUFFICES ASSUME Sound, [Next]_vars PROVE [Queue!Next]_<<Content, held>>
    OBVIOUS
  <2>1. ASSUME NEW d \in Chunks, AddTailData(d) PROVE Queue!Next
    <3>1. CASE AddFails(d)
      BY <3>1 DEF AddFails, Queue!Next, Queue!Die, Content, Size
    <3>2. CASE AddBehind(d) \/ AddMoved(d) \/ AddGrown(d)
      <4>1. Content' = Content \o d
        BY <3>2, AddBehindKeeps, AddMovedKeeps, AddGrownKeeps
      <4>2. ~held /\ held' = held
        BY <3>2 DEF AddBehind, AddMoved, AddGrown
      <4> QED BY <4>1, <4>2 DEF Queue!Next, Queue!Add
    <3> QED BY <2>1, <3>1, <3>2 DEF AddTailData
  <2>2. ASSUME NEW n \in 0 .. Size, PopHeadData(n) PROVE Queue!Next
    <3>1. Content' = SubSeq(Content, n + 1, Len(Content)) /\ n \in 0 .. Len(Content)
      BY <2>2, PopKeeps, ContentType
    <3> QED BY <2>2, <3>1 DEF PopHeadData, Queue!Next, Queue!Pop
  <2>3. CASE UNCHANGED vars
    BY <2>3 DEF vars, Content, Size
  <2> QED BY <2>1, <2>2, <2>3 DEF Next
<1> QED BY <1>1, <1>2, InitSound, NextSound, PTL DEF Spec, ImplementsQueue, Queue!Spec

=============================================================================
