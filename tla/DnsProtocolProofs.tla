-------------------------- MODULE DnsProtocolProofs --------------------------
(***************************************************************************)
(* What TLAPS proves of DnsProtocol, for names, answers and files of any   *)
(* length: what RequestConstruct's loop writes is the question, and what   *)
(* ResponseParse's two walks find is the first address.  Every loop is a   *)
(* recursive function; LoopWorks gives its rounds, and an invariant of the *)
(* loop is then a set of rounds that is closed under the next one.         *)
(***************************************************************************)
EXTENDS DnsProtocol, DataInduction, SequenceTheorems, TLAPS

-----------------------------------------------------------------------------
(* Dots.                                                                   *)

IsDotAfter(text, a, b) ==
  /\ b \in a + 1 .. Len(text) + 1
  /\ b = Len(text) + 1 \/ text[b] = Dot
  /\ \A h \in a + 1 .. b - 1 : text[h] # Dot

(* There is one next dot, or the end.                                      *)
LEMMA DotAfterIs ==
  ASSUME NEW text \in Seq(Byte), NEW a \in 0 .. Len(text), NEW b,
         IsDotAfter(text, a, b)
  PROVE  DotAfter(text, a) = b
<1>1. Len(text) \in Nat /\ ~(a > Len(text))
  OBVIOUS
<1>2. ASSUME NEW c, IsDotAfter(text, a, c) PROVE c = b
  <2>1. b \in Int /\ c \in Int
    BY <1>1, <1>2 DEF IsDotAfter
  <2>2. ~(b < c) /\ ~(c < b)
    BY <1>1, <1>2, <2>1 DEF IsDotAfter
  <2> QED BY <2>1, <2>2
<1>3. DotAfter(text, a) =
        CHOOSE j \in a + 1 .. Len(text) + 1 :
          /\ j = Len(text) + 1 \/ text[j] = Dot
          /\ \A h \in a + 1 .. j - 1 : text[h] # Dot
  BY <1>1 DEF DotAfter
<1>4. DotAfter(text, a) = CHOOSE j \in a + 1 .. Len(text) + 1 : IsDotAfter(text, a, j)
  BY Zenon, <1>3 DEF IsDotAfter
<1>5. \E j \in a + 1 .. Len(text) + 1 : IsDotAfter(text, a, j)
  BY DEF IsDotAfter
<1>6. IsDotAfter(text, a, DotAfter(text, a))
  BY <1>4, <1>5
<1> QED BY <1>2, <1>6

LEMMA DotAfterWorks ==
  ASSUME NEW text \in Seq(Byte), NEW a \in 0 .. Len(text)
  PROVE  IsDotAfter(text, a, DotAfter(text, a))
<1> DEFINE Ends(j) == j \in a + 1 .. Len(text) + 1 /\ (j = Len(text) + 1 \/ text[j] = Dot)
           T == {j \in Nat : ~Ends(j)}
<1>1. Len(text) \in Nat /\ Ends(Len(text) + 1) /\ Len(text) + 1 \in Nat
  OBVIOUS
<1>2. T # Nat
  BY <1>1
<1>3. PICK b \in Nat : b \notin T /\ \A j \in Nat : j < b => j \in T
  BY <1>2, NatSetStrongInduction
<1>4. IsDotAfter(text, a, b)
  <2>1. Ends(b)
    BY <1>3
  <2>2. ASSUME NEW h \in a + 1 .. b - 1 PROVE text[h] # Dot
    <3>1. h \in Nat /\ h < b /\ h \in a + 1 .. Len(text) + 1
      BY <1>1, <2>1
    <3>2. ~Ends(h)
      BY <1>3, <3>1
    <3> QED BY <3>1, <3>2
  <2> QED BY <2>1, <2>2 DEF IsDotAfter
<1> QED BY <1>4, DotAfterIs

-----------------------------------------------------------------------------
(* Sequences of bytes, one behind the other.                               *)
LEMMA Behind ==
  ASSUME NEW s \in Seq(Byte), NEW t \in Seq(Byte)
  PROVE  /\ s \o t \in Seq(Byte) /\ Len(s \o t) = Len(s) + Len(t)
         /\ Len(s) \in Nat /\ Len(t) \in Nat
         /\ \A k \in 1 .. Len(s) : (s \o t)[k] = s[k]
         /\ \A k \in 1 .. Len(t) : (s \o t)[Len(s) + k] = t[k]
<1>1. /\ s \o t \in Seq(Byte) /\ Len(s \o t) = Len(s) + Len(t)
      /\ \A i \in 1 .. Len(s) + Len(t) :
           (s \o t)[i] = IF i <= Len(s) THEN s[i] ELSE t[i - Len(s)]
  BY ConcatProperties
<1>2. Len(s) \in Nat /\ Len(t) \in Nat
  OBVIOUS
<1>3. ASSUME NEW k \in 1 .. Len(s) PROVE (s \o t)[k] = s[k]
  <2>1. k \in 1 .. Len(s) + Len(t) /\ k <= Len(s)
    BY <1>2
  <2> QED BY <1>1, <2>1
<1>4. ASSUME NEW k \in 1 .. Len(t) PROVE (s \o t)[Len(s) + k] = t[k]
  <2>1. /\ Len(s) + k \in 1 .. Len(s) + Len(t) /\ ~(Len(s) + k <= Len(s))
        /\ Len(s) + k - Len(s) = k
    BY <1>2
  <2> QED BY <1>1, <2>1
<1> QED BY <1>1, <1>2, <1>3, <1>4

-----------------------------------------------------------------------------
(* RequestConstruct.  The rounds of its loop.                              *)

Rounds(domain) == [bytes : Seq(Byte), start : 1 .. Len(domain) + 2]

LEMMA RoundType ==
  ASSUME NEW domain \in Seq(Byte), NEW w \in Rounds(domain), NEW q \in 1 .. Len(domain) + 1
  PROVE  Round(domain, w, q) \in Rounds(domain)
<1>1. Len(domain) \in Nat /\ w.bytes \in Seq(Byte) /\ w.start \in 1 .. Len(domain) + 2
  BY DEF Rounds
<1>2. (q - w.start) % 256 \in Byte
  <2>1. \A d \in Int : d % 256 \in 0 .. 255
    OBVIOUS
  <2>2. q - w.start \in Int
    BY <1>1
  <2> QED BY <2>1, <2>2 DEF Byte
<1>3. SubSeq(domain, w.start, q - 1) \in Seq(Byte)
  <2>1. \A i \in w.start .. q - 1 : domain[i] \in Byte
    BY <1>1
  <2> QED BY <1>1, <2>1, SubSeqProperties
<1>4. <<(q - w.start) % 256>> \in Seq(Byte)
  BY <1>2
<1>5. w.bytes \o <<(q - w.start) % 256>> \o SubSeq(domain, w.start, q - 1) \in Seq(Byte)
  BY <1>1, <1>3, <1>4, ConcatProperties
<1>6. AfterDot(q) \in 1 .. Len(domain) + 2
  BY <1>1 DEF AfterDot
<1> QED BY <1>5, <1>6 DEF Round, Rounds

LEMMA SectionsLoop ==
  ASSUME NEW domain \in Seq(Byte)
  PROVE  /\ \A q \in 0 .. Len(domain) + 1 : SectionsTo(domain)[q] \in Rounds(domain)
         /\ SectionsTo(domain)[0] = [bytes |-> <<>>, start |-> 1]
         /\ \A q \in 1 .. Len(domain) + 1 :
              SectionsTo(domain)[q] = Round(domain, SectionsTo(domain)[q - 1], q)
<1> DEFINE N == Len(domain) + 1
           V == Rounds(domain)
           z == [bytes |-> <<>>, start |-> 1]
           G == [p \in (1 .. N) \X V |-> Round(domain, p[2], p[1])]
<1>1. N \in Nat
  OBVIOUS
<1>2. z \in V
  BY <1>1 DEF Rounds
<1>3. IsLoop(N, V, z, G)
  <2>1. G \in [(1 .. N) \X V -> V]
    <3>1. ASSUME NEW p \in (1 .. N) \X V PROVE Round(domain, p[2], p[1]) \in V
      BY RoundType
    <3> QED BY <3>1
  <2> HIDE DEF N, V, z, G
  <2> QED BY <1>1, <1>2, <2>1 DEF IsLoop
<1>4. PICK f \in [0 .. N -> V] :
        \A n \in 0 .. N : f[n] = IF n = 0 THEN z ELSE G[<<n, f[n - 1]>>]
  <2> HIDE DEF N, V, z, G
  <2> QED BY <1>3, LoopWorks
<1>5. ASSUME NEW n \in 0 .. N
      PROVE  f[n] = IF n = 0 THEN z ELSE Round(domain, f[n - 1], n)
  <2>1. ASSUME n # 0 PROVE G[<<n, f[n - 1]>>] = Round(domain, f[n - 1], n)
    <3>1. n \in 1 .. N /\ n - 1 \in 0 .. N
      BY <1>1, <2>1
    <3>2. f[n - 1] \in V
      <4> HIDE DEF V
      <4> QED BY <3>1
    <3> HIDE DEF V, N
    <3> QED BY <3>1, <3>2
  <2> HIDE DEF G, V, z, N
  <2> QED BY <1>4, <2>1
<1>6. f = [n \in 0 .. N |-> IF n = 0 THEN z ELSE Round(domain, f[n - 1], n)]
  <2> HIDE DEF z, N, V, G
  <2> QED BY <1>5
<1>7. SectionsTo(domain) =
        [n \in 0 .. N |-> IF n = 0 THEN z ELSE Round(domain, SectionsTo(domain)[n - 1], n)]
  BY Zenon, <1>6 DEF SectionsTo
<1>8. SectionsTo(domain)[0] = z
  BY <1>1, <1>7
<1>9. ASSUME NEW q \in 1 .. N
      PROVE  SectionsTo(domain)[q] = Round(domain, SectionsTo(domain)[q - 1], q)
  <2>1. q \in 0 .. N /\ q # 0
    BY <1>1
  <2> HIDE DEF N, z
  <2> QED BY <1>7, <2>1
<1>10. \A q \in 0 .. N : SectionsTo(domain)[q] \in V
  <2> DEFINE T == {n \in Nat : n <= N => SectionsTo(domain)[n] \in V}
  <2>1. 0 \in T
    <3> HIDE DEF z, V, N
    <3> QED BY <1>2, <1>8
  <2>2. ASSUME NEW n \in T PROVE n + 1 \in T
    <3> SUFFICES ASSUME n + 1 <= N PROVE SectionsTo(domain)[n + 1] \in V
      OBVIOUS
    <3>1. n \in Nat /\ SectionsTo(domain)[n] \in V /\ n + 1 \in 1 .. N /\ n + 1 - 1 = n
      BY <1>1
    <3> QED BY <1>9, <3>1, RoundType
  <2>3. T = Nat
    <3> HIDE DEF T
    <3> QED BY <2>1, <2>2, NatSetInduction
  <2> QED BY <1>1, <2>3
<1> QED BY <1>8, <1>9, <1>10
(* What the loop has written after q rounds: the question up to the start  *)
(* of the section it is in, which holds no dot so far.                     *)
WrittenTo(domain, w, q) ==
  /\ w.start \in 1 .. q + 1
  /\ IF q <= Len(domain) THEN w.start - 1 \in Breaks(domain) ELSE w.start = q + 1
  /\ \A j \in w.start .. q : domain[j] # Dot
  /\ Len(w.bytes) = w.start - 1
  /\ \A k \in 1 .. w.start - 1 : w.bytes[k] = Question(domain)[k]

(* A dot or the end writes one section more.                               *)
LEMMA RoundWrites ==
  ASSUME NEW domain \in Seq(Byte), HostName(domain), NEW q \in 1 .. Len(domain) + 1,
         NEW w \in Rounds(domain), WrittenTo(domain, w, q - 1)
  PROVE  WrittenTo(domain, Round(domain, w, q), q)
<1>0. PICK bytes \in Seq(Byte), s \in 1 .. Len(domain) + 2 : w.bytes = bytes /\ w.start = s
  BY DEF Rounds
<1> DEFINE new == bytes \o <<(q - s) % 256>> \o SubSeq(domain, s, q - 1)
<1>1. Len(domain) \in Nat /\ s \in 1 .. q /\ Len(bytes) = s - 1
  BY <1>0 DEF WrittenTo
<1>2. \A j \in s .. q - 1 : domain[j] # Dot
  BY <1>0 DEF WrittenTo
<1>3. s - 1 \in Breaks(domain)
  BY <1>0, <1>1 DEF WrittenTo
<1>4. CASE q > Len(domain) \/ domain[q] = Dot
  <2>1. IsDotAfter(domain, s - 1, q)
    BY <1>1, <1>2, <1>4 DEF IsDotAfter
  <2>2. LabelLen(domain, s - 1) = q - s /\ q - s \in 1 .. 63
    <3>1. DotAfter(domain, s - 1) = q
      BY <1>1, <2>1, DotAfterIs
    <3>2. LabelLen(domain, s - 1) = q - (s - 1) - 1
      BY <3>1 DEF LabelLen
    <3>3. LabelLen(domain, s - 1) \in 1 .. 63
      BY <1>3 DEF HostName
    <3>4. q - (s - 1) - 1 = q - s
      BY <1>1
    <3> QED BY <3>2, <3>3, <3>4
  <2>3. (q - s) % 256 = q - s
    <3>1. \A d \in 1 .. 63 : d % 256 = d
      OBVIOUS
    <3> QED BY <2>2, <3>1
  <2>4. <<q - s>> \in Seq(Byte)
    BY <2>2 DEF Byte
  <2>5. /\ SubSeq(domain, s, q - 1) \in Seq(Byte)
        /\ Len(SubSeq(domain, s, q - 1)) = q - s
        /\ \A i \in 1 .. q - s : SubSeq(domain, s, q - 1)[i] = domain[s + i - 1]
    <3>1. \A i \in s .. q - 1 : domain[i] \in Byte
      BY <1>1
    <3>2. s \in Int /\ q - 1 \in Int /\ (q - 1) - s + 1 = q - s
      BY <1>1
    <3>3. s <= q - 1
      BY <1>1, <2>2
    <3> QED BY <3>1, <3>2, <3>3, SubSeqProperties
  <2>6. /\ bytes \o <<q - s>> \in Seq(Byte)
        /\ Len(bytes \o <<q - s>>) = s
        /\ \A i \in 1 .. s : (bytes \o <<q - s>>)[i] = IF i < s THEN bytes[i] ELSE q - s
    <3> DEFINE c == <<q - s>>
    <3>1. c \in Seq(Byte) /\ Len(c) = 1 /\ c[1] = q - s
      BY <2>4
    <3> HIDE DEF c
    <3>2. /\ bytes \o c \in Seq(Byte) /\ Len(bytes \o c) = Len(bytes) + Len(c)
          /\ \A i \in 1 .. Len(bytes) : (bytes \o c)[i] = bytes[i]
          /\ \A i \in 1 .. Len(c) : (bytes \o c)[Len(bytes) + i] = c[i]
      BY Zenon, <3>1, Behind
    <3>3. Len(bytes) + 1 = s /\ s \in Nat
      BY <1>1
    <3>4. (bytes \o c)[s] = q - s
      BY <3>1, <3>2, <3>3
    <3>5. ASSUME NEW i \in 1 .. s, i < s PROVE (bytes \o c)[i] = bytes[i]
      <4>1. i \in 1 .. Len(bytes)
        <5>1. s - 1 = Len(bytes) /\ i \in 1 .. s - 1
          BY <3>3, <3>5
        <5> QED BY Zenon, <5>1
      <4> QED BY Zenon, <3>2, <4>1
    <3>6. \A i \in 1 .. s : i < s \/ i = s
      BY <3>3
    <3>7. Len(bytes \o c) = s
      BY Zenon, <3>1, <3>2, <3>3
    <3>8. ~(s < s)
      BY <3>3
    <3>9. \A i \in 1 .. s : (bytes \o c)[i] = IF i < s THEN bytes[i] ELSE q - s
      BY Zenon, <3>4, <3>5, <3>6, <3>8
    <3> QED BY Zenon, <3>2, <3>7, <3>9 DEF c
  <2>7. /\ Len(new) = q
        /\ \A i \in 1 .. q : new[i] = IF i < s THEN bytes[i]
                                     ELSE IF i = s THEN q - s ELSE domain[i - 1]
    <3>1. /\ Len(new) = s + (q - s)
          /\ \A i \in 1 .. s + (q - s) :
               new[i] = IF i <= s THEN (bytes \o <<q - s>>)[i]
                        ELSE SubSeq(domain, s, q - 1)[i - s]
      <4>1. new = (bytes \o <<q - s>>) \o SubSeq(domain, s, q - 1)
        BY <2>3
      <4> DEFINE front == bytes \o <<q - s>>
                 back == SubSeq(domain, s, q - 1)
      <4>2. front \in Seq(Byte) /\ back \in Seq(Byte) /\ Len(front) = s /\ Len(back) = q - s
        BY <2>5, <2>6
      <4>3. new = front \o back
        BY <4>1
      <4> HIDE DEF new, front, back
      <4>4. /\ Len(new) = s + (q - s)
            /\ \A i \in 1 .. s + (q - s) : new[i] = IF i <= s THEN front[i] ELSE back[i - s]
        <5>1. /\ Len(front \o back) = Len(front) + Len(back)
              /\ \A i \in 1 .. Len(front) + Len(back) :
                   (front \o back)[i] = IF i <= Len(front) THEN front[i] ELSE back[i - Len(front)]
          BY <4>2, ConcatProperties
        <5> QED BY Zenon, <4>2, <4>3, <5>1
      <4> QED BY <4>4 DEF front, back
    <3> HIDE DEF new
    <3> QED BY <1>1, <2>5, <2>6, <3>1
  <2>8. Round(domain, w, q) = [bytes |-> new, start |-> q + 1]
    BY <1>0, <1>4 DEF Round, AfterDot
  <2> HIDE DEF new
  <2>9. ASSUME NEW k \in 1 .. q PROVE new[k] = Question(domain)[k]
    <3>1. k \in 1 .. Len(domain) + 1
      BY <1>1
    <3>2. CASE k < s
      <4>1. new[k] = bytes[k]
        BY <2>7, <3>2
      <4>2. k \in 1 .. s - 1
        BY <1>1, <3>2
      <4>3. \A i \in 1 .. s - 1 : bytes[i] = Question(domain)[i]
        BY Zenon, <1>0 DEF WrittenTo
      <4> QED BY Zenon, <4>1, <4>2, <4>3
    <3>3. CASE k = s
      BY <1>3, <2>2, <2>7, <3>1, <3>3 DEF Question
    <3>4. CASE k > s
      <4>1. k - 1 \in s .. q - 1 /\ k - 1 # 0
        BY <1>1, <3>4
      <4>2. k - 1 \notin Breaks(domain)
        BY <1>2, <4>1 DEF Breaks
      <4> QED BY <1>1, <2>7, <3>1, <3>4, <4>2 DEF Question
    <3> QED BY <1>1, <3>2, <3>3, <3>4
  <2>10. q \in Breaks(domain) \/ q = Len(domain) + 1
    BY <1>1, <1>4 DEF Breaks
  <2> QED BY <1>1, <2>7, <2>8, <2>9, <2>10 DEF WrittenTo
<1>5. CASE ~(q > Len(domain) \/ domain[q] = Dot)
  <2>1. Round(domain, w, q) = w
    BY <1>5 DEF Round
  <2>2. q <= Len(domain) /\ q \in Nat
    BY <1>1, <1>5
  <2>3. \A j \in s .. q : domain[j] # Dot
    <3>1. \A j \in s .. q : j = q \/ j \in s .. q - 1
      BY <2>2
    <3> QED BY <1>2, <1>5, <3>1
  <2>4. \A k \in 1 .. s - 1 : bytes[k] = Question(domain)[k]
    BY <1>0 DEF WrittenTo
  <2> QED BY <1>0, <1>1, <1>3, <2>1, <2>2, <2>3, <2>4 DEF WrittenTo
<1> QED BY <1>4, <1>5

(* The bytes between the header and the zero are the question.             *)
LEMMA SectionsAreTheQuestion ==
  ASSUME NEW domain \in Seq(Byte), HostName(domain)
  PROVE  /\ Sections(domain) = Question(domain)
         /\ Sections(domain) \in Seq(Byte) /\ Len(Sections(domain)) = Len(domain) + 1
<1> DEFINE N == Len(domain) + 1
           T == {n \in Nat : n <= N => WrittenTo(domain, SectionsTo(domain)[n], n)}
<1>1. Len(domain) \in Nat
  OBVIOUS
<1>2. 0 \in T
  BY <1>1, SectionsLoop DEF WrittenTo, Breaks
<1>3. ASSUME NEW n \in T PROVE n + 1 \in T
  <2> SUFFICES ASSUME n + 1 <= N PROVE WrittenTo(domain, SectionsTo(domain)[n + 1], n + 1)
    OBVIOUS
  <2>1. /\ n \in Nat /\ n \in 0 .. Len(domain) + 1 /\ n + 1 \in 1 .. Len(domain) + 1
        /\ n + 1 - 1 = n /\ WrittenTo(domain, SectionsTo(domain)[n], n)
    BY <1>1
  <2>2. /\ SectionsTo(domain)[n] \in Rounds(domain)
        /\ SectionsTo(domain)[n + 1] = Round(domain, SectionsTo(domain)[n], n + 1)
    BY <2>1, SectionsLoop
  <2> HIDE DEF T
  <2> QED BY <2>1, <2>2, RoundWrites
<1>4. T = Nat
  <2>1. T \in SUBSET Nat
    OBVIOUS
  <2> HIDE DEF T
  <2> QED BY <1>2, <1>3, <2>1, NatSetInduction
<1> DEFINE w == SectionsTo(domain)[N]
<1>5. WrittenTo(domain, w, N) /\ w \in Rounds(domain) /\ N \in Nat
  <2>1. WrittenTo(domain, w, N)
    BY <1>1, <1>4
  <2> HIDE DEF T
  <2> QED BY <1>1, <2>1, SectionsLoop
<1> HIDE DEF w, T
<1>6. w.start = N + 1 /\ Len(w.bytes) = N /\ w.bytes \in Seq(Byte)
  BY <1>1, <1>5 DEF WrittenTo, Rounds
<1>7. \A k \in 1 .. N : w.bytes[k] = Question(domain)[k]
  BY <1>5, <1>6 DEF WrittenTo
<1>8. w.bytes = [k \in 1 .. N |-> w.bytes[k]]
  BY <1>6
<1>9. Question(domain) = [k \in 1 .. N |-> Question(domain)[k]]
  BY Zenon DEF Question
<1>10. Sections(domain) = w.bytes
  BY DEF Sections, w
<1> QED BY <1>6, <1>7, <1>8, <1>9, <1>10

(* A query, and what lies where in an answer to it.                        *)
LEMMA QueryType ==
  ASSUME NEW name \in Seq(Byte), HostName(name)
  PROVE  /\ RequestConstruct(name) \in Seq(Byte)
         /\ Len(RequestConstruct(name)) = Len(name) + 18
         /\ \A k \in 1 .. Len(name) + 1 : RequestConstruct(name)[12 + k] = Question(name)[k]
         /\ RequestConstruct(name)[Len(name) + 14] = 0
<1> DEFINE L == Len(name)
           Q == Sections(name)
           HQ == Header \o Q
           HQ0 == HQ \o <<0>>
<1>1. L \in Nat
  OBVIOUS
<1>2. Q \in Seq(Byte) /\ Q = Question(name) /\ Len(Q) = L + 1
  BY SectionsAreTheQuestion
<1>5. /\ Header \in Seq(Byte) /\ Len(Header) = 12
      /\ <<0>> \in Seq(Byte) /\ Len(<<0>>) = 1 /\ <<0>>[1] = 0
      /\ TypeAndClass \in Seq(Byte) /\ Len(TypeAndClass) = 4
  BY DEF Header, TypeAndClass, Byte
<1> HIDE DEF Q, L
<1>6. /\ HQ \in Seq(Byte) /\ Len(HQ) = 12 + (L + 1)
      /\ \A k \in 1 .. L + 1 : HQ[12 + k] = Q[k]
  <2>1. /\ HQ \in Seq(Byte) /\ Len(HQ) = Len(Header) + Len(Q)
        /\ \A k \in 1 .. Len(Q) : HQ[Len(Header) + k] = Q[k]
    <3>1. Header \in Seq(Byte) /\ Q \in Seq(Byte)
      BY Zenon, <1>2, <1>5
    <3> QED BY <3>1, Behind
  <2> HIDE DEF HQ
  <2> QED BY <1>2, <1>5, <2>1
<1> HIDE DEF HQ
<1>7. /\ HQ0 \in Seq(Byte) /\ Len(HQ0) = 12 + (L + 1) + 1
      /\ \A k \in 1 .. 12 + (L + 1) : HQ0[k] = HQ[k]
      /\ HQ0[12 + (L + 1) + 1] = 0
  BY <1>5, <1>6, Behind
<1> HIDE DEF HQ0
<1> DEFINE P == HQ0 \o TypeAndClass
<1>8. /\ P \in Seq(Byte) /\ Len(P) = 12 + (L + 1) + 1 + 4
      /\ \A k \in 1 .. 12 + (L + 1) + 1 : P[k] = HQ0[k]
  <2>1. /\ P \in Seq(Byte) /\ Len(P) = Len(HQ0) + Len(TypeAndClass)
        /\ \A k \in 1 .. Len(HQ0) : P[k] = HQ0[k]
    <3>1. HQ0 \in Seq(Byte) /\ TypeAndClass \in Seq(Byte)
      BY Zenon, <1>5, <1>7
    <3> QED BY <3>1, Behind
  <2> HIDE DEF P
  <2> QED BY <1>5, <1>7, <2>1
<1>9. P = RequestConstruct(name)
  BY DEF RequestConstruct, P, HQ0, HQ, Q
<1> HIDE DEF P
<1>10. \A k \in 1 .. L + 1 : P[12 + k] = Q[k]
  <2> SUFFICES ASSUME NEW k \in 1 .. L + 1 PROVE P[12 + k] = Q[k]
    OBVIOUS
  <2>1. 12 + k \in 1 .. 12 + (L + 1) /\ 12 + k \in 1 .. 12 + (L + 1) + 1
    BY <1>1 DEF L
  <2> QED BY <1>6, <1>7, <1>8, <2>1
<1>11. P[L + 14] = 0
  <2>1. L + 14 = 12 + (L + 1) + 1 /\ L + 14 \in 1 .. 12 + (L + 1) + 1
    BY <1>1 DEF L
  <2> QED BY <1>7, <1>8, <2>1
<1>12. Len(P) = L + 18
  BY <1>1, <1>8 DEF L
<1> QED BY <1>2, <1>8, <1>9, <1>10, <1>11, <1>12 DEF L

-----------------------------------------------------------------------------
(* ResponseParse's first walk.                                             *)
LEMMA NameWalkRule ==
  ASSUME NEW p \in Seq(Byte)
  PROVE  \A n \in 0 .. Len(p), i \in Int :
           NameWalk(p)[n][i] =
             IF n = 0 \/ NameEnds(p, i) THEN i ELSE NameWalk(p)[n - 1][i + Signed(At0(p, i)) + 1]
<1> DEFINE N == Len(p)
           E == {i \in Int : NameEnds(p, i)}
           step == [i \in Int |-> IF NameEnds(p, i) THEN i ELSE i + Signed(At0(p, i)) + 1]
<1>1. IsWalk(N, E, step)
  <2>1. ASSUME NEW i \in Int, ~NameEnds(p, i) PROVE i + Signed(At0(p, i)) + 1 \in Int
    <3>1. i + 1 \in 1 .. Len(p)
      BY <2>1 DEF NameEnds, Inside
    <3>2. At0(p, i) \in Byte
      BY <3>1 DEF At0
    <3>3. \A b \in Byte : Signed(b) \in Int
      BY DEF Byte, Signed
    <3> QED BY <3>2, <3>3
  <2>2. step \in [Int -> Int]
    BY <2>1
  <2>3. N \in Nat
    OBVIOUS
  <2> HIDE DEF N, E, step
  <2> QED BY <2>2, <2>3 DEF IsWalk
<1>2. PICK f \in [0 .. N -> [Int -> Int]] :
        \A n \in 0 .. N, i \in Int :
          f[n][i] = IF n = 0 \/ i \in E THEN i ELSE f[n - 1][step[i]]
  <2> HIDE DEF N, E, step
  <2> QED BY <1>1, WalkWorks
<1>3. ASSUME NEW n \in 0 .. N, NEW i \in Int
      PROVE  f[n][i] = IF n = 0 \/ NameEnds(p, i) THEN i
                       ELSE f[n - 1][i + Signed(At0(p, i)) + 1]
  <2>1. i \in E <=> NameEnds(p, i)
    OBVIOUS
  <2>2. ~NameEnds(p, i) => step[i] = i + Signed(At0(p, i)) + 1
    OBVIOUS
  <2> HIDE DEF N, E, step
  <2> QED BY <1>2, <2>1, <2>2
<1>4. f = [n \in 0 .. N |->
             [i \in Int |-> IF n = 0 \/ NameEnds(p, i) THEN i
                            ELSE f[n - 1][i + Signed(At0(p, i)) + 1]]]
  <2>1. ASSUME NEW n \in 0 .. N
        PROVE  f[n] = [i \in Int |-> IF n = 0 \/ NameEnds(p, i) THEN i
                                     ELSE f[n - 1][i + Signed(At0(p, i)) + 1]]
    <3>1. f[n] \in [Int -> Int]
      OBVIOUS
    <3> QED BY <1>3, <3>1
  <2> HIDE DEF N
  <2> QED BY <2>1
<1>5. NameWalk(p) = [n \in 0 .. N |->
             [i \in Int |-> IF n = 0 \/ NameEnds(p, i) THEN i
                            ELSE NameWalk(p)[n - 1][i + Signed(At0(p, i)) + 1]]]
  BY Zenon, <1>4 DEF NameWalk
<1>6. ASSUME NEW n \in 0 .. N
      PROVE  NameWalk(p)[n] = [i \in Int |-> IF n = 0 \/ NameEnds(p, i) THEN i
                                ELSE NameWalk(p)[n - 1][i + Signed(At0(p, i)) + 1]]
  BY Zenon, <1>5
<1>7. ASSUME NEW n \in 0 .. N, NEW i \in Int
      PROVE  NameWalk(p)[n][i] = IF n = 0 \/ NameEnds(p, i) THEN i
                            ELSE NameWalk(p)[n - 1][i + Signed(At0(p, i)) + 1]
  <2> DEFINE to(j) == IF n = 0 \/ NameEnds(p, j) THEN j ELSE NameWalk(p)[n - 1][j + Signed(At0(p, j)) + 1]
  <2>1. NameWalk(p)[n] = [j \in Int |-> to(j)]
    BY Zenon, <1>6
  <2> HIDE DEF to
  <2>2. NameWalk(p)[n][i] = to(i)
    BY <2>1
  <2> QED BY Zenon, <2>2 DEF to
<1> QED BY Zenon, <1>7

(* An answer that begins with the query.                                   *)
Repeats(p, query) ==
  /\ p \in Seq(Byte) /\ Len(p) >= Len(query)
  /\ \A k \in 1 .. Len(query) : p[k] = query[k]

(* At the length of a label, one step leads to where the next one is, or,  *)
(* behind the last, the zero.                                              *)
LEMMA NameSteps ==
  ASSUME NEW name \in Seq(Byte), HostName(name),
         NEW p, Repeats(p, RequestConstruct(name)), NEW b \in Breaks(name)
  PROVE  \E d \in b + 1 .. Len(name) + 1 :
           /\ d = Len(name) + 1 \/ d \in Breaks(name)
           /\ ~NameEnds(p, 12 + b)
           /\ 12 + b + Signed(At0(p, 12 + b)) + 1 = 12 + d
<1> DEFINE L == Len(name)
           d == DotAfter(name, b)
<1>1. L \in Nat /\ b \in 0 .. L
  BY DEF Breaks
<1>2. d \in b + 1 .. L + 1 /\ (d = L + 1 \/ d \in Breaks(name))
  BY <1>1, DotAfterWorks DEF IsDotAfter, Breaks
<1>3. LabelLen(name, b) = d - b - 1 /\ LabelLen(name, b) \in 1 .. 63
  BY DEF LabelLen, HostName
<1> HIDE DEF d
<1>4. At0(p, 12 + b) = d - b - 1 /\ d - b - 1 \in 1 .. 63
  <2>1. b + 1 \in 1 .. L + 1 /\ b + 1 - 1 = b /\ 12 + (b + 1) = 12 + b + 1
    BY <1>1
  <2>2. RequestConstruct(name)[12 + (b + 1)] = Question(name)[b + 1]
    BY <2>1, QueryType
  <2>3. Question(name)[b + 1] = LabelLen(name, b)
    BY <1>1, <2>1 DEF Question
  <2>4. p[12 + (b + 1)] = RequestConstruct(name)[12 + (b + 1)]
    <3>1. 12 + (b + 1) \in 1 .. Len(RequestConstruct(name))
      <4>1. Len(RequestConstruct(name)) = L + 18
        BY QueryType
      <4> QED BY <1>1, <4>1
    <3> QED BY <3>1 DEF Repeats
  <2> QED BY <1>3, <2>1, <2>2, <2>3, <2>4 DEF At0
<1>5. Inside(p, 12 + b)
  <2>1. Len(p) \in Nat /\ Len(p) >= L + 18
    BY QueryType DEF Repeats
  <2> QED BY <1>1, <2>1 DEF Inside
<1>6. Signed(At0(p, 12 + b)) = d - b - 1
  <2>1. \A v \in 1 .. 63 : Signed(v) = v
    BY DEF Signed
  <2> QED BY <1>4, <2>1
<1>7. ~NameEnds(p, 12 + b)
  <2>1. At0(p, 12 + b) # 0
    <3>1. \A v \in 1 .. 63 : v # 0
      OBVIOUS
    <3> QED BY <1>4, <3>1
  <2> QED BY <1>5, <2>1 DEF NameEnds
<1>8. 12 + b + Signed(At0(p, 12 + b)) + 1 = 12 + d
  BY <1>1, <1>2, <1>6
<1> QED BY <1>2, <1>7, <1>8

LEMMA NameEndsAtZero ==
  ASSUME NEW name \in Seq(Byte), HostName(name),
         NEW p, Repeats(p, RequestConstruct(name))
  PROVE  At0(p, Len(name) + 13) = 0 /\ Inside(p, Len(name) + 13)
<1>1. /\ Len(name) \in Nat /\ Len(p) \in Nat /\ Len(p) >= Len(name) + 18
      /\ Len(RequestConstruct(name)) = Len(name) + 18
      /\ RequestConstruct(name)[Len(name) + 14] = 0
  BY QueryType DEF Repeats
<1>2. Len(name) + 14 \in 1 .. Len(name) + 18 /\ Len(name) + 13 + 1 = Len(name) + 14
  BY <1>1
<1>3. p[Len(name) + 14] = 0
  BY <1>1, <1>2 DEF Repeats
<1> QED BY <1>1, <1>2, <1>3 DEF At0, Inside

(* The walk over the question comes to rest at its zero, whatever name was *)
(* asked.                                                                  *)
LEMMA NameWalkStops ==
  ASSUME NEW name \in Seq(Byte), HostName(name),
         NEW p, Repeats(p, RequestConstruct(name))
  PROVE  SkipName(p) = Len(name) + 13
<1> DEFINE L == Len(name)
           T == {m \in Nat : \A b \in Breaks(name), n \in 0 .. Len(p) :
                   L + 1 - b <= m /\ m <= n => NameWalk(p)[n][12 + b] = L + 13}
<1>1. L \in Nat /\ Len(p) \in Nat /\ Len(p) >= L + 18 /\ p \in Seq(Byte)
  BY QueryType DEF Repeats
<1>2. \A b \in Breaks(name) : b \in 0 .. L
  BY DEF Breaks
<1>3. 0 \in T
  BY <1>1, <1>2
<1>4. ASSUME NEW m \in T PROVE m + 1 \in T
  <2> SUFFICES ASSUME NEW b \in Breaks(name), NEW n \in 0 .. Len(p),
                      L + 1 - b <= m + 1, m + 1 <= n
               PROVE  NameWalk(p)[n][12 + b] = L + 13
    OBVIOUS
  <2>1. PICK d \in b + 1 .. L + 1 :
          /\ d = L + 1 \/ d \in Breaks(name)
          /\ ~NameEnds(p, 12 + b)
          /\ 12 + b + Signed(At0(p, 12 + b)) + 1 = 12 + d
    BY NameSteps
  <2>2. m \in Nat /\ b \in 0 .. L /\ n # 0 /\ n - 1 \in 0 .. Len(p) /\ 12 + b \in Int
    BY <1>1, <1>2
  <2>3. NameWalk(p)[n][12 + b] = NameWalk(p)[n - 1][12 + d]
    BY <1>1, <2>1, <2>2, NameWalkRule
  <2>4. CASE d = L + 1
    <3>1. NameEnds(p, 12 + d) /\ 12 + d \in Int /\ 12 + d = L + 13
      BY <1>1, <2>4, NameEndsAtZero DEF NameEnds
    <3> QED BY <1>1, <2>2, <2>3, <3>1, NameWalkRule
  <2>5. CASE d \in Breaks(name)
    <3>1. L + 1 - d <= m /\ m <= n - 1
      BY <1>1, <2>1, <2>2
    <3> QED BY <2>2, <2>3, <2>5, <3>1
  <2> QED BY <2>1, <2>4, <2>5
<1>5. L + 1 \in T
  <2>1. T \in SUBSET Nat /\ L + 1 \in Nat
    BY <1>1
  <2> HIDE DEF T, L
  <2> QED BY <1>3, <1>4, <2>1, NatSetInduction
<1>6. 0 \in Breaks(name) /\ L + 1 - 0 <= L + 1 /\ L + 1 <= Len(p) /\ Len(p) \in 0 .. Len(p)
  BY <1>1 DEF Breaks
<1>7. NameWalk(p)[Len(p)][12 + 0] = L + 13
  BY <1>5, <1>6
<1> QED BY <1>7 DEF SkipName

(* The query asks for the name: every label behind its length, then the    *)
(* zero, type and class.                                                   *)
THEOREM RequestAsks ==
  ASSUME NEW name \in Seq(Byte), HostName(name)
  PROVE  QueryNames(name)
BY SectionsAreTheQuestion DEF RequestConstruct, QueryNames

-----------------------------------------------------------------------------
(* /etc/resolv.conf, line by line.                                         *)
LEMMA ServersLoop ==
  ASSUME NEW file \in Seq(Seq(STRING))
  PROVE  /\ \A n \in 0 .. Len(file) : ServersTo(file)[n] \in Seq(STRING)
         /\ ServersTo(file)[0] = <<>>
         /\ \A n \in 1 .. Len(file) :
              ServersTo(file)[n] = resolvConfParseLine(ServersTo(file)[n - 1], file[n])
<1> DEFINE N == Len(file)
           V == Seq(STRING)
           z == <<>>
           G == [p \in (1 .. N) \X V |-> resolvConfParseLine(p[2], file[p[1]])]
<1>1. N \in Nat
  OBVIOUS
<1>2. ASSUME NEW servers \in V, NEW n \in 1 .. N
      PROVE  resolvConfParseLine(servers, file[n]) \in V
  <2>1. file[n] \in Seq(STRING)
    OBVIOUS
  <2>2. Len(file[n]) > 1 => file[n][2] \in STRING
    BY <2>1
  <2>3. ASSUME Len(file[n]) > 1 PROVE Append(servers, file[n][2]) \in V
    BY <2>2, <2>3
  <2> HIDE DEF V
  <2> QED BY <2>3 DEF resolvConfParseLine
<1>3. IsLoop(N, V, z, G)
  <2>1. G \in [(1 .. N) \X V -> V]
    <3> HIDE DEF V
    <3> QED BY <1>2
  <2>2. z \in V
    OBVIOUS
  <2> HIDE DEF N, V, z, G
  <2> QED BY <1>1, <2>1, <2>2 DEF IsLoop
<1>4. PICK f \in [0 .. N -> V] :
        \A n \in 0 .. N : f[n] = IF n = 0 THEN z ELSE G[<<n, f[n - 1]>>]
  <2> HIDE DEF N, V, z, G
  <2> QED BY <1>3, LoopWorks
<1>5. ASSUME NEW n \in 0 .. N
      PROVE  f[n] = IF n = 0 THEN z ELSE resolvConfParseLine(f[n - 1], file[n])
  <2>1. ASSUME n # 0 PROVE G[<<n, f[n - 1]>>] = resolvConfParseLine(f[n - 1], file[n])
    <3>1. n \in 1 .. N /\ n - 1 \in 0 .. N
      BY <1>1, <2>1
    <3>2. f[n - 1] \in V
      <4> HIDE DEF V
      <4> QED BY <3>1
    <3> HIDE DEF V, N
    <3> QED BY <3>1, <3>2
  <2> HIDE DEF G, V, z, N
  <2> QED BY <1>4, <2>1
<1>6. f = [n \in 0 .. N |-> IF n = 0 THEN z ELSE resolvConfParseLine(f[n - 1], file[n])]
  <2> HIDE DEF z, N, V, G
  <2> QED BY <1>5
<1>7. ServersTo(file) =
        [n \in 0 .. N |-> IF n = 0 THEN z
                          ELSE resolvConfParseLine(ServersTo(file)[n - 1], file[n])]
  BY Zenon, <1>6 DEF ServersTo
<1>8. ServersTo(file)[0] = z
  BY <1>1, <1>7
<1>9. ASSUME NEW n \in 1 .. N
      PROVE  ServersTo(file)[n] = resolvConfParseLine(ServersTo(file)[n - 1], file[n])
  <2>1. n \in 0 .. N /\ n # 0
    BY <1>1
  <2> HIDE DEF N, z
  <2> QED BY <1>7, <2>1
<1>10. \A n \in 0 .. N : ServersTo(file)[n] \in V
  <2> DEFINE T == {n \in Nat : n <= N => ServersTo(file)[n] \in V}
  <2>1. 0 \in T
    <3>1. z \in V
      OBVIOUS
    <3> HIDE DEF V, z
    <3> QED BY <1>8, <3>1
  <2>2. ASSUME NEW n \in T PROVE n + 1 \in T
    <3> SUFFICES ASSUME n + 1 <= N PROVE ServersTo(file)[n + 1] \in V
      OBVIOUS
    <3>1. n \in Nat /\ ServersTo(file)[n] \in V /\ n + 1 \in 1 .. N /\ n + 1 - 1 = n
      BY <1>1
    <3> HIDE DEF V, N, T
    <3> QED BY <1>2, <1>9, <3>1
  <2>3. T = Nat
    <3>1. T \in SUBSET Nat
      OBVIOUS
    <3> HIDE DEF T
    <3> QED BY <2>1, <2>2, <3>1, NatSetInduction
  <2> QED BY <1>1, <2>3
<1> QED BY <1>8, <1>9, <1>10

(* The first name server of the file is asked, the built-in one if the     *)
(* file names none.                                                        *)
THEOREM FirstServerAsked ==
  ASSUME NEW file \in Seq(Seq(STRING))
  PROVE  AsksServer(file)
<1> DEFINE N == Len(file)
           named == {k \in 1 .. N : Len(file[k]) > 1 /\ file[k][1] = "nameserver"}
           Right(n) ==
             /\ (\A k \in named : k > n) => ServersTo(file)[n] = <<>>
             /\ \A k \in named : IsFirst(k, named) /\ k <= n =>
                  ServersTo(file)[n] # <<>> /\ ServersTo(file)[n][1] = file[k][2]
           T == {n \in Nat : n <= N => Right(n)}
<1>1. N \in Nat
  OBVIOUS
<1>2. 0 \in T
  BY <1>1, ServersLoop
<1>3. ASSUME NEW n \in T PROVE n + 1 \in T
  <2> HIDE DEF named, N, Right
  <2> SUFFICES ASSUME n + 1 <= N PROVE Right(n + 1)
    OBVIOUS
  <2> USE DEF named, N, Right
  <2>1. n \in Nat /\ Right(n) /\ n + 1 \in 1 .. N /\ n + 1 - 1 = n /\ n \in 0 .. N
    BY <1>1
  <2> DEFINE old == ServersTo(file)[n]
             new == ServersTo(file)[n + 1]
  <2>2. old \in Seq(STRING) /\ new = resolvConfParseLine(old, file[n + 1])
    BY <2>1, ServersLoop
  <2>3. \A k \in named : k \in 1 .. N
    OBVIOUS
  <2>4. CASE n + 1 \notin named
    <3>1. new = old
      BY <2>1, <2>2, <2>4 DEF resolvConfParseLine
    <3>2. \A k \in named : (k > n <=> k > n + 1) /\ (k <= n <=> k <= n + 1)
      <4> SUFFICES ASSUME NEW k \in named PROVE (k > n <=> k > n + 1) /\ (k <= n <=> k <= n + 1)
        OBVIOUS
      <4>1. k # n + 1 /\ k \in Nat
        BY <1>1, <2>3, <2>4
      <4> QED BY <2>1, <4>1
    <3> HIDE DEF named
    <3> QED BY <2>1, <3>1, <3>2
  <2>5. CASE n + 1 \in named
    <3>1. /\ Len(file[n + 1]) > 1 /\ file[n + 1][1] = "nameserver"
          /\ file[n + 1] \in Seq(STRING)
      BY <2>1, <2>5
    <3>2. new = Append(old, file[n + 1][2]) /\ file[n + 1][2] \in STRING
      BY <2>2, <3>1 DEF resolvConfParseLine
    <3>3. new # <<>> /\ (old # <<>> => new[1] = old[1]) /\ (old = <<>> => new[1] = file[n + 1][2])
      <4> HIDE DEF old, new
      <4> QED BY <2>2, <3>2
    <3>4. ASSUME NEW k \in named, IsFirst(k, named), k <= n + 1 PROVE new[1] = file[k][2]
      <4>1. CASE k <= n
        <5> HIDE DEF named, old, new
        <5> QED BY <2>1, <3>3, <3>4, <4>1 DEF old
      <4>2. CASE k = n + 1
        <5>1. \A j \in named : j > n
          <6> SUFFICES ASSUME NEW j \in named PROVE j > n
            OBVIOUS
          <6>1. j >= n + 1 /\ j \in Nat
            BY <1>1, <2>3, <3>4, <4>2 DEF IsFirst
          <6> QED BY <2>1, <6>1
        <5> HIDE DEF named, new
        <5> QED BY <2>1, <3>3, <4>2, <5>1
      <4>3. k \in Nat
        BY <1>1, <2>3
      <4> QED BY <2>1, <3>4, <4>1, <4>2, <4>3
    <3>5. ~(\A k \in named : k > n + 1)
      BY <2>1, <2>5
    <3> HIDE DEF named
    <3> QED BY <3>3, <3>4, <3>5
  <2> QED BY <2>4, <2>5
<1>4. N \in T
  <2>1. T \in SUBSET Nat
    OBVIOUS
  <2> HIDE DEF T, N
  <2> QED BY <1>1, <1>2, <1>3, <2>1, NatSetInduction
<1>5. Right(N)
  BY <1>1, <1>4
<1>6. ServersTo(file)[N] \in Seq(STRING)
  BY <1>1, ServersLoop
<1>7. named = {} => NameService(file)[1] = "223.5.5.5"
  <2> SUFFICES ASSUME named = {} PROVE NameService(file)[1] = "223.5.5.5"
    OBVIOUS
  <2>1. ServersTo(file)[N] = <<>>
    <3> HIDE DEF named
    <3> QED BY <1>5
  <2> QED BY <2>1 DEF NameService, checkDnsNameService
<1>8. ASSUME NEW k \in named, IsFirst(k, named) PROVE NameService(file)[1] = file[k][2]
  <2>1. k <= N
    BY <1>1
  <2>2. ServersTo(file)[N] # <<>> /\ ServersTo(file)[N][1] = file[k][2]
    <3> HIDE DEF named
    <3> QED BY <1>5, <1>8, <2>1
  <2> QED BY <2>2 DEF NameService, checkDnsNameService
<1> HIDE DEF N
<1> QED BY Zenon, <1>7, <1>8 DEF AsksServer, N

-----------------------------------------------------------------------------
(* An answer's records.                                                    *)

(* Records the walk can skip, and addresses.                               *)
DataLen(r) == Len(r.data)
Good(r) == r \in Record /\ (r.type = "A" => DataLen(r) = 4) /\ Skippable(r)
GoodChain(chain) == chain \in Seq(Record) /\ \A k \in 1 .. Len(chain) : Good(chain[k])

LEMMA RecordLayout ==
  ASSUME NEW r, Good(r)
  PROVE  /\ RecordBytes(r) \in Seq(Byte) /\ r.data \in Seq(Byte) /\ DataLen(r) \in 0 .. 127
         /\ Len(RecordBytes(r)) = 12 + DataLen(r)
         /\ RecordBytes(r)[11] = 0 /\ RecordBytes(r)[12] = DataLen(r)
         /\ \A k \in 1 .. DataLen(r) : RecordBytes(r)[12 + k] = r.data[k]
<1>1. r.data \in Seq(Byte) /\ r.type \in {"A", "CNAME", "AAAA"}
  BY DEF Good, Record
<1>2. DataLen(r) \in 0 .. 127
  <2>1. DataLen(r) \in Nat
    BY <1>1 DEF DataLen
  <2>2. r.type = "A" => DataLen(r) = 4
    BY DEF Good
  <2>3. r.type # "A" => DataLen(r) < 128
    BY DEF Good, Skippable, DataLen
  <2> QED BY <2>1, <2>2, <2>3
<1>3. TypeOf(r) \in Byte
  <2>1. r.type = "A" => TypeOf(r) = 1
    BY DEF TypeOf
  <2>2. r.type = "CNAME" => TypeOf(r) = 5
    BY DEF TypeOf
  <2>3. r.type = "AAAA" => TypeOf(r) = 28
    BY DEF TypeOf
  <2> HIDE DEF TypeOf
  <2>4. 1 \in Byte /\ 5 \in Byte /\ 28 \in Byte
    BY DEF Byte
  <2> QED BY Zenon, <1>1, <2>1, <2>2, <2>3, <2>4
<1>4. \A n \in 0 .. 127 : n \div 256 = 0 /\ n % 256 = n
  OBVIOUS
<1> DEFINE head == <<192, 12, 0, TypeOf(r), 0, 1, 0, 0, 0, 60, 0, DataLen(r)>>
<1>5. RecordBytes(r) = head \o r.data
  <2>1. DataLen(r) \div 256 = 0 /\ DataLen(r) % 256 = DataLen(r)
    BY Zenon, <1>2, <1>4
  <2> QED BY Zenon, <2>1 DEF RecordBytes, DataLen
<1>6. /\ head \in Seq(Byte) /\ Len(head) = 12
      /\ head[11] = 0 /\ head[12] = DataLen(r)
  <2>1. DataLen(r) \in Byte
    BY <1>2 DEF Byte
  <2>2. \A n \in {192, 12, 0, 1, 60} : n \in Byte
    BY DEF Byte
  <2> QED BY <1>3, <2>1, <2>2
<1> HIDE DEF head
<1> DEFINE P == head \o r.data
<1>7. /\ P \in Seq(Byte) /\ Len(P) = Len(head) + DataLen(r)
      /\ \A k \in 1 .. Len(head) : P[k] = head[k]
      /\ \A k \in 1 .. DataLen(r) : P[Len(head) + k] = r.data[k]
  BY <1>1, <1>6, Behind DEF DataLen
<1> HIDE DEF P
<1>8. P[11] = 0 /\ P[12] = DataLen(r)
  BY <1>6, <1>7
<1>9. P = RecordBytes(r)
  BY <1>5 DEF P
<1> QED BY <1>1, <1>2, <1>6, <1>7, <1>8, <1>9

LEMMA RecordsLoop ==
  ASSUME NEW chain, GoodChain(chain)
  PROVE  /\ \A n \in 0 .. Len(chain) : RecordsTo(chain)[n] \in Seq(Byte)
         /\ RecordsTo(chain)[0] = <<>>
         /\ \A n \in 1 .. Len(chain) :
              RecordsTo(chain)[n] = RecordsTo(chain)[n - 1] \o RecordBytes(chain[n])
<1> DEFINE N == Len(chain)
           V == Seq(Byte)
           z == <<>>
           G == [p \in (1 .. N) \X V |-> p[2] \o RecordBytes(chain[p[1]])]
<1>1. N \in Nat
  BY DEF GoodChain
<1>2. ASSUME NEW bytes \in V, NEW n \in 1 .. N
      PROVE  bytes \o RecordBytes(chain[n]) \in V
  BY RecordLayout, Behind DEF GoodChain
<1>3. z \in V
  OBVIOUS
<1>4. IsLoop(N, V, z, G)
  <2>1. G \in [(1 .. N) \X V -> V]
    <3> HIDE DEF V
    <3> QED BY <1>2
  <2> HIDE DEF N, V, z, G
  <2> QED BY <1>1, <1>3, <2>1 DEF IsLoop
<1>5. PICK f \in [0 .. N -> V] :
        \A n \in 0 .. N : f[n] = IF n = 0 THEN z ELSE G[<<n, f[n - 1]>>]
  <2> HIDE DEF N, V, z, G
  <2> QED BY <1>4, LoopWorks
<1>6. ASSUME NEW n \in 0 .. N
      PROVE  f[n] = IF n = 0 THEN z ELSE f[n - 1] \o RecordBytes(chain[n])
  <2>1. ASSUME n # 0 PROVE G[<<n, f[n - 1]>>] = f[n - 1] \o RecordBytes(chain[n])
    <3>1. n \in 1 .. N /\ n - 1 \in 0 .. N
      BY <1>1, <2>1
    <3>2. f[n - 1] \in V
      <4> HIDE DEF V
      <4> QED BY <3>1
    <3> HIDE DEF V, N
    <3> QED BY <3>1, <3>2
  <2> HIDE DEF G, V, z, N
  <2> QED BY <1>5, <2>1
<1>7. f = [n \in 0 .. N |-> IF n = 0 THEN z ELSE f[n - 1] \o RecordBytes(chain[n])]
  <2> HIDE DEF z, N, V, G
  <2> QED BY <1>6
<1>8. RecordsTo(chain) =
        [n \in 0 .. N |-> IF n = 0 THEN z ELSE RecordsTo(chain)[n - 1] \o RecordBytes(chain[n])]
  BY Zenon, <1>7 DEF RecordsTo
<1>9. RecordsTo(chain)[0] = z
  <2> HIDE DEF z
  <2> QED BY <1>1, <1>8
<1>10. ASSUME NEW n \in 1 .. N
       PROVE  RecordsTo(chain)[n] = RecordsTo(chain)[n - 1] \o RecordBytes(chain[n])
  <2>1. n \in 0 .. N /\ n # 0
    BY <1>1
  <2> HIDE DEF N, z
  <2> QED BY <1>8, <2>1
<1>11. \A n \in 0 .. N : RecordsTo(chain)[n] \in V
  <2> DEFINE T == {n \in Nat : n <= N => RecordsTo(chain)[n] \in V}
  <2>1. 0 \in T
    <3> HIDE DEF V, z
    <3> QED BY <1>3, <1>9
  <2>2. ASSUME NEW n \in T PROVE n + 1 \in T
    <3> SUFFICES ASSUME n + 1 <= N PROVE RecordsTo(chain)[n + 1] \in V
      OBVIOUS
    <3>1. n \in Nat /\ RecordsTo(chain)[n] \in V /\ n + 1 \in 1 .. N /\ n + 1 - 1 = n
      BY <1>1
    <3> HIDE DEF V, N, T
    <3> DEFINE to(k) == RecordsTo(chain)[k]
               with(s, k) == s \o RecordBytes(chain[k])
    <3>2. \A k \in 1 .. N : to(k) = with(to(k - 1), k)
      BY <1>10
    <3>3. \A k \in 1 .. N, bytes \in V : with(bytes, k) \in V
      BY <1>2
    <3>4. to(n) \in V
      BY <3>1
    <3> HIDE DEF to, with
    <3>5. to(n + 1) \in V
      BY <3>1, <3>2, <3>3, <3>4
    <3> QED BY <3>5 DEF to
  <2>3. T = Nat
    <3>1. T \in SUBSET Nat
      OBVIOUS
    <3> HIDE DEF T
    <3> QED BY <2>1, <2>2, <3>1, NatSetInduction
  <2> QED BY <1>1, <2>3
<1> QED BY <1>9, <1>10, <1>11

(* Where the first n records end.                                          *)
EndOf(chain, n) == Len(RecordsTo(chain)[n])

(* The records follow one another, and what has been written of them stays.*)
LEMMA RecordsGrow ==
  ASSUME NEW chain, GoodChain(chain), NEW n \in 1 .. Len(chain)
  PROVE  /\ EndOf(chain, n - 1) \in Nat /\ DataLen(chain[n]) \in 0 .. 127
         /\ EndOf(chain, n) = EndOf(chain, n - 1) + 12 + DataLen(chain[n])
         /\ \A j \in 1 .. EndOf(chain, n - 1) :
              RecordsTo(chain)[n][j] = RecordsTo(chain)[n - 1][j]
         /\ RecordsTo(chain)[n][EndOf(chain, n - 1) + 11] = 0
         /\ RecordsTo(chain)[n][EndOf(chain, n - 1) + 12] = DataLen(chain[n])
         /\ \A k \in 1 .. DataLen(chain[n]) :
              RecordsTo(chain)[n][EndOf(chain, n - 1) + (12 + k)] = chain[n].data[k]
<1> DEFINE old == RecordsTo(chain)[n - 1]
           r == chain[n]
           new == old \o RecordBytes(r)
<1>1. /\ n - 1 \in 0 .. Len(chain) /\ old \in Seq(Byte)
      /\ RecordsTo(chain)[n] = new
  <2>1. n - 1 \in 0 .. Len(chain)
    BY DEF GoodChain
  <2> QED BY <2>1, RecordsLoop
<1>2. Good(r)
  BY DEF GoodChain
<1>3. /\ RecordBytes(r) \in Seq(Byte) /\ DataLen(r) \in 0 .. 127
      /\ Len(RecordBytes(r)) = 12 + DataLen(r)
      /\ RecordBytes(r)[11] = 0 /\ RecordBytes(r)[12] = DataLen(r)
      /\ \A k \in 1 .. DataLen(r) : RecordBytes(r)[12 + k] = r.data[k]
  BY <1>2, RecordLayout
<1> HIDE DEF old, r
<1>4. /\ Len(new) = Len(old) + Len(RecordBytes(r)) /\ Len(old) \in Nat
      /\ \A k \in 1 .. Len(old) : new[k] = old[k]
      /\ \A k \in 1 .. Len(RecordBytes(r)) : new[Len(old) + k] = RecordBytes(r)[k]
  BY <1>1, <1>3, Behind
<1> HIDE DEF new
<1> DEFINE d == DataLen(r)
           lr == Len(RecordBytes(r))
<1>0. d \in 0 .. 127 /\ lr = 12 + d
  BY <1>3
<1> HIDE DEF d, lr
<1>5. new[Len(old) + 11] = 0 /\ new[Len(old) + 12] = DataLen(r)
  <2>1. 11 \in 1 .. lr /\ 12 \in 1 .. lr
    BY <1>0
  <2> QED BY <1>3, <1>4, <2>1 DEF lr
<1>6. ASSUME NEW k \in 1 .. d PROVE new[Len(old) + (12 + k)] = r.data[k]
  <2>1. 12 + k \in 1 .. lr
    BY <1>0
  <2> QED BY <1>3, <1>4, <2>1 DEF lr, d
<1>7. Len(new) = Len(old) + 12 + DataLen(r)
  <2>1. Len(new) = Len(old) + lr /\ Len(old) \in Nat
    BY <1>4 DEF lr
  <2>2. Len(new) = Len(old) + 12 + d
    BY <1>0, <2>1
  <2> QED BY <2>2 DEF d
<1> QED BY <1>1, <1>3, <1>4, <1>5, <1>6, <1>7 DEF EndOf, old, r, d

LEMMA RecordsStay ==
  ASSUME NEW chain, GoodChain(chain), NEW b \in 0 .. Len(chain)
  PROVE  /\ EndOf(chain, b) \in Nat /\ EndOf(chain, b) >= b
         /\ \A a \in 0 .. b :
              /\ EndOf(chain, a) <= EndOf(chain, b) /\ EndOf(chain, a) \in Nat
              /\ \A j \in 1 .. EndOf(chain, a) : RecordsTo(chain)[b][j] = RecordsTo(chain)[a][j]
<1> DEFINE Stay(c) ==
             /\ EndOf(chain, c) \in Nat /\ EndOf(chain, c) >= c
             /\ \A a \in 0 .. c :
                  /\ EndOf(chain, a) <= EndOf(chain, c) /\ EndOf(chain, a) \in Nat
                  /\ \A j \in 1 .. EndOf(chain, a) :
                       RecordsTo(chain)[c][j] = RecordsTo(chain)[a][j]
           T == {c \in Nat : c <= Len(chain) => Stay(c)}
<1>1. Len(chain) \in Nat
  BY DEF GoodChain
<1>2. 0 \in T
  <2>1. EndOf(chain, 0) = 0
    <3>1. RecordsTo(chain)[0] = <<>>
      BY RecordsLoop
    <3> QED BY <3>1 DEF EndOf
  <2>2. \A a \in 0 .. 0 : a = 0
    OBVIOUS
  <2> QED BY <2>1, <2>2
<1>3. ASSUME NEW c \in T PROVE c + 1 \in T
  <2> SUFFICES ASSUME c + 1 <= Len(chain) PROVE Stay(c + 1)
    OBVIOUS
  <2>1. c \in Nat /\ Stay(c) /\ c + 1 \in 1 .. Len(chain) /\ c + 1 - 1 = c
    BY <1>1
  <2>2. /\ DataLen(chain[c + 1]) \in 0 .. 127
        /\ EndOf(chain, c + 1) = EndOf(chain, c) + 12 + DataLen(chain[c + 1])
        /\ \A j \in 1 .. EndOf(chain, c) :
             RecordsTo(chain)[c + 1][j] = RecordsTo(chain)[c][j]
    BY <2>1, RecordsGrow
  <2>3. /\ EndOf(chain, c + 1) \in Nat /\ EndOf(chain, c + 1) >= c + 1
        /\ EndOf(chain, c) <= EndOf(chain, c + 1)
    <3> DEFINE d == DataLen(chain[c + 1])
               e == EndOf(chain, c)
               f == EndOf(chain, c + 1)
    <3>1. d \in 0 .. 127 /\ f = e + 12 + d /\ e \in Nat /\ e >= c /\ c \in Nat
      BY <2>1, <2>2
    <3> HIDE DEF d, e, f, T
    <3>2. f \in Nat /\ f >= c + 1 /\ e <= f
      BY <3>1
    <3> QED BY <3>2 DEF e, f
  <2>4. ASSUME NEW a \in 0 .. c + 1
        PROVE  /\ EndOf(chain, a) <= EndOf(chain, c + 1) /\ EndOf(chain, a) \in Nat
               /\ \A j \in 1 .. EndOf(chain, a) :
                    RecordsTo(chain)[c + 1][j] = RecordsTo(chain)[a][j]
    <3>1. CASE a = c + 1
      BY <2>3, <3>1
    <3>2. CASE a \in 0 .. c
      <4>1. /\ EndOf(chain, a) <= EndOf(chain, c) /\ EndOf(chain, a) \in Nat
            /\ \A j \in 1 .. EndOf(chain, a) : RecordsTo(chain)[c][j] = RecordsTo(chain)[a][j]
        BY <2>1, <3>2
      <4>2. \A j \in 1 .. EndOf(chain, a) : j \in 1 .. EndOf(chain, c)
        BY <2>1, <4>1
      <4>3. EndOf(chain, a) <= EndOf(chain, c + 1)
        BY <2>1, <2>3, <4>1
      <4> QED BY <2>2, <4>1, <4>2, <4>3
    <3> QED BY <2>1, <3>1, <3>2
  <2> QED BY <2>3, <2>4
<1>4. b \in T
  <2>1. T \in SUBSET Nat /\ b \in Nat
    BY <1>1
  <2> HIDE DEF T
  <2> QED BY <1>2, <1>3, <2>1, NatSetInduction
<1> QED BY <1>1, <1>4

-----------------------------------------------------------------------------
(* ResponseParse's second walk.                                            *)
LEMMA RecordWalkRule ==
  ASSUME NEW p \in Seq(Byte)
  PROVE  \A n \in 0 .. Len(p), i \in Int :
           RecordWalk(p)[n][i] =
             IF n = 0 \/ Stops(p, i) THEN i ELSE RecordWalk(p)[n - 1][NextRecord(p, i)]
<1> DEFINE N == Len(p)
           E == {i \in Int : Stops(p, i)}
           step == [i \in Int |-> IF Stops(p, i) THEN i ELSE NextRecord(p, i)]
<1>1. IsWalk(N, E, step)
  <2>1. ASSUME NEW i \in Int, ~Stops(p, i) PROVE NextRecord(p, i) \in Int
    <3>1. i + 11 \in 1 .. Len(p) /\ i + 12 \in 1 .. Len(p)
      BY <2>1 DEF Stops, Inside
    <3>2. p[i + 11] \in Byte /\ p[i + 12] \in Byte
      BY <3>1
    <3>3. i + 10 + 1 = i + 11 /\ i + 11 + 1 = i + 12
      OBVIOUS
    <3>4. At0(p, i + 10) \in Byte /\ At0(p, i + 11) \in Byte
      BY <3>2, <3>3 DEF At0
    <3>5. \A b \in Byte : Signed(b) \in Int /\ b \in Int
      BY DEF Byte, Signed
    <3>6. RdLen(p, i) \in Int
      BY <3>4, <3>5 DEF RdLen
    <3> QED BY <3>6 DEF NextRecord
  <2>2. step \in [Int -> Int]
    BY <2>1
  <2>3. N \in Nat
    OBVIOUS
  <2> HIDE DEF N, E, step
  <2> QED BY <2>2, <2>3 DEF IsWalk
<1>2. PICK f \in [0 .. N -> [Int -> Int]] :
        \A n \in 0 .. N, i \in Int :
          f[n][i] = IF n = 0 \/ i \in E THEN i ELSE f[n - 1][step[i]]
  <2> HIDE DEF N, E, step
  <2> QED BY <1>1, WalkWorks
<1>3. ASSUME NEW n \in 0 .. N, NEW i \in Int
      PROVE  f[n][i] = IF n = 0 \/ Stops(p, i) THEN i ELSE f[n - 1][NextRecord(p, i)]
  <2>1. i \in E <=> Stops(p, i)
    OBVIOUS
  <2>2. ~Stops(p, i) => step[i] = NextRecord(p, i)
    OBVIOUS
  <2> HIDE DEF N, E, step
  <2> QED BY <1>2, <2>1, <2>2
<1>4. f = [n \in 0 .. N |->
             [i \in Int |-> IF n = 0 \/ Stops(p, i) THEN i ELSE f[n - 1][NextRecord(p, i)]]]
  <2>1. ASSUME NEW n \in 0 .. N
        PROVE  f[n] = [i \in Int |-> IF n = 0 \/ Stops(p, i) THEN i
                                     ELSE f[n - 1][NextRecord(p, i)]]
    <3>1. f[n] \in [Int -> Int]
      OBVIOUS
    <3> QED BY <1>3, <3>1
  <2> HIDE DEF N
  <2> QED BY <2>1
<1>5. RecordWalk(p) = [n \in 0 .. N |->
             [i \in Int |-> IF n = 0 \/ Stops(p, i) THEN i
                            ELSE RecordWalk(p)[n - 1][NextRecord(p, i)]]]
  BY Zenon, <1>4 DEF RecordWalk
<1>6. ASSUME NEW n \in 0 .. N
      PROVE  RecordWalk(p)[n] = [i \in Int |-> IF n = 0 \/ Stops(p, i) THEN i
                                ELSE RecordWalk(p)[n - 1][NextRecord(p, i)]]
  BY Zenon, <1>5
<1>7. ASSUME NEW n \in 0 .. N, NEW i \in Int
      PROVE  RecordWalk(p)[n][i] = IF n = 0 \/ Stops(p, i) THEN i
                            ELSE RecordWalk(p)[n - 1][NextRecord(p, i)]
  <2> DEFINE to(j) == IF n = 0 \/ Stops(p, j) THEN j ELSE RecordWalk(p)[n - 1][NextRecord(p, j)]
  <2>1. RecordWalk(p)[n] = [j \in Int |-> to(j)]
    BY Zenon, <1>6
  <2> HIDE DEF to
  <2>2. RecordWalk(p)[n][i] = to(i)
    BY <2>1
  <2> QED BY Zenon, <2>2 DEF to
<1> QED BY Zenon, <1>7

(* p is the answer of the name server: query and records.                  *)
IsAnswer(p, query, chain) ==
  GoodChain(chain) /\ query \in Seq(Byte) /\ p = Response(query, chain)

LEMMA AnswerLayout ==
  ASSUME NEW p, NEW query, NEW chain, IsAnswer(p, query, chain)
  PROVE  /\ Repeats(p, query)
         /\ Len(query) \in Nat /\ EndOf(chain, Len(chain)) \in Nat
         /\ Len(p) = Len(query) + EndOf(chain, Len(chain))
         /\ \A k \in 1 .. EndOf(chain, Len(chain)) :
              p[Len(query) + k] = RecordsTo(chain)[Len(chain)][k]
<1> DEFINE R == RecordsTo(chain)[Len(chain)]
<1>1. Len(chain) \in 0 .. Len(chain)
  BY DEF IsAnswer, GoodChain
<1>2. R \in Seq(Byte)
  BY <1>1, RecordsLoop DEF IsAnswer
<1>3. p = query \o R /\ EndOf(chain, Len(chain)) = Len(R) /\ query \in Seq(Byte)
  BY DEF IsAnswer, Response, EndOf
<1> HIDE DEF R
<1>4. /\ query \o R \in Seq(Byte) /\ Len(query \o R) = Len(query) + Len(R)
      /\ Len(query) \in Nat /\ Len(R) \in Nat
      /\ \A k \in 1 .. Len(query) : (query \o R)[k] = query[k]
      /\ \A k \in 1 .. Len(R) : (query \o R)[Len(query) + k] = R[k]
  BY <1>2, <1>3, Behind
<1>5. Len(query \o R) >= Len(query)
  BY <1>4
<1> QED BY Zenon, <1>3, <1>4, <1>5 DEF Repeats, R

(* Where the n-th record ends in the answer, and the next one begins.      *)
Place(query, chain, n) == Len(query) + EndOf(chain, n)

(* At a record that is there the walk reads its length, and its data.      *)
LEMMA RecordSteps ==
  ASSUME NEW p, NEW query, NEW chain, IsAnswer(p, query, chain), NEW n \in 1 .. Len(chain)
  PROVE  /\ Place(query, chain, n - 1) \in Nat /\ Place(query, chain, n) \in Nat
         /\ Place(query, chain, n) <= Len(p)
         /\ Place(query, chain, n) = Place(query, chain, n - 1) + 12 + DataLen(chain[n])
         /\ DataLen(chain[n]) \in 0 .. 127
         /\ RdLen(p, Place(query, chain, n - 1)) = DataLen(chain[n])
         /\ \A k \in 1 .. DataLen(chain[n]) :
              p[Place(query, chain, n - 1) + (12 + k)] = chain[n].data[k]
<1> DEFINE B == Len(query)
           M == Len(chain)
           d == DataLen(chain[n])
           e == EndOf(chain, n - 1)
           f == EndOf(chain, n)
           g == EndOf(chain, M)
           R == RecordsTo(chain)
<1>0. GoodChain(chain)
  BY DEF IsAnswer
<1>1. M \in Nat /\ n \in Nat /\ n \in 0 .. M /\ M \in 0 .. M
  BY <1>0 DEF GoodChain
<1>2. /\ B \in Nat /\ g \in Nat /\ Len(p) = B + g
      /\ \A k \in 1 .. g : p[B + k] = R[M][k]
  BY AnswerLayout
<1>3. f <= g /\ f \in Nat /\ \A j \in 1 .. f : R[M][j] = R[n][j]
  BY <1>0, <1>1, RecordsStay
<1>4. /\ e \in Nat /\ d \in 0 .. 127 /\ f = e + 12 + d
      /\ R[n][e + 11] = 0 /\ R[n][e + 12] = d
      /\ \A k \in 1 .. d : R[n][e + (12 + k)] = chain[n].data[k]
  BY <1>0, RecordsGrow
<1> DEFINE P == Place(query, chain, n - 1)
<1>5. P = B + e /\ Place(query, chain, n) = B + f
  BY DEF Place
<1> HIDE DEF B, M, d, e, f, g, R, P
<1>a. /\ B \in Nat /\ g \in Nat /\ e \in Nat /\ d \in 0 .. 127 /\ f = e + 12 + d
      /\ f <= g /\ P = B + e
  BY Zenon, <1>2, <1>3, <1>4, <1>5
<1>6. ASSUME NEW j \in 1 .. 12 + d PROVE p[P + j] = R[n][e + j]
  <2>1. e + j \in 1 .. f /\ e + j \in 1 .. g /\ P + j = B + (e + j)
    BY <1>a
  <2>2. p[B + (e + j)] = R[M][e + j]
    BY <1>2, <2>1
  <2>3. R[M][e + j] = R[n][e + j]
    BY <1>3, <2>1
  <2> QED BY <2>1, <2>2, <2>3
<1>7. RdLen(p, P) = d
  <2>1. 11 \in 1 .. 12 + d /\ 12 \in 1 .. 12 + d
    BY <1>a
  <2>2. p[P + 11] = 0 /\ p[P + 12] = d
    BY <1>4, <1>6, <2>1
  <2>3. P + 10 + 1 = P + 11 /\ P + 11 + 1 = P + 12
    BY <1>a
  <2>4. At0(p, P + 10) = 0 /\ At0(p, P + 11) = d
    BY <2>2, <2>3 DEF At0
  <2>5. Signed(0) = 0
    BY DEF Signed
  <2>6. \A v \in 0 .. 127 : v < 128 /\ 256 * 0 + v = v
    OBVIOUS
  <2>7. d < 128 /\ 256 * 0 + d = d
    BY <1>a, <2>6
  <2> QED BY Zenon, <2>4, <2>5, <2>7 DEF RdLen
<1>8. ASSUME NEW k \in 1 .. d PROVE p[P + (12 + k)] = chain[n].data[k]
  <2>1. 12 + k \in 1 .. 12 + d
    BY <1>a
  <2>2. p[P + (12 + k)] = R[n][e + (12 + k)]
    BY <1>6, <2>1
  <2> QED BY <1>4, <2>2
<1>9. /\ P \in Nat /\ B + f \in Nat /\ B + f <= Len(p) /\ B + f = P + 12 + d
  <2>1. Len(p) = B + g
    BY <1>2
  <2> QED BY <1>a, <2>1
<1>10. d \in 0 .. 127
  BY <1>a
<1> QED BY <1>5, <1>7, <1>8, <1>9, <1>10 DEF P, d

(* From a record the walk either stops or, if it is no address, goes on to *)
(* where the next record is; behind the last it stops.                     *)
LEMMA RecordWalkGoesOn ==
  ASSUME NEW p, NEW query, NEW chain, IsAnswer(p, query, chain), NEW k \in 0 .. Len(chain),
         ~Stops(p, Place(query, chain, k))
  PROVE  /\ k + 1 \in 1 .. Len(chain) /\ chain[k + 1].type # "A"
         /\ NextRecord(p, Place(query, chain, k)) = Place(query, chain, k + 1)
<1>1. Len(chain) \in Nat /\ GoodChain(chain)
  BY DEF IsAnswer, GoodChain
<1>2. k # Len(chain)
  <2> SUFFICES ASSUME k = Len(chain) PROVE FALSE
    OBVIOUS
  <2>1. Place(query, chain, k) = Len(p)
    BY AnswerLayout DEF Place
  <2> QED BY <2>1 DEF Stops, Inside
<1>3. k + 1 \in 1 .. Len(chain) /\ k + 1 - 1 = k
  BY <1>1, <1>2
<1>4. /\ Place(query, chain, k + 1) = Place(query, chain, k) + 12 + DataLen(chain[k + 1])
      /\ RdLen(p, Place(query, chain, k)) = DataLen(chain[k + 1])
  BY <1>3, RecordSteps
<1>5. chain[k + 1].type # "A"
  <2>1. DataLen(chain[k + 1]) # 4
    BY <1>4 DEF Stops
  <2> QED BY <1>1, <1>3, <2>1 DEF GoodChain, Good
<1> QED BY Zenon, <1>3, <1>4, <1>5 DEF NextRecord

(* The walk over records comes to rest at a record, or behind the last,    *)
(* and no record before it is an address.                                  *)
RestsAt(p, query, chain, i, j) ==
  /\ i = Place(query, chain, j) /\ Stops(p, i)
  /\ \A h \in 1 .. j : chain[h].type # "A"

LEMMA RecordWalkStops ==
  ASSUME NEW p, NEW query, NEW chain, IsAnswer(p, query, chain)
  PROVE  \E j \in 0 .. Len(chain) :
           RestsAt(p, query, chain, SkipRecords(p, Len(query)), j)
<1> DEFINE M == Len(chain)
           At(k) == Place(query, chain, k)
           NoneTo(k) == \A h \in 1 .. k : chain[h].type # "A"
           Rests(i) == \E j \in 0 .. M : RestsAt(p, query, chain, i, j)
           T == {m \in Nat : \A k \in 0 .. M, n \in 0 .. Len(p) :
                   M - k <= m /\ m <= n /\ NoneTo(k) => Rests(RecordWalk(p)[n][At(k)])}
<1>0. M \in Nat /\ GoodChain(chain)
  BY DEF IsAnswer, GoodChain
<1>1. p \in Seq(Byte) /\ Len(p) \in Nat
  BY AnswerLayout DEF Repeats
<1>2. ASSUME NEW k \in 0 .. M PROVE At(k) \in Int
  <2>1. EndOf(chain, k) \in Nat /\ Len(query) \in Nat
    BY <1>0, RecordsStay, AnswerLayout
  <2> QED BY <2>1 DEF Place
<1>3. ASSUME NEW k \in 0 .. M, NEW n \in 0 .. Len(p), NoneTo(k), Stops(p, At(k))
      PROVE  Rests(RecordWalk(p)[n][At(k)])
  <2>1. RecordWalk(p)[n][At(k)] = At(k)
    <3> HIDE DEF At
    <3> QED BY <1>1, <1>2, <1>3, RecordWalkRule
  <2> QED BY <1>3, <2>1 DEF RestsAt
<1>4. 0 \in T
  <2> SUFFICES ASSUME NEW k \in 0 .. M, NEW n \in 0 .. Len(p), M - k <= 0, NoneTo(k)
               PROVE  Rests(RecordWalk(p)[n][At(k)])
    OBVIOUS
  <2>1. ~(k + 1 \in 1 .. M)
    BY <1>0
  <2>2. Stops(p, At(k))
    BY <2>1, RecordWalkGoesOn
  <2> QED BY <1>3, <2>2
<1>5. ASSUME NEW m \in T PROVE m + 1 \in T
  <2>0. m \in Nat
    OBVIOUS
  <2> HIDE DEF Rests, NoneTo, At, M
  <2> SUFFICES ASSUME NEW k \in 0 .. M, NEW n \in 0 .. Len(p),
                      M - k <= m + 1, m + 1 <= n, NoneTo(k)
               PROVE  Rests(RecordWalk(p)[n][At(k)])
    OBVIOUS
  <2> USE DEF Rests, NoneTo, At, M
  <2>1. CASE Stops(p, At(k))
    BY <1>3, <2>1
  <2>2. CASE ~Stops(p, At(k))
    <3>1. k + 1 \in 1 .. M /\ chain[k + 1].type # "A" /\ NextRecord(p, At(k)) = At(k + 1)
      BY <2>2, RecordWalkGoesOn
    <3>2. /\ m \in Nat /\ n # 0 /\ n - 1 \in 0 .. Len(p) /\ k + 1 \in 0 .. M
          /\ M - (k + 1) <= m /\ m <= n - 1
      <4> HIDE DEF T, M, At, NoneTo
      <4> QED BY <1>0, <1>1, <2>0, <3>1
    <3>3. RecordWalk(p)[n][At(k)] = RecordWalk(p)[n - 1][At(k + 1)]
      <4>1. At(k) \in Int
        BY <1>2
      <4> HIDE DEF At
      <4> QED BY <1>1, <2>2, <3>1, <3>2, <4>1, RecordWalkRule
    <3>4. NoneTo(k + 1)
      BY <1>0, <3>1
    <3>5. Rests(RecordWalk(p)[n - 1][At(k + 1)])
      <4> HIDE DEF At, NoneTo, Rests
      <4> QED BY <3>2, <3>4
    <3> HIDE DEF Rests, At
    <3> QED BY <3>3, <3>5
  <2> QED BY <2>1, <2>2
<1>6. M \in T
  <2>1. T \in SUBSET Nat
    OBVIOUS
  <2> HIDE DEF T, M
  <2> QED BY <1>0, <1>4, <1>5, <2>1, NatSetInduction
<1>7. M <= Len(p) /\ Len(p) \in 0 .. Len(p)
  <2>1. /\ EndOf(chain, M) \in Nat /\ EndOf(chain, M) >= M
    BY <1>0, RecordsStay
  <2>2. Len(p) = Len(query) + EndOf(chain, M) /\ Len(query) \in Nat
    BY AnswerLayout
  <2> QED BY <1>0, <1>1, <2>1, <2>2
<1>8. At(0) = Len(query)
  <2>0. RecordsTo(chain)[0] = <<>>
    BY <1>0, RecordsLoop
  <2>1. EndOf(chain, 0) = 0
    BY <2>0 DEF EndOf
  <2>2. Len(query) \in Nat
    BY AnswerLayout
  <2> QED BY <2>1, <2>2 DEF Place
<1>9. 0 \in 0 .. M /\ M - 0 <= M /\ NoneTo(0)
  BY <1>0
<1>10. Rests(RecordWalk(p)[Len(p)][At(0)])
  <2> HIDE DEF Rests, NoneTo, At, M
  <2> QED BY <1>6, <1>7, <1>9
<1> HIDE DEF At
<1> QED BY Zenon, <1>8, <1>10 DEF SkipRecords

-----------------------------------------------------------------------------
(* What ResponseParse finds in the answer to a lookup.                     *)

Adds(chain) == {k \in 1 .. Len(chain) : chain[k].type = "A"}

LEMMA ParseFindsFirst ==
  ASSUME NEW name \in Seq(Byte), HostName(name), NEW chain, GoodChain(chain)
  PROVE  LET result == ResponseParse(Response(RequestConstruct(name), chain))
         IN  /\ Adds(chain) = {} => result = [ret |-> "failed"]
             /\ \A k \in Adds(chain) : IsFirst(k, Adds(chain)) =>
                  result = [ret |-> "ok", ip |-> chain[k].data]
<1> DEFINE query == RequestConstruct(name)
           p == Response(query, chain)
           M == Len(chain)
           At(k) == Place(query, chain, k)
           stop == SkipRecords(p, Len(query))
<1>1. IsAnswer(p, query, chain)
  BY QueryType DEF IsAnswer
<1>2. SkipName(p) = Len(name) + 13
  BY <1>1, AnswerLayout, NameWalkStops
<1>3. Inside(p, SkipName(p)) /\ NameEnds(p, SkipName(p))
  BY <1>1, <1>2, AnswerLayout, NameEndsAtZero DEF NameEnds
<1>4. SkipName(p) + 5 = Len(query)
  <2>1. Len(query) = Len(name) + 18 /\ Len(name) \in Nat
    BY QueryType
  <2> QED BY <1>2, <2>1
<1>5. PICK j \in 0 .. M : RestsAt(p, query, chain, stop, j)
  BY <1>1, RecordWalkStops
<1>6. ResponseParse(p) =
        IF ~Inside(p, stop) \/ ~Inside(p, stop + 12) THEN [ret |-> "failed"]
        ELSE [ret |-> "ok", ip |-> SubSeq(p, stop + 13, stop + 16)]
  <2> HIDE DEF p, query
  <2> QED BY <1>3, <1>4, <1>5 DEF ResponseParse, RestsAt
<1> HIDE DEF p, query, stop
<1>7. M \in Nat /\ \A k \in 1 .. M : Good(chain[k])
  BY DEF GoodChain
<1>8. stop = At(j) /\ Stops(p, stop) /\ \A h \in 1 .. j : chain[h].type # "A"
  BY <1>5 DEF RestsAt
<1>9. p \in Seq(Byte) /\ Len(p) \in Nat
  BY <1>1, AnswerLayout DEF Repeats
<1>10. ASSUME Adds(chain) = {} PROVE ~Inside(p, stop) \/ ~Inside(p, stop + 12)
  <2>1. CASE j = M
    <3>1. stop = Len(p)
      BY <1>1, <1>8, <2>1, AnswerLayout DEF Place
    <3> QED BY <1>9, <3>1 DEF Inside
  <2>2. CASE j # M
    <3>1. j + 1 \in 1 .. M /\ j + 1 - 1 = j
      BY <1>7, <2>2
    <3>2. RdLen(p, stop) = DataLen(chain[j + 1])
      BY <1>1, <1>8, <3>1, RecordSteps
    <3>3. chain[j + 1].type # "A"
      BY <1>10, <3>1 DEF Adds
    <3>4. DataLen(chain[j + 1]) # 4
      BY <1>7, <3>1, <3>3 DEF Good, Skippable, DataLen
    <3> QED BY <1>8, <3>2, <3>4 DEF Stops
  <2> QED BY <2>1, <2>2
<1>11. ASSUME NEW k \in Adds(chain), IsFirst(k, Adds(chain))
       PROVE  /\ Inside(p, stop) /\ Inside(p, stop + 12)
              /\ SubSeq(p, stop + 13, stop + 16) = chain[k].data
  <2>1. k \in 1 .. M /\ chain[k].type = "A" /\ \A h \in 1 .. M : chain[h].type = "A" => k <= h
    BY <1>11 DEF Adds, IsFirst
  <2>2. DataLen(chain[k]) = 4 /\ chain[k].data \in Seq(Byte)
    BY <1>7, <2>1, RecordLayout DEF Good
  <2>3. /\ At(k - 1) \in Nat /\ At(k) = At(k - 1) + 12 + 4 /\ At(k) <= Len(p)
        /\ \A h \in 1 .. 4 : p[At(k - 1) + (12 + h)] = chain[k].data[h]
    <3>1. /\ At(k - 1) \in Nat /\ At(k) \in Nat /\ At(k) <= Len(p)
          /\ At(k) = At(k - 1) + 12 + DataLen(chain[k])
          /\ \A h \in 1 .. DataLen(chain[k]) :
               p[At(k - 1) + (12 + h)] = chain[k].data[h]
      BY <1>1, <2>1, RecordSteps
    <3> HIDE DEF At
    <3> QED BY Zenon, <2>2, <3>1
  <2>4. j <= k - 1
    <3> SUFFICES ASSUME j >= k PROVE FALSE
      BY <1>7, <2>1
    <3>1. k \in 1 .. j
      BY <1>7, <2>1
    <3> QED BY <1>8, <2>1, <3>1
  <2>5. j = k - 1
    <3> SUFFICES ASSUME j < k - 1 PROVE FALSE
      BY <1>7, <2>1, <2>4
    <3>1. j + 1 \in 1 .. M /\ j + 1 - 1 = j /\ ~(k <= j + 1)
      BY <1>7, <2>1
    <3>2. /\ RdLen(p, stop) = DataLen(chain[j + 1]) /\ DataLen(chain[j + 1]) \in 0 .. 127
          /\ At(j) \in Nat /\ At(j + 1) = At(j) + 12 + DataLen(chain[j + 1])
      BY <1>1, <1>8, <3>1, RecordSteps
    <3>3. DataLen(chain[j + 1]) # 4
      <4>1. chain[j + 1].type # "A"
        BY <2>1, <3>1
      <4> QED BY <1>7, <3>1, <4>1 DEF Good, Skippable, DataLen
    <3>4. At(j + 1) <= At(k - 1)
      <4>1. k - 1 \in 0 .. M /\ j + 1 \in 0 .. k - 1
        BY <1>7, <2>1, <3>1
      <4>2. EndOf(chain, j + 1) <= EndOf(chain, k - 1) /\ EndOf(chain, j + 1) \in Nat
            /\ EndOf(chain, k - 1) \in Nat
        BY <4>1, RecordsStay
      <4>3. Len(query) \in Nat
        BY <1>1, AnswerLayout
      <4> QED BY <4>2, <4>3 DEF Place
    <3> DEFINE d == DataLen(chain[j + 1])
               a == At(j)
               b == At(j + 1)
               c == At(k - 1)
               e == At(k)
    <3>5. /\ d \in 0 .. 127 /\ a \in Nat /\ b = a + 12 + d /\ b <= c /\ c \in Nat
          /\ e = c + 12 + 4 /\ e <= Len(p)
      BY <2>3, <3>2, <3>4
    <3>6. stop = a
      BY <1>8
    <3> HIDE DEF d, a, b, c, e, At
    <3>7. 0 <= a /\ a < Len(p) /\ 0 <= a + 12 /\ a + 12 < Len(p)
      BY <1>9, <3>5
    <3>8. Inside(p, stop) /\ Inside(p, stop + 12)
      BY <3>6, <3>7 DEF Inside
    <3> QED BY <1>8, <3>2, <3>3, <3>8 DEF Stops
  <2>6. /\ stop \in Nat /\ stop + 12 + 4 <= Len(p)
        /\ \A h \in 1 .. 4 : p[stop + (12 + h)] = chain[k].data[h]
    <3>1. stop = At(k - 1)
      BY Zenon, <1>8, <2>5
    <3> HIDE DEF At
    <3> QED BY <2>3, <3>1
  <2>7. Inside(p, stop) /\ Inside(p, stop + 12)
    BY <1>9, <2>6 DEF Inside
  <2>8. SubSeq(p, stop + 13, stop + 16) = chain[k].data
    <3> DEFINE s == SubSeq(p, stop + 13, stop + 16)
    <3>1. stop + 13 \in 1 .. Len(p) /\ stop + 16 \in 1 .. Len(p)
      BY <1>9, <2>6
    <3>2. Len(s) = 4 /\ s \in Seq(Byte) /\ \A h \in 1 .. 4 : s[h] = p[stop + 13 + h - 1]
      <4>1. \A i \in stop + 13 .. stop + 16 : p[i] \in Byte
        <5>1. \A i \in stop + 13 .. stop + 16 : i \in 1 .. Len(p)
          BY <1>9, <2>6
        <5> QED BY <1>9, <5>1
      <4>2. stop + 16 - (stop + 13) + 1 = 4 /\ stop + 13 <= stop + 16 + 1
        BY <2>6
      <4> QED BY <1>9, <2>6, <3>1, <4>1, <4>2, SubSeqProperties
    <3> HIDE DEF s
    <3>3. \A h \in 1 .. 4 : s[h] = chain[k].data[h]
      <4> SUFFICES ASSUME NEW h \in 1 .. 4 PROVE s[h] = chain[k].data[h]
        OBVIOUS
      <4>1. stop + 13 + h - 1 = stop + (12 + h)
        BY <2>6
      <4> QED BY <2>6, <3>2, <4>1
    <3>4. s = chain[k].data
      <4>1. Len(chain[k].data) = 4
        BY <2>2 DEF DataLen
      <4>2. s \in Seq(Byte) /\ chain[k].data \in Seq(Byte) /\ Len(s) = 4
        BY <2>2, <3>2
      <4> QED BY Zenon, <3>3, <4>1, <4>2, SeqEqual
    <3> QED BY <3>4 DEF s
  <2> QED BY <2>7, <2>8
<1>12. Adds(chain) = {} => ResponseParse(p) = [ret |-> "failed"]
  BY <1>6, <1>10
<1>13. \A k \in Adds(chain) : IsFirst(k, Adds(chain)) =>
         ResponseParse(p) = [ret |-> "ok", ip |-> chain[k].data]
  BY <1>6, <1>11
<1> QED BY <1>12, <1>13 DEF p, query

-----------------------------------------------------------------------------
(* intToStr's decimals and %d.                                             *)

LEMMA DecimalRule ==
  /\ \A n \in Nat : Decimal[n] \in Seq(Digit)
  /\ \A n \in Nat : Decimal[n] = IF n < 10 THEN <<Zero + n>>
                                 ELSE Append(Decimal[n \div 10], Zero + (n % 10))
<1> DEFINE V == Seq(Digit)
           z == <<Zero + 0>>
           add(n, v) == IF n < 10 THEN <<Zero + n>> ELSE Append(v, Zero + (n % 10))
           G == [p \in Nat \X V |-> add(p[1], p[2])]
           h == [n \in Nat |-> IF n = 0 THEN 0 ELSE n \div 10]
<1>1. ASSUME NEW n \in Nat, NEW v \in V PROVE add(n, v) \in V
  <2>1. n < 10 => Zero + n \in Digit
    BY DEF Digit, Zero
  <2>2. Zero + (n % 10) \in Digit
    <3>1. n % 10 \in 0 .. 9
      OBVIOUS
    <3> QED BY <3>1 DEF Digit, Zero
  <2> HIDE DEF Digit, Zero
  <2> QED BY <2>1, <2>2
<1>2. z \in V
  <2>1. Zero + 0 \in Digit
    BY DEF Digit, Zero
  <2> QED BY <2>1
<1>3. h \in [Nat -> Nat] /\ \A n \in Nat \ {0} : h[n] < n
  <2>1. \A n \in Nat \ {0} : n \div 10 \in Nat /\ n \div 10 < n
    OBVIOUS
  <2> QED BY <2>1
<1>4. IsRule(V, z, G, h)
  <2>1. G \in [Nat \X V -> V]
    <3> HIDE DEF add, V
    <3> QED BY <1>1
  <2> HIDE DEF V, z, G, h
  <2> QED BY <1>2, <1>3, <2>1 DEF IsRule
<1>5. PICK f \in [Nat -> V] : \A n \in Nat : f[n] = IF n = 0 THEN z ELSE G[<<n, f[h[n]]>>]
  <2> HIDE DEF V, z, G, h
  <2> QED BY <1>4, RecursionWorks
<1>6. ASSUME NEW n \in Nat
      PROVE  f[n] = IF n < 10 THEN <<Zero + n>> ELSE Append(f[n \div 10], Zero + (n % 10))
  <2>1. CASE n = 0
    <3>1. f[n] = z
      <4> HIDE DEF V, z, G, h
      <4> QED BY <1>5, <2>1
    <3> QED BY <2>1, <3>1
  <2>2. CASE n # 0
    <3>1. h[n] = n \div 10 /\ h[n] \in Nat
      BY <1>3, <2>2
    <3>2. f[h[n]] \in V
      <4> HIDE DEF V, h
      <4> QED BY <3>1
    <3>3. f[n] = G[<<n, f[h[n]]>>]
      <4> HIDE DEF V, z, G, h
      <4> QED BY <1>5, <2>2
    <3>4. f[n] = add(n, f[n \div 10])
      <4> HIDE DEF add, V, h
      <4> QED BY <3>1, <3>2, <3>3
    <3> QED BY <3>4
  <2> QED BY <2>1, <2>2
<1>7. f = [n \in Nat |-> IF n < 10 THEN <<Zero + n>>
                         ELSE Append(f[n \div 10], Zero + (n % 10))]
  <2> HIDE DEF V, z, G, h
  <2> QED BY <1>6
<1>8. Decimal = [n \in Nat |-> IF n < 10 THEN <<Zero + n>>
                               ELSE Append(Decimal[n \div 10], Zero + (n % 10))]
  BY Zenon, <1>7 DEF Decimal
<1>9. ASSUME NEW n \in Nat
      PROVE  Decimal[n] = IF n < 10 THEN <<Zero + n>>
                          ELSE Append(Decimal[n \div 10], Zero + (n % 10))
  BY Zenon, <1>8
<1>10. \A n \in Nat : Decimal[n] \in V
  <2> DEFINE T == {n \in Nat : Decimal[n] \in V}
  <2>1. ASSUME NEW n \in Nat, \A m \in Nat : m < n => m \in T PROVE n \in T
    <3>1. CASE n < 10
      <4>1. Decimal[n] = <<Zero + n>>
        BY <1>9, <3>1
      <4>2. Zero + n \in Digit
        BY <3>1 DEF Digit, Zero
      <4>3. <<Zero + n>> \in Seq(Digit)
        BY <4>2
      <4> QED BY <4>1, <4>3
    <3>2. CASE ~(n < 10)
      <4>1. n \div 10 \in Nat /\ n \div 10 < n
        BY <3>2
      <4>2. Decimal[n \div 10] \in V
        <5> HIDE DEF V
        <5> QED BY <2>1, <4>1
      <4>3. Decimal[n] = add(n, Decimal[n \div 10])
        <5> HIDE DEF V
        <5> QED BY <1>9, <3>2
      <4> HIDE DEF V, add
      <4> QED BY <1>1, <4>2, <4>3
    <3> QED BY <3>1, <3>2
  <2>2. T \in SUBSET Nat
    OBVIOUS
  <2>3. T = Nat
    <3> HIDE DEF T
    <3> QED BY <2>1, <2>2, NatSetStrongInduction
  <2> QED BY <2>3
<1> QED BY <1>9, <1>10

LEMMA NumberLoop ==
  ASSUME NEW field \in Seq(Digit)
  PROVE  /\ \A n \in 0 .. Len(field) : NumberTo(field)[n] \in Int
         /\ NumberTo(field)[0] = 0
         /\ \A n \in 1 .. Len(field) :
              NumberTo(field)[n] = 10 * NumberTo(field)[n - 1] + (field[n] - Zero)
<1> DEFINE N == Len(field)
           V == Int
           z == 0
           G == [p \in (1 .. N) \X V |-> 10 * p[2] + (field[p[1]] - Zero)]
<1>1. N \in Nat
  OBVIOUS
<1>2. ASSUME NEW v \in V, NEW n \in 1 .. N PROVE 10 * v + (field[n] - Zero) \in V
  <2>1. field[n] \in Digit
    OBVIOUS
  <2>2. \A d \in Digit : d - Zero \in Int
    BY DEF Digit, Zero
  <2> QED BY <2>1, <2>2
<1>3. z \in V
  OBVIOUS
<1>4. IsLoop(N, V, z, G)
  <2>1. G \in [(1 .. N) \X V -> V]
    <3> HIDE DEF N
    <3> QED BY <1>2
  <2> HIDE DEF N, V, z, G
  <2> QED BY <1>1, <1>3, <2>1 DEF IsLoop
<1>5. PICK f \in [0 .. N -> V] :
        \A n \in 0 .. N : f[n] = IF n = 0 THEN z ELSE G[<<n, f[n - 1]>>]
  <2> HIDE DEF N, V, z, G
  <2> QED BY <1>4, LoopWorks
<1>6. ASSUME NEW n \in 0 .. N
      PROVE  f[n] = IF n = 0 THEN z ELSE 10 * f[n - 1] + (field[n] - Zero)
  <2>1. ASSUME n # 0 PROVE G[<<n, f[n - 1]>>] = 10 * f[n - 1] + (field[n] - Zero)
    <3>1. n \in 1 .. N /\ n - 1 \in 0 .. N
      BY <1>1, <2>1
    <3>2. f[n - 1] \in V
      <4> HIDE DEF V
      <4> QED BY <3>1
    <3> HIDE DEF V, N
    <3> QED BY <3>1, <3>2
  <2> HIDE DEF G, V, z, N
  <2> QED BY <1>5, <2>1
<1>7. f = [n \in 0 .. N |-> IF n = 0 THEN z ELSE 10 * f[n - 1] + (field[n] - Zero)]
  <2> HIDE DEF z, N, V, G
  <2> QED BY <1>6
<1>8. NumberTo(field) =
        [n \in 0 .. N |-> IF n = 0 THEN z ELSE 10 * NumberTo(field)[n - 1] + (field[n] - Zero)]
  BY Zenon, <1>7 DEF NumberTo
<1>9. NumberTo(field)[0] = z
  <2> HIDE DEF z
  <2> QED BY <1>1, <1>8
<1>10. ASSUME NEW n \in 1 .. N
       PROVE  NumberTo(field)[n] = 10 * NumberTo(field)[n - 1] + (field[n] - Zero)
  <2>1. n \in 0 .. N /\ n # 0
    BY <1>1
  <2> HIDE DEF N, z
  <2> QED BY <1>8, <2>1
<1>11. \A n \in 0 .. N : NumberTo(field)[n] \in V
  <2> DEFINE T == {n \in Nat : n <= N => NumberTo(field)[n] \in V}
  <2>1. 0 \in T
    BY <1>9
  <2>2. ASSUME NEW n \in T PROVE n + 1 \in T
    <3> SUFFICES ASSUME n + 1 <= N PROVE NumberTo(field)[n + 1] \in V
      OBVIOUS
    <3>1. n \in Nat /\ NumberTo(field)[n] \in V /\ n + 1 \in 1 .. N /\ n + 1 - 1 = n
      BY <1>1
    <3> HIDE DEF V, N, T
    <3>2. NumberTo(field)[n + 1] = 10 * NumberTo(field)[n] + (field[n + 1] - Zero)
      BY <1>10, <3>1
    <3> QED BY <1>2, <3>1, <3>2
  <2>3. T = Nat
    <3>1. T \in SUBSET Nat
      OBVIOUS
    <3> HIDE DEF T
    <3> QED BY <2>1, <2>2, <3>1, NatSetInduction
  <2> QED BY <1>1, <2>3
<1> QED BY <1>9, <1>10, <1>11

(* One more digit.                                                         *)
LEMMA NumberAppend ==
  ASSUME NEW field \in Seq(Digit), NEW x \in 0 .. 9
  PROVE  Number(Append(field, Zero + x)) = 10 * Number(field) + x
<1> DEFINE N == Len(field)
           d == Zero + x
           more == Append(field, d)
           T == {n \in Nat : n <= N => NumberTo(more)[n] = NumberTo(field)[n]}
<1>0. d \in Digit /\ d - Zero = x
  BY DEF Digit, Zero
<1> HIDE DEF d
<1>1. /\ N \in Nat /\ more \in Seq(Digit) /\ Len(more) = N + 1 /\ more[N + 1] = d
      /\ \A n \in 1 .. N : more[n] = field[n]
  BY <1>0
<1> HIDE DEF more, N
<1>2. 0 \in T
  BY <1>1, NumberLoop
<1>a. \A n \in 1 .. N + 1 :
        NumberTo(more)[n] = 10 * NumberTo(more)[n - 1] + (more[n] - Zero)
  BY Zenon, <1>1, NumberLoop
<1>3. ASSUME NEW n \in T PROVE n + 1 \in T
  <2> SUFFICES ASSUME n + 1 <= N PROVE NumberTo(more)[n + 1] = NumberTo(field)[n + 1]
    OBVIOUS
  <2>1. /\ n \in Nat /\ NumberTo(more)[n] = NumberTo(field)[n] /\ n + 1 - 1 = n
        /\ n + 1 \in 1 .. N /\ n + 1 \in 1 .. N + 1
    BY <1>1
  <2>2. NumberTo(more)[n + 1] = 10 * NumberTo(more)[n] + (more[n + 1] - Zero)
    <3> HIDE DEF T
    <3>1. NumberTo(more)[n + 1] = 10 * NumberTo(more)[n + 1 - 1] + (more[n + 1] - Zero)
      BY <1>a, <2>1
    <3>2. n + 1 - 1 = n
      BY <2>1
    <3> QED BY Zenon, <3>1, <3>2
  <2>3. NumberTo(field)[n + 1] = 10 * NumberTo(field)[n] + (field[n + 1] - Zero)
    BY <2>1, NumberLoop DEF N
  <2>4. more[n + 1] = field[n + 1]
    BY <1>1, <2>1
  <2> QED BY Zenon, <2>1, <2>2, <2>3, <2>4
<1>4. N \in T
  <2>1. T \in SUBSET Nat
    OBVIOUS
  <2> HIDE DEF T
  <2> QED BY <1>1, <1>2, <1>3, <2>1, NatSetInduction
<1>5. NumberTo(more)[N + 1] = 10 * NumberTo(more)[N] + (more[N + 1] - Zero)
  <2>1. N + 1 \in 1 .. N + 1 /\ N + 1 - 1 = N
    BY <1>1
  <2>2. PICK c \in 1 .. N + 1 : c = N + 1
    BY <2>1
  <2>3. NumberTo(more)[c] = 10 * NumberTo(more)[c - 1] + (more[c] - Zero)
    BY Zenon, <1>a
  <2>4. c - 1 = N
    BY <1>1, <2>2
  <2> QED BY Zenon, <2>2, <2>3, <2>4
<1>6. NumberTo(more)[N] = NumberTo(field)[N]
  BY <1>1, <1>4
<1> QED BY Zenon, <1>0, <1>1, <1>5, <1>6 DEF Number, N, more, d

(* %d reads back the number that was written.                              *)
LEMMA NumberOfDecimal ==
  ASSUME NEW n \in Nat
  PROVE  Decimal[n] \in Seq(Digit) /\ Decimal[n] # <<>> /\ Number(Decimal[n]) = n
<1> DEFINE T == {m \in Nat : Number(Decimal[m]) = m}
<1>1. \A m \in Nat : Decimal[m] \in Seq(Digit)
  BY DecimalRule
<1>2. ASSUME NEW m \in Nat, \A k \in Nat : k < m => k \in T PROVE m \in T
  <2>1. CASE m < 10
    <3>1. Decimal[m] = <<Zero + m>>
      BY <2>1, DecimalRule
    <3>2. <<Zero + m>> = Append(<<>>, Zero + m) /\ Zero + m \in Digit /\ <<>> \in Seq(Digit)
      BY <2>1 DEF Digit, Zero
    <3>3. Number(<<>>) = 0
      <4>1. Len(<<>>) = 0
        OBVIOUS
      <4>2. NumberTo(<<>>)[0] = 0
        BY Zenon, <3>2, NumberLoop
      <4> QED BY Zenon, <4>1, <4>2 DEF Number
    <3>4. Number(Append(<<>>, Zero + m)) = 10 * Number(<<>>) + m
      <4>1. m \in 0 .. 9
        BY <2>1
      <4> QED BY <3>2, <4>1, NumberAppend
    <3>5. Number(Append(<<>>, Zero + m)) = m
      BY <3>3, <3>4
    <3> QED BY Zenon, <3>1, <3>2, <3>5
  <2>2. CASE ~(m < 10)
    <3> DEFINE q == m \div 10
               r == m % 10
    <3>1. q \in Nat /\ q < m /\ r \in 0 .. 9 /\ 10 * q + r = m
      BY <2>2
    <3>2. Decimal[m] = Append(Decimal[q], Zero + r)
      BY <2>2, DecimalRule
    <3> HIDE DEF q, r
    <3>3. Number(Decimal[q]) = q /\ Decimal[q] \in Seq(Digit)
      BY <1>1, <1>2, <3>1
    <3>4. Number(Append(Decimal[q], Zero + r)) = 10 * Number(Decimal[q]) + r
      BY <3>1, <3>3, NumberAppend
    <3>5. Number(Decimal[m]) = 10 * q + r
      BY Zenon, <3>2, <3>3, <3>4
    <3> QED BY Zenon, <3>1, <3>5
  <2> QED BY <2>1, <2>2
<1>3. T = Nat
  <2>1. T \in SUBSET Nat
    OBVIOUS
  <2> HIDE DEF T
  <2> QED BY <1>2, <2>1, NatSetStrongInduction
<1>4. Decimal[n] # <<>>
  <2>1. CASE n < 10
    <3>1. Decimal[n] = <<Zero + n>>
      BY <2>1, DecimalRule
    <3> QED BY <3>1
  <2>2. CASE ~(n < 10)
    <3>1. n \div 10 \in Nat
      OBVIOUS
    <3>2. Decimal[n] = Append(Decimal[n \div 10], Zero + (n % 10))
      BY <2>2, DecimalRule
    <3>3. Decimal[n \div 10] \in Seq(Digit)
      BY <1>1, <3>1
    <3> QED BY <3>2, <3>3
  <2> QED BY <2>1, <2>2
<1> QED BY <1>1, <1>3, <1>4

-----------------------------------------------------------------------------
(* Four numbers between dots.                                              *)

Char == Digit \cup {Dot}

LEMMA CharType ==
  /\ Dot \in Char /\ Dot \notin Digit /\ Digit \subseteq Char
  /\ Seq(Digit) \subseteq Seq(Char) /\ Seq(Char) \subseteq Seq(Byte)
<1>1. Char \subseteq Byte /\ Dot \notin Digit
  BY DEF Char, Digit, Dot, Zero, Byte
<1>2. Dot \in Char /\ Digit \subseteq Char
  BY DEF Char
<1>3. Seq(Digit) \subseteq Seq(Char)
  BY <1>2
<1>4. Seq(Char) \subseteq Seq(Byte)
  BY <1>1
<1> QED BY <1>1, <1>2, <1>3, <1>4

(* part stands in text behind the first a characters, as a field.          *)
IsField(text, a, part) ==
  /\ part \in Seq(Digit) /\ part # <<>> /\ text \in Seq(Char)
  /\ a \in Nat /\ a + Len(part) <= Len(text)
  /\ \A k \in 1 .. Len(part) : text[a + k] = part[k]

(* A field with a dot or the end behind it is what DotAfter delimits.      *)
LEMMA FieldIs ==
  ASSUME NEW text, NEW a, NEW part, IsField(text, a, part),
         a + Len(part) = Len(text) \/ text[a + Len(part) + 1] = Dot
  PROVE  /\ DotAfter(text, a) = a + Len(part) + 1
         /\ SubSeq(text, a + 1, DotAfter(text, a) - 1) = part
<1> DEFINE l == Len(part)
           b == a + l + 1
<1>1. /\ text \in Seq(Byte) /\ Len(text) \in Nat /\ a \in 0 .. Len(text) /\ l \in Nat
      /\ a + l <= Len(text) /\ a \in Nat
  BY CharType DEF IsField
<1>2. ASSUME NEW h \in a + 1 .. b - 1
      PROVE  text[h] \in Digit /\ text[h] = part[h - a]
  <2>1. h - a \in 1 .. l /\ a + (h - a) = h
    BY <1>1
  <2>2. text[a + (h - a)] = part[h - a] /\ part[h - a] \in Digit
    BY <2>1 DEF IsField
  <2> QED BY <2>1, <2>2
<1>3. IsDotAfter(text, a, b)
  <2>1. b \in a + 1 .. Len(text) + 1 /\ (b = Len(text) + 1 \/ text[b] = Dot)
    BY <1>1
  <2>2. \A h \in a + 1 .. b - 1 : text[h] # Dot
    BY <1>2, CharType
  <2> HIDE DEF b
  <2> QED BY <2>1, <2>2 DEF IsDotAfter
<1>4. DotAfter(text, a) = b
  BY <1>1, <1>3, DotAfterIs
<1>5. SubSeq(text, a + 1, b - 1) = part
  <2> DEFINE s == SubSeq(text, a + 1, b - 1)
  <2>1. a + 1 \in Int /\ b - 1 \in Int /\ b - 1 - (a + 1) + 1 = l
        /\ (a + 1 <= b - 1 <=> l > 0)
    BY <1>1
  <2>2. /\ s \in Seq(Digit) /\ Len(s) = (IF a + 1 <= b - 1 THEN b - 1 - (a + 1) + 1 ELSE 0)
        /\ \A i \in 1 .. b - 1 - (a + 1) + 1 : s[i] = text[a + 1 + i - 1]
    BY <1>2, <2>1, SubSeqProperties
  <2>3. Len(s) = l
    <3> HIDE DEF s, b, l
    <3> QED BY <1>1, <2>1, <2>2
  <2>4. ASSUME NEW i \in 1 .. l PROVE s[i] = part[i]
    <3>1. a + 1 + i - 1 = a + i /\ i \in 1 .. b - 1 - (a + 1) + 1
      BY <1>1, <2>1
    <3>2. s[i] = text[a + i]
      <4> HIDE DEF s, b
      <4> QED BY <2>2, <3>1
    <3> QED BY <3>2 DEF IsField
  <2>5. part \in Seq(Digit)
    BY DEF IsField
  <2> HIDE DEF s
  <2>6. s = part
    BY <2>2, <2>3, <2>4, <2>5, SeqEqual
  <2> QED BY <2>6 DEF s
<1> QED BY <1>4, <1>5

(* What is written stays, what is written behind it is at its end.         *)
LEMMA WriteBehind ==
  ASSUME NEW s \in Seq(Char), NEW t \in Seq(Char)
  PROVE  /\ s \o t \in Seq(Char) /\ Len(s \o t) = Len(s) + Len(t)
         /\ Len(s) \in Nat /\ Len(t) \in Nat
         /\ \A k \in 1 .. Len(s) : (s \o t)[k] = s[k]
         /\ \A k \in 1 .. Len(t) : (s \o t)[Len(s) + k] = t[k]
BY Behind, CharType, ConcatProperties

LEMMA FieldStays ==
  ASSUME NEW text, NEW a, NEW part, IsField(text, a, part), NEW t \in Seq(Char)
  PROVE  IsField(text \o t, a, part)
<1> DEFINE more == text \o t
           l == Len(part)
<1>1. /\ text \in Seq(Char) /\ a \in Nat /\ l \in Nat /\ a + l <= Len(text)
      /\ part \in Seq(Digit) /\ part # <<>>
  BY DEF IsField
<1>2. /\ more \in Seq(Char) /\ Len(more) = Len(text) + Len(t)
      /\ Len(text) \in Nat /\ Len(t) \in Nat
      /\ \A k \in 1 .. Len(text) : more[k] = text[k]
  BY <1>1, WriteBehind
<1> HIDE DEF more
<1>3. ASSUME NEW k \in 1 .. l PROVE more[a + k] = part[k]
  <2>1. a + k \in 1 .. Len(text)
    BY <1>1, <1>2
  <2> QED BY <1>2, <2>1 DEF IsField
<1>4. a + l <= Len(more)
  BY <1>1, <1>2
<1> QED BY <1>1, <1>2, <1>3, <1>4 DEF IsField, more

(* The next field and its dot.                                             *)
LEMMA FieldAdded ==
  ASSUME NEW text \in Seq(Char), NEW part \in Seq(Digit), part # <<>>
  PROVE  /\ IsField(text \o part, Len(text), part)
         /\ Len(text \o part) = Len(text) + Len(part)
         /\ text \o part \in Seq(Char)
<1>1. part \in Seq(Char)
  BY CharType
<1>2. /\ text \o part \in Seq(Char) /\ Len(text \o part) = Len(text) + Len(part)
      /\ Len(text) \in Nat /\ Len(part) \in Nat
      /\ \A k \in 1 .. Len(part) : (text \o part)[Len(text) + k] = part[k]
  BY <1>1, WriteBehind
<1> QED BY <1>2 DEF IsField

LEMMA DotAdded ==
  ASSUME NEW text \in Seq(Char)
  PROVE  /\ text \o <<Dot>> \in Seq(Char)
         /\ Len(text \o <<Dot>>) = Len(text) + 1 /\ (text \o <<Dot>>)[Len(text) + 1] = Dot
<1>1. <<Dot>> \in Seq(Char) /\ Len(<<Dot>>) = 1 /\ <<Dot>>[1] = Dot
  BY CharType
<1> QED BY <1>1, WriteBehind

(* The dot behind a field.                                                 *)
Dotted(text, a, part) ==
  /\ IsField(text, a, part)
  /\ a + Len(part) + 1 <= Len(text) /\ text[a + Len(part) + 1] = Dot

LEMMA DottedStays ==
  ASSUME NEW text, NEW a, NEW part, Dotted(text, a, part), NEW t \in Seq(Char)
  PROVE  Dotted(text \o t, a, part)
<1>1. IsField(text \o t, a, part)
  BY FieldStays DEF Dotted
<1>2. /\ text \in Seq(Char) /\ a \in Nat /\ Len(part) \in Nat
      /\ a + Len(part) + 1 <= Len(text) /\ text[a + Len(part) + 1] = Dot
  BY DEF Dotted, IsField
<1>3. /\ Len(text \o t) = Len(text) + Len(t) /\ Len(text) \in Nat /\ Len(t) \in Nat
      /\ \A k \in 1 .. Len(text) : (text \o t)[k] = text[k]
  BY <1>2, WriteBehind
<1>5. (text \o t)[a + Len(part) + 1] = Dot
  <2> DEFINE k == a + Len(part) + 1
  <2>1. k \in 1 .. Len(text)
    BY <1>2, <1>3
  <2> HIDE DEF k
  <2>2. (text \o t)[k] = text[k]
    BY <1>3, <2>1
  <2> QED BY Zenon, <1>2, <2>2 DEF k
<1>4. a + Len(part) + 1 <= Len(text \o t)
  BY <1>2, <1>3
<1> QED BY <1>1, <1>4, <1>5 DEF Dotted

LEMMA DottedAdded ==
  ASSUME NEW text \in Seq(Char), NEW part \in Seq(Digit), part # <<>>
  PROVE  /\ text \o part \o <<Dot>> \in Seq(Char)
         /\ Len(text \o part \o <<Dot>>) = Len(text) + Len(part) + 1
         /\ Dotted(text \o part \o <<Dot>>, Len(text), part)
<1> DEFINE u == text \o part
           w == u \o <<Dot>>
<1>1. /\ IsField(u, Len(text), part) /\ Len(u) = Len(text) + Len(part) /\ u \in Seq(Char)
  BY FieldAdded
<1> HIDE DEF u
<1>2. w \in Seq(Char) /\ Len(w) = Len(u) + 1 /\ w[Len(u) + 1] = Dot
  BY <1>1, DotAdded
<1>3. IsField(w, Len(text), part)
  <2>1. <<Dot>> \in Seq(Char)
    BY CharType
  <2> QED BY <1>1, <2>1, FieldStays
<1> HIDE DEF w
<1>4. Dotted(w, Len(text), part)
  <2>1. Len(text) + Len(part) + 1 <= Len(w)
    <3>1. Len(text) \in Nat /\ Len(part) \in Nat
      OBVIOUS
    <3> QED BY <1>1, <1>2, <3>1
  <2> QED BY <1>1, <1>2, <1>3, <2>1 DEF Dotted
<1> QED BY <1>1, <1>2, <1>4 DEF w, u

(* Four fields between three dots are the fields sscanf reads.             *)
Address(s1, s2, s3, s4) == s1 \o <<Dot>> \o s2 \o <<Dot>> \o s3 \o <<Dot>> \o s4

LEMMA FieldsAre ==
  ASSUME NEW s1 \in Seq(Digit), s1 # <<>>, NEW s2 \in Seq(Digit), s2 # <<>>,
         NEW s3 \in Seq(Digit), s3 # <<>>, NEW s4 \in Seq(Digit), s4 # <<>>
  PROVE  /\ Address(s1, s2, s3, s4) \in Seq(Char)
         /\ Fields(Address(s1, s2, s3, s4)) = <<s1, s2, s3, s4>>
<1> DEFINE text == Address(s1, s2, s3, s4)
           t1 == s1 \o <<Dot>>
           t2 == t1 \o s2 \o <<Dot>>
           t3 == t2 \o s3 \o <<Dot>>
           t4 == t3 \o s4
           a1 == Len(s1) + 1
           a2 == a1 + Len(s2) + 1
           a3 == a2 + Len(s3) + 1
<1>0. /\ s1 \in Seq(Char) /\ s2 \in Seq(Char) /\ s3 \in Seq(Char) /\ s4 \in Seq(Char)
      /\ <<Dot>> \in Seq(Char)
  BY CharType
<1>1. t1 \in Seq(Char) /\ Len(t1) = a1 /\ Dotted(t1, 0, s1)
  <2>1. <<>> \in Seq(Char) /\ <<>> \o s1 = s1 /\ Len(<<>>) = 0 /\ Len(s1) \in Nat
    BY ConcatEmptySeq
  <2>2. /\ <<>> \o s1 \o <<Dot>> \in Seq(Char)
        /\ Len(<<>> \o s1 \o <<Dot>>) = Len(<<>>) + Len(s1) + 1
        /\ Dotted(<<>> \o s1 \o <<Dot>>, Len(<<>>), s1)
    BY <2>1, DottedAdded
  <2>3. 0 + Len(s1) + 1 = a1
    BY <2>1
  <2> QED BY Zenon, <2>1, <2>2, <2>3
<1> HIDE DEF t1
<1>2. t2 \in Seq(Char) /\ Len(t2) = a2 /\ Dotted(t2, 0, s1) /\ Dotted(t2, a1, s2)
  <2>1. t2 \in Seq(Char) /\ Len(t2) = Len(t1) + Len(s2) + 1 /\ Dotted(t2, Len(t1), s2)
    BY <1>1, DottedAdded
  <2>2. t1 \o s2 \in Seq(Char) /\ Dotted(t1 \o s2, 0, s1)
    BY <1>0, <1>1, DottedStays, WriteBehind
  <2>3. Dotted(t2, 0, s1)
    BY <1>0, <2>2, DottedStays
  <2> QED BY Zenon, <1>1, <2>1, <2>3
<1> HIDE DEF t2
<1>3. /\ t3 \in Seq(Char) /\ Len(t3) = a3
      /\ Dotted(t3, 0, s1) /\ Dotted(t3, a1, s2) /\ Dotted(t3, a2, s3)
  <2>1. t3 \in Seq(Char) /\ Len(t3) = Len(t2) + Len(s3) + 1 /\ Dotted(t3, Len(t2), s3)
    BY <1>2, DottedAdded
  <2>2. t2 \o s3 \in Seq(Char) /\ Dotted(t2 \o s3, 0, s1) /\ Dotted(t2 \o s3, a1, s2)
    BY <1>0, <1>2, DottedStays, WriteBehind
  <2>3. Dotted(t3, 0, s1) /\ Dotted(t3, a1, s2)
    BY <1>0, <2>2, DottedStays
  <2> QED BY Zenon, <1>2, <2>1, <2>3
<1> HIDE DEF t3
<1>4. /\ t4 \in Seq(Char) /\ a3 + Len(s4) = Len(t4) /\ IsField(t4, a3, s4)
      /\ Dotted(t4, 0, s1) /\ Dotted(t4, a1, s2) /\ Dotted(t4, a2, s3)
  <2>1. t4 \in Seq(Char) /\ Len(t4) = Len(t3) + Len(s4) /\ IsField(t4, Len(t3), s4)
    BY <1>3, FieldAdded
  <2>2. Dotted(t4, 0, s1) /\ Dotted(t4, a1, s2) /\ Dotted(t4, a2, s3)
    BY <1>0, <1>3, DottedStays
  <2> QED BY Zenon, <1>3, <2>1, <2>2
<1>5. text = t4
  BY DEF t1, t2, t3, Address
<1> HIDE DEF t4, text
<1>6. DotAfter(text, 0) = a1 /\ SubSeq(text, 1, a1 - 1) = s1
  <2>1. /\ DotAfter(text, 0) = 0 + Len(s1) + 1
        /\ SubSeq(text, 0 + 1, DotAfter(text, 0) - 1) = s1
    BY Zenon, <1>4, <1>5, FieldIs DEF Dotted
  <2>2. 0 + Len(s1) + 1 = a1 /\ 0 + 1 = 1
    OBVIOUS
  <2> QED BY Zenon, <2>1, <2>2
<1>7. DotAfter(text, a1) = a2 /\ SubSeq(text, a1 + 1, a2 - 1) = s2
  <2> HIDE DEF a1
  <2>1. /\ IsField(text, a1, s2) /\ text[a1 + Len(s2) + 1] = Dot
    BY Zenon, <1>4, <1>5 DEF Dotted
  <2> QED BY Zenon, <2>1, FieldIs
<1>8. DotAfter(text, a2) = a3 /\ SubSeq(text, a2 + 1, a3 - 1) = s3
  <2> HIDE DEF a2
  <2>1. /\ IsField(text, a2, s3) /\ text[a2 + Len(s3) + 1] = Dot
    BY Zenon, <1>4, <1>5 DEF Dotted
  <2> QED BY Zenon, <2>1, FieldIs
<1>9. SubSeq(text, a3 + 1, DotAfter(text, a3) - 1) = s4
  <2> HIDE DEF a3
  <2>1. /\ IsField(text, a3, s4) /\ a3 + Len(s4) = Len(text)
    BY Zenon, <1>4, <1>5
  <2> QED BY Zenon, <2>1, FieldIs
<1> HIDE DEF a1, a2, a3
<1>10. Fields(text) = <<s1, s2, s3, s4>>
  BY Zenon, <1>6, <1>7, <1>8, <1>9 DEF Fields
<1> QED BY Zenon, <1>4, <1>5, <1>10 DEF text

(* The text of an address is one connectIp takes, and it says its bytes.   *)
THEOREM TextSays ==
  ASSUME NEW ip \in Seq(Byte), Len(ip) = 4
  PROVE  /\ IpValid(intToStr(ip))
         /\ [n \in 1 .. 4 |-> Number(Fields(intToStr(ip))[n])] = ip
<1>0. 1 .. Len(ip) = 1 .. 4 /\ \A k \in 1 .. Len(ip) : ip[k] \in Byte
  <2>1. \A k \in 1 .. Len(ip) : ip[k] \in Byte
    BY Zenon, ElementOfSeq
  <2> QED BY <2>1
<1> DEFINE text == intToStr(ip)
           s(n) == Decimal[ip[n]]
<1>1. ASSUME NEW n \in 1 .. 4
      PROVE  /\ ip[n] \in 0 .. 255 /\ s(n) \in Seq(Digit) /\ s(n) # <<>>
             /\ Number(s(n)) = ip[n]
  <2>1. ip[n] \in Byte
    BY Zenon, <1>0
  <2>2. \A v \in Byte : v \in 0 .. 255 /\ v \in Nat
    BY DEF Byte
  <2>3. ip[n] \in 0 .. 255 /\ ip[n] \in Nat
    BY Zenon, <2>1, <2>2
  <2> QED BY <2>3, NumberOfDecimal
<1>2. 1 \in 1 .. 4 /\ 2 \in 1 .. 4 /\ 3 \in 1 .. 4 /\ 4 \in 1 .. 4
  OBVIOUS
<1>3. text = Address(s(1), s(2), s(3), s(4))
  BY DEF intToStr, Address
<1> HIDE DEF text, s
<1>4. text \in Seq(Char) /\ Fields(text) = <<s(1), s(2), s(3), s(4)>>
  <2>1. /\ s(1) \in Seq(Digit) /\ s(2) \in Seq(Digit) /\ s(3) \in Seq(Digit) /\ s(4) \in Seq(Digit)
        /\ s(1) # <<>> /\ s(2) # <<>> /\ s(3) # <<>> /\ s(4) # <<>>
    <3>1. \A n \in 1 .. 4 : s(n) \in Seq(Digit) /\ s(n) # <<>>
      BY Zenon, <1>1
    <3> QED BY Zenon, <1>2, <3>1
  <2>2. /\ Address(s(1), s(2), s(3), s(4)) \in Seq(Char)
        /\ Fields(Address(s(1), s(2), s(3), s(4))) = <<s(1), s(2), s(3), s(4)>>
    BY <2>1, FieldsAre
  <2> QED BY Zenon, <1>3, <2>2
<1>5. ASSUME NEW n \in 1 .. 4 PROVE Fields(text)[n] = s(n)
  <2>1. n = 1 \/ n = 2 \/ n = 3 \/ n = 4
    OBVIOUS
  <2>2. <<s(1), s(2), s(3), s(4)>>[n] = s(n)
    BY <2>1
  <2> QED BY Zenon, <1>4, <2>2
<1>6. \A k \in 1 .. Len(text) : text[k] \in Digit \cup {Dot}
  <2>1. \A k \in 1 .. Len(text) : text[k] \in Char
    BY <1>4
  <2> QED BY Zenon, <2>1 DEF Char
<1>7. \A n \in 1 .. 4 : Fields(text)[n] # <<>> /\ Number(Fields(text)[n]) <= 255
  <2> SUFFICES ASSUME NEW n \in 1 .. 4
               PROVE  Fields(text)[n] # <<>> /\ Number(Fields(text)[n]) <= 255
    OBVIOUS
  <2>1. Number(Fields(text)[n]) = ip[n] /\ Fields(text)[n] # <<>>
    BY Zenon, <1>1, <1>5
  <2>2. \A v \in 0 .. 255 : v <= 255
    OBVIOUS
  <2>3. ip[n] <= 255
    BY Zenon, <1>1, <2>2
  <2> QED BY Zenon, <2>1, <2>3
<1>8. IpValid(text)
  BY Zenon, <1>6, <1>7 DEF IpValid
<1>9. [n \in 1 .. 4 |-> Number(Fields(text)[n])] = ip
  <2>1. \A n \in 1 .. 4 : Number(Fields(text)[n]) = ip[n]
    BY Zenon, <1>1, <1>5
  <2>2. ip = [n \in 1 .. 4 |-> ip[n]]
    OBVIOUS
  <2> QED BY <2>1, <2>2
<1> QED BY Zenon, <1>8, <1>9 DEF text

-----------------------------------------------------------------------------
(* A lookup of a host name, answered with records the walk can skip, leads *)
(* to the first address, in a text connectIp takes, and to a failure if    *)
(* the answer has none.  ResponseParse always returns from such an answer. *)
THEOREM AnswerLeads ==
  ASSUME NEW name \in Seq(Byte), HostName(name), NEW chain, GoodChain(chain)
  PROVE  LeadsTo(Response(RequestConstruct(name), chain), chain)
<1> DEFINE answer == Response(RequestConstruct(name), chain)
           result == ResponseParse(answer)
<1>1. /\ Adds(chain) = {} => result = [ret |-> "failed"]
      /\ \A k \in Adds(chain) : IsFirst(k, Adds(chain)) =>
           result = [ret |-> "ok", ip |-> chain[k].data]
  BY Zenon, ParseFindsFirst
<1> HIDE DEF result
<1>2. Adds(chain) = {} => result.ret = "failed"
  BY <1>1
<1>3. ASSUME NEW k \in Adds(chain), IsFirst(k, Adds(chain))
      PROVE  /\ result = [ret |-> "ok", ip |-> chain[k].data]
             /\ IpValid(intToStr(result.ip))
             /\ [n \in 1 .. 4 |-> Number(Fields(intToStr(result.ip))[n])] = result.ip
  <2>1. result = [ret |-> "ok", ip |-> chain[k].data]
    BY <1>1, <1>3
  <2>2. result.ip = chain[k].data
    BY <2>1
  <2>3. result.ip \in Seq(Byte) /\ Len(result.ip) = 4
    <3>1. k \in 1 .. Len(chain) /\ chain[k].type = "A"
      BY DEF Adds
    <3>2. Good(chain[k])
      BY <3>1 DEF GoodChain
    <3>3. chain[k].data \in Seq(Byte) /\ Len(chain[k].data) = 4
      BY <3>1, <3>2, RecordLayout DEF Good, DataLen
    <3> QED BY Zenon, <2>2, <3>3
  <2> QED BY Zenon, <2>1, <2>3, TextSays
<1> QED BY Zenon, <1>2, <1>3 DEF LeadsTo, Adds, result

(* The names and the files a run asks about ask as they should, and the    *)
(* answers lead where they should.                                         *)
THEOREM EveryNameAsks == QueriesName
<1>1. \A name \in Names : HostName(name) => QueryNames(name)
  BY RequestAsks, DnsProtocolAssumption
<1>2. \A file \in Files : AsksServer(file)
  BY FirstServerAsked, DnsProtocolAssumption
<1> QED BY Zenon, <1>1, <1>2 DEF QueriesName

LEMMA ChainIsGood ==
  ASSUME NEW chain \in Chains, \A k \in 1 .. Len(chain) : Skippable(chain[k])
  PROVE  GoodChain(chain)
<1>2. chain \in Seq(Record)
  BY DnsProtocolAssumption
<1>3. ASSUME NEW k \in 1 .. Len(chain) PROVE Good(chain[k])
  <2>1. chain[k] \in Record
    BY <1>2
  <2>2. chain[k].type = "A" => Len(chain[k].data) = 4
    BY DnsProtocolAssumption
  <2> QED BY Zenon, <2>1, <2>2 DEF Good, DataLen
<1> QED BY Zenon, <1>2, <1>3 DEF GoodChain

THEOREM EveryAnswerLeads == AnswersLead
<1> SUFFICES ASSUME NEW name \in Names, NEW chain \in Chains, HostName(name),
                    \A k \in 1 .. Len(chain) : Skippable(chain[k])
             PROVE  LeadsTo(Response(RequestConstruct(name), chain), chain)
  BY DEF AnswersLead
<1>1. name \in Seq(Byte)
  BY DnsProtocolAssumption
<1>2. GoodChain(chain)
  BY ChainIsGood
<1> QED BY <1>1, <1>2, AnswerLeads

(* When all names are host names and the walk can skip all records, no     *)
(* answer keeps ResponseParse: the engine thread never hangs in one.       *)
THEOREM EveryParseEnds ==
  ASSUME \A name \in Names : HostName(name),
         \A chain \in Chains : \A k \in 1 .. Len(chain) : Skippable(chain[k])
  PROVE  \A answer \in Answers : ResponseParse(answer).ret # "endless"
<1> SUFFICES ASSUME NEW name \in Names, NEW chain \in Chains
             PROVE  ResponseParse(Response(RequestConstruct(name), chain)).ret # "endless"
  BY DEF Answers
<1>1. name \in Seq(Byte) /\ HostName(name)
  BY DnsProtocolAssumption
<1>2. GoodChain(chain)
  BY ChainIsGood
<1> DEFINE result == ResponseParse(Response(RequestConstruct(name), chain))
<1>3. /\ Adds(chain) = {} => result = [ret |-> "failed"]
      /\ \A k \in Adds(chain) : IsFirst(k, Adds(chain)) =>
           result = [ret |-> "ok", ip |-> chain[k].data]
  BY Zenon, <1>1, <1>2, ParseFindsFirst
<1>4. Adds(chain) # {} => \E k \in Adds(chain) : IsFirst(k, Adds(chain))
  <2> SUFFICES ASSUME Adds(chain) # {} PROVE \E k \in Adds(chain) : IsFirst(k, Adds(chain))
    OBVIOUS
  <2>1. Adds(chain) \subseteq Nat
    BY DEF Adds
  <2> DEFINE T == Nat \ Adds(chain)
  <2>2. T # Nat
    BY <2>1
  <2>3. PICK k \in Nat : k \notin T /\ \A j \in Nat : j < k => j \in T
    <3> HIDE DEF T
    <3>1. T \in SUBSET Nat
      BY DEF T
    <3> QED BY <2>2, <3>1, NatSetStrongInduction
  <2>4. IsFirst(k, Adds(chain))
    BY <2>1, <2>3 DEF IsFirst
  <2> QED BY <2>4 DEF IsFirst
<1> HIDE DEF result
<1>5. result.ret # "endless"
  BY <1>3, <1>4
<1> QED BY <1>5 DEF result

=============================================================================
