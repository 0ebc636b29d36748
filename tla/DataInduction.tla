--------------------------- MODULE DataInduction ---------------------------
(***************************************************************************)
(* Induction over data, in a form the provers can use.  The library's      *)
(* induction theorems take the statement to prove as an operator, which    *)
(* cannot be instantiated here; these take it as the SET of the numbers    *)
(* that satisfy it.  They rest on one fact of the library that is about    *)
(* sets: a set of naturals that is not empty has a least element.          *)
(***************************************************************************)
EXTENDS Integers, FiniteSets, FiniteSetTheorems, FunctionTheorems, TLAPS

(* A set that holds each number all smaller ones of which it holds, holds  *)
(* every number: there is no least one missing.                            *)
LEMMA NatSetStrongInduction ==
  ASSUME NEW T \in SUBSET Nat,
         \A n \in Nat : (\A m \in Nat : m < n => m \in T) => n \in T
  PROVE  T = Nat
<1> SUFFICES ASSUME Nat \ T # {} PROVE FALSE
  OBVIOUS
<1>1. PICK x \in Nat \ T : \A y \in Nat \ T : ~(<<y, x>> \in OpToRel(<, Nat))
  BY NatLessThanWellFounded, WFMin
<1>2. \A y \in Nat : y < x => <<y, x>> \in OpToRel(<, Nat)
  <2> SUFFICES ASSUME NEW y \in Nat, y < x PROVE <<y, x>> \in OpToRel(<, Nat)
    OBVIOUS
  <2>1. <<y, x>> \in {ss \in Nat \X Nat : ss[1] < ss[2]}
    OBVIOUS
  <2> QED BY <2>1 DEF OpToRel
<1> QED BY <1>1, <1>2

(* The same, from each number to the next.                                 *)
LEMMA NatSetInduction ==
  ASSUME NEW T \in SUBSET Nat, 0 \in T, \A n \in T : n + 1 \in T
  PROVE  T = Nat
<1>1. ASSUME NEW n \in Nat, \A m \in Nat : m < n => m \in T PROVE n \in T
  <2>1. CASE n = 0
    BY <2>1
  <2>2. CASE n # 0
    <3>1. n - 1 \in Nat /\ n - 1 < n /\ n - 1 + 1 = n
      BY <2>2
    <3> QED BY <1>1, <3>1
  <2> QED BY <2>1, <2>2
<1> QED BY <1>1, NatSetStrongInduction

-----------------------------------------------------------------------------
(* A function on the naturals may be defined by its value z at 0 and a     *)
(* rule G that takes a number and the value at a smaller one, h[n]: a      *)
(* definition f[n \in Nat] == ... chooses a function that follows the rule, *)
(* and there is one to choose.  Solutions(m, ...) follow it up to m.       *)

IsRule(V, z, G, h) ==
  /\ z \in V /\ G \in [Nat \X V -> V] /\ h \in [Nat -> Nat]
  /\ \A n \in Nat \ {0} : h[n] < n
Follows(f, n, z, G, h) == f[n] = IF n = 0 THEN z ELSE G[<<n, f[h[n]]>>]
Solutions(m, V, z, G, h) == {f \in [0 .. m -> V] : \A n \in 0 .. m : Follows(f, n, z, G, h)}

(* Two solutions agree where both are defined.                             *)
LEMMA SolutionsAgree ==
  ASSUME NEW V, NEW z, NEW G, NEW h, IsRule(V, z, G, h),
         NEW l \in Nat, NEW m \in Nat,
         NEW e \in Solutions(l, V, z, G, h), NEW f \in Solutions(m, V, z, G, h),
         NEW n \in Nat, n <= l, n <= m
  PROVE  e[n] = f[n]
<1> USE DEF IsRule
<1> DEFINE T == {k \in Nat : k <= l /\ k <= m => e[k] = f[k]}
<1>1. ASSUME NEW k \in Nat, \A j \in Nat : j < k => j \in T PROVE k \in T
  <2> SUFFICES ASSUME k <= l, k <= m PROVE e[k] = f[k]
    OBVIOUS
  <2>1. k # 0 => e[h[k]] = f[h[k]]
    BY <1>1
  <2>2. Follows(e, k, z, G, h) /\ Follows(f, k, z, G, h)
    BY DEF Solutions
  <2> QED BY <2>1, <2>2 DEF Follows
<1>2. T = Nat
  BY <1>1, NatSetStrongInduction
<1> QED BY <1>2

(* A solution up to k is extended to k + 1 by the rule.                    *)
LEMMA SolutionsExist ==
  ASSUME NEW V, NEW z, NEW G, NEW h, IsRule(V, z, G, h),
         NEW m \in Nat
  PROVE  Solutions(m, V, z, G, h) # {}
<1> USE DEF IsRule
<1> DEFINE T == {k \in Nat : Solutions(k, V, z, G, h) # {}}
<1>1. 0 \in T
  <2>1. [n \in 0 .. 0 |-> z] \in Solutions(0, V, z, G, h)
    BY DEF Solutions, Follows
  <2> QED BY <2>1
<1>2. ASSUME NEW k \in T PROVE k + 1 \in T
  <2>1. PICK f \in Solutions(k, V, z, G, h) : TRUE
    OBVIOUS
  <2> DEFINE e == [n \in 0 .. k + 1 |-> IF n <= k THEN f[n] ELSE G[<<n, f[h[n]]>>]]
  <2>2. f \in [0 .. k -> V] /\ \A n \in 0 .. k : Follows(f, n, z, G, h)
    BY DEF Solutions
  <2>3. \A n \in 0 .. k + 1 : n # 0 => h[n] \in 0 .. k
    <3> SUFFICES ASSUME NEW n \in 0 .. k + 1, n # 0 PROVE h[n] \in 0 .. k
      OBVIOUS
    <3>1. n \in Nat \ {0} /\ h[n] \in Nat /\ h[n] < n
      OBVIOUS
    <3> QED BY <3>1
  <2>4. e \in [0 .. k + 1 -> V]
    <3>1. ASSUME NEW n \in 0 .. k + 1, ~(n <= k) PROVE G[<<n, f[h[n]]>>] \in V
      <4>1. n # 0 /\ n \in Nat
        BY <3>1
      <4>2. f[h[n]] \in V
        BY <2>2, <2>3, <4>1
      <4> QED BY <4>1, <4>2
    <3>2. ASSUME NEW n \in 0 .. k + 1, n <= k PROVE f[n] \in V
      <4>1. n \in 0 .. k
        BY <3>2
      <4> QED BY <2>2, <4>1
    <3> QED BY <3>1, <3>2
  <2>5. ASSUME NEW n \in 0 .. k + 1 PROVE Follows(e, n, z, G, h)
    <3>1. ASSUME n # 0 PROVE e[h[n]] = f[h[n]]
      <4>1. h[n] \in 0 .. k /\ h[n] \in 0 .. k + 1 /\ h[n] <= k
        BY <2>3, <3>1
      <4> QED BY <4>1
    <3>2. CASE n <= k
      <4>1. n \in 0 .. k /\ e[n] = f[n]
        BY <3>2
      <4> QED BY <2>2, <3>1, <4>1 DEF Follows
    <3>3. CASE n > k
      <4>1. n # 0 /\ e[n] = G[<<n, f[h[n]]>>]
        BY <3>3
      <4> QED BY <3>1, <4>1 DEF Follows
    <3> QED BY <3>2, <3>3
  <2>6. e \in Solutions(k + 1, V, z, G, h)
    BY <2>4, <2>5 DEF Solutions
  <2> HIDE DEF e
  <2> QED BY <2>6
<1>3. T = Nat
  BY <1>1, <1>2, NatSetInduction
<1> QED BY <1>3

(* The values at n of the solutions up to n follow the rule everywhere.    *)
LEMMA RecursionWorks ==
  ASSUME NEW V, NEW z, NEW G, NEW h, IsRule(V, z, G, h)
  PROVE  \E f \in [Nat -> V] :
           \A n \in Nat : f[n] = IF n = 0 THEN z ELSE G[<<n, f[h[n]]>>]
<1> DEFINE g(n) == CHOOSE e \in Solutions(n, V, z, G, h) : TRUE
           f == [n \in Nat |-> g(n)[n]]
<1>1. ASSUME NEW n \in Nat PROVE g(n) \in Solutions(n, V, z, G, h)
  <2>1. Solutions(n, V, z, G, h) # {}
    BY SolutionsExist
  <2> QED BY <2>1
<1>2. \A n \in Nat : n \in 0 .. n /\ g(n) \in [0 .. n -> V] /\ Follows(g(n), n, z, G, h)
  <2> SUFFICES ASSUME NEW n \in Nat
               PROVE  n \in 0 .. n /\ g(n) \in [0 .. n -> V] /\ Follows(g(n), n, z, G, h)
    OBVIOUS
  <2> HIDE DEF g
  <2> QED BY <1>1 DEF Solutions
<1>3. f \in [Nat -> V]
  <2>1. ASSUME NEW n \in Nat PROVE g(n)[n] \in V
    <3> HIDE DEF g
    <3> QED BY <1>2
  <2> HIDE DEF g
  <2> QED BY <2>1
<1>4. ASSUME NEW n \in Nat PROVE f[n] = IF n = 0 THEN z ELSE G[<<n, f[h[n]]>>]
  <2>1. CASE n = 0
    BY <1>2, <2>1 DEF Follows
  <2>2. CASE n # 0
    <3>1. h[n] \in Nat /\ h[n] <= n
      BY <2>2 DEF IsRule
    <3> HIDE DEF g
    <3>2. g(h[n])[h[n]] = g(n)[h[n]]
      <4>1. /\ g(h[n]) \in Solutions(h[n], V, z, G, h)
            /\ g(n) \in Solutions(n, V, z, G, h)
        BY <1>1, <3>1
      <4> QED BY <3>1, <4>1, SolutionsAgree
    <3> QED BY <1>2, <2>2, <3>1, <3>2 DEF Follows
  <2> QED BY <2>1, <2>2
<1> QED BY <1>3, <1>4

(* A loop of N rounds, from z on, where round n makes G[<<n, v>>] of v: a  *)
(* definition to[n \in 0 .. N] == IF n = 0 THEN z ELSE ... to[n - 1] ...    *)
(* has a function to choose.                                               *)
IsLoop(N, V, z, G) == N \in Nat /\ z \in V /\ G \in [(1 .. N) \X V -> V]

LEMMA LoopWorks ==
  ASSUME NEW N, NEW V, NEW z, NEW G, IsLoop(N, V, z, G)
  PROVE  \E f \in [0 .. N -> V] :
           \A n \in 0 .. N : f[n] = IF n = 0 THEN z ELSE G[<<n, f[n - 1]>>]
<1> DEFINE H == [p \in Nat \X V |-> IF p[1] \in 1 .. N THEN G[<<p[1], p[2]>>] ELSE p[2]]
           h == [n \in Nat |-> IF n = 0 THEN 0 ELSE n - 1]
<1>1. IsRule(V, z, H, h)
  <2>1. H \in [Nat \X V -> V]
    <3>1. ASSUME NEW p \in Nat \X V
          PROVE  (IF p[1] \in 1 .. N THEN G[<<p[1], p[2]>>] ELSE p[2]) \in V
      <4>1. p[2] \in V
        OBVIOUS
      <4>2. ASSUME p[1] \in 1 .. N PROVE G[<<p[1], p[2]>>] \in V
        BY <4>1, <4>2 DEF IsLoop
      <4> QED BY <4>1, <4>2
    <3> QED BY <3>1
  <2>2. h \in [Nat -> Nat] /\ \A n \in Nat \ {0} : h[n] < n
    OBVIOUS
  <2> HIDE DEF H, h
  <2> QED BY <2>1, <2>2 DEF IsRule, IsLoop
<1>2. PICK f \in Solutions(N, V, z, H, h) : TRUE
  <2> HIDE DEF H, h
  <2> QED BY <1>1, SolutionsExist DEF IsLoop
<1>3. f \in [0 .. N -> V] /\ \A n \in 0 .. N : Follows(f, n, z, H, h)
  <2> HIDE DEF H, h
  <2> QED BY DEF Solutions
<1>4. ASSUME NEW n \in 0 .. N, n # 0 PROVE f[n] = G[<<n, f[n - 1]>>]
  <2>1. n \in 1 .. N /\ n - 1 \in 0 .. N /\ n \in Nat /\ h[n] = n - 1
    BY <1>4 DEF IsLoop
  <2>2. f[n - 1] \in V
    BY <1>3, <2>1
  <2>3. H[<<n, f[n - 1]>>] = G[<<n, f[n - 1]>>]
    BY <2>1, <2>2
  <2> HIDE DEF H, h
  <2> QED BY <1>3, <1>4, <2>1, <2>3 DEF Follows
<1>5. ASSUME NEW n \in 0 .. N, n = 0 PROVE f[n] = z
  <2> HIDE DEF H, h
  <2> QED BY <1>3, <1>5 DEF Follows
<1> QED BY <1>3, <1>4, <1>5

(* A walk over the integers: at most n steps from i on, none from a place  *)
(* in E.  skip[n \in 0 .. N] == [i \in Int |-> ... skip[n - 1][step[i]]]    *)
(* has a function to choose.                                               *)
IsWalk(N, E, step) == N \in Nat /\ step \in [Int -> Int]

LEMMA WalkWorks ==
  ASSUME NEW N, NEW E, NEW step, IsWalk(N, E, step)
  PROVE  \E f \in [0 .. N -> [Int -> Int]] :
           \A n \in 0 .. N, i \in Int :
             f[n][i] = IF n = 0 \/ i \in E THEN i ELSE f[n - 1][step[i]]
<1> DEFINE V == [Int -> Int]
           z == [i \in Int |-> i]
           G == [p \in (1 .. N) \X V |-> [i \in Int |-> IF i \in E THEN i ELSE p[2][step[i]]]]
<1>1. IsLoop(N, V, z, G)
  <2>1. ASSUME NEW p \in (1 .. N) \X V
        PROVE  [i \in Int |-> IF i \in E THEN i ELSE p[2][step[i]]] \in V
    <3>1. \A i \in Int : p[2][step[i]] \in Int
      BY DEF IsWalk
    <3> QED BY <3>1
  <2>2. G \in [(1 .. N) \X V -> V]
    <3> HIDE DEF V
    <3> QED BY <2>1
  <2>3. z \in V
    OBVIOUS
  <2> HIDE DEF V, z, G
  <2> QED BY <2>2, <2>3 DEF IsLoop, IsWalk
<1>2. PICK g \in [0 .. N -> V] :
        \A n \in 0 .. N : g[n] = IF n = 0 THEN z ELSE G[<<n, g[n - 1]>>]
  <2> HIDE DEF V, z, G
  <2> QED BY <1>1, LoopWorks
<1>3. ASSUME NEW n \in 0 .. N
      PROVE  g[n] = [i \in Int |-> IF n = 0 \/ i \in E THEN i ELSE g[n - 1][step[i]]]
  <2>1. CASE n = 0
    <3>1. g[n] = z
      <4> HIDE DEF z, G, V
      <4> QED BY <1>2, <2>1
    <3> QED BY <2>1, <3>1
  <2>2. CASE n # 0
    <3>1. n \in 1 .. N /\ n - 1 \in 0 .. N
      BY <2>2 DEF IsWalk
    <3>2. g[n - 1] \in V
      <4> HIDE DEF V
      <4> QED BY <3>1
    <3>3. g[n] = G[<<n, g[n - 1]>>]
      <4> HIDE DEF z, G, V
      <4> QED BY <1>2, <2>2
    <3>4. <<n, g[n - 1]>> \in (1 .. N) \X V
      <4> HIDE DEF V
      <4> QED BY <3>1, <3>2
    <3>5. g[n] = [j \in Int |-> IF j \in E THEN j ELSE g[n - 1][step[j]]]
      <4> HIDE DEF V
      <4> QED BY <3>3, <3>4
    <3> QED BY <2>2, <3>5
  <2> QED BY <2>1, <2>2
<1>4. ASSUME NEW n \in 0 .. N, NEW i \in Int
      PROVE  g[n][i] = IF n = 0 \/ i \in E THEN i ELSE g[n - 1][step[i]]
  <2>1. g[n] = [j \in Int |-> IF n = 0 \/ j \in E THEN j ELSE g[n - 1][step[j]]]
    BY <1>3
  <2> QED BY <2>1
<1> QED BY <1>4

-----------------------------------------------------------------------------
(* Powers of two.  The provers know nothing of n ^ m, so what follows      *)
(* starts from the library's count of the subsets of a finite set.         *)

Power(k) == 2 ^ k

(* 2 ^ k is the number of subsets of 1 .. k.                               *)
LEMMA PowerCounts ==
  ASSUME NEW k \in Nat
  PROVE  IsFiniteSet(SUBSET (1 .. k)) /\ Cardinality(SUBSET (1 .. k)) = Power(k)
<1>1. IsFiniteSet(1 .. k) /\ Cardinality(1 .. k) = k
  BY FS_Interval
<1> QED BY Zenon, <1>1, FS_SUBSET DEF Power

(* Powers of two are naturals.                                             *)
LEMMA PowerType == ASSUME NEW k \in Nat PROVE Power(k) \in Nat
BY PowerCounts, FS_CardinalityType

(* The empty set has one subset.                                           *)
LEMMA PowerZero == Power(0) = 1
<1>1. 1 .. 0 = {} /\ SUBSET {} = {{}}
  OBVIOUS
<1>2. Cardinality({{}}) = 1
  BY FS_Singleton
<1> QED BY <1>1, <1>2, PowerCounts

(* The subsets of 1 .. k + 1 are those of 1 .. k, without k + 1 and with.  *)
LEMMA PowerNext == ASSUME NEW k \in Nat PROVE Power(k + 1) = 2 * Power(k)
<1> DEFINE A == SUBSET (1 .. k)
           C == SUBSET (1 .. k + 1)
           B == {s \cup {k + 1} : s \in A}
           f == [s \in A |-> s \cup {k + 1}]
<1>1. A \cup B = C
  <2>1. \A s \in A \cup B : s \subseteq 1 .. k + 1
    OBVIOUS
  <2>2. ASSUME NEW s \in SUBSET (1 .. k + 1) PROVE s \in A \cup B
    <3>1. CASE k + 1 \notin s
      BY <3>1
    <3>2. CASE k + 1 \in s
      <4>1. s \ {k + 1} \in A /\ s = (s \ {k + 1}) \cup {k + 1}
        BY <3>2
      <4> QED BY <4>1
    <3> QED BY <3>1, <3>2
  <2> QED BY <2>1, <2>2
<1>2. A \cap B = {}
  <2>1. \A s \in A : k + 1 \notin s
    OBVIOUS
  <2> QED BY <2>1
<1>3. f \in Bijection(A, B)
  <2>1. f \in [A -> B]
    OBVIOUS
  <2>2. \A s, t \in A : f[s] = f[t] => s = t
    <3> SUFFICES ASSUME NEW s \in A, NEW t \in A, s \cup {k + 1} = t \cup {k + 1}
                 PROVE  s = t
      OBVIOUS
    <3>1. k + 1 \notin s /\ k + 1 \notin t
      OBVIOUS
    <3> QED BY <3>1
  <2>3. \A b \in B : \E s \in A : f[s] = b
    OBVIOUS
  <2> QED BY <2>1, <2>2, <2>3, Fun_IsBij
<1>4. IsFiniteSet(A) /\ Cardinality(A) = Power(k)
  BY PowerCounts
<1>5. IsFiniteSet(B) /\ Cardinality(B) = Power(k)
  BY <1>3, <1>4, FS_Bijection DEF ExistsBijection
<1>6. Cardinality(C) = Power(k + 1)
  BY PowerCounts
<1> HIDE DEF A, B, C
<1>7. Cardinality(A \cup B) = Power(k) + Power(k)
  <2>1. Cardinality(A \cap B) = 0
    BY <1>2, FS_EmptySet
  <2> QED BY <1>4, <1>5, <2>1, FS_Union, PowerType
<1>8. Power(k + 1) = Power(k) + Power(k)
  BY Zenon, <1>1, <1>6, <1>7
<1> QED BY <1>8, PowerType

(* Powers of two grow.                                                     *)
LEMMA PowerGrows ==
  ASSUME NEW j \in Nat, NEW k \in Nat, j < k
  PROVE  2 * Power(j) <= Power(k)
<1> DEFINE T == {d \in Nat : 2 * Power(j) <= Power(j + 1 + d)}
<1>1. 0 \in T
  BY PowerNext, PowerType
<1>2. \A d \in T : d + 1 \in T
  <2> SUFFICES ASSUME NEW d \in Nat, 2 * Power(j) <= Power(j + 1 + d)
               PROVE  2 * Power(j) <= Power(j + 1 + (d + 1))
    OBVIOUS
  <2>1. j + 1 + d \in Nat /\ j + 1 + d + 1 = j + 1 + (d + 1)
    OBVIOUS
  <2>2. Power(j + 1 + d + 1) = 2 * Power(j + 1 + d)
    BY <2>1, PowerNext
  <2>3. Power(j) \in Nat /\ Power(j + 1 + d) \in Nat
    BY <2>1, PowerType
  <2> HIDE DEF T
  <2>4. 2 * Power(j) <= 2 * Power(j + 1 + d)
    BY <2>3
  <2> QED BY <2>1, <2>2, <2>4
<1>3. T = Nat
  BY <1>1, <1>2, NatSetInduction
<1>4. PICK d \in Nat : j + 1 + d = k
  <2>1. k - j - 1 \in Nat /\ j + 1 + (k - j - 1) = k
    OBVIOUS
  <2> QED BY <2>1
<1>5. d \in T
  <2> HIDE DEF T
  <2> QED BY <1>3
<1> QED BY <1>4, <1>5

(* No power of two is zero.                                                *)
LEMMA PowerPositive == ASSUME NEW k \in Nat PROVE Power(k) >= 1
<1>1. CASE k = 0
  BY <1>1, PowerZero
<1>2. CASE k # 0
  BY <1>2, PowerZero, PowerGrows, PowerType
<1> QED BY <1>1, <1>2

=============================================================================
