---------------------------- MODULE ItemsProofs ----------------------------
(***************************************************************************)
(* What the proofs about function bodies share: induction and recursion    *)
(* over heights, sequences by their elements, and the branches that are    *)
(* open behind an item.                                                    *)
(*                                                                         *)
(* The induction theorems of the library take an operator; those here take *)
(* the set of the things for which a claim holds.                          *)
(***************************************************************************)
EXTENDS Items, FiniteSetTheorems, SequenceTheorems, WellFoundedInduction, TLAPS

-----------------------------------------------------------------------------
(* Induction and recursion over heights *)

(* A nonempty set of numbers has a least one.                               *)
LEMMA LeastNumber ==
  ASSUME NEW T \in SUBSET Nat, T # {}
  PROVE  \E m \in T : \A n \in T : m <= n
<1> DEFINE R == OpToRel(<, Nat)
<1>1. IsWellFoundedOn(R, Nat)
  BY NatLessThanWellFounded
<1>2. \E m \in T : \A n \in T : ~ (<<n, m>> \in R)
  <2> HIDE DEF R
  <2> QED BY <1>1, WFMin
<1>3. PICK m \in T : \A n \in T : ~ (n < m)
  BY <1>2 DEF OpToRel
<1> QED BY <1>3

(* What holds of a thing whenever it holds of all things below it holds of  *)
(* everything.                                                              *)
LEMMA HeightInduction ==
  ASSUME NEW S, NEW height \in [S -> Nat], NEW T,
         \A x \in S : (\A y \in S : height[y] < height[x] => y \in T) => x \in T
  PROVE  S \subseteq T
<1> DEFINE bad == {x \in S : x \notin T}
           heights == {height[x] : x \in bad}
<1>1. SUFFICES ASSUME bad # {} PROVE FALSE
  OBVIOUS
<1>2. heights \in SUBSET Nat /\ heights # {}
  BY <1>1
<1>3. PICK m \in heights : \A n \in heights : m <= n
  <2> HIDE DEF heights
  <2> QED BY <1>2, LeastNumber
<1>4. PICK x \in bad : height[x] = m
  BY <1>3
<1>5. ASSUME NEW y \in S, height[y] < height[x] PROVE y \in T
  <2>1. CASE y \in bad
    <3>1. height[y] \in heights
      BY <2>1
    <3>2. m <= height[y] /\ height[y] \in Nat /\ m \in Nat
      BY <3>1, <1>3, <1>2
    <3> QED BY <3>2, <1>4, <1>5
  <2>2. CASE y \notin bad
    BY <2>2
  <2> QED BY <2>1, <2>2
<1>6. x \in T
  BY <1>5, <1>4
<1> QED BY <1>6, <1>4

(* F computes a value for a thing from the values of the things below it.   *)
Recursive(S, V, height, F) ==
  /\ F \in [[S -> V] -> [S -> V]]
  /\ \A f, g \in [S -> V] : \A x \in S :
       (\A y \in S : height[y] < height[x] => f[y] = g[y]) => F[f][x] = F[g][x]

(* Then there is a function that it computes, as a definition by recursion  *)
(* says.                                                                    *)
LEMMA RecursiveFunctionExists ==
  ASSUME NEW S, NEW V, NEW v0 \in V, NEW height \in [S -> Nat], NEW F, Recursive(S, V, height, F)
  PROVE  \E f \in [S -> V] : f = F[f]
<1> DEFINE Good(f, n) == f \in [S -> V] /\ \A x \in S : height[x] < n => f[x] = F[f][x]
           least == {n \in Nat : ~ \E f : Good(f, n)}
<1>1. ASSUME NEW f \in [S -> V] PROVE F[f] \in [S -> V]
  BY DEF Recursive
<1>2. ASSUME NEW f \in [S -> V], NEW g \in [S -> V], NEW x \in S,
             \A y \in S : height[y] < height[x] => f[y] = g[y]
      PROVE  F[f][x] = F[g][x]
  BY <1>2 DEF Recursive
<1>3. \A x \in S : height[x] \in Nat
  OBVIOUS
<1>4. \A n \in Nat : \E f : Good(f, n)
  <2>1. SUFFICES ASSUME least # {} PROVE FALSE
    OBVIOUS
  <2>2. PICK n \in least : \A k \in least : n <= k
    <3>1. least \in SUBSET Nat
      OBVIOUS
    <3> HIDE DEF least
    <3> QED BY <2>1, <3>1, LeastNumber
  <2>3. CASE n = 0
    <3>1. Good([x \in S |-> v0], 0)
      BY <1>3
    <3> QED BY <3>1, <2>3
  <2>4. CASE n # 0
    <3>1. n - 1 \in Nat /\ n - 1 \notin least /\ n \in Nat
      BY <2>2, <2>4
    <3>2. PICK f : Good(f, n - 1)
      BY <3>1
    <3>3. F[f] \in [S -> V] /\ f \in [S -> V]
      BY <3>2, <1>1
    <3>4. ASSUME NEW x \in S, height[x] < n PROVE F[f][x] = F[F[f]][x]
      <4>1. ASSUME NEW y \in S, height[y] < height[x] PROVE f[y] = F[f][y]
        <5>1. height[y] < n - 1
          BY <3>4, <4>1, <1>3, <3>1
        <5> QED BY <5>1, <3>2
      <4> HIDE DEF Good
      <4>2. \A y \in S : height[y] < height[x] => f[y] = F[f][y]
        BY <4>1
      <4> QED BY <4>2, <3>3, <1>2
    <3>5. Good(F[f], n)
      BY <3>3, <3>4
    <3> QED BY <3>5, <2>2
  <2> QED BY <2>3, <2>4
<1>5. ASSUME NEW f, NEW g, NEW n \in Nat, NEW k \in Nat, Good(f, n), Good(g, k)
      PROVE  \A x \in S : height[x] < n /\ height[x] < k => f[x] = g[x]
  <2> DEFINE T == {x \in S : height[x] < n /\ height[x] < k => f[x] = g[x]}
  <2>1. ASSUME NEW x \in S, \A y \in S : height[y] < height[x] => y \in T
        PROVE  x \in T
    <3>1. SUFFICES ASSUME height[x] < n /\ height[x] < k PROVE f[x] = g[x]
      OBVIOUS
    <3>2. \A y \in S : height[y] < height[x] => f[y] = g[y]
      BY <2>1, <3>1, <1>3
    <3>3. F[f][x] = F[g][x]
      <4>1. f \in [S -> V] /\ g \in [S -> V]
        BY <1>5
      <4> HIDE DEF Good
      <4> QED BY <4>1, <3>2, <1>2
    <3> QED BY <3>1, <3>3, <1>5
  <2>2. S \subseteq T
    <3> HIDE DEF T
    <3> QED BY <2>1, HeightInduction
  <2> QED BY <2>2
<1> DEFINE part[x \in S] == CHOOSE f : Good(f, height[x] + 1)
           all == [x \in S |-> part[x][x]]
<1>6. ASSUME NEW x \in S PROVE Good(part[x], height[x] + 1)
  <2>1. height[x] + 1 \in Nat
    BY <1>3
  <2>2. part[x] = CHOOSE f : Good(f, height[x] + 1)
    OBVIOUS
  <2>3. \E f : Good(f, height[x] + 1)
    BY <2>1, <1>4
  <2> HIDE DEF Good, part
  <2> QED BY <2>2, <2>3
<1>7. all \in [S -> V]
  <2>1. ASSUME NEW x \in S PROVE part[x][x] \in V
    BY <1>6
  <2> HIDE DEF part
  <2> QED BY <2>1
<1>8. ASSUME NEW x \in S PROVE all[x] = F[all][x]
  <2>0. all[x] = part[x][x]
    <3> HIDE DEF part
    <3> QED OBVIOUS
  <2> HIDE DEF part
  <2>1. ASSUME NEW y \in S, height[y] < height[x] PROVE all[y] = part[x][y]
    <3>1. height[y] + 1 \in Nat /\ height[x] + 1 \in Nat /\ height[y] < height[x] + 1 /\ height[y] < height[y] + 1
      BY <1>3, <2>1
    <3>2. Good(part[x], height[x] + 1) /\ Good(part[y], height[y] + 1)
      BY <1>6
    <3>3. part[y][y] = part[x][y]
      <4> HIDE DEF Good
      <4> QED BY <3>1, <3>2, <1>5
    <3> QED BY <3>3
  <2>2. part[x] \in [S -> V] /\ part[x][x] = F[part[x]][x]
    <3>1. Good(part[x], height[x] + 1) /\ height[x] < height[x] + 1
      BY <1>6, <1>3
    <3> QED BY <3>1
  <2>3. F[all][x] = F[part[x]][x]
    <3> HIDE DEF all
    <3> QED BY <2>1, <2>2, <1>7, <1>2
  <2> QED BY <2>0, <2>2, <2>3
<1>9. F[all] = all
  <2>1. F[all] \in [S -> V]
    BY <1>7, <1>1
  <2> HIDE DEF all, part
  <2> QED BY <2>1, <1>7, <1>8
<1> QED BY <1>7, <1>9

LEMMA NaturalInduction ==
  ASSUME NEW T, 0 \in T, \A n \in Nat : n \in T => n + 1 \in T
  PROVE  Nat \subseteq T
<1> DEFINE Id == [n \in Nat |-> n]
<1>1. Id \in [Nat -> Nat] /\ \A n \in Nat : Id[n] = n
  OBVIOUS
<1> HIDE DEF Id
<1>2. ASSUME NEW x \in Nat, \A y \in Nat : Id[y] < Id[x] => y \in T PROVE x \in T
  <2>1. CASE x = 0
    BY <2>1
  <2>2. CASE x # 0
    <3>1. x - 1 \in Nat /\ x - 1 < x
      BY <2>2
    <3>2. x - 1 \in T
      BY <1>1, <1>2, <3>1
    <3>3. (x - 1) + 1 = x
      OBVIOUS
    <3> QED
      BY <3>1, <3>2, <3>3
  <2> QED
    BY <2>1, <2>2
<1> QED
  BY <1>1, <1>2, HeightInduction

(***************************************************************************)
(* Sequences by their elements.                                            *)
(***************************************************************************)
Sequence(s) == s \in Seq({s[i] : i \in 1 .. Len(s)})

LEMMA SequenceFacts ==
  ASSUME NEW s, Sequence(s)
  PROVE  Len(s) \in Nat /\ DOMAIN s = 1 .. Len(s) /\ (s = <<>> <=> Len(s) = 0)
<1>1. Len(s) \in Nat /\ DOMAIN s = 1 .. Len(s)
  BY LenProperties DEF Sequence
<1>2. s = <<>> <=> Len(s) = 0
  BY EmptySeq DEF Sequence
<1> QED
  BY <1>1, <1>2

LEMMA SequenceFrom ==
  ASSUME NEW S, NEW s \in Seq(S)
  PROVE  Sequence(s)
<1> DEFINE T == {s[i] : i \in 1 .. Len(s)}
<1>1. /\ Len(s) \in Nat /\ s \in [1 .. Len(s) -> S]
  BY LenProperties
<1>2. s \in [1 .. Len(s) -> T]
  <2>1. \A i \in 1 .. Len(s) : s[i] \in T
    OBVIOUS
  <2> QED
    BY <1>1, <2>1
<1>3. s \in Seq(T)
  <2> HIDE DEF T
  <2> QED
    BY <1>1, <1>2
<1> QED
  BY <1>3 DEF Sequence

LEMMA SequenceAppend ==
  ASSUME NEW s, Sequence(s), NEW x
  PROVE  /\ Sequence(Append(s, x)) /\ Len(Append(s, x)) = Len(s) + 1
         /\ Append(s, x)[Len(s) + 1] = x
         /\ \A i \in 1 .. Len(s) : Append(s, x)[i] = s[i]
<1> DEFINE S == {s[i] : i \in 1 .. Len(s)} \cup {x}
<1>1. s \in Seq(S)
  BY SeqMonotonic DEF Sequence
<1>2. x \in S
  OBVIOUS
<1> HIDE DEF S
<1>3. /\ Append(s, x) \in Seq(S) /\ Len(Append(s, x)) = Len(s) + 1
      /\ \A i \in 1 .. Len(s) : Append(s, x)[i] = s[i]
      /\ Append(s, x)[Len(s) + 1] = x
  BY <1>1, <1>2, AppendProperties
<1> QED
  BY <1>3, SequenceFrom

(***************************************************************************)
(* Counting items.                                                         *)
(***************************************************************************)
LEMMA CountType ==
  \A op : \A k \in Nat :
    /\ IsFiniteSet({j \in 1 .. k : program[j].op = op})
    /\ Count(op, k) \in Nat
<1> SUFFICES ASSUME NEW op, NEW k \in Nat
             PROVE  /\ IsFiniteSet({j \in 1 .. k : program[j].op = op})
                    /\ Count(op, k) \in Nat
  OBVIOUS
<1>1. IsFiniteSet(1 .. k)
  BY FS_Interval
<1>2. {j \in 1 .. k : program[j].op = op} \in SUBSET (1 .. k)
  OBVIOUS
<1>3. IsFiniteSet({j \in 1 .. k : program[j].op = op})
  BY <1>1, <1>2, FS_Subset
<1> QED
  BY <1>3, FS_CardinalityType DEF Count

LEMMA CountStep ==
  \A op : \A k \in Nat :
    Count(op, k + 1) = Count(op, k) + (IF program[k + 1].op = op THEN 1 ELSE 0)
<1> SUFFICES ASSUME NEW op, NEW k \in Nat
             PROVE  Count(op, k + 1) = Count(op, k) + (IF program[k + 1].op = op THEN 1 ELSE 0)
  OBVIOUS
<1> DEFINE S == {j \in 1 .. k : program[j].op = op}
           T == {j \in 1 .. k + 1 : program[j].op = op}
<1>1. IsFiniteSet(S)
  BY CountType
<1>2. k + 1 \notin S /\ Count(op, k) = Cardinality(S) /\ Count(op, k + 1) = Cardinality(T)
  BY DEF Count
<1>3. Cardinality(S) \in Nat
  BY CountType, <1>2
<1>4. \A j \in 1 .. k + 1 : j = k + 1 \/ j \in 1 .. k
  OBVIOUS
<1>5. k + 1 \in 1 .. k + 1 /\ \A j \in 1 .. k : j \in 1 .. k + 1
  OBVIOUS
<1>6. CASE program[k + 1].op = op
  <2>1. T = S \cup {k + 1}
    BY <1>4, <1>5, <1>6
  <2> HIDE DEF S, T
  <2>2. Cardinality(S \cup {k + 1}) = Cardinality(S) + 1
    BY <1>1, <1>2, FS_AddElement
  <2> QED
    BY <1>2, <1>6, <2>1, <2>2
<1>7. CASE program[k + 1].op # op
  <2>1. T = S
    BY <1>4, <1>5, <1>7
  <2> HIDE DEF S, T
  <2> QED
    BY <1>2, <1>3, <1>7, <2>1
<1> QED
  BY <1>6, <1>7

LEMMA OpenedStep ==
  /\ Opened(0) = 0
  /\ \A k \in Nat : Opened(k) \in Int
  /\ \A k \in Nat :
       Opened(k + 1) = Opened(k) + (IF program[k + 1].op = "if" THEN 1
                                    ELSE IF program[k + 1].op = "fi" THEN -1
                                    ELSE 0)
<1>1. \A k \in Nat : Count("if", k) \in Nat /\ Count("fi", k) \in Nat
  BY CountType
<1>2. ASSUME NEW op PROVE Count(op, 0) = 0
  <2>1. {j \in 1 .. 0 : program[j].op = op} = {}
    OBVIOUS
  <2> QED
    BY <2>1, FS_EmptySet DEF Count
<1>3. ASSUME NEW k \in Nat
      PROVE  Opened(k + 1) = Opened(k) + (IF program[k + 1].op = "if" THEN 1
                                          ELSE IF program[k + 1].op = "fi" THEN -1
                                          ELSE 0)
  <2>1. /\ Count("if", k + 1) = Count("if", k) + (IF program[k + 1].op = "if" THEN 1 ELSE 0)
        /\ Count("fi", k + 1) = Count("fi", k) + (IF program[k + 1].op = "fi" THEN 1 ELSE 0)
    BY CountStep
  <2> QED
    BY <1>1, <2>1 DEF Opened
<1> QED
  BY <1>1, <1>2, <1>3 DEF Opened
=============================================================================
