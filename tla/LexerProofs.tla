---------------------------- MODULE LexerProofs ----------------------------
(***************************************************************************)
(* What the lexer keeps of its input, for every set of characters and      *)
(* every bound on the length: lines and columns, the marks that error      *)
(* messages put under the operands of an operator, that nothing but blanks *)
(* is lost between tokens, and that a token is where its line and column   *)
(* say.                                                                    *)
(***************************************************************************)
EXTENDS Lexer, SequenceTheorems, FiniteSetTheorems, WellFoundedInduction, TLAPS

-----------------------------------------------------------------------------
(* Positions *)

(* A nonempty set of positions has a first one, and a last one. *)
LEMMA FirstNumber ==
  ASSUME NEW T \in SUBSET Nat, T # {}
  PROVE  \E m \in T : \A j \in T : m <= j
<1> DEFINE R == OpToRel(<, Nat)
<1>1. IsWellFoundedOn(R, Nat)
  BY NatLessThanWellFounded
<1>2. \E m \in T : \A j \in T : ~ (<<j, m>> \in R)
  <2> HIDE DEF R
  <2> QED BY <1>1, WFMin
<1>3. PICK m \in T : \A j \in T : ~ (j < m)
  BY <1>2 DEF OpToRel
<1> QED BY <1>3

LEMMA LastNumber ==
  ASSUME NEW n \in Nat, NEW T \in SUBSET (0 .. n), T # {}
  PROVE  \E m \in T : \A j \in T : j <= m
<1> DEFINE U == {n - t : t \in T}
<1>1. U \in SUBSET Nat /\ U # {}
  <2>1. PICK t \in T : TRUE
    OBVIOUS
  <2>2. n - t \in U
    BY <2>1
  <2>3. \A u \in U : u \in Nat
    OBVIOUS
  <2> QED BY <2>2, <2>3
<1>2. PICK x \in U : \A y \in U : x <= y
  <2> HIDE DEF U
  <2> QED BY <1>1, FirstNumber
<1>3. PICK m \in T : x = n - m
  OBVIOUS
<1>4. \A j \in T : j <= m
  BY <1>2, <1>3
<1> QED BY <1>4

LEMMA MinOf ==
  ASSUME NEW T \in SUBSET Nat, T # {}
  PROVE  Min(T) \in T /\ \A j \in T : Min(T) <= j
BY FirstNumber DEF Min

LEMMA MaxOf ==
  ASSUME NEW n \in Nat, NEW T \in SUBSET (0 .. n), T # {}
  PROVE  Max(T) \in T /\ \A j \in T : j <= Max(T)
<1>1. \E m \in T : \A j \in T : m >= j
  <2>1. PICK m \in T : \A j \in T : j <= m
    BY LastNumber
  <2> QED BY <2>1
<1>2. Max(T) \in T /\ \A j \in T : Max(T) >= j
  BY <1>1 DEF Max
<1> QED BY <1>2

-----------------------------------------------------------------------------
(* Reading to the end of a run *)

Input(s) == s \in Seq(Characters)

LEMMA PeekType ==
  ASSUME Input(source), NEW i \in 1 .. Len(source) + 1
  PROVE  /\ PeekChar(i) \in Characters \cup {EndOfFile}
         /\ i <= Len(source) => Peek(i) = source[i] /\ source[i] \in Characters
         /\ PeekChar(Len(source) + 1) = EndOfFile
         /\ PeekChar(i) # EndOfFile => i <= Len(source) /\ PeekChar(i) = source[i]
<1>1. Len(source) \in Nat /\ source \in [1 .. Len(source) -> Characters]
  BY LenProperties DEF Input
<1>2. ~ (Len(source) + 1 <= Len(source))
  BY <1>1
<1> QED BY <1>1, <1>2 DEF Peek, PeekChar, EndOfFile, HighByte

(* A run from i on ends at one of the characters behind i or at the end.    *)
LEMMA RunEnds ==
  ASSUME Input(source), NEW i \in 1 .. Len(source) + 1, NEW run, EndOfFile \notin run
  PROVE  /\ EndOfRun(i, run) \in i .. Len(source) + 1
         /\ PeekChar(EndOfRun(i, run)) \notin run
         /\ \A k \in i .. EndOfRun(i, run) - 1 : PeekChar(k) \in run
<1> DEFINE n == Len(source)
           T == {j \in i .. n + 1 : PeekChar(j) \notin run}
<1>1. n \in Nat
  BY LenProperties DEF Input
<1>2. n + 1 \in T
  BY <1>1, PeekType
<1>3. T \in SUBSET Nat
  BY <1>1
<1>4. PICK j \in T : \A k \in T : j <= k
  <2> HIDE DEF T
  <2> QED BY <1>2, <1>3, FirstNumber
<1>5. \A k \in i .. j - 1 : PeekChar(k) \in run
  BY <1>1, <1>4
<1>6. \E e \in i .. Len(source) + 1 :
        /\ PeekChar(e) \notin run
        /\ \A k \in i .. e - 1 : PeekChar(k) \in run
  BY <1>4, <1>5
<1> QED BY <1>6 DEF EndOfRun

LEMMA RunsEnd ==
  /\ EndOfFile \notin Blank /\ EndOfFile \notin InIdentifier
  /\ EndOfFile \notin InString /\ EndOfFile \notin InOperator
BY LexerAssumption DEF Blank, InIdentifier, InString, InOperator, EndOfFile, Newline, Return

(* The text read at i ends behind i, or at i when there is nothing to read. *)
LEMMA TextEnds ==
  ASSUME Input(source), NEW i \in 1 .. Len(source) + 1
  PROVE  EndOfText(i) \in i .. Len(source) + 1
<1> DEFINE n == Len(source)
<1>1. n \in Nat
  BY LenProperties DEF Input
<1>2. CASE PeekChar(i) = Quote
  <2> DEFINE j == EndOfRun(i + 1, InString)
  <2>1. i <= n
    BY <1>1, <1>2, PeekType DEF Quote, EndOfFile
  <2>2. i + 1 \in 1 .. Len(source) + 1
    BY <1>1, <2>1
  <2>3. j \in i + 1 .. n + 1 /\ j \in 1 .. Len(source) + 1
    <3>1. EndOfRun(i + 1, InString) \in i + 1 .. Len(source) + 1
      BY <2>2, RunEnds, RunsEnd, Zenon
    <3> HIDE DEF j
    <3>2. j \in i + 1 .. Len(source) + 1
      BY <3>1, Zenon DEF j
    <3> QED BY <1>1, <3>2
  <2>4. EndOfText(i) = IF PeekChar(j) = Quote THEN j + 1 ELSE j
    BY <1>2, Zenon DEF EndOfText, InIdentifier, Quote
  <2>5. PeekChar(j) = Quote => j <= n
    <3> HIDE DEF j
    <3> QED BY <1>1, <2>3, PeekType DEF Quote, EndOfFile
  <2> HIDE DEF j
  <2> QED BY <1>1, <2>3, <2>4, <2>5
<1>3. CASE PeekChar(i) # Quote /\ PeekChar(i) \in InIdentifier
  <2>1. EndOfText(i) = EndOfRun(i, InIdentifier)
    BY <1>3 DEF EndOfText, InIdentifier, Quote
  <2> QED BY <2>1, RunEnds, RunsEnd
<1>4. CASE PeekChar(i) \in {"(", ")"}
  <2>1. i <= n
    BY <1>1, <1>4, PeekType DEF EndOfFile
  <2>2. EndOfText(i) = i + 1
    BY <1>4 DEF EndOfText, InIdentifier, Quote
  <2> QED BY <1>1, <2>1, <2>2
<1>5. CASE PeekChar(i) # Quote /\ PeekChar(i) \notin InIdentifier /\ PeekChar(i) \notin {"(", ")"}
  <2>1. EndOfText(i) = EndOfRun(i, InOperator)
    BY <1>5 DEF EndOfText
  <2> QED BY <2>1, RunEnds, RunsEnd
<1> QED BY <1>2, <1>3, <1>4, <1>5

-----------------------------------------------------------------------------
(* Positions in their order *)

Upto(S, k) == {l \in S : l <= k}

LEMMA Counted ==
  ASSUME NEW m \in Nat, NEW S \in SUBSET (1 .. m)
  PROVE  /\ IsFiniteSet(S) /\ Cardinality(S) \in Nat /\ Cardinality(S) <= m
         /\ Cardinality(S) = 0 <=> S = {}
<1>1. IsFiniteSet(1 .. m) /\ Cardinality(1 .. m) = m
  BY FS_Interval
<1>2. IsFiniteSet(S) /\ Cardinality(S) <= m
  BY <1>1, FS_Subset, Zenon
<1> QED BY <1>2, FS_CardinalityType, FS_EmptySet

LEMMA CountUpto ==
  ASSUME NEW m \in Nat, NEW S \in SUBSET (1 .. m), NEW k \in Nat
  PROVE  /\ Cardinality(Upto(S, k)) \in Nat
         /\ Cardinality(Upto(S, 0)) = 0
         /\ Cardinality(Upto(S, k + 1)) =
              Cardinality(Upto(S, k)) + (IF k + 1 \in S THEN 1 ELSE 0)
<1>a. \A l \in S : l \in Nat /\ 1 <= l /\ l <= m
  OBVIOUS
<1>1. Upto(S, k) \in SUBSET (1 .. m)
  BY DEF Upto
<1>2. Cardinality(Upto(S, k)) \in Nat /\ IsFiniteSet(Upto(S, k))
  BY <1>1, Counted
<1>3. Upto(S, 0) = {}
  <2>1. \A l \in S : ~ (l <= 0)
    BY <1>a
  <2> QED BY <2>1 DEF Upto
<1>4. CASE k + 1 \in S
  <2>1. \A l \in S : l <= k + 1 <=> l <= k \/ l = k + 1
    BY <1>a
  <2>2. Upto(S, k + 1) = Upto(S, k) \cup {k + 1}
    BY <1>4, <2>1, ~ (k + 1 <= k), k + 1 <= k + 1 DEF Upto
  <2>3. k + 1 \notin Upto(S, k)
    BY DEF Upto
  <2>4. Cardinality(Upto(S, k + 1)) = Cardinality(Upto(S, k)) + 1
    BY <1>2, <2>2, <2>3, FS_AddElement
  <2> QED BY <1>2, <1>3, <1>4, <2>4, FS_EmptySet
<1>5. CASE k + 1 \notin S
  <2>1. \A l \in S : l <= k + 1 <=> l <= k
    BY <1>5, <1>a
  <2>2. Upto(S, k + 1) = Upto(S, k)
    BY <2>1 DEF Upto
  <2> QED BY <1>2, <1>3, <1>5, <2>2, FS_EmptySet
<1> QED BY <1>4, <1>5

(* Each number up to the size of a set of positions is the place of one.    *)
LEMMA NthExists ==
  ASSUME NEW m \in Nat, NEW S \in SUBSET (1 .. m), NEW n \in 1 .. Cardinality(S)
  PROVE  Nth(S, n) \in S /\ Cardinality(Upto(S, Nth(S, n))) = n
<1> DEFINE T == {k \in 0 .. m : n <= Cardinality(Upto(S, k))}
<1>a. \A l \in S : l \in Nat /\ 1 <= l /\ l <= m
  OBVIOUS
<1>1. m \in T
  <2>1. Upto(S, m) = S
    BY <1>a DEF Upto
  <2> QED BY <2>1, Counted
<1>2. PICK k \in T : \A j \in T : k <= j
  <2>1. T \in SUBSET Nat
    OBVIOUS
  <2> HIDE DEF T
  <2> QED BY <1>1, <2>1, FirstNumber
<1>3. n \in Nat \ {0}
  BY Counted
<1>4. k \in 0 .. m /\ n <= Cardinality(Upto(S, k))
  BY <1>2
<1>5. k # 0
  BY <1>3, <1>4, CountUpto
<1>6. k - 1 \in 0 .. m /\ ~ (n <= Cardinality(Upto(S, k - 1)))
  BY <1>2, <1>4, <1>5
<1>7. /\ Cardinality(Upto(S, k - 1)) \in Nat
      /\ Cardinality(Upto(S, k)) = Cardinality(Upto(S, k - 1)) + (IF k \in S THEN 1 ELSE 0)
  <2> DEFINE j == k - 1
  <2>1. j \in Nat /\ j + 1 = k
    BY <1>6
  <2> HIDE DEF j
  <2>2. /\ Cardinality(Upto(S, j)) \in Nat
        /\ Cardinality(Upto(S, j + 1)) = Cardinality(Upto(S, j)) + (IF j + 1 \in S THEN 1 ELSE 0)
    BY <2>1, CountUpto, ZenonT(40)
  <2> QED BY <2>1, <2>2 DEF j
<1>8. k \in S /\ Cardinality(Upto(S, k)) = n
  BY <1>3, <1>4, <1>6, <1>7
<1>9. \E l \in S : Cardinality(Upto(S, l)) = n
  BY <1>8
<1>10. Nth(S, n) = CHOOSE l \in S : Cardinality(Upto(S, l)) = n
  BY DEF Nth, Upto
<1> QED BY <1>9, <1>10

LEMMA CountGrows ==
  ASSUME NEW m \in Nat, NEW S \in SUBSET (1 .. m), NEW k \in S, NEW l \in S, k < l
  PROVE  Cardinality(Upto(S, k)) < Cardinality(Upto(S, l))
<1>a. \A i \in S : i \in Nat /\ 1 <= i /\ i <= m
  OBVIOUS
<1>1. Upto(S, l) \in SUBSET (1 .. m) /\ Upto(S, k) \in SUBSET (1 .. m)
  BY DEF Upto
<1>2. Upto(S, k) \in SUBSET Upto(S, l)
  <2>1. \A j \in S : j <= k => j <= l
    BY <1>a
  <2> QED BY <2>1 DEF Upto
<1>3. l \in Upto(S, l) /\ l \notin Upto(S, k)
  BY <1>a DEF Upto
<1>4. /\ Cardinality(Upto(S, k)) <= Cardinality(Upto(S, l))
      /\ Cardinality(Upto(S, k)) # Cardinality(Upto(S, l))
  BY <1>1, <1>2, <1>3, Counted, FS_Subset
<1>5. Cardinality(Upto(S, k)) \in Nat /\ Cardinality(Upto(S, l)) \in Nat
  BY <1>1, Counted
<1> QED BY <1>4, <1>5

(* And of one only. *)
LEMMA NthIs ==
  ASSUME NEW m \in Nat, NEW S \in SUBSET (1 .. m), NEW k \in S
  PROVE  /\ Cardinality(Upto(S, k)) \in 1 .. Cardinality(S)
         /\ Nth(S, Cardinality(Upto(S, k))) = k
<1> DEFINE n == Cardinality(Upto(S, k))
<1>a. \A l \in S : l \in Nat /\ 1 <= l /\ l <= m
  OBVIOUS
<1>1. Upto(S, k) \in SUBSET S /\ k \in Upto(S, k) /\ Upto(S, k) \in SUBSET (1 .. m)
  <2>1. k <= k
    BY <1>a
  <2> QED BY <2>1 DEF Upto
<1>2. n \in Nat /\ n # 0 /\ n <= Cardinality(S) /\ Cardinality(S) \in Nat
  BY <1>1, Counted, FS_Subset
<1>3. n \in 1 .. Cardinality(S)
  BY <1>2
<1>4. Nth(S, n) \in S /\ Cardinality(Upto(S, Nth(S, n))) = n
  BY <1>3, NthExists
<1>5. ~ (Nth(S, n) < k) /\ ~ (k < Nth(S, n))
  <2> DEFINE l == Nth(S, n)
  <2>1. l \in S /\ Cardinality(Upto(S, l)) = n
    BY <1>4
  <2> HIDE DEF l
  <2>2. /\ l < k => Cardinality(Upto(S, l)) < Cardinality(Upto(S, k))
        /\ k < l => Cardinality(Upto(S, k)) < Cardinality(Upto(S, l))
    BY <2>1, CountGrows
  <2>3. ~ (l < k) /\ ~ (k < l)
    BY <1>2, <2>1, <2>2
  <2> QED BY <2>3 DEF l
<1>6. Nth(S, n) \in 1 .. m /\ k \in 1 .. m
  BY <1>4
<1> QED BY <1>3, <1>5, <1>6

(* Positions before all others of a set are counted first.                  *)
LEMMA NthInitial ==
  ASSUME NEW m \in Nat, NEW S \in SUBSET (1 .. m), NEW A \in SUBSET S,
         \A a \in A, b \in S \ A : a < b, NEW n \in 1 .. Cardinality(A)
  PROVE  Nth(S, n) = Nth(A, n)
<1> DEFINE k == Nth(A, n)
<1>1. A \in SUBSET (1 .. m)
  OBVIOUS
<1>2. k \in A /\ Cardinality(Upto(A, k)) = n
  BY <1>1, NthExists
<1> HIDE DEF k
<1>3. \A l \in S : l \in Nat
  OBVIOUS
<1>4. \A l \in S : l <= k => l \in A
  BY <1>2, <1>3
<1>5. Upto(S, k) = Upto(A, k)
  BY <1>4 DEF Upto
<1>6. k \in S /\ Cardinality(Upto(S, k)) = n
  BY <1>2, <1>5
<1>7. Nth(S, Cardinality(Upto(S, k))) = k
  BY <1>6, NthIs
<1> QED BY <1>6, <1>7 DEF k

(* And positions behind all others last. *)
LEMMA NthBehind ==
  ASSUME NEW m \in Nat, NEW A \in SUBSET (1 .. m), NEW B \in SUBSET (1 .. m),
         \A a \in A, b \in B : a < b
  PROVE  /\ Cardinality(A \cup B) = Cardinality(A) + Cardinality(B)
         /\ \A n \in 1 .. Cardinality(B) : Nth(A \cup B, Cardinality(A) + n) = Nth(B, n)
<1> DEFINE S == A \cup B
<1>1. \A l \in S : l \in Nat
  OBVIOUS
<1>2. \A l \in A : l \notin B
  BY <1>1
<1>3. A \cap B = {}
  BY <1>2
<1>4. S \in SUBSET (1 .. m)
  OBVIOUS
<1>5. IsFiniteSet(A) /\ IsFiniteSet(B) /\ Cardinality(A) \in Nat /\ Cardinality(B) \in Nat
  BY Counted
<1>6. Cardinality(A \cup B) = Cardinality(A) + Cardinality(B)
  <2>1. Cardinality(A \cup B) = Cardinality(A) + Cardinality(B) - Cardinality(A \cap B)
    BY <1>5, FS_Union
  <2>2. Cardinality(A \cap B) = 0
    BY <1>3, FS_EmptySet
  <2> QED BY <1>5, <2>1, <2>2
<1>7. ASSUME NEW n \in 1 .. Cardinality(B)
      PROVE  Nth(S, Cardinality(A) + n) = Nth(B, n)
  <2> DEFINE k == Nth(B, n)
             U == Upto(B, k)
  <2>1. k \in B /\ Cardinality(U) = n
    BY NthExists
  <2>2. \A l \in A : l < k
    BY <2>1
  <2>3. U \in SUBSET (1 .. m) /\ A \cap U = {}
    BY <1>2 DEF Upto
  <2>4. IsFiniteSet(U) /\ Cardinality(U) \in Nat
    BY <2>3, Counted
  <2> HIDE DEF k
  <2>5. Upto(S, k) = A \cup U
    <3>1. \A l \in A : l <= k
      BY <1>1, <2>1, <2>2
    <3> QED BY <3>1 DEF Upto
  <2> HIDE DEF U, S
  <2>6. Cardinality(Upto(S, k)) = Cardinality(A) + n
    <3>1. Cardinality(A \cup U) = Cardinality(A) + Cardinality(U) - Cardinality(A \cap U)
      BY <1>5, <2>4, FS_Union
    <3>2. Cardinality(A \cap U) = 0
      BY <2>3, FS_EmptySet
    <3> QED BY <1>5, <2>1, <2>4, <2>5, <3>1, <3>2
  <2>7. k \in S
    BY <2>1 DEF S
  <2>8. Nth(S, Cardinality(Upto(S, k))) = k
    BY <1>4, <2>7, NthIs
  <2> QED BY <2>6, <2>8 DEF k
<1> QED BY <1>6, <1>7

Shifted(B, a) == {a + k : k \in B}

LEMMA ShiftedCount ==
  ASSUME NEW m \in Nat, NEW B \in SUBSET (1 .. m), NEW a \in Nat
  PROVE  Cardinality(Shifted(B, a)) = Cardinality(B)
<1> DEFINE T == Shifted(B, a)
           f == [k \in B |-> a + k]
<1>1. \A k \in B : k \in Nat
  OBVIOUS
<1>2. f \in Injection(B, T)
  <2>1. f \in [B -> T]
    BY DEF Shifted
  <2>2. \A k, l \in B : f[k] = f[l] => k = l
    BY <1>1
  <2> HIDE DEF f, T
  <2> QED BY <2>1, <2>2 DEF Injection, IsInjective
<1>3. f \in Surjection(B, T)
  <2>1. f \in [B -> T] /\ \A t \in T : \E k \in B : f[k] = t
    BY DEF Shifted
  <2> HIDE DEF f, T
  <2> QED BY <2>1 DEF Surjection
<1>4. ExistsBijection(B, T)
  <2> HIDE DEF f, T
  <2> QED BY <1>2, <1>3 DEF ExistsBijection, Bijection
<1>5. IsFiniteSet(B)
  BY Counted
<1> HIDE DEF T
<1>6. Cardinality(T) = Cardinality(B)
  BY <1>4, <1>5, FS_Bijection
<1> QED BY <1>6 DEF T

LEMMA NthShifted ==
  ASSUME NEW m \in Nat, NEW B \in SUBSET (1 .. m), NEW a \in Nat, NEW n \in 1 .. Cardinality(B)
  PROVE  Nth(Shifted(B, a), n) = a + Nth(B, n)
<1> DEFINE k == Nth(B, n)
           T == Shifted(B, a)
           p == a + m
<1>1. k \in B /\ Cardinality(Upto(B, k)) = n
  BY NthExists
<1> HIDE DEF k
<1>2. \A l \in B : l \in Nat /\ 1 <= l /\ l <= m
  OBVIOUS
<1>3. p \in Nat /\ T \in SUBSET (1 .. p)
  <2>1. \A l \in B : a + l \in 1 .. a + m
    BY <1>2
  <2> QED BY <2>1 DEF Shifted
<1>4. a + k \in T
  BY <1>1 DEF Shifted
<1>5. Upto(T, a + k) = Shifted(Upto(B, k), a)
  <2>1. \A l \in B : a + l <= a + k <=> l <= k
    BY <1>1, <1>2
  <2>2. \A t \in T : t <= a + k => \E l \in B : l <= k /\ t = a + l
    BY <2>1 DEF Shifted
  <2> HIDE DEF T
  <2>3. \A l \in B : l <= k => a + l \in T /\ a + l <= a + k
    BY <2>1 DEF T, Shifted
  <2> QED BY <2>2, <2>3 DEF Upto, Shifted
<1>6. Cardinality(Shifted(Upto(B, k), a)) = n
  <2>1. Upto(B, k) \in SUBSET (1 .. m)
    BY DEF Upto
  <2> QED BY <1>1, <2>1, ShiftedCount
<1> HIDE DEF T, p
<1>7. Nth(T, Cardinality(Upto(T, a + k))) = a + k
  BY <1>3, <1>4, NthIs
<1> QED BY <1>5, <1>6, <1>7 DEF T, k

(* A set of positions that has the first p has them in their places.        *)
LEMMA NthWhole ==
  ASSUME NEW m \in Nat, NEW S \in SUBSET (1 .. m), NEW p \in Nat, 1 .. p \in SUBSET S
  PROVE  p <= Cardinality(S) /\ \A n \in 1 .. p : Nth(S, n) = n
<1>1. IsFiniteSet(1 .. p) /\ Cardinality(1 .. p) = p
  BY FS_Interval
<1>2. p <= Cardinality(S)
  <2>1. IsFiniteSet(S)
    BY Counted
  <2> QED BY <1>1, <2>1, FS_Subset
<1>3. ASSUME NEW n \in 1 .. p
      PROVE  Nth(S, n) = n
  <2>1. \A l \in S : l \in Nat /\ 1 <= l
    OBVIOUS
  <2>2. \A l \in S : l <= n => l \in 1 .. n
    BY <2>1
  <2>3. \A l \in 1 .. n : l \in S /\ l <= n
    OBVIOUS
  <2>4. Upto(S, n) = 1 .. n
    BY <2>2, <2>3 DEF Upto
  <2>5. Cardinality(1 .. n) = n
    <3>1. n \in Int /\ ~ (1 > n) /\ (n - 1) + 1 = n
      OBVIOUS
    <3> QED BY <3>1, FS_Interval
  <2>6. n \in S
    BY <2>3
  <2>7. Nth(S, Cardinality(Upto(S, n))) = n
    BY <2>6, NthIs
  <2> QED BY <2>4, <2>5, <2>7
<1> QED BY <1>2, <1>3

-----------------------------------------------------------------------------
(* What is left of a sequence without some of its elements *)

Kept(s, out) == {k \in DOMAIN s : s[k] \notin out}

LEMMA KeptIs ==
  ASSUME NEW C, NEW s \in Seq(C), NEW out
  PROVE  /\ Len(s) \in Nat
         /\ Kept(s, out) \in SUBSET (1 .. Len(s))
         /\ Kept(s, out) = {k \in 1 .. Len(s) : s[k] \notin out}
         /\ Cardinality(Kept(s, out)) \in Nat
         /\ Without(s, out) = [n \in 1 .. Cardinality(Kept(s, out)) |-> s[Nth(Kept(s, out), n)]]
<1>1. Len(s) \in Nat /\ DOMAIN s = 1 .. Len(s)
  BY LenProperties
<1>2. Kept(s, out) = {k \in 1 .. Len(s) : s[k] \notin out}
  BY <1>1 DEF Kept
<1>3. Kept(s, out) \in SUBSET (1 .. Len(s))
  BY <1>2
<1>4. Cardinality(Kept(s, out)) \in Nat
  BY <1>1, <1>3, Counted
<1>5. Without(s, out) = [n \in 1 .. Cardinality(Kept(s, out)) |-> s[Nth(Kept(s, out), n)]]
  BY DEF Without, Kept
<1> QED BY <1>1, <1>2, <1>3, <1>4, <1>5

(* A function on 1 .. n is a sequence of length n. *)
LEMMA FunctionIsSequence ==
  ASSUME NEW C, NEW n \in Nat, NEW f \in [1 .. n -> C]
  PROVE  f \in Seq(C) /\ Len(f) = n
OBVIOUS

LEMMA WithoutType ==
  ASSUME NEW C, NEW s \in Seq(C), NEW out
  PROVE  /\ Without(s, out) \in Seq(C)
         /\ Len(Without(s, out)) = Cardinality(Kept(s, out))
         /\ \A n \in 1 .. Cardinality(Kept(s, out)) : Without(s, out)[n] = s[Nth(Kept(s, out), n)]
<1> DEFINE K == Kept(s, out)
           c == Cardinality(K)
           w == Without(s, out)
<1>1. /\ Len(s) \in Nat /\ K \in SUBSET (1 .. Len(s)) /\ c \in Nat
      /\ w = [n \in 1 .. c |-> s[Nth(K, n)]]
  BY KeptIs
<1> HIDE DEF K, w
<1>2. \A n \in 1 .. c : s[Nth(K, n)] \in C
  <2>1. \A n \in 1 .. c : Nth(K, n) \in K
    BY <1>1, NthExists
  <2> QED BY <1>1, <2>1, ElementOfSeq
<1> HIDE DEF c
<1>3. w \in [1 .. c -> C]
  BY <1>1, <1>2
<1>4. w \in Seq(C) /\ Len(w) = c
  BY <1>1, <1>3, FunctionIsSequence
<1> QED BY <1>1, <1>4 DEF w, c, K

(* What is left of two sequences in a row is what is left of each. *)
LEMMA WithoutConcat ==
  ASSUME NEW C, NEW s \in Seq(C), NEW t \in Seq(C), NEW out
  PROVE  Without(s \o t, out) = Without(s, out) \o Without(t, out)
<1> DEFINE A == Kept(s, out)
           B == Kept(t, out)
           S == Kept(s \o t, out)
           p == Len(s)
           q == Len(t)
           a == Cardinality(A)
           b == Cardinality(B)
           T == Shifted(B, p)
           u == s \o t
           v == Without(s, out)
           w == Without(t, out)
<1>1. /\ p \in Nat /\ q \in Nat
      /\ u \in Seq(C) /\ Len(u) = p + q
      /\ \A i \in 1 .. p + q : u[i] = IF i <= p THEN s[i] ELSE t[i - p]
  BY LenProperties, ConcatProperties
<1>2. /\ A \in SUBSET (1 .. p) /\ a \in Nat
      /\ A = {k \in 1 .. p : s[k] \notin out}
  BY KeptIs
<1>3. /\ B \in SUBSET (1 .. q) /\ b \in Nat
      /\ B = {k \in 1 .. q : t[k] \notin out}
  BY KeptIs
<1>4. S = {k \in 1 .. p + q : u[k] \notin out}
  <2> HIDE DEF u
  <2>1. Kept(u, out) = {k \in 1 .. Len(u) : u[k] \notin out}
    BY <1>1, KeptIs
  <2> QED BY <1>1, <2>1 DEF u
<1>5. /\ v \in Seq(C) /\ Len(v) = a
      /\ \A n \in 1 .. a : v[n] = s[Nth(A, n)]
  BY WithoutType
<1>6. /\ w \in Seq(C) /\ Len(w) = b
      /\ \A n \in 1 .. b : w[n] = t[Nth(B, n)]
  BY WithoutType
<1>7. /\ Without(u, out) \in Seq(C) /\ Len(Without(u, out)) = Cardinality(S)
      /\ \A n \in 1 .. Cardinality(S) : Without(u, out)[n] = u[Nth(S, n)]
  <2> HIDE DEF u
  <2>1. S = Kept(u, out)
    BY DEF u
  <2> HIDE DEF S
  <2> QED BY <1>1, <2>1, WithoutType
<1>8. /\ v \o w \in Seq(C) /\ Len(v \o w) = a + b
      /\ \A n \in 1 .. a + b : (v \o w)[n] = IF n <= a THEN v[n] ELSE w[n - a]
  <2> HIDE DEF v, w, a, b
  <2> QED BY <1>5, <1>6, ConcatProperties
<1> HIDE DEF A, B, S, p, q, u, v, w
<1>9. T \in SUBSET (1 .. p + q) /\ \A k \in T : p < k
  <2>1. \A k \in B : p + k \in 1 .. p + q /\ p < p + k
    BY <1>1, <1>3
  <2> QED BY <2>1 DEF Shifted
<1>10. S = A \cup T
  <2>1. \A k \in S : k \in A \/ k \in T
    <3> SUFFICES ASSUME NEW k \in S PROVE k \in A \/ k \in T
      OBVIOUS
    <3>1. k \in 1 .. p + q /\ u[k] \notin out
      BY <1>4
    <3>2. CASE k <= p
      <4>1. k \in 1 .. p /\ u[k] = s[k]
        BY <1>1, <3>1, <3>2
      <4> QED BY <1>2, <3>1, <4>1
    <3>3. CASE ~ (k <= p)
      <4> DEFINE j == k - p
      <4>1. u[k] = t[j]
        BY <1>1, <3>1, <3>3
      <4>2. j \in 1 .. q /\ k = p + j
        BY <1>1, <3>1, <3>3
      <4> HIDE DEF j
      <4>3. j \in B
        BY <1>3, <3>1, <4>1, <4>2
      <4> QED BY <4>2, <4>3 DEF Shifted
    <3> QED BY <3>2, <3>3
  <2>2. \A k \in A : k \in S
    <3> SUFFICES ASSUME NEW k \in A PROVE k \in S
      OBVIOUS
    <3>1. k \in 1 .. p /\ s[k] \notin out
      BY <1>2
    <3>2. k \in 1 .. p + q /\ u[k] = s[k]
      BY <1>1, <3>1
    <3> QED BY <1>4, <3>1, <3>2
  <2>3. \A k \in B : p + k \in S
    <3> SUFFICES ASSUME NEW k \in B PROVE p + k \in S
      OBVIOUS
    <3>1. k \in 1 .. q /\ t[k] \notin out
      BY <1>3
    <3>2. p + k \in 1 .. p + q /\ ~ (p + k <= p) /\ (p + k) - p = k
      BY <1>1, <3>1
    <3>3. u[p + k] = t[k]
      BY <1>1, <3>2
    <3> QED BY <1>4, <3>1, <3>2, <3>3
  <2> QED BY <2>1, <2>2, <2>3 DEF Shifted
<1>11. A \in SUBSET (1 .. p + q) /\ S \in SUBSET (1 .. p + q) /\ p + q \in Nat
  BY <1>1, <1>2, <1>4
<1>12. Cardinality(T) = b
  BY <1>3, <1>1, ShiftedCount
<1> HIDE DEF T
<1>13. \A k \in A, l \in T : k < l
  <2>1. \A k \in A : k <= p /\ k \in Nat
    BY <1>1, <1>2
  <2>2. \A l \in T : l \in Nat
    BY <1>9
  <2> QED BY <1>1, <1>9, <2>1, <2>2
<1>14. /\ Cardinality(A \cup T) = a + b
       /\ \A n \in 1 .. b : Nth(A \cup T, a + n) = Nth(T, n)
  <2> DEFINE m == p + q
  <2>1. m \in Nat /\ A \in SUBSET (1 .. m) /\ T \in SUBSET (1 .. m)
    BY <1>9, <1>11
  <2> HIDE DEF m
  <2>2. /\ Cardinality(A \cup T) = Cardinality(A) + Cardinality(T)
        /\ \A n \in 1 .. Cardinality(T) : Nth(A \cup T, Cardinality(A) + n) = Nth(T, n)
    BY <1>13, <2>1, NthBehind, Zenon
  <2> QED BY <1>12, <2>2
<1>15. \A n \in 1 .. a : Nth(S, n) = Nth(A, n)
  <2>1. A \in SUBSET S /\ \A k \in A, l \in S \ A : k < l
    BY <1>10, <1>13
  <2> QED BY <1>11, <2>1, NthInitial
<1>16. ASSUME NEW n \in 1 .. a + b
       PROVE  u[Nth(S, n)] = (v \o w)[n]
  <2>1. CASE n <= a
    <3>1. n \in 1 .. a
      BY <1>2, <2>1
    <3> DEFINE k == Nth(A, n)
    <3>2. k \in A
      BY <1>2, <1>1, <3>1, NthExists
    <3> HIDE DEF k
    <3>3. k \in 1 .. p + q /\ k <= p
      BY <1>1, <1>2, <3>2
    <3>4. u[k] = s[k]
      BY <1>1, <3>3
    <3>5. (v \o w)[n] = s[k]
      BY <1>8, <1>5, <2>1, <3>1 DEF k
    <3> QED BY <1>15, <3>1, <3>4, <3>5 DEF k
  <2>2. CASE ~ (n <= a)
    <3> DEFINE j == n - a
               k == Nth(B, j)
    <3>1. j \in 1 .. b /\ n = a + j
      BY <1>2, <1>3, <2>2
    <3>2. (v \o w)[n] = w[j]
      BY <1>8, <2>2
    <3> HIDE DEF j
    <3>3. k \in B
      BY <1>1, <1>3, <3>1, NthExists
    <3>4. Nth(T, j) = p + k
      BY <1>1, <1>3, <3>1, NthShifted DEF T
    <3>5. Nth(S, n) = p + k
      BY <1>10, <1>14, <3>1, <3>4
    <3>6. w[j] = t[k]
      BY <1>6, <3>1
    <3> HIDE DEF k
    <3>7. k \in 1 .. q
      BY <1>3, <3>3
    <3>8. p + k \in 1 .. p + q /\ ~ (p + k <= p) /\ (p + k) - p = k
      BY <1>1, <3>7
    <3>9. u[p + k] = t[k]
      BY <1>1, <3>8
    <3> QED BY <3>2, <3>5, <3>6, <3>9
  <2> QED BY <2>1, <2>2
<1>17. Cardinality(S) = a + b
  BY <1>10, <1>14
<1> HIDE DEF a, b
<1>18. Without(u, out) = v \o w
  <2> DEFINE x == Without(u, out)
             y == v \o w
  <2>1. /\ x \in Seq(C) /\ y \in Seq(C) /\ Len(x) = Len(y)
        /\ \A n \in 1 .. Len(x) : x[n] = y[n]
    BY <1>7, <1>8, <1>16, <1>17
  <2> HIDE DEF x, y
  <2>2. x = y
    BY <2>1, SeqEqual
  <2> QED BY <2>2 DEF x, y
<1> QED BY <1>18 DEF u, v, w

LEMMA WithoutAll ==
  ASSUME NEW C, NEW s \in Seq(C), NEW out, \A k \in 1 .. Len(s) : s[k] \in out
  PROVE  Without(s, out) = << >>
<1>1. Kept(s, out) = {}
  BY KeptIs
<1>2. Cardinality(Kept(s, out)) = 0
  BY <1>1, FS_EmptySet
<1>3. Without(s, out) \in Seq(C) /\ Len(Without(s, out)) = 0
  BY <1>2, WithoutType
<1> QED BY <1>3, EmptySeq

(* A beginning from which nothing is dropped stays the beginning. *)
LEMMA WithoutBeginning ==
  ASSUME NEW C, NEW s \in Seq(C), NEW out, NEW p \in 0 .. Len(s),
         \A k \in 1 .. p : s[k] \notin out
  PROVE  p <= Len(Without(s, out)) /\ \A k \in 1 .. p : Without(s, out)[k] = s[k]
<1> DEFINE K == Kept(s, out)
           c == Cardinality(K)
<1>1. Len(s) \in Nat /\ K \in SUBSET (1 .. Len(s)) /\ c \in Nat
      /\ K = {k \in 1 .. Len(s) : s[k] \notin out}
  BY KeptIs
<1>2. p \in Nat /\ 1 .. p \in SUBSET K
  BY <1>1
<1>3. Len(Without(s, out)) = c /\ \A n \in 1 .. c : Without(s, out)[n] = s[Nth(K, n)]
  BY WithoutType
<1> HIDE DEF K
<1>4. p <= c /\ \A n \in 1 .. p : Nth(K, n) = n
  BY <1>1, <1>2, NthWhole
<1> HIDE DEF c
<1>5. \A n \in 1 .. p : n \in 1 .. c
  BY <1>1, <1>2, <1>4
<1> QED BY <1>3, <1>4, <1>5

-----------------------------------------------------------------------------
(* Types *)

Text == Seq(Characters)
Token == [value : Text, line : Nat \ {0}, column : Nat \ {0}]

(* The input and what was made of it so far. *)
ReadInv ==
  /\ Input(source)
  /\ at \in 1 .. Len(source) + 1
  /\ lines \in Seq(Text)
  /\ line = Len(lines)
  /\ line \in Nat \ {0}
  /\ column \in Nat \ {0}
  /\ tokens \in Seq(Token)

LEMMA LineIsText ==
  ASSUME Input(source), NEW i \in 1 .. Len(source) + 1
  PROVE  LineFrom(i) \in Text
<1> DEFINE n == Len(source)
           E == Newlines(i, n + 1) \cup {n + 1}
           end == Min(E)
           s == SubSeq(source, i, end - 1)
<1>1. n \in Nat /\ \A k \in 1 .. n : source[k] \in Characters
  BY LenProperties DEF Input
<1>2. E \in SUBSET (i .. n + 1) /\ n + 1 \in E
  BY <1>1 DEF Newlines
<1>3. end \in E
  <2> HIDE DEF E
  <2>1. E \in SUBSET Nat /\ E # {}
    BY <1>1, <1>2
  <2> QED BY <2>1, MinOf
<1>4. end \in i .. n + 1
  BY <1>2, <1>3
<1> HIDE DEF end
<1>5. s \in Seq(Characters)
  <2>1. \A k \in i .. end - 1 : source[k] \in Characters
    BY <1>1, <1>4
  <2>2. i \in Int /\ end - 1 \in Int
    BY <1>1, <1>4
  <2> QED BY <2>1, <2>2, SubSeqProperties
<1> HIDE DEF s
<1>6. Without(s, {Return}) \in Seq(Characters)
  BY <1>5, WithoutType
<1>7. LineFrom(i) = Without(s, {Return})
  BY DEF LineFrom, s, end
<1> QED BY <1>6, <1>7 DEF Text

(* moveHead skips the blanks and begins a line at each newline of them.     *)
Moved(seen, i, col, moved) ==
  /\ moved.at \in i .. Len(source) + 1
  /\ PeekChar(moved.at) \notin Blank
  /\ \A k \in i .. moved.at - 1 : PeekChar(k) \in Blank
  /\ moved.newer = Cardinality(Newlines(i, moved.at))
  /\ moved.newer \in Nat
  /\ moved.newer = 0 <=> Newlines(i, moved.at) = {}
  /\ moved.lines \in Seq(Text)
  /\ Len(moved.lines) = Len(seen) + moved.newer
  /\ \A k \in 1 .. Len(seen) : moved.lines[k] = seen[k]
  /\ \A k \in 1 .. moved.newer :
       moved.lines[Len(seen) + k] = LineFrom(Nth(Newlines(i, moved.at), k) + 1)
  /\ moved.column \in Nat \ {0}
  /\ moved.column = IF Newlines(i, moved.at) = {} THEN col + moved.at - i
                                                  ELSE moved.at - Max(Newlines(i, moved.at))

LEMMA HeadMoves ==
  ASSUME Input(source), NEW i \in 1 .. Len(source) + 1,
         NEW seen \in Seq(Text), NEW col \in Nat \ {0}
  PROVE  Moved(seen, i, col, MoveHead(seen, i, col))
<1> DEFINE moved == MoveHead(seen, i, col)
           n   == Len(source)
           end == EndOfRun(i, Blank)
           N   == Newlines(i, end)
           c   == Cardinality(N)
           new == [k \in 1 .. c |-> LineFrom(Nth(N, k) + 1)]
<1>1. n \in Nat
  BY LenProperties DEF Input
<1>2. /\ end \in i .. n + 1
      /\ PeekChar(end) \notin Blank
      /\ \A k \in i .. end - 1 : PeekChar(k) \in Blank
  BY RunEnds, RunsEnd, Zenon
<1>3. /\ moved.at = end
      /\ moved.lines = seen \o new
      /\ moved.newer = c
      /\ moved.column = IF N = {} THEN col + end - i ELSE end - Max(N)
  BY DEF MoveHead
<1> HIDE DEF end, moved
<1>4. N \in SUBSET (1 .. n) /\ \A k \in N : i <= k /\ k <= end - 1
  BY <1>1, <1>2 DEF Newlines
<1> HIDE DEF N
<1>5. c \in Nat /\ (c = 0 <=> N = {})
  BY <1>1, <1>4, Counted
<1>6. \A k \in 1 .. c : LineFrom(Nth(N, k) + 1) \in Text
  <2> SUFFICES ASSUME NEW k \in 1 .. c PROVE LineFrom(Nth(N, k) + 1) \in Text
    OBVIOUS
  <2> DEFINE x == Nth(N, k)
  <2>1. x \in N
    BY <1>1, <1>4, NthExists
  <2> HIDE DEF x
  <2>2. x + 1 \in 1 .. Len(source) + 1
    BY <1>1, <1>4, <2>1
  <2>3. LineFrom(x + 1) \in Text
    BY <2>2, LineIsText
  <2> QED BY <2>3 DEF x
<1> HIDE DEF c
<1>7. new \in Seq(Text) /\ Len(new) = c /\ \A k \in 1 .. c : new[k] = LineFrom(Nth(N, k) + 1)
  BY <1>5, <1>6, FunctionIsSequence
<1> HIDE DEF new
<1>8. /\ seen \o new \in Seq(Text)
      /\ Len(seen \o new) = Len(seen) + c
      /\ \A k \in 1 .. Len(seen) + c :
           (seen \o new)[k] = IF k <= Len(seen) THEN seen[k] ELSE new[k - Len(seen)]
  BY <1>7, ConcatProperties
<1>9. Len(seen) \in Nat
  BY LenProperties
<1>10. /\ \A k \in 1 .. Len(seen) : moved.lines[k] = seen[k]
       /\ \A k \in 1 .. c : moved.lines[Len(seen) + k] = LineFrom(Nth(N, k) + 1)
  <2>1. ASSUME NEW k \in 1 .. Len(seen)
        PROVE  moved.lines[k] = seen[k]
    <3>1. k \in 1 .. Len(seen) + c /\ k <= Len(seen)
      BY <1>5, <1>9
    <3> QED BY <1>3, <1>8, <3>1
  <2>2. ASSUME NEW k \in 1 .. c
        PROVE  moved.lines[Len(seen) + k] = LineFrom(Nth(N, k) + 1)
    <3> DEFINE j == Len(seen) + k
    <3>1. j \in 1 .. Len(seen) + c /\ ~ (j <= Len(seen)) /\ j - Len(seen) = k
      BY <1>5, <1>9
    <3> HIDE DEF j
    <3>2. moved.lines[j] = new[k]
      BY <1>3, <1>8, <3>1
    <3> QED BY <1>7, <3>2 DEF j
  <2> QED BY <2>1, <2>2
<1>11. moved.column \in Nat \ {0}
  <2>1. CASE N = {}
    BY <1>1, <1>2, <1>3, <2>1
  <2>2. CASE N # {}
    <3>1. N \in SUBSET (0 .. n)
      BY <1>4
    <3>2. Max(N) \in N
      BY <1>1, <2>2, <3>1, MaxOf
    <3>3. Max(N) \in 1 .. n /\ Max(N) <= end - 1
      BY <1>4, <3>2
    <3> QED BY <1>1, <1>2, <1>3, <2>2, <3>3
  <2> QED BY <2>1, <2>2
<1>12. N = Newlines(i, end)
  BY DEF N
<1>13. Moved(seen, i, col, moved)
  BY <1>2, <1>3, <1>5, <1>8, <1>9, <1>10, <1>11, <1>12 DEF c, Moved
<1> QED BY <1>13 DEF moved

(* A step of get(), by what it reads. *)
Reads(end, moved) ==
  /\ end = EndOfText(at)
  /\ moved = MoveHead(lines, end, column + end - at)
  /\ tokens' = Append(tokens, [value |-> SubSeq(source, at, end - 1),
                               line |-> line, column |-> column])
  /\ at' = moved.at /\ lines' = moved.lines /\ column' = moved.column
  /\ line' = line + moved.newer
  /\ source' = source

LEMMA GetReads ==
  ASSUME Get
  PROVE  \E end, moved : Reads(end, moved)
BY DEF Get, Reads

(* The text that is read. *)
LEMMA TextRead ==
  ASSUME ReadInv, NEW end, end = EndOfText(at)
  PROVE  /\ end \in at .. Len(source) + 1
         /\ SubSeq(source, at, end - 1) \in Text
         /\ Len(SubSeq(source, at, end - 1)) = end - at
         /\ \A k \in 1 .. end - at : SubSeq(source, at, end - 1)[k] = source[at + k - 1]
         /\ SubSeq(source, at, end - 1) = << >> <=> end = at
<1> DEFINE n == Len(source)
           v == SubSeq(source, at, end - 1)
<1>1. n \in Nat /\ (\A k \in 1 .. n : source[k] \in Characters) /\ at \in 1 .. n + 1
  BY LenProperties DEF Input, ReadInv
<1>2. end \in at .. n + 1
  BY TextEnds DEF ReadInv
<1>3. /\ v \in Seq(Characters)
      /\ Len(v) = IF at <= end - 1 THEN (end - 1) - at + 1 ELSE 0
      /\ \A k \in 1 .. (end - 1) - at + 1 : v[k] = source[at + k - 1]
  <2>1. \A k \in at .. end - 1 : source[k] \in Characters
    BY <1>1, <1>2
  <2>2. at \in Int /\ end - 1 \in Int
    BY <1>1, <1>2
  <2> QED BY <2>1, <2>2, SubSeqProperties
<1> HIDE DEF v
<1>4. Len(v) = end - at /\ (end - 1) - at + 1 = end - at
  BY <1>1, <1>2, <1>3
<1>5. v = << >> <=> end = at
  <2>1. v = << >> => Len(v) = 0
    BY EmptySeq
  <2>2. v # << >> => Len(v) # 0
    BY <1>3, EmptySeq
  <2> QED BY <1>1, <1>2, <1>4, <2>1, <2>2
<1> QED BY <1>2, <1>3, <1>4, <1>5 DEF Text, v

(* What a step of get() leaves. *)
LEMMA ReadsWhat ==
  ASSUME ReadInv, NEW end, NEW moved, Reads(end, moved),
         NEW token, token = [value |-> SubSeq(source, at, end - 1), line |-> line, column |-> column]
  PROVE  /\ ReadInv'
         /\ end \in at .. Len(source) + 1 /\ at' \in end .. Len(source) + 1
         /\ token \in Token
         /\ Len(tokens) \in Nat
         /\ tokens' = Append(tokens, token)
         /\ Len(tokens') = Len(tokens) + 1
         /\ \A k \in 1 .. Len(tokens) : tokens'[k] = tokens[k]
         /\ tokens'[Len(tokens) + 1] = token
         /\ Len(token.value) = end - at
         /\ token.value = << >> <=> end = at
         /\ moved.newer \in Nat /\ line' = line + moved.newer
         /\ moved.newer = 0 => column' = column + at' - at
<1> DEFINE n == Len(source)
<1>1. /\ n \in Nat /\ Input(source) /\ at \in 1 .. n + 1 /\ lines \in Seq(Text)
      /\ line \in Nat \ {0} /\ column \in Nat \ {0} /\ tokens \in Seq(Token)
      /\ line = Len(lines)
  BY LenProperties DEF ReadInv, Input
<1>2. end = EndOfText(at)
  BY DEF Reads
<1>3. /\ end \in at .. n + 1
      /\ SubSeq(source, at, end - 1) \in Text
      /\ Len(SubSeq(source, at, end - 1)) = end - at
      /\ SubSeq(source, at, end - 1) = << >> <=> end = at
  BY <1>2, TextRead
<1>4. token \in Token /\ Len(token.value) = end - at /\ (token.value = << >> <=> end = at)
  BY <1>1, <1>3 DEF Token
<1>5. end \in 1 .. n + 1 /\ column + end - at \in Nat \ {0}
  BY <1>1, <1>3
<1>6. /\ moved.at \in end .. n + 1
      /\ moved.newer \in Nat
      /\ moved.newer = 0 <=> Newlines(end, moved.at) = {}
      /\ moved.lines \in Seq(Text)
      /\ Len(moved.lines) = Len(lines) + moved.newer
      /\ moved.column \in Nat \ {0}
      /\ moved.column = IF Newlines(end, moved.at) = {} THEN (column + end - at) + moved.at - end
                                                        ELSE moved.at - Max(Newlines(end, moved.at))
  <2> DEFINE col == column + end - at
  <2>1. moved = MoveHead(lines, end, col)
    BY DEF Reads
  <2>2. col \in Nat \ {0}
    BY <1>5
  <2> HIDE DEF col
  <2>3. Input(source) /\ end \in 1 .. Len(source) + 1 /\ lines \in Seq(Text)
    BY <1>1, <1>5
  <2>4. Moved(lines, end, col, moved)
    BY <2>3, <2>1, <2>2, HeadMoves, Zenon
  <2>5. moved.column = IF Newlines(end, moved.at) = {} THEN col + moved.at - end
                                                       ELSE moved.at - Max(Newlines(end, moved.at))
    BY <2>4 DEF Moved
  <2> QED BY <2>4, <2>5 DEF Moved, col
<1>7. /\ at' = moved.at /\ lines' = moved.lines /\ column' = moved.column
      /\ line' = line + moved.newer /\ source' = source
      /\ tokens' = Append(tokens, token)
  BY DEF Reads
<1>8. moved.newer = 0 => column' = column + at' - at
  BY <1>1, <1>3, <1>6, <1>7, SMTT(20)
<1>9. /\ Append(tokens, token) \in Seq(Token)
      /\ Len(Append(tokens, token)) = Len(tokens) + 1
      /\ \A k \in 1 .. Len(tokens) : Append(tokens, token)[k] = tokens[k]
      /\ Append(tokens, token)[Len(tokens) + 1] = token
  BY <1>1, <1>4, AppendProperties
<1>10. Len(tokens) \in Nat
  BY <1>1, LenProperties
<1>11. ReadInv'
  <2>1. at' \in 1 .. Len(source) + 1
    BY <1>1, <1>5, <1>6, <1>7
  <2>2. line' \in Nat \ {0}
    BY <1>1, <1>6, <1>7, SMTT(20)
  <2>3. line' = Len(lines')
    BY <1>1, <1>6, <1>7
  <2>4. lines' \in Seq(Text) /\ column' \in Nat \ {0} /\ tokens' \in Seq(Token)
    BY <1>6, <1>7, <1>9
  <2> QED BY <1>1, <1>7, <2>1, <2>2, <2>3, <2>4 DEF ReadInv
<1> QED BY <1>3, <1>4, <1>6, <1>7, <1>8, <1>9, <1>10, <1>11

(* The constructor, by what it reads. *)
Opens(moved) ==
  /\ moved = MoveHead(<<LineFrom(1)>>, 1, 1)
  /\ at = moved.at /\ lines = moved.lines /\ column = moved.column
  /\ line = 1 + moved.newer
  /\ tokens = << >>

LEMMA InitOpens ==
  ASSUME Init
  PROVE  Input(source) /\ \E moved : Opens(moved)
<1>1. PICK n \in 0 .. MaxLength : source \in [1 .. n -> Characters]
  BY DEF Init
<1>2. n \in Nat
  BY LexerAssumption
<1>3. source \in Seq(Characters)
  BY <1>1, <1>2, FunctionIsSequence
<1> QED BY <1>3 DEF Init, Input, Opens

LEMMA OpensWhat ==
  ASSUME Input(source), NEW moved, Opens(moved)
  PROVE  ReadInv
<1>1. Len(source) \in Nat
  BY LenProperties DEF Input
<1>2. 1 \in 1 .. Len(source) + 1
  BY <1>1
<1>3. <<LineFrom(1)>> \in Seq(Text) /\ Len(<<LineFrom(1)>>) = 1
  BY <1>2, LineIsText
<1> DEFINE seen == <<LineFrom(1)>>
<1>4. moved = MoveHead(seen, 1, 1)
  BY DEF Opens
<1> HIDE DEF seen
<1>5. Moved(seen, 1, 1, moved)
  <2>1. seen \in Seq(Text)
    BY <1>3 DEF seen
  <2>2. 1 \in Nat \ {0}
    OBVIOUS
  <2> QED BY <1>2, <1>4, <2>1, <2>2, HeadMoves, Zenon
<1>6. Len(seen) = 1
  BY <1>3 DEF seen
<1>7. << >> \in Seq(Token)
  BY EmptySeq
<1> QED BY <1>1, <1>5, <1>6, <1>7 DEF ReadInv, Opens, Moved

-----------------------------------------------------------------------------
(* Every token but the empty one at the end moves the head. *)

CountInv ==
  /\ \A k \in 1 .. Len(tokens) - 1 : tokens[k].value # << >>
  /\ Len(tokens) <= at - 1 + (IF AtEnd THEN 1 ELSE 0)

(* The tokens are in the order of their places, none over another, and the  *)
(* next one will be behind all of them.                                     *)
Before(token, l, c) ==
  \/ token.line < l
  \/ token.line = l /\ token.column + Len(token.value) <= c

OrderInv ==
  /\ \A k \in 1 .. Len(tokens) : Before(tokens[k], line, column)
  /\ \A k \in 1 .. Len(tokens) : \A j \in 1 .. k - 1 :
       Before(tokens[j], tokens[k].line, tokens[k].column)

PlaceInv == ReadInv /\ CountInv /\ OrderInv

LEMMA InitPlace ==
  ASSUME Init
  PROVE  PlaceInv
<1>1. Input(source)
  BY InitOpens
<1>2. PICK moved : Opens(moved)
  BY InitOpens
<1>3. ReadInv
  BY <1>1, <1>2, OpensWhat
<1>4. tokens = << >> /\ Len(tokens) = 0
  BY <1>2 DEF Opens
<1>5. Len(source) \in Nat /\ at \in 1 .. Len(source) + 1
  BY <1>3, LenProperties DEF ReadInv, Input
<1>6. ~ AtEnd
  BY <1>4 DEF AtEnd
<1>7. CountInv
  BY <1>4, <1>5, <1>6 DEF CountInv
<1>8. OrderInv
  BY <1>4 DEF OrderInv
<1> QED BY <1>3, <1>7, <1>8 DEF PlaceInv

LEMMA MoveAhead ==
  ASSUME NEW c \in Int, NEW i \in Int, NEW j \in Int, NEW k \in Int, i <= j, j <= k
  PROVE  c + (j - i) <= c + k - i /\ c <= c + k - i
OBVIOUS

LEMMA GetPlace ==
  ASSUME PlaceInv, Get
  PROVE  PlaceInv'
<1>1. PICK end, moved : Reads(end, moved)
  BY GetReads
<1> DEFINE token == [value |-> SubSeq(source, at, end - 1), line |-> line, column |-> column]
           n == Len(tokens)
<1>2. ReadInv /\ CountInv /\ OrderInv
  BY DEF PlaceInv
<1>3. token.line = line /\ token.column = column
  OBVIOUS
<1>4. /\ ReadInv'
      /\ end \in at .. Len(source) + 1 /\ at' \in end .. Len(source) + 1
      /\ token \in Token
      /\ n \in Nat
      /\ Len(tokens') = n + 1
      /\ \A k \in 1 .. n : tokens'[k] = tokens[k]
      /\ tokens'[n + 1] = token
      /\ Len(token.value) = end - at
      /\ token.value = << >> <=> end = at
      /\ moved.newer \in Nat /\ line' = line + moved.newer
      /\ moved.newer = 0 => column' = column + at' - at
  BY <1>1, <1>2, ReadsWhat
<1> HIDE DEF token, n
<1>5. /\ at \in Nat \ {0} /\ end \in Nat /\ at' \in Nat /\ at <= end /\ end <= at'
      /\ line \in Nat \ {0} /\ column \in Nat \ {0} /\ column' \in Nat /\ line' \in Nat
      /\ tokens \in Seq(Token) /\ n = Len(tokens)
  BY <1>2, <1>4, LenProperties, SMTT(20) DEF ReadInv, Input, n
<1>6. \A k \in 1 .. n : tokens[k] \in Token
  BY <1>5, ElementOfSeq
<1>7. ~ AtEnd
  BY DEF Get
<1>8. \A k \in 1 .. n : tokens[k].value # << >>
  <2> SUFFICES ASSUME NEW k \in 1 .. n PROVE tokens[k].value # << >>
    OBVIOUS
  <2>1. CASE k = n
    <3>1. tokens # << >>
      BY <1>5, <2>1, EmptySeq
    <3> QED BY <1>5, <1>7, <2>1, <3>1 DEF AtEnd, Last
  <2>2. CASE k # n
    <3>1. k \in 1 .. n - 1
      BY <1>4, <2>2
    <3> QED BY <1>2, <1>5, <3>1 DEF CountInv
  <2> QED BY <2>1, <2>2
<1>9. AtEnd' <=> end = at
  <2>1. tokens' # << >>
    BY <1>4, EmptySeq
  <2>2. Last(tokens') = token
    BY <1>4 DEF Last
  <2> QED BY <1>4, <2>1, <2>2 DEF AtEnd
<1>10. CountInv'
  <2>1. \A k \in 1 .. Len(tokens') - 1 : tokens'[k].value # << >>
    BY <1>4, <1>8
  <2>2. n <= at - 1
    BY <1>2, <1>4, <1>5, <1>7 DEF CountInv
  <2>3. Len(tokens') <= at' - 1 + (IF AtEnd' THEN 1 ELSE 0)
    BY <1>4, <1>5, <1>9, <2>2
  <2> QED BY <2>1, <2>3 DEF CountInv
<1>a. /\ line <= line'
      /\ line' = line => column + (end - at) <= column' /\ column <= column'
  <2> DEFINE d == moved.newer
  <2>1. d \in Nat /\ line' = line + d /\ (d = 0 => column' = column + at' - at)
    BY <1>4
  <2> HIDE DEF d
  <2>2. line <= line' /\ (line' = line => d = 0)
    BY <1>5, <2>1
  <2>3. d = 0 => column + (end - at) <= column' /\ column <= column'
    <3>1. SUFFICES ASSUME d = 0 PROVE column + (end - at) <= column' /\ column <= column'
      OBVIOUS
    <3>2. column' = column + at' - at
      BY <2>1, <3>1
    <3>3. column \in Int /\ at \in Int /\ end \in Int /\ at' \in Int /\ at <= end /\ end <= at'
      BY <1>5
    <3>4. column + (end - at) <= column + at' - at /\ column <= column + at' - at
      BY <3>3, MoveAhead, Zenon
    <3> QED BY <3>2, <3>4, Zenon
  <2> QED BY <2>2, <2>3
<1>11. ASSUME NEW t \in Token, Before(t, line, column)
       PROVE  Before(t, line', column')
  <2>1. t.line \in Nat /\ t.column \in Nat /\ Len(t.value) \in Nat
    BY LenProperties DEF Token, Text
  <2> QED BY <1>5, <1>a, <1>11, <2>1 DEF Before
<1>12. Before(token, line', column')
  BY <1>3, <1>4, <1>5, <1>a DEF Before
<1>13. \A k \in 1 .. n : Before(tokens[k], line, column)
  BY <1>2, <1>5 DEF OrderInv
<1>14. OrderInv'
  <2>1. ASSUME NEW k \in 1 .. n + 1
        PROVE  Before(tokens'[k], line', column')
    <3>1. CASE k = n + 1
      BY <1>4, <1>12, <3>1
    <3>2. CASE k # n + 1
      <4>1. k \in 1 .. n
        BY <1>4, <3>2
      <4>2. tokens'[k] = tokens[k] /\ tokens[k] \in Token /\ Before(tokens[k], line, column)
        BY <1>4, <1>6, <1>13, <4>1
      <4> QED BY <1>11, <4>2
    <3> QED BY <3>1, <3>2
  <2>2. ASSUME NEW k \in 1 .. n + 1, NEW j \in 1 .. k - 1
        PROVE  Before(tokens'[j], tokens'[k].line, tokens'[k].column)
    <3>1. j \in 1 .. n
      BY <1>4
    <3>2. tokens'[j] = tokens[j]
      BY <1>4, <3>1
    <3>3. CASE k = n + 1
      BY <1>3, <1>4, <1>13, <3>1, <3>2, <3>3
    <3>4. CASE k # n + 1
      <4>1. k \in 1 .. n
        BY <1>4, <3>4
      <4>2. tokens'[k] = tokens[k]
        BY <1>4, <4>1
      <4>3. Before(tokens[j], tokens[k].line, tokens[k].column)
        BY <1>2, <1>5, <4>1 DEF OrderInv
      <4> QED BY <3>2, <4>2, <4>3
    <3> QED BY <3>3, <3>4
  <2>3. \A k \in 1 .. Len(tokens') : Before(tokens'[k], line', column')
    BY <1>4, <2>1
  <2>4. \A k \in 1 .. Len(tokens') : \A j \in 1 .. k - 1 :
          Before(tokens'[j], tokens'[k].line, tokens'[k].column)
    BY <1>4, <2>2
  <2> QED BY <2>3, <2>4 DEF OrderInv, Before
<1> QED BY <1>4, <1>10, <1>14 DEF PlaceInv

LEMMA StepPlace ==
  ASSUME PlaceInv, [Next]_vars
  PROVE  PlaceInv'
<1>1. CASE Get
  BY <1>1, GetPlace
<1>2. CASE UNCHANGED vars
  BY <1>2 DEF vars, PlaceInv, ReadInv, Input, CountInv, AtEnd, OrderInv, Before
<1> QED BY <1>1, <1>2 DEF Next, Done

(* What the lexer has read is in the order of its places: inductive.        *)
THEOREM PlaceInductive == Spec => []PlaceInv
BY InitPlace, StepPlace, PTL DEF Spec

(* Every line that moveHead began is kept, a column is at least 1, and get  *)
(* never returns more tokens than there are characters and the end.         *)
THEOREM LexerTypes == Spec => []TypeOK
<1>1. PlaceInv => TypeOK
  <2> SUFFICES ASSUME PlaceInv PROVE TypeOK
    OBVIOUS
  <2>1. ReadInv /\ CountInv
    BY DEF PlaceInv
  <2>2. /\ Len(source) \in Nat /\ Len(tokens) \in Nat /\ at \in 1 .. Len(source) + 1
        /\ line = Len(lines) /\ column \in Nat \ {0}
    BY <2>1, LenProperties DEF ReadInv, Input
  <2>3. Len(tokens) <= at - 1 + (IF AtEnd THEN 1 ELSE 0)
    BY <2>1 DEF CountInv
  <2>4. Len(tokens) <= Len(source) + 1
    BY <2>2, <2>3
  <2>5. column >= 1
    BY <2>2
  <2> QED BY <2>2, <2>4, <2>5 DEF TypeOK
<1> QED BY <1>1, PlaceInductive, PTL

-----------------------------------------------------------------------------
(* The marks under two operands *)

LEMMA OneOf ==
  \A S \in SUBSET {1} : S # {} => Max(S) = 1 /\ S \ {1} = {}
<1> SUFFICES ASSUME NEW S \in SUBSET {1}, S # {} PROVE Max(S) = 1 /\ S \ {1} = {}
  OBVIOUS
<1>1. S = {1}
  OBVIOUS
<1>2. 1 \in S /\ \A y \in S : 1 >= y
  BY <1>1
<1>3. Max(S) \in S
  BY <1>2 DEF Max
<1> QED BY <1>1, <1>3

(* A fold over one element applies the operator once. *)
LEMMA FoldMin ==
  ASSUME NEW a, NEW b
  PROVE  FoldLeft(SetMin, a, <<b>>) = SetMin(a, b)
<1> DEFINE s == <<b>>
           iter == CHOOSE f : f = [S \in SUBSET {1} |->
                     IF S = {} THEN a ELSE SetMin(f[S \ {Max(S)}], s[Max(S)])]
           g == [S \in SUBSET {1} |-> IF S = {} THEN a ELSE SetMin(a, b)]
<1>1. DOMAIN s = {1} /\ s[1] = b
  OBVIOUS
<1>2. g = [S \in SUBSET {1} |-> IF S = {} THEN a ELSE SetMin(g[S \ {Max(S)}], s[Max(S)])]
  <2>1. \A S \in SUBSET {1} : S # {} => g[S \ {Max(S)}] = a /\ s[Max(S)] = b
    BY <1>1, OneOf
  <2> HIDE DEF s
  <2> QED BY <2>1
<1> HIDE DEF s, g
<1>3. iter = [S \in SUBSET {1} |-> IF S = {} THEN a ELSE SetMin(iter[S \ {Max(S)}], s[Max(S)])]
  BY <1>2
<1>4. FoldLeft(SetMin, a, s) = iter[{1}]
  BY <1>1 DEF FoldLeft, MapThenFoldSet
<1> HIDE DEF iter
<1>5. iter[{}] = a
  BY <1>3
<1>6. iter[{1}] = SetMin(iter[{1} \ {Max({1})}], s[Max({1})])
  BY <1>3
<1>7. Max({1}) = 1 /\ {1} \ {1} = {}
  BY OneOf
<1> QED BY <1>1, <1>4, <1>5, <1>6, <1>7 DEF s

LEMMA FoldMax ==
  ASSUME NEW a, NEW b
  PROVE  FoldLeft(SetMax, a, <<b>>) = SetMax(a, b)
<1> DEFINE s == <<b>>
           iter == CHOOSE f : f = [S \in SUBSET {1} |->
                     IF S = {} THEN a ELSE SetMax(f[S \ {Max(S)}], s[Max(S)])]
           g == [S \in SUBSET {1} |-> IF S = {} THEN a ELSE SetMax(a, b)]
<1>1. DOMAIN s = {1} /\ s[1] = b
  OBVIOUS
<1>2. g = [S \in SUBSET {1} |-> IF S = {} THEN a ELSE SetMax(g[S \ {Max(S)}], s[Max(S)])]
  <2>1. \A S \in SUBSET {1} : S # {} => g[S \ {Max(S)}] = a /\ s[Max(S)] = b
    BY <1>1, OneOf
  <2> HIDE DEF s
  <2> QED BY <2>1
<1> HIDE DEF s, g
<1>3. iter = [S \in SUBSET {1} |-> IF S = {} THEN a ELSE SetMax(iter[S \ {Max(S)}], s[Max(S)])]
  BY <1>2
<1>4. FoldLeft(SetMax, a, s) = iter[{1}]
  BY <1>1 DEF FoldLeft, MapThenFoldSet
<1> HIDE DEF iter
<1>5. iter[{}] = a
  BY <1>3
<1>6. iter[{1}] = SetMax(iter[{1} \ {Max({1})}], s[Max({1})])
  BY <1>3
<1>7. Max({1}) = 1 /\ {1} \ {1} = {}
  BY OneOf
<1> QED BY <1>1, <1>4, <1>5, <1>6, <1>7 DEF s

(* rangeVisitor, over the two tokens of an operand. *)
LEMMA RangeOfTwo ==
  ASSUME NEW a \in Token, NEW b \in Token
  PROVE  RangeOf(<<a, b>>) = <<SetMin(a, b), SetMax(a, b)>>
<1>1. <<a, b>>[1] = a /\ Tail(<<a, b>>) = <<b>>
  OBVIOUS
<1> DEFINE v == <<a, b>>
<1>2. RangeOf(v) = <<FoldLeft(SetMin, v[1], Tail(v)), FoldLeft(SetMax, v[1], Tail(v))>>
  BY DEF RangeOf
<1>3. v[1] = a /\ Tail(v) = <<b>>
  BY <1>1
<1> HIDE DEF v
<1>4. RangeOf(v) = <<FoldLeft(SetMin, a, <<b>>), FoldLeft(SetMax, a, <<b>>)>>
  BY <1>2, <1>3
<1> QED BY <1>4, FoldMin, FoldMax DEF v

(* Two ranges on one line, met in the wrong order. *)
LEMMA ReverseTwo ==
  ASSUME NEW a, NEW b
  PROVE  Reverse(<<a, b>>) = <<b, a>>
<1>1. Len(<<a, b>>) = 2
  OBVIOUS
<1>2. Reverse(<<a, b>>) = [i \in 1 .. 2 |-> <<a, b>>[(2 - i) + 1]]
  BY <1>1 DEF Reverse
<1>3. <<b, a>> = [i \in 1 .. 2 |-> IF i = 1 THEN b ELSE a]
  OBVIOUS
<1>4. \A i \in 1 .. 2 : <<a, b>>[(2 - i) + 1] = IF i = 1 THEN b ELSE a
  <2>1. \A i \in 1 .. 2 : i = 1 \/ i = 2
    OBVIOUS
  <2> QED BY <2>1
<1> QED BY <1>2, <1>3, <1>4

(* One operand has the tokens a to b, the other c to d. *)
Onward(a, b) == a = b \/ (a.line = b.line /\ a.column < b.column)

LEMMA WaveIs ==
  ASSUME NEW a \in Token, NEW b \in Token, Onward(a, b)
  PROVE  Wave(<<a, b>>) = b.column - a.column + Len(b.value)
<1>1. a.column \in Nat /\ b.column \in Nat /\ Len(a.value) \in Nat /\ Len(b.value) \in Nat
  BY LenProperties DEF Token, Text
<1>2. <<a, b>>[1] = a /\ <<a, b>>[2] = b
  OBVIOUS
<1> DEFINE r == <<a, b>>
<1>3. r[1] = a /\ r[2] = b
  BY <1>2
<1>4. Wave(r) = IF r[1] = r[2] THEN Len(r[1].value) ELSE r[2].column - r[1].column + Len(r[2].value)
  BY DEF Wave
<1> HIDE DEF r
<1>5. Wave(r) = IF a = b THEN Len(a.value) ELSE b.column - a.column + Len(b.value)
  BY <1>3, <1>4
<1>6. CASE a = b
  BY <1>1, <1>5, <1>6 DEF r
<1>7. CASE a # b
  BY <1>5, <1>7 DEF r
<1> QED BY <1>6, <1>7

LEMMA RangesAre ==
  ASSUME NEW a \in Token, NEW b \in Token, Onward(a, b)
  PROVE  RangeOf(<<a, b>>) = <<a, b>> /\ RangeOf(<<b, a>>) = <<a, b>>
<1>1. a.column \in Nat /\ b.column \in Nat /\ a.line \in Nat /\ b.line \in Nat
  BY DEF Token
<1>2. SetMin(a, b) = a /\ SetMax(a, b) = b /\ SetMin(b, a) = a /\ SetMax(b, a) = b
  BY <1>1 DEF SetMin, SetMax, Onward
<1> QED BY <1>2, RangeOfTwo

LEMMA MarksFit ==
  ASSUME NEW a \in Token, NEW b \in Token, NEW c \in Token, NEW d \in Token,
         Onward(a, b), Onward(c, d), a.column < c.column,
         b.column + Len(b.value) <= c.column,
         NEW marks, marks = Highlight(<<<<c, d>>, <<a, b>>>>)
  PROVE  /\ marks[1] = Margin + a.column - 1
         /\ marks[2] = b.column + Len(b.value) - a.column
         /\ marks[1] + marks[2] + marks[3] = Margin + c.column - 1
         /\ marks[4] = d.column + Len(d.value) - c.column
         /\ marks[1] >= 0 /\ marks[2] >= 0 /\ marks[3] >= 0
<1> DEFINE p == <<a, b>>
           q == <<c, d>>
           w == Wave(p)
<1>1. /\ a.column \in Nat \ {0} /\ b.column \in Nat \ {0}
      /\ c.column \in Nat \ {0} /\ d.column \in Nat \ {0}
      /\ Len(b.value) \in Nat /\ Len(d.value) \in Nat
  BY LenProperties DEF Token, Text
<1>2. w = b.column - a.column + Len(b.value) /\ Wave(q) = d.column - c.column + Len(d.value)
  BY WaveIs
<1>3. p[1] = a /\ q[1] = c
  OBVIOUS
<1> HIDE DEF p, q, w
<1> DEFINE r == <<q, p>>
<1>4. r[1] = q /\ r[2] = p
  OBVIOUS
<1>5. Reverse(r) = <<p, q>>
  BY ReverseTwo
<1> HIDE DEF r
<1> DEFINE sorted == IF r[2][1].column < r[1][1].column THEN Reverse(r) ELSE r
<1>6. sorted = <<p, q>>
  BY <1>3, <1>4, <1>5
<1>7. sorted[1] = p /\ sorted[2] = q
  BY <1>6
<1>8. Highlight(r) = <<Padding(sorted[1], FirstOffset), Wave(sorted[1]),
                       Padding(sorted[2], NextOffset(sorted[1], FirstOffset)), Wave(sorted[2])>>
  BY DEF Highlight
<1> HIDE DEF sorted
<1>9. marks = <<Padding(p, FirstOffset), Wave(p), Padding(q, NextOffset(p, FirstOffset)), Wave(q)>>
  BY <1>7, <1>8 DEF p, q, r
<1>10. /\ marks[1] = Padding(p, FirstOffset) /\ marks[2] = w
       /\ marks[3] = Padding(q, NextOffset(p, FirstOffset)) /\ marks[4] = Wave(q)
  BY <1>9 DEF w
<1>11. FirstOffset = -9 /\ Margin = 9
  BY DEF FirstOffset, Margin
<1>12. marks[1] = a.column - 1 + 9
  BY <1>1, <1>3, <1>10, <1>11 DEF Padding
<1>13. w \in Int
  BY <1>1, <1>2
<1>14. NextOffset(p, FirstOffset) = w + a.column - 1
  <2>1. NextOffset(p, FirstOffset) = -9 + w + a.column - 1 - (-9)
    BY <1>3, <1>11 DEF NextOffset, w
  <2> QED BY <1>1, <1>13, <2>1, SMTT(20)
<1>15. marks[3] = c.column - 1 - (w + a.column - 1)
  BY <1>3, <1>10, <1>14 DEF Padding
<1>16. Onward(a, b) => a.column <= b.column
  BY <1>1 DEF Onward
<1> HIDE DEF w
<1>17. marks[4] = d.column + Len(d.value) - c.column
  BY <1>1, <1>2, <1>10
<1> DEFINE x == a.column
           y == b.column
           z == c.column
           e == Len(b.value)
<1>18. /\ x \in Nat \ {0} /\ y \in Nat \ {0} /\ z \in Nat \ {0} /\ e \in Nat
       /\ x <= y /\ y + e <= z
       /\ w = y - x + e
       /\ marks[1] = x - 1 + 9 /\ marks[2] = w /\ marks[3] = z - 1 - (w + x - 1)
  BY <1>1, <1>2, <1>10, <1>12, <1>15, <1>16
<1> HIDE DEF x, y, z, e
<1>19. /\ marks[1] = 9 + x - 1
       /\ marks[2] = y + e - x
       /\ marks[3] = z - y - e
  BY <1>18
<1>20. /\ marks[1] + marks[2] + marks[3] = 9 + z - 1
       /\ marks[1] >= 0 /\ marks[2] >= 0 /\ marks[3] >= 0
  BY <1>18, <1>19
<1> QED BY <1>11, <1>17, <1>19, <1>20 DEF x, y, z, e

(* The blanks and marks under the two operands of a binary operator are     *)
(* never negative in number, and are under the operands' tokens, in         *)
(* whatever order rangeVisitor meets them (highlightMultiplesTokens).       *)
THEOREM MarksAreUnderTokens == Spec => []HighlightFits
<1>1. PlaceInv => HighlightFits
  <2> SUFFICES ASSUME PlaceInv, AtEnd,
                      NEW l \in DOMAIN tokens, NEW k \in 2 .. l, NEW j \in 1 .. k - 1, NEW i \in 1 .. j,
                      tokens[i].line = tokens[l].line,
                      NEW left, left = RangeOf(<<tokens[j], tokens[i]>>),
                      NEW right, right = RangeOf(<<tokens[k], tokens[l]>>),
                      NEW marks, marks = Highlight(<<right, left>>)
               PROVE  /\ \A n \in 1 .. 3 : marks[n] >= 0
                      /\ marks[1] = Margin + tokens[i].column - 1
                      /\ marks[2] = tokens[j].column + Len(tokens[j].value) - tokens[i].column
                      /\ marks[1] + marks[2] + marks[3] = Margin + tokens[k].column - 1
                      /\ marks[4] = tokens[l].column + Len(tokens[l].value) - tokens[k].column
    BY DEF HighlightFits
  <2> DEFINE n == Len(tokens)
  <2>1. ReadInv /\ CountInv /\ OrderInv
    BY DEF PlaceInv
  <2>2. n \in Nat /\ DOMAIN tokens = 1 .. n /\ \A m \in 1 .. n : tokens[m] \in Token
    BY <2>1, LenProperties, ElementOfSeq DEF ReadInv
  <2>3. /\ i \in 1 .. n /\ j \in 1 .. n /\ k \in 1 .. n /\ l \in 1 .. n
        /\ i <= j /\ j < k /\ k <= l
    BY <2>2
  <2>4. \A m \in 1 .. n : /\ tokens[m].line \in Nat /\ tokens[m].column \in Nat
                          /\ Len(tokens[m].value) \in Nat
    BY <2>2, LenProperties DEF Token, Text
  <2>5. \A m \in 1 .. n - 1 : Len(tokens[m].value) # 0
    <3>1. \A m \in 1 .. n - 1 : tokens[m].value # << >>
      BY <2>1 DEF CountInv
    <3>2. \A m \in 1 .. n : tokens[m].value \in Text
      BY <2>2 DEF Token
    <3>3. \A m \in 1 .. n - 1 : m \in 1 .. n
      BY <2>2
    <3> QED BY <3>1, <3>2, <3>3, EmptySeq DEF Text
  <2>6. \A x \in 1 .. n : \A y \in 1 .. n : x < y =>
          Before(tokens[x], tokens[y].line, tokens[y].column)
    <3> SUFFICES ASSUME NEW x \in 1 .. n, NEW y \in 1 .. n, x < y
                 PROVE  Before(tokens[x], tokens[y].line, tokens[y].column)
      OBVIOUS
    <3>1. x \in 1 .. y - 1
      OBVIOUS
    <3> QED BY <2>1, <3>1 DEF OrderInv
  <2> HIDE DEF n
  <2>7. \A x \in 1 .. n : \A y \in 1 .. n : x <= y => tokens[x].line <= tokens[y].line
    <3> SUFFICES ASSUME NEW x \in 1 .. n, NEW y \in 1 .. n, x <= y
                 PROVE  tokens[x].line <= tokens[y].line
      OBVIOUS
    <3>1. CASE x = y
      BY <2>4, <3>1
    <3>2. CASE x < y
      BY <2>4, <2>6, <3>2 DEF Before
    <3> QED BY <3>1, <3>2
  <2>8. tokens[j].line = tokens[i].line /\ tokens[k].line = tokens[i].line
    <3>1. /\ tokens[i].line <= tokens[j].line /\ tokens[j].line <= tokens[k].line
          /\ tokens[k].line <= tokens[l].line
      BY <2>2, <2>3, <2>7
    <3> QED BY <2>3, <2>4, <3>1
  <2>9. \A x \in 1 .. n : \A y \in 1 .. n : x < y /\ tokens[x].line = tokens[y].line =>
          /\ tokens[x].column + Len(tokens[x].value) <= tokens[y].column
          /\ tokens[x].column < tokens[y].column
    <3> SUFFICES ASSUME NEW x \in 1 .. n, NEW y \in 1 .. n, x < y, tokens[x].line = tokens[y].line
                 PROVE  /\ tokens[x].column + Len(tokens[x].value) <= tokens[y].column
                        /\ tokens[x].column < tokens[y].column
      OBVIOUS
    <3>1. x \in 1 .. n - 1
      BY <2>2
    <3>2. Len(tokens[x].value) # 0
      BY <2>5, <3>1
    <3>3. tokens[x].column + Len(tokens[x].value) <= tokens[y].column
      BY <2>4, <2>6 DEF Before
    <3> QED BY <2>4, <3>2, <3>3, SMTT(20)
  <2> DEFINE a == tokens[i]
             b == tokens[j]
             c == tokens[k]
             d == tokens[l]
  <2>10. a \in Token /\ b \in Token /\ c \in Token /\ d \in Token
    BY <2>2, <2>3
  <2>11. Onward(a, b) /\ Onward(c, d)
    <3>1. Onward(a, b)
      <4>1. CASE i = j
        BY <4>1 DEF Onward
      <4>2. CASE i # j
        <5>1. i < j
          BY <2>3, <4>2
        <5> QED BY <2>3, <2>8, <2>9, <5>1 DEF Onward
      <4> QED BY <4>1, <4>2
    <3>2. Onward(c, d)
      <4>1. CASE k = l
        BY <4>1 DEF Onward
      <4>2. CASE k # l
        <5>1. k < l
          BY <2>3, <4>2
        <5> QED BY <2>3, <2>8, <2>9, <5>1 DEF Onward
      <4> QED BY <4>1, <4>2
    <3> QED BY <3>1, <3>2
  <2>12. a.column < c.column /\ b.column + Len(b.value) <= c.column
    <3>1. i < k
      BY <2>3
    <3> QED BY <2>3, <2>8, <2>9, <3>1
  <2> HIDE DEF a, b, c, d
  <2>13. left = <<a, b>> /\ right = <<c, d>>
    <3>1. left = RangeOf(<<b, a>>) /\ right = RangeOf(<<c, d>>)
      BY DEF a, b, c, d
    <3> QED BY <2>10, <2>11, <3>1, RangesAre
  <2>14. marks = Highlight(<<<<c, d>>, <<a, b>>>>)
    BY <2>13
  <2>15. /\ marks[1] = Margin + a.column - 1
         /\ marks[2] = b.column + Len(b.value) - a.column
         /\ marks[1] + marks[2] + marks[3] = Margin + c.column - 1
         /\ marks[4] = d.column + Len(d.value) - c.column
         /\ marks[1] >= 0 /\ marks[2] >= 0 /\ marks[3] >= 0
    BY <2>10, <2>11, <2>12, <2>14, MarksFit
  <2>16. \A m \in 1 .. 3 : m = 1 \/ m = 2 \/ m = 3
    OBVIOUS
  <2> QED BY <2>15, <2>16 DEF a, b, c, d
<1> QED BY <1>1, PlaceInductive, PTL

-----------------------------------------------------------------------------
(* Texts one behind another *)

(* f gives for each i what the first i of the texts are together.           *)
Together(f, texts, n) == f = [i \in 1 .. n |-> IF i = 1 THEN texts[i] ELSE f[i - 1] \o texts[i]]

LEMMA TogetherIs ==
  ASSUME NEW texts, NEW n \in Nat, NEW f, Together(f, texts, n)
  PROVE  /\ DOMAIN f = 1 .. n
         /\ \A i \in 1 .. n : f[i] = IF i = 1 THEN texts[i] ELSE f[i - 1] \o texts[i]
BY DEF Together

LEMMA TogetherExists ==
  ASSUME NEW texts, NEW n \in Nat
  PROVE  \E f : Together(f, texts, n)
<1> DEFINE T == {m \in 0 .. n : \A f : ~ Together(f, texts, m)}
<1>1. SUFFICES T = {}
  OBVIOUS
<1>2. SUFFICES ASSUME T # {} PROVE FALSE
  OBVIOUS
<1>3. PICK m \in T : \A j \in T : m <= j
  <2>1. T \in SUBSET Nat
    OBVIOUS
  <2> HIDE DEF T
  <2> QED BY <1>2, <2>1, FirstNumber
<1>4. m \in 0 .. n /\ \A f : ~ Together(f, texts, m)
  OBVIOUS
<1>5. m # 0
  <2>1. Together([i \in 1 .. 0 |-> 0], texts, 0)
    BY DEF Together
  <2> QED BY <1>4, <2>1
<1>6. PICK f : Together(f, texts, m - 1)
  <2>1. m - 1 \in 0 .. n /\ m - 1 \notin T
    BY <1>3, <1>4, <1>5
  <2> QED BY <2>1
<1> DEFINE g == [i \in 1 .. m |-> IF i < m THEN f[i] ELSE IF i = 1 THEN texts[i] ELSE f[i - 1] \o texts[i]]
<1>7. \A i \in 1 .. m - 1 : f[i] = IF i = 1 THEN texts[i] ELSE f[i - 1] \o texts[i]
  <2>1. m - 1 \in Nat
    BY <1>4, <1>5
  <2> QED BY <1>6, <2>1, TogetherIs
<1>8. \A i \in 1 .. m : g[i] = IF i = 1 THEN texts[i] ELSE g[i - 1] \o texts[i]
  <2> SUFFICES ASSUME NEW i \in 1 .. m
               PROVE  g[i] = IF i = 1 THEN texts[i] ELSE g[i - 1] \o texts[i]
    OBVIOUS
  <2>1. i # 1 => i - 1 \in 1 .. m /\ i - 1 < m
    BY <1>4
  <2>2. i # 1 => g[i - 1] = f[i - 1]
    BY <2>1
  <2>3. CASE i < m
    <3>1. i \in 1 .. m - 1
      BY <1>4, <2>3
    <3>2. g[i] = f[i]
      BY <2>3
    <3> HIDE DEF g
    <3> QED BY <1>7, <2>2, <3>1, <3>2
  <2>4. CASE ~ (i < m)
    <3>1. g[i] = IF i = 1 THEN texts[i] ELSE f[i - 1] \o texts[i]
      BY <2>4
    <3> HIDE DEF g
    <3> QED BY <2>2, <3>1
  <2> QED BY <2>3, <2>4
<1>9. Together(g, texts, m)
  <2>1. g = [i \in 1 .. m |-> g[i]]
    OBVIOUS
  <2> HIDE DEF g
  <2> QED BY <1>8, <2>1 DEF Together
<1> QED BY <1>4, <1>9

(* It is determined by the first n of the texts.                            *)
LEMMA TogetherSame ==
  ASSUME NEW s, NEW t, NEW n \in Nat, NEW m \in Nat, n <= m,
         NEW f, Together(f, s, n), NEW g, Together(g, t, m),
         \A i \in 1 .. n : s[i] = t[i]
  PROVE  \A i \in 1 .. n : f[i] = g[i]
<1> DEFINE T == {i \in 1 .. n : f[i] # g[i]}
<1> SUFFICES ASSUME T # {} PROVE FALSE
  OBVIOUS
<1>1. PICK i \in T : \A j \in T : i <= j
  <2>1. T \in SUBSET Nat
    OBVIOUS
  <2> HIDE DEF T
  <2> QED BY <2>1, FirstNumber
<1>2. i \in 1 .. n /\ i \in 1 .. m /\ f[i] # g[i]
  OBVIOUS
<1>3. i # 1 => f[i - 1] = g[i - 1]
  <2> SUFFICES ASSUME i # 1 PROVE f[i - 1] = g[i - 1]
    OBVIOUS
  <2>1. i - 1 \in 1 .. n /\ ~ (i <= i - 1)
    BY <1>2
  <2>2. i - 1 \notin T
    BY <1>1, <2>1
  <2> QED BY <2>1, <2>2
<1>4. /\ f[i] = IF i = 1 THEN s[i] ELSE f[i - 1] \o s[i]
      /\ g[i] = IF i = 1 THEN t[i] ELSE g[i - 1] \o t[i]
  BY <1>2, TogetherIs
<1>5. s[i] = t[i]
  BY <1>2
<1> QED BY <1>2, <1>3, <1>4, <1>5

LEMMA TogetherType ==
  ASSUME NEW C, NEW n \in Nat, NEW texts, \A i \in 1 .. n : texts[i] \in Seq(C),
         NEW f, Together(f, texts, n)
  PROVE  \A i \in 1 .. n : f[i] \in Seq(C)
<1> DEFINE T == {i \in 1 .. n : f[i] \notin Seq(C)}
<1> SUFFICES ASSUME T # {} PROVE FALSE
  OBVIOUS
<1>1. PICK i \in T : \A j \in T : i <= j
  <2>1. T \in SUBSET Nat
    OBVIOUS
  <2> HIDE DEF T
  <2> QED BY <2>1, FirstNumber
<1>2. i \in 1 .. n /\ f[i] \notin Seq(C) /\ texts[i] \in Seq(C)
  OBVIOUS
<1>3. i # 1 => f[i - 1] \in Seq(C)
  <2> SUFFICES ASSUME i # 1 PROVE f[i - 1] \in Seq(C)
    OBVIOUS
  <2>1. i - 1 \in 1 .. n /\ ~ (i <= i - 1)
    BY <1>2
  <2>2. i - 1 \notin T
    BY <1>1, <2>1
  <2> QED BY <2>1, <2>2
<1>4. f[i] = IF i = 1 THEN texts[i] ELSE f[i - 1] \o texts[i]
  BY <1>2, TogetherIs
<1> QED BY <1>2, <1>3, <1>4, ConcatProperties

LEMMA FlattenIs ==
  ASSUME NEW texts, Len(texts) \in Nat \ {0}
  PROVE  \E f : Together(f, texts, Len(texts)) /\ FlattenSeq(texts) = f[Len(texts)]
<1> DEFINE n == Len(texts)
           f == CHOOSE f : Together(f, texts, n)
<1>1. FlattenSeq(texts) = f[n]
  BY DEF FlattenSeq, Together
<1>2. Together(f, texts, n)
  BY TogetherExists
<1> QED BY <1>1, <1>2

(* A text more. *)
LEMMA FlattenAppend ==
  ASSUME NEW C, NEW texts \in Seq(Seq(C)), NEW text \in Seq(C)
  PROVE  /\ FlattenSeq(texts) \in Seq(C)
         /\ FlattenSeq(Append(texts, text)) = FlattenSeq(texts) \o text
<1> DEFINE n == Len(texts)
           more == Append(texts, text)
<1>1. n \in Nat /\ \A i \in 1 .. n : texts[i] \in Seq(C)
  BY LenProperties
<1>2. /\ Len(more) = n + 1 /\ more[n + 1] = text
      /\ \A i \in 1 .. n : more[i] = texts[i]
  BY AppendProperties
<1> HIDE DEF more
<1>3. n + 1 \in Nat \ {0}
  BY <1>1
<1>4. PICK g : Together(g, more, n + 1) /\ FlattenSeq(more) = g[n + 1]
  BY <1>2, <1>3, FlattenIs
<1>5. g[n + 1] = IF n + 1 = 1 THEN more[n + 1] ELSE g[n] \o more[n + 1]
  <2>1. n + 1 \in 1 .. n + 1 /\ (n + 1) - 1 = n
    BY <1>1
  <2>2. \A i \in 1 .. n + 1 : g[i] = IF i = 1 THEN more[i] ELSE g[i - 1] \o more[i]
    BY <1>3, <1>4, TogetherIs
  <2> QED BY <2>1, <2>2
<1>6. CASE n = 0
  <2>1. texts = << >>
    BY <1>6, EmptySeq
  <2>2. FlattenSeq(texts) = << >>
    BY <1>6, <2>1 DEF FlattenSeq
  <2>3. << >> \o text = text
    BY ConcatEmptySeq
  <2>4. FlattenSeq(more) = text
    BY <1>2, <1>4, <1>5, <1>6
  <2> QED BY <2>2, <2>3, <2>4, EmptySeq DEF more
<1>7. CASE n # 0
  <2>1. PICK f : Together(f, texts, n) /\ FlattenSeq(texts) = f[n]
    BY <1>1, <1>7, FlattenIs
  <2>2. f[n] \in Seq(C)
    <3>1. n \in 1 .. n
      BY <1>1, <1>7
    <3> HIDE DEF n
    <3>2. \A i \in 1 .. n : f[i] \in Seq(C)
      BY <1>1, <2>1, TogetherType
    <3> QED BY <3>1, <3>2
  <2>3. f[n] = g[n]
    <3>1. n \in 1 .. n /\ n <= n + 1 /\ n + 1 \in Nat
      BY <1>1, <1>7
    <3>2. \A i \in 1 .. n : texts[i] = more[i]
      BY <1>2
    <3> HIDE DEF n
    <3> DEFINE p == n + 1
    <3>3. p \in Nat /\ n <= p /\ Together(g, more, p)
      BY <1>4, <3>1
    <3> HIDE DEF p
    <3>4. \A i \in 1 .. n : f[i] = g[i]
      <4>1. n \in Nat /\ Together(f, texts, n)
        BY <1>1, <2>1
      <4> HIDE DEF n
      <4>2. ASSUME NEW i \in 1 .. n
            PROVE  f[i] = g[i]
        BY <3>2, <3>3, <4>1, TogetherSame
      <4> QED BY <4>2
    <3> QED BY <3>1, <3>4
  <2>4. n + 1 # 1
    BY <1>1, <1>7
  <2> QED BY <1>2, <1>4, <1>5, <2>1, <2>2, <2>3, <2>4 DEF more
<1> QED BY <1>6, <1>7

-----------------------------------------------------------------------------
(* Nothing but blanks is lost *)

Values == [k \in DOMAIN tokens |-> tokens[k].value]

LEMMA ValuesType ==
  ASSUME ReadInv
  PROVE  Values \in Seq(Text) /\ Len(Values) = Len(tokens) /\ DOMAIN tokens = 1 .. Len(tokens)
<1>1. Len(tokens) \in Nat /\ DOMAIN tokens = 1 .. Len(tokens)
  BY LenProperties DEF ReadInv
<1>2. \A k \in 1 .. Len(tokens) : tokens[k].value \in Text
  <2>1. tokens \in Seq(Token)
    BY DEF ReadInv
  <2>2. \A k \in 1 .. Len(tokens) : tokens[k] \in Token
    BY <2>1, ElementOfSeq
  <2> QED BY <2>2 DEF Token
<1>3. Values \in [1 .. Len(tokens) -> Text]
  BY <1>1, <1>2 DEF Values
<1> QED BY <1>1, <1>3, FunctionIsSequence

(* A piece of the input. *)
LEMMA Piece ==
  ASSUME Input(source), NEW i \in 1 .. Len(source) + 1, NEW j \in i .. Len(source) + 1
  PROVE  /\ SubSeq(source, i, j - 1) \in Text
         /\ Len(SubSeq(source, i, j - 1)) = j - i
         /\ \A k \in 1 .. j - i : SubSeq(source, i, j - 1)[k] = source[i + k - 1]
<1> DEFINE n == Len(source)
           v == SubSeq(source, i, j - 1)
<1>1. n \in Nat /\ (\A k \in 1 .. n : source[k] \in Characters)
  BY LenProperties DEF Input
<1>2. /\ v \in Seq(Characters)
      /\ Len(v) = IF i <= j - 1 THEN (j - 1) - i + 1 ELSE 0
      /\ \A k \in 1 .. (j - 1) - i + 1 : v[k] = source[i + k - 1]
  <2>1. \A k \in i .. j - 1 : source[k] \in Characters
    BY <1>1
  <2>2. i \in Int /\ j - 1 \in Int
    BY <1>1
  <2> QED BY <2>1, <2>2, SubSeqProperties
<1> HIDE DEF v
<1>3. Len(v) = j - i /\ (j - 1) - i + 1 = j - i
  BY <1>1, <1>2
<1> QED BY <1>2, <1>3 DEF Text, v

LEMMA PiecesJoin ==
  ASSUME Input(source), NEW j \in 1 .. Len(source) + 1, NEW k \in j .. Len(source) + 1
  PROVE  SubSeq(source, 1, k - 1) = SubSeq(source, 1, j - 1) \o SubSeq(source, j, k - 1)
<1>1. Len(source) \in Nat /\ source \in Seq(Characters)
  BY LenProperties DEF Input
<1> DEFINE p == j - 1
           q == k - 1
<1>2. /\ 1 \in 1 .. Len(source) + 1 /\ p \in 1 - 1 .. Len(source) /\ q \in p .. Len(source)
      /\ p + 1 = j
  BY <1>1
<1> HIDE DEF p, q
<1>3. SubSeq(source, 1, p) \o SubSeq(source, p + 1, q) = SubSeq(source, 1, q)
  BY <1>1, <1>2, ConcatAdjacentSubSeq
<1> QED BY <1>2, <1>3 DEF p, q

(* A piece of blanks is nothing. *)
LEMMA BlanksAreNothing ==
  ASSUME Input(source), NEW i \in 1 .. Len(source) + 1, NEW j \in i .. Len(source) + 1,
         \A k \in i .. j - 1 : PeekChar(k) \in Blank
  PROVE  Without(SubSeq(source, i, j - 1), Blank) = << >>
<1> DEFINE v == SubSeq(source, i, j - 1)
<1>1. Len(source) \in Nat
  BY LenProperties DEF Input
<1>2. /\ v \in Text /\ Len(v) = j - i
      /\ \A k \in 1 .. j - i : v[k] = source[i + k - 1]
  BY Piece
<1> HIDE DEF v
<1>3. ASSUME NEW k \in 1 .. Len(v)
      PROVE  v[k] \in Blank
  <2> DEFINE m == i + k - 1
  <2>1. m \in i .. j - 1 /\ m \in 1 .. Len(source) + 1 /\ v[k] = source[m]
    BY <1>1, <1>2
  <2> HIDE DEF m
  <2>2. PeekChar(m) \in Blank
    BY <2>1
  <2>3. PeekChar(m) # EndOfFile
    BY <2>2, RunsEnd
  <2>4. PeekChar(m) = source[m]
    BY <2>1, <2>3, PeekType
  <2> QED BY <2>1, <2>2, <2>4
<1>4. Without(v, Blank) = << >>
  BY <1>2, <1>3, WithoutAll DEF Text
<1> QED BY <1>4 DEF v

LEMMA InitText ==
  ASSUME Init
  PROVE  OnlyBlanksLost
<1>1. Input(source)
  BY InitOpens
<1>2. PICK moved : Opens(moved)
  BY InitOpens
<1>3. ReadInv
  BY <1>1, <1>2, OpensWhat
<1>4. at \in 1 .. Len(source) + 1 /\ \A k \in 1 .. at - 1 : PeekChar(k) \in Blank
  <2> DEFINE seen == <<LineFrom(1)>>
  <2>1. 1 \in 1 .. Len(source) + 1
    BY <1>1, LenProperties DEF Input
  <2>2. seen \in Seq(Text)
    BY <1>1, <2>1, LineIsText
  <2>3. 1 \in Nat \ {0}
    OBVIOUS
  <2>4. moved = MoveHead(seen, 1, 1) /\ at = moved.at
    BY <1>2 DEF Opens
  <2> HIDE DEF seen
  <2>5. Moved(seen, 1, 1, moved)
    BY <1>1, <2>1, <2>2, <2>3, <2>4, HeadMoves, Zenon
  <2> QED BY <2>4, <2>5 DEF Moved
<1>5. Without(SubSeq(source, 1, at - 1), Blank) = << >>
  <2>1. 1 \in 1 .. Len(source) + 1 /\ at \in 1 .. Len(source) + 1
    BY <1>4
  <2> QED BY <1>1, <1>4, <2>1, BlanksAreNothing
<1>6. Values = << >>
  <2>1. Len(Values) = 0 /\ Values \in Seq(Text)
    BY <1>2, <1>3, ValuesType DEF Opens
  <2> QED BY <2>1, EmptySeq
<1>7. FlattenSeq(Values) = << >>
  BY <1>6 DEF FlattenSeq
<1>8. Without(<< >>, Blank) = << >>
  <2>1. << >> \in Seq(Characters) /\ Len(<< >>) = 0
    BY EmptySeq
  <2>2. \A k \in 1 .. Len(<< >>) : << >>[k] \in Blank
    BY <2>1
  <2> QED BY <2>1, <2>2, WithoutAll
<1> QED BY <1>5, <1>7, <1>8 DEF OnlyBlanksLost, Values

LEMMA GetText ==
  ASSUME ReadInv, OnlyBlanksLost, Get
  PROVE  OnlyBlanksLost'
<1>1. PICK end, moved : Reads(end, moved)
  BY GetReads
<1> DEFINE token == [value |-> SubSeq(source, at, end - 1), line |-> line, column |-> column]
           v == SubSeq(source, at, end - 1)
           w == SubSeq(source, end, at' - 1)
           done == SubSeq(source, 1, at - 1)
           read == SubSeq(source, 1, end - 1)
           flat == FlattenSeq(Values)
<1>2. /\ Input(source) /\ at \in 1 .. Len(source) + 1 /\ Len(source) \in Nat
      /\ line \in Nat \ {0} /\ column \in Nat \ {0} /\ lines \in Seq(Text)
  BY LenProperties DEF ReadInv, Input
<1>3. /\ ReadInv'
      /\ end \in at .. Len(source) + 1 /\ at' \in end .. Len(source) + 1
      /\ Len(tokens) \in Nat
      /\ Len(tokens') = Len(tokens) + 1
      /\ \A k \in 1 .. Len(tokens) : tokens'[k] = tokens[k]
      /\ tokens'[Len(tokens) + 1] = token
  BY <1>1, ReadsWhat
<1>4. token.value = v
  OBVIOUS
<1> HIDE DEF token
<1>5. source' = source
  BY <1>1 DEF Reads
<1>6. \A k \in end .. at' - 1 : PeekChar(k) \in Blank
  <2> DEFINE col == column + end - at
  <2>1. moved = MoveHead(lines, end, col) /\ at' = moved.at
    BY <1>1 DEF Reads
  <2>2. col \in Nat \ {0} /\ end \in 1 .. Len(source) + 1
    BY <1>2, <1>3
  <2> HIDE DEF col
  <2>3. Moved(lines, end, col, moved)
    BY <1>2, <2>1, <2>2, HeadMoves, Zenon
  <2> QED BY <2>1, <2>3 DEF Moved
<1>7. end \in 1 .. Len(source) + 1 /\ at' \in 1 .. Len(source) + 1 /\ 1 \in 1 .. Len(source) + 1
  BY <1>2, <1>3
<1>8. v \in Seq(Characters) /\ w \in Seq(Characters) /\ done \in Seq(Characters) /\ read \in Seq(Characters)
  <2>1. v \in Text /\ w \in Text
    BY <1>2, <1>3, <1>7, Piece
  <2>2. at \in 1 .. Len(source) + 1 /\ end \in 1 .. Len(source) + 1
    BY <1>2, <1>7
  <2>3. done \in Text /\ read \in Text
    BY <1>2, <1>7, <2>2, Piece
  <2> QED BY <2>1, <2>3 DEF Text
<1>9. Without(w, Blank) = << >>
  BY <1>2, <1>3, <1>6, <1>7, BlanksAreNothing
<1>10. read = done \o v /\ SubSeq(source, 1, at' - 1) = read \o w
  BY <1>2, <1>3, <1>7, PiecesJoin
<1>11. Values' = Append(Values, v)
  <2>1. Values \in Seq(Text) /\ Len(Values) = Len(tokens)
    BY ValuesType
  <2>2. v \in Text
    BY <1>8 DEF Text
  <2>3. /\ Append(Values, v) \in Seq(Text)
        /\ Len(Append(Values, v)) = Len(Values) + 1
        /\ \A k \in 1 .. Len(Values) : Append(Values, v)[k] = Values[k]
        /\ Append(Values, v)[Len(Values) + 1] = v
    <3> HIDE DEF v
    <3> QED BY <2>1, <2>2, AppendProperties
  <2>4. /\ Values' \in Seq(Text) /\ Len(Values') = Len(tokens')
        /\ \A k \in 1 .. Len(tokens') : Values'[k] = tokens'[k].value
    <3>1. DOMAIN tokens' = 1 .. Len(tokens')
      BY <1>3, LenProperties DEF ReadInv
    <3>2. Values' \in Seq(Text) /\ Len(Values') = Len(tokens')
      <4>1. \A k \in 1 .. Len(tokens') : tokens'[k].value \in Text
        <5>1. tokens' \in Seq(Token)
          BY <1>3 DEF ReadInv
        <5>2. \A k \in 1 .. Len(tokens') : tokens'[k] \in Token
          BY <5>1, ElementOfSeq
        <5> QED BY <5>2 DEF Token
      <4>2. Values' \in [1 .. Len(tokens') -> Text]
        BY <3>1, <4>1 DEF Values
      <4>3. Len(tokens') \in Nat
        BY <1>3
      <4> QED BY <4>2, <4>3, FunctionIsSequence
    <3> QED BY <3>1, <3>2 DEF Values
  <2>5. \A k \in 1 .. Len(tokens) : Values[k] = tokens[k].value
    BY ValuesType DEF Values
  <2> DEFINE s == Values'
             t == Append(Values, v)
             n == Len(tokens)
  <2>6. \A k \in 1 .. n + 1 : s[k] = t[k]
    <3> SUFFICES ASSUME NEW k \in 1 .. n + 1 PROVE s[k] = t[k]
      OBVIOUS
    <3>1. CASE k = n + 1
      <4>1. t[n + 1] = v
        BY <2>1, <2>3
      <4>2. s[n + 1] = v
        BY <1>3, <1>4, <2>4
      <4> QED BY <3>1, <4>1, <4>2
    <3>2. CASE k # n + 1
      <4>1. k \in 1 .. n
        BY <1>3, <3>2
      <4>2. s[k] = tokens[k].value
        BY <1>3, <2>4, <4>1
      <4>3. t[k] = tokens[k].value
        BY <2>1, <2>3, <2>5, <4>1
      <4> QED BY <4>2, <4>3
    <3> QED BY <3>1, <3>2
  <2>7. s \in Seq(Text) /\ t \in Seq(Text) /\ Len(s) = n + 1 /\ Len(t) = n + 1
    BY <1>3, <2>1, <2>3, <2>4
  <2> HIDE DEF s, t, n
  <2>8. s = t
    BY <2>6, <2>7, SeqEqual
  <2> QED BY <2>8 DEF s, t
<1>12. flat \in Seq(Characters) /\ FlattenSeq(Values') = flat \o v
  <2>1. Values \in Seq(Seq(Characters))
    BY ValuesType DEF Text
  <2> HIDE DEF v
  <2> QED BY <1>8, <1>11, <2>1, FlattenAppend
<1>13. Without(flat, Blank) = Without(done, Blank)
  BY DEF OnlyBlanksLost, Values
<1> HIDE DEF v, w, done, read, flat
<1>14. /\ Without(flat \o v, Blank) = Without(flat, Blank) \o Without(v, Blank)
       /\ Without(done \o v, Blank) = Without(done, Blank) \o Without(v, Blank)
       /\ Without(read \o w, Blank) = Without(read, Blank) \o Without(w, Blank)
  <2>1. Without(flat \o v, Blank) = Without(flat, Blank) \o Without(v, Blank)
    <3>1. flat \in Seq(Characters) /\ v \in Seq(Characters)
      BY <1>8, <1>12
    <3> QED BY <3>1, WithoutConcat
  <2>2. Without(done \o v, Blank) = Without(done, Blank) \o Without(v, Blank)
    BY <1>8, WithoutConcat
  <2>3. Without(read \o w, Blank) = Without(read, Blank) \o Without(w, Blank)
    BY <1>8, WithoutConcat
  <2> QED BY <2>1, <2>2, <2>3
<1>15. Without(read, Blank) \o << >> = Without(read, Blank)
  BY <1>8, WithoutType, ConcatEmptySeq
<1>16. Without(FlattenSeq(Values'), Blank) = Without(SubSeq(source, 1, at' - 1), Blank)
  BY <1>9, <1>10, <1>12, <1>13, <1>14, <1>15
<1> QED BY <1>5, <1>16 DEF OnlyBlanksLost, Values

(* Between one token and the next nothing but blanks is lost, and nothing   *)
(* is read twice or out of order: getNextToken and moveHead leave the       *)
(* stream where the other goes on.                                          *)
THEOREM OnlyBlanksAreLost == Spec => []OnlyBlanksLost
<1>1. Spec => []ReadInv
  BY PlaceInductive, PTL DEF PlaceInv
<1>2. ReadInv /\ OnlyBlanksLost /\ [Next]_vars => OnlyBlanksLost'
  <2> SUFFICES ASSUME ReadInv, OnlyBlanksLost, [Next]_vars PROVE OnlyBlanksLost'
    OBVIOUS
  <2>1. CASE Get
    BY <2>1, GetText
  <2>2. CASE UNCHANGED vars
    BY <2>2 DEF vars, OnlyBlanksLost
  <2> QED BY <2>1, <2>2 DEF Next, Done
<1> QED BY <1>1, <1>2, InitText, PTL DEF Spec

-----------------------------------------------------------------------------
(* Lines *)

(* Where a line starts: behind the newline before it. *)
Start(l) == IF l = 1 THEN 1 ELSE Nth(Newlines(1, Len(source) + 1), l - 1) + 1

LEMMA NewlinesType ==
  ASSUME Input(source), NEW i \in Nat \ {0}, NEW j \in Nat, j <= Len(source) + 1
  PROVE  /\ Newlines(i, j) \in SUBSET (1 .. Len(source))
         /\ \A k : k \in Newlines(i, j) <=> k \in Nat /\ i <= k /\ k < j /\ source[k] = Newline
<1>1. Len(source) \in Nat
  BY LenProperties DEF Input
<1>2. \A k : k \in i .. j - 1 <=> k \in Nat /\ i <= k /\ k < j
  OBVIOUS
<1>3. \A k : k \in Newlines(i, j) <=> k \in i .. j - 1 /\ source[k] = Newline
  BY DEF Newlines
<1>4. \A k \in Newlines(i, j) : k \in 1 .. Len(source)
  BY <1>1, <1>2, <1>3
<1> QED BY <1>2, <1>3, <1>4

(* The first newlines of the input are the first of any beginning of it.    *)
LEMMA FirstNewlines ==
  ASSUME Input(source), NEW j \in 1 .. Len(source) + 1,
         NEW n \in 1 .. Cardinality(Newlines(1, j))
  PROVE  Nth(Newlines(1, Len(source) + 1), n) = Nth(Newlines(1, j), n)
<1> DEFINE m == Len(source)
           e == m + 1
           S == Newlines(1, e)
           A == Newlines(1, j)
<1>1. m \in Nat /\ j \in Nat /\ e \in Nat /\ e <= m + 1 /\ j <= m + 1
  BY LenProperties DEF Input
<1>2. /\ A \in SUBSET (1 .. m)
      /\ \A k : k \in A <=> k \in Nat /\ 1 <= k /\ k < j /\ source[k] = Newline
  BY <1>1, NewlinesType
<1> HIDE DEF e
<1>3. /\ S \in SUBSET (1 .. m)
      /\ \A k : k \in S <=> k \in Nat /\ 1 <= k /\ k < e /\ source[k] = Newline
  BY <1>1, NewlinesType
<1> HIDE DEF S, A
<1>4. A \in SUBSET S
  <2>1. \A k \in A : k < e
    BY <1>1, <1>2 DEF e
  <2> QED BY <1>2, <1>3, <2>1
<1>5. \A a \in A, b \in S \ A : a < b
  <2> SUFFICES ASSUME NEW a \in A, NEW b \in S \ A PROVE a < b
    OBVIOUS
  <2>1. a \in Nat /\ a < j /\ b \in Nat /\ ~ (b < j)
    BY <1>2, <1>3
  <2> QED BY <1>1, <2>1
<1>6. n \in 1 .. Cardinality(A)
  BY DEF A
<1>7. Nth(S, n) = Nth(A, n)
  BY <1>1, <1>3, <1>4, <1>5, <1>6, NthInitial
<1> QED BY <1>7 DEF S, A, e

LEMMA LastIsMax ==
  ASSUME NEW m \in Nat, NEW S \in SUBSET (1 .. m), S # {}
  PROVE  Nth(S, Cardinality(S)) = Max(S) /\ Max(S) \in S /\ \A k \in S : k <= Max(S)
<1> DEFINE x == Max(S)
<1>1. x \in S /\ \A k \in S : k <= x
  <2>1. S \in SUBSET (0 .. m)
    OBVIOUS
  <2> QED BY <2>1, MaxOf
<1> HIDE DEF x
<1>2. Upto(S, x) = S
  BY <1>1 DEF Upto
<1>3. Nth(S, Cardinality(Upto(S, x))) = x
  BY <1>1, NthIs
<1> QED BY <1>1, <1>2, <1>3 DEF x

(* The lines seen at position j: there is one more than newlines before j,  *)
(* each is kept, and the column is counted from the start of the last.      *)
LinesAt(seen, l, col, j) ==
  /\ l = Cardinality(Newlines(1, j)) + 1
  /\ \A k \in 1 .. l : seen[k] = LineFrom(Start(k))
  /\ Start(l) \in 1 .. j
  /\ Newlines(Start(l), j) = {}
  /\ col = j - Start(l) + 1

LEMMA LinesAtStart ==
  ASSUME Input(source)
  PROVE  LinesAt(<<LineFrom(1)>>, 1, 1, 1)
<1>1. Len(source) \in Nat
  BY LenProperties DEF Input
<1>2. Newlines(1, 1) = {} /\ Start(1) = 1
  BY DEF Newlines, Start
<1>3. Cardinality(Newlines(1, 1)) = 0
  BY <1>2, FS_EmptySet
<1>4. <<LineFrom(1)>>[1] = LineFrom(1)
  OBVIOUS
<1>5. \A k \in 1 .. 1 : <<LineFrom(1)>>[k] = LineFrom(Start(k))
  BY <1>2, <1>4
<1> QED BY <1>2, <1>3, <1>5 DEF LinesAt

(* Reading characters that are no newlines. *)
LEMMA LinesRead ==
  ASSUME Input(source), NEW i \in 1 .. Len(source) + 1, NEW j \in i .. Len(source) + 1,
         NEW seen, NEW l, NEW col \in Nat, LinesAt(seen, l, col, i),
         \A k \in i .. j - 1 : source[k] # Newline
  PROVE  LinesAt(seen, l, col + j - i, j)
<1>1. /\ Len(source) \in Nat /\ i \in Nat /\ j \in Nat /\ i <= j
      /\ i <= Len(source) + 1 /\ j <= Len(source) + 1
  BY LenProperties DEF Input
<1> DEFINE s == Start(l)
<1>2. /\ l = Cardinality(Newlines(1, i)) + 1
      /\ \A k \in 1 .. l : seen[k] = LineFrom(Start(k))
      /\ s \in 1 .. i /\ Newlines(s, i) = {} /\ col = i - s + 1
  BY DEF LinesAt
<1> HIDE DEF s
<1>3. s \in Nat \ {0} /\ s \in 1 .. j
  BY <1>1, <1>2
<1>4. \A k \in Nat : i <= k /\ k < j => source[k] # Newline
  BY <1>1
<1>5. \A k \in Nat : k < j /\ source[k] = Newline => k < i
  BY <1>1, <1>4
<1>6. Newlines(1, j) = Newlines(1, i)
  <2>1. \A k : k \in Newlines(1, j) <=> k \in Newlines(1, i)
    <3>1. \A k : k \in Newlines(1, j) <=> k \in Nat /\ 1 <= k /\ k < j /\ source[k] = Newline
      BY <1>1, NewlinesType
    <3>2. \A k : k \in Newlines(1, i) <=> k \in Nat /\ 1 <= k /\ k < i /\ source[k] = Newline
      BY <1>1, NewlinesType
    <3>3. \A k \in Nat : k < i => k < j
      BY <1>1
    <3> QED BY <1>5, <3>1, <3>2, <3>3
  <2> QED BY <2>1
<1>7. Newlines(s, j) = {}
  <2>1. \A k : k \in Newlines(s, j) <=> k \in Nat /\ s <= k /\ k < j /\ source[k] = Newline
    BY <1>1, <1>3, NewlinesType
  <2>2. \A k : k \in Newlines(s, i) <=> k \in Nat /\ s <= k /\ k < i /\ source[k] = Newline
    BY <1>1, <1>3, NewlinesType
  <2> QED BY <1>2, <1>5, <2>1, <2>2
<1>8. col + j - i = j - s + 1
  BY <1>1, <1>2, <1>3
<1> QED BY <1>2, <1>3, <1>6, <1>7, <1>8 DEF LinesAt, s

(* Moving the head over blanks. *)
LEMMA LinesMoved ==
  ASSUME Input(source), NEW i \in 1 .. Len(source) + 1,
         NEW seen \in Seq(Text), NEW l, NEW col \in Nat \ {0}, LinesAt(seen, l, col, i),
         l = Len(seen), NEW moved, Moved(seen, i, col, moved)
  PROVE  LinesAt(moved.lines, l + moved.newer, moved.column, moved.at)
<1> DEFINE m == Len(source)
           j == moved.at
           A == Newlines(1, i)
           B == Newlines(i, j)
           N == Newlines(1, j)
           a == Cardinality(A)
           b == moved.newer
<1>1. /\ m \in Nat /\ i \in Nat \ {0} /\ j \in Nat /\ i <= j
      /\ i <= m + 1 /\ j <= m + 1 /\ j \in 1 .. m + 1
  BY LenProperties DEF Input, Moved
<1>2. b = Cardinality(B) /\ b \in Nat /\ (b = 0 <=> B = {})
  BY DEF Moved
<1>3. /\ Len(moved.lines) = l + b
      /\ \A k \in 1 .. l : moved.lines[k] = seen[k]
      /\ \A k \in 1 .. b : moved.lines[l + k] = LineFrom(Nth(B, k) + 1)
      /\ moved.column = IF B = {} THEN col + j - i ELSE j - Max(B)
  BY DEF Moved
<1> HIDE DEF j, b
<1>4. /\ A \in SUBSET (1 .. m)
      /\ \A k : k \in A <=> k \in Nat /\ 1 <= k /\ k < i /\ source[k] = Newline
  BY <1>1, NewlinesType
<1>5. /\ B \in SUBSET (1 .. m)
      /\ \A k : k \in B <=> k \in Nat /\ i <= k /\ k < j /\ source[k] = Newline
  BY <1>1, NewlinesType
<1>6. /\ N \in SUBSET (1 .. m)
      /\ \A k : k \in N <=> k \in Nat /\ 1 <= k /\ k < j /\ source[k] = Newline
  BY <1>1, NewlinesType
<1>7. l = a + 1 /\ a \in Nat
  BY <1>1, <1>4, Counted DEF LinesAt
<1>8. /\ \A k \in 1 .. l : seen[k] = LineFrom(Start(k))
      /\ Start(l) \in 1 .. i /\ Newlines(Start(l), i) = {} /\ col = i - Start(l) + 1
  BY DEF LinesAt
<1> HIDE DEF A, B, N
<1>9. N = A \cup B
  <2>1. \A k : k \in N <=> k \in A \/ k \in B
    <3>1. \A k \in Nat : (1 <= k /\ k < j) <=> (1 <= k /\ k < i) \/ (i <= k /\ k < j)
      BY <1>1
    <3> QED BY <1>4, <1>5, <1>6, <3>1
  <2> QED BY <2>1
<1>10. \A x \in A, y \in B : x < y
  <2> SUFFICES ASSUME NEW x \in A, NEW y \in B PROVE x < y
    OBVIOUS
  <2>1. x \in Nat /\ y \in Nat /\ x < i /\ i <= y
    BY <1>4, <1>5
  <2> QED BY <1>1, <2>1
<1>11. /\ Cardinality(A \cup B) = a + b
       /\ \A n \in 1 .. b : Nth(A \cup B, a + n) = Nth(B, n)
  BY <1>1, <1>2, <1>4, <1>5, <1>10, NthBehind
<1>12. \A n \in 1 .. b : Start(l + n) = Nth(B, n) + 1
  <2> SUFFICES ASSUME NEW n \in 1 .. b PROVE Start(l + n) = Nth(B, n) + 1
    OBVIOUS
  <2> DEFINE p == a + n
  <2>1. l + n # 1 /\ (l + n) - 1 = p
    BY <1>7
  <2>2. p \in 1 .. Cardinality(N)
    BY <1>2, <1>7, <1>9, <1>11
  <2>3. Nth(N, p) = Nth(B, n)
    BY <1>9, <1>11
  <2> HIDE DEF p
  <2>4. Nth(Newlines(1, Len(source) + 1), p) = Nth(N, p)
    BY <1>1, <2>2, FirstNewlines DEF N
  <2>5. Start(l + n) = Nth(Newlines(1, Len(source) + 1), p) + 1
    BY <2>1 DEF Start
  <2> QED BY <2>3, <2>4, <2>5
<1>13. l + b = Cardinality(N) + 1
  BY <1>2, <1>7, <1>9, <1>11
<1>14. ASSUME NEW k \in 1 .. l + b
       PROVE  moved.lines[k] = LineFrom(Start(k))
  <2>1. CASE k <= l
    <3>1. k \in 1 .. l
      BY <1>2, <1>7, <2>1
    <3> QED BY <1>3, <1>8, <3>1
  <2>2. CASE ~ (k <= l)
    <3> DEFINE n == k - l
    <3>1. n \in 1 .. b /\ k = l + n
      BY <1>2, <1>7, <2>2
    <3> HIDE DEF n
    <3> QED BY <1>3, <1>12, <3>1
  <2> QED BY <2>1, <2>2
<1>15. /\ Start(l + b) \in 1 .. j /\ Newlines(Start(l + b), j) = {}
       /\ moved.column = j - Start(l + b) + 1
  <2>1. CASE B = {}
    <3>1. b = 0 /\ l + b = l
      BY <1>2, <1>7, <2>1
    <3> DEFINE s == Start(l)
    <3>2. s \in 1 .. i /\ Newlines(s, i) = {} /\ col = i - s + 1
      BY <1>8
    <3> HIDE DEF s
    <3>3. s \in Nat \ {0} /\ s <= i /\ s \in 1 .. j
      BY <1>1, <3>2
    <3>4. Newlines(s, j) = {}
      <4>1. \A k : k \in Newlines(s, j) <=> k \in Nat /\ s <= k /\ k < j /\ source[k] = Newline
        BY <1>1, <3>3, NewlinesType
      <4>2. \A k : k \in Newlines(s, i) <=> k \in Nat /\ s <= k /\ k < i /\ source[k] = Newline
        BY <1>1, <3>3, NewlinesType
      <4>3. \A k \in Nat : k < j /\ source[k] = Newline => k < i
        BY <1>1, <1>5, <2>1
      <4> QED BY <3>2, <4>1, <4>2, <4>3
    <3>5. moved.column = j - s + 1
      BY <1>1, <1>3, <2>1, <3>2, <3>3
    <3> QED BY <3>1, <3>3, <3>4, <3>5 DEF s
  <2>2. CASE B # {}
    <3> DEFINE x == Max(B)
    <3>1. Nth(B, b) = x /\ x \in B /\ \A k \in B : k <= x
      BY <1>1, <1>2, <1>5, <2>2, LastIsMax
    <3>2. b \in 1 .. b
      BY <1>2, <2>2
    <3>3. Start(l + b) = x + 1
      BY <1>12, <3>1, <3>2
    <3>4. moved.column = j - x
      BY <1>3, <2>2
    <3> HIDE DEF x
    <3>5. x \in Nat /\ i <= x /\ x < j
      BY <1>5, <3>1
    <3> DEFINE s == x + 1
    <3>6. s \in Nat \ {0} /\ s \in 1 .. j /\ i <= s /\ moved.column = j - s + 1
      BY <1>1, <3>4, <3>5
    <3>7. \A k \in Nat : s <= k => i <= k /\ ~ (k <= x)
      BY <1>1, <3>5
    <3> HIDE DEF s
    <3>8. \A k : k \in Newlines(s, j) <=> k \in Nat /\ s <= k /\ k < j /\ source[k] = Newline
      BY <1>1, <3>6, NewlinesType
    <3>9. Newlines(s, j) = {}
      BY <1>5, <3>1, <3>7, <3>8
    <3> QED BY <3>3, <3>6, <3>9 DEF s
  <2> QED BY <2>1, <2>2
<1> QED BY <1>13, <1>14, <1>15 DEF LinesAt, N, j, b

-----------------------------------------------------------------------------
(* Tokens in their lines *)

(* A line has what is in the input behind its start, up to a newline, if no *)
(* carriage return is in it.                                                *)
LEMMA LineHas ==
  ASSUME Input(source), NEW s \in Nat \ {0}, NEW e \in s .. Len(source) + 1,
         Newlines(s, e) = {}, \A k \in s .. e - 1 : source[k] # Return
  PROVE  /\ LineFrom(s) \in Text
         /\ e - s <= Len(LineFrom(s))
         /\ \A k \in 1 .. e - s : LineFrom(s)[k] = source[s + k - 1]
<1> DEFINE m == Len(source)
           T == Newlines(s, m + 1) \cup {m + 1}
           z == Min(T)
           text == SubSeq(source, s, z - 1)
<1>1. m \in Nat /\ s \in Nat /\ 1 <= s /\ e \in Nat /\ s <= e /\ e <= m + 1 /\ s \in 1 .. m + 1
  BY LenProperties DEF Input
<1>2. \A k : k \in Newlines(s, m + 1) <=> k \in Nat /\ s <= k /\ k < m + 1 /\ source[k] = Newline
  BY <1>1, NewlinesType
<1>3. \A k : k \in Newlines(s, e) <=> k \in Nat /\ s <= k /\ k < e /\ source[k] = Newline
  BY <1>1, NewlinesType
<1>4. z \in T
  <2>1. T \in SUBSET Nat /\ T # {}
    BY <1>1, <1>2
  <2> HIDE DEF T
  <2> QED BY <2>1, MinOf
<1> HIDE DEF z
<1>5. z \in Nat /\ e <= z /\ z <= m + 1
  <2>1. CASE z = m + 1
    BY <1>1, <2>1
  <2>2. CASE z # m + 1
    <3>1. z \in Nat /\ s <= z /\ z < m + 1 /\ source[z] = Newline
      BY <1>2, <1>4, <2>2
    <3>2. ~ (z < e)
      BY <1>3, <3>1
    <3> QED BY <1>1, <3>1, <3>2
  <2> QED BY <2>1, <2>2
<1>6. z \in s .. Len(source) + 1
  BY <1>1, <1>5
<1>7. /\ text \in Text /\ Len(text) = z - s
      /\ \A k \in 1 .. z - s : text[k] = source[s + k - 1]
  BY <1>1, <1>6, Piece
<1>8. LineFrom(s) = Without(text, {Return})
  BY DEF LineFrom, z
<1> HIDE DEF text
<1> DEFINE p == e - s
<1>9. p \in 0 .. Len(text) /\ p <= z - s
  BY <1>1, <1>5, <1>7
<1>10. \A k \in 1 .. p : text[k] = source[s + k - 1] /\ text[k] \notin {Return}
  <2> SUFFICES ASSUME NEW k \in 1 .. p
               PROVE  text[k] = source[s + k - 1] /\ text[k] \notin {Return}
    OBVIOUS
  <2>1. k \in 1 .. z - s /\ s + k - 1 \in s .. e - 1
    BY <1>1, <1>5
  <2>2. text[k] = source[s + k - 1]
    BY <1>7, <2>1
  <2>3. source[s + k - 1] # Return
    BY <2>1
  <2> QED BY <2>2, <2>3
<1> HIDE DEF p
<1>11. p <= Len(Without(text, {Return})) /\ \A k \in 1 .. p : Without(text, {Return})[k] = text[k]
  <2>1. text \in Seq(Characters)
    BY <1>7 DEF Text
  <2>2. \A k \in 1 .. p : text[k] \notin {Return}
    BY <1>10
  <2> QED BY <1>9, <2>1, <2>2, WithoutBeginning
<1>12. LineFrom(s) \in Text
  BY <1>1, LineIsText
<1> QED BY <1>8, <1>10, <1>11, <1>12 DEF p

(* Token t was read at p, in the line that it says, in the column that it   *)
(* says.                                                                    *)
TokenAt(t, p) ==
  /\ p \in 1 .. Len(source) + 1
  /\ p + Len(t.value) <= Len(source) + 1
  /\ \A k \in 1 .. Len(t.value) : t.value[k] = source[p + k - 1]
  /\ Start(t.line) \in 1 .. p
  /\ Newlines(Start(t.line), p + Len(t.value)) = {}
  /\ t.column = p - Start(t.line) + 1
  /\ PeekChar(p) \notin Blank

LEMMA TokenInLine ==
  ASSUME Input(source), NEW t \in Token, NEW p, TokenAt(t, p), PlainLines,
         ~ Contains(t.value, Newline), ~ Contains(t.value, Return),
         NEW text, text = LineFrom(Start(t.line))
  PROVE  /\ t.column >= 1
         /\ t.column + Len(t.value) - 1 <= Len(text)
         /\ SubSeq(text, t.column, t.column + Len(t.value) - 1) = t.value
<1> DEFINE v == t.value
           n == Len(t.value)
           s == Start(t.line)
           e == p + n
           c == t.column
<1>1. /\ v \in Text /\ n \in Nat /\ Len(source) \in Nat
      /\ DOMAIN source = 1 .. Len(source)
  BY LenProperties DEF Input, Token, Text
<1>2. /\ p \in 1 .. Len(source) + 1 /\ e <= Len(source) + 1
      /\ \A k \in 1 .. n : v[k] = source[p + k - 1]
      /\ s \in 1 .. p /\ Newlines(s, e) = {} /\ c = p - s + 1 /\ PeekChar(p) \notin Blank
  BY DEF TokenAt
<1> HIDE DEF v, n, s, c
<1>3. /\ p \in Nat \ {0} /\ s \in Nat \ {0} /\ s <= p /\ e \in s .. Len(source) + 1 /\ e \in Nat
      /\ c \in Nat /\ c >= 1
  <2>1. p \in Nat \ {0} /\ s \in Nat \ {0} /\ s <= p
    BY <1>1, <1>2
  <2>2. e \in Nat /\ p <= e
    BY <1>1, <2>1
  <2>3. e \in s .. Len(source) + 1
    BY <1>1, <1>2, <2>1, <2>2
  <2>4. c \in Nat /\ c >= 1
    BY <1>2, <2>1
  <2> QED BY <2>1, <2>2, <2>3, <2>4
<1>4. ASSUME NEW k \in s .. e - 1, source[k] = Return
      PROVE  FALSE
  <2>1. k \in Nat /\ s <= k /\ k < e /\ k \in 1 .. Len(source)
    BY <1>1, <1>3
  <2>2. Peek(k + 1) = Newline
    BY <1>1, <1>4, <2>1 DEF PlainLines
  <2>3. k + 1 <= Len(source) /\ source[k + 1] = Newline
    BY <2>2 DEF Peek, Newline, EndOfFile
  <2>4. CASE k + 1 < e
    <3>1. k + 1 \in Newlines(s, e)
      BY <1>3, <2>1, <2>3, <2>4, NewlinesType
    <3> QED BY <1>2, <3>1
  <2>5. CASE ~ (k + 1 < e) /\ n = 0
    <3>1. k + 1 = p
      BY <1>1, <1>3, <2>1, <2>5
    <3>2. PeekChar(p) = Newline
      BY <2>2, <3>1 DEF PeekChar, HighByte, Newline
    <3> QED BY <1>2, <3>2 DEF Blank
  <2>6. CASE ~ (k + 1 < e) /\ n # 0
    <3>1. k = p + n - 1 /\ n \in 1 .. n
      BY <1>1, <1>3, <2>1, <2>6
    <3>2. v[n] = Return
      BY <1>2, <1>4, <3>1
    <3> QED BY <3>1, <3>2 DEF Contains, v, n
  <2> QED BY <2>4, <2>5, <2>6
<1>5. \A k \in s .. e - 1 : source[k] # Return
  BY <1>4
<1> HIDE DEF e
<1>6. /\ text \in Text
      /\ e - s <= Len(text)
      /\ \A k \in 1 .. e - s : text[k] = source[s + k - 1]
  BY <1>2, <1>3, <1>5, LineHas DEF s
<1>7. c + n - 1 = e - s /\ c + n - 1 <= Len(text) /\ Len(text) \in Nat
  <2>1. Len(text) \in Nat
    BY <1>6, LenProperties DEF Text
  <2> QED BY <1>1, <1>2, <1>3, <1>6, <2>1 DEF e
<1>8. SubSeq(text, c, c + n - 1) = v
  <2> DEFINE w == SubSeq(text, c, c + n - 1)
  <2>1. /\ w \in Seq(Characters) /\ Len(w) = n
        /\ \A k \in 1 .. n : w[k] = text[c + k - 1]
    <3> DEFINE b == c + n - 1
    <3>1. b \in Int /\ c \in Int /\ b <= Len(text) /\ b - c + 1 = n /\ (c <= b <=> n # 0)
      BY <1>1, <1>3, <1>7
    <3> HIDE DEF b
    <3>2. \A k \in c .. b : text[k] \in Characters
      <4>1. \A k \in 1 .. Len(text) : text[k] \in Characters
        BY <1>6, ElementOfSeq DEF Text
      <4> QED BY <1>3, <1>7, <3>1, <4>1
    <3>3. /\ SubSeq(text, c, b) \in Seq(Characters)
          /\ Len(SubSeq(text, c, b)) = IF c <= b THEN b - c + 1 ELSE 0
          /\ \A k \in 1 .. b - c + 1 : SubSeq(text, c, b)[k] = text[c + k - 1]
      BY <3>1, <3>2, SubSeqProperties
    <3> QED BY <1>1, <3>1, <3>3 DEF b
  <2>2. \A k \in 1 .. n : w[k] = v[k]
    <3> SUFFICES ASSUME NEW k \in 1 .. n PROVE w[k] = v[k]
      OBVIOUS
    <3> DEFINE i == c + k - 1
    <3>1. i \in 1 .. e - s /\ s + i - 1 = p + k - 1
      BY <1>1, <1>2, <1>3 DEF e
    <3>2. w[k] = text[i]
      BY <2>1
    <3> HIDE DEF i, w
    <3>3. text[i] = source[p + k - 1]
      BY <1>6, <3>1
    <3> QED BY <1>2, <3>2, <3>3
  <2>3. v \in Seq(Characters) /\ Len(v) = n
    BY <1>1 DEF Text, v, n
  <2> HIDE DEF w
  <2> QED BY <2>1, <2>2, <2>3, SeqEqual DEF w
<1> USE DEF v, n, c
<1>9. t.column >= 1
  BY <1>3
<1>10. t.column + Len(t.value) - 1 <= Len(text)
  BY <1>7
<1>11. SubSeq(text, t.column, t.column + Len(t.value) - 1) = t.value
  BY <1>8
<1> QED BY <1>9, <1>10, <1>11

(* What a step leaves of the lines, as it leaves the input. *)
LEMMA LinesStay ==
  ASSUME source' = source, NEW seen, NEW l, NEW c, NEW j, LinesAt(seen, l, c, j),
         lines' = seen, line' = l, column' = c, at' = j
  PROVE  LinesAt(lines, line, column, at)'
<1>1. Newlines(1, at)' = Newlines(1, j)
  BY DEF Newlines
<1>2. \A k : Start(k)' = Start(k)
  BY DEF Start, Newlines
<1>3. Start(line)' = Start(l)
  BY DEF Start, Newlines
<1>4. Newlines(Start(line), at)' = Newlines(Start(l), j)
  <2>1. Newlines(Start(line), at)' = {k \in Start(line)' .. at' - 1 : source'[k] = Newline'}
    BY DEF Newlines
  <2> QED BY <1>3, <2>1 DEF Newlines, Newline
<1>5. \A k : LineFrom(Start(k))' = LineFrom(Start(k))
  <2> SUFFICES ASSUME NEW k PROVE LineFrom(Start(k))' = LineFrom(Start(k))
    OBVIOUS
  <2> QED BY DEF LineFrom, Start, Newlines
<1>6. \A k \in 1 .. l : seen[k] = LineFrom(Start(k))
  BY DEF LinesAt
<1>7. \A k \in 1 .. line' : lines'[k] = LineFrom(Start(k))'
  BY <1>5, <1>6
<1> QED BY <1>1, <1>3, <1>4, <1>7 DEF LinesAt

(* The lexer is in front of no blank.  As long as no token has gone over a  *)
(* line, the lines seen are those of the input, the line and the column are *)
(* where the lexer is, and each token is where it says.                     *)
InPlaceInv ==
  /\ PeekChar(at) \notin Blank
  /\ OneLiners =>
       /\ LinesAt(lines, line, column, at)
       /\ \A k \in 1 .. Len(tokens) :
            tokens[k].line <= line /\ \E p : TokenAt(tokens[k], p)

LEMMA InitInPlace ==
  ASSUME Init
  PROVE  InPlaceInv
<1>1. PICK moved : Opens(moved)
  BY InitOpens
<1>2. Input(source)
  BY InitOpens
<1>3. 1 \in 1 .. Len(source) + 1
  BY <1>2, LenProperties DEF Input
<1> DEFINE seen == <<LineFrom(1)>>
<1>4. seen \in Seq(Text) /\ Len(seen) = 1
  BY <1>2, <1>3, LineIsText
<1>5. LinesAt(seen, 1, 1, 1)
  BY <1>2, LinesAtStart
<1>6. moved = MoveHead(seen, 1, 1)
  BY <1>1 DEF Opens
<1> HIDE DEF seen
<1>7. 1 \in Nat \ {0}
  OBVIOUS
<1>8. Moved(seen, 1, 1, moved)
  BY <1>2, <1>3, <1>4, <1>6, <1>7, HeadMoves, Zenon
<1>9. LinesAt(moved.lines, 1 + moved.newer, moved.column, moved.at)
  BY <1>2, <1>3, <1>4, <1>5, <1>7, <1>8, LinesMoved
<1>10. PeekChar(moved.at) \notin Blank
  BY <1>8 DEF Moved
<1>11. Len(tokens) = 0
  BY <1>1, EmptySeq DEF Opens
<1> QED BY <1>1, <1>9, <1>10, <1>11 DEF Opens, InPlaceInv

LEMMA GetInPlace ==
  ASSUME ReadInv, InPlaceInv, Get
  PROVE  InPlaceInv'
<1>1. PICK end, moved : Reads(end, moved)
  BY GetReads
<1> DEFINE token == [value |-> SubSeq(source, at, end - 1), line |-> line, column |-> column]
           n == Len(tokens)
           v == SubSeq(source, at, end - 1)
           col == column + end - at
<1>2. token.line = line /\ token.column = column /\ token.value = v
  OBVIOUS
<1>3. /\ ReadInv'
      /\ end \in at .. Len(source) + 1
      /\ token \in Token
      /\ n \in Nat
      /\ Len(tokens') = n + 1
      /\ \A k \in 1 .. n : tokens'[k] = tokens[k]
      /\ tokens'[n + 1] = token
      /\ Len(token.value) = end - at
      /\ moved.newer \in Nat /\ line' = line + moved.newer
  BY <1>1, ReadsWhat
<1>4. end = EndOfText(at)
  BY <1>1 DEF Reads
<1>5. Len(v) = end - at /\ \A k \in 1 .. end - at : v[k] = source[at + k - 1]
  BY <1>4, TextRead
<1>6. moved = MoveHead(lines, end, col)
  BY <1>1 DEF Reads
<1> HIDE DEF token, n, v
<1>7. /\ Input(source) /\ Len(source) \in Nat
      /\ at \in 1 .. Len(source) + 1 /\ end \in 1 .. Len(source) + 1
      /\ lines \in Seq(Text) /\ line = Len(lines) /\ line \in Nat \ {0}
      /\ column \in Nat \ {0} /\ col \in Nat \ {0}
      /\ tokens \in Seq(Token) /\ n = Len(tokens)
  <2>1. /\ Input(source) /\ Len(source) \in Nat /\ at \in 1 .. Len(source) + 1
        /\ lines \in Seq(Text) /\ line = Len(lines) /\ line \in Nat \ {0}
        /\ column \in Nat \ {0} /\ tokens \in Seq(Token)
    BY LenProperties DEF ReadInv, Input
  <2>2. end \in 1 .. Len(source) + 1 /\ col \in Nat \ {0}
    BY <1>3, <2>1
  <2> QED BY <2>1, <2>2 DEF n
<1>8. source' = source /\ at' = moved.at /\ lines' = moved.lines /\ column' = moved.column
  BY <1>1 DEF Reads
<1>9. Moved(lines, end, col, moved)
  <2> HIDE DEF col
  <2> QED BY <1>6, <1>7, HeadMoves, Zenon
<1>10. (PeekChar(at) \notin Blank)'
  <2>1. PeekChar(moved.at) \notin Blank
    BY <1>9 DEF Moved
  <2>2. PeekChar(at)' = PeekChar(moved.at)
    BY <1>8 DEF PeekChar, Peek
  <2> QED BY <2>1, <2>2 DEF Blank
<1>11. ASSUME OneLiners'
       PROVE  /\ LinesAt(lines, line, column, at)'
              /\ \A k \in 1 .. n + 1 :
                   tokens'[k].line <= line' /\ \E p : TokenAt(tokens[k], p)'
  <2>1. DOMAIN tokens = 1 .. n /\ DOMAIN tokens' = 1 .. n + 1
    BY <1>3, <1>7, LenProperties DEF ReadInv
  <2>2. OneLiners
    <3>1. \A k \in 1 .. n : ~ Contains(tokens'[k].value, Newline) /\ ~ Contains(tokens'[k].value, Return)
      BY <1>3, <1>11, <2>1 DEF OneLiners
    <3>2. \A k \in 1 .. n : ~ Contains(tokens[k].value, Newline) /\ ~ Contains(tokens[k].value, Return)
      BY <1>3, <3>1
    <3> QED BY <2>1, <3>2 DEF OneLiners
  <2>3. /\ LinesAt(lines, line, column, at)
        /\ \A k \in 1 .. n : tokens[k].line <= line /\ \E p : TokenAt(tokens[k], p)
    BY <2>2 DEF InPlaceInv, n
  <2>4. \A k \in at .. end - 1 : source[k] # Newline
    <3>1. ~ Contains(v, Newline)
      <4>1. n + 1 \in 1 .. n + 1
        BY <1>3
      <4>2. ~ Contains(tokens'[n + 1].value, Newline)
        BY <1>11, <2>1, <4>1 DEF OneLiners
      <4> QED BY <1>2, <1>3, <4>2
    <3>2. \A i \in 1 .. end - at : v[i] # Newline
      BY <1>5, <3>1 DEF Contains
    <3> SUFFICES ASSUME NEW k \in at .. end - 1 PROVE source[k] # Newline
      OBVIOUS
    <3> DEFINE i == k - at + 1
    <3>3. i \in 1 .. end - at /\ at + i - 1 = k
      BY <1>7
    <3> HIDE DEF i
    <3>4. v[i] = source[k]
      BY <1>5, <3>3
    <3> QED BY <3>2, <3>3, <3>4
  <2>5. LinesAt(lines, line, col, end)
    BY <1>3, <1>7, <2>3, <2>4, LinesRead
  <2>6. LinesAt(moved.lines, line + moved.newer, moved.column, moved.at)
    <3> HIDE DEF col
    <3> QED BY <1>7, <1>9, <2>5, LinesMoved
  <2>7. LinesAt(lines, line, column, at)'
    BY <1>3, <1>8, <2>6, LinesStay
  <2>8. ASSUME NEW t, NEW p, NEW k, TokenAt(t, p), tokens'[k] = t
        PROVE  TokenAt(tokens[k], p)'
    BY <1>8, <2>8 DEF TokenAt, Start, Newlines, PeekChar, Peek
  <2>9. TokenAt(token, at)
    <3> DEFINE s == Start(line)
               c == token.column
               l == token.line
               w == token.value
    <3>1. s \in 1 .. at /\ Newlines(s, end) = {} /\ column = at - s + 1
      BY <2>3, <2>5 DEF LinesAt
    <3>2. l = line /\ c = column /\ w = v /\ Len(w) = end - at /\ at + Len(w) = end
      BY <1>2, <1>3, <1>7
    <3>3. \A k \in 1 .. Len(w) : w[k] = source[at + k - 1]
      BY <1>5, <3>2
    <3>4. PeekChar(at) \notin Blank
      BY DEF InPlaceInv
    <3>5. at + Len(w) <= Len(source) + 1
      BY <1>7, <3>2
    <3>6. Start(l) \in 1 .. at /\ Newlines(Start(l), at + Len(w)) = {} /\ c = at - Start(l) + 1
      BY <3>1, <3>2
    <3> QED BY <1>7, <3>3, <3>4, <3>5, <3>6 DEF TokenAt
  <2>10. ASSUME NEW k \in 1 .. n + 1
         PROVE  tokens'[k].line <= line' /\ \E p : TokenAt(tokens[k], p)'
    <3>1. CASE k = n + 1
      <4>1. tokens'[k] = token
        BY <1>3, <3>1
      <4>2. token.line <= line'
        BY <1>2, <1>3, <1>7
      <4>3. PICK p : TokenAt(token, p)
        BY <2>9
      <4>4. TokenAt(tokens[k], p)'
        BY <2>8, <4>1, <4>3
      <4> QED BY <4>1, <4>2, <4>4
    <3>2. CASE k # n + 1
      <4>1. k \in 1 .. n
        BY <1>3, <3>2
      <4>2. tokens'[k] = tokens[k]
        BY <1>3, <4>1
      <4>3. PICK p : TokenAt(tokens[k], p)
        BY <2>3, <4>1
      <4>4. TokenAt(tokens[k], p)'
        BY <2>8, <4>2, <4>3
      <4>5. tokens[k].line \in Nat /\ tokens[k].line <= line
        <5>1. tokens[k] \in Token
          BY <1>7, <4>1, ElementOfSeq
        <5> QED BY <2>3, <4>1, <5>1 DEF Token
      <4>6. tokens[k].line <= line'
        BY <1>3, <1>7, <4>5
      <4> QED BY <4>2, <4>4, <4>6
    <3> QED BY <3>1, <3>2
  <2> QED BY <2>7, <2>10
<1> QED BY <1>3, <1>10, <1>11 DEF InPlaceInv

LEMMA ReadInPlace ==
  ASSUME ReadInv, InPlaceInv
  PROVE  TokensInPlace
<1> SUFFICES ASSUME OneLiners, PlainLines, NEW k \in DOMAIN tokens,
                    NEW t, t = tokens[k],
                    NEW start, start = IF t.line = 1 THEN 1
                                       ELSE Nth(Newlines(1, at), t.line - 1) + 1
             PROVE  /\ t.column >= 1 /\ t.column + Len(t.value) - 1 <= Len(GetLine(t.line))
                    /\ SubSeq(GetLine(t.line), t.column, t.column + Len(t.value) - 1) = t.value
                    /\ GetLine(t.line) = LineFrom(start)
  BY DEF TokensInPlace
<1>1. /\ Input(source) /\ at \in 1 .. Len(source) + 1
      /\ line = Len(lines) /\ line \in Nat \ {0}
      /\ tokens \in Seq(Token) /\ DOMAIN tokens = 1 .. Len(tokens)
  BY LenProperties DEF ReadInv
<1>2. t \in Token
  BY <1>1, ElementOfSeq
<1>3. LinesAt(lines, line, column, at) /\ t.line <= line /\ \E p : TokenAt(t, p)
  BY <1>1 DEF InPlaceInv
<1>4. PICK p : TokenAt(t, p)
  BY <1>3
<1> DEFINE l == t.line
<1>5. l \in 1 .. line
  BY <1>1, <1>2, <1>3 DEF Token
<1>6. GetLine(l) = LineFrom(Start(l))
  <2>1. lines[l] = LineFrom(Start(l))
    BY <1>3, <1>5 DEF LinesAt
  <2>2. l - 1 < Len(lines)
    BY <1>1, <1>5
  <2> QED BY <2>1, <2>2 DEF GetLine
<1>7. start = Start(l)
  <2>1. CASE l = 1
    BY <2>1 DEF Start
  <2>2. CASE l # 1
    <3> DEFINE n == l - 1
    <3>1. n \in 1 .. Cardinality(Newlines(1, at))
      <4>1. line - 1 = Cardinality(Newlines(1, at))
        <5>1. line = Cardinality(Newlines(1, at)) + 1
          BY <1>3 DEF LinesAt
        <5>2. Cardinality(Newlines(1, at)) \in Nat
          <6>1. /\ Len(source) \in Nat /\ at \in Nat /\ at <= Len(source) + 1
                /\ 1 \in Nat \ {0}
            BY <1>1, LenProperties DEF Input
          <6>2. Newlines(1, at) \in SUBSET (1 .. Len(source))
            BY <1>1, <6>1, NewlinesType
          <6> QED BY <6>1, <6>2, Counted
        <5> QED BY <5>1, <5>2
      <4> QED BY <1>1, <1>5, <2>2, <4>1
    <3>2. start = Nth(Newlines(1, at), n) + 1
      BY <2>2
    <3>3. Start(l) = Nth(Newlines(1, Len(source) + 1), n) + 1
      BY <2>2 DEF Start
    <3> HIDE DEF n
    <3>4. Nth(Newlines(1, Len(source) + 1), n) = Nth(Newlines(1, at), n)
      BY <1>1, <3>1, FirstNewlines
    <3> QED BY <3>2, <3>3, <3>4
  <2> QED BY <2>1, <2>2
<1> DEFINE text == LineFrom(Start(t.line))
<1>8. ~ Contains(t.value, Newline) /\ ~ Contains(t.value, Return)
  BY DEF OneLiners
<1>9. text = LineFrom(Start(t.line))
  OBVIOUS
<1> HIDE DEF text
<1>10. /\ t.column >= 1
       /\ t.column + Len(t.value) - 1 <= Len(text)
       /\ SubSeq(text, t.column, t.column + Len(t.value) - 1) = t.value
  BY <1>1, <1>2, <1>4, <1>8, <1>9, TokenInLine
<1>11. GetLine(t.line) = text /\ text = LineFrom(start)
  BY <1>6, <1>7, <1>9
<1> QED BY <1>10, <1>11

(* unexpectedToken marks the token that it reports: a token's line is kept, *)
(* and has the token's text at its column, as long as no string goes over   *)
(* a line and no carriage return is left out in the middle of a line.       *)
THEOREM TokensAreInPlace == Spec => []TokensInPlace
<1>1. Spec => []ReadInv
  BY PlaceInductive, PTL DEF PlaceInv
<1>2. ReadInv /\ InPlaceInv /\ [Next]_vars => InPlaceInv'
  <2> SUFFICES ASSUME ReadInv, InPlaceInv, [Next]_vars PROVE InPlaceInv'
    OBVIOUS
  <2>1. CASE Get
    BY <2>1, GetInPlace
  <2>2. CASE UNCHANGED vars
    <3>1. /\ source' = source /\ at' = at /\ lines' = lines /\ line' = line
          /\ column' = column /\ tokens' = tokens
      BY <2>2 DEF vars
    <3>2. (PeekChar(at) \notin Blank)'
      BY <3>1 DEF InPlaceInv, PeekChar, Peek, Blank
    <3>3. ASSUME OneLiners'
          PROVE  /\ LinesAt(lines, line, column, at)'
                 /\ \A k \in 1 .. Len(tokens') :
                      tokens'[k].line <= line' /\ \E p : TokenAt(tokens[k], p)'
      <4>1. OneLiners
        BY <3>1, <3>3 DEF OneLiners
      <4>2. LinesAt(lines, line, column, at)'
        <5>1. LinesAt(lines, line, column, at)
          BY <4>1 DEF InPlaceInv
        <5> QED BY <3>1, <5>1, LinesStay
      <4>3. ASSUME NEW k \in 1 .. Len(tokens)
            PROVE  tokens'[k].line <= line' /\ \E p : TokenAt(tokens[k], p)'
        <5>1. PICK p : TokenAt(tokens[k], p)
          BY <4>1 DEF InPlaceInv
        <5>2. TokenAt(tokens[k], p)'
          BY <3>1, <5>1 DEF TokenAt, Start, Newlines, PeekChar, Peek
        <5> QED BY <3>1, <4>1, <5>2 DEF InPlaceInv
      <4> QED BY <3>1, <4>2, <4>3
    <3> QED BY <3>2, <3>3 DEF InPlaceInv
  <2> QED BY <2>1, <2>2 DEF Next, Done
<1>3. ReadInv /\ InPlaceInv => TokensInPlace
  BY ReadInPlace
<1> QED BY <1>1, <1>2, <1>3, InitInPlace, PTL DEF Spec
=============================================================================
