---------------------------- MODULE ParserProofs ----------------------------
(***************************************************************************)
(* The parser, for every alphabet and every bound on the length of the     *)
(* input: the type invariant; that the scopes never underflow and balance  *)
(* while the source is clean; that no decision is taken on a stale token,  *)
(* what is accepted in silence was read to its end, and a null node        *)
(* reaches a visitor only after a diagnosis.                               *)
(***************************************************************************)
EXTENDS Parser, ScopeStackProofs, FiniteSetTheorems

-----------------------------------------------------------------------------
(* Counting the owners of a call stack *)

OwnerPositions(items) == {i \in DOMAIN items : items[i].op \in OwnerOps}
OwnerOf(item) == IF item.op \in OwnerOps THEN 1 ELSE 0

LEMMA OwnersFinite ==
  ASSUME NEW S, NEW s \in Seq(S)
  PROVE  /\ IsFiniteSet(OwnerPositions(s))
         /\ Owners(s) = Cardinality(OwnerPositions(s))
         /\ Owners(s) \in Nat
<1>1. OwnerPositions(s) \subseteq 1 .. Len(s) /\ Len(s) \in Nat
  BY LenProperties DEF OwnerPositions
<1>2. IsFiniteSet(1 .. Len(s))
  BY <1>1, FS_Interval
<1>3. IsFiniteSet(OwnerPositions(s))
  BY <1>1, <1>2, FS_Subset
<1>4. Owners(s) = Cardinality(OwnerPositions(s))
  BY DEF Owners, OwnerPositions
<1> QED BY <1>3, <1>4, FS_CardinalityType

(* Moving every position by the same distance keeps their number. *)
LEMMA ShiftedPositions ==
  ASSUME NEW T \in SUBSET Nat, IsFiniteSet(T), NEW d \in Nat
  PROVE  /\ IsFiniteSet({i + d : i \in T})
         /\ Cardinality({i + d : i \in T}) = Cardinality(T)
<1> DEFINE U == {i + d : i \in T}
           f == [i \in T |-> i + d]
<1>1. f \in Bijection(T, U)
  <2>1. f \in [T -> U]
    OBVIOUS
  <2>2. \A a, b \in T : f[a] = f[b] => a = b
    OBVIOUS
  <2>3. \A u \in U : \E a \in T : f[a] = u
    OBVIOUS
  <2> QED BY <2>1, <2>2, <2>3 DEF Bijection, Injection, Surjection, IsInjective
<1>2. ExistsBijection(T, U)
  BY <1>1 DEF ExistsBijection
<1> QED BY <1>2, FS_Bijection

LEMMA OwnersConcat ==
  ASSUME NEW S, NEW s \in Seq(S), NEW t \in Seq(S)
  PROVE  Owners(s \o t) = Owners(s) + Owners(t)
<1> DEFINE u == s \o t
           moved == {i + Len(s) : i \in OwnerPositions(t)}
<1>1. /\ u \in Seq(S)
      /\ Len(s) \in Nat /\ Len(t) \in Nat
      /\ DOMAIN s = 1 .. Len(s) /\ DOMAIN t = 1 .. Len(t)
      /\ DOMAIN u = 1 .. Len(s) + Len(t)
      /\ \A i \in 1 .. Len(s) + Len(t) : u[i] = IF i <= Len(s) THEN s[i] ELSE t[i - Len(s)]
  BY ConcatProperties, LenProperties
<1> HIDE DEF u
<1>2. OwnerPositions(u) = OwnerPositions(s) \cup moved
  <2>1. ASSUME NEW i \in OwnerPositions(u)
        PROVE  i \in OwnerPositions(s) \cup moved
    <3>1. i \in 1 .. Len(s) + Len(t) /\ u[i].op \in OwnerOps
      BY <1>1 DEF OwnerPositions
    <3>2. CASE i <= Len(s)
      BY <1>1, <3>1, <3>2 DEF OwnerPositions
    <3>3. CASE ~ (i <= Len(s))
      <4>1. i - Len(s) \in OwnerPositions(t)
        BY <1>1, <3>1, <3>3 DEF OwnerPositions
      <4>2. i = (i - Len(s)) + Len(s)
        BY <1>1, <3>1
      <4> QED BY <4>1, <4>2
    <3> QED BY <3>2, <3>3
  <2>2. ASSUME NEW i \in OwnerPositions(s)
        PROVE  i \in OwnerPositions(u)
    BY <1>1 DEF OwnerPositions
  <2>3. ASSUME NEW j \in OwnerPositions(t)
        PROVE  j + Len(s) \in OwnerPositions(u)
    <3>1. j \in 1 .. Len(t) /\ t[j].op \in OwnerOps
      BY <1>1 DEF OwnerPositions
    <3>2. j + Len(s) \in 1 .. Len(s) + Len(t) /\ ~ (j + Len(s) <= Len(s))
      BY <1>1, <3>1
    <3>3. u[j + Len(s)] = t[j]
      BY <1>1, <3>1, <3>2
    <3> QED BY <1>1, <3>1, <3>2, <3>3 DEF OwnerPositions
  <2> QED BY <2>1, <2>2, <2>3
<1>3. OwnerPositions(s) \cap moved = {}
  BY <1>1 DEF OwnerPositions
<1>4. /\ IsFiniteSet(OwnerPositions(s)) /\ Cardinality(OwnerPositions(s)) = Owners(s)
      /\ IsFiniteSet(OwnerPositions(t)) /\ Cardinality(OwnerPositions(t)) = Owners(t)
      /\ Owners(u) = Cardinality(OwnerPositions(u))
      /\ Owners(s) \in Nat /\ Owners(t) \in Nat
  BY <1>1, OwnersFinite
<1>5. IsFiniteSet(moved) /\ Cardinality(moved) = Owners(t)
  <2>1. OwnerPositions(t) \in SUBSET Nat
    BY <1>1 DEF OwnerPositions
  <2> QED BY <1>1, <1>4, <2>1, ShiftedPositions
<1> HIDE DEF moved
<1>6. Cardinality(OwnerPositions(u)) = Owners(s) + Owners(t) - Cardinality({})
  BY <1>2, <1>3, <1>4, <1>5, FS_Union
<1>7. Owners(u) = Owners(s) + Owners(t)
  BY <1>4, <1>6, FS_EmptySet
<1> QED BY <1>7 DEF u

LEMMA OwnersEmpty == Owners(<< >>) = 0
<1>1. OwnerPositions(<< >>) = {}
  BY DEF OwnerPositions
<1> QED BY <1>1, FS_EmptySet DEF Owners, OwnerPositions

LEMMA OwnersOne ==
  ASSUME NEW a
  PROVE  Owners(<<a>>) = OwnerOf(a)
<1>1. OwnerPositions(<<a>>) = IF a.op \in OwnerOps THEN {1} ELSE {}
  BY DEF OwnerPositions
<1> QED BY <1>1, FS_EmptySet, FS_Singleton DEF Owners, OwnerPositions, OwnerOf

(* The head of a stack and its tail. *)
LEMMA OwnersHeadTail ==
  ASSUME NEW S, NEW s \in Seq(S), s # << >>
  PROVE  Owners(s) = OwnerOf(Head(s)) + Owners(Tail(s))
<1>1. Head(s) \in S /\ Tail(s) \in Seq(S) /\ <<Head(s)>> \in Seq(S)
  BY HeadTailProperties
<1>2. s = <<Head(s)>> \o Tail(s)
  <2>1. /\ <<Head(s)>> \o Tail(s) \in Seq(S)
        /\ Len(<<Head(s)>> \o Tail(s)) = Len(s)
        /\ \A i \in 1 .. Len(s) : (<<Head(s)>> \o Tail(s))[i] = s[i]
    <3>1. Len(<<Head(s)>>) = 1 /\ <<Head(s)>>[1] = Head(s) /\ Head(s) = s[1]
      OBVIOUS
    <3>2. /\ Len(s) \in Nat \ {0} /\ Len(Tail(s)) = Len(s) - 1
          /\ \A i \in 1 .. Len(Tail(s)) : Tail(s)[i] = s[i + 1]
      BY EmptySeq, HeadTailProperties
    <3>3. /\ <<Head(s)>> \o Tail(s) \in Seq(S)
          /\ Len(<<Head(s)>> \o Tail(s)) = 1 + Len(Tail(s))
          /\ \A i \in 1 .. 1 + Len(Tail(s)) :
               (<<Head(s)>> \o Tail(s))[i] = IF i <= 1 THEN <<Head(s)>>[i] ELSE Tail(s)[i - 1]
      BY ONLY <1>1, <3>1, ConcatProperties
    <3> QED BY <3>1, <3>2, <3>3
  <2> QED BY <2>1, SeqEqual
<1>3. Owners(<<Head(s)>> \o Tail(s)) = Owners(<<Head(s)>>) + Owners(Tail(s))
  BY <1>1, OwnersConcat
<1> QED BY <1>2, <1>3, OwnersOne

-----------------------------------------------------------------------------
(* The inductive invariant *)

Scope == UNION {[D -> BoundKinds] : D \in SUBSET Texts}

(* What a call puts on the stack; what of it does not come from an          *)
(* exception; and what of that owns no scope.                               *)
Called == {item \in Items : item.op \notin {"main", "visit"}}
Work == {item \in Called : item.op # "recover"}
Clean == {item \in Work : item.op \notin OwnerOps}

(* main is at the bottom of the stack and nowhere else, and visits what     *)
(* parseBlock returned to it.                                               *)
Stack(s) ==
  /\ s \in Seq(Items)
  /\ \A i \in 1 .. Len(s) : s[i].op = "main" <=> i = Len(s)
  /\ \A i \in 1 .. Len(s) : s[i].op = "visit" => i = Len(s) - 1

StreamInv ==
  /\ head \in Texts
  /\ left \in 0 .. MaxTokens
  /\ buffer \in [text : Texts, kind : Kinds] \cup {NoToken}
  /\ scopes \in Seq(Scope)

FlagsInv ==
  /\ thrown \in BOOLEAN
  /\ tree \in Trees
  /\ parserError \in BOOLEAN
  /\ error \in BOOLEAN
  /\ outcome \in Outcomes
  /\ history \subseteq Events

(* An exception is always caught, and never thrown without a reason.        *)
ThrownInv == thrown => control # << >> /\ history # {}

(* No expression is recovered from without a reason either.                 *)
Recovering(s) == \E i \in 1 .. Len(s) : s[i].op = "recover"
RecoveringInv == Recovering(control) => history # {}

IInv ==
  /\ StreamInv
  /\ FlagsInv
  /\ Stack(control)
  /\ ThrownInv
  /\ RecoveringInv
  /\ ScopesNeverUnderflow
  /\ ScopesBalanced

(* Replacing the head of a stack by the items of a call. *)
LEMMA StackContinues ==
  ASSUME NEW s, Stack(s), s # << >>, Head(s).op # "main", NEW items \in Seq(Called)
  PROVE  /\ Stack(items \o Tail(s))
         /\ items \o Tail(s) # << >>
         /\ Owners(items \o Tail(s)) = Owners(items) + Owners(s) - OwnerOf(Head(s))
<1> DEFINE n == Len(s)
           t == Tail(s)
           k == Len(items)
           u == items \o t
<1>1. /\ s \in Seq(Items) /\ n \in Nat \ {0}
      /\ t \in Seq(Items) /\ Len(t) = n - 1
      /\ \A i \in 1 .. n - 1 : t[i] = s[i + 1]
      /\ Head(s) = s[1]
  BY EmptySeq, HeadTailProperties DEF Stack
<1>2. n > 1
  <2>1. ASSUME n = 1
        PROVE  FALSE
    <3>1. 1 \in 1 .. Len(s) /\ 1 = Len(s)
      BY <2>1
    <3>2. s[1].op = "main"
      BY <3>1 DEF Stack
    <3> QED BY <1>1, <3>2
  <2> QED BY <1>1, <2>1
<1>3. items \in Seq(Items) /\ k \in Nat
  <2>1. Called \subseteq Items
    BY DEF Called
  <2> QED BY <2>1, SeqMonotonic, LenProperties
<1>4. /\ u \in Seq(Items)
      /\ Len(u) = k + (n - 1)
      /\ \A i \in 1 .. k + (n - 1) : u[i] = IF i <= k THEN items[i] ELSE t[i - k]
  BY <1>1, <1>3, ConcatProperties
<1>5. Owners(u) = Owners(items) + Owners(t) /\ Owners(s) = OwnerOf(Head(s)) + Owners(t)
  BY <1>1, <1>3, OwnersConcat, OwnersHeadTail
<1>6. Owners(u) \in Nat /\ Owners(items) \in Nat /\ Owners(t) \in Nat
  BY <1>1, <1>3, <1>4, OwnersFinite
<1>7. \A i \in 1 .. k : items[i].op \notin {"main", "visit"}
  BY <1>3, ElementOfSeq DEF Called
<1> HIDE DEF u, t, k
<1>8. ASSUME NEW i \in 1 .. Len(u)
      PROVE  /\ u[i].op = "main" <=> i = Len(u)
             /\ u[i].op = "visit" => i = Len(u) - 1
  <2>1. CASE i <= k
    BY <1>2, <1>3, <1>4, <1>7, <2>1
  <2>2. CASE ~ (i <= k)
    <3>1. i - k \in 1 .. n - 1 /\ u[i] = t[i - k]
      BY <1>1, <1>3, <1>4, <2>2
    <3>2. u[i] = s[(i - k) + 1] /\ (i - k) + 1 \in 1 .. Len(s)
      BY <1>1, <3>1
    <3>3. i = Len(u) <=> (i - k) + 1 = Len(s)
      BY <1>1, <1>3, <1>4
    <3>4. i = Len(u) - 1 <=> (i - k) + 1 = Len(s) - 1
      BY <1>1, <1>3, <1>4
    <3> QED BY <3>2, <3>3, <3>4 DEF Stack
  <2> QED BY <2>1, <2>2
<1>9. Stack(u)
  BY <1>4, <1>8 DEF Stack
<1>10. u # << >>
  BY <1>2, <1>3, <1>4
<1>11. OwnerOf(Head(s)) \in Nat
  BY DEF OwnerOf
<1> QED BY <1>5, <1>6, <1>9, <1>10, <1>11 DEF u, t

LEMMA RecoveringContinues ==
  ASSUME NEW s, Stack(s), s # << >>, NEW items \in Seq(Work), Recovering(items \o Tail(s))
  PROVE  Recovering(s)
<1> DEFINE k == Len(items)
           t == Tail(s)
           u == items \o t
<1>1. /\ s \in Seq(Items) /\ Len(s) \in Nat \ {0}
      /\ t \in Seq(Items) /\ Len(t) = Len(s) - 1
      /\ \A i \in 1 .. Len(s) - 1 : t[i] = s[i + 1]
  BY EmptySeq, HeadTailProperties DEF Stack
<1>2. items \in Seq(Items) /\ k \in Nat
  <2>1. Work \subseteq Items
    BY DEF Work, Called
  <2> QED BY <2>1, SeqMonotonic, LenProperties
<1>3. /\ Len(u) = k + (Len(s) - 1)
      /\ \A i \in 1 .. k + (Len(s) - 1) : u[i] = IF i <= k THEN items[i] ELSE t[i - k]
  BY <1>1, <1>2, ConcatProperties
<1>4. \A i \in 1 .. k : items[i].op # "recover"
  BY <1>2, ElementOfSeq DEF Work
<1>5. PICK i \in 1 .. Len(u) : u[i].op = "recover"
  BY DEF Recovering
<1> HIDE DEF k, t, u
<1>6. i - k \in 1 .. Len(s) - 1 /\ u[i] = t[i - k]
  BY <1>1, <1>2, <1>3, <1>4, <1>5
<1>7. (i - k) + 1 \in 1 .. Len(s) /\ s[(i - k) + 1].op = "recover"
  BY <1>1, <1>5, <1>6
<1> QED BY <1>7 DEF Recovering

LEMMA CleanWord ==
  ASSUME NEW items \in Seq(Clean)
  PROVE  items \in Seq(Work) /\ Owners(items) = 0
<1>1. Clean \subseteq Work
  BY DEF Clean
<1>2. items \in Seq(Work)
  BY <1>1, SeqMonotonic
<1>3. OwnerPositions(items) = {}
  BY ElementOfSeq DEF OwnerPositions, Clean
<1> QED BY <1>2, <1>3, FS_EmptySet DEF Owners, OwnerPositions

(* Any step that goes on with items preserves the invariant, provided it    *)
(* opens as many scopes as it pushes owners, or diagnoses something.        *)
LEMMA StepKeepsAny ==
  ASSUME IInv, control # << >>, Head(control).op # "main",
         NEW items \in Seq(Called), Continue(items),
         history' = {} => items \in Seq(Work),
         StreamInv', FlagsInv', history \subseteq history',
         thrown' => history' # {},
         Len(scopes') - Len(scopes) >= Owners(items) - OwnerOf(Head(control)),
         history' = {} => Len(scopes') - Len(scopes) = Owners(items) - OwnerOf(Head(control))
  PROVE  IInv'
<1>1. control' = items \o Tail(control)
  BY DEF Continue
<1>2. /\ Stack(control')
      /\ control' # << >>
      /\ Owners(control') = Owners(items) + Owners(control) - OwnerOf(Head(control))
  BY <1>1, StackContinues DEF IInv
<1>3. Owners(control) \in Nat /\ Owners(items) \in Nat /\ OwnerOf(Head(control)) \in Nat
  BY OwnersFinite DEF IInv, Stack, OwnerOf
<1>4. Len(scopes) \in Nat /\ Len(scopes') \in Nat
  BY LenProperties DEF IInv, StreamInv
<1>5. Len(scopes) >= 1 + Owners(control) /\ (history = {} => Len(scopes) = 1 + Owners(control))
  BY DEF IInv, ScopesNeverUnderflow, ScopesBalanced
<1>6. Len(scopes') >= 1 + Owners(control')
  BY <1>2, <1>3, <1>4, <1>5
<1>7. ASSUME history' = {}
      PROVE  Len(scopes') = 1 + Owners(control')
  <2>1. history = {}
    BY <1>7
  <2> QED BY <1>2, <1>3, <1>4, <1>5, <1>7, <2>1
<1>8. ScopesNeverUnderflow' /\ ScopesBalanced'
  BY <1>6, <1>7 DEF ScopesNeverUnderflow, ScopesBalanced
<1>9. ThrownInv'
  BY <1>2 DEF ThrownInv
<1>10. RecoveringInv'
  <2>1. ASSUME Recovering(control'), history' = {}
        PROVE  FALSE
    <3>1. Recovering(control)
      BY <1>1, <2>1, RecoveringContinues DEF IInv
    <3> QED BY <2>1, <3>1 DEF IInv, RecoveringInv
  <2> QED BY <2>1 DEF RecoveringInv
<1> QED BY <1>2, <1>8, <1>9, <1>10 DEF IInv

LEMMA StepKeeps ==
  ASSUME IInv, control # << >>, Head(control).op # "main",
         NEW items \in Seq(Work), Continue(items),
         StreamInv', FlagsInv', history \subseteq history',
         thrown' => history' # {},
         Len(scopes') - Len(scopes) >= Owners(items) - OwnerOf(Head(control)),
         history' = {} => Len(scopes') - Len(scopes) = Owners(items) - OwnerOf(Head(control))
  PROVE  IInv'
<1>1. Work \subseteq Called
  BY DEF Work
<1>2. items \in Seq(Called)
  BY <1>1, SeqMonotonic
<1> QED BY <1>2, StepKeepsAny

-----------------------------------------------------------------------------
(* Scopes and kinds *)

LEMMA ScopeUnfold ==
  ASSUME NEW scope \in Scope
  PROVE  /\ DOMAIN scope \subseteq Texts
         /\ \A k \in DOMAIN scope : scope[k] \in BoundKinds
<1>1. PICK D \in SUBSET Texts : scope \in [D -> BoundKinds]
  BY DEF Scope
<1> QED BY <1>1

LEMMA ScopeFold ==
  ASSUME NEW D \in SUBSET Texts, NEW scope \in [D -> BoundKinds]
  PROVE  scope \in Scope
BY DEF Scope

LEMMA BindScope ==
  ASSUME NEW scope \in Scope, NEW name \in Texts, NEW kind \in BoundKinds
  PROVE  Bind(scope, name, kind) \in Scope
<1> DEFINE D == DOMAIN scope \cup {name}
<1>1. D \in SUBSET Texts /\ \A k \in DOMAIN scope : scope[k] \in BoundKinds
  BY ScopeUnfold
<1>2. Bind(scope, name, kind) \in [D -> BoundKinds]
  BY <1>1 DEF Bind
<1> QED BY <1>1, <1>2, ScopeFold

LEMMA EnterKeeps ==
  ASSUME NEW stack \in Seq(Scope)
  PROVE  EnterScope(stack) \in Seq(Scope) /\ Len(EnterScope(stack)) = Len(stack) + 1
<1>1. EmptyScope \in [{} -> BoundKinds]
  BY DEF EmptyScope
<1>2. EmptyScope \in Scope
  BY <1>1, ScopeFold
<1> QED BY <1>2, AppendProperties DEF EnterScope

LEMMA ExitKeeps ==
  ASSUME NEW stack \in Seq(Scope), Len(stack) >= 1
  PROVE  ExitScope(stack) \in Seq(Scope) /\ Len(ExitScope(stack)) = Len(stack) - 1
<1>1. Len(stack) \in Nat
  BY LenProperties
<1>2. \A i \in 1 .. Len(stack) - 1 : stack[i] \in Scope
  BY <1>1, ElementOfSeq
<1>3. /\ SubSeq(stack, 1, Len(stack) - 1) \in Seq(Scope)
      /\ Len(SubSeq(stack, 1, Len(stack) - 1)) =
           IF 1 <= Len(stack) - 1 THEN (Len(stack) - 1) - 1 + 1 ELSE 0
  BY <1>1, <1>2, SubSeqProperties
<1> DEFINE rest == SubSeq(stack, 1, Len(stack) - 1)
           n == Len(stack)
<1>4. rest \in Seq(Scope)
  BY <1>3
<1>5. Len(rest) = IF 1 <= n - 1 THEN (n - 1) - 1 + 1 ELSE 0
  BY <1>3
<1>6. n \in Nat /\ n >= 1
  BY <1>1
<1>7. ExitScope(stack) = rest
  BY DEF ExitScope
<1> HIDE DEF rest, n
<1>8. Len(rest) = n - 1
  BY ONLY <1>5, <1>6
<1> QED BY <1>4, <1>7, <1>8 DEF n

LEMMA AddKeeps ==
  ASSUME NEW stack \in Seq(Scope), stack # << >>, NEW name \in Texts, NEW kind \in BoundKinds
  PROVE  /\ AddToScope(stack, name, kind) \in Seq(Scope)
         /\ Len(AddToScope(stack, name, kind)) = Len(stack)
<1>1. stack[Len(stack)] \in Scope
  BY EmptySeq, ElementOfSeq
<1>2. Scope \cup {Bind(stack[Len(stack)], name, kind)} = Scope
  BY <1>1, BindScope
<1>3. AddToScope(stack, name, kind) \in Seq(Scope \cup {Bind(stack[Len(stack)], name, kind)})
  BY AddToScopeSeq
<1>4. Len(AddToScope(stack, name, kind)) = Len(stack)
  BY AddToScopeShape
<1> QED BY <1>2, <1>3, <1>4

LEMMA KindOfKinds ==
  ASSUME NEW stack \in Seq(Scope), NEW text
  PROVE  KindOf(text, stack) \in Kinds
<1>1. CASE text \in Keywords
  BY <1>1 DEF KindOf, Kinds
<1>2. CASE text \notin Keywords /\ Resolve(stack, text) = Absent
  BY <1>2 DEF KindOf, Kinds
<1>3. CASE text \notin Keywords /\ Resolve(stack, text) # Absent
  <2>1. Len(stack) \in Nat
    BY LenProperties
  <2>2. PICK i \in Binders(stack, text) : Resolve(stack, text) = stack[i][text]
    BY <1>3, <2>1, ResolveType
  <2>3. i \in 1 .. Len(stack) /\ text \in DOMAIN stack[i]
    BY DEF Binders
  <2>4. stack[i] \in Scope
    BY <2>3, ElementOfSeq
  <2>5. Resolve(stack, text) \in BoundKinds
    BY <2>2, <2>3, <2>4, ScopeUnfold
  <2>6. KindOf(text, stack) = Resolve(stack, text)
    BY <1>3 DEF KindOf
  <2> QED BY <2>5, <2>6 DEF Kinds
<1> QED BY <1>1, <1>2, <1>3

-----------------------------------------------------------------------------
(* The ways a call goes on *)

(* A call in progress: nothing is being thrown, and main is further down.   *)
InCall == ~thrown /\ control # << >> /\ Head(control).op # "main"

LEMMA RunningInCall ==
  ASSUME NEW op, op # "main", Running(op)
  PROVE  InCall /\ Head(control).op = op
BY DEF Running, InCall

LEMMA HeadItem ==
  ASSUME IInv, control # << >>
  PROVE  Head(control) \in Items
BY HeadTailProperties DEF IInv, Stack

LEMMA ScopesFacts ==
  ASSUME IInv
  PROVE  scopes \in Seq(Scope) /\ Len(scopes) \in Nat /\ Len(scopes) >= 1 /\ scopes # << >>
<1>1. scopes \in Seq(Scope) /\ Len(scopes) \in Nat
  BY LenProperties DEF IInv, StreamInv
<1>2. Owners(control) \in Nat
  BY OwnersFinite DEF IInv, Stack
<1> QED BY <1>1, <1>2, EmptySeq DEF IInv, ScopesNeverUnderflow

LEMMA ConsumeKeeps ==
  ASSUME IInv, Consume, scopes' \in Seq(Scope)
  PROVE  StreamInv'
BY DEF IInv, StreamInv, Consume

LEMMA TakeKeeps ==
  ASSUME IInv, InCall, NEW items \in Seq(Work),
         Owners(items) = OwnerOf(Head(control)), Take(items)
  PROVE  IInv'
<1>1. /\ Consume /\ Continue(items)
      /\ UNCHANGED <<thrown, parserError, history, scopes, tree, error, outcome>>
  BY DEF Take, Quiet, driver
<1>2. StreamInv' /\ FlagsInv' /\ ~ thrown' /\ history \subseteq history'
  BY <1>1, ConsumeKeeps DEF IInv, StreamInv, FlagsInv, InCall
<1>3. Len(scopes') - Len(scopes) = Owners(items) - OwnerOf(Head(control))
  BY <1>1, ScopesFacts DEF OwnerOf
<1>4. Owners(items) - OwnerOf(Head(control)) = 0 /\ Len(scopes') - Len(scopes) = 0
  BY <1>1, ScopesFacts DEF OwnerOf
<1> QED BY <1>1, <1>2, <1>3, <1>4, StepKeeps DEF InCall

LEMMA PassKeeps ==
  ASSUME IInv, InCall, NEW items \in Seq(Work),
         Owners(items) = OwnerOf(Head(control)), Pass(items)
  PROVE  IInv'
<1>1. /\ Continue(items)
      /\ UNCHANGED <<thrown, parserError, history, scopes, tree, error, outcome, head, left, buffer>>
  BY DEF Pass, Quiet, driver, stream
<1>2. StreamInv' /\ FlagsInv' /\ ~ thrown' /\ history \subseteq history'
  BY <1>1 DEF IInv, StreamInv, FlagsInv, InCall
<1>3. Owners(items) - OwnerOf(Head(control)) = 0 /\ Len(scopes') - Len(scopes) = 0
  BY <1>1, ScopesFacts DEF OwnerOf
<1> QED BY <1>1, <1>2, <1>3, StepKeeps DEF InCall

(* A call that owns no scope is abandoned, after its diagnosis.             *)
LEMMA RefuseKeeps ==
  ASSUME IInv, InCall, RefuseConsumed \/ RefuseUnread
  PROVE  IInv'
<1>1. /\ Fail /\ UNCHANGED <<scopes, tree, error, outcome>>
      /\ Consume \/ UNCHANGED <<head, left, buffer>>
  BY DEF RefuseConsumed, RefuseUnread, driver, stream
<1>2. /\ thrown' = TRUE /\ parserError' = TRUE /\ Continue(<< >>)
      /\ history' = history \cup {"reported"}
  BY <1>1 DEF Fail
<1>3. StreamInv'
  BY <1>1, ConsumeKeeps DEF IInv, StreamInv
<1>4. FlagsInv' /\ history' # {} /\ history \subseteq history'
  BY <1>1, <1>2 DEF IInv, FlagsInv, Events
<1>5. << >> \in Seq(Work) /\ Owners(<< >>) = 0
  BY EmptySeq, OwnersEmpty
<1>6. Len(scopes') - Len(scopes) >= Owners(<< >>) - OwnerOf(Head(control))
  BY <1>1, <1>5, ScopesFacts DEF OwnerOf
<1> QED BY <1>2, <1>3, <1>4, <1>5, <1>6, StepKeeps DEF InCall

LEMMA TakeClean ==
  ASSUME IInv, InCall, Head(control).op \notin OwnerOps, NEW items \in Seq(Clean), Take(items)
  PROVE  IInv'
<1>1. items \in Seq(Work) /\ Owners(items) = 0
  BY CleanWord
<1>2. OwnerOf(Head(control)) = 0
  BY DEF OwnerOf
<1> QED BY <1>1, <1>2, TakeKeeps

LEMMA PassClean ==
  ASSUME IInv, InCall, Head(control).op \notin OwnerOps, NEW items \in Seq(Clean), Pass(items)
  PROVE  IInv'
<1>1. items \in Seq(Work) /\ Owners(items) = 0
  BY CleanWord
<1>2. OwnerOf(Head(control)) = 0
  BY DEF OwnerOf
<1> QED BY <1>1, <1>2, PassKeeps

(* A call that changes the scopes, the tree, or reports something, without  *)
(* throwing.                                                                *)
LEMMA ChangeKeeps ==
  ASSUME IInv, InCall, NEW items \in Seq(Work), Continue(items),
         Consume \/ UNCHANGED stream,
         scopes' \in Seq(Scope), tree' \in Trees,
         UNCHANGED <<thrown, parserError>>, error' \in BOOLEAN, UNCHANGED outcome,
         history' \subseteq Events, history \subseteq history',
         Len(scopes') = Len(scopes) + Owners(items) - OwnerOf(Head(control))
  PROVE  IInv'
<1>1. StreamInv'
  BY ConsumeKeeps DEF IInv, StreamInv, stream
<1>2. FlagsInv' /\ ~ thrown'
  BY DEF IInv, FlagsInv, InCall
<1>3. Owners(items) \in Nat /\ OwnerOf(Head(control)) \in Nat /\ Len(scopes) \in Nat
  <2>1. Owners(items) \in Nat
    BY OwnersFinite
  <2> QED BY <2>1, ScopesFacts DEF OwnerOf
<1>4. /\ Len(scopes') - Len(scopes) = Owners(items) - OwnerOf(Head(control))
      /\ Len(scopes') - Len(scopes) >= Owners(items) - OwnerOf(Head(control))
  BY <1>3
<1> QED BY <1>1, <1>2, <1>4, StepKeeps DEF InCall

(* A step that leaves the stack, the scopes and the history alone. *)
LEMMA StillKeeps ==
  ASSUME IInv, StreamInv', FlagsInv', UNCHANGED <<control, scopes, history>>,
         thrown' => thrown
  PROVE  IInv'
<1>1. Stack(control') /\ ScopesNeverUnderflow' /\ ScopesBalanced' /\ RecoveringInv'
  BY DEF IInv, ScopesNeverUnderflow, ScopesBalanced, RecoveringInv
<1>2. ThrownInv'
  BY DEF IInv, ThrownInv
<1> QED BY <1>1, <1>2 DEF IInv

-----------------------------------------------------------------------------
(* The items of the calls *)

LEMMA CleanDo ==
  ASSUME NEW op \in PlainOps, op \notin OwnerOps, op \notin {"main", "visit", "recover"}
  PROVE  Do(op) \in Clean
BY DEF Do, Clean, Work, Called, Items

LEMMA CleanKind ==
  ASSUME NEW kind \in Kinds
  PROVE  Expect(kind) \in Clean /\ Check(kind) \in Clean
BY DEF Expect, Check, Clean, Work, Called, Items, OwnerOps

LEMMA CleanNamed ==
  ASSUME NEW name \in Texts
  PROVE  Named("initializer", name) \in Clean /\ Named("declare", name) \in Clean
BY DEF Named, Clean, Work, Called, Items, OwnerOps

LEMMA CleanSeparator ==
  Separator("params") \in Clean /\ Separator("args") \in Clean
BY DEF Separator, Clean, Work, Called, Items, OwnerOps

LEMMA CleanOperators ==
  ASSUME NEW low \in Levels, NEW high \in Levels
  PROVE  Precedence(low) \in Clean /\ Operators(low, high) \in Clean
BY DEF Precedence, Operators, Clean, Work, Called, Items, OwnerOps

LEMMA CleanExpression ==
  TopPrecedence \in Clean /\ Expression \in Seq(Clean)
<1>1. TopPrecedence \in Clean
  BY CleanOperators DEF TopPrecedence, Levels
<1>2. Do("catch") \in Clean
  BY CleanDo DEF PlainOps, SilentOps, ReadingOps, OwnerOps
<1> QED BY <1>1, <1>2 DEF Expression

LEMMA PlainWork ==
  /\ \A op \in { "block", "body", "skip", "target", "skipblock", "else", "returned",
                 "declarator", "funcname", "param", "paramname", "returntype", "args",
                 "multiblock", "params", "catch" } : Do(op) \in Clean
  /\ Do("funcbody") \in Work /\ Do("closefunction") \in Work
<1>1. ASSUME NEW op \in { "block", "body", "skip", "target", "skipblock", "else", "returned",
                 "declarator", "funcname", "param", "paramname", "returntype", "args",
                 "multiblock", "params", "catch" }
      PROVE  Do(op) \in Clean
  BY CleanDo DEF PlainOps, SilentOps, ReadingOps, OwnerOps
<1>2. Do("funcbody") \in Work /\ Do("closefunction") \in Work
  BY DEF Do, Work, Called, Items, PlainOps, SilentOps, ReadingOps
<1> QED BY <1>1, <1>2

LEMMA ExpectedTokens ==
  /\ Expect("then") \in Clean /\ Expect("fi") \in Clean /\ Expect("is") \in Clean
  /\ Expect(":=") \in Clean /\ Expect("endfunction") \in Clean
  /\ Expect("(") \in Clean /\ Expect(")") \in Clean /\ Check("TYPE") \in Clean
  /\ Semicolon \in Clean
<1>1. {"then", "fi", "is", ":=", "endfunction", "(", ")", "TYPE"} \subseteq Kinds
  BY Zenon DEF Kinds, Keywords, BoundKinds
<1>2. ";" \in Kinds
  BY Zenon DEF Kinds, Keywords
<1>3. Semicolon \in Clean
  BY <1>2, CleanKind, Zenon DEF Semicolon
<1> QED BY <1>1, <1>3, CleanKind

LEMMA BlocksWork ==
  ASSUME NEW saved \in Trees
  PROVE  /\ Blocks(saved) \in Work
         /\ <<Blocks(saved)>> \in Seq(Work) /\ Owners(<<Blocks(saved)>>) = 1
<1>1. Blocks(saved) \in Work
  BY DEF Blocks, Work, Called, Items
<1>2. OwnerOf(Blocks(saved)) = 1
  BY DEF Blocks, OwnerOf, OwnerOps
<1> QED BY <1>1, <1>2, OwnersOne

-----------------------------------------------------------------------------
(* Tokens *)

LEMMA LookaheadKeeps ==
  ASSUME IInv, Lookahead
  PROVE  IInv'
<1>1. /\ buffer' = [text |-> head, kind |-> KindOf(head, scopes)]
      /\ Advance
      /\ UNCHANGED <<scopes, control, thrown, tree, parserError, error, outcome, history>>
  BY DEF Lookahead, Peek, Quiet, driver
<1>2. KindOf(head, scopes) \in Kinds
  BY KindOfKinds DEF IInv, StreamInv
<1>3. head' \in Texts /\ left' \in 0 .. MaxTokens
  BY <1>1, AlphabetAssumption DEF IInv, StreamInv, Advance, Texts
<1>4. StreamInv'
  BY <1>1, <1>2, <1>3 DEF IInv, StreamInv
<1>5. FlagsInv'
  BY <1>1 DEF IInv, FlagsInv
<1> QED BY <1>1, <1>4, <1>5, StillKeeps

LEMMA NoItems == << >> \in Seq(Clean) /\ << >> \in Seq(Work) /\ Owners(<< >>) = 0
BY EmptySeq, OwnersEmpty

LEMMA TokenStepKeeps ==
  ASSUME IInv, TokenStep
  PROVE  IInv'
<1>1. CASE Lookahead
  BY <1>1, LookaheadKeeps
<1>2. CASE ExpectToken
  <2>1. InCall /\ Head(control).op = "expect"
    BY <1>2, RunningInCall DEF ExpectToken, Looking
  <2>2. Take(<< >>) \/ RefuseConsumed
    BY <1>2 DEF ExpectToken
  <2>3. Head(control).op \notin OwnerOps
    BY <2>1 DEF OwnerOps
  <2> QED BY <2>1, <2>2, <2>3, NoItems, TakeClean, RefuseKeeps
<1>3. CASE CheckToken
  <2>1. InCall /\ Head(control).op = "check"
    BY <1>3, RunningInCall DEF CheckToken, Looking
  <2>2. Take(<< >>) \/ RefuseUnread
    BY <1>3 DEF CheckToken
  <2>3. Head(control).op \notin OwnerOps
    BY <2>1 DEF OwnerOps
  <2> QED BY <2>1, <2>2, <2>3, NoItems, TakeClean, RefuseKeeps
<1>4. CASE Skip
  <2>1. InCall /\ Head(control).op = "skip"
    BY <1>4, RunningInCall DEF Skip, Looking
  <2>2. Head(control).op \notin OwnerOps
    BY <2>1 DEF OwnerOps
  <2> QED BY <1>4, <2>1, <2>2, NoItems, TakeClean DEF Skip
<1> QED BY <1>1, <1>2, <1>3, <1>4 DEF TokenStep

-----------------------------------------------------------------------------
(* Blocks *)

(* The cases of parseStatement that only consume their first token.         *)
LEMMA StartsKeeps ==
  ASSUME IInv, NEW kind, NEW items \in Seq(Clean), Starts(kind, items)
  PROVE  IInv'
<1>1. InCall /\ Head(control).op = "body" /\ Take(items)
  BY RunningInCall DEF Starts, Looking
<1>2. Head(control).op \notin OwnerOps
  BY <1>1 DEF OwnerOps
<1> QED BY <1>1, <1>2, TakeClean

LEMMA StatementKeeps ==
  ASSUME IInv,
         \/ ParseIf \/ ParseFunction \/ ParsePragma \/ ParseGoto \/ ParseReturn
         \/ ParseVariableAssignment \/ ParseVariableDeclaration
  PROVE  IInv'
<1>1. CASE ParseIf
  <2>1. <<TopPrecedence, Expect("then"), Do("multiblock"), Do("else")>> \in Seq(Clean)
    BY CleanExpression, PlainWork, ExpectedTokens
  <2> QED BY <1>1, <2>1, StartsKeeps DEF ParseIf
<1>2. CASE ParseFunction
  <2>1. <<Do("funcname")>> \in Seq(Clean)
    BY PlainWork
  <2> QED BY <1>2, <2>1, StartsKeeps DEF ParseFunction
<1>3. CASE ParsePragma
  <2>1. <<Do("target"), Do("skip"), Expect("is"), Do("skip"), Semicolon>> \in Seq(Clean)
    BY PlainWork, ExpectedTokens
  <2> QED BY <1>3, <2>1, StartsKeeps DEF ParsePragma
<1>4. CASE ParseGoto
  <2>1. <<Do("skip"), Semicolon>> \in Seq(Clean)
    BY PlainWork, ExpectedTokens
  <2> QED BY <1>4, <2>1, StartsKeeps DEF ParseGoto
<1>5. CASE ParseReturn
  <2>1. <<Do("returned"), Semicolon>> \in Seq(Clean)
    BY PlainWork, ExpectedTokens
  <2> QED BY <1>5, <2>1, StartsKeeps DEF ParseReturn
<1>6. CASE ParseVariableAssignment
  <2>1. <<Expect(":=")>> \in Seq(Clean) /\ <<Semicolon>> \in Seq(Clean)
    BY ExpectedTokens
  <2>2. <<Expect(":=")>> \o Expression \o <<Semicolon>> \in Seq(Clean)
    BY <2>1, CleanExpression, ConcatProperties
  <2> QED BY <1>6, <2>2, StartsKeeps DEF ParseVariableAssignment
<1>7. CASE ParseVariableDeclaration
  <2>1. <<Do("declarator")>> \in Seq(Clean)
    BY PlainWork
  <2> QED BY <1>7, <2>1, StartsKeeps DEF ParseVariableDeclaration
<1> QED BY <1>1, <1>2, <1>3, <1>4, <1>5, <1>6, <1>7

LEMMA UnparsedKeeps ==
  ASSUME IInv, ParseUnexpected \/ ParseEndOfFile \/ PragmaTarget
  PROVE  IInv'
<1>1. CASE ParseUnexpected
  <2>1. InCall /\ Head(control).op = "body"
    BY <1>1, RunningInCall DEF ParseUnexpected, Looking
  <2>2. /\ Consume /\ Continue(<<Semicolon>>) /\ NullBlock
        /\ history' = history \cup {"reported"}
        /\ UNCHANGED <<thrown, parserError, scopes, error, outcome>>
    BY <1>1 DEF ParseUnexpected, DefaultCase, Report, driver
  <2>3. <<Semicolon>> \in Seq(Clean)
    BY ExpectedTokens
  <2>4. <<Semicolon>> \in Seq(Work)
    BY <2>3, CleanWord
  <2>9. Owners(<<Semicolon>>) = 0
    BY <2>3, CleanWord
  <2>5. tree' \in Trees
    BY <2>2 DEF NullBlock, Trees
  <2>6. OwnerOf(Head(control)) = 0
    BY <2>1 DEF OwnerOf, OwnerOps
  <2>7. history' \subseteq Events /\ error \in BOOLEAN
    BY <2>2 DEF IInv, FlagsInv, Events
  <2>8. Len(scopes') = Len(scopes) + Owners(<<Semicolon>>) - OwnerOf(Head(control))
    BY <2>2, <2>6, <2>9, ScopesFacts
  <2> QED BY <2>1, <2>2, <2>4, <2>5, <2>7, <2>8, ScopesFacts, ChangeKeeps
<1>2. CASE ParseEndOfFile
  <2>1. InCall /\ Head(control).op = "body"
    BY <1>2, RunningInCall DEF ParseEndOfFile, Looking
  <2>2. /\ UNCHANGED stream /\ Continue(<< >>) /\ NullBlock
        /\ UNCHANGED <<thrown, parserError, history, scopes, error, outcome>>
    BY <1>2 DEF ParseEndOfFile, Quiet, driver
  <2>5. tree' \in Trees
    BY <2>2 DEF NullBlock, Trees
  <2>6. OwnerOf(Head(control)) = 0
    BY <2>1 DEF OwnerOf, OwnerOps
  <2>7. history' \subseteq Events /\ error \in BOOLEAN
    BY <2>2 DEF IInv, FlagsInv, Events
  <2>8. Len(scopes') = Len(scopes) + Owners(<< >>) - OwnerOf(Head(control))
    BY <2>2, <2>6, NoItems, ScopesFacts
  <2> QED BY <2>1, <2>2, <2>5, <2>7, <2>8, NoItems, ScopesFacts, ChangeKeeps
<1>3. CASE PragmaTarget
  <2>1. InCall /\ Head(control).op = "target"
    BY <1>3, RunningInCall DEF PragmaTarget, Looking
  <2>2. /\ Consume /\ Continue(<< >>)
        /\ history' \in {history, history \cup {"reported"}}
        /\ UNCHANGED <<thrown, parserError, tree, scopes, error, outcome>>
    BY <1>3 DEF PragmaTarget, Quiet, Report, driver
  <2>6. OwnerOf(Head(control)) = 0
    BY <2>1 DEF OwnerOf, OwnerOps
  <2>7. history' \subseteq Events /\ history \subseteq history' /\ error \in BOOLEAN /\ tree \in Trees
    BY <2>2 DEF IInv, FlagsInv, Events
  <2>8. Len(scopes') = Len(scopes) + Owners(<< >>) - OwnerOf(Head(control))
    BY <2>2, <2>6, NoItems, ScopesFacts
  <2> QED BY <2>1, <2>2, <2>7, <2>8, NoItems, ScopesFacts, ChangeKeeps
<1> QED BY <1>1, <1>2, <1>3

LEMMA OpenMultiBlockKeeps ==
  ASSUME IInv, OpenMultiBlock
  PROVE  IInv'
<1> DEFINE items == <<Blocks(tree)>>
<1>1. InCall /\ Head(control).op = "multiblock"
  BY RunningInCall DEF OpenMultiBlock
<1>2. /\ UNCHANGED stream /\ Continue(items) /\ scopes' = EnterScope(scopes)
      /\ UNCHANGED <<thrown, parserError, history, tree, error, outcome>>
  BY DEF OpenMultiBlock, PushContext, Rescope, Quiet, driver
<1>3. /\ history' \subseteq Events /\ history \subseteq history'
      /\ error \in BOOLEAN /\ tree \in Trees
  BY <1>2 DEF IInv, FlagsInv
<1>4. items \in Seq(Work)
  BY <1>3, BlocksWork
<1>5. Owners(items) = 1 /\ OwnerOf(Head(control)) = 0
  BY <1>1, <1>3, BlocksWork DEF OwnerOf, OwnerOps
<1>6. scopes' \in Seq(Scope) /\ Len(scopes') = Len(scopes) + 1
  BY <1>2, ScopesFacts, EnterKeeps
<1> HIDE DEF items
<1>7. Len(scopes') = Len(scopes) + Owners(items) - OwnerOf(Head(control))
  BY <1>5, <1>6, ScopesFacts
<1> QED BY <1>1, <1>2, <1>3, <1>4, <1>6, <1>7, ChangeKeeps

LEMMA NextBlockKeeps ==
  ASSUME IInv, NextBlock
  PROVE  IInv'
<1> DEFINE items == <<Do("block"), Blocks(tree)>>
<1>1. InCall /\ Head(control).op = "blocks" /\ Pass(items)
  BY RunningInCall DEF NextBlock, Looking
<1>2. tree \in Trees
  BY DEF IInv, FlagsInv
<1>3. Do("block") \in Work /\ OwnerOf(Do("block")) = 0
  BY PlainWork DEF Clean, OwnerOf
<1>4. Blocks(tree) \in Work
  BY <1>2, BlocksWork
<1>5. Owners(<<Blocks(tree)>>) = 1
  BY <1>2, BlocksWork
<1>6. items \in Seq(Work)
  BY <1>3, <1>4
<1>7. Head(items) = Do("block") /\ Tail(items) = <<Blocks(tree)>> /\ items # << >>
  OBVIOUS
<1>8. OwnerOf(Head(control)) = 1
  BY <1>1 DEF OwnerOf, OwnerOps
<1> HIDE DEF items
<1>9. Owners(items) = OwnerOf(Head(items)) + Owners(Tail(items))
  BY <1>6, <1>7, OwnersHeadTail
<1>10. Owners(items) = 0 + 1
  BY <1>3, <1>5, <1>7, <1>9, Zenon
<1> QED BY <1>1, <1>6, <1>8, <1>10, PassKeeps

(* Closing the scope of the call at the head of the stack. *)
LEMMA CloseKeeps ==
  ASSUME IInv, NEW op \in {"blocks", "closefunction"}, Running(op), PopContext, Rescope(<< >>)
  PROVE  IInv'
<1>1. InCall /\ Head(control).op = op
  BY RunningInCall
<1>2. /\ UNCHANGED stream /\ Continue(<< >>) /\ scopes' = ExitScope(scopes)
      /\ UNCHANGED <<thrown, parserError, history, tree, error, outcome>>
  BY DEF PopContext, Rescope, Quiet, driver
<1>3. /\ history' \subseteq Events /\ history \subseteq history'
      /\ error \in BOOLEAN /\ tree \in Trees
  BY <1>2 DEF IInv, FlagsInv
<1>4. OwnerOf(Head(control)) = 1
  BY <1>1 DEF OwnerOf, OwnerOps
<1>5. scopes' \in Seq(Scope) /\ Len(scopes') = Len(scopes) - 1
  BY <1>2, ScopesFacts, ExitKeeps
<1>6. Len(scopes') = Len(scopes) + Owners(<< >>) - OwnerOf(Head(control))
  BY <1>4, <1>5, NoItems, ScopesFacts
<1> QED BY <1>1, <1>2, <1>3, <1>5, <1>6, NoItems, ChangeKeeps

LEMMA BlockStepKeeps ==
  ASSUME IInv, BlockStep
  PROVE  IInv'
<1>1. CASE ParseBlock
  <2>1. InCall /\ Head(control).op = "block"
    BY <1>1, RunningInCall DEF ParseBlock, Looking
  <2>2. Take(<<Do("skip"), Do("body")>>) \/ Pass(<<Do("body")>>)
    BY <1>1 DEF ParseBlock
  <2>3. <<Do("skip"), Do("body")>> \in Seq(Clean) /\ <<Do("body")>> \in Seq(Clean)
    BY PlainWork
  <2>4. Head(control).op \notin OwnerOps
    BY <2>1 DEF OwnerOps
  <2> QED BY <2>1, <2>2, <2>3, <2>4, TakeClean, PassClean
<1>2. CASE \/ ParseIf \/ ParseFunction \/ ParsePragma \/ ParseGoto \/ ParseReturn
           \/ ParseVariableAssignment \/ ParseVariableDeclaration
  BY <1>2, StatementKeeps
<1>3. CASE ParseUnexpected \/ ParseEndOfFile \/ PragmaTarget
  BY <1>3, UnparsedKeeps
<1>4. CASE ReturnValue
  <2>1. InCall /\ Head(control).op = "returned"
    BY <1>4, RunningInCall DEF ReturnValue, Looking
  <2>2. Take(<< >>) \/ Pass(Expression)
    BY <1>4, Zenon DEF ReturnValue
  <2>3. Head(control).op \notin OwnerOps
    BY <2>1 DEF OwnerOps
  <2> QED BY <2>1, <2>2, <2>3, NoItems, CleanExpression, TakeClean, PassClean
<1>5. CASE ElseBranch
  <2>1. InCall /\ Head(control).op = "else"
    BY <1>5, RunningInCall DEF ElseBranch, Looking
  <2>2. Take(<<Do("multiblock"), Expect("fi")>>) \/ Pass(<<Expect("fi")>>)
    BY <1>5 DEF ElseBranch
  <2>3. <<Do("multiblock"), Expect("fi")>> \in Seq(Clean) /\ <<Expect("fi")>> \in Seq(Clean)
    BY PlainWork, ExpectedTokens
  <2>4. Head(control).op \notin OwnerOps
    BY <2>1 DEF OwnerOps
  <2> QED BY <2>1, <2>2, <2>3, <2>4, TakeClean, PassClean
<1>6. CASE OpenMultiBlock
  BY <1>6, OpenMultiBlockKeeps
<1>7. CASE NextBlock
  BY <1>7, NextBlockKeeps
<1>8. CASE CloseMultiBlock
  BY <1>8, CloseKeeps DEF CloseMultiBlock, Looking
<1>9. CASE SkipBlock
  <2>1. InCall /\ Head(control).op = "skipblock"
    BY <1>9, RunningInCall DEF SkipBlock, Looking
  <2>2. Pass(<< >>) \/ Take(<<Do("skipblock")>>)
    BY <1>9 DEF SkipBlock
  <2>3. <<Do("skipblock")>> \in Seq(Clean)
    BY PlainWork
  <2>4. Head(control).op \notin OwnerOps
    BY <2>1 DEF OwnerOps
  <2> QED BY <2>1, <2>2, <2>3, <2>4, NoItems, TakeClean, PassClean
<1> QED BY <1>1, <1>2, <1>3, <1>4, <1>5, <1>6, <1>7, <1>8, <1>9 DEF BlockStep

-----------------------------------------------------------------------------
(* Declarations *)

LEMMA BufferText ==
  ASSUME IInv, buffer # NoToken
  PROVE  buffer.text \in Texts /\ buffer.kind \in Kinds
BY DEF IInv, StreamInv

LEMMA HeadName ==
  ASSUME IInv, control # << >>, Head(control).op \in {"initializer", "declare"}
  PROVE  Head(control).name \in Texts
BY HeadItem DEF Items, PlainOps, SilentOps, ReadingOps

(* A call that declares a name in the innermost scope. *)
LEMMA DeclareKeeps ==
  ASSUME IInv, InCall, Head(control).op \notin OwnerOps,
         NEW items \in Seq(Clean), Continue(items), Consume \/ UNCHANGED stream,
         NEW name \in Texts, NEW kind \in BoundKinds, AddToken(name, kind),
         Quiet, UNCHANGED <<tree, driver>>
  PROVE  IInv'
<1>1. /\ scopes' = AddToScope(scopes, name, kind)
      /\ UNCHANGED <<thrown, parserError, history, tree, error, outcome>>
  BY DEF AddToken, Quiet, driver
<1>2. items \in Seq(Work) /\ Owners(items) = 0
  BY CleanWord
<1>3. scopes' \in Seq(Scope) /\ Len(scopes') = Len(scopes)
  BY <1>1, ScopesFacts, AddKeeps
<1>4. /\ history' \subseteq Events /\ history \subseteq history'
      /\ error \in BOOLEAN /\ tree \in Trees
  BY <1>1 DEF IInv, FlagsInv
<1>5. OwnerOf(Head(control)) = 0
  BY DEF OwnerOf
<1>6. Len(scopes') = Len(scopes) + Owners(items) - OwnerOf(Head(control))
  BY <1>2, <1>3, <1>5, ScopesFacts
<1> QED BY <1>1, <1>2, <1>3, <1>4, <1>6, ChangeKeeps

LEMMA VariableKeeps ==
  ASSUME IInv, Declarator \/ Initializer \/ DeclareVariable
  PROVE  IInv'
<1>1. CASE Declarator
  <2>1. /\ InCall /\ Head(control).op = "declarator" /\ buffer # NoToken
        /\ Take(<<Named("initializer", buffer.text)>>)
    BY <1>1, RunningInCall DEF Declarator, Looking
  <2>2. <<Named("initializer", buffer.text)>> \in Seq(Clean)
    BY <2>1, BufferText, CleanNamed
  <2>3. Head(control).op \notin OwnerOps
    BY <2>1 DEF OwnerOps
  <2> QED BY <2>1, <2>2, <2>3, TakeClean
<1>2. CASE Initializer
  <2> DEFINE declare == <<Named("declare", Head(control).name)>>
  <2>1. InCall /\ Head(control).op = "initializer" /\ control # << >>
    BY <1>2, RunningInCall DEF Initializer, Looking, InCall
  <2>2. Take(Expression \o declare) \/ Pass(declare)
    BY <1>2 DEF Initializer
  <2>3. declare \in Seq(Clean)
    BY <2>1, HeadName, CleanNamed
  <2>4. Expression \o declare \in Seq(Clean)
    BY <2>3, CleanExpression, ConcatProperties
  <2>5. Head(control).op \notin OwnerOps
    BY <2>1 DEF OwnerOps
  <2> HIDE DEF declare
  <2> QED BY <2>1, <2>2, <2>3, <2>4, <2>5, TakeClean, PassClean
<1>3. CASE DeclareVariable
  <2>1. InCall /\ Head(control).op = "declare" /\ control # << >>
    BY <1>3, RunningInCall DEF DeclareVariable, InCall
  <2>2. /\ AddToken(Head(control).name, "VARIABLE_NAME")
        /\ Continue(<<Semicolon>>) /\ Quiet /\ UNCHANGED stream /\ UNCHANGED <<tree, driver>>
    BY <1>3 DEF DeclareVariable, Rescope, AfterDeclaration
  <2>3. <<Semicolon>> \in Seq(Clean)
    BY ExpectedTokens
  <2>4. Head(control).name \in Texts
    BY <2>1, HeadName
  <2>5. Head(control).op \notin OwnerOps
    BY <2>1 DEF OwnerOps
  <2>6. "VARIABLE_NAME" \in BoundKinds
    BY DEF BoundKinds
  <2> QED BY <2>1, <2>2, <2>3, <2>4, <2>5, <2>6, DeclareKeeps
<1> QED BY <1>1, <1>2, <1>3

(* A word with one owner, at its last position but rest. *)
LEMMA OneOwner ==
  ASSUME NEW before \in Seq(Clean), NEW owner \in Work, owner.op \in OwnerOps,
         NEW rest \in Seq(Clean)
  PROVE  /\ before \o (<<owner>> \o rest) \in Seq(Work)
         /\ Owners(before \o (<<owner>> \o rest)) = 1
<1>1. before \in Seq(Work) /\ rest \in Seq(Work)
  BY CleanWord
<1>2. Owners(before) = 0 /\ Owners(rest) = 0
  BY CleanWord
<1>3. <<owner>> \in Seq(Work)
  OBVIOUS
<1>4. Owners(<<owner>>) = 1
  BY OwnersOne DEF OwnerOf
<1>5. <<owner>> \o rest \in Seq(Work)
  BY <1>1, <1>3, ConcatProperties
<1>6. Owners(<<owner>> \o rest) = 1
  <2>1. Owners(<<owner>> \o rest) = Owners(<<owner>>) + Owners(rest)
    BY <1>1, <1>3, OwnersConcat
  <2> QED BY <1>2, <1>4, <2>1
<1>7. Owners(before \o (<<owner>> \o rest)) = Owners(before) + Owners(<<owner>> \o rest)
  BY <1>1, <1>5, OwnersConcat
<1>8. before \o (<<owner>> \o rest) \in Seq(Work)
  BY <1>1, <1>5, ConcatProperties
<1>9. Owners(before \o (<<owner>> \o rest)) = 1
  BY <1>2, <1>6, <1>7
<1> QED BY <1>8, <1>9

LEMMA FunctionNameKeeps ==
  ASSUME IInv, FunctionName
  PROVE  IInv'
<1> DEFINE header == <<Expect("("), Do("params"), Expect(")"), Do("returntype")>>
           items == << Expect("("), Do("params"), Expect(")"),
                       Do("returntype"), Do("funcbody") >>
<1>1. InCall /\ Head(control).op = "funcname" /\ buffer # NoToken
  BY RunningInCall DEF FunctionName, Looking
<1>2. CASE RefuseUnread
  BY <1>1, <1>2, RefuseKeeps
<1>3. CASE /\ Consume /\ NameFunction(buffer.text) /\ Continue(items)
           /\ Quiet /\ UNCHANGED <<tree, driver>>
  <2>1. items = header \o (<<Do("funcbody")>> \o << >>)
    OBVIOUS
  <2>2. header \in Seq(Clean)
    BY PlainWork, ExpectedTokens
  <2>3. Do("funcbody").op \in OwnerOps
    BY DEF Do, OwnerOps
  <2>4. Consume /\ Continue(items)
    BY <1>3
  <2>5. /\ scopes' = EnterScope(AddToScope(scopes, buffer.text, "FUNCTION_NAME"))
        /\ UNCHANGED <<thrown, parserError, history, tree, error, outcome>>
    BY <1>3 DEF NameFunction, Quiet, driver
  <2> HIDE DEF header, items
  <2>6. items \in Seq(Work)
    BY <2>1, <2>2, <2>3, NoItems, PlainWork, OneOwner
  <2>7. Owners(items) = 1
    BY <2>1, <2>2, <2>3, NoItems, PlainWork, OneOwner
  <2>8. scopes' \in Seq(Scope) /\ Len(scopes') = Len(scopes) + 1
    <3>1. "FUNCTION_NAME" \in BoundKinds
      BY DEF BoundKinds
    <3> DEFINE added == AddToScope(scopes, buffer.text, "FUNCTION_NAME")
    <3>2. added \in Seq(Scope) /\ Len(added) = Len(scopes)
      BY <1>1, <3>1, BufferText, ScopesFacts, AddKeeps
    <3> HIDE DEF added
    <3>3. EnterScope(added) \in Seq(Scope) /\ Len(EnterScope(added)) = Len(added) + 1
      BY <3>2, EnterKeeps
    <3> QED BY <2>5, <3>2, <3>3 DEF added
  <2>9. /\ history' \subseteq Events /\ history \subseteq history'
        /\ error \in BOOLEAN /\ tree \in Trees
    BY <2>5 DEF IInv, FlagsInv
  <2>10. OwnerOf(Head(control)) = 0
    BY <1>1 DEF OwnerOf, OwnerOps
  <2>11. Len(scopes') = Len(scopes) + Owners(items) - OwnerOf(Head(control))
    BY <2>7, <2>8, <2>10, ScopesFacts
  <2> QED BY <1>1, <2>4, <2>5, <2>6, <2>8, <2>9, <2>11, ChangeKeeps
<1>4. \/ RefuseUnread
      \/ /\ Consume /\ NameFunction(buffer.text) /\ Continue(items)
         /\ Quiet /\ UNCHANGED <<tree, driver>>
  BY DEF FunctionName
<1> QED BY <1>2, <1>3, <1>4

LEMMA ParameterKeeps ==
  ASSUME IInv, Parameters \/ Parameter \/ ParameterName \/ ParseSeparator
  PROVE  IInv'
<1>1. CASE Parameters
  <2>1. InCall /\ Head(control).op = "params"
    BY <1>1, RunningInCall DEF Parameters
  <2>2. Pass(<< >>) \/ Pass(<<Do("param")>>)
    BY <1>1 DEF Parameters
  <2>3. <<Do("param")>> \in Seq(Clean)
    BY PlainWork
  <2>4. Head(control).op \notin OwnerOps
    BY <2>1 DEF OwnerOps
  <2> QED BY <2>1, <2>2, <2>3, <2>4, NoItems, PassClean
<1>2. CASE Parameter
  <2>1. InCall /\ Head(control).op = "param"
    BY <1>2, RunningInCall DEF Parameter, Looking
  <2>2. Pass(<< >>) \/ Pass(<<Check("TYPE"), Do("paramname")>>)
    BY <1>2 DEF Parameter
  <2>3. <<Check("TYPE"), Do("paramname")>> \in Seq(Clean)
    BY PlainWork, ExpectedTokens
  <2>4. Head(control).op \notin OwnerOps
    BY <2>1 DEF OwnerOps
  <2> QED BY <2>1, <2>2, <2>3, <2>4, NoItems, PassClean
<1>3. CASE ParameterName
  <2>1. InCall /\ Head(control).op = "paramname" /\ buffer # NoToken
    BY <1>3, RunningInCall DEF ParameterName, Looking
  <2>2. Head(control).op \notin OwnerOps
    BY <2>1 DEF OwnerOps
  <2>3. CASE RefuseUnread
    BY <2>1, <2>3, RefuseKeeps
  <2>4. CASE /\ Consume /\ AddToken(buffer.text, "VARIABLE_NAME")
             /\ Continue(<<Separator("params")>>) /\ Quiet /\ UNCHANGED <<tree, driver>>
    <3>1. <<Separator("params")>> \in Seq(Clean)
      BY CleanSeparator
    <3>2. "VARIABLE_NAME" \in BoundKinds
      BY DEF BoundKinds
    <3>3. buffer.text \in Texts
      BY <2>1, BufferText
    <3> QED BY <2>1, <2>2, <2>4, <3>1, <3>2, <3>3, DeclareKeeps
  <2> QED BY <1>3, <2>3, <2>4 DEF ParameterName
<1>4. CASE ParseSeparator
  <2> DEFINE loop == <<Do(Head(control).loop)>>
  <2>1. InCall /\ Head(control).op = "separator" /\ control # << >>
    BY <1>4, RunningInCall DEF ParseSeparator, Looking, InCall
  <2>2. Head(control).loop \in {"params", "args"}
    BY <2>1, HeadItem DEF Items, PlainOps, SilentOps, ReadingOps
  <2>3. Do(Head(control).loop) \in Clean
    BY <2>2, PlainWork
  <2>4. loop \in Seq(Clean)
    BY <2>3
  <2>5. Separate(loop)
    BY <1>4 DEF ParseSeparator
  <2> HIDE DEF loop
  <2>6. Take(loop) \/ Pass(loop) \/ RefuseUnread
    BY <2>5 DEF Separate
  <2>7. Head(control).op \notin OwnerOps
    BY <2>1 DEF OwnerOps
  <2> QED BY <2>1, <2>4, <2>6, <2>7, TakeClean, PassClean, RefuseKeeps
<1> QED BY <1>1, <1>2, <1>3, <1>4

LEMMA BodyKeeps ==
  ASSUME IInv, FunctionBody
  PROVE  IInv'
<1>1. InCall /\ Head(control).op = "funcbody" /\ Take(Body)
  BY RunningInCall DEF FunctionBody, Looking
<1>2. OwnerOf(Head(control)) = 1
  BY <1>1 DEF OwnerOf, OwnerOps
<1>3. Body = <<Do("multiblock")>> \o (<<Do("closefunction")>> \o <<Expect("endfunction")>>)
  BY DEF Body
<1>4. <<Do("multiblock")>> \in Seq(Clean) /\ <<Expect("endfunction")>> \in Seq(Clean)
  BY PlainWork, ExpectedTokens
<1>5. Do("closefunction").op \in OwnerOps
  BY DEF Do, OwnerOps
<1>6. Body \in Seq(Work)
  BY <1>3, <1>4, <1>5, PlainWork, OneOwner
<1>7. Owners(Body) = 1
  BY <1>3, <1>4, <1>5, PlainWork, OneOwner
<1> QED BY <1>1, <1>2, <1>6, <1>7, TakeKeeps

(* A function without a body: its scope stays, its owner goes. *)
LEMMA PrototypeKeeps ==
  ASSUME IInv, Prototype
  PROVE  IInv'
<1>1. InCall
  BY RunningInCall DEF Prototype, Looking
<1>2. /\ Continue(<<Semicolon>>)
      /\ history' = history \cup {"prototype"}
      /\ UNCHANGED <<head, left, buffer, scopes, thrown, parserError, tree, error, outcome>>
  BY DEF Prototype, stream, driver
<1>3. StreamInv' /\ FlagsInv' /\ history \subseteq history' /\ history' # {} /\ ~ thrown'
  BY <1>1, <1>2 DEF IInv, StreamInv, FlagsInv, Events, InCall
<1>4. <<Semicolon>> \in Seq(Clean)
  BY ExpectedTokens
<1>5. <<Semicolon>> \in Seq(Work)
  BY <1>4, CleanWord
<1>6. Owners(<<Semicolon>>) = 0
  BY <1>4, CleanWord
<1>7. Len(scopes') - Len(scopes) >= Owners(<<Semicolon>>) - OwnerOf(Head(control))
  BY <1>2, <1>6, ScopesFacts DEF OwnerOf
<1> QED BY <1>1, <1>2, <1>3, <1>5, <1>7, StepKeeps DEF InCall

LEMMA DeclarationStepKeeps ==
  ASSUME IInv, DeclarationStep
  PROVE  IInv'
<1>1. CASE Declarator \/ Initializer \/ DeclareVariable
  BY <1>1, VariableKeeps
<1>2. CASE FunctionName
  BY <1>2, FunctionNameKeeps
<1>3. CASE Parameters \/ Parameter \/ ParameterName \/ ParseSeparator
  BY <1>3, ParameterKeeps
<1>4. CASE ReturnType
  <2>1. InCall /\ Head(control).op = "returntype"
    BY <1>4, RunningInCall DEF ReturnType, Looking
  <2>2. Take(<<Check("TYPE")>>) \/ Pass(<< >>)
    BY <1>4 DEF ReturnType
  <2>3. <<Check("TYPE")>> \in Seq(Clean)
    BY ExpectedTokens
  <2>4. Head(control).op \notin OwnerOps
    BY <2>1 DEF OwnerOps
  <2> QED BY <2>1, <2>2, <2>3, <2>4, NoItems, TakeClean, PassClean
<1>5. CASE FunctionBody
  BY <1>5, BodyKeeps
<1>6. CASE Prototype
  BY <1>6, PrototypeKeeps
<1>7. CASE CloseFunction
  BY <1>7, CloseKeeps DEF CloseFunction
<1> QED BY <1>1, <1>2, <1>3, <1>4, <1>5, <1>6, <1>7 DEF DeclarationStep

-----------------------------------------------------------------------------
(* Expressions *)

LEMMA HeadLevel ==
  ASSUME IInv, control # << >>
  PROVE  /\ Head(control).op = "precedence" => Head(control).level \in Levels
         /\ Head(control).op = "operators" =>
              Head(control).low \in Levels /\ Head(control).high \in Levels
BY HeadItem DEF Items, PlainOps, SilentOps, ReadingOps

(* An operand, and the operators that may follow it. *)
LEMMA OperandKeeps ==
  ASSUME IInv, Looking("precedence"), NEW items \in Seq(Clean), Operand(items)
  PROVE  IInv'
<1> DEFINE operators == <<Operators(1, Head(control).level)>>
<1>1. InCall /\ Head(control).op = "precedence" /\ control # << >>
  BY RunningInCall DEF Looking, InCall
<1>2. Head(control).level \in Levels /\ 1 \in Levels
  BY <1>1, HeadLevel DEF Levels
<1>3. operators \in Seq(Clean)
  BY <1>2, CleanOperators
<1>4. items \o operators \in Seq(Clean)
  BY <1>3, ConcatProperties
<1>5. Take(items \o operators)
  BY DEF Operand
<1>6. Head(control).op \notin OwnerOps
  BY <1>1 DEF OwnerOps
<1> HIDE DEF operators
<1> QED BY <1>1, <1>4, <1>5, <1>6, TakeClean

LEMMA NumberKeeps ==
  ASSUME IInv, ParseNumber
  PROVE  IInv'
<1> DEFINE operators == <<Operators(1, Head(control).level)>>
<1>1. /\ InCall /\ Head(control).op = "precedence" /\ control # << >>
      /\ Consume /\ UNCHANGED <<scopes, tree, error, outcome>>
  BY RunningInCall DEF ParseNumber, Looking, InCall, driver
<1>2. Head(control).op \notin OwnerOps
  BY <1>1 DEF OwnerOps
<1>3. CASE buffer.text \in BigNumerals
  <2>1. /\ thrown' = TRUE /\ Continue(<< >>) /\ history' = history \cup {"overflow"}
        /\ UNCHANGED parserError
    BY <1>3 DEF ParseNumber
  <2>2. StreamInv'
    BY <1>1, ConsumeKeeps DEF IInv, StreamInv
  <2>3. FlagsInv' /\ history' # {} /\ history \subseteq history'
    BY <1>1, <2>1 DEF IInv, FlagsInv, Events
  <2>4. Len(scopes') - Len(scopes) >= Owners(<< >>) - OwnerOf(Head(control))
    BY <1>1, NoItems, ScopesFacts DEF OwnerOf
  <2> QED BY <1>1, <2>1, <2>2, <2>3, <2>4, NoItems, StepKeeps DEF InCall
<1>4. CASE buffer.text \notin BigNumerals
  <2>1. Continue(operators) /\ Quiet
    BY <1>4 DEF ParseNumber
  <2>2. Take(operators)
    BY <1>1, <2>1 DEF Take, driver
  <2>3. Head(control).level \in Levels /\ 1 \in Levels
    BY <1>1, HeadLevel DEF Levels
  <2>4. operators \in Seq(Clean)
    BY <2>3, CleanOperators
  <2> HIDE DEF operators
  <2> QED BY <1>1, <1>2, <2>2, <2>4, TakeClean
<1> QED BY <1>3, <1>4

LEMMA OperandsKeep ==
  ASSUME IInv, ParseParenthesis \/ ParseFunctionCall \/ ParseCast \/ ParseIdentifier
  PROVE  IInv'
<1>1. CASE ParseParenthesis
  <2>1. <<Expect(")")>> \in Seq(Clean)
    BY ExpectedTokens
  <2>2. Expression \o <<Expect(")")>> \in Seq(Clean)
    BY <2>1, CleanExpression, ConcatProperties
  <2> QED BY <1>1, <2>2, OperandKeeps DEF ParseParenthesis
<1>2. CASE ParseFunctionCall
  <2>1. <<Expect("("), Do("args")>> \in Seq(Clean)
    BY PlainWork, ExpectedTokens
  <2> QED BY <1>2, <2>1, OperandKeeps DEF ParseFunctionCall
<1>3. CASE ParseCast
  <2>1. <<Expect("(")>> \in Seq(Clean) /\ <<Expect(")")>> \in Seq(Clean)
    BY ExpectedTokens
  <2>2. <<Expect("(")>> \o Expression \o <<Expect(")")>> \in Seq(Clean)
    BY <2>1, CleanExpression, ConcatProperties
  <2> QED BY <1>3, <2>2, OperandKeeps DEF ParseCast
<1>4. CASE ParseIdentifier
  BY <1>4, NoItems, OperandKeeps DEF ParseIdentifier
<1> QED BY <1>1, <1>2, <1>3, <1>4

LEMMA OperatorsKeep ==
  ASSUME IInv, ParseOperators
  PROVE  IInv'
<1>1. InCall /\ Head(control).op = "operators" /\ control # << >>
  BY RunningInCall DEF ParseOperators, Looking, InCall
<1>2. Head(control).op \notin OwnerOps
  BY <1>1 DEF OwnerOps
<1>3. CASE Pass(<< >>)
  BY <1>1, <1>2, <1>3, NoItems, PassClean
<1>4. CASE \E l \in Head(control).low .. Head(control).high :
              Take(<<Precedence(RightOperand(l)), Operators(l, Head(control).high)>>)
  <2>1. PICK l \in Head(control).low .. Head(control).high :
              Take(<<Precedence(RightOperand(l)), Operators(l, Head(control).high)>>)
    BY <1>4
  <2>2. Head(control).low \in Levels /\ Head(control).high \in Levels
    BY <1>1, HeadLevel
  <2>3. l \in Levels /\ RightOperand(l) \in Levels
    BY <2>2 DEF Levels, RightOperand
  <2>4. Precedence(RightOperand(l)) \in Clean /\ Operators(l, Head(control).high) \in Clean
    BY <2>2, <2>3, CleanOperators
  <2>5. <<Precedence(RightOperand(l)), Operators(l, Head(control).high)>> \in Seq(Clean)
    BY <2>4
  <2> QED BY <1>1, <1>2, <2>1, <2>5, TakeClean
<1>5. \/ Pass(<< >>)
      \/ \E l \in Head(control).low .. Head(control).high :
              Take(<<Precedence(RightOperand(l)), Operators(l, Head(control).high)>>)
  BY DEF ParseOperators
<1> QED BY <1>3, <1>4, <1>5

(* What the recovery from a failed expression puts on the stack. *)
LEMMA RecoverItem ==
  /\ <<Do("recover")>> \in Seq(Called)
  /\ Owners(<<Do("recover")>>) = 0
<1>1. Do("recover") \in Called
  BY DEF Do, Called, Items, PlainOps, SilentOps, ReadingOps
<1>2. OwnerOf(Do("recover")) = 0
  BY DEF Do, OwnerOf, OwnerOps
<1> QED BY <1>1, <1>2, OwnersOne

LEMMA RecoverKeeps ==
  ASSUME IInv, RecoverExpression
  PROVE  IInv'
<1>1. InCall /\ Head(control).op = "recover" /\ control # << >>
  BY RunningInCall DEF RecoverExpression, Looking, InCall
<1>2. OwnerOf(Head(control)) = 0
  BY <1>1 DEF OwnerOf, OwnerOps
<1>3. history # {}
  <2>1. Len(control) >= 1 /\ control[1].op = "recover" /\ Len(control) \in Nat
    BY <1>1, EmptySeq, HeadTailProperties DEF IInv, Stack
  <2>2. Recovering(control)
    BY <2>1 DEF Recovering
  <2> QED BY <2>2 DEF IInv, RecoveringInv
<1>4. CASE SkipToken
  <2>1. /\ Consume /\ Continue(<<Do("recover")>>)
        /\ UNCHANGED <<thrown, parserError, history, scopes, tree, error, outcome>>
    BY <1>4 DEF SkipToken, Take, Quiet, driver
  <2>2. StreamInv'
    BY <2>1, ConsumeKeeps DEF IInv, StreamInv
  <2>3. FlagsInv' /\ history \subseteq history' /\ history' # {}
    BY <1>3, <2>1 DEF IInv, FlagsInv
  <2>4. Len(scopes') - Len(scopes) >= Owners(<<Do("recover")>>) - OwnerOf(Head(control))
    BY <1>2, <2>1, RecoverItem, ScopesFacts
  <2> QED BY <1>1, <2>1, <2>2, <2>3, <2>4, RecoverItem, StepKeepsAny DEF InCall
<1>5. CASE /\ thrown' = TRUE /\ Continue(<< >>)
           /\ UNCHANGED <<stream, scopes, tree, parserError, driver, history>>
  <2>1. UNCHANGED <<head, left, buffer, scopes, tree, parserError, error, outcome, history>>
    BY <1>5 DEF stream, driver
  <2>2. StreamInv' /\ FlagsInv' /\ history \subseteq history' /\ history' # {}
    BY <1>3, <1>5, <2>1 DEF IInv, StreamInv, FlagsInv
  <2>3. Len(scopes') - Len(scopes) >= Owners(<< >>) - OwnerOf(Head(control))
    BY <1>2, <2>1, NoItems, ScopesFacts
  <2> QED BY <1>1, <1>5, <2>2, <2>3, NoItems, StepKeeps DEF InCall
<1>6. CASE /\ tree' = "holed" /\ Continue(<< >>)
           /\ Quiet /\ UNCHANGED <<stream, scopes, driver>>
  <2>1. UNCHANGED <<head, left, buffer, scopes, thrown, parserError, error, outcome, history>>
    BY <1>6 DEF stream, driver, Quiet
  <2>2. StreamInv' /\ FlagsInv' /\ history \subseteq history' /\ history' # {}
    BY <1>3, <1>6, <2>1 DEF IInv, StreamInv, FlagsInv, Trees
  <2>3. Len(scopes') - Len(scopes) >= Owners(<< >>) - OwnerOf(Head(control))
    BY <1>2, <2>1, NoItems, ScopesFacts
  <2> QED BY <1>1, <1>6, <2>2, <2>3, NoItems, StepKeeps DEF InCall
<1> QED BY <1>4, <1>5, <1>6 DEF RecoverExpression

LEMMA ExpressionStepKeeps ==
  ASSUME IInv, ExpressionStep
  PROVE  IInv'
<1>1. CASE ParseUnary
  <2>1. InCall /\ Head(control).op = "precedence" /\ Take(<<TopPrecedence>>)
    BY <1>1, RunningInCall DEF ParseUnary, Looking
  <2>2. <<TopPrecedence>> \in Seq(Clean)
    BY CleanExpression
  <2>3. Head(control).op \notin OwnerOps
    BY <2>1 DEF OwnerOps
  <2> QED BY <2>1, <2>2, <2>3, TakeClean
<1>2. CASE ParseNumber
  BY <1>2, NumberKeeps
<1>3. CASE ParseParenthesis \/ ParseFunctionCall \/ ParseCast \/ ParseIdentifier
  BY <1>3, OperandsKeep
<1>4. CASE ParseOperators
  BY <1>4, OperatorsKeep
<1>5. CASE Arguments
  <2>1. InCall /\ Head(control).op = "args"
    BY <1>5, RunningInCall DEF Arguments, Looking
  <2>2. Take(<< >>) \/ Pass(<<TopPrecedence, Separator("args")>>)
    BY <1>5 DEF Arguments
  <2>3. <<TopPrecedence, Separator("args")>> \in Seq(Clean)
    BY CleanExpression, CleanSeparator
  <2>4. Head(control).op \notin OwnerOps
    BY <2>1 DEF OwnerOps
  <2> QED BY <2>1, <2>2, <2>3, <2>4, NoItems, TakeClean, PassClean
<1>6. CASE LeaveExpression
  <2>1. InCall /\ Head(control).op = "catch" /\ Pass(<< >>)
    BY <1>6, RunningInCall DEF LeaveExpression
  <2>2. Head(control).op \notin OwnerOps
    BY <2>1 DEF OwnerOps
  <2> QED BY <2>1, <2>2, NoItems, PassClean
<1>7. CASE RecoverExpression
  BY <1>7, RecoverKeeps
<1> QED BY <1>1, <1>2, <1>3, <1>4, <1>5, <1>6, <1>7 DEF ExpressionStep

-----------------------------------------------------------------------------
(* Exceptions *)

(* The end of main's loop: the stack is dropped.  If nothing was diagnosed  *)
(* it holds no owner, and the global scope alone is open.                   *)
LEMMA StoppedKeeps ==
  ASSUME IInv, StreamInv', FlagsInv', UNCHANGED <<scopes, history>>,
         control' = << >>, ~ thrown',
         history = {} => Owners(control) = 0
  PROVE  IInv'
<1>1. Stack(<< >>) /\ ~ Recovering(<< >>)
  BY EmptySeq DEF Stack, Recovering
<1>2. Owners(control') = 0
  BY OwnersEmpty
<1>3. Len(scopes) >= 1 + 0 /\ (history = {} => Len(scopes) = 1 + 0)
  <2>1. history = {} => Len(scopes) = 1 + Owners(control)
    BY DEF IInv, ScopesBalanced
  <2>2. Len(scopes) >= 1 + 0
    BY ScopesFacts
  <2> QED BY <2>1, <2>2, Zenon
<1>4. ScopesNeverUnderflow' /\ ScopesBalanced'
  <2>1. scopes' = scopes /\ history' = history
    OBVIOUS
  <2>2. Len(scopes') >= 1 + Owners(control')
    BY <1>2, <1>3, <2>1, Zenon
  <2>3. history' = {} => Len(scopes') = 1 + Owners(control')
    BY <1>2, <1>3, <2>1, Zenon
  <2> QED BY <2>2, <2>3 DEF ScopesNeverUnderflow, ScopesBalanced
<1>5. ThrownInv' /\ RecoveringInv'
  BY <1>1 DEF ThrownInv, RecoveringInv
<1> QED BY <1>1, <1>4, <1>5 DEF IInv

LEMMA ExceptionStepKeeps ==
  ASSUME IInv, ExceptionStep
  PROVE  IInv'
<1>1. CASE Unwind
  <2>1. /\ thrown /\ Head(control).op # "main" /\ Continue(<< >>)
        /\ UNCHANGED <<head, left, buffer, scopes, thrown, tree, parserError, error, outcome, history>>
    BY <1>1 DEF Unwind, HandlerOps, stream, driver
  <2>2. control # << >> /\ history # {}
    BY <2>1 DEF IInv, ThrownInv
  <2>3. StreamInv' /\ FlagsInv' /\ history \subseteq history' /\ history' # {}
    BY <2>1, <2>2 DEF IInv, StreamInv, FlagsInv
  <2>4. Len(scopes') - Len(scopes) >= Owners(<< >>) - OwnerOf(Head(control))
    BY <2>1, NoItems, ScopesFacts DEF OwnerOf
  <2> QED BY <2>1, <2>2, <2>3, <2>4, NoItems, StepKeeps
<1>2. CASE CatchInExpression
  <2>1. /\ thrown /\ Head(control).op = "catch" /\ thrown' = FALSE /\ Continue(<<Do("recover")>>)
        /\ UNCHANGED <<head, left, buffer, scopes, tree, parserError, error, outcome, history>>
    BY <1>2 DEF CatchInExpression, Handle, stream, driver
  <2>2. control # << >> /\ history # {}
    BY <2>1 DEF IInv, ThrownInv
  <2>3. StreamInv' /\ FlagsInv' /\ history \subseteq history' /\ history' # {}
    BY <2>1, <2>2 DEF IInv, StreamInv, FlagsInv
  <2>4. Len(scopes') - Len(scopes) >= Owners(<<Do("recover")>>) - OwnerOf(Head(control))
    BY <2>1, RecoverItem, ScopesFacts DEF OwnerOf
  <2> QED BY <2>1, <2>2, <2>3, <2>4, RecoverItem, StepKeepsAny
<1>3. CASE CatchInMultiBlock
  <2> DEFINE items == <<Do("skipblock"), Blocks(Head(control).saved)>>
  <2>1. /\ thrown /\ Head(control).op = "blocks" /\ thrown' = FALSE /\ Continue(items)
        /\ tree' = Head(control).saved
        /\ UNCHANGED <<head, left, buffer, scopes, parserError, error, outcome, history>>
    BY <1>3 DEF CatchInMultiBlock, Handle, stream, driver
  <2>2. control # << >> /\ history # {}
    BY <2>1 DEF IInv, ThrownInv
  <2>3. Head(control).saved \in Trees
    BY <2>1, <2>2, HeadItem DEF Items, PlainOps, SilentOps, ReadingOps
  <2>4. StreamInv' /\ FlagsInv' /\ history \subseteq history' /\ history' # {}
    BY <2>1, <2>2, <2>3 DEF IInv, StreamInv, FlagsInv
  <2>5. <<Do("skipblock")>> \in Seq(Clean)
    BY PlainWork
  <2>6. Blocks(Head(control).saved) \in Work
    BY <2>3, BlocksWork
  <2>7. Blocks(Head(control).saved).op \in OwnerOps
    BY DEF Blocks, OwnerOps
  <2>8. items = <<Do("skipblock")>> \o (<<Blocks(Head(control).saved)>> \o << >>)
    OBVIOUS
  <2> HIDE DEF items
  <2>9. items \in Seq(Work)
    BY <2>5, <2>6, <2>7, <2>8, NoItems, OneOwner
  <2>10. Owners(items) = 1
    BY <2>5, <2>6, <2>7, <2>8, NoItems, OneOwner
  <2>11. OwnerOf(Head(control)) = 1
    BY <2>1 DEF OwnerOf, OwnerOps
  <2>12. Len(scopes') - Len(scopes) >= Owners(items) - OwnerOf(Head(control))
    BY <2>1, <2>10, <2>11, ScopesFacts
  <2> QED BY <2>1, <2>2, <2>4, <2>9, <2>12, StepKeeps
<1>4. CASE CatchInMain
  <2>1. /\ thrown /\ thrown' = FALSE /\ control' = << >>
        /\ UNCHANGED <<head, left, buffer, scopes, tree, parserError, error, outcome, history>>
    BY <1>4 DEF CatchInMain, stream, driver
  <2>2. history # {}
    BY <2>1 DEF IInv, ThrownInv
  <2>3. StreamInv' /\ FlagsInv'
    BY <2>1 DEF IInv, StreamInv, FlagsInv
  <2> QED BY <2>1, <2>2, <2>3, StoppedKeeps
<1> QED BY <1>1, <1>2, <1>3, <1>4 DEF ExceptionStep

-----------------------------------------------------------------------------
(* main *)

LEMMA VisitOwners ==
  ASSUME NEW s, Stack(s), s # << >>, Head(s).op \in {"visit", "main"}
  PROVE  Owners(s) = 0 /\ (Head(s).op = "main" => Len(s) = 1)
<1>1. Len(s) \in Nat \ {0} /\ Head(s) = s[1] /\ DOMAIN s = 1 .. Len(s)
  BY EmptySeq, HeadTailProperties, LenProperties DEF Stack
<1>2. 1 \in 1 .. Len(s) /\ Len(s) \in 1 .. Len(s)
  BY <1>1
<1>3. /\ s[1].op = "visit" => 1 = Len(s) - 1
      /\ s[1].op = "main" => 1 = Len(s)
      /\ s[Len(s)].op = "main"
  BY <1>2, Zenon DEF Stack
<1>5. \A i \in 1 .. Len(s) : s[i].op \notin OwnerOps
  BY <1>1, <1>3 DEF OwnerOps
<1>6. OwnerPositions(s) = {}
  BY <1>1, <1>5 DEF OwnerPositions
<1>7. Owners(s) = 0
  BY <1>6, FS_EmptySet DEF Owners, OwnerPositions
<1> QED BY <1>1, <1>3, <1>7

LEMMA ThreeItems ==
  ASSUME NEW a, NEW b, NEW c
  PROVE  <<a>> \o <<b, c>> \o << >> = <<a, b, c>>
<1>1. <<a>> \o <<b, c>> = <<a, b, c>>
  <2> DEFINE s == <<a>> \o <<b, c>>
             t == <<a, b, c>>
             S == {a, b, c}
  <2>1. <<a>> \in Seq(S) /\ <<b, c>> \in Seq(S) /\ t \in Seq(S)
    OBVIOUS
  <2>2. /\ s \in Seq(S) /\ Len(s) = 3
        /\ s[1] = a /\ s[2] = b /\ s[3] = c
    BY <2>1
  <2>3. \A i \in 1 .. 3 : i = 1 \/ i = 2 \/ i = 3
    OBVIOUS
  <2>4. Len(t) = 3 /\ t[1] = a /\ t[2] = b /\ t[3] = c
    OBVIOUS
  <2> HIDE DEF s, t, S
  <2>5. \A i \in 1 .. Len(s) : s[i] = t[i]
    BY <2>2, <2>3, <2>4
  <2>6. s = t
    BY <2>1, <2>2, <2>4, <2>5, SeqEqual
  <2> QED BY <2>6 DEF s, t
<1>2. <<a, b, c>> \o << >> = <<a, b, c>>
  OBVIOUS
<1> QED BY <1>1, <1>2, Zenon

LEMMA NextTopLevelBlockKeeps ==
  ASSUME IInv, NextTopLevelBlock
  PROVE  IInv'
<1> DEFINE items == <<Do("block")>> \o MainLoop
<1>1. /\ ~ thrown /\ control # << >> /\ Head(control).op = "main"
      /\ \/ Continue(<< >>)
         \/ Continue(items)
      /\ UNCHANGED <<head, left, buffer, scopes, thrown, tree, parserError, error, outcome, history>>
  BY DEF NextTopLevelBlock, Running, Pass, Quiet, stream, driver
<1>2. Owners(control) = 0 /\ Len(control) = 1
  BY <1>1, VisitOwners DEF IInv
<1>3. Tail(control) = << >>
  <2>1. Tail(control) \in Seq(Items) /\ Len(Tail(control)) = 0
    BY <1>1, <1>2, HeadTailProperties DEF IInv, Stack
  <2> QED BY <2>1, EmptySeq
<1>4. StreamInv' /\ FlagsInv' /\ UNCHANGED <<scopes, history>> /\ ~ thrown'
  BY <1>1 DEF IInv, StreamInv, FlagsInv
<1>5. CASE Continue(<< >>)
  <2>1. control' = << >>
    BY <1>3, <1>5 DEF Continue
  <2> QED BY <1>2, <1>4, <2>1, StoppedKeeps
<1>6. CASE Continue(items)
  <2>1. control' = <<Do("block"), Do("visit"), Do("main")>>
    <3>1. control' = items \o << >>
      BY <1>3, <1>6, Zenon DEF Continue
    <3>2. items \o << >> = <<Do("block"), Do("visit"), Do("main")>>
      BY ThreeItems, Zenon DEF MainLoop
    <3> QED BY <3>1, <3>2, Zenon
  <2> DEFINE u == <<Do("block"), Do("visit"), Do("main")>>
  <2>2. /\ Do("block") \in Items /\ Do("visit") \in Items /\ Do("main") \in Items
    BY DEF Do, Items, PlainOps, SilentOps, ReadingOps
  <2>3. /\ u \in Seq(Items) /\ Len(u) = 3
        /\ u[1] = Do("block") /\ u[2] = Do("visit") /\ u[3] = Do("main")
    BY <2>2
  <2>4. Do("block").op = "block" /\ Do("visit").op = "visit" /\ Do("main").op = "main"
    BY DEF Do
  <2> HIDE DEF u
  <2>5. Stack(u)
    <3>1. \A i \in 1 .. Len(u) : i = 1 \/ i = 2 \/ i = 3
      BY <2>3
    <3> QED BY <2>3, <2>4, <3>1 DEF Stack
  <2>6. OwnerPositions(u) = {} /\ ~ Recovering(u)
    BY <2>3, <2>4 DEF OwnerPositions, OwnerOps, Recovering
  <2>7. Owners(u) = 0
    BY <2>6, FS_EmptySet DEF Owners, OwnerPositions
  <2>8. control' = u
    BY <2>1 DEF u
  <2>9. ScopesNeverUnderflow' /\ ScopesBalanced'
    <3>1. Len(scopes) >= 1 + 0 /\ (history = {} => Len(scopes) = 1 + 0)
      BY <1>2, ScopesFacts DEF IInv, ScopesBalanced
    <3>2. Len(scopes') >= 1 + Owners(control')
      BY <1>4, <2>7, <2>8, <3>1, Zenon
    <3>3. history' = {} => Len(scopes') = 1 + Owners(control')
      BY <1>4, <2>7, <2>8, <3>1, Zenon
    <3> QED BY <3>2, <3>3 DEF ScopesNeverUnderflow, ScopesBalanced
  <2>10. ThrownInv' /\ RecoveringInv'
    BY <1>4, <2>6, <2>8 DEF ThrownInv, RecoveringInv
  <2> QED BY <1>4, <2>5, <2>8, <2>9, <2>10 DEF IInv
<1> QED BY <1>1, <1>5, <1>6

LEMMA DriverStepKeeps ==
  ASSUME IInv, DriverStep
  PROVE  IInv'
<1>1. CASE NextTopLevelBlock
  BY <1>1, NextTopLevelBlockKeeps
<1>2. CASE Visit
  <2>1. InCall /\ Head(control).op = "visit"
    BY <1>2, RunningInCall DEF Visit
  <2>2. /\ Continue(<< >>) /\ tree' = "whole" /\ error' \in {error, TRUE}
        /\ UNCHANGED <<head, left, buffer, scopes, thrown, parserError, outcome, history>>
    BY <1>2 DEF Visit, Quiet, stream
  <2>3. UNCHANGED stream
    BY <2>2 DEF stream
  <2>4. /\ tree' \in Trees /\ error' \in BOOLEAN
        /\ history' \subseteq Events /\ history \subseteq history'
    BY <2>2 DEF IInv, FlagsInv, Trees
  <2>5. OwnerOf(Head(control)) = 0
    BY <2>1 DEF OwnerOf, OwnerOps
  <2>6. Len(scopes') = Len(scopes) + Owners(<< >>) - OwnerOf(Head(control))
    BY <2>2, <2>5, NoItems, ScopesFacts
  <2> QED BY <2>1, <2>2, <2>3, <2>4, <2>6, NoItems, ScopesFacts, ChangeKeeps
<1>3. CASE VisitStops \/ BreakOnNull
  <2>1. /\ ~ thrown /\ control # << >> /\ Head(control).op = "visit" /\ control' = << >>
        /\ outcome' \in Outcomes
        /\ UNCHANGED <<head, left, buffer, scopes, thrown, tree, parserError, error, history>>
    BY <1>3 DEF VisitStops, BreakOnNull, Running, Quiet, stream, driver, Outcomes, IInv, FlagsInv
  <2>2. StreamInv' /\ FlagsInv'
    BY <2>1 DEF IInv, StreamInv, FlagsInv
  <2>3. Owners(control) = 0
    BY <2>1, VisitOwners DEF IInv
  <2> QED BY <2>1, <2>2, <2>3, StoppedKeeps
<1>4. CASE Finish
  <2>1. /\ outcome' \in Outcomes
        /\ UNCHANGED <<head, left, buffer, scopes, control, thrown, tree, parserError, error, history>>
    BY <1>4 DEF Finish, Quiet, stream, Outcomes
  <2>2. StreamInv' /\ FlagsInv'
    BY <2>1 DEF IInv, StreamInv, FlagsInv
  <2> QED BY <2>1, <2>2, StillKeeps
<1> QED BY <1>1, <1>2, <1>3, <1>4 DEF DriverStep

-----------------------------------------------------------------------------
(* The theorems *)

LEMMA InitHolds == Init => IInv
<1> SUFFICES ASSUME Init
             PROVE  IInv
  OBVIOUS
<1>1. /\ head \in Alphabet \cup {EOF} /\ left = MaxTokens /\ buffer = NoToken
      /\ scopes = <<GlobalScope>> /\ control = <<Do("main")>> /\ thrown = FALSE
      /\ tree = "whole" /\ parserError = FALSE /\ error = FALSE /\ outcome = "parsing"
      /\ history = {}
  BY DEF Init, StreamInit
<1>2. GlobalScope \in Scope
  <2>1. GlobalScope \in [Types -> BoundKinds] /\ Types \in SUBSET Texts
    BY DEF GlobalScope, BoundKinds, Texts
  <2> QED BY <2>1, ScopeFold
<1>3. scopes \in Seq(Scope) /\ Len(scopes) = 1
  BY <1>1, <1>2
<1>4. head \in Texts /\ left \in 0 .. MaxTokens
  BY <1>1, AlphabetAssumption DEF AlphabetAssumption, Texts
<1>5. StreamInv
  BY <1>1, <1>3, <1>4 DEF StreamInv
<1>6. FlagsInv
  BY <1>1 DEF FlagsInv, Trees, Outcomes
<1>7. Do("main") \in Items /\ Do("main").op = "main"
  BY DEF Do, Items, PlainOps, SilentOps, ReadingOps
<1>8. control \in Seq(Items) /\ Len(control) = 1 /\ control[1] = Do("main")
  BY <1>1, <1>7
<1>9. Stack(control) /\ ~ Recovering(control)
  BY <1>7, <1>8 DEF Stack, Recovering
<1>10. Owners(control) = 0
  BY <1>1, <1>7, OwnersOne DEF OwnerOf, OwnerOps
<1>11. ScopesNeverUnderflow /\ ScopesBalanced
  BY <1>3, <1>10 DEF ScopesNeverUnderflow, ScopesBalanced
<1> QED BY <1>1, <1>5, <1>6, <1>9, <1>11 DEF IInv, ThrownInv, RecoveringInv

LEMMA NextKeeps == IInv /\ [Next]_vars => IInv'
<1> SUFFICES ASSUME IInv, [Next]_vars
             PROVE  IInv'
  OBVIOUS
<1>1. CASE UNCHANGED vars
  BY <1>1 DEF vars, stream, IInv, StreamInv, FlagsInv, ThrownInv, RecoveringInv,
              ScopesNeverUnderflow, ScopesBalanced
<1>2. CASE Next
  <2>1. CASE TokenStep \/ BlockStep \/ DeclarationStep
    BY <2>1, TokenStepKeeps, BlockStepKeeps, DeclarationStepKeeps
  <2>2. CASE ExpressionStep \/ ExceptionStep \/ DriverStep
    BY <2>2, ExpressionStepKeeps, ExceptionStepKeeps, DriverStepKeeps
  <2>3. CASE Finished
    BY <2>3, <1>1 DEF Finished
  <2> QED BY <1>2, <2>1, <2>2, <2>3 DEF Next
<1> QED BY <1>1, <1>2

LEMMA IInvType == IInv => TypeOK
<1> SUFFICES ASSUME IInv
             PROVE  TypeOK
  OBVIOUS
<1>1. ASSUME NEW i \in 1 .. Len(scopes)
      PROVE  /\ DOMAIN scopes[i] \subseteq Texts
             /\ \A name \in DOMAIN scopes[i] : scopes[i][name] \in BoundKinds
  BY ScopesFacts, ElementOfSeq, ScopeUnfold
<1>2. StreamTypeOK
  BY <1>1 DEF IInv, StreamInv, StreamTypeOK
<1> QED BY <1>2 DEF IInv, FlagsInv, Stack, TypeOK

(* The inductive invariant is one. *)
THEOREM Inductive == Spec => []IInv
BY InitHolds, NextKeeps, PTL DEF Spec

(* Whatever the source, every variable keeps its type: in particular the    *)
(* operands are parsed at one of the six precedence indexes, and a token is *)
(* only ever bound to one of the three kinds addToken is called with.       *)
THEOREM ParserTypes == Spec => []TypeOK
BY Inductive, IInvType, PTL

(* Whatever the source, and however exceptions are thrown, caught and       *)
(* thrown again, LexerContext's vector is never popped below the scopes     *)
(* that active calls are still going to close, and never empty.             *)
THEOREM NoUnderflow == Spec => []ScopesNeverUnderflow
<1>1. IInv => ScopesNeverUnderflow
  BY DEF IInv
<1> QED BY <1>1, Inductive, PTL

(* On a source with no diagnosis and no function without a body, the open   *)
(* scopes are exactly those of the active multi-blocks and functions.       *)
THEOREM Balanced == Spec => []ScopesBalanced
<1>1. IInv => ScopesBalanced
  BY DEF IInv
<1> QED BY <1>1, Inductive, PTL
-----------------------------------------------------------------------------
(* Which call follows which *)

(* The items that parse a block of their own, or the rest of one.           *)
Whole ==
  {"block", "body", "else", "declarator", "initializer", "declare", "funcname", "funcbody"}

(* Item b may be under item a: a block is parsed for a multi-block or for   *)
(* main, a multi-block for an if or a function, and the last call of a      *)
(* block always expects a token.                                            *)
Follows(a, b) ==
  /\ b.op = "main" => a.op = "visit"
  /\ b.op = "visit" => a.op \in Whole \cup {"expect"}
  /\ b.op = "closefunction" => a.op \in {"multiblock", "blocks"}
  /\ a.op \in Whole => b.op \in {"blocks", "visit"}
  /\ a.op \in {"multiblock", "blocks"} => b.op \in {"else", "closefunction", "expect"}
  /\ a.op = "closefunction" => b.op = "expect"

(* The end of file is never an expected token. *)
Expectable(a) == a.op = "expect" => a.kind # EOF

Shape(s) ==
  /\ \A i \in 1 .. Len(s) - 1 : Follows(s[i], s[i + 1])
  /\ \A i \in 1 .. Len(s) : Expectable(s[i])

(* Where h is, the items may be.                                            *)
Fits(items, h) ==
  items # << >> => \A b : Follows(h, b) => Follows(items[Len(items)], b)

LEMMA ShapeContinues ==
  ASSUME NEW s \in Seq(Items), Shape(s), s # << >>,
         NEW items \in Seq(Items), Shape(items), Fits(items, Head(s))
  PROVE  Shape(items \o Tail(s))
<1> DEFINE n == Len(s)
           t == Tail(s)
           k == Len(items)
           u == items \o t
<1>1. /\ n \in Nat \ {0} /\ k \in Nat
      /\ t \in Seq(Items) /\ Len(t) = n - 1
      /\ \A i \in 1 .. n - 1 : t[i] = s[i + 1]
      /\ Head(s) = s[1]
  BY EmptySeq, HeadTailProperties, LenProperties
<1>2. /\ Len(u) = k + (n - 1)
      /\ \A i \in 1 .. k + (n - 1) : u[i] = IF i <= k THEN items[i] ELSE t[i - k]
  BY <1>1, ConcatProperties
<1>3. /\ \A i \in 1 .. n - 1 : Follows(s[i], s[i + 1])
      /\ \A i \in 1 .. n : Expectable(s[i])
      /\ \A i \in 1 .. k - 1 : Follows(items[i], items[i + 1])
      /\ \A i \in 1 .. k : Expectable(items[i])
  BY DEF Shape
<1>4. k # 0 => \A b : Follows(s[1], b) => Follows(items[k], b)
  <2> SUFFICES ASSUME k # 0, NEW b, Follows(s[1], b) PROVE Follows(items[k], b)
    OBVIOUS
  <2>1. items # << >> /\ Follows(Head(s), b)
    BY <1>1, EmptySeq
  <2>2. Follows(items[Len(items)], b)
    BY <2>1 DEF Fits
  <2> QED BY <2>2
<1> HIDE DEF n, t, k, u
<1>5. ASSUME NEW i \in 1 .. Len(u) PROVE Expectable(u[i])
  <2>1. CASE i <= k
    BY <1>1, <1>2, <1>3, <2>1
  <2>2. CASE ~(i <= k)
    <3>1. i - k \in 1 .. n - 1 /\ u[i] = t[i - k]
      BY <1>1, <1>2, <2>2
    <3>2. (i - k) + 1 \in 1 .. n /\ u[i] = s[(i - k) + 1]
      BY <1>1, <3>1
    <3> QED BY <1>3, <3>2
  <2> QED BY <2>1, <2>2
<1>6. ASSUME NEW i \in 1 .. Len(u) - 1 PROVE Follows(u[i], u[i + 1])
  <2>1. i \in 1 .. Len(u) /\ i + 1 \in 1 .. Len(u) /\ i \in Nat
    BY <1>1, <1>2
  <2>2. CASE i + 1 <= k
    <3>1. u[i] = items[i] /\ u[i + 1] = items[i + 1] /\ i \in 1 .. k - 1
      BY <1>1, <1>2, <2>1, <2>2
    <3> QED BY <1>3, <3>1
  <2>3. CASE i = k
    <3>1. u[i] = items[k] /\ u[i + 1] = t[1] /\ 1 \in 1 .. n - 1 /\ k # 0
      BY <1>1, <1>2, <2>1, <2>3
    <3>2. t[1] = s[2] /\ Follows(s[1], s[2])
      BY <1>1, <1>3, <3>1
    <3> QED BY <1>4, <3>1, <3>2
  <2>4. CASE i > k
    <3>1. i - k \in 1 .. n - 1 /\ (i - k) + 1 \in 1 .. n - 1
      BY <1>1, <1>2, <2>1, <2>4
    <3>2. u[i] = t[i - k] /\ u[i + 1] = t[(i - k) + 1]
      <4>1. u[i + 1] = t[(i + 1) - k] /\ (i + 1) - k = (i - k) + 1
        BY <1>1, <1>2, <2>1, <2>4
      <4> QED BY <1>1, <1>2, <2>1, <2>4, <4>1
    <3>3. u[i] = s[(i - k) + 1] /\ u[i + 1] = s[((i - k) + 1) + 1]
      BY <1>1, <3>1, <3>2
    <3> QED BY <1>3, <3>1, <3>3
  <2> QED BY <1>1, <2>1, <2>2, <2>3, <2>4
<1> QED BY <1>5, <1>6 DEF Shape, u, t

LEMMA ShapeOf ==
  /\ Shape(<< >>)
  /\ \A a : Expectable(a) => Shape(<<a>>)
  /\ \A a, b : Expectable(a) /\ Expectable(b) /\ Follows(a, b) => Shape(<<a, b>>)
  /\ \A a, b, c :
       Expectable(a) /\ Expectable(b) /\ Expectable(c) /\ Follows(a, b) /\ Follows(b, c)
       => Shape(<<a, b, c>>)
  /\ \A a, b, c, d :
       /\ Expectable(a) /\ Expectable(b) /\ Expectable(c) /\ Expectable(d)
       /\ Follows(a, b) /\ Follows(b, c) /\ Follows(c, d)
       => Shape(<<a, b, c, d>>)
  /\ \A a, b, c, d, e :
       /\ Expectable(a) /\ Expectable(b) /\ Expectable(c) /\ Expectable(d) /\ Expectable(e)
       /\ Follows(a, b) /\ Follows(b, c) /\ Follows(c, d) /\ Follows(d, e)
       => Shape(<<a, b, c, d, e>>)
<1>1. Shape(<< >>) /\ \A a : Expectable(a) => Shape(<<a>>)
  BY DEF Shape
<1>2. \A a, b : Expectable(a) /\ Expectable(b) /\ Follows(a, b) => Shape(<<a, b>>)
  BY DEF Shape
<1>3. \A a, b, c :
       Expectable(a) /\ Expectable(b) /\ Expectable(c) /\ Follows(a, b) /\ Follows(b, c)
       => Shape(<<a, b, c>>)
  BY DEF Shape
<1>4. \A a, b, c, d :
       /\ Expectable(a) /\ Expectable(b) /\ Expectable(c) /\ Expectable(d)
       /\ Follows(a, b) /\ Follows(b, c) /\ Follows(c, d)
       => Shape(<<a, b, c, d>>)
  BY DEF Shape
<1>5. \A a, b, c, d, e :
       /\ Expectable(a) /\ Expectable(b) /\ Expectable(c) /\ Expectable(d) /\ Expectable(e)
       /\ Follows(a, b) /\ Follows(b, c) /\ Follows(c, d) /\ Follows(d, e)
       => Shape(<<a, b, c, d, e>>)
  BY DEF Shape
<1> QED BY <1>1, <1>2, <1>3, <1>4, <1>5

-----------------------------------------------------------------------------
(* The inductive invariant *)

Diagnosed == history \cap {"reported", "overflow"} # {}

At(op) == control # << >> /\ Head(control).op = op

ShapeInv == Shape(control)

(* A token read ahead is a keyword under either type or under none, and     *)
(* there is nothing behind the end of file.                                 *)
BufferInv ==
  buffer # NoToken =>
    /\ buffer.text \in Keywords => buffer.kind = buffer.text
    /\ buffer.text \notin Keywords => buffer.kind \notin Keywords
    /\ buffer.text = EOF => head = EOF

(* What is true for want of a diagnosis: nothing is thrown or recovered     *)
(* from, a block that was read has consumed its last token, a null node is  *)
(* in the tree only while the calls around it are about to miss a token,    *)
(* and what is left when the parser stops is the end of file.               *)
SilentInv ==
  ~Diagnosed =>
    /\ ~thrown /\ ~Recovering(control)
    /\ At("visit") => buffer = NoToken \/ tree = "null"
    /\ At("main") => buffer = NoToken
    /\ tree = "holed" =>
         /\ buffer.kind = EOF
         /\ At("blocks") \/ At("else") \/ At("closefunction") \/ At("expect")
    /\ tree = "null" =>
         /\ buffer.text = EOF /\ head = EOF
         /\ control = << >> \/ At("visit")
    /\ control = << >> /\ outcome \in {"parsing", "codegen"} =>
         head = EOF /\ buffer.text = EOF

(* A function's scope is closed in front of the end of its body.            *)
CloseInv == At("closefunction") /\ ~thrown => IsEndMultiBlock(buffer.kind)

(* A type is stale in front of a semicolon only.                            *)
FreshInv ==
  buffer # NoToken /\ buffer.kind # KindOf(buffer.text, scopes) =>
    ~thrown /\ control # << >> /\ Head(control) = Semicolon

StoppedInv == outcome = "codegen" => control = << >>

CallsInv == ShapeInv /\ SilentInv /\ CloseInv /\ StoppedInv
TokensInv == BufferInv /\ FreshInv
ReadingInv == CallsInv /\ TokensInv

-----------------------------------------------------------------------------
(* What a step does to the call stack *)

(* The head of the stack goes on with items that may be where it is.        *)
Goes(items) ==
  /\ control # << >> /\ Continue(items)
  /\ items \in Seq(Items) /\ Shape(items) /\ Fits(items, Head(control))

(* The heads that the invariant speaks of.                                  *)
Marked == {"blocks", "else", "closefunction", "expect", "visit", "main"}
Later == {"visit", "main", "closefunction"}

(* A step that finds no fault, ends no block and builds no null node.       *)
Plainly(items) ==
  /\ items = << >> => Head(control).op \notin Whole \cup {"multiblock"}
  /\ items # << >> => items[1].op \notin Later
  /\ ~Recovering(items)
Ordinary ==
  /\ ~thrown /\ ~thrown'
  /\ Head(control).op \notin Marked
  /\ UNCHANGED <<tree, outcome>>
  /\ \E items : Goes(items) /\ Plainly(items)

(* A step after which something was diagnosed.                              *)
Faulty(items) ==
  \/ thrown'
  \/ items # << >> /\ items[1].op # "closefunction"
  \/ items = << >> /\ Head(control).op \notin {"multiblock", "blocks"}
Diagnosing ==
  /\ Diagnosed' /\ UNCHANGED outcome
  /\ \E items : Goes(items) /\ Faulty(items)

LEMMA FitsAt ==
  ASSUME NEW h, NEW z, h.op \notin Marked \cup {"multiblock"},
         h.op \in Whole => z.op \in Whole \cup {"expect"},
         h.op \notin Whole => z.op \notin Whole \cup {"multiblock", "blocks", "closefunction"}
  PROVE  \A b : Follows(h, b) => Follows(z, b)
BY DEF Follows, Whole, Marked

(* What a call goes on with: its items from a to z.                         *)
Word(items, a, z) ==
  /\ items \in Seq(Work) /\ Shape(items)
  /\ items # << >> /\ items[1] = a /\ items[Len(items)] = z

LEMMA WordOne ==
  ASSUME NEW a \in Work, Expectable(a)
  PROVE  Word(<<a>>, a, a)
BY ShapeOf DEF Word

LEMMA WordTwo ==
  ASSUME NEW a \in Work, NEW z \in Work, Expectable(a), Expectable(z), Follows(a, z)
  PROVE  Word(<<a, z>>, a, z)
BY ShapeOf DEF Word

LEMMA WordConcat ==
  ASSUME NEW s, NEW t, NEW a, NEW b, NEW c, NEW z,
         Word(s, a, b), Word(t, c, z), Follows(b, c)
  PROVE  Word(s \o t, a, z)
<1> DEFINE u == s \o t
           m == Len(s)
           n == Len(t)
<1>1. /\ s \in Seq(Work) /\ t \in Seq(Work) /\ m \in Nat \ {0} /\ n \in Nat \ {0}
      /\ s[1] = a /\ s[m] = b /\ t[1] = c /\ t[n] = z
  BY EmptySeq, LenProperties DEF Word
<1>2. /\ u \in Seq(Work) /\ Len(u) = m + n
      /\ \A i \in 1 .. m + n : u[i] = IF i <= m THEN s[i] ELSE t[i - m]
  BY <1>1, ConcatProperties
<1>3. /\ \A i \in 1 .. m - 1 : Follows(s[i], s[i + 1])
      /\ \A i \in 1 .. m : Expectable(s[i])
      /\ \A i \in 1 .. n - 1 : Follows(t[i], t[i + 1])
      /\ \A i \in 1 .. n : Expectable(t[i])
  BY DEF Word, Shape
<1> HIDE DEF m, n, u
<1>4. ASSUME NEW i \in 1 .. Len(u) PROVE Expectable(u[i])
  <2>0. i \in 1 .. m + n
    BY <1>2
  <2>1. CASE i <= m
    <3>1. i \in 1 .. m /\ u[i] = s[i]
      BY <1>1, <1>2, <2>0, <2>1
    <3> QED BY <1>3, <3>1
  <2>2. CASE ~(i <= m)
    <3>1. i - m \in 1 .. n /\ u[i] = t[i - m]
      BY <1>1, <1>2, <2>0, <2>2
    <3> QED BY <1>3, <3>1
  <2> QED BY <2>1, <2>2
<1>5. ASSUME NEW i \in 1 .. Len(u) - 1 PROVE Follows(u[i], u[i + 1])
  <2>0. i \in 1 .. (m + n) - 1
    BY <1>2
  <2>1. i \in 1 .. m + n /\ i + 1 \in 1 .. m + n /\ i \in Nat
    BY <1>1, <2>0
  <2>2. CASE i + 1 <= m
    <3>1. u[i] = s[i] /\ u[i + 1] = s[i + 1] /\ i \in 1 .. m - 1
      BY <1>1, <1>2, <2>1, <2>2
    <3> QED BY <1>3, <3>1
  <2>3. CASE i = m
    <3>1. u[i] = s[m] /\ u[i + 1] = t[1]
      BY <1>1, <1>2, <2>1, <2>3
    <3> QED BY <1>1, <3>1
  <2>4. CASE i > m
    <3>1. i - m \in 1 .. n - 1 /\ (i + 1) - m = (i - m) + 1
      BY <1>1, <1>2, <2>1, <2>4
    <3>2. u[i] = t[i - m] /\ u[i + 1] = t[(i + 1) - m]
      BY <1>1, <1>2, <2>1, <2>4
    <3> QED BY <1>3, <3>1, <3>2
  <2> QED BY <1>1, <2>1, <2>2, <2>3, <2>4
<1>6. Shape(u)
  BY <1>4, <1>5 DEF Shape
<1>7. u # << >> /\ u[1] = a /\ u[Len(u)] = z
  <2>1. 1 \in 1 .. m + n /\ m + n \in 1 .. m + n /\ 1 <= m /\ ~(m + n <= m) /\ (m + n) - m = n
    BY <1>1
  <2>2. u[1] = s[1] /\ u[m + n] = t[n] /\ Len(u) # 0
    BY <1>1, <1>2, <2>1
  <2> QED BY <1>1, <1>2, <2>2, EmptySeq
<1> QED BY <1>2, <1>6, <1>7 DEF Word, u

(* A call goes on with items, the first a and the last z.                   *)
LEMMA GoesWith ==
  ASSUME IInv, InCall, NEW items, NEW a, NEW z, Word(items, a, z), Continue(items),
         a.op \notin Later,
         Head(control).op \notin Marked \cup {"multiblock"},
         Head(control).op \in Whole => z.op \in Whole \cup {"expect"},
         Head(control).op \notin Whole =>
           z.op \notin Whole \cup {"multiblock", "blocks", "closefunction"},
         UNCHANGED <<thrown, tree, outcome>>
  PROVE  Ordinary
<1>0. /\ items \in Seq(Work) /\ Shape(items)
      /\ items # << >> /\ items[1] = a /\ items[Len(items)] = z
  BY DEF Word
<1>1. items \in Seq(Items)
  <2>1. Work \subseteq Items
    BY DEF Work, Called
  <2> QED BY <1>0, <2>1, SeqMonotonic
<1>2. \A b : Follows(Head(control), b) => Follows(z, b)
  BY FitsAt
<1>3. Fits(items, Head(control))
  BY <1>0, <1>2 DEF Fits
<1>4. Goes(items)
  BY <1>0, <1>1, <1>3 DEF Goes, InCall
<1>5. Plainly(items)
  BY <1>0, ElementOfSeq DEF Plainly, Recovering, Work
<1> QED BY <1>4, <1>5 DEF Ordinary, InCall

(* A call ends, but not a block with it.                                    *)
LEMMA GoesWithout ==
  ASSUME IInv, InCall, Continue(<< >>), Head(control).op \notin Marked \cup Whole \cup {"multiblock"},
         UNCHANGED <<thrown, tree, outcome>>
  PROVE  Ordinary
<1>1. << >> \in Seq(Items) /\ Len(<< >>) = 0
  BY EmptySeq
<1>2. Shape(<< >>) /\ Fits(<< >>, Head(control)) /\ ~Recovering(<< >>)
  BY <1>1, ShapeOf DEF Fits, Recovering
<1> QED BY <1>1, <1>2 DEF Ordinary, Goes, Plainly, InCall

LEMMA Drops ==
  ASSUME IInv, control # << >>, Continue(<< >>), Diagnosed', UNCHANGED outcome,
         thrown' \/ Head(control).op \notin {"multiblock", "blocks"}
  PROVE  Diagnosing
<1>1. << >> \in Seq(Items)
  BY EmptySeq
<1>2. Shape(<< >>) /\ Fits(<< >>, Head(control))
  BY ShapeOf DEF Fits
<1> QED BY <1>1, <1>2 DEF Diagnosing, Goes, Faulty

LEMMA Refuses ==
  ASSUME IInv, InCall, RefuseConsumed \/ RefuseUnread
  PROVE  Diagnosing
<1>1. /\ Continue(<< >>) /\ thrown' = TRUE /\ history' = history \cup {"reported"}
      /\ UNCHANGED outcome
  BY DEF RefuseConsumed, RefuseUnread, Fail, driver
<1>2. Diagnosed'
  BY <1>1 DEF Diagnosed
<1> QED BY <1>1, <1>2, Drops DEF InCall

-----------------------------------------------------------------------------
(* The steps, by what they do to the call stack *)

LEMMA TakeOrPass ==
  ASSUME NEW items, Take(items) \/ Pass(items) \/ Rescope(items)
  PROVE  Continue(items) /\ UNCHANGED <<thrown, parserError, history, tree, error, outcome>>
BY DEF Take, Pass, Rescope, Quiet, driver

(* A call goes on with one item, with two.                                  *)
LEMMA GoesWithOne ==
  ASSUME IInv, InCall, NEW a \in Work, Take(<<a>>) \/ Pass(<<a>>) \/ Rescope(<<a>>),
         Expectable(a), a.op \notin Later,
         Head(control).op \notin Marked \cup {"multiblock"},
         Head(control).op \in Whole => a.op \in Whole \cup {"expect"},
         Head(control).op \notin Whole =>
           a.op \notin Whole \cup {"multiblock", "blocks", "closefunction"}
  PROVE  Ordinary
<1>1. Continue(<<a>>) /\ UNCHANGED <<thrown, tree, outcome>>
  BY TakeOrPass
<1> QED BY <1>1, WordOne, GoesWith

LEMMA GoesWithTwo ==
  ASSUME IInv, InCall, NEW a \in Work, NEW z \in Work, Take(<<a, z>>) \/ Pass(<<a, z>>),
         Expectable(a), Expectable(z), Follows(a, z), a.op \notin Later,
         Head(control).op \notin Marked \cup {"multiblock"},
         Head(control).op \in Whole => z.op \in Whole \cup {"expect"},
         Head(control).op \notin Whole =>
           z.op \notin Whole \cup {"multiblock", "blocks", "closefunction"}
  PROVE  Ordinary
<1>1. Continue(<<a, z>>) /\ UNCHANGED <<thrown, tree, outcome>>
  BY TakeOrPass
<1> QED BY <1>1, WordTwo, GoesWith

LEMMA EndsCall ==
  ASSUME IInv, InCall, Take(<< >>) \/ Pass(<< >>),
         Head(control).op \notin Marked \cup Whole \cup {"multiblock"}
  PROVE  Ordinary
<1>1. Continue(<< >>) /\ UNCHANGED <<thrown, tree, outcome>>
  BY TakeOrPass
<1> QED BY <1>1, GoesWithout

LEMMA WorkItems ==
  /\ \A op \in { "block", "body", "skip", "target", "skipblock", "else", "returned",
                 "declarator", "funcname", "param", "paramname", "returntype", "args",
                 "multiblock", "params", "catch", "funcbody", "closefunction" } :
       Do(op) \in Work /\ Do(op).op = op /\ Expectable(Do(op))
  /\ \A kind \in Kinds : Expect(kind) \in Work /\ Expect(kind).op = "expect"
  /\ Check("TYPE") \in Work /\ Check("TYPE").op = "check" /\ Expectable(Check("TYPE"))
<1>1. Clean \subseteq Work
  BY DEF Clean
<1>2. \A op : Do(op).op = op
  BY DEF Do
<1>3. \A op : op # "expect" => Expectable(Do(op))
  BY DEF Do, Expectable
<1>4. \A kind \in Kinds : Expect(kind) \in Work /\ Expect(kind).op = "expect"
  BY <1>1, CleanKind DEF Expect
<1>5. Check("TYPE") \in Work /\ Check("TYPE").op = "check" /\ Expectable(Check("TYPE"))
  BY <1>1, ExpectedTokens DEF Check, Expectable
<1> QED BY <1>1, <1>2, <1>3, <1>4, <1>5, PlainWork

LEMMA ExpectItems ==
  \A kind \in {"then", "fi", "is", ":=", "endfunction", "(", ")", ";"} :
    Expect(kind) \in Work /\ Expect(kind).op = "expect" /\ Expectable(Expect(kind))
<1> SUFFICES ASSUME NEW kind \in {"then", "fi", "is", ":=", "endfunction", "(", ")", ";"}
             PROVE  Expect(kind) \in Work /\ Expect(kind).op = "expect" /\ Expectable(Expect(kind))
  OBVIOUS
<1>1. kind \in Kinds
  BY Zenon DEF Kinds, Keywords
<1>2. kind # EOF
  BY DEF EOF
<1> QED BY <1>1, <1>2, WorkItems DEF Expectable, Expect

LEMMA OtherItems ==
  /\ \A name \in Texts :
       /\ Named("initializer", name) \in Work /\ Named("initializer", name).op = "initializer"
       /\ Named("declare", name) \in Work /\ Named("declare", name).op = "declare"
       /\ Expectable(Named("initializer", name)) /\ Expectable(Named("declare", name))
  /\ \A loop \in {"params", "args"} :
       /\ Separator(loop) \in Work /\ Separator(loop).op = "separator"
       /\ Expectable(Separator(loop))
  /\ \A low, high \in Levels :
       /\ Precedence(low) \in Work /\ Precedence(low).op = "precedence"
       /\ Operators(low, high) \in Work /\ Operators(low, high).op = "operators"
       /\ Expectable(Precedence(low)) /\ Expectable(Operators(low, high))
  /\ TopPrecedence \in Work /\ TopPrecedence.op = "precedence" /\ Expectable(TopPrecedence)
  /\ \A saved \in Trees :
       Blocks(saved) \in Work /\ Blocks(saved).op = "blocks" /\ Expectable(Blocks(saved))
<1>1. Clean \subseteq Work
  BY DEF Clean
<1>2. /\ \A name : Named("initializer", name).op = "initializer" /\ Named("declare", name).op = "declare"
      /\ \A loop : Separator(loop).op = "separator"
      /\ \A low, high : Precedence(low).op = "precedence" /\ Operators(low, high).op = "operators"
      /\ \A saved : Blocks(saved).op = "blocks"
  BY DEF Named, Separator, Precedence, Operators, Blocks
<1>3. \A loop \in {"params", "args"} : Separator(loop) \in Work
  BY <1>1, CleanSeparator
<1>4. TopPrecedence.op = "precedence"
  BY <1>2 DEF TopPrecedence
<1> QED
  BY <1>1, <1>2, <1>3, <1>4, CleanNamed, CleanOperators, CleanExpression, BlocksWork
  DEF Expectable

LEMMA ExpressionWord ==
  ASSUME NEW items, NEW a, NEW z, Word(items, a, z), Follows(Do("catch"), a)
  PROVE  Word(Expression \o items, TopPrecedence, z)
<1>1. Follows(TopPrecedence, Do("catch"))
  BY DEF Follows, Whole, Do, TopPrecedence, Precedence
<1>2. Word(Expression, TopPrecedence, Do("catch"))
  BY <1>1, WorkItems, OtherItems, WordTwo DEF Expression
<1> QED BY <1>2, WordConcat

LEMMA TokenForms ==
  ASSUME IInv, CheckToken \/ Skip
  PROVE  Ordinary \/ Diagnosing
<1>1. CASE CheckToken
  <2>1. InCall /\ Head(control).op = "check"
    BY <1>1, RunningInCall DEF CheckToken, Looking
  <2>2. Take(<< >>) \/ RefuseUnread
    BY <1>1 DEF CheckToken
  <2>3. Head(control).op \notin Marked \cup Whole \cup {"multiblock"}
    BY <2>1 DEF Marked, Whole
  <2> QED BY <2>1, <2>2, <2>3, EndsCall, Refuses
<1>2. CASE Skip
  <2>1. InCall /\ Head(control).op = "skip"
    BY <1>2, RunningInCall DEF Skip, Looking
  <2>2. Head(control).op \notin Marked \cup Whole \cup {"multiblock"}
    BY <2>1 DEF Marked, Whole
  <2> QED BY <1>2, <2>1, <2>2, EndsCall DEF Skip
<1> QED BY <1>1, <1>2

LEMMA StatementForms ==
  ASSUME IInv,
         \/ ParseBlock \/ ParseIf \/ ParseFunction \/ ParsePragma \/ ParseGoto \/ ParseReturn
         \/ ParseVariableAssignment \/ ParseVariableDeclaration
  PROVE  Ordinary
<1> DEFINE h == Head(control).op
<1>1. ASSUME NEW op \in {"block", "body"}, h = op
      PROVE  h \notin Marked \cup {"multiblock"} /\ h \in Whole
  BY <1>1 DEF Marked, Whole
<1>2. \A kind, items : Starts(kind, items) =>
        InCall /\ h = "body" /\ Take(items) /\ Continue(items) /\ UNCHANGED <<thrown, tree, outcome>>
  BY RunningInCall, TakeOrPass DEF Starts, Looking
<1>3. CASE ParseBlock
  <2>1. InCall /\ h = "block"
    BY <1>3, RunningInCall DEF ParseBlock, Looking
  <2>2. CASE Take(<<Do("skip"), Do("body")>>)
    <3>1. Follows(Do("skip"), Do("body")) /\ "skip" \notin Later /\ "body" \in Whole
      BY DEF Follows, Whole, Later, Do
    <3> QED BY <1>1, <2>1, <2>2, <3>1, WorkItems, GoesWithTwo
  <2>3. CASE Pass(<<Do("body")>>)
    <3>1. "body" \notin Later /\ "body" \in Whole
      BY DEF Whole, Later
    <3> QED BY <1>1, <2>1, <2>3, <3>1, WorkItems, GoesWithOne
  <2> QED BY <1>3, <2>2, <2>3 DEF ParseBlock
<1>4. CASE ParseIf
  <2> DEFINE items == <<TopPrecedence, Expect("then"), Do("multiblock"), Do("else")>>
  <2>1. Starts("if", items)
    BY <1>4 DEF ParseIf
  <2>2. /\ TopPrecedence \in Work /\ Expect("then") \in Work
        /\ Do("multiblock") \in Work /\ Do("else") \in Work
        /\ Expectable(TopPrecedence) /\ Expectable(Expect("then"))
        /\ Expectable(Do("multiblock")) /\ Expectable(Do("else"))
    BY WorkItems, ExpectItems, OtherItems
  <2>3. /\ Follows(TopPrecedence, Expect("then"))
        /\ Follows(Expect("then"), Do("multiblock"))
        /\ Follows(Do("multiblock"), Do("else"))
    BY DEF Follows, Whole, Do, Expect, TopPrecedence, Precedence
  <2>4. Word(items, TopPrecedence, Do("else"))
    BY <2>2, <2>3, ShapeOf DEF Word
  <2>5. TopPrecedence.op \notin Later /\ Do("else").op \in Whole
    BY WorkItems, OtherItems DEF Later, Whole
  <2> HIDE DEF items
  <2> QED BY <1>1, <1>2, <2>1, <2>4, <2>5, GoesWith
<1>5. CASE ParseFunction
  <2>1. "funcname" \notin Later /\ "funcname" \in Whole
    BY DEF Whole, Later
  <2> QED BY <1>1, <1>2, <1>5, <2>1, WorkItems, GoesWithOne DEF ParseFunction
<1>6. CASE ParsePragma
  <2> DEFINE items == <<Do("target"), Do("skip"), Expect("is"), Do("skip"), Semicolon>>
  <2>1. Starts("pragma", items)
    BY <1>6 DEF ParsePragma
  <2>2. /\ Do("target") \in Work /\ Do("skip") \in Work
        /\ Expect("is") \in Work /\ Semicolon \in Work
        /\ Expectable(Do("target")) /\ Expectable(Do("skip"))
        /\ Expectable(Expect("is")) /\ Expectable(Semicolon)
    BY WorkItems, ExpectItems DEF Semicolon
  <2>3. /\ Follows(Do("target"), Do("skip")) /\ Follows(Do("skip"), Expect("is"))
        /\ Follows(Expect("is"), Do("skip")) /\ Follows(Do("skip"), Semicolon)
    BY DEF Follows, Whole, Do, Expect, Semicolon
  <2>4. Word(items, Do("target"), Semicolon)
    BY <2>2, <2>3, ShapeOf DEF Word
  <2>5. Do("target").op \notin Later /\ Semicolon.op = "expect"
    BY WorkItems, ExpectItems DEF Later, Semicolon
  <2> HIDE DEF items
  <2> QED BY <1>1, <1>2, <2>1, <2>4, <2>5, GoesWith
<1>7. CASE ParseGoto
  <2>1. Follows(Do("skip"), Semicolon) /\ "skip" \notin Later
    BY DEF Follows, Whole, Later, Do, Expect, Semicolon
  <2> QED BY <1>1, <1>2, <1>7, <2>1, WorkItems, ExpectItems, GoesWithTwo DEF ParseGoto, Semicolon
<1>8. CASE ParseReturn
  <2>1. Follows(Do("returned"), Semicolon) /\ "returned" \notin Later
    BY DEF Follows, Whole, Later, Do, Expect, Semicolon
  <2> QED BY <1>1, <1>2, <1>8, <2>1, WorkItems, ExpectItems, GoesWithTwo DEF ParseReturn, Semicolon
<1>9. CASE ParseVariableAssignment
  <2> DEFINE items == <<Expect(":=")>> \o Expression \o <<Semicolon>>
  <2>1. Starts("VARIABLE_NAME", items)
    BY <1>9 DEF ParseVariableAssignment
  <2>2. /\ Follows(Expect(":="), TopPrecedence) /\ Follows(TopPrecedence, Do("catch"))
        /\ Follows(Do("catch"), Semicolon)
    BY DEF Follows, Whole, Do, Expect, TopPrecedence, Precedence, Semicolon
  <2>3. Word(<<Expect(":=")>>, Expect(":="), Expect(":=")) /\ Word(<<Semicolon>>, Semicolon, Semicolon)
    BY ExpectItems, WordOne DEF Semicolon
  <2>4. Word(Expression, TopPrecedence, Do("catch"))
    BY <2>2, WorkItems, OtherItems, WordTwo DEF Expression
  <2>5. Word(<<Expect(":=")>> \o Expression, Expect(":="), Do("catch"))
    BY <2>2, <2>3, <2>4, WordConcat
  <2>6. Word(items, Expect(":="), Semicolon)
    BY <2>2, <2>3, <2>5, WordConcat
  <2>7. Expect(":=").op \notin Later /\ Semicolon.op = "expect"
    BY ExpectItems DEF Later, Semicolon
  <2> HIDE DEF items
  <2> QED BY <1>1, <1>2, <2>1, <2>6, <2>7, GoesWith
<1>10. CASE ParseVariableDeclaration
  <2>1. "declarator" \notin Later /\ "declarator" \in Whole
    BY DEF Whole, Later
  <2> QED BY <1>1, <1>2, <1>10, <2>1, WorkItems, GoesWithOne DEF ParseVariableDeclaration
<1> QED BY <1>3, <1>4, <1>5, <1>6, <1>7, <1>8, <1>9, <1>10


LEMMA ExpressionIsWord == Word(Expression, TopPrecedence, Do("catch"))
<1>1. Follows(TopPrecedence, Do("catch"))
  BY DEF Follows, Whole, Do, TopPrecedence, Precedence
<1> QED BY <1>1, WorkItems, OtherItems, WordTwo DEF Expression

LEMMA BlockForms ==
  ASSUME IInv, PragmaTarget \/ ReturnValue \/ SkipBlock \/ OpenMultiBlock
  PROVE  Ordinary
<1>1. CASE PragmaTarget
  <2>1. InCall /\ Head(control).op = "target"
    BY <1>1, RunningInCall DEF PragmaTarget, Looking
  <2>2. Continue(<< >>) /\ UNCHANGED <<thrown, tree, outcome>>
    BY <1>1 DEF PragmaTarget, Report, Quiet, driver
  <2>3. Head(control).op \notin Marked \cup Whole \cup {"multiblock"}
    BY <2>1 DEF Marked, Whole
  <2> QED BY <2>1, <2>2, <2>3, GoesWithout
<1>2. CASE ReturnValue
  <2>1. InCall /\ Head(control).op = "returned"
    BY <1>2, RunningInCall DEF ReturnValue, Looking
  <2>2. Head(control).op \notin Marked \cup Whole \cup {"multiblock"}
    BY <2>1 DEF Marked, Whole
  <2>3. CASE Take(<< >>)
    BY <2>1, <2>2, <2>3, EndsCall
  <2>4. CASE Pass(Expression)
    <3>1. Continue(Expression) /\ UNCHANGED <<thrown, tree, outcome>>
      BY <2>4, TakeOrPass
    <3>2. TopPrecedence.op \notin Later
      BY OtherItems DEF Later
    <3>3. Do("catch").op \notin Whole \cup {"multiblock", "blocks", "closefunction"}
      BY DEF Do, Whole
    <3> QED BY <2>1, <2>2, <3>1, <3>2, <3>3, ExpressionIsWord, GoesWith
  <2> QED BY <1>2, <2>3, <2>4 DEF ReturnValue
<1>3. CASE SkipBlock
  <2>1. InCall /\ Head(control).op = "skipblock"
    BY <1>3, RunningInCall DEF SkipBlock, Looking
  <2>2. Head(control).op \notin Marked \cup Whole \cup {"multiblock"}
    BY <2>1 DEF Marked, Whole
  <2>3. CASE Pass(<< >>)
    BY <2>1, <2>2, <2>3, EndsCall
  <2>4. CASE Take(<<Do("skipblock")>>)
    <3>1. "skipblock" \notin Later \cup Whole \cup {"multiblock", "blocks", "closefunction"}
      BY DEF Later, Whole
    <3> QED BY <2>1, <2>2, <2>4, <3>1, WorkItems, GoesWithOne
  <2> QED BY <1>3, <2>3, <2>4 DEF SkipBlock
<1>4. CASE OpenMultiBlock
  <2> DEFINE items == <<Blocks(tree)>>
  <2>1. InCall /\ Head(control).op = "multiblock"
    BY <1>4, RunningInCall DEF OpenMultiBlock
  <2>2. Continue(items) /\ UNCHANGED <<thrown, tree, outcome>>
    BY <1>4, TakeOrPass DEF OpenMultiBlock
  <2>3. /\ Blocks(tree) \in Work /\ Blocks(tree).op = "blocks" /\ Expectable(Blocks(tree))
    BY OtherItems DEF IInv, FlagsInv
  <2>4. Word(items, Blocks(tree), Blocks(tree))
    BY <2>3, WordOne
  <2>5. \A b : Follows(Head(control), b) => Follows(Blocks(tree), b)
    BY <2>1, <2>3 DEF Follows, Whole
  <2> HIDE DEF items
  <2>6. items \in Seq(Items)
    <3>1. Work \subseteq Items
      BY DEF Work, Called
    <3> QED BY <2>4, <3>1, SeqMonotonic DEF Word
  <2>7. Goes(items)
    BY <2>1, <2>2, <2>4, <2>5, <2>6 DEF Goes, Fits, Word, InCall
  <2>8. Plainly(items) /\ Head(control).op \notin Marked
    BY <2>1, <2>3, <2>4, ElementOfSeq DEF Plainly, Recovering, Work, Word, Later, Marked
  <2> QED BY <2>1, <2>2, <2>7, <2>8 DEF Ordinary, InCall
<1> QED BY <1>1, <1>2, <1>3, <1>4

LEMMA VariableForms ==
  ASSUME IInv, Declarator \/ Initializer \/ DeclareVariable
  PROVE  Ordinary
<1>1. CASE Declarator
  <2>1. InCall /\ Head(control).op = "declarator" /\ buffer.text \in Texts
    BY <1>1, RunningInCall, BufferText DEF Declarator, Looking
  <2>2. "initializer" \notin Later /\ "initializer" \in Whole /\ "declarator" \in Whole
    BY DEF Later, Whole
  <2>3. Head(control).op \notin Marked \cup {"multiblock"}
    BY <2>1 DEF Marked
  <2> QED BY <1>1, <2>1, <2>2, <2>3, OtherItems, GoesWithOne DEF Declarator
<1>2. CASE Initializer
  <2> DEFINE declare == Named("declare", Head(control).name)
             items == Expression \o <<declare>>
  <2>1. InCall /\ Head(control).op = "initializer" /\ Head(control).name \in Texts
    BY <1>2, RunningInCall, HeadName DEF Initializer, Looking, InCall
  <2>2. "declare" \notin Later /\ "declare" \in Whole /\ "initializer" \in Whole
    BY DEF Later, Whole
  <2>3. Head(control).op \notin Marked \cup {"multiblock"}
    BY <2>1 DEF Marked
  <2>4. declare \in Work /\ declare.op = "declare" /\ Expectable(declare)
    BY <2>1, OtherItems
  <2>5. CASE Take(items)
    <3>1. Continue(items) /\ UNCHANGED <<thrown, tree, outcome>>
      BY <2>5, TakeOrPass
    <3>2. Follows(Do("catch"), declare)
      BY <2>4 DEF Follows, Do, Whole
    <3> HIDE DEF declare
    <3>3. Word(items, TopPrecedence, declare)
      BY <2>4, <3>2, WordOne, ExpressionWord
    <3>4. TopPrecedence.op \notin Later
      BY OtherItems DEF Later
    <3> HIDE DEF items
    <3> QED BY <2>1, <2>2, <2>3, <2>4, <3>1, <3>3, <3>4, GoesWith
  <2>6. CASE Pass(<<declare>>)
    <3> HIDE DEF declare
    <3> QED BY <2>1, <2>2, <2>3, <2>4, <2>6, GoesWithOne
  <2> QED BY <1>2, <2>5, <2>6 DEF Initializer
<1>3. CASE DeclareVariable
  <2>1. InCall /\ Head(control).op = "declare"
    BY <1>3, RunningInCall DEF DeclareVariable
  <2>2. Head(control).op \notin Marked \cup {"multiblock"} /\ Head(control).op \in Whole
    BY <2>1 DEF Marked, Whole
  <2>3. Rescope(<<Semicolon>>) /\ "expect" \notin Later
    BY <1>3 DEF DeclareVariable, AfterDeclaration, Later
  <2> QED BY <2>1, <2>2, <2>3, ExpectItems, GoesWithOne DEF Semicolon
<1> QED BY <1>1, <1>2, <1>3

LEMMA FunctionForms ==
  ASSUME IInv, FunctionName \/ FunctionBody \/ Prototype
  PROVE  Ordinary \/ Diagnosing
<1>1. CASE FunctionName
  <2> DEFINE items == << Expect("("), Do("params"), Expect(")"), Do("returntype"), Do("funcbody") >>
  <2>1. InCall /\ Head(control).op = "funcname"
    BY <1>1, RunningInCall DEF FunctionName, Looking
  <2>2. Head(control).op \notin Marked \cup {"multiblock"} /\ "funcbody" \in Whole
    BY <2>1 DEF Marked, Whole
  <2>3. CASE RefuseUnread
    BY <2>1, <2>3, Refuses
  <2>4. CASE Continue(items) /\ UNCHANGED <<thrown, tree, outcome>>
    <3>1. /\ Expect("(") \in Work /\ Do("params") \in Work /\ Expect(")") \in Work
          /\ Do("returntype") \in Work /\ Do("funcbody") \in Work
          /\ Expectable(Expect("(")) /\ Expectable(Do("params")) /\ Expectable(Expect(")"))
          /\ Expectable(Do("returntype")) /\ Expectable(Do("funcbody"))
      BY WorkItems, ExpectItems
    <3>2. /\ Follows(Expect("("), Do("params")) /\ Follows(Do("params"), Expect(")"))
          /\ Follows(Expect(")"), Do("returntype")) /\ Follows(Do("returntype"), Do("funcbody"))
      BY DEF Follows, Whole, Do, Expect
    <3>3. Word(items, Expect("("), Do("funcbody"))
      BY <3>1, <3>2, ShapeOf DEF Word
    <3>4. Expect("(").op \notin Later /\ Do("funcbody").op \in Whole
      BY <2>2, WorkItems, ExpectItems DEF Later
    <3> HIDE DEF items
    <3>5. Head(control).op \in Whole
      BY <2>1 DEF Whole
    <3> QED BY <2>1, <2>2, <2>4, <3>3, <3>4, <3>5, GoesWith
  <2> QED BY <1>1, <2>3, <2>4 DEF FunctionName, Quiet, driver
<1>2. CASE FunctionBody
  <2>1. InCall /\ Head(control).op = "funcbody" /\ Take(Body)
    BY <1>2, RunningInCall DEF FunctionBody, Looking
  <2>2. Head(control).op \notin Marked \cup {"multiblock"}
    BY <2>1 DEF Marked
  <2>3. Continue(Body) /\ UNCHANGED <<thrown, tree, outcome>>
    BY <2>1, TakeOrPass
  <2>4. /\ Do("multiblock") \in Work /\ Do("closefunction") \in Work /\ Expect("endfunction") \in Work
        /\ Expectable(Do("multiblock")) /\ Expectable(Do("closefunction"))
        /\ Expectable(Expect("endfunction"))
    BY WorkItems, ExpectItems
  <2>5. /\ Follows(Do("multiblock"), Do("closefunction"))
        /\ Follows(Do("closefunction"), Expect("endfunction"))
    BY DEF Follows, Whole, Do, Expect
  <2>6. Word(Body, Do("multiblock"), Expect("endfunction"))
    BY <2>4, <2>5, ShapeOf DEF Word, Body
  <2>7. Do("multiblock").op \notin Later /\ Expect("endfunction").op = "expect"
    BY WorkItems, ExpectItems DEF Later
  <2>8. Head(control).op \in Whole
    BY <2>1 DEF Whole
  <2> QED BY <2>1, <2>2, <2>3, <2>6, <2>7, <2>8, GoesWith
<1>3. CASE Prototype
  <2>1. InCall /\ Head(control).op = "funcbody"
    BY <1>3, RunningInCall DEF Prototype, Looking
  <2>2. Head(control).op \notin Marked \cup {"multiblock"} /\ Head(control).op \in Whole
    BY <2>1 DEF Marked, Whole
  <2>3. Continue(<<Semicolon>>) /\ UNCHANGED <<thrown, tree, outcome>>
    BY <1>3 DEF Prototype, driver
  <2>4. Word(<<Semicolon>>, Semicolon, Semicolon) /\ Semicolon.op = "expect" /\ "expect" \notin Later
    BY ExpectItems, WordOne DEF Semicolon, Later
  <2> QED BY <2>1, <2>2, <2>3, <2>4, GoesWith
<1> QED BY <1>1, <1>2, <1>3

LEMMA ParameterForms ==
  ASSUME IInv, Parameters \/ Parameter \/ ParameterName \/ ParseSeparator \/ ReturnType
  PROVE  Ordinary \/ Diagnosing
<1> DEFINE h == Head(control).op
           Small == {"param", "paramname", "separator", "check", "params", "args"}
<1>0. ASSUME NEW op \in Small \cup {"returntype"}
      PROVE  op \notin Marked \cup Whole \cup {"multiblock", "blocks", "closefunction"} \cup Later
  BY DEF Marked, Whole, Later
<1>1. CASE Parameters
  <2>1. InCall /\ h = "params"
    BY <1>1, RunningInCall DEF Parameters
  <2>2. Pass(<< >>) \/ Pass(<<Do("param")>>)
    BY <1>1 DEF Parameters
  <2> HIDE DEF h
  <2>3. CASE Pass(<< >>)
    BY <1>0, <2>1, <2>3, EndsCall DEF h
  <2>4. CASE Pass(<<Do("param")>>)
    BY <1>0, <2>1, <2>4, WorkItems, GoesWithOne DEF h
  <2> QED BY <2>2, <2>3, <2>4
<1>2. CASE Parameter
  <2>1. InCall /\ h = "param"
    BY <1>2, RunningInCall DEF Parameter, Looking
  <2>2. Pass(<< >>) \/ Pass(<<Check("TYPE"), Do("paramname")>>)
    BY <1>2 DEF Parameter
  <2>3. CASE Pass(<< >>)
    BY <1>0, <2>1, <2>3, EndsCall
  <2>4. CASE Pass(<<Check("TYPE"), Do("paramname")>>)
    <3>1. Follows(Check("TYPE"), Do("paramname"))
      BY DEF Follows, Whole, Do, Check
    <3> QED BY <1>0, <2>1, <2>4, <3>1, WorkItems, GoesWithTwo
  <2> QED BY <2>2, <2>3, <2>4
<1>3. CASE ParameterName
  <2>1. InCall /\ h = "paramname"
    BY <1>3, RunningInCall DEF ParameterName, Looking
  <2>2. CASE RefuseUnread
    BY <2>1, <2>2, Refuses
  <2>3. CASE Continue(<<Separator("params")>>) /\ UNCHANGED <<thrown, tree, outcome>>
    <3>1. Word(<<Separator("params")>>, Separator("params"), Separator("params"))
      BY OtherItems, WordOne
    <3>2. Separator("params").op = "separator"
      BY OtherItems
    <3> QED BY <1>0, <2>1, <2>3, <3>1, <3>2, GoesWith
  <2> QED BY <1>3, <2>2, <2>3 DEF ParameterName, Quiet, driver
<1>4. CASE ParseSeparator
  <2>1. InCall /\ h = "separator"
    BY <1>4, RunningInCall DEF ParseSeparator, Looking
  <2>2. Head(control).loop \in {"params", "args"}
    BY <2>1, HeadItem DEF Items, PlainOps, SilentOps, ReadingOps, InCall
  <2> DEFINE loop == Head(control).loop
  <2>3. \/ Take(<<Do(loop)>>) \/ Pass(<<Do(loop)>>) \/ RefuseUnread
    BY <1>4 DEF ParseSeparator, Separate
  <2>4. loop \in Small /\ Do(loop) \in Work /\ Do(loop).op = loop /\ Expectable(Do(loop))
    BY <2>2, WorkItems
  <2>5. CASE RefuseUnread
    BY <2>1, <2>5, Refuses
  <2> HIDE DEF loop
  <2>6. CASE Take(<<Do(loop)>>) \/ Pass(<<Do(loop)>>)
    BY <1>0, <2>1, <2>4, <2>6, GoesWithOne
  <2> QED BY <2>3, <2>5, <2>6
<1>5. CASE ReturnType
  <2>1. InCall /\ h = "returntype"
    BY <1>5, RunningInCall DEF ReturnType, Looking
  <2>2. Pass(<< >>) \/ Take(<<Check("TYPE")>>)
    BY <1>5 DEF ReturnType
  <2>3. CASE Pass(<< >>)
    BY <1>0, <2>1, <2>3, EndsCall
  <2>4. CASE Take(<<Check("TYPE")>>)
    BY <1>0, <2>1, <2>4, WorkItems, GoesWithOne
  <2> QED BY <2>2, <2>3, <2>4
<1> QED BY <1>1, <1>2, <1>3, <1>4, <1>5

(* The operands and operators of an expression. *)
LEMMA OperandForm ==
  ASSUME IInv, InCall, Head(control).op = "precedence", NEW items, NEW a, NEW b,
         Word(items, a, b), a.op \notin Later, b.op \notin Whole \cup {"multiblock", "blocks", "closefunction"},
         Operand(items)
  PROVE  Ordinary
<1> DEFINE operators == Operators(1, Head(control).level)
<1>1. Head(control).level \in Levels /\ 1 \in Levels
  BY HeadLevel DEF Levels, InCall
<1>2. operators \in Work /\ operators.op = "operators" /\ Expectable(operators)
  BY <1>1, OtherItems
<1>3. Take(items \o <<operators>>)
  BY DEF Operand
<1> HIDE DEF operators
<1>4. Follows(b, operators)
  BY <1>2 DEF Follows
<1>5. Word(items \o <<operators>>, a, operators)
  BY <1>2, <1>4, WordOne, WordConcat
<1>6. Head(control).op \notin Marked \cup {"multiblock"} \cup Whole
  BY DEF Marked, Whole
<1>7. operators.op \notin Whole \cup {"multiblock", "blocks", "closefunction"}
  BY <1>2 DEF Whole
<1>8. Continue(items \o <<operators>>) /\ UNCHANGED <<thrown, tree, outcome>>
  BY <1>3, TakeOrPass
<1> QED BY <1>5, <1>6, <1>7, <1>8, GoesWith

LEMMA OperandForms ==
  ASSUME IInv, ParseParenthesis \/ ParseFunctionCall \/ ParseCast \/ ParseIdentifier
  PROVE  Ordinary
<1>1. InCall /\ Head(control).op = "precedence"
  BY RunningInCall DEF ParseParenthesis, ParseFunctionCall, ParseCast, ParseIdentifier, Looking
<1>2. /\ TopPrecedence.op \notin Later /\ Expect("(").op \notin Later
      /\ Expect(")").op \notin Whole \cup {"multiblock", "blocks", "closefunction"}
      /\ Do("args").op \notin Whole \cup {"multiblock", "blocks", "closefunction"}
  BY WorkItems, ExpectItems, OtherItems DEF Later, Whole
<1>3. /\ Word(<<Expect("(")>>, Expect("("), Expect("("))
      /\ Word(<<Expect(")")>>, Expect(")"), Expect(")"))
  BY ExpectItems, WordOne
<1>4. Follows(Do("catch"), Expect(")")) /\ Follows(Expect("("), TopPrecedence)
      /\ Follows(Expect("("), Do("args"))
  BY DEF Follows, Whole, Do, Expect, TopPrecedence, Precedence
<1>5. CASE ParseParenthesis
  <2>1. Word(Expression \o <<Expect(")")>>, TopPrecedence, Expect(")"))
    BY <1>3, <1>4, ExpressionWord
  <2>2. Operand(Expression \o <<Expect(")")>>)
    BY <1>5 DEF ParseParenthesis
  <2> QED BY <1>1, <1>2, <2>1, <2>2, OperandForm
<1>6. CASE ParseFunctionCall
  <2>1. Word(<<Expect("("), Do("args")>>, Expect("("), Do("args"))
    BY <1>4, WorkItems, ExpectItems, WordTwo
  <2>2. Operand(<<Expect("("), Do("args")>>)
    BY <1>6 DEF ParseFunctionCall
  <2> QED BY <1>1, <1>2, <2>1, <2>2, OperandForm
<1>7. CASE ParseCast
  <2>1. Word(<<Expect("(")>> \o Expression, Expect("("), Do("catch"))
    BY <1>3, <1>4, ExpressionIsWord, WordConcat
  <2>2. Word(<<Expect("(")>> \o Expression \o <<Expect(")")>>, Expect("("), Expect(")"))
    BY <1>3, <1>4, <2>1, WordConcat
  <2>3. Operand(<<Expect("(")>> \o Expression \o <<Expect(")")>>)
    BY <1>7 DEF ParseCast
  <2> QED BY <1>1, <1>2, <2>2, <2>3, OperandForm
<1>8. CASE ParseIdentifier
  <2> DEFINE operators == Operators(1, Head(control).level)
  <2>1. Head(control).level \in Levels /\ 1 \in Levels
    BY <1>1, HeadLevel DEF Levels, InCall
  <2>2. operators \in Work /\ operators.op = "operators" /\ Expectable(operators)
    BY <2>1, OtherItems
  <2>3. Take(<<operators>>)
    <3>1. Take(<< >> \o <<operators>>)
      BY <1>8 DEF ParseIdentifier, Operand
    <3>2. << >> \o <<operators>> = <<operators>>
      OBVIOUS
    <3> QED BY <3>1, <3>2, Zenon
  <2>4. /\ Head(control).op \notin Marked \cup {"multiblock"} \cup Whole
        /\ operators.op \notin Whole \cup {"multiblock", "blocks", "closefunction"} \cup Later
    BY <1>1, <2>2 DEF Marked, Whole, Later
  <2> HIDE DEF operators
  <2> QED BY <1>1, <2>2, <2>3, <2>4, GoesWithOne
<1> QED BY <1>5, <1>6, <1>7, <1>8

LEMMA ExpressionForms ==
  ASSUME IInv, ParseUnary \/ ParseNumber \/ ParseOperators \/ Arguments \/ LeaveExpression
  PROVE  Ordinary \/ Diagnosing
<1>0. ASSUME NEW op \in {"precedence", "operators", "args", "catch", "separator"}
      PROVE  op \notin Marked \cup Whole \cup {"multiblock", "blocks", "closefunction"} \cup Later
  BY DEF Marked, Whole, Later
<1>1. CASE ParseUnary
  <2>1. InCall /\ Head(control).op = "precedence" /\ Take(<<TopPrecedence>>)
    BY <1>1, RunningInCall DEF ParseUnary, Looking
  <2> QED BY <1>0, <2>1, OtherItems, GoesWithOne
<1>2. CASE ParseNumber
  <2> DEFINE operators == Operators(1, Head(control).level)
  <2>1. InCall /\ Head(control).op = "precedence"
    BY <1>2, RunningInCall DEF ParseNumber, Looking
  <2>2. Head(control).level \in Levels /\ 1 \in Levels
    BY <2>1, HeadLevel DEF Levels, InCall
  <2>3. operators \in Work /\ operators.op = "operators" /\ Expectable(operators)
    BY <2>2, OtherItems
  <2>4. CASE thrown' = TRUE /\ history' = history \cup {"overflow"} /\ Continue(<< >>) /\ UNCHANGED outcome
    <3>1. Diagnosed'
      BY <2>4 DEF Diagnosed
    <3> QED BY <2>1, <2>4, <3>1, Drops DEF InCall
  <2>5. CASE Continue(<<operators>>) /\ UNCHANGED <<thrown, tree, outcome>>
    <3> HIDE DEF operators
    <3>1. Word(<<operators>>, operators, operators)
      BY <2>3, WordOne
    <3> QED BY <1>0, <2>1, <2>3, <2>5, <3>1, GoesWith
  <2> QED BY <1>2, <2>4, <2>5 DEF ParseNumber, Quiet, driver
<1>3. CASE ParseOperators
  <2>1. InCall /\ Head(control).op = "operators"
    BY <1>3, RunningInCall DEF ParseOperators, Looking
  <2>2. CASE Pass(<< >>)
    BY <1>0, <2>1, <2>2, EndsCall
  <2>3. CASE \E l \in Head(control).low .. Head(control).high :
               Take(<<Precedence(RightOperand(l)), Operators(l, Head(control).high)>>)
    <3>1. PICK l \in Head(control).low .. Head(control).high :
               Take(<<Precedence(RightOperand(l)), Operators(l, Head(control).high)>>)
      BY <2>3
    <3>2. Head(control).low \in Levels /\ Head(control).high \in Levels
      BY <2>1, HeadLevel DEF InCall
    <3>3. l \in Levels /\ RightOperand(l) \in Levels
      BY <3>2 DEF Levels, RightOperand
    <3> DEFINE a == Precedence(RightOperand(l))
               z == Operators(l, Head(control).high)
    <3>4. /\ a \in Work /\ a.op = "precedence" /\ Expectable(a)
          /\ z \in Work /\ z.op = "operators" /\ Expectable(z)
      BY <3>2, <3>3, OtherItems
    <3>5. Take(<<a, z>>)
      BY <3>1
    <3> HIDE DEF a, z
    <3>6. Follows(a, z)
      BY <3>4 DEF Follows, Whole
    <3> QED BY <1>0, <2>1, <3>4, <3>5, <3>6, GoesWithTwo
  <2> QED BY <1>3, <2>2, <2>3 DEF ParseOperators
<1>4. CASE Arguments
  <2>1. InCall /\ Head(control).op = "args"
    BY <1>4, RunningInCall DEF Arguments, Looking
  <2>2. CASE Take(<< >>)
    BY <1>0, <2>1, <2>2, EndsCall
  <2>3. CASE Pass(<<TopPrecedence, Separator("args")>>)
    <3>1. Follows(TopPrecedence, Separator("args"))
      BY DEF Follows, Whole, TopPrecedence, Precedence, Separator
    <3> QED BY <1>0, <2>1, <2>3, <3>1, OtherItems, GoesWithTwo
  <2> QED BY <1>4, <2>2, <2>3 DEF Arguments
<1>5. CASE LeaveExpression
  <2>1. InCall /\ Head(control).op = "catch" /\ Pass(<< >>)
    BY <1>5, RunningInCall DEF LeaveExpression
  <2> QED BY <1>0, <2>1, EndsCall
<1> QED BY <1>1, <1>2, <1>3, <1>4, <1>5

(* Recovering, and what comes before and after it. *)
LEMMA RecoverGoes ==
  ASSUME IInv, control # << >>, Continue(<<Do("recover")>>),
         Head(control).op \notin Marked \cup {"multiblock"} \cup Whole
  PROVE  Goes(<<Do("recover")>>)
<1> DEFINE a == Do("recover")
           items == <<a>>
<1>1. a \in Items /\ a.op = "recover"
  BY DEF Do, Items, PlainOps, SilentOps, ReadingOps
<1>2. Expectable(a)
  BY <1>1 DEF Expectable
<1>3. \A b : Follows(Head(control), b) => Follows(a, b)
  BY <1>1, FitsAt DEF Whole
<1> HIDE DEF a
<1>4. items \in Seq(Items) /\ Len(items) = 1 /\ items[1] = a
  BY <1>1
<1>5. Shape(items)
  BY <1>2, ShapeOf
<1>6. Fits(items, Head(control))
  BY <1>3, <1>4 DEF Fits
<1>7. Goes(items)
  BY <1>4, <1>5, <1>6 DEF Goes, a
<1> QED BY <1>7 DEF a

LEMMA ExceptionForms ==
  ASSUME IInv, SilentInv,
         RecoverExpression \/ Unwind \/ CatchInExpression \/ CatchInMultiBlock
  PROVE  Diagnosing
<1>0. Do("recover").op = "recover"
  BY DEF Do
<1>1. CASE RecoverExpression
  <2>1. InCall /\ Head(control).op = "recover"
    BY <1>1, RunningInCall DEF RecoverExpression, Looking
  <2>2. Diagnosed
    <3>1. Len(control) >= 1 /\ control[1].op = "recover" /\ Len(control) \in Nat
      BY <2>1, EmptySeq, HeadTailProperties DEF IInv, Stack, InCall
    <3>2. Recovering(control)
      BY <3>1 DEF Recovering
    <3> QED BY <3>2 DEF SilentInv
  <2>3. UNCHANGED <<history, outcome>> /\ Diagnosed'
    <3>1. UNCHANGED <<history, outcome>>
      BY <1>1 DEF RecoverExpression, SkipToken, Take, Quiet, driver
    <3> QED BY <2>2, <3>1 DEF Diagnosed
  <2>4. CASE Continue(<< >>)
    BY <2>1, <2>3, <2>4, Drops DEF InCall
  <2>5. CASE Continue(<<Do("recover")>>)
    <3>1. Goes(<<Do("recover")>>)
      BY <2>1, <2>5, RecoverGoes DEF InCall, Marked, Whole
    <3>2. Faulty(<<Do("recover")>>)
      BY <1>0 DEF Faulty
    <3> QED BY <2>3, <3>1, <3>2 DEF Diagnosing
  <2> QED BY <1>1, <2>4, <2>5 DEF RecoverExpression, SkipToken, Take
<1>2. ASSUME thrown, UNCHANGED <<history, outcome>>
      PROVE  control # << >> /\ Diagnosed' /\ UNCHANGED outcome
  <2>1. control # << >>
    BY <1>2 DEF IInv, ThrownInv
  <2>2. Diagnosed
    BY <1>2 DEF SilentInv
  <2> QED BY <1>2, <2>1, <2>2 DEF Diagnosed
<1>3. CASE Unwind
  <2>1. thrown /\ thrown' = thrown /\ Continue(<< >>) /\ UNCHANGED <<history, outcome>>
    BY <1>3 DEF Unwind, driver
  <2> QED BY <1>2, <2>1, Drops
<1>4. CASE CatchInExpression
  <2>1. /\ thrown /\ Continue(<<Do("recover")>>) /\ UNCHANGED <<history, outcome>>
        /\ Head(control).op = "catch"
    BY <1>4 DEF CatchInExpression, Handle, driver
  <2>2. Goes(<<Do("recover")>>)
    BY <1>2, <2>1, RecoverGoes DEF Marked, Whole
  <2>3. Faulty(<<Do("recover")>>)
    BY <1>0 DEF Faulty
  <2> QED BY <1>2, <2>1, <2>2, <2>3 DEF Diagnosing
<1>5. CASE CatchInMultiBlock
  <2> DEFINE z == Blocks(Head(control).saved)
             items == <<Do("skipblock"), z>>
  <2>1. /\ thrown /\ Continue(items) /\ UNCHANGED <<history, outcome>>
        /\ Head(control).op = "blocks"
    BY <1>5 DEF CatchInMultiBlock, Handle, driver
  <2>2. Head(control).saved \in Trees
    BY <1>2, <2>1, HeadItem DEF Items, PlainOps, SilentOps, ReadingOps
  <2>3. z \in Work /\ z.op = "blocks" /\ Expectable(z)
    BY <2>2, OtherItems
  <2>4. \A b : Follows(Head(control), b) => Follows(z, b)
    BY <2>1, <2>3 DEF Follows, Whole
  <2> HIDE DEF z
  <2>5. Follows(Do("skipblock"), z) /\ Do("skipblock").op = "skipblock"
    BY <2>3 DEF Follows, Do, Whole
  <2>6. Word(items, Do("skipblock"), z)
    BY <2>3, <2>5, WorkItems, WordTwo
  <2> HIDE DEF items
  <2>7. items \in Seq(Items)
    <3>1. Work \subseteq Items
      BY DEF Work, Called
    <3> QED BY <2>6, <3>1, SeqMonotonic DEF Word
  <2>8. Goes(items)
    BY <1>2, <2>1, <2>4, <2>6, <2>7 DEF Goes, Fits, Word
  <2>9. Faulty(items)
    BY <2>5, <2>6 DEF Faulty, Word
  <2> QED BY <1>2, <2>1, <2>8, <2>9 DEF Diagnosing
<1> QED BY <1>1, <1>3, <1>4, <1>5

LEMMA UnexpectedForm ==
  ASSUME IInv, ParseUnexpected
  PROVE  Diagnosing
<1>1. InCall /\ Head(control).op = "body"
  BY RunningInCall DEF ParseUnexpected, Looking
<1>2. Continue(<<Semicolon>>) /\ UNCHANGED outcome /\ history' = history \cup {"reported"}
  BY DEF ParseUnexpected, DefaultCase, Report, driver
<1>3. Diagnosed'
  BY <1>2 DEF Diagnosed
<1>4. Semicolon \in Work /\ Semicolon.op = "expect" /\ Expectable(Semicolon)
  BY ExpectItems DEF Semicolon
<1>5. Word(<<Semicolon>>, Semicolon, Semicolon)
  BY <1>4, WordOne
<1>6. \A b : Follows(Head(control), b) => Follows(Semicolon, b)
  BY <1>1, <1>4, FitsAt DEF Marked, Whole
<1> DEFINE items == <<Semicolon>>
<1> HIDE DEF items
<1>7. items \in Seq(Items)
  <2>1. Work \subseteq Items
    BY DEF Work, Called
  <2> QED BY <1>5, <2>1, SeqMonotonic DEF Word, items
<1>8. Goes(items)
  BY <1>1, <1>2, <1>5, <1>6, <1>7 DEF Goes, Fits, Word, InCall, items
<1>9. Faulty(items)
  BY <1>4, <1>5 DEF Faulty, Word, items
<1> QED BY <1>2, <1>3, <1>8, <1>9 DEF Diagnosing

-----------------------------------------------------------------------------
(* What the steps keep of the call stack *)

LEMMA AfterTail ==
  ASSUME IInv, ShapeInv, control # << >>
  PROVE  /\ Head(control).op # "main" => Tail(control) # << >>
         /\ Tail(control) # << >> => Follows(Head(control), Head(Tail(control)))
         /\ Expectable(Head(control))
<1> DEFINE n == Len(control)
           t == Tail(control)
<1>1. /\ control \in Seq(Items) /\ n \in Nat \ {0}
      /\ t \in Seq(Items) /\ Len(t) = n - 1
      /\ \A i \in 1 .. n - 1 : t[i] = control[i + 1]
      /\ Head(control) = control[1]
  BY EmptySeq, HeadTailProperties DEF IInv, Stack
<1>2. ASSUME Head(control).op # "main"
      PROVE  t # << >>
  <2>1. << >> \in Seq(Called)
    BY EmptySeq
  <2>2. << >> \o t # << >>
    BY <1>2, <2>1, StackContinues DEF IInv
  <2> QED BY <2>2
<1>3. ASSUME t # << >>
      PROVE  Follows(Head(control), Head(t))
  <2>1. Len(t) \in Nat \ {0} /\ Head(t) = t[1]
    BY <1>1, <1>3, EmptySeq, HeadTailProperties
  <2> HIDE DEF t
  <2>2. 1 \in 1 .. n - 1
    BY <1>1, <2>1
  <2>3. t[1] = control[2]
    BY <1>1, <2>2
  <2>4. Follows(control[1], control[2])
    BY <2>2 DEF ShapeInv, Shape
  <2> QED BY <1>1, <2>1, <2>3, <2>4
<1>4. Expectable(Head(control))
  BY <1>1 DEF ShapeInv, Shape
<1> QED BY <1>2, <1>3, <1>4

LEMMA AfterGoes ==
  ASSUME IInv, ShapeInv, NEW items, Goes(items)
  PROVE  /\ ShapeInv'
         /\ items # << >> => control' # << >> /\ Head(control') = items[1]
         /\ items = << >> =>
              /\ Head(control).op # "main" => control' # << >>
              /\ control' # << >> => Follows(Head(control), Head(control'))
<1>1. control # << >> /\ control' = items \o Tail(control)
  BY DEF Goes, Continue
<1>2. control \in Seq(Items) /\ items \in Seq(Items) /\ Tail(control) \in Seq(Items)
  BY <1>1, HeadTailProperties DEF IInv, Stack, Goes
<1>3. ShapeInv'
  BY <1>1, <1>2, ShapeContinues DEF ShapeInv, Goes
<1>4. ASSUME items # << >>
      PROVE  control' # << >> /\ Head(control') = items[1]
  <2> DEFINE u == items \o Tail(control)
  <2>1. /\ Len(items) \in Nat \ {0} /\ Len(Tail(control)) \in Nat
        /\ u \in Seq(Items) /\ Len(u) = Len(items) + Len(Tail(control))
        /\ \A i \in 1 .. Len(items) + Len(Tail(control)) :
             u[i] = IF i <= Len(items) THEN items[i] ELSE Tail(control)[i - Len(items)]
    BY <1>2, <1>4, EmptySeq, LenProperties, ConcatProperties
  <2> HIDE DEF u
  <2>2. 1 \in 1 .. Len(items) + Len(Tail(control)) /\ 1 <= Len(items) /\ Len(u) # 0
    BY <2>1
  <2>3. u[1] = items[1] /\ u # << >>
    BY <2>1, <2>2, EmptySeq
  <2>4. Head(u) = u[1]
    BY <2>1, <2>3, HeadTailProperties
  <2> QED BY <1>1, <2>3, <2>4 DEF u
<1>5. ASSUME items = << >>
      PROVE  control' = Tail(control)
  BY <1>1, <1>2, <1>5
<1> QED BY <1>1, <1>3, <1>4, <1>5, AfterTail

LEMMA StillNotRecovering ==
  ASSUME IInv, NEW items, Goes(items), ~Recovering(items), ~Recovering(control)
  PROVE  ~Recovering(control')
<1> DEFINE k == Len(items)
           t == Tail(control)
           u == items \o t
           n == Len(control)
<1>1. /\ n \in Nat \ {0} /\ control' = u
      /\ t \in Seq(Items) /\ Len(t) = n - 1
      /\ \A i \in 1 .. n - 1 : t[i] = control[i + 1]
      /\ items \in Seq(Items) /\ k \in Nat
  BY EmptySeq, HeadTailProperties, LenProperties DEF IInv, Stack, Goes, Continue
<1>2. /\ Len(u) = k + (n - 1)
      /\ \A i \in 1 .. k + (n - 1) : u[i] = IF i <= k THEN items[i] ELSE t[i - k]
  BY <1>1, ConcatProperties
<1>3. /\ \A i \in 1 .. k : items[i].op # "recover"
      /\ \A i \in 1 .. n : control[i].op # "recover"
  BY DEF Recovering
<1> HIDE DEF k, t, u, n
<1>4. ASSUME NEW i \in 1 .. Len(u)
      PROVE  u[i].op # "recover"
  <2>0. i \in 1 .. k + (n - 1)
    BY <1>2
  <2>1. CASE i <= k
    <3>1. i \in 1 .. k /\ u[i] = items[i]
      BY <1>1, <1>2, <2>0, <2>1
    <3> QED BY <1>3, <3>1
  <2>2. CASE ~(i <= k)
    <3>1. i - k \in 1 .. n - 1 /\ (i - k) + 1 \in 1 .. n /\ u[i] = t[i - k]
      BY <1>1, <1>2, <2>0, <2>2
    <3>2. u[i] = control[(i - k) + 1]
      BY <1>1, <3>1
    <3> QED BY <1>3, <3>1, <3>2
  <2> QED BY <2>1, <2>2
<1> QED BY <1>1, <1>4 DEF Recovering

LEMMA OrdinaryKeeps ==
  ASSUME IInv, CallsInv, Ordinary, history \subseteq history'
  PROVE  CallsInv'
<1>1. PICK items : Goes(items) /\ Plainly(items)
  BY DEF Ordinary
<1>2. /\ ~thrown /\ ~thrown' /\ UNCHANGED <<tree, outcome>>
      /\ Head(control).op \notin Marked /\ control # << >>
  BY <1>1 DEF Ordinary, Goes
<1>3. Head(control).op # "main"
  BY <1>2 DEF Marked
<1>4. ShapeInv' /\ control' # << >>
  BY <1>1, <1>3, AfterGoes DEF CallsInv
<1>5. Head(control').op \notin Later
  <2>1. CASE items # << >>
    BY <1>1, <2>1, AfterGoes DEF Plainly, CallsInv
  <2>2. CASE items = << >>
    <3>1. Follows(Head(control), Head(control'))
      BY <1>1, <1>4, <2>2, AfterGoes DEF CallsInv
    <3>2. Head(control).op \notin Whole \cup {"multiblock"}
      BY <1>1, <2>2 DEF Plainly
    <3> QED BY <1>2, <3>1, <3>2 DEF Follows, Later, Marked
  <2> QED BY <2>1, <2>2
<1>6. ~At("visit")' /\ ~At("main")' /\ ~At("closefunction")'
  BY <1>5 DEF Later, At
<1>7. SilentInv'
  <2>1. SUFFICES ASSUME ~Diagnosed' PROVE SilentInv'
    BY DEF SilentInv
  <2>2. ~Diagnosed
    BY <2>1 DEF Diagnosed
  <2>3. ~Recovering(control')
    BY <1>1, <2>2, StillNotRecovering DEF CallsInv, SilentInv, Plainly
  <2>4. tree' \notin {"holed", "null"}
    BY <1>2, <2>2 DEF CallsInv, SilentInv, Marked, At
  <2> QED BY <1>2, <1>4, <1>6, <2>3, <2>4 DEF SilentInv
<1>8. CloseInv' /\ StoppedInv'
  BY <1>2, <1>6 DEF CloseInv, StoppedInv, CallsInv
<1> QED BY <1>4, <1>7, <1>8 DEF CallsInv

LEMMA DiagnosingKeeps ==
  ASSUME IInv, CallsInv, Diagnosing
  PROVE  CallsInv'
<1>1. PICK items : Goes(items) /\ Faulty(items)
  BY DEF Diagnosing
<1>2. Diagnosed' /\ UNCHANGED outcome /\ control # << >>
  BY <1>1 DEF Diagnosing, Goes
<1>3. ShapeInv'
  BY <1>1, AfterGoes DEF CallsInv
<1>4. SilentInv' /\ StoppedInv'
  BY <1>2 DEF SilentInv, StoppedInv, CallsInv
<1>5. CloseInv'
  <2>1. SUFFICES ASSUME At("closefunction")', ~thrown' PROVE FALSE
    BY DEF CloseInv
  <2>2. control' # << >> /\ Head(control').op = "closefunction"
    BY <2>1 DEF At
  <2>3. CASE items # << >>
    BY <1>1, <2>1, <2>2, <2>3, AfterGoes DEF Faulty, CallsInv
  <2>4. CASE items = << >>
    <3>1. Follows(Head(control), Head(control'))
      BY <1>1, <2>2, <2>4, AfterGoes DEF CallsInv
    <3>2. Head(control).op \notin {"multiblock", "blocks"}
      BY <1>1, <2>1, <2>4 DEF Faulty
    <3> QED BY <2>2, <3>1, <3>2 DEF Follows
  <2> QED BY <2>3, <2>4
<1> QED BY <1>3, <1>4, <1>5 DEF CallsInv

(* The steps that the invariant is about, one by one. *)

LEMMA LookaheadCalls ==
  ASSUME IInv, CallsInv, Lookahead
  PROVE  CallsInv'
<1>1. /\ ~thrown /\ control # << >> /\ Head(control).op \in ReadingOps /\ buffer = NoToken
      /\ UNCHANGED <<control, thrown, tree, outcome, history>>
  BY DEF Lookahead, Peek, Quiet, driver
<1>2. ~At("visit") /\ ~At("main") /\ ~At("closefunction")
  BY <1>1 DEF At, ReadingOps
<1>3. ~Diagnosed => tree \notin {"holed", "null"}
  BY <1>1, <1>2 DEF CallsInv, SilentInv, NoToken, EOF
<1>4. ~At("visit")' /\ ~At("main")' /\ ~At("closefunction")'
  BY <1>1, <1>2 DEF At
<1>5. Diagnosed' <=> Diagnosed
  BY <1>1 DEF Diagnosed
<1>6. SilentInv'
  BY <1>1, <1>3, <1>4, <1>5 DEF CallsInv, SilentInv
<1>7. ShapeInv' /\ CloseInv' /\ StoppedInv'
  BY <1>1, <1>4 DEF CallsInv, ShapeInv, CloseInv, StoppedInv
<1> QED BY <1>6, <1>7 DEF CallsInv

(* A call ends: what the stack looks like then. *)
LEMMA Ends ==
  ASSUME IInv, ShapeInv, control # << >>, Head(control).op # "main", Continue(<< >>)
  PROVE  /\ ShapeInv' /\ control' # << >> /\ control' = Tail(control)
         /\ Follows(Head(control), Head(control'))
         /\ ~Recovering(control) => ~Recovering(control')
<1>1. << >> \in Seq(Items) /\ Shape(<< >>) /\ Fits(<< >>, Head(control)) /\ ~Recovering(<< >>)
  BY EmptySeq, ShapeOf DEF Fits, Recovering
<1>2. Goes(<< >>)
  BY <1>1 DEF Goes
<1>3. control' = Tail(control)
  <2>1. Tail(control) \in Seq(Items)
    BY HeadTailProperties DEF IInv, Stack
  <2> QED BY <2>1 DEF Continue
<1> QED BY <1>1, <1>2, <1>3, AfterGoes, StillNotRecovering

LEMMA ExpectCalls ==
  ASSUME IInv, CallsInv, ExpectToken
  PROVE  CallsInv'
<1>1. InCall /\ Head(control).op = "expect" /\ buffer # NoToken /\ control # << >>
  BY RunningInCall DEF ExpectToken, Looking, InCall
<1>2. CASE RefuseConsumed
  BY <1>1, <1>2, Refuses, DiagnosingKeeps
<1>3. CASE buffer.kind = Head(control).kind /\ Take(<< >>)
  <2>1. /\ buffer' = NoToken /\ Continue(<< >>) /\ ~thrown'
        /\ UNCHANGED <<thrown, tree, outcome, history>>
    BY <1>1, <1>3 DEF Take, Consume, Quiet, driver, InCall
  <2>2. ShapeInv' /\ control' # << >> /\ Follows(Head(control), Head(control'))
        /\ (~Recovering(control) => ~Recovering(control'))
    BY <1>1, <2>1, Ends DEF CallsInv
  <2>3. Expectable(Head(control))
    BY <1>1, AfterTail DEF CallsInv
  <2>4. buffer.kind # EOF
    BY <1>1, <1>3, <2>3 DEF Expectable
  <2>5. ~Diagnosed => tree \notin {"holed", "null"}
    BY <1>1, <2>4 DEF CallsInv, SilentInv, At
  <2>6. Diagnosed' <=> Diagnosed
    BY <2>1 DEF Diagnosed
  <2>7. SilentInv'
    BY <1>1, <2>1, <2>2, <2>5, <2>6 DEF CallsInv, SilentInv, InCall
  <2>8. CloseInv' /\ StoppedInv'
    BY <1>1, <2>1, <2>2 DEF CallsInv, CloseInv, StoppedInv, At, Follows, InCall
  <2> QED BY <2>2, <2>7, <2>8 DEF CallsInv
<1> QED BY <1>2, <1>3 DEF ExpectToken

(* What main visits is what is left on the stack. *)
LEMMA VisitedByMain ==
  ASSUME NEW s, Stack(s), s # << >>, Head(s).op = "visit"
  PROVE  s = MainLoop
<1>1. s \in Seq(Items) /\ Len(s) \in Nat \ {0} /\ Head(s) = s[1]
  BY EmptySeq, HeadTailProperties DEF Stack
<1>2. 1 \in 1 .. Len(s)
  BY <1>1
<1>3. Len(s) = 2
  <2>1. 1 = Len(s) - 1
    BY <1>1, <1>2 DEF Stack
  <2> QED BY <1>1, <2>1
<1>4. s[2].op = "main" /\ s[1] \in Items /\ s[2] \in Items
  <2>1. 1 \in 1 .. Len(s) /\ 2 \in 1 .. Len(s) /\ 2 = Len(s)
    BY <1>3
  <2>2. s[2].op = "main"
    BY <2>1 DEF Stack
  <2>3. s[1] \in Items /\ s[2] \in Items
    BY <1>1, <2>1, ElementOfSeq
  <2> QED BY <2>2, <2>3
<1>5. \A item \in Items :
        /\ item.op = "visit" => item = Do("visit")
        /\ item.op = "main" => item = Do("main")
  BY DEF Items, Do, PlainOps, SilentOps, ReadingOps
<1>6. s[1] = Do("visit") /\ s[2] = Do("main")
  BY <1>1, <1>4, <1>5
<1>7. MainLoop \in Seq({s[1], s[2]}) /\ Len(MainLoop) = 2
      /\ MainLoop[1] = s[1] /\ MainLoop[2] = s[2]
  BY <1>6 DEF MainLoop
<1>8. \A i \in 1 .. Len(s) : s[i] = MainLoop[i]
  <2>1. \A i \in 1 .. Len(s) : i = 1 \/ i = 2
    BY <1>3
  <2> QED BY <1>7, <2>1
<1> QED BY <1>1, <1>3, <1>7, <1>8, SeqEqual

LEMMA EndOfFileCalls ==
  ASSUME IInv, CallsInv, BufferInv, ParseEndOfFile
  PROVE  CallsInv'
<1>1. InCall /\ Head(control).op = "body" /\ buffer # NoToken /\ buffer.kind = EOF /\ control # << >>
  BY RunningInCall DEF ParseEndOfFile, Looking, InCall
<1>2. /\ Continue(<< >>) /\ ~thrown' /\ UNCHANGED <<thrown, outcome, history, head, buffer>>
      /\ tree' = IF AtTopLevel THEN "null" ELSE "holed"
  BY <1>1 DEF ParseEndOfFile, NullBlock, Quiet, driver, stream, InCall
<1>3. buffer.text = EOF /\ head = EOF
  <2>1. EOF \in Keywords
    BY DEF Keywords
  <2> QED BY <1>1, <2>1 DEF BufferInv
<1>4. ShapeInv' /\ control' # << >> /\ Follows(Head(control), Head(control'))
      /\ (~Recovering(control) => ~Recovering(control')) /\ control' = Tail(control)
  BY <1>1, <1>2, Ends DEF CallsInv
<1>5. Head(control').op \in {"blocks", "visit"}
  BY <1>1, <1>4 DEF Follows, Whole
<1>6. Stack(control')
  <2>1. << >> \in Seq(Called)
    BY EmptySeq
  <2> QED BY <1>1, <1>2, <2>1, StackContinues DEF IInv, Continue
<1>7. CASE AtTopLevel
  <2>1. control' = MainLoop /\ tree' = "null"
    BY <1>2, <1>4, <1>7 DEF AtTopLevel
  <2>2. Head(control').op = "visit"
    BY <2>1 DEF MainLoop, Do
  <2>3. SilentInv'
    BY <1>1, <1>2, <1>3, <1>4, <2>1, <2>2 DEF CallsInv, SilentInv, At, Diagnosed, InCall
  <2>4. CloseInv' /\ StoppedInv'
    BY <1>1, <1>2, <2>2 DEF CallsInv, CloseInv, StoppedInv, At
  <2> QED BY <1>4, <2>3, <2>4 DEF CallsInv
<1>8. CASE ~AtTopLevel
  <2>1. control' # MainLoop /\ tree' = "holed"
    BY <1>2, <1>4, <1>8 DEF AtTopLevel
  <2>2. Head(control').op = "blocks"
    BY <1>4, <1>5, <1>6, <2>1, VisitedByMain
  <2>3. SilentInv'
    BY <1>1, <1>2, <1>4, <2>1, <2>2 DEF CallsInv, SilentInv, At, Diagnosed, InCall
  <2>4. CloseInv' /\ StoppedInv'
    BY <1>1, <1>2, <2>2 DEF CallsInv, CloseInv, StoppedInv, At
  <2> QED BY <1>4, <2>3, <2>4 DEF CallsInv
<1> QED BY <1>7, <1>8

(* The rest of an if, of a multi-block. *)
LEMMA GoesOn ==
  ASSUME IInv, CallsInv, InCall, NEW items, NEW a, NEW z, Word(items, a, z), Pass(items) \/ Take(items),
         a.op \notin Later, \A b : Follows(Head(control), b) => Follows(z, b),
         ~Diagnosed => tree \notin {"holed", "null"} \/ (a.op = "expect" /\ tree = "holed" /\ Pass(items))
  PROVE  CallsInv'
<1>1. Continue(items) /\ UNCHANGED <<thrown, tree, outcome, history>>
  BY TakeOrPass
<1>2. items \in Seq(Items) /\ ~Recovering(items)
  <2>1. Work \subseteq Items
    BY DEF Work, Called
  <2>2. items \in Seq(Items)
    BY <2>1, SeqMonotonic DEF Word
  <2>3. ~Recovering(items)
    BY ElementOfSeq DEF Recovering, Word, Work
  <2> QED BY <2>2, <2>3
<1>3. Goes(items)
  BY <1>1, <1>2 DEF Goes, Fits, Word, InCall
<1>4. ShapeInv' /\ control' # << >> /\ Head(control') = a
  BY <1>3, AfterGoes DEF CallsInv, Word
<1>5. ~At("visit")' /\ ~At("main")' /\ ~At("closefunction")' /\ ~thrown'
  BY <1>1, <1>4 DEF At, Later, InCall
<1>6. SilentInv'
  <2>1. SUFFICES ASSUME ~Diagnosed' PROVE SilentInv'
    BY DEF SilentInv
  <2>2. ~Diagnosed
    BY <1>1, <2>1 DEF Diagnosed
  <2>3. ~Recovering(control')
    BY <1>2, <1>3, <2>2, StillNotRecovering DEF CallsInv, SilentInv
  <2>4. tree' # "null"
    BY <1>1, <2>2
  <2>5. tree' = "holed" => At("expect")' /\ buffer'.kind = EOF
    <3>1. SUFFICES ASSUME tree' = "holed" PROVE At("expect")' /\ buffer'.kind = EOF
      OBVIOUS
    <3>2. a.op = "expect" /\ Pass(items) /\ tree = "holed"
      BY <1>1, <2>2, <3>1
    <3>3. buffer' = buffer /\ buffer.kind = EOF
      BY <2>2, <3>2 DEF Pass, stream, CallsInv, SilentInv
    <3> QED BY <1>4, <3>2, <3>3 DEF At
  <2> QED BY <1>4, <1>5, <2>3, <2>4, <2>5 DEF SilentInv
<1>7. CloseInv' /\ StoppedInv'
  BY <1>1, <1>4, <1>5 DEF CallsInv, CloseInv, StoppedInv, InCall
<1> QED BY <1>4, <1>6, <1>7 DEF CallsInv

LEMMA ElseCalls ==
  ASSUME IInv, CallsInv, ElseBranch
  PROVE  CallsInv'
<1>1. InCall /\ Head(control).op = "else" /\ buffer # NoToken
  BY RunningInCall DEF ElseBranch, Looking
<1>2. ~At("visit") /\ control # << >>
  BY <1>1 DEF At, InCall
<1>3. ~Diagnosed => tree # "null"
  BY <1>2 DEF CallsInv, SilentInv
<1>4. /\ Expect("fi") \in Work /\ Expect("fi").op = "expect" /\ Expectable(Expect("fi"))
      /\ Do("multiblock") \in Work /\ Do("multiblock").op = "multiblock" /\ Expectable(Do("multiblock"))
  BY WorkItems, ExpectItems
<1>5. \A b : Follows(Head(control), b) => Follows(Expect("fi"), b)
  BY <1>1, <1>4 DEF Follows, Whole
<1>6. "expect" \notin Later /\ "multiblock" \notin Later
  BY DEF Later
<1>7. CASE buffer.kind = "else" /\ Take(<<Do("multiblock"), Expect("fi")>>)
  <2>1. ~Diagnosed => tree # "holed"
    BY <1>7 DEF CallsInv, SilentInv, EOF
  <2>2. Follows(Do("multiblock"), Expect("fi"))
    BY <1>4 DEF Follows, Whole
  <2>3. Word(<<Do("multiblock"), Expect("fi")>>, Do("multiblock"), Expect("fi"))
    BY <1>4, <2>2, WordTwo
  <2> DEFINE items == <<Do("multiblock"), Expect("fi")>>
             a == Do("multiblock")
             z == Expect("fi")
  <2>4. /\ Word(items, a, z) /\ Take(items) /\ a.op \notin Later
        /\ \A b : Follows(Head(control), b) => Follows(z, b)
        /\ ~Diagnosed => tree \notin {"holed", "null"}
    BY <1>3, <1>4, <1>5, <1>6, <1>7, <2>1, <2>3
  <2> HIDE DEF items, a, z
  <2> QED BY <1>1, <2>4, GoesOn
<1>8. CASE Pass(<<Expect("fi")>>)
  <2> DEFINE a == Expect("fi")
             items == <<a>>
  <2>1. /\ Word(items, a, a) /\ Pass(items) /\ a.op \notin Later /\ a.op = "expect"
        /\ \A b : Follows(Head(control), b) => Follows(a, b)
    BY <1>4, <1>5, <1>6, <1>8, WordOne
  <2>2. tree \in Trees
    BY DEF IInv, FlagsInv
  <2>3. ~Diagnosed => tree \notin {"holed", "null"} \/ (a.op = "expect" /\ tree = "holed" /\ Pass(items))
    BY <1>3, <2>1, <2>2 DEF Trees
  <2> HIDE DEF items, a
  <2> QED BY <1>1, <2>1, <2>3, GoesOn
<1> QED BY <1>7, <1>8 DEF ElseBranch

LEMMA NextBlockCalls ==
  ASSUME IInv, CallsInv, NextBlock
  PROVE  CallsInv'
<1> DEFINE z == Blocks(tree)
<1>1. InCall /\ Head(control).op = "blocks" /\ ~IsEndMultiBlock(buffer.kind) /\ Pass(<<Do("block"), z>>)
  BY RunningInCall DEF NextBlock, Looking
<1>2. ~Diagnosed => tree \notin {"holed", "null"}
  BY <1>1 DEF CallsInv, SilentInv, IsEndMultiBlock, At, InCall
<1>3. /\ z \in Work /\ z.op = "blocks" /\ Expectable(z)
      /\ Do("block") \in Work /\ Do("block").op = "block" /\ Expectable(Do("block"))
  BY WorkItems, OtherItems DEF IInv, FlagsInv
<1> HIDE DEF z
<1>4. Follows(Do("block"), z) /\ \A b : Follows(Head(control), b) => Follows(z, b)
  BY <1>1, <1>3 DEF Follows, Whole
<1>5. Word(<<Do("block"), z>>, Do("block"), z)
  BY <1>3, <1>4, WordTwo
<1> DEFINE items == <<Do("block"), z>>
           a == Do("block")
<1>6. Word(items, a, z) /\ Pass(items) /\ a.op \notin Later
  BY <1>1, <1>3, <1>5 DEF Later
<1> HIDE DEF items, a
<1> QED BY <1>1, <1>2, <1>4, <1>6, GoesOn

(* The end of a multi-block, of a function. *)
LEMMA CloseCalls ==
  ASSUME IInv, CallsInv, CloseMultiBlock \/ CloseFunction
  PROVE  CallsInv'
<1>1. /\ InCall /\ control # << >>
      /\ \/ Head(control).op = "blocks" /\ IsEndMultiBlock(buffer.kind)
         \/ Head(control).op = "closefunction"
  BY RunningInCall DEF CloseMultiBlock, CloseFunction, Looking, InCall
<1>2. Continue(<< >>) /\ UNCHANGED <<thrown, tree, outcome, history, buffer, head>>
  BY DEF CloseMultiBlock, CloseFunction, Rescope, Quiet, driver, stream
<1>3. ShapeInv' /\ control' # << >> /\ Follows(Head(control), Head(control'))
      /\ (~Recovering(control) => ~Recovering(control'))
  BY <1>1, <1>2, Ends DEF CallsInv
<1>4. Head(control').op \in {"else", "closefunction", "expect"}
  BY <1>1, <1>3 DEF Follows
<1>5. Head(control').op = "closefunction" => IsEndMultiBlock(buffer.kind)
  BY <1>1, <1>3 DEF Follows
<1>6. SilentInv'
  BY <1>1, <1>2, <1>3, <1>4 DEF CallsInv, SilentInv, At, Diagnosed, InCall
<1>7. CloseInv' /\ StoppedInv'
  BY <1>1, <1>2, <1>5 DEF CallsInv, CloseInv, StoppedInv, At
<1> QED BY <1>3, <1>6, <1>7 DEF CallsInv

(* The loop of main. *)
LEMMA NextTopLevelCalls ==
  ASSUME IInv, CallsInv, NextTopLevelBlock
  PROVE  CallsInv'
<1> DEFINE items == <<Do("block")>> \o MainLoop
<1>1. /\ ~thrown /\ control # << >> /\ Head(control).op = "main"
      /\ \/ InputIsEmpty /\ Continue(<< >>)
         \/ Continue(items)
      /\ UNCHANGED <<head, buffer, thrown, tree, outcome, history>>
  BY DEF NextTopLevelBlock, Running, Pass, Quiet, stream, driver
<1>2. Tail(control) = << >>
  <2>1. Len(control) = 1
    BY <1>1, VisitOwners DEF IInv
  <2>2. Tail(control) \in Seq(Items) /\ Len(Tail(control)) = 0
    BY <1>1, <2>1, HeadTailProperties DEF IInv, Stack
  <2> QED BY <2>2, EmptySeq
<1>3. /\ ~Diagnosed => buffer = NoToken /\ tree \notin {"holed", "null"}
      /\ Diagnosed' <=> Diagnosed
  BY <1>1 DEF CallsInv, SilentInv, At, Diagnosed
<1>4. CASE InputIsEmpty /\ Continue(<< >>)
  <2>1. control' = << >>
    BY <1>2, <1>4 DEF Continue
  <2>2. ShapeInv' /\ ~Recovering(control') /\ ~At("visit")' /\ ~At("main")' /\ ~At("closefunction")'
    BY <2>1, ShapeOf DEF ShapeInv, Recovering, At
  <2>3. SilentInv'
    BY <1>1, <1>3, <1>4, <2>2 DEF SilentInv, InputIsEmpty, NoToken
  <2>4. CloseInv' /\ StoppedInv'
    BY <2>1, <2>2 DEF CloseInv, StoppedInv
  <2> QED BY <2>2, <2>3, <2>4 DEF CallsInv
<1>5. CASE Continue(items)
  <2> DEFINE u == <<Do("block"), Do("visit"), Do("main")>>
  <2>1. control' = u
    <3>1. control' = items \o << >>
      BY <1>2, <1>5, Zenon DEF Continue
    <3>2. items \o << >> = u
      BY ThreeItems, Zenon DEF MainLoop
    <3> QED BY <3>1, <3>2, Zenon
  <2>2. Do("block").op = "block" /\ Do("visit").op = "visit" /\ Do("main").op = "main"
    BY DEF Do
  <2>3. Shape(u)
    <3>1. Expectable(Do("block")) /\ Expectable(Do("visit")) /\ Expectable(Do("main"))
      BY <2>2 DEF Expectable
    <3>2. Follows(Do("block"), Do("visit")) /\ Follows(Do("visit"), Do("main"))
      BY <2>2 DEF Follows, Whole
    <3> QED BY <3>1, <3>2, ShapeOf
  <2>4. /\ Len(u) = 3 /\ u[1] = Do("block") /\ u[2] = Do("visit") /\ u[3] = Do("main")
        /\ u # << >> /\ Head(u) = Do("block")
    OBVIOUS
  <2>5. ~Recovering(u)
    <3>1. \A i \in 1 .. Len(u) : i = 1 \/ i = 2 \/ i = 3
      BY <2>4
    <3> QED BY <2>2, <2>4, <3>1 DEF Recovering
  <2> HIDE DEF u
  <2>6. ~At("visit")' /\ ~At("main")' /\ ~At("closefunction")' /\ control' # << >>
    BY <2>1, <2>2, <2>4 DEF At
  <2>7. SilentInv'
    BY <1>1, <1>3, <2>1, <2>5, <2>6 DEF SilentInv
  <2>8. ShapeInv' /\ CloseInv' /\ StoppedInv'
    BY <1>1, <2>1, <2>3, <2>6 DEF CallsInv, ShapeInv, CloseInv, StoppedInv
  <2> QED BY <2>7, <2>8 DEF CallsInv
<1> QED BY <1>1, <1>4, <1>5

LEMMA VisitCalls ==
  ASSUME IInv, CallsInv, Visit
  PROVE  CallsInv'
<1>1. InCall /\ Head(control).op = "visit" /\ control # << >> /\ tree # "null"
  BY RunningInCall DEF Visit, InCall
<1>2. Continue(<< >>) /\ tree' = "whole" /\ UNCHANGED <<thrown, outcome, history, buffer, head>>
  BY DEF Visit, Quiet, stream
<1>3. ShapeInv' /\ control' # << >> /\ Follows(Head(control), Head(control'))
      /\ (~Recovering(control) => ~Recovering(control'))
  BY <1>1, <1>2, Ends DEF CallsInv
<1>4. ~Diagnosed => buffer = NoToken
  BY <1>1 DEF CallsInv, SilentInv, At
<1>5. SilentInv'
  BY <1>1, <1>2, <1>3, <1>4 DEF CallsInv, SilentInv, Diagnosed, InCall
<1>6. CloseInv' /\ StoppedInv'
  BY <1>1, <1>2, <1>3 DEF CallsInv, CloseInv, StoppedInv, At, Follows
<1> QED BY <1>3, <1>5, <1>6 DEF CallsInv

(* The parser stops. *)
LEMMA StopCalls ==
  ASSUME IInv, CallsInv, VisitStops \/ BreakOnNull \/ CatchInMain \/ Finish
  PROVE  CallsInv'
<1>1. control' = << >> /\ UNCHANGED <<tree, history, buffer, head>> /\ ~thrown'
  <2>1. CASE VisitStops \/ BreakOnNull \/ CatchInMain
    BY <2>1 DEF VisitStops, BreakOnNull, CatchInMain, Running, Quiet, stream
  <2>2. CASE Finish
    BY <2>2 DEF Finish, Quiet, stream, IInv, ThrownInv, FlagsInv
  <2> QED BY <2>1, <2>2
<1>2. ShapeInv' /\ ~Recovering(control') /\ CloseInv' /\ StoppedInv'
  BY <1>1, ShapeOf DEF ShapeInv, Recovering, CloseInv, StoppedInv, At
<1>3. SilentInv'
  <2>1. SUFFICES ASSUME ~Diagnosed' PROVE SilentInv'
    BY DEF SilentInv
  <2>2. ~Diagnosed
    BY <1>1, <2>1 DEF Diagnosed
  <2>3. ~At("visit")' /\ ~At("main")'
    BY <1>1 DEF At
  <2>4. CASE VisitStops
    <3>1. Running("visit") /\ tree # "null" /\ outcome' \notin {"parsing", "codegen"}
      BY <2>4 DEF VisitStops
    <3>2. tree # "holed"
      BY <2>2, <3>1 DEF CallsInv, SilentInv, At, Running
    <3> QED BY <1>1, <1>2, <2>3, <3>1, <3>2 DEF SilentInv
  <2>5. CASE BreakOnNull
    <3>1. tree = "null" /\ buffer.text = EOF /\ head = EOF
      BY <2>2, <2>5 DEF BreakOnNull, CallsInv, SilentInv
    <3> QED BY <1>1, <1>2, <2>3, <3>1 DEF SilentInv
  <2>6. CASE CatchInMain
    BY <2>2, <2>6 DEF CatchInMain, CallsInv, SilentInv
  <2>7. CASE Finish
    <3>1. control = << >> /\ outcome = "parsing"
      BY <2>7 DEF Finish
    <3>2. /\ head = EOF /\ buffer.text = EOF
          /\ tree # "holed"
      BY <2>2, <3>1 DEF CallsInv, SilentInv, At
    <3> QED BY <1>1, <1>2, <2>3, <3>2 DEF SilentInv
  <2> QED BY <2>4, <2>5, <2>6, <2>7
<1> QED BY <1>2, <1>3 DEF CallsInv

LEMMA HistoryGrows == Next => history \subseteq history'
<1> SUFFICES ASSUME Next
             PROVE  history \subseteq history'
  OBVIOUS
<1>1. /\ Quiet \/ Report \/ Fail => history \subseteq history'
      /\ \A items : Take(items) \/ Pass(items) \/ Rescope(items) => history \subseteq history'
      /\ RefuseConsumed \/ RefuseUnread => history \subseteq history'
  BY DEF Quiet, Report, Fail, Take, Pass, Rescope, RefuseConsumed, RefuseUnread
<1>2. CASE TokenStep
  BY <1>1, <1>2 DEF TokenStep, Lookahead, ExpectToken, CheckToken, Skip
<1>3. CASE BlockStep
  BY <1>1, <1>3
  DEF BlockStep, ParseBlock, ParseIf, ParseFunction, ParsePragma, ParseGoto, ParseReturn,
      ParseVariableAssignment, ParseVariableDeclaration, Starts, ParseUnexpected, DefaultCase,
      ParseEndOfFile, PragmaTarget, ReturnValue, ElseBranch, OpenMultiBlock, NextBlock,
      CloseMultiBlock, SkipBlock
<1>4. CASE DeclarationStep
  <2>1. CASE Declarator \/ Initializer \/ DeclareVariable \/ CloseFunction \/ FunctionBody \/ ReturnType
    BY <1>1, <2>1 DEF Declarator, Initializer, DeclareVariable, CloseFunction, FunctionBody, ReturnType
  <2>2. CASE FunctionName \/ Parameters \/ Parameter \/ ParameterName
    BY <1>1, <2>2 DEF FunctionName, Parameters, Parameter, ParameterName
  <2>3. CASE ParseSeparator
    BY <1>1, <2>3 DEF ParseSeparator, Separate
  <2>4. CASE Prototype
    BY <2>4 DEF Prototype
  <2> QED BY <1>4, <2>1, <2>2, <2>3, <2>4 DEF DeclarationStep
<1>5. CASE ExpressionStep
  <2>1. CASE ParseUnary \/ ParseParenthesis \/ ParseFunctionCall \/ ParseCast \/ ParseIdentifier
    BY <1>1, <2>1 DEF ParseUnary, ParseParenthesis, ParseFunctionCall, ParseCast, ParseIdentifier, Operand
  <2>2. CASE ParseNumber
    BY <1>1, <2>2 DEF ParseNumber
  <2>3. CASE ParseOperators
    BY <1>1, <2>3 DEF ParseOperators
  <2>4. CASE Arguments \/ LeaveExpression
    BY <1>1, <2>4 DEF Arguments, LeaveExpression
  <2>5. CASE RecoverExpression
    BY <1>1, <2>5 DEF RecoverExpression, SkipToken
  <2> QED BY <1>5, <2>1, <2>2, <2>3, <2>4, <2>5 DEF ExpressionStep
<1>6. CASE ExceptionStep
  BY <1>6 DEF ExceptionStep, Unwind, CatchInExpression, CatchInMultiBlock, CatchInMain, Handle
<1>7. CASE DriverStep
  BY <1>1, <1>7 DEF DriverStep, NextTopLevelBlock, Visit, VisitStops, BreakOnNull, Finish
<1>8. CASE Finished
  BY <1>8 DEF Finished, vars
<1> QED BY <1>2, <1>3, <1>4, <1>5, <1>6, <1>7, <1>8 DEF Next

LEMMA NextCalls ==
  ASSUME IInv, ReadingInv, Next
  PROVE  CallsInv'
<1>1. CallsInv /\ BufferInv /\ SilentInv /\ history \subseteq history'
  BY HistoryGrows DEF ReadingInv, CallsInv, TokensInv
<1>2. Ordinary \/ Diagnosing => CallsInv'
  BY <1>1, OrdinaryKeeps, DiagnosingKeeps
<1>3. CASE TokenStep
  BY <1>1, <1>2, <1>3, LookaheadCalls, ExpectCalls, TokenForms DEF TokenStep
<1>4. CASE BlockStep
  <2>1. CASE \/ ParseBlock \/ ParseIf \/ ParseFunction \/ ParsePragma \/ ParseGoto \/ ParseReturn
             \/ ParseVariableAssignment \/ ParseVariableDeclaration
    BY <1>2, <2>1, StatementForms
  <2>2. CASE PragmaTarget \/ ReturnValue \/ SkipBlock \/ OpenMultiBlock
    BY <1>2, <2>2, BlockForms
  <2>3. CASE ParseUnexpected
    BY <1>2, <2>3, UnexpectedForm
  <2>4. CASE ParseEndOfFile \/ ElseBranch \/ NextBlock \/ CloseMultiBlock
    BY <1>1, <2>4, EndOfFileCalls, ElseCalls, NextBlockCalls, CloseCalls
  <2> QED BY <1>4, <2>1, <2>2, <2>3, <2>4 DEF BlockStep
<1>5. CASE DeclarationStep
  <2>1. CASE CloseFunction
    BY <1>1, <2>1, CloseCalls
  <2> QED BY <1>2, <1>5, <2>1, VariableForms, FunctionForms, ParameterForms DEF DeclarationStep
<1>6. CASE ExpressionStep
  BY <1>1, <1>2, <1>6, OperandForms, ExpressionForms, ExceptionForms DEF ExpressionStep
<1>7. CASE ExceptionStep
  BY <1>1, <1>2, <1>7, ExceptionForms, StopCalls DEF ExceptionStep
<1>8. CASE DriverStep
  BY <1>1, <1>8, NextTopLevelCalls, VisitCalls, StopCalls DEF DriverStep
<1>9. CASE Finished
  BY <1>1, <1>9
  DEF Finished, vars, stream, CallsInv, ShapeInv, SilentInv, CloseInv, StoppedInv, At, Diagnosed
<1> QED BY <1>3, <1>4, <1>5, <1>6, <1>7, <1>8, <1>9 DEF Next

-----------------------------------------------------------------------------
(* What the steps keep of the token read ahead *)

(* A step of something else than ts.get(): it does not expect a token.      *)
Elsewhere == thrown \/ control = << >> \/ Head(control).op # "expect"

LEMMA NotStale ==
  ASSUME TokensInv, Elsewhere, buffer # NoToken
  PROVE  buffer.kind = KindOf(buffer.text, scopes)
<1>1. Semicolon.op = "expect"
  BY DEF Semicolon, Expect
<1>2. ~(~thrown /\ control # << >> /\ Head(control) = Semicolon)
  BY <1>1 DEF Elsewhere
<1> QED BY <1>2 DEF TokensInv, FreshInv

LEMMA ConsumeTokens ==
  ASSUME Consume
  PROVE  TokensInv'
BY DEF Consume, TokensInv, BufferInv, FreshInv

(* A step that leaves the input and the scopes alone. *)
Aside == Elsewhere /\ UNCHANGED <<head, left, buffer, scopes>>

LEMMA AsideTokens ==
  ASSUME TokensInv, Aside
  PROVE  TokensInv'
<1>1. UNCHANGED <<head, left, buffer, scopes>>
  BY DEF Aside
<1>2. BufferInv'
  BY <1>1 DEF TokensInv, BufferInv
<1>3. buffer # NoToken => buffer.kind = KindOf(buffer.text, scopes)
  BY NotStale DEF Aside
<1>4. FreshInv'
  BY <1>1, <1>3 DEF FreshInv
<1> QED BY <1>2, <1>4 DEF TokensInv

LEMMA KeywordKind ==
  ASSUME NEW text, NEW stack
  PROVE  text \in Keywords => KindOf(text, stack) = text
BY DEF KindOf

(* A word that is no keyword never gets the kind of one. *)
LEMMA WordKind ==
  ASSUME NEW stack \in Seq(Scope), NEW text, text \notin Keywords
  PROVE  KindOf(text, stack) \notin Keywords
<1>1. /\ \A kind \in BoundKinds : kind \notin Keywords
      /\ "NUMBER" \notin Keywords /\ "IDENTIFIER" \notin Keywords
  BY DEF BoundKinds, Keywords, EOF
<1>2. CASE Resolve(stack, text) = Absent
  BY <1>1, <1>2 DEF KindOf
<1>3. CASE Resolve(stack, text) # Absent
  <2>1. Len(stack) \in Nat
    BY LenProperties
  <2>2. PICK i \in Binders(stack, text) : Resolve(stack, text) = stack[i][text]
    BY <1>3, <2>1, ResolveType
  <2>3. i \in 1 .. Len(stack) /\ text \in DOMAIN stack[i]
    BY DEF Binders
  <2>4. stack[i] \in Scope
    BY <2>3, ElementOfSeq
  <2>5. Resolve(stack, text) \in BoundKinds
    BY <2>2, <2>3, <2>4, ScopeUnfold
  <2>6. KindOf(text, stack) = Resolve(stack, text)
    BY <1>3 DEF KindOf
  <2> QED BY <1>1, <2>5, <2>6
<1> QED BY <1>2, <1>3

LEMMA LookaheadTokens ==
  ASSUME IInv, Lookahead
  PROVE  TokensInv'
<1>1. buffer' = [text |-> head, kind |-> KindOf(head, scopes)] /\ Advance /\ scopes' = scopes
  BY DEF Lookahead, Peek
<1>2. buffer'.text = head /\ buffer'.kind = KindOf(head, scopes)
  BY <1>1
<1>3. scopes \in Seq(Scope)
  BY DEF IInv, StreamInv
<1>4. BufferInv'
  <2>1. head = EOF => head' = EOF
    BY <1>1 DEF Advance
  <2>2. head \in Keywords => KindOf(head, scopes) = head
    BY KeywordKind
  <2>3. head \notin Keywords => KindOf(head, scopes) \notin Keywords
    BY <1>3, WordKind
  <2> QED BY <1>2, <2>1, <2>2, <2>3 DEF BufferInv
<1>5. FreshInv'
  BY <1>1, <1>2 DEF FreshInv
<1> QED BY <1>4, <1>5 DEF TokensInv

LEMMA ScopeTokens ==
  ASSUME IInv, ReadingInv,
         OpenMultiBlock \/ CloseMultiBlock \/ CloseFunction \/ DeclareVariable
  PROVE  TokensInv'
<1>0. TokensInv /\ CloseInv
  BY DEF ReadingInv, CallsInv
<1>1. UNCHANGED <<head, left, buffer>> /\ ~thrown /\ ~thrown'
  BY DEF OpenMultiBlock, CloseMultiBlock, CloseFunction, DeclareVariable, Rescope, Quiet,
         stream, Running, Looking
<1>2. BufferInv'
  BY <1>0, <1>1 DEF TokensInv, BufferInv
<1>3. CASE OpenMultiBlock
  <2>1. scopes' = EnterScope(scopes) /\ Elsewhere
    BY <1>3 DEF OpenMultiBlock, PushContext, Running, Elsewhere
  <2>2. scopes \in Seq(Scope)
    BY DEF IInv, StreamInv
  <2>3. \A text : Resolve(scopes', text) = Resolve(scopes, text)
    BY <2>1, <2>2, ResolveEnter
  <2>4. \A text : KindOf(text, scopes') = KindOf(text, scopes)
    BY <2>3 DEF KindOf
  <2>5. buffer # NoToken => buffer.kind = KindOf(buffer.text, scopes)
    BY <1>0, <2>1, NotStale
  <2>6. FreshInv'
    BY <1>1, <2>4, <2>5 DEF FreshInv
  <2> QED BY <1>2, <2>6 DEF TokensInv
<1>4. CASE CloseMultiBlock \/ CloseFunction
  <2>1. IsEndMultiBlock(buffer.kind)
    BY <1>0, <1>4 DEF CloseMultiBlock, CloseFunction, Running, CloseInv, At
  <2>2. buffer.kind \in Keywords
    BY <2>1 DEF IsEndMultiBlock, Keywords
  <2>3. buffer # NoToken => buffer.text \in Keywords /\ buffer.kind = buffer.text
    BY <1>0, <2>2 DEF TokensInv, BufferInv
  <2>4. FreshInv'
    BY <1>1, <2>3, KeywordKind DEF FreshInv
  <2> QED BY <1>2, <2>4 DEF TokensInv
<1>5. CASE DeclareVariable
  <2>1. control # << >> /\ control' = <<Semicolon>> \o Tail(control)
    BY <1>5 DEF DeclareVariable, Running, Rescope, AfterDeclaration, Continue
  <2>2. Semicolon \in Items
    BY ExpectItems DEF Semicolon, Work, Called
  <2>3. Tail(control) \in Seq(Items)
    BY <2>1, HeadTailProperties DEF IInv, Stack
  <2>4. control' # << >> /\ Head(control') = Semicolon
    BY <2>1, <2>2, <2>3
  <2>5. FreshInv'
    BY <1>1, <2>4 DEF FreshInv
  <2> QED BY <1>2, <2>5 DEF TokensInv
<1> QED BY <1>3, <1>4, <1>5

LEMMA NextTokens ==
  ASSUME IInv, ReadingInv, Next
  PROVE  TokensInv'
<1>0. TokensInv
  BY DEF ReadingInv
<1>1. Consume \/ Aside => TokensInv'
  BY <1>0, ConsumeTokens, AsideTokens
<1>2. /\ \A items : Take(items) => Consume
      /\ \A items : Pass(items) /\ Elsewhere => Aside
      /\ RefuseConsumed => Consume
      /\ RefuseUnread /\ Elsewhere => Aside
      /\ \A op : Running(op) /\ op # "expect" => Elsewhere
      /\ \A op : Looking(op) /\ op # "expect" => Elsewhere
      /\ UNCHANGED <<stream, scopes>> /\ Elsewhere => Aside
      /\ \A op, items : Handle(op, items) => Aside
  BY DEF Take, Pass, RefuseConsumed, RefuseUnread, Running, Looking, Elsewhere, Aside, stream, Handle
<1>3. CASE TokenStep
  <2>1. CASE Lookahead
    BY <2>1, LookaheadTokens
  <2>2. CASE ExpectToken \/ CheckToken \/ Skip
    BY <1>1, <1>2, <2>2 DEF ExpectToken, CheckToken, Skip
  <2> QED BY <1>3, <2>1, <2>2 DEF TokenStep
<1>4. CASE BlockStep
  <2>1. CASE \/ ParseBlock \/ ParseIf \/ ParseFunction \/ ParsePragma \/ ParseGoto \/ ParseReturn
             \/ ParseVariableAssignment \/ ParseVariableDeclaration
    BY <1>1, <1>2, <2>1
    DEF ParseBlock, ParseIf, ParseFunction, ParsePragma, ParseGoto, ParseReturn,
        ParseVariableAssignment, ParseVariableDeclaration, Starts
  <2>2. CASE PragmaTarget \/ ReturnValue \/ SkipBlock \/ ElseBranch \/ NextBlock
    BY <1>1, <1>2, <2>2 DEF PragmaTarget, ReturnValue, SkipBlock, ElseBranch, NextBlock
  <2>3. CASE ParseUnexpected \/ ParseEndOfFile
    BY <1>1, <1>2, <2>3 DEF ParseUnexpected, ParseEndOfFile
  <2>4. CASE OpenMultiBlock \/ CloseMultiBlock
    BY <2>4, ScopeTokens
  <2> QED BY <1>4, <2>1, <2>2, <2>3, <2>4 DEF BlockStep
<1>5. CASE DeclarationStep
  <2>1. CASE DeclareVariable \/ CloseFunction
    BY <2>1, ScopeTokens
  <2>2. CASE Declarator \/ Initializer \/ FunctionName \/ FunctionBody \/ ReturnType
    BY <1>1, <1>2, <2>2 DEF Declarator, Initializer, FunctionName, FunctionBody, ReturnType
  <2>3. CASE Parameters \/ Parameter \/ ParameterName
    BY <1>1, <1>2, <2>3 DEF Parameters, Parameter, ParameterName
  <2>4. CASE ParseSeparator
    BY <1>1, <1>2, <2>4 DEF ParseSeparator, Separate
  <2>5. CASE Prototype
    BY <1>1, <1>2, <2>5 DEF Prototype
  <2> QED BY <1>5, <2>1, <2>2, <2>3, <2>4, <2>5 DEF DeclarationStep
<1>6. CASE ExpressionStep
  <2>1. CASE ParseUnary \/ ParseParenthesis \/ ParseFunctionCall \/ ParseCast \/ ParseIdentifier
    BY <1>1, <1>2, <2>1 DEF ParseUnary, ParseParenthesis, ParseFunctionCall, ParseCast, ParseIdentifier, Operand
  <2>2. CASE ParseNumber
    BY <1>1, <2>2 DEF ParseNumber
  <2>3. CASE ParseOperators
    BY <1>1, <1>2, <2>3 DEF ParseOperators
  <2>4. CASE Arguments \/ LeaveExpression
    BY <1>1, <1>2, <2>4 DEF Arguments, LeaveExpression
  <2>5. CASE RecoverExpression
    BY <1>1, <1>2, <2>5 DEF RecoverExpression, SkipToken
  <2> QED BY <1>6, <2>1, <2>2, <2>3, <2>4, <2>5 DEF ExpressionStep
<1>7. CASE ExceptionStep
  BY <1>1, <1>2, <1>7
  DEF ExceptionStep, Unwind, CatchInExpression, CatchInMultiBlock, CatchInMain, Elsewhere
<1>8. CASE DriverStep
  BY <1>1, <1>2, <1>8
  DEF DriverStep, NextTopLevelBlock, Visit, VisitStops, BreakOnNull, Finish, Elsewhere
<1>9. CASE Finished
  BY <1>0, <1>9 DEF Finished, vars, stream, TokensInv, BufferInv, FreshInv
<1> QED BY <1>3, <1>4, <1>5, <1>6, <1>7, <1>8, <1>9 DEF Next

-----------------------------------------------------------------------------
(* The theorems *)

LEMMA ReadingInit == Init => ReadingInv
<1> SUFFICES ASSUME Init
             PROVE  ReadingInv
  OBVIOUS
<1>1. /\ control = <<Do("main")>> /\ thrown = FALSE /\ tree = "whole" /\ outcome = "parsing"
      /\ buffer = NoToken
  BY DEF Init, StreamInit
<1>2. Do("main").op = "main" /\ Head(control) = Do("main") /\ control # << >>
      /\ Len(control) = 1 /\ control[1] = Do("main")
  BY <1>1 DEF Do
<1>3. ShapeInv
  <2>1. Expectable(Do("main"))
    BY <1>2 DEF Expectable
  <2> QED BY <1>1, <2>1, ShapeOf DEF ShapeInv
<1>4. ~Recovering(control)
  BY <1>2 DEF Recovering
<1>5. SilentInv /\ CloseInv /\ StoppedInv /\ TokensInv
  BY <1>1, <1>2, <1>4 DEF SilentInv, CloseInv, StoppedInv, TokensInv, BufferInv, FreshInv, At
<1> QED BY <1>3, <1>5 DEF ReadingInv, CallsInv

LEMMA ReadingKeeps == IInv /\ ReadingInv /\ [Next]_vars => ReadingInv'
<1> SUFFICES ASSUME IInv, ReadingInv, [Next]_vars
             PROVE  ReadingInv'
  OBVIOUS
<1>1. CASE UNCHANGED vars
  BY <1>1 DEF vars, stream, ReadingInv, CallsInv, ShapeInv, SilentInv, CloseInv, StoppedInv,
              TokensInv, BufferInv, FreshInv, At, Diagnosed
<1>2. CASE Next
  BY <1>2, NextCalls, NextTokens DEF ReadingInv
<1> QED BY <1>1, <1>2

(* Whatever the source: every call finds under it the calls it returns to,  *)
(* a token read ahead has the type the scopes give its text unless a        *)
(* semicolon is expected, and as long as nothing was diagnosed a null node  *)
(* is in the tree only at the end of the source.                            *)
THEOREM ReadingInductive == Spec => []ReadingInv
BY ReadingInit, ReadingKeeps, Inductive, PTL DEF Spec

(* Whatever the source, a program that goes to code generation with no      *)
(* token reported and no literal out of range was read to its end, although *)
(* main stops at a null block without looking at what is left.              *)
THEOREM AcceptedIsRead == Spec => []AcceptedMeansAllRead
<1>1. ReadingInv => AcceptedMeansAllRead
  BY DEF ReadingInv, CallsInv, SilentInv, StoppedInv, AcceptedMeansAllRead, Diagnosed
<1> QED BY <1>1, ReadingInductive, PTL

(* Whatever the source, a token whose text got another type after it was    *)
(* read ahead is only ever compared with a semicolon, which it is not under *)
(* either type.                                                             *)
THEOREM StaleIsRejected == Spec => []StaleLookaheadRejected
<1>1. IInv /\ ReadingInv => StaleLookaheadRejected
  <2> SUFFICES ASSUME IInv, ReadingInv, buffer # NoToken,
                      buffer.kind # KindOf(buffer.text, scopes)
               PROVE  /\ control # << >> /\ Head(control) = Semicolon
                      /\ {buffer.kind, KindOf(buffer.text, scopes)} \cap Keywords = {}
    BY DEF StaleLookaheadRejected
  <2>1. BufferInv /\ control # << >> /\ Head(control) = Semicolon
    BY DEF ReadingInv, TokensInv, FreshInv
  <2>2. buffer.text \notin Keywords
    BY <2>1, KeywordKind DEF BufferInv
  <2>3. buffer.kind \notin Keywords
    BY <2>1, <2>2 DEF BufferInv
  <2>4. KindOf(buffer.text, scopes) \notin Keywords
    BY <2>2, WordKind DEF IInv, StreamInv
  <2> QED BY <2>1, <2>3, <2>4
<1> QED BY <1>1, Inductive, ReadingInductive, PTL

(* Whatever the source, a visitor meets a tree with a null node in it only  *)
(* after a token was reported or a literal overflowed.                      *)
THEOREM NullsAreDiagnosed == Spec => []NullOnlyAfterDiagnosis
<1>1. ReadingInv => NullOnlyAfterDiagnosis
  BY DEF ReadingInv, CallsInv, SilentInv, NullOnlyAfterDiagnosis, Diagnosed, Running, At
<1> QED BY <1>1, ReadingInductive, PTL
=============================================================================
