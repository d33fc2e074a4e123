-------------------------- MODULE ScopeStackProofs --------------------------
(***************************************************************************)
(* The laws of the scope stacks, for every stack of scopes and every key.  *)
(***************************************************************************)
EXTENDS ScopeStack, SequenceTheorems, WellFoundedInduction, TLAPS

(* A nonempty set of positions has a last one. *)
LEMMA LastPosition ==
  ASSUME NEW n \in Nat, NEW T \in SUBSET (1 .. n), T # {}
  PROVE  \E m \in T : \A j \in T : j <= m
<1> DEFINE R == OpToRel(<, Nat)
           U == {n - t : t \in T}
<1>1. IsWellFoundedOn(R, Nat)
  BY NatLessThanWellFounded
<1>2. U \subseteq Nat /\ U # {}
  <2>1. PICK t \in T : TRUE
    OBVIOUS
  <2>2. n - t \in U
    BY <2>1
  <2>3. \A u \in U : u \in Nat
    OBVIOUS
  <2> QED BY <2>2, <2>3
<1>3. \E x \in U : \A y \in U : ~ (<<y, x>> \in R)
  <2> HIDE DEF R, U
  <2> QED BY <1>1, <1>2, WFMin
<1>4. PICK x \in U : \A y \in U : ~ (y < x)
  BY <1>3, <1>2 DEF OpToRel
<1>5. PICK m \in T : x = n - m
  BY <1>4
<1>6. \A j \in T : j <= m
  BY <1>4, <1>5
<1> QED BY <1>6

(* The lookup finds the innermost scope that binds the key: if a scope      *)
(* binds it and none after does, that is the one that decides.              *)
LEMMA ResolveInnermost ==
  ASSUME NEW stack, NEW key, NEW i \in Binders(stack, key),
         Len(stack) \in Nat,
         \A j \in Binders(stack, key) : j <= i
  PROVE  Resolve(stack, key) = stack[i][key]
<1> DEFINE B == Binders(stack, key)
           c == CHOOSE m \in B : \A j \in B : j <= m
<1>1. c \in B /\ \A j \in B : j <= c
  OBVIOUS
<1>2. c <= i /\ i <= c
  BY <1>1
<1>3. c \in Int /\ i \in Int
  BY <1>1 DEF Binders
<1>4. c = i
  BY <1>2, <1>3
<1>5. Resolve(stack, key) = stack[c][key]
  BY DEF Resolve
<1> QED BY <1>4, <1>5

(* What a lookup returns is Absent or the value some scope gives the key.   *)
LEMMA ResolveType ==
  ASSUME NEW stack, NEW key, Len(stack) \in Nat
  PROVE  \/ Binders(stack, key) = {} /\ Resolve(stack, key) = Absent
         \/ \E i \in Binders(stack, key) : /\ \A j \in Binders(stack, key) : j <= i
                                           /\ Resolve(stack, key) = stack[i][key]
<1>1. CASE Binders(stack, key) = {}
  BY <1>1 DEF Resolve
<1>2. CASE Binders(stack, key) # {}
  <2>1. Binders(stack, key) \in SUBSET (1 .. Len(stack))
    BY DEF Binders
  <2>2. PICK i \in Binders(stack, key) : \A j \in Binders(stack, key) : j <= i
    BY <1>2, <2>1, LastPosition
  <2>3. Resolve(stack, key) = stack[i][key]
    BY <2>2, ResolveInnermost
  <2> QED BY <2>2, <2>3
<1> QED BY <1>1, <1>2

(* Two stacks in which the same positions bind the key, to the same values, *)
(* give the same answer.                                                    *)
LEMMA ResolveSame ==
  ASSUME NEW s, NEW t, NEW key, Len(s) \in Nat, Len(t) \in Nat,
         Binders(s, key) = Binders(t, key),
         \A i \in Binders(s, key) : s[i][key] = t[i][key]
  PROVE  Resolve(s, key) = Resolve(t, key)
<1>1. CASE Binders(s, key) = {}
  BY <1>1 DEF Resolve
<1>2. CASE Binders(s, key) # {}
  <2>1. PICK i \in Binders(s, key) : /\ \A j \in Binders(s, key) : j <= i
                                     /\ Resolve(s, key) = s[i][key]
    BY <1>2, ResolveType
  <2>2. Resolve(t, key) = t[i][key]
    BY <2>1, ResolveInnermost
  <2> QED BY <2>1, <2>2
<1> QED BY <1>1, <1>2

-----------------------------------------------------------------------------

(* pushContext changes no lookup. *)
THEOREM ResolveEnter ==
  ASSUME NEW S, NEW stack \in Seq(S), NEW key
  PROVE  Resolve(EnterScope(stack), key) = Resolve(stack, key)
<1> DEFINE pushed == EnterScope(stack)
<1>1. stack \in Seq(S \cup {EmptyScope})
  BY SeqMonotonic
<1>2. /\ Len(stack) \in Nat
      /\ Len(pushed) = Len(stack) + 1
      /\ \A i \in 1 .. Len(stack) : pushed[i] = stack[i]
      /\ pushed[Len(stack) + 1] = EmptyScope
  BY <1>1, LenProperties, AppendProperties DEF EnterScope
<1>3. DOMAIN EmptyScope = {}
  BY DEF EmptyScope
<1> HIDE DEF pushed
<1>4. Binders(pushed, key) = Binders(stack, key)
  BY <1>2, <1>3 DEF Binders
<1>5. \A i \in Binders(pushed, key) : pushed[i][key] = stack[i][key]
  BY <1>2, <1>4 DEF Binders
<1>6. Len(pushed) \in Nat
  BY <1>2
<1>7. Resolve(pushed, key) = Resolve(stack, key)
  BY <1>2, <1>4, <1>5, <1>6, ResolveSame
<1> QED BY <1>7 DEF pushed

(* The shape of a stack after addToken: the innermost scope is replaced.    *)
LEMMA AddToScopeShape ==
  ASSUME NEW S, NEW stack \in Seq(S), stack # << >>, NEW key, NEW value
  PROVE  /\ Len(AddToScope(stack, key, value)) = Len(stack)
         /\ \A i \in 1 .. Len(stack) :
              AddToScope(stack, key, value)[i] =
                IF i = Len(stack) THEN Bind(stack[Len(stack)], key, value) ELSE stack[i]
<1> DEFINE last == Len(stack)
           new == Bind(stack[last], key, value)
           added == AddToScope(stack, key, value)
<1>1. last \in 1 .. Len(stack)
  BY EmptySeq
<1>2. stack \in Seq(S \cup {new}) /\ new \in S \cup {new}
  BY SeqMonotonic
<1>3. added = [stack EXCEPT ![last] = new]
  BY DEF AddToScope
<1> HIDE DEF new, last, added
<1>4. /\ Len(added) = Len(stack)
      /\ \A j \in 1 .. Len(stack) : added[j] = IF j = last THEN new ELSE stack[j]
  BY ONLY <1>1, <1>2, <1>3, ExceptSeq
<1> QED BY <1>4 DEF new, last, added

LEMMA AddToScopeSeq ==
  ASSUME NEW S, NEW stack \in Seq(S), stack # << >>, NEW key, NEW value
  PROVE  AddToScope(stack, key, value) \in Seq(S \cup {Bind(stack[Len(stack)], key, value)})
<1> DEFINE last == Len(stack)
           new == Bind(stack[last], key, value)
           added == AddToScope(stack, key, value)
<1>1. last \in 1 .. Len(stack)
  BY EmptySeq
<1>2. stack \in Seq(S \cup {new}) /\ new \in S \cup {new}
  BY SeqMonotonic
<1>3. added = [stack EXCEPT ![last] = new]
  BY DEF AddToScope
<1> HIDE DEF new, last, added
<1>4. added \in Seq(S \cup {new})
  BY ONLY <1>1, <1>2, <1>3, ExceptSeq
<1> QED BY <1>4 DEF new, last, added

(* addToken decides the next lookup of its key, and of no other key.        *)
THEOREM ResolveAdd ==
  ASSUME NEW S, NEW stack \in Seq(S), stack # << >>, NEW key, NEW value, NEW other
  PROVE  Resolve(AddToScope(stack, key, value), other) =
           IF other = key THEN value ELSE Resolve(stack, other)
<1> DEFINE added == AddToScope(stack, key, value)
           last == Len(stack)
<1>1. /\ Len(added) = last
      /\ last \in Nat \ {0}
      /\ \A i \in 1 .. last - 1 : added[i] = stack[i]
      /\ added[last] = Bind(stack[last], key, value)
  <2>1. /\ Len(added) = Len(stack)
        /\ \A i \in 1 .. Len(stack) :
             added[i] = IF i = Len(stack) THEN Bind(stack[Len(stack)], key, value) ELSE stack[i]
    BY AddToScopeShape
  <2>2. Len(stack) \in Nat \ {0}
    BY EmptySeq
  <2> QED BY <2>1, <2>2
<1> HIDE DEF added
<1>2. DOMAIN added[last] = DOMAIN stack[last] \cup {key}
  BY <1>1 DEF Bind
<1>3. \A k \in DOMAIN added[last] :
        added[last][k] = IF k = key THEN value ELSE stack[last][k]
  BY <1>1 DEF Bind
<1>4. CASE other = key
  <2>1. last \in Binders(added, key)
    BY <1>1, <1>2 DEF Binders
  <2>2. \A j \in Binders(added, key) : j <= last
    BY <1>1 DEF Binders
  <2>3. Resolve(added, key) = added[last][key]
    BY <1>1, <2>1, <2>2, ResolveInnermost
  <2> QED BY <1>2, <1>3, <1>4, <2>3 DEF added
<1>5. CASE other # key
  <2>1. Binders(added, other) = Binders(stack, other)
    BY <1>1, <1>2, <1>5 DEF Binders
  <2>2. ASSUME NEW i \in Binders(added, other)
        PROVE  added[i][other] = stack[i][other]
    <3>1. i \in 1 .. last /\ other \in DOMAIN added[i]
      BY <1>1 DEF Binders
    <3>2. CASE i = last
      BY <1>3, <1>5, <3>1, <3>2
    <3>3. CASE i # last
      BY <1>1, <3>1, <3>3
    <3> QED BY <3>2, <3>3
  <2>3. Resolve(added, other) = Resolve(stack, other)
    BY <1>1, <2>1, <2>2, ResolveSame
  <2> QED BY <1>5, <2>3 DEF added
<1> QED BY <1>4, <1>5

(* Block scoping: opening a scope, declaring a name in it and closing it    *)
(* gives back the stack there was, whatever the name hid.                   *)
THEOREM ExitForgets ==
  ASSUME NEW S, NEW stack \in Seq(S), NEW key, NEW value
  PROVE  ExitScope(AddToScope(EnterScope(stack), key, value)) = stack
<1> DEFINE pushed == EnterScope(stack)
           T == S \cup {EmptyScope}
           U == T \cup {Bind(pushed[Len(pushed)], key, value)}
           added == AddToScope(pushed, key, value)
<1>1. stack \in Seq(T) /\ stack \in Seq(U)
  BY SeqMonotonic
<1>2. /\ pushed \in Seq(T)
      /\ pushed # << >>
      /\ Len(pushed) = Len(stack) + 1
      /\ Len(stack) \in Nat
      /\ \A i \in 1 .. Len(stack) : pushed[i] = stack[i]
  BY <1>1, LenProperties, AppendProperties DEF EnterScope
<1> HIDE DEF pushed
<1>3. /\ added \in Seq(U)
      /\ Len(added) = Len(stack) + 1
      /\ \A i \in 1 .. Len(stack) : added[i] = stack[i]
  <2> HIDE DEF T
  <2>1. added \in Seq(U)
    BY <1>2, AddToScopeSeq
  <2>2. /\ Len(added) = Len(pushed)
        /\ \A i \in 1 .. Len(pushed) :
             added[i] = IF i = Len(pushed) THEN Bind(pushed[Len(pushed)], key, value) ELSE pushed[i]
    BY <1>2, AddToScopeShape
  <2> QED BY <1>2, <2>1, <2>2
<1> HIDE DEF added, T, U
<1>4. \A i \in 1 .. Len(stack) : added[i] \in U
  BY <1>2, <1>3, ElementOfSeq
<1>5. /\ SubSeq(added, 1, Len(stack)) \in Seq(U)
      /\ Len(SubSeq(added, 1, Len(stack))) = Len(stack)
      /\ \A i \in 1 .. Len(stack) : SubSeq(added, 1, Len(stack))[i] = added[i]
  BY <1>2, <1>4, SubSeqProperties
<1>6. SubSeq(added, 1, Len(stack)) = stack
  BY <1>1, <1>3, <1>5, SeqEqual
<1>7. ExitScope(added) = SubSeq(added, 1, Len(stack))
  BY <1>2, <1>3 DEF ExitScope
<1> QED BY <1>6, <1>7 DEF added, pushed
=============================================================================
