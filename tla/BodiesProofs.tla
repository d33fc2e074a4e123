---------------------------- MODULE BodiesProofs ----------------------------
(***************************************************************************)
(* The type visitor on expressions against the rules of types, for every   *)
(* set of expressions: what it accepts has its type, what has its type is  *)
(* accepted unless an operator has a `not' below it.                       *)
(*                                                                         *)
(* Check, TypesOf and Within are recursive functions.  That there are      *)
(* functions that satisfy their equations follows from a lemma about any   *)
(* set with a height (RecursiveFunctionExists), and so does an induction   *)
(* over the height of an expression (ExpressionInduction).  A proof by it  *)
(* names the set of the expressions for which its claim holds.             *)
(*                                                                         *)
(* The walks of Bodies, for every set of types, names, expressions,        *)
(* statements and signatures and every length of a body: the type          *)
(* invariant, that the type visitor accepts just what has its type, that   *)
(* the code generator scopes names lexically, and that the widths in what  *)
(* it generates agree.                                                     *)
(*                                                                         *)
(* The inductive invariant, IInv, says of each item what it can be; of the *)
(* checker's stacks that they hold the declarations of the open branches,  *)
(* and of the generator's that the scope at each height holds, of each     *)
(* name, the last declaration in the branch open at that height (SlotsOK). *)
(***************************************************************************)
EXTENDS Bodies, ScopeStackProofs, ItemsProofs

(***************************************************************************)
(* The recursive definitions of TypeRules, unfolded.                       *)
(***************************************************************************)
Tall == [e \in Expressions |-> Height(e)]

LEMMA TallType == Tall \in [Expressions -> Nat] /\ \A e \in Expressions : Tall[e] = Height(e)
BY TypeRulesAssumption DEF Tall

LEMMA OperandsLower ==
  ASSUME NEW e \in Expressions
  PROVE  /\ e.op = "cast" => e.value \in Expressions /\ Tall[e.value] < Tall[e] /\ e.type \in Types
                             /\ Operands(e) = {e.value}
         /\ IsUnary(e) => e.right \in Expressions /\ Tall[e.right] < Tall[e] /\ Operands(e) = {e.right}
         /\ IsBinary(e) => /\ e.left \in Expressions /\ Tall[e.left] < Tall[e]
                           /\ e.right \in Expressions /\ Tall[e.right] < Tall[e]
                           /\ Operands(e) = {e.left, e.right}
         /\ e.op = "text" => e.name \in Names
         /\ e.op \in {"text", "number"} => Operands(e) = {}
         /\ e.op \in {"text", "number", "cast"} \/ IsUnary(e) \/ IsBinary(e)
<1>1. \A f \in Operands(e) : f \in Expressions /\ Height(f) < Height(e)
  BY TypeRulesAssumption
<1>2. \A f \in Operands(e) : f \in Expressions /\ Tall[f] < Tall[e]
  BY <1>1, TallType
<1>3. e.op = "cast" => Operands(e) = {e.value}
  BY DEF Operands, IsUnary, IsBinary
<1>4. IsUnary(e) => Operands(e) = {e.right}
  BY DEF Operands, IsUnary, IsBinary
<1>5. IsBinary(e) => Operands(e) = {e.left, e.right}
  BY DEF Operands, IsBinary, IsUnary
<1>6. e.op \in {"text", "number"} => Operands(e) = {}
  BY DEF Operands, IsBinary, IsUnary
<1>7. /\ e.op = "cast" => e.type \in Types
      /\ e.op = "text" => e.name \in Names
      /\ e.op \in {"text", "number", "cast"} \/ IsUnary(e) \/ IsBinary(e)
  BY TypeRulesAssumption DEF IsUnary, IsBinary
<1> QED BY <1>2, <1>3, <1>4, <1>5, <1>6, <1>7

LEMMA ExpressionInduction ==
  ASSUME NEW T, \A e \in Expressions : Operands(e) \subseteq T => e \in T
  PROVE  Expressions \subseteq T
<1>1. ASSUME NEW e \in Expressions, \A f \in Expressions : Tall[f] < Tall[e] => f \in T
      PROVE  e \in T
  <2>1. \A f \in Operands(e) : f \in Expressions /\ Tall[f] < Tall[e]
    BY TypeRulesAssumption, TallType
  <2> QED BY <2>1, <1>1
<1> QED BY <1>1, TallType, HeightInduction

LEMMA WithinUnfold ==
  /\ Within \in [Expressions -> SUBSET Expressions]
  /\ \A e \in Expressions : Within[e] = {e} \cup UNION {Within[f] : f \in Operands(e)}
<1> DEFINE V == SUBSET Expressions
           step(f) == [e \in Expressions |-> {e} \cup UNION {f[g] : g \in Operands(e)}]
           F == [f \in [Expressions -> V] |-> step(f)]
<1>1. \A e \in Expressions : \A g \in Operands(e) : g \in Expressions /\ Tall[g] < Tall[e]
  BY TypeRulesAssumption, TallType
<1>2. ASSUME NEW f \in [Expressions -> V] PROVE step(f) \in [Expressions -> V] /\ F[f] = step(f)
  <2>1. ASSUME NEW e \in Expressions PROVE {e} \cup UNION {f[g] : g \in Operands(e)} \in V
    BY <1>1
  <2> QED BY <2>1
<1>3. ASSUME NEW f \in [Expressions -> V], NEW h \in [Expressions -> V], NEW e \in Expressions,
             \A y \in Expressions : Tall[y] < Tall[e] => f[y] = h[y]
      PROVE  F[f][e] = F[h][e]
  <2>1. \A g \in Operands(e) : f[g] = h[g]
    BY <1>1, <1>3
  <2>2. {f[g] : g \in Operands(e)} = {h[g] : g \in Operands(e)}
    BY <2>1
  <2> QED BY <2>2, <1>2
<1>4. Recursive(Expressions, V, Tall, F)
  <2>1. F \in [[Expressions -> V] -> [Expressions -> V]]
    BY <1>2
  <2> HIDE DEF F, V
  <2> QED BY <2>1, <1>3 DEF Recursive
<1>5. PICK f \in [Expressions -> V] : f = F[f]
  <2> {} \in V
    OBVIOUS
  <2> HIDE DEF F, V
  <2> QED BY <1>4, TallType, RecursiveFunctionExists
<1>6. f = step(f)
  BY <1>5, <1>2
<1>7. Within = step(Within)
  BY <1>6 DEF Within
<1>8. Within \in [Expressions -> V]
  <2> DEFINE T == {e \in Expressions : Within[e] \in V}
  <2>1. ASSUME NEW e \in Expressions, Operands(e) \subseteq T PROVE e \in T
    <3>1. Within[e] = {e} \cup UNION {Within[g] : g \in Operands(e)}
      BY <1>7
    <3> QED BY <3>1, <2>1
  <2>2. Expressions \subseteq T
    <3> HIDE DEF T
    <3> QED BY <2>1, ExpressionInduction
  <2> QED BY <2>2, <1>7
<1> QED BY <1>7, <1>8

Results ==
  [type : Hints, last : Hints, hint : Hints, ends : {"normally", "error", "abort"}, about : SUBSET Expressions]

(* The names that are bound are bound to types.                             *)
TypedNames(typings) ==
  \A n \in Names : Binders(typings, n) # {} => Resolve(typings, n).type \in Types

Checked(e, hinted, typings) ==
  /\ Check(e, hinted, typings) \in Results
  /\ e.op = "text" => Check(e, hinted, typings) = TextType(e, hinted, typings)
  /\ e.op = "number" => Check(e, hinted, typings) = NumberType(hinted)
  /\ e.op = "cast" => Check(e, hinted, typings) = CastType(e, Check(e.value, Number, typings))
  /\ e.op = "not" => Check(e, hinted, typings) = NotType(e, Check(e.right, Bool, typings))
  /\ e.op = "minus" => Check(e, hinted, typings) = MinusType(e, Check(e.right, hinted, typings))
  /\ IsBinary(e) =>
       Check(e, hinted, typings) =
         BinaryType(e, Check(e.left, Number, typings),
                    Check(e.right, Check(e.left, Number, typings).hint, typings), hinted)

LEMMA CollideType ==
  ASSUME NEW a \in Hints, NEW b \in Hints
  PROVE  /\ Collide(a, b) = Absent \/ Collide(a, b) \in Hints
         /\ Absent \notin Hints
         /\ Collide(a, b) # Absent => Collide(a, b) \in {a, b}
         /\ Collide(a, Number) = a /\ Collide(Number, b) = b /\ Collide(a, a) = a
<1>1. Absent \notin Hints
  BY TypeRulesAssumption DEF Hints, Absent, Number, NoType
<1> QED BY <1>1 DEF Collide

LEMMA HintsType == Bool \in Hints /\ Number \in Hints /\ NoType \in Hints /\ Types \subseteq Hints
BY TypeRulesAssumption DEF Hints

LEMMA ResultTypes ==
  ASSUME NEW e \in Expressions, NEW hinted \in Hints, NEW typings, TypedNames(typings),
         NEW left \in Results, NEW right \in Results
  PROVE  /\ e.op = "text" => TextType(e, hinted, typings) \in Results
         /\ NumberType(hinted) \in Results
         /\ e.op = "cast" => CastType(e, left) \in Results
         /\ NotType(e, left) \in Results
         /\ MinusType(e, left) \in Results
         /\ IsBinary(e) => BinaryType(e, left, right, hinted) \in Results
<1> USE HintsType
<1>0. /\ \A nodes \in SUBSET Expressions : TypeError(nodes) \in Results
      /\ NoValue \in Results
      /\ \A t, l, h \in Hints : Visited(t, l, h) \in Results
  BY DEF TypeError, NoValue, Visited, Results
<1>1. left.type \in Hints /\ left.last \in Hints /\ left.hint \in Hints
  BY DEF Results
<1>2. right.type \in Hints /\ right.last \in Hints /\ right.hint \in Hints
  BY DEF Results
<1>3. e.op = "text" => TextType(e, hinted, typings) \in Results
  <2>1. e.op = "text" /\ Binders(typings, e.name) # {} => Resolve(typings, e.name).type \in Hints
    BY OperandsLower DEF TypedNames
  <2> QED BY <2>1, <1>0 DEF TextType
<1>4. NumberType(hinted) \in Results
  BY <1>0, CollideType DEF NumberType
<1>5. e.op = "cast" => CastType(e, left) \in Results
  BY <1>0, <1>1, OperandsLower DEF CastType
<1>6. NotType(e, left) \in Results
  BY <1>0, <1>1 DEF NotType
<1>7. MinusType(e, left) \in Results
  <2>1. Collide(left.last, left.hint) = Absent \/ Collide(left.last, left.hint) \in Hints
    BY <1>1, CollideType
  <2> QED BY <2>1, <1>0, <1>1 DEF MinusType
<1>8. IsBinary(e) => BinaryType(e, left, right, hinted) \in Results
  <2> SUFFICES ASSUME IsBinary(e) PROVE BinaryType(e, left, right, hinted) \in Results
    OBVIOUS
  <2>1. {e.left, e.right} \in SUBSET Expressions /\ {e} \in SUBSET Expressions
    BY OperandsLower
  <2>2. LogicalType(e, left, right) \in Results
    BY <2>1, <1>0, <1>2 DEF LogicalType
  <2>3. ComparisonType(e, left, right) \in Results
    BY <2>1, <1>0, <1>2 DEF ComparisonType
  <2>4. ArithmeticType(e, left, right, hinted) \in Results
    <3> DEFINE t == Collide(left.type, right.type)
               b == Collide(t, hinted)
    <3>1. t = Absent \/ t \in Hints
      BY <1>1, <1>2, CollideType
    <3>2. t # Absent => b = Absent \/ b \in Hints
      BY <3>1, CollideType
    <3> HIDE DEF t, b
    <3>3. ArithmeticType(e, left, right, hinted) =
            IF t = Absent THEN TypeError({e.left, e.right})
            ELSE IF b = Absent THEN TypeError({e})
            ELSE Visited(b, b, right.hint)
      BY DEF ArithmeticType, t, b
    <3> QED BY <3>1, <3>2, <3>3, <2>1, <1>0, <1>2
  <2> QED BY <2>2, <2>3, <2>4 DEF BinaryType, IsBinary
<1> QED BY <1>3, <1>4, <1>5, <1>6, <1>7, <1>8

LEMMA CheckNodeCases ==
  ASSUME NEW e, NEW hinted, NEW typings, NEW check
  PROVE  /\ e.op = "text" => CheckNode(e, hinted, typings, check) = TextType(e, hinted, typings)
         /\ e.op = "number" => CheckNode(e, hinted, typings, check) = NumberType(hinted)
         /\ e.op = "cast" => CheckNode(e, hinted, typings, check) = CastType(e, check[e.value][Number])
         /\ e.op = "not" => CheckNode(e, hinted, typings, check) = NotType(e, check[e.right][Bool])
         /\ e.op = "minus" => CheckNode(e, hinted, typings, check) = MinusType(e, check[e.right][hinted])
         /\ IsBinary(e) =>
              CheckNode(e, hinted, typings, check) =
                BinaryType(e, check[e.left][Number], check[e.right][check[e.left][Number].hint], hinted)
<1>1. e.op = "text" => CheckNode(e, hinted, typings, check) = TextType(e, hinted, typings)
  BY DEF CheckNode, IsBinary
<1>2. e.op = "number" => CheckNode(e, hinted, typings, check) = NumberType(hinted)
  BY DEF CheckNode, IsBinary
<1>3. e.op = "cast" => CheckNode(e, hinted, typings, check) = CastType(e, check[e.value][Number])
  BY DEF CheckNode, IsBinary
<1>4. e.op = "not" => CheckNode(e, hinted, typings, check) = NotType(e, check[e.right][Bool])
  BY DEF CheckNode, IsBinary
<1>5. e.op = "minus" => CheckNode(e, hinted, typings, check) = MinusType(e, check[e.right][hinted])
  BY DEF CheckNode, IsBinary
<1>6. IsBinary(e) =>
        CheckNode(e, hinted, typings, check) =
          BinaryType(e, check[e.left][Number], check[e.right][check[e.left][Number].hint], hinted)
  BY DEF CheckNode, IsBinary
<1> QED BY <1>1, <1>2, <1>3, <1>4, <1>5, <1>6

(* The visit of a node depends on the visits of its operands only.          *)
LEMMA CheckNodeLocal ==
  ASSUME NEW e \in Expressions, NEW hinted, NEW typings, NEW f, NEW g,
         \A o \in Operands(e) : f[o] = g[o]
  PROVE  CheckNode(e, hinted, typings, f) = CheckNode(e, hinted, typings, g)
<1>1. /\ e.op = "cast" => f[e.value] = g[e.value]
      /\ IsUnary(e) => f[e.right] = g[e.right]
      /\ IsBinary(e) => f[e.left] = g[e.left] /\ f[e.right] = g[e.right]
  BY OperandsLower
<1>2. CASE e.op \in {"text", "number"}
  BY <1>2, CheckNodeCases
<1>3. CASE e.op = "cast"
  BY <1>3, <1>1, CheckNodeCases
<1>4. CASE IsUnary(e)
  BY <1>4, <1>1, CheckNodeCases DEF IsUnary
<1>5. CASE IsBinary(e)
  BY <1>5, <1>1, CheckNodeCases
<1> QED BY <1>2, <1>3, <1>4, <1>5, OperandsLower

LEMMA CheckNodeType ==
  ASSUME NEW e \in Expressions, NEW hinted \in Hints, NEW typings, TypedNames(typings),
         NEW f, \A o \in Operands(e) : f[o] \in [Hints -> Results]
  PROVE  CheckNode(e, hinted, typings, f) \in Results
<1> USE HintsType
<1>1. \A o \in Operands(e) : \A h \in Hints : f[o][h] \in Results
  OBVIOUS
<1>2. \A r \in Results : r.hint \in Hints
  BY DEF Results
<1>. TypeError({}) \in Results
  BY DEF TypeError, Results
<1>3. CASE e.op = "text"
  <2>1. TextType(e, hinted, typings) \in Results
    BY <1>3, ResultTypes
  <2> QED BY <1>3, <2>1, CheckNodeCases
<1>4. CASE e.op = "number"
  <2>1. PICK r \in Results : TRUE
    OBVIOUS
  <2>2. NumberType(hinted) \in Results
    BY <2>1, ResultTypes
  <2>3. CheckNode(e, hinted, typings, f) = NumberType(hinted)
    BY <1>4, CheckNodeCases
  <2> QED BY <2>2, <2>3
<1>5. CASE e.op = "cast"
  <2>1. f[e.value][Number] \in Results
    BY <1>5, <1>1, OperandsLower
  <2>2. CastType(e, f[e.value][Number]) \in Results
    BY <1>5, <2>1, ResultTypes
  <2> QED BY <1>5, <2>2, CheckNodeCases
<1>6. CASE e.op = "not"
  <2>1. f[e.right][Bool] \in Results
    BY <1>6, <1>1, OperandsLower DEF IsUnary
  <2>2. NotType(e, f[e.right][Bool]) \in Results
    BY <2>1, ResultTypes
  <2> QED BY <1>6, <2>2, CheckNodeCases
<1>7. CASE e.op = "minus"
  <2>1. f[e.right][hinted] \in Results
    BY <1>7, <1>1, OperandsLower DEF IsUnary
  <2>2. MinusType(e, f[e.right][hinted]) \in Results
    BY <2>1, ResultTypes
  <2> QED BY <1>7, <2>2, CheckNodeCases
<1>8. CASE IsBinary(e)
  <2> DEFINE left  == f[e.left][Number]
             right == f[e.right][left.hint]
  <2>1. left \in Results /\ left.hint \in Hints
    BY <1>8, <1>1, <1>2, OperandsLower
  <2>2. right \in Results
    <3> HIDE DEF left
    <3> QED BY <1>8, <2>1, <1>1, OperandsLower
  <2>3. CheckNode(e, hinted, typings, f) = BinaryType(e, left, right, hinted)
    BY <1>8, CheckNodeCases
  <2> HIDE DEF left, right
  <2> QED BY <1>8, <2>1, <2>2, <2>3, ResultTypes
<1>9. \/ e.op = "text" \/ e.op = "number" \/ e.op = "cast"
      \/ e.op = "not" \/ e.op = "minus" \/ IsBinary(e)
  BY ONLY OperandsLower, e \in Expressions DEF IsUnary
<1> QED BY <1>3, <1>4, <1>5, <1>6, <1>7, <1>8, <1>9, Zenon

LEMMA CheckUnfold ==
  ASSUME NEW typings, TypedNames(typings)
  PROVE  \A e \in Expressions : \A hinted \in Hints : Checked(e, hinted, typings)
<1> DEFINE V == [Hints -> Results]
           row(f, e) == [hinted \in Hints |-> CheckNode(e, hinted, typings, f)]
           step(f) == [e \in Expressions |-> row(f, e)]
           F == [f \in [Expressions -> V] |-> step(f)]
           check == CHOOSE check : check = [e \in Expressions |-> [hinted \in Hints |-> CheckNode(e, hinted, typings, check)]]
<1>0. \A e \in Expressions : \A o \in Operands(e) : o \in Expressions /\ Tall[o] < Tall[e]
  BY TypeRulesAssumption, TallType
<1>1. ASSUME NEW f, NEW e \in Expressions, \A o \in Operands(e) : f[o] \in V
      PROVE  row(f, e) \in V
  BY <1>1, CheckNodeType
<1>2. ASSUME NEW f \in [Expressions -> V] PROVE step(f) \in [Expressions -> V] /\ F[f] = step(f)
  <2>1. \A e \in Expressions : \A o \in Operands(e) : f[o] \in V
    <3> HIDE DEF V
    <3> QED BY <1>0
  <2> HIDE DEF row, V
  <2> QED BY <1>1, <2>1
<1>3. ASSUME NEW f \in [Expressions -> V], NEW g \in [Expressions -> V], NEW e \in Expressions,
             \A y \in Expressions : Tall[y] < Tall[e] => f[y] = g[y]
      PROVE  F[f][e] = F[g][e]
  <2>1. \A o \in Operands(e) : f[o] = g[o]
    <3> HIDE DEF V
    <3> QED BY <1>0, <1>3
  <2>2. ASSUME NEW hinted \in Hints
        PROVE  CheckNode(e, hinted, typings, f) = CheckNode(e, hinted, typings, g)
    BY <2>1, CheckNodeLocal
  <2>3. row(f, e) = row(g, e)
    BY <2>2
  <2>4. F[f] = step(f) /\ F[g] = step(g)
    <3> HIDE DEF F, V, step
    <3> QED BY <1>2
  <2>5. step(f)[e] = row(f, e) /\ step(g)[e] = row(g, e)
    OBVIOUS
  <2> HIDE DEF F, V, row, step
  <2> QED BY <2>3, <2>4, <2>5
<1>4. Recursive(Expressions, V, Tall, F)
  <2>1. F \in [[Expressions -> V] -> [Expressions -> V]]
    <3> HIDE DEF V, step
    <3> QED BY <1>2
  <2> HIDE DEF F, V
  <2> QED BY <2>1, <1>3 DEF Recursive
<1>5. PICK f \in [Expressions -> V] : f = F[f]
  <2> [hinted \in Hints |-> TypeError({})] \in V
    <3> TypeError({}) \in Results
      BY HintsType DEF TypeError, Results
    <3> QED OBVIOUS
  <2> HIDE DEF F, V
  <2> QED BY <1>4, TallType, RecursiveFunctionExists
<1>6. f = step(f)
  <2> HIDE DEF F, V, step
  <2> QED BY <1>5, <1>2
<1>7. check = step(check)
  BY <1>6
<1>8. ASSUME NEW e \in Expressions, NEW hinted \in Hints PROVE Check(e, hinted, typings) = check[e][hinted]
  BY DEF Check
<1> HIDE DEF check
<1>9. ASSUME NEW e \in Expressions, NEW hinted \in Hints PROVE check[e][hinted] = CheckNode(e, hinted, typings, check)
  BY <1>7
<1>10. check \in [Expressions -> V]
  <2> DEFINE T == {e \in Expressions : check[e] \in V}
  <2>1. ASSUME NEW e \in Expressions, Operands(e) \subseteq T PROVE e \in T
    <3>1. row(check, e) \in V
      <4> HIDE DEF V, row
      <4> QED BY <2>1, <1>1
    <3>2. check[e] = row(check, e)
      <4> HIDE DEF V, row
      <4> QED BY <1>7
    <3> HIDE DEF V, row
    <3> QED BY <3>1, <3>2
  <2>2. Expressions \subseteq T
    <3> HIDE DEF T
    <3> QED BY <2>1, ExpressionInduction
  <2>3. check = [e \in Expressions |-> check[e]]
    <3> HIDE DEF row
    <3> QED BY <1>7
  <2> HIDE DEF V
  <2> QED BY <2>2, <2>3
<1>11. ASSUME NEW e \in Expressions, NEW hinted \in Hints PROVE Checked(e, hinted, typings)
  <2>1. Check(e, hinted, typings) \in Results
    BY <1>8, <1>10
  <2>2. Check(e, hinted, typings) = CheckNode(e, hinted, typings, check)
    BY <1>8, <1>9
  <2>3. /\ e.op = "text" => Check(e, hinted, typings) = TextType(e, hinted, typings)
        /\ e.op = "number" => Check(e, hinted, typings) = NumberType(hinted)
    BY <2>2, CheckNodeCases
  <2>5. e.op = "cast" => Check(e, hinted, typings) = CastType(e, Check(e.value, Number, typings))
    <3> SUFFICES ASSUME e.op = "cast" PROVE Check(e, hinted, typings) = CastType(e, check[e.value][Number])
      BY <1>8, HintsType, OperandsLower
    <3> QED BY <2>2, CheckNodeCases
  <2>6. e.op = "not" => Check(e, hinted, typings) = NotType(e, Check(e.right, Bool, typings))
    <3> SUFFICES ASSUME e.op = "not" PROVE Check(e, hinted, typings) = NotType(e, check[e.right][Bool])
      BY <1>8, HintsType, OperandsLower DEF IsUnary
    <3> QED BY <2>2, CheckNodeCases
  <2>7. e.op = "minus" => Check(e, hinted, typings) = MinusType(e, Check(e.right, hinted, typings))
    <3> SUFFICES ASSUME e.op = "minus" PROVE Check(e, hinted, typings) = MinusType(e, check[e.right][hinted])
      BY <1>8, HintsType, OperandsLower DEF IsUnary
    <3> QED BY <2>2, CheckNodeCases
  <2>8. IsBinary(e) =>
          Check(e, hinted, typings) =
            BinaryType(e, Check(e.left, Number, typings),
                       Check(e.right, Check(e.left, Number, typings).hint, typings), hinted)
    <3> SUFFICES ASSUME IsBinary(e)
                 PROVE  Check(e, hinted, typings) =
                          BinaryType(e, Check(e.left, Number, typings),
                            Check(e.right, Check(e.left, Number, typings).hint, typings), hinted)
      OBVIOUS
    <3> DEFINE left == check[e.left][Number]
    <3>1. e.left \in Expressions /\ e.right \in Expressions
      BY OperandsLower
    <3>2. Check(e.left, Number, typings) = left /\ left \in Results /\ left.hint \in Hints
      <4>1. left \in Results
        BY <3>1, HintsType, <1>10
      <4> QED BY <3>1, <4>1, HintsType, <1>8 DEF Results
    <3>3. Check(e.right, left.hint, typings) = check[e.right][left.hint]
      <4> HIDE DEF left
      <4> QED BY <3>1, <3>2, <1>8
    <3>4. CheckNode(e, hinted, typings, check) = BinaryType(e, left, check[e.right][left.hint], hinted)
      BY CheckNodeCases
    <3> HIDE DEF left
    <3> QED BY <2>2, <3>2, <3>3, <3>4
  <2> QED BY <2>1, <2>3, <2>5, <2>6, <2>7, <2>8 DEF Checked
<1> QED BY <1>11

Typed(e, declared) ==
  /\ TypesOf(e, declared) \subseteq Types
  /\ e.op = "number" => TypesOf(e, declared) = Types
  /\ e.op = "text" => TypesOf(e, declared) = {declared[e.name]} \cap Types
  /\ e.op = "cast" => TypesOf(e, declared) = IF TypesOf(e.value, declared) = {} THEN {} ELSE {e.type}
  /\ e.op = "not" => TypesOf(e, declared) = TypesOf(e.right, declared) \cap {Bool}
  /\ e.op = "minus" => TypesOf(e, declared) = TypesOf(e.right, declared)
  /\ e.op = "arithmetic" => TypesOf(e, declared) = TypesOf(e.left, declared) \cap TypesOf(e.right, declared)
  /\ e.op = "logical" =>
       TypesOf(e, declared) = TypesOf(e.left, declared) \cap TypesOf(e.right, declared) \cap {Bool}
  /\ e.op = "comparison" =>
       TypesOf(e, declared) =
         IF TypesOf(e.left, declared) \cap TypesOf(e.right, declared) = {} THEN {} ELSE {Bool}

LEMMA TypesUnfold ==
  ASSUME NEW declared
  PROVE  \A e \in Expressions : Typed(e, declared)
<1> DEFINE V == SUBSET Types
           step(f) == [e \in Expressions |-> TypesFrom(e, declared, f)]
           F == [f \in [Expressions -> V] |-> step(f)]
           types == CHOOSE types : types = [e \in Expressions |-> TypesFrom(e, declared, types)]
<1>0. \A e \in Expressions : \A o \in Operands(e) : o \in Expressions /\ Tall[o] < Tall[e]
  BY TypeRulesAssumption, TallType
<1>1. ASSUME NEW f, NEW e \in Expressions, \A o \in Operands(e) : f[o] \in V
      PROVE  TypesFrom(e, declared, f) \in V
  <2>1. /\ e.op = "cast" => f[e.value] \in V /\ e.type \in Types
        /\ IsUnary(e) => f[e.right] \in V
        /\ IsBinary(e) => f[e.left] \in V /\ f[e.right] \in V
        /\ e.op \in {"text", "number", "cast"} \/ IsUnary(e) \/ IsBinary(e)
    BY <1>1, OperandsLower
  <2> QED BY <2>1, TypeRulesAssumption DEF TypesFrom, IsUnary, IsBinary
<1>2. ASSUME NEW f \in [Expressions -> V] PROVE step(f) \in [Expressions -> V] /\ F[f] = step(f)
  <2>1. \A e \in Expressions : \A o \in Operands(e) : f[o] \in V
    <3> HIDE DEF V
    <3> QED BY <1>0
  <2> HIDE DEF V
  <2> QED BY <1>1, <2>1
<1>3. ASSUME NEW f, NEW g, NEW e \in Expressions, \A o \in Operands(e) : f[o] = g[o]
      PROVE  TypesFrom(e, declared, f) = TypesFrom(e, declared, g)
  <2>1. /\ e.op = "cast" => f[e.value] = g[e.value]
        /\ IsUnary(e) => f[e.right] = g[e.right]
        /\ IsBinary(e) => f[e.left] = g[e.left] /\ f[e.right] = g[e.right]
        /\ e.op \in {"text", "number", "cast"} \/ IsUnary(e) \/ IsBinary(e)
    BY <1>3, OperandsLower
  <2> QED BY <2>1 DEF TypesFrom, IsUnary, IsBinary
<1>4. Recursive(Expressions, V, Tall, F)
  <2>1. F \in [[Expressions -> V] -> [Expressions -> V]]
    <3> HIDE DEF V, step
    <3> QED BY <1>2
  <2>2. ASSUME NEW f \in [Expressions -> V], NEW g \in [Expressions -> V], NEW e \in Expressions,
               \A y \in Expressions : Tall[y] < Tall[e] => f[y] = g[y]
        PROVE  F[f][e] = F[g][e]
    <3>1. \A o \in Operands(e) : f[o] = g[o]
      <4> HIDE DEF V
      <4> QED BY <1>0, <2>2
    <3>2. TypesFrom(e, declared, f) = TypesFrom(e, declared, g)
      BY <3>1, <1>3
    <3>3. F[f] = step(f) /\ F[g] = step(g)
      <4> HIDE DEF F, V, step
      <4> QED BY <1>2
    <3> HIDE DEF F, V
    <3> QED BY <3>2, <3>3
  <2> HIDE DEF F, V
  <2> QED BY <2>1, <2>2 DEF Recursive
<1>5. PICK f \in [Expressions -> V] : f = F[f]
  <2> {} \in V
    OBVIOUS
  <2> HIDE DEF F, V
  <2> QED BY <1>4, TallType, RecursiveFunctionExists
<1>6. f = step(f)
  <2> HIDE DEF F, V, step
  <2> QED BY <1>5, <1>2
<1>7. types = step(types)
  BY <1>6
<1>8. \A e : TypesOf(e, declared) = types[e]
  BY DEF TypesOf
<1> HIDE DEF types
<1>9. \A e \in Expressions : types[e] = TypesFrom(e, declared, types)
  BY <1>7
<1>10. \A e \in Expressions : types[e] \in V
  <2> DEFINE T == {e \in Expressions : types[e] \in V}
  <2>1. ASSUME NEW e \in Expressions, Operands(e) \subseteq T PROVE e \in T
    <3>1. TypesFrom(e, declared, types) \in V
      <4> HIDE DEF V
      <4> QED BY <2>1, <1>1
    <3> HIDE DEF V
    <3> QED BY <3>1, <1>9
  <2>2. Expressions \subseteq T
    <3> HIDE DEF T
    <3> QED BY <2>1, ExpressionInduction
  <2> QED BY <2>2
<1>11. ASSUME NEW e \in Expressions PROVE Typed(e, declared)
  <2>1. types[e] = TypesFrom(e, declared, types)
    BY <1>9
  <2>2. types[e] \subseteq Types
    BY <1>10
  <2>3. /\ e.op = "number" => types[e] = Types
        /\ e.op = "text" => types[e] = {declared[e.name]} \cap Types
        /\ e.op = "cast" => types[e] = IF types[e.value] = {} THEN {} ELSE {e.type}
    BY <2>1 DEF TypesFrom
  <2>4. /\ e.op = "not" => types[e] = types[e.right] \cap {Bool}
        /\ e.op = "minus" => types[e] = types[e.right]
    BY <2>1 DEF TypesFrom
  <2>5. /\ e.op = "arithmetic" => types[e] = types[e.left] \cap types[e.right]
        /\ e.op = "logical" => types[e] = types[e.left] \cap types[e.right] \cap {Bool}
        /\ e.op = "comparison" => types[e] = IF types[e.left] \cap types[e.right] = {} THEN {} ELSE {Bool}
    BY <2>1 DEF TypesFrom
  <2> QED BY <1>8, <2>2, <2>3, <2>4, <2>5 DEF Typed
<1> QED BY <1>11

(***************************************************************************)
(* What is within an expression.                                           *)
(***************************************************************************)
LEMMA WithinFacts ==
  ASSUME NEW e \in Expressions
  PROVE  /\ e \in Within[e] /\ Within[e] \subseteq Expressions
         /\ \A f \in Operands(e) : Within[f] \subseteq Within[e] /\ f \in Within[e] /\ f \in Expressions
         /\ \A op : HasOp(e, op) <=> e.op = op \/ \E f \in Operands(e) : HasOp(f, op)
         /\ \A f \in Operands(e) : NamesIn(f) \subseteq NamesIn(e)
         /\ e.op = "text" => e.name \in NamesIn(e)
         /\ NamesIn(e) \subseteq Names
<1>1. Within[e] = {e} \cup UNION {Within[f] : f \in Operands(e)} /\ Within[e] \subseteq Expressions
  BY WithinUnfold
<1>2. \A f \in Operands(e) : f \in Expressions
  BY TypeRulesAssumption
<1>3. \A f \in Operands(e) : Within[f] \subseteq Within[e] /\ f \in Within[f]
  BY <1>1, <1>2, WithinUnfold
<1>4. \A op : HasOp(e, op) <=> e.op = op \/ \E f \in Operands(e) : HasOp(f, op)
  BY <1>1 DEF HasOp
<1>5. \A f \in Operands(e) : NamesIn(f) \subseteq NamesIn(e)
  BY <1>3 DEF NamesIn
<1>6. e.op = "text" => e.name \in NamesIn(e)
  BY <1>1 DEF NamesIn
<1>7. NamesIn(e) \subseteq Names
  BY <1>1, OperandsLower DEF NamesIn
<1> QED BY <1>1, <1>2, <1>3, <1>4, <1>5, <1>6, <1>7

(***************************************************************************)
(* What the visitor accepts has its type.                                  *)
(***************************************************************************)
(* A type that was found, against the types there are: a literal may still  *)
(* be anything, and a `not' says nothing.                                   *)
Good(types, x) ==
  \/ x \in types
  \/ x = Number /\ types = Types
  \/ x = NoType /\ Bool \in types

LEMMA GoodFacts ==
  /\ Bool \in Types /\ Number \notin Types /\ NoType \notin Types /\ Absent \notin Types
  /\ Number # NoType /\ Number # Absent /\ NoType # Absent
  /\ \A types \in SUBSET Types : \A x : Good(types, x) => types # {}
  /\ \A types \in SUBSET Types : \A x \in Types : Good(types, x) => x \in types
  /\ \A x \in Types \cup {Number} : Good(Types, x)
<1>1. /\ Bool \in Types /\ Number \notin Types /\ NoType \notin Types /\ Absent \notin Types
      /\ Number # NoType /\ Number # Absent /\ NoType # Absent
  BY TypeRulesAssumption DEF Number, NoType, Absent
<1> QED BY <1>1 DEF Good

LEMMA GoodCollide ==
  ASSUME NEW L \in SUBSET Types, NEW R \in SUBSET Types, NEW a, NEW b,
         Good(L, a), Good(R, b), Collide(a, b) # Absent
  PROVE  Good(L \cap R, Collide(a, b))
<1> USE GoodFacts
<1>1. CASE a = b
  BY <1>1 DEF Good, Collide
<1>2. CASE a # b /\ a = Number
  <2>1. L = Types
    BY <1>2 DEF Good
  <2>2. L \cap R = R /\ Collide(a, b) = b
    BY <2>1, <1>2 DEF Collide
  <2> QED BY <2>2
<1>3. CASE a # b /\ b = Number
  <2>1. R = Types
    BY <1>3 DEF Good
  <2>2. L \cap R = L /\ Collide(a, b) = a
    BY <2>1, <1>3 DEF Collide
  <2> QED BY <2>2
<1>4. a = b \/ a = Number \/ b = Number
  BY DEF Collide
<1> QED BY <1>1, <1>2, <1>3, <1>4

(* A visit that ends normally leaves types that the expression may have, or *)
(* "number" if it may have any.                                             *)
Sound(types, r) ==
  r.ends = "normally" => r.hint \in Types \cup {Number} /\ Good(types, r.type) /\ Good(types, r.last)

(* The names in an expression that are bound have their declared type.      *)
DeclaredNames(e, typings, declared) ==
  \A n \in NamesIn(e) : Binders(typings, n) # {} => Resolve(typings, n).type = declared[n]

LEMMA SoundText ==
  ASSUME NEW e \in Expressions, e.op = "text", NEW typings, NEW declared, TypedNames(typings),
         DeclaredNames(e, typings, declared), NEW h \in Types \cup {Number}
  PROVE  Sound(TypesOf(e, declared), Check(e, h, typings))
<1>1. e.name \in NamesIn(e) /\ e.name \in Names
  BY WithinFacts, OperandsLower
<1>2. Check(e, h, typings) = TextType(e, h, typings)
  BY CheckUnfold DEF Checked, Hints
<1>3. TypesOf(e, declared) = {declared[e.name]} \cap Types
  BY TypesUnfold DEF Typed
<1>4. CASE Binders(typings, e.name) = {}
  BY <1>4, <1>2 DEF Sound, TextType, NoValue
<1>5. CASE Binders(typings, e.name) # {}
  <2>1. Resolve(typings, e.name).type \in TypesOf(e, declared)
    BY <1>5, <1>1, <1>3 DEF TypedNames, DeclaredNames
  <2> QED BY <2>1, <1>5, <1>2 DEF Sound, TextType, Visited, Good
<1> QED BY <1>4, <1>5

(* Whatever hinted the visit before has left.                                 *)
LEMMA CheckSound ==
  ASSUME NEW typings, NEW declared, TypedNames(typings)
  PROVE  \A e \in Expressions : DeclaredNames(e, typings, declared) =>
           \A h \in Types \cup {Number} : Sound(TypesOf(e, declared), Check(e, h, typings))
<1> DEFINE T == {e \in Expressions : DeclaredNames(e, typings, declared) =>
                   \A h \in Types \cup {Number} : Sound(TypesOf(e, declared), Check(e, h, typings))}
<1> USE HintsType, GoodFacts
<1>1. ASSUME NEW e \in Expressions, Operands(e) \subseteq T PROVE e \in T
  <2> SUFFICES ASSUME DeclaredNames(e, typings, declared), NEW h \in Types \cup {Number}
               PROVE  Sound(TypesOf(e, declared), Check(e, h, typings))
    OBVIOUS
  <2> DEFINE types == TypesOf(e, declared)
             r == Check(e, h, typings)
  <2> SUFFICES Sound(types, r)
    OBVIOUS
  <2>0. h \in Hints /\ Checked(e, h, typings) /\ Typed(e, declared)
    BY CheckUnfold, TypesUnfold DEF Hints
  <2>1. ASSUME NEW o \in Operands(e), NEW k \in Types \cup {Number}
        PROVE  Sound(TypesOf(o, declared), Check(o, k, typings)) /\ TypesOf(o, declared) \subseteq Types
    <3>1. DeclaredNames(o, typings, declared)
      BY WithinFacts DEF DeclaredNames
    <3>2. o \in Expressions
      BY WithinFacts
    <3> QED BY <3>1, <3>2, <1>1, TypesUnfold DEF Typed
  <2> HIDE DEF T
  <2>2. CASE e.op = "text"
    BY <2>2, SoundText
  <2>3. CASE e.op = "number"
    <3>1. types = Types /\ r = NumberType(h)
      BY <2>3, <2>0 DEF Checked, Typed
    <3>2. Collide(Number, h) = h
      BY DEF Collide
    <3> QED BY <3>1, <3>2 DEF NumberType, Visited, Sound
  <2>4. CASE e.op = "cast"
    <3> DEFINE v == Check(e.value, Number, typings)
    <3>1. e.value \in Operands(e) /\ e.type \in Types
      BY <2>4, OperandsLower
    <3>2. Sound(TypesOf(e.value, declared), v) /\ TypesOf(e.value, declared) \subseteq Types
      BY <3>1, <2>1
    <3>3. r = CastType(e, v) /\ types = IF TypesOf(e.value, declared) = {} THEN {} ELSE {e.type}
      BY <2>4, <2>0 DEF Checked, Typed
    <3>4. CASE v.ends # "normally"
      BY <3>4, <3>3 DEF CastType, Sound
    <3>5. CASE v.ends = "normally"
      <4>1. v.hint \in Types \cup {Number} /\ TypesOf(e.value, declared) # {}
        BY <3>5, <3>2 DEF Sound
      <4>2. types = {e.type} /\ r = Visited(e.type, e.type, v.hint)
        BY <4>1, <3>3, <3>5 DEF CastType
      <4> HIDE DEF v, r, types
      <4> QED BY <4>1, <4>2 DEF Visited, Sound, Good
    <3> QED BY <3>4, <3>5
  <2>5. CASE e.op = "not"
    <3> DEFINE v == Check(e.right, Bool, typings)
    <3>1. e.right \in Operands(e)
      BY <2>5, OperandsLower DEF IsUnary
    <3>2. Sound(TypesOf(e.right, declared), v) /\ TypesOf(e.right, declared) \subseteq Types
      BY <3>1, <2>1
    <3>3. r = NotType(e, v) /\ types = TypesOf(e.right, declared) \cap {Bool}
      BY <2>5, <2>0 DEF Checked, Typed
    <3>4. CASE v.ends # "normally"
      BY <3>4, <3>3 DEF NotType, Sound
    <3>5. CASE v.ends = "normally" /\ v.last # Bool
      BY <3>5, <3>3 DEF NotType, TypeError, Sound
    <3>6. CASE v.ends = "normally" /\ v.last = Bool
      <4>1. v.hint \in Types \cup {Number} /\ Bool \in TypesOf(e.right, declared)
        BY <3>6, <3>2 DEF Sound
      <4>2. types = {Bool} /\ r = Visited(NoType, Bool, v.hint)
        BY <4>1, <3>3, <3>6 DEF NotType
      <4> HIDE DEF v, r, types
      <4> QED BY <4>1, <4>2 DEF Visited, Sound, Good
    <3> QED BY <3>4, <3>5, <3>6
  <2>6. CASE e.op = "minus"
    <3> DEFINE v == Check(e.right, h, typings)
               c == Collide(v.last, v.hint)
    <3>1. e.right \in Operands(e)
      BY <2>6, OperandsLower DEF IsUnary
    <3>2. Sound(TypesOf(e.right, declared), v) /\ TypesOf(e.right, declared) \subseteq Types
      BY <3>1, <2>1
    <3>3. r = MinusType(e, v) /\ types = TypesOf(e.right, declared)
      BY <2>6, <2>0 DEF Checked, Typed
    <3>4. CASE v.ends # "normally"
      BY <3>4, <3>3 DEF MinusType, Sound
    <3>5. CASE v.ends = "normally" /\ c = Absent
      BY <3>5, <3>3 DEF MinusType, TypeError, Sound
    <3>6. CASE v.ends = "normally" /\ c # Absent
      <4>1. v.hint \in Types \cup {Number} /\ Good(types, v.last) /\ types \subseteq Types
        BY <3>6, <3>2, <3>3 DEF Sound
      <4>2. Good(types \cap Types, c)
        <5>1. Good(Types, v.hint) /\ Types \in SUBSET Types
          BY <4>1
        <5> HIDE DEF types, v
        <5> QED BY <4>1, <5>1, <3>6, GoodCollide
      <4>3. types \cap Types = types
        BY <4>1
      <4>4. r = Visited(c, c, v.hint)
        BY <3>3, <3>6 DEF MinusType
      <4> HIDE DEF v, r, types, c
      <4> QED BY <4>1, <4>2, <4>3, <4>4 DEF Visited, Sound
    <3> QED BY <3>4, <3>5, <3>6
  <2>7. CASE IsBinary(e)
    <3> DEFINE left == Check(e.left, Number, typings)
               right == Check(e.right, left.hint, typings)
               L == TypesOf(e.left, declared)
               R == TypesOf(e.right, declared)
               c == Collide(left.type, right.type)
    <3>1. e.left \in Operands(e) /\ e.right \in Operands(e)
      BY <2>7, OperandsLower
    <3>2. Sound(L, left) /\ L \in SUBSET Types
      BY <3>1, <2>1
    <3>3. r = BinaryType(e, left, right, h)
      BY <2>7, <2>0 DEF Checked
    <3>4. CASE left.ends # "normally"
      BY <3>4, <3>3 DEF BinaryType, Sound
    <3>5. CASE left.ends = "normally"
      <4>1. left.hint \in Types \cup {Number} /\ Good(L, left.type)
        BY <3>2, <3>5 DEF Sound
      <4>2. Sound(R, right) /\ R \in SUBSET Types
        <5> HIDE DEF left
        <5> QED BY <3>1, <4>1, <2>1
      <4>3. CASE right.ends # "normally"
        BY <3>5, <4>3, <3>3 DEF BinaryType, Sound
      <4>4. CASE right.ends = "normally"
        <5>1. right.hint \in Types \cup {Number} /\ Good(R, right.type)
          BY <4>2, <4>4 DEF Sound
        <5>2. c # Absent => Good(L \cap R, c)
          <6> HIDE DEF left, right, L, R
          <6> QED BY <5>1, <4>1, <4>2, <3>2, GoodCollide
        <5>3. CASE e.op = "logical"
          <6>1. r = LogicalType(e, left, right) /\ types = L \cap R \cap {Bool}
            BY <5>3, <3>5, <4>4, <3>3, <2>0 DEF BinaryType, Typed
          <6>2. CASE Collide(left.type, Bool) = Absent \/ Collide(right.type, Bool) = Absent
            BY <6>1, <6>2 DEF LogicalType, TypeError, Sound
          <6>3. CASE Collide(left.type, Bool) # Absent /\ Collide(right.type, Bool) # Absent
            <7>1. (left.type = Bool \/ left.type = Number) /\ (right.type = Bool \/ right.type = Number)
              BY <6>3 DEF Collide, Bool, Number
            <7>2. Bool \in L /\ Bool \in R
              <8>1. ASSUME NEW types2 \in SUBSET Types, NEW x, x = Bool \/ x = Number, Good(types2, x)
                    PROVE  Bool \in types2
                BY <8>1 DEF Good
              <8> HIDE DEF left, right, L, R
              <8> QED BY <7>1, <4>1, <5>1, <3>2, <4>2, <8>1
            <7>3. r = Visited(Bool, Bool, right.hint)
              BY <6>1, <6>3 DEF LogicalType
            <7> HIDE DEF left, right, L, R, r, types
            <7> QED BY <7>2, <7>3, <6>1, <5>1 DEF Visited, Sound, Good
          <6> QED BY <6>2, <6>3
        <5>4. CASE e.op = "comparison"
          <6>1. r = ComparisonType(e, left, right) /\ types = IF L \cap R = {} THEN {} ELSE {Bool}
            BY <5>4, <3>5, <4>4, <3>3, <2>0 DEF BinaryType, Typed
          <6>2. CASE c = Absent
            BY <6>1, <6>2 DEF ComparisonType, TypeError, Sound
          <6>3. CASE c # Absent
            <7>1. L \cap R # {} /\ L \cap R \in SUBSET Types
              <8> HIDE DEF left, right, L, R, c
              <8> QED BY <6>3, <5>2, <3>2
            <7>2. r = Visited(Bool, Bool, right.hint)
              BY <6>1, <6>3 DEF ComparisonType
            <7> HIDE DEF left, right, L, R, r, types
            <7> QED BY <7>1, <7>2, <6>1, <5>1 DEF Visited, Sound, Good
          <6> QED BY <6>2, <6>3
        <5>5. CASE e.op = "arithmetic"
          <6> DEFINE b == Collide(c, h)
          <6>1. r = ArithmeticType(e, left, right, h) /\ types = L \cap R
            BY <5>5, <3>5, <4>4, <3>3, <2>0 DEF BinaryType, Typed
          <6>2. CASE c = Absent \/ b = Absent
            BY <6>1, <6>2 DEF ArithmeticType, TypeError, Sound
          <6>3. CASE c # Absent /\ b # Absent
            <7>1. Good((L \cap R) \cap Types, b)
              <8>1. Good(L \cap R, c) /\ L \cap R \in SUBSET Types /\ Good(Types, h) /\ Types \in SUBSET Types
                BY <6>3, <5>2, <3>2
              <8> HIDE DEF left, right, L, R, c
              <8> QED BY <8>1, <6>3, GoodCollide
            <7>2. (L \cap R) \cap Types = L \cap R
              BY <3>2
            <7>3. r = Visited(b, b, right.hint)
              BY <6>1, <6>3 DEF ArithmeticType
            <7> HIDE DEF left, right, L, R, r, types, b
            <7> QED BY <7>1, <7>2, <7>3, <6>1, <5>1 DEF Visited, Sound
          <6> QED BY <6>2, <6>3
        <5> QED BY <5>3, <5>4, <5>5, <2>7 DEF IsBinary
      <4> QED BY <4>3, <4>4
    <3> QED BY <3>4, <3>5
  <2> QED BY <2>2, <2>3, <2>4, <2>5, <2>6, <2>7, OperandsLower DEF IsUnary
<1>2. Expressions \subseteq T
  <2> HIDE DEF T
  <2> QED BY <1>1, ExpressionInduction
<1> QED BY <1>2

(* typeVisitor accepts an expression as a value of type w, the hinted, only   *)
(* if it has that type by the rules of its operators.                       *)
THEOREM AcceptedHasItsType ==
  ASSUME NEW typings, NEW declared, TypedNames(typings),
         NEW e \in Expressions, DeclaredNames(e, typings, declared), NEW w \in Types,
         Check(e, w, typings).ends = "normally", Check(e, w, typings).last = w
  PROVE  HasType(e, w, declared)
<1>1. Sound(TypesOf(e, declared), Check(e, w, typings))
  BY CheckSound
<1>2. Good(TypesOf(e, declared), w)
  BY <1>1 DEF Sound
<1>3. w # Number /\ w # NoType
  BY GoodFacts
<1> QED BY <1>2, <1>3 DEF Good, HasType

(***************************************************************************)
(* What has its type is accepted.                                          *)
(***************************************************************************)
KnownNames(e, typings, declared) ==
  \A n \in NamesIn(e) : Binders(typings, n) # {} /\ Resolve(typings, n).type = declared[n]

(* What a visit under the hinted h leaves of an expression that may have the  *)
(* type t: that type, as soon as the hinted says so.                          *)
Fits(r, t, h) ==
  /\ r.ends = "normally" /\ r.hint \in {h, Number}
  /\ r.type \in {t, Number} /\ r.last = r.type
  /\ h = t => r.type = t

LEMMA FitsFacts ==
  ASSUME NEW t \in Types
  PROVE  /\ t # Number /\ t \in Hints /\ t # Absent
         /\ \A a, b \in {t, Number} : Collide(a, b) \in {t, Number} /\ Collide(a, b) # Absent
         /\ \A a \in {t, Number} : Collide(a, t) = t /\ Collide(t, a) = t
BY GoodFacts DEF Collide, Hints

LEMMA CheckComplete ==
  ASSUME NEW typings, NEW declared, TypedNames(typings)
  PROVE  \A e \in Expressions : KnownNames(e, typings, declared) /\ ~HasOp(e, "not") =>
           \A t \in TypesOf(e, declared) : \A h \in {t, Number} : Fits(Check(e, h, typings), t, h)
<1> DEFINE T == {e \in Expressions : KnownNames(e, typings, declared) /\ ~HasOp(e, "not") =>
                   \A t \in TypesOf(e, declared) : \A h \in {t, Number} : Fits(Check(e, h, typings), t, h)}
<1> USE HintsType, GoodFacts
<1>1. ASSUME NEW e \in Expressions, Operands(e) \subseteq T PROVE e \in T
  <2> SUFFICES ASSUME KnownNames(e, typings, declared), ~HasOp(e, "not"),
                      NEW t \in TypesOf(e, declared), NEW h \in {t, Number}
               PROVE  Fits(Check(e, h, typings), t, h)
    OBVIOUS
  <2> DEFINE types == TypesOf(e, declared)
             r == Check(e, h, typings)
  <2> SUFFICES Fits(r, t, h)
    OBVIOUS
  <2>0. Typed(e, declared) /\ t \in Types
    BY TypesUnfold DEF Typed
  <2>a. h \in Hints /\ Checked(e, h, typings)
    <3>1. h \in Hints
      BY <2>0 DEF Hints
    <3> QED BY <3>1, CheckUnfold
  <2>b. e.op # "not"
    BY WithinFacts
  <2>1. ASSUME NEW o \in Operands(e), NEW u \in TypesOf(o, declared), NEW k \in {u, Number}
        PROVE  Fits(Check(o, k, typings), u, k) /\ u \in Types
    <3>1. KnownNames(o, typings, declared)
      BY WithinFacts DEF KnownNames
    <3>2. o \in Expressions /\ ~HasOp(o, "not")
      BY WithinFacts
    <3> QED BY <3>1, <3>2, <1>1, TypesUnfold DEF Typed
  <2> HIDE DEF T
  <2>2. CASE e.op = "text"
    <3>1. e.name \in NamesIn(e)
      BY <2>2, WithinFacts
    <3>2. Binders(typings, e.name) # {} /\ Resolve(typings, e.name).type = declared[e.name]
      BY <3>1 DEF KnownNames
    <3>3. r = TextType(e, h, typings) /\ types = {declared[e.name]} \cap Types
      BY <2>2, <2>a, <2>0 DEF Checked, Typed
    <3>4. r = Visited(t, t, h)
      BY <3>2, <3>3 DEF TextType
    <3> HIDE DEF r
    <3> QED BY <3>4 DEF Fits, Visited
  <2>3. CASE e.op = "number"
    <3>1. r = Visited(h, h, h)
      <4>1. Collide(Number, h) = h
        BY DEF Collide
      <4> QED BY <2>3, <2>a, <4>1 DEF Checked, NumberType
    <3> HIDE DEF r
    <3> QED BY <3>1 DEF Fits, Visited
  <2>4. CASE e.op = "cast"
    <3> DEFINE v == Check(e.value, Number, typings)
    <3>1. e.value \in Operands(e)
      BY <2>4, OperandsLower
    <3>2. r = CastType(e, v) /\ TypesOf(e.value, declared) # {} /\ t = e.type
      BY <2>4, <2>0, <2>a DEF Checked, Typed
    <3>3. PICK u \in TypesOf(e.value, declared) : TRUE
      BY <3>2
    <3>4. Fits(v, u, Number)
      BY <3>1, <2>1
    <3>5. r = Visited(t, t, v.hint) /\ v.hint = Number
      BY <3>2, <3>4 DEF Fits, CastType
    <3> HIDE DEF r, v
    <3> QED BY <3>5 DEF Fits, Visited
  <2>5. CASE e.op = "minus"
    <3> DEFINE v == Check(e.right, h, typings)
               c == Collide(v.last, v.hint)
    <3>1. e.right \in Operands(e)
      BY <2>5, OperandsLower DEF IsUnary
    <3>2. r = MinusType(e, v) /\ t \in TypesOf(e.right, declared)
      BY <2>5, <2>0, <2>a DEF Checked, Typed
    <3>3. Fits(v, t, h)
      BY <3>1, <3>2, <2>1
    <3>4. v.last \in {t, Number} /\ v.hint \in {t, Number}
      BY <3>3 DEF Fits
    <3>5. c \in {t, Number} /\ c # Absent
      <4> HIDE DEF v
      <4> QED BY <3>4, <2>0, FitsFacts
    <3>6. h = t => c = t
      <4>1. h = t => v.last = t
        BY <3>3 DEF Fits
      <4> HIDE DEF v
      <4> QED BY <4>1, <3>4, <2>0, FitsFacts
    <3>7. r = Visited(c, c, v.hint) /\ v.hint \in {h, Number}
      BY <3>2, <3>3, <3>5 DEF MinusType, Fits
    <3> HIDE DEF r, v, c
    <3> QED BY <3>5, <3>6, <3>7 DEF Fits, Visited
  <2>6. CASE IsBinary(e)
    <3> DEFINE left == Check(e.left, Number, typings)
               right == Check(e.right, left.hint, typings)
               c == Collide(left.type, right.type)
               b == Collide(c, h)
    <3>1. e.left \in Operands(e) /\ e.right \in Operands(e)
      BY <2>6, OperandsLower
    <3>2. r = BinaryType(e, left, right, h)
      BY <2>6, <2>a DEF Checked
    <3>3. ASSUME NEW u \in TypesOf(e.left, declared), u \in TypesOf(e.right, declared)
          PROVE  /\ u \in Types /\ left.ends = "normally" /\ right.ends = "normally" /\ right.hint = Number
                 /\ left.type \in {u, Number} /\ right.type \in {u, Number}
                 /\ c \in {u, Number} /\ c # Absent
      <4>1. Fits(left, u, Number) /\ u \in Types
        BY <3>1, <2>1
      <4>2. left.hint = Number
        BY <4>1 DEF Fits
      <4>3. Fits(right, u, Number)
        <5> HIDE DEF left
        <5> QED BY <3>1, <3>3, <4>2, <2>1
      <4>4. /\ left.ends = "normally" /\ right.ends = "normally" /\ right.hint = Number
            /\ left.type \in {u, Number} /\ right.type \in {u, Number}
        BY <4>1, <4>3 DEF Fits
      <4> HIDE DEF left, right
      <4> QED BY <4>1, <4>4, FitsFacts
    <3>4. CASE e.op = "logical"
      <4>1. t = Bool /\ Bool \in TypesOf(e.left, declared) /\ Bool \in TypesOf(e.right, declared)
        BY <3>4, <2>0 DEF Typed
      <4>2. /\ left.ends = "normally" /\ right.ends = "normally" /\ right.hint = Number
            /\ left.type \in {Bool, Number} /\ right.type \in {Bool, Number}
        <5> HIDE DEF left, right, c
        <5> QED BY <4>1, <3>3
      <4>3. Collide(left.type, Bool) # Absent /\ Collide(right.type, Bool) # Absent
        <5> HIDE DEF left, right
        <5> QED BY <4>2, FitsFacts
      <4>4. r = Visited(Bool, Bool, right.hint)
        <5> HIDE DEF left, right
        <5> QED BY <3>4, <3>2, <4>2, <4>3 DEF BinaryType, LogicalType
      <4> HIDE DEF left, right, r
      <4> QED BY <4>1, <4>2, <4>4 DEF Fits, Visited
    <3>5. CASE e.op = "comparison"
      <4>1. t = Bool /\ TypesOf(e.left, declared) \cap TypesOf(e.right, declared) # {}
        BY <3>5, <2>0 DEF Typed
      <4>2. PICK u \in TypesOf(e.left, declared) : u \in TypesOf(e.right, declared)
        BY <4>1
      <4>3. left.ends = "normally" /\ right.ends = "normally" /\ right.hint = Number /\ c # Absent
        <5> HIDE DEF left, right, c
        <5> QED BY <4>2, <3>3
      <4>4. r = Visited(Bool, Bool, right.hint)
        <5> HIDE DEF left, right
        <5> QED BY <3>5, <3>2, <4>3 DEF BinaryType, ComparisonType
      <4> HIDE DEF left, right, r, c
      <4> QED BY <4>1, <4>3, <4>4 DEF Fits, Visited
    <3>6. CASE e.op = "arithmetic"
      <4>1. t \in TypesOf(e.left, declared) /\ t \in TypesOf(e.right, declared)
        BY <3>6, <2>0 DEF Typed
      <4>2. /\ left.ends = "normally" /\ right.ends = "normally" /\ right.hint = Number
            /\ c \in {t, Number} /\ c # Absent
        <5> HIDE DEF left, right, c
        <5> QED BY <4>1, <3>3
      <4>3. b \in {t, Number} /\ b # Absent /\ (h = t => b = t)
        <5> HIDE DEF c
        <5> QED BY <4>2, <2>0, FitsFacts
      <4>4. r = Visited(b, b, right.hint)
        <5> HIDE DEF left, right
        <5> QED BY <3>6, <3>2, <4>2, <4>3 DEF BinaryType, ArithmeticType
      <4> HIDE DEF left, right, r, c, b
      <4> QED BY <4>2, <4>3, <4>4 DEF Fits, Visited
    <3> QED BY <3>4, <3>5, <3>6, <2>6 DEF IsBinary
  <2> QED BY <2>2, <2>3, <2>4, <2>5, <2>6, <2>b, OperandsLower DEF IsUnary
<1>2. Expressions \subseteq T
  <2> HIDE DEF T
  <2> QED BY <1>1, ExpressionInduction
<1> QED BY <1>2

(* Above all other operators a `not' does no harm.                          *)
NotOnTop(e) == \A f \in Within[e] : IsBinary(f) \/ f.op = "minus" => ~HasOp(f, "not")

LEMMA CheckCompleteTop ==
  ASSUME NEW typings, NEW declared, TypedNames(typings)
  PROVE  \A e \in Expressions : KnownNames(e, typings, declared) /\ NotOnTop(e) =>
           \A t \in TypesOf(e, declared) : \A h \in {t, Number} :
             LET r == Check(e, h, typings)
             IN  r.ends = "normally" /\ (h = t => r.last = t)
<1> DEFINE Taken(r, t, h) == r.ends = "normally" /\ (h = t => r.last = t)
           T == {e \in Expressions : KnownNames(e, typings, declared) /\ NotOnTop(e) =>
                   \A t \in TypesOf(e, declared) : \A h \in {t, Number} : Taken(Check(e, h, typings), t, h)}
<1> USE HintsType, GoodFacts
<1>1. ASSUME NEW e \in Expressions, Operands(e) \subseteq T PROVE e \in T
  <2> SUFFICES ASSUME KnownNames(e, typings, declared), NotOnTop(e),
                      NEW t \in TypesOf(e, declared), NEW h \in {t, Number}
               PROVE  Taken(Check(e, h, typings), t, h)
    OBVIOUS
  <2> DEFINE r == Check(e, h, typings)
  <2>0. Typed(e, declared) /\ t \in Types
    BY TypesUnfold DEF Typed
  <2>a. h \in Hints /\ Checked(e, h, typings)
    <3>1. h \in Hints
      BY <2>0 DEF Hints
    <3> QED BY <3>1, CheckUnfold
  <2>1. ASSUME NEW o \in Operands(e), NEW u \in TypesOf(o, declared), NEW k \in {u, Number}
        PROVE  Taken(Check(o, k, typings), u, k)
    <3>1. KnownNames(o, typings, declared)
      BY WithinFacts DEF KnownNames
    <3>2. NotOnTop(o)
      BY WithinFacts DEF NotOnTop
    <3> HIDE DEF Taken
    <3> QED BY <3>1, <3>2, <1>1
  <2> HIDE DEF T
  <2>2. CASE ~HasOp(e, "not")
    <3>1. Fits(r, t, h)
      BY <2>2, CheckComplete
    <3> QED BY <3>1 DEF Fits
  <2>3. CASE HasOp(e, "not") /\ e.op = "not"
    <3> DEFINE v == Check(e.right, Bool, typings)
    <3>1. e.right \in Operands(e)
      BY <2>3, OperandsLower DEF IsUnary
    <3>2. r = NotType(e, v) /\ t = Bool /\ Bool \in TypesOf(e.right, declared)
      BY <2>3, <2>0, <2>a DEF Checked, Typed
    <3>3. v.ends = "normally" /\ v.last = Bool
      BY <3>1, <3>2, <2>1
    <3>4. r = Visited(NoType, Bool, v.hint)
      BY <3>2, <3>3 DEF NotType
    <3> QED BY <3>2, <3>4 DEF Visited
  <2>4. CASE HasOp(e, "not") /\ e.op = "cast"
    <3> DEFINE v == Check(e.value, Number, typings)
    <3>1. e.value \in Operands(e)
      BY <2>4, OperandsLower
    <3>2. r = CastType(e, v) /\ TypesOf(e.value, declared) # {} /\ t = e.type
      BY <2>4, <2>0, <2>a DEF Checked, Typed
    <3>3. PICK u \in TypesOf(e.value, declared) : TRUE
      BY <3>2
    <3>4. v.ends = "normally"
      BY <3>1, <2>1
    <3>5. r = Visited(t, t, v.hint)
      BY <3>2, <3>4 DEF CastType
    <3> QED BY <3>5 DEF Visited
  <2>5. ~HasOp(e, "not") \/ e.op = "not" \/ e.op = "cast"
    <3>1. e \in Within[e] /\ (e.op \in {"text", "number"} => Operands(e) = {})
      BY WithinFacts, OperandsLower
    <3>2. e.op \in {"text", "number"} => ~HasOp(e, "not")
      BY <3>1, WithinFacts
    <3>3. IsBinary(e) \/ e.op = "minus" => ~HasOp(e, "not")
      BY <3>1 DEF NotOnTop
    <3> QED BY <3>2, <3>3, OperandsLower DEF IsUnary
  <2> QED BY <2>2, <2>3, <2>4, <2>5
<1>2. Expressions \subseteq T
  <2> HIDE DEF T
  <2> QED BY <1>1, ExpressionInduction
<1> QED BY <1>2

(* And an expression that has the type w by the rules of its operators is   *)
(* accepted as a value of that type, unless it has a `not' below another    *)
(* operator, which visitNodeUnaryOperator leaves without a type.            *)
THEOREM WhatHasItsTypeIsAccepted ==
  ASSUME NEW typings, NEW declared, TypedNames(typings),
         NEW e \in Expressions, KnownNames(e, typings, declared), NotOnTop(e),
         NEW w \in Types, HasType(e, w, declared)
  PROVE  Check(e, w, typings).ends = "normally" /\ Check(e, w, typings).last = w
<1>1. w \in TypesOf(e, declared) /\ w \in {w, Number}
  BY DEF HasType
<1>2. \A h \in {w, Number} : LET v == Check(e, h, typings)
                             IN  v.ends = "normally" /\ (h = w => v.last = w)
  BY <1>1, CheckCompleteTop
<1> QED BY <1>1, <1>2

(* A visit is only aborted by a name that no scope binds.                   *)
LEMMA CheckNotAborted ==
  ASSUME NEW typings, TypedNames(typings)
  PROVE  \A e \in Expressions : (\A n \in NamesIn(e) : Binders(typings, n) # {}) =>
           \A h \in Hints : Check(e, h, typings).ends # "abort"
<1> DEFINE T == {e \in Expressions : (\A n \in NamesIn(e) : Binders(typings, n) # {}) =>
                   \A h \in Hints : Check(e, h, typings).ends # "abort"}
<1> USE HintsType
<1>1. ASSUME NEW e \in Expressions, Operands(e) \subseteq T PROVE e \in T
  <2> SUFFICES ASSUME \A n \in NamesIn(e) : Binders(typings, n) # {}, NEW h \in Hints
               PROVE  Check(e, h, typings).ends # "abort"
    OBVIOUS
  <2> DEFINE r == Check(e, h, typings)
  <2>a. Checked(e, h, typings)
    BY CheckUnfold
  <2>1. ASSUME NEW o \in Operands(e), NEW k \in Hints
        PROVE  Check(o, k, typings).ends # "abort" /\ Check(o, k, typings).hint \in Hints
    <3>1. o \in Expressions /\ \A n \in NamesIn(o) : Binders(typings, n) # {}
      BY WithinFacts
    <3>2. Check(o, k, typings) \in Results
      BY <3>1, CheckUnfold DEF Checked
    <3> QED BY <3>1, <3>2, <1>1 DEF Results
  <2> HIDE DEF T
  <2>2. \A x, y, z : Visited(x, y, z).ends # "abort" /\ TypeError(x).ends # "abort"
    BY DEF Visited, TypeError
  <2>3. CASE e.op = "text"
    <3>1. Binders(typings, e.name) # {}
      BY <2>3, WithinFacts
    <3> QED BY <3>1, <2>3, <2>a, <2>2 DEF Checked, TextType
  <2>4. CASE e.op = "number"
    BY <2>4, <2>a, <2>2 DEF Checked, NumberType
  <2>5. CASE e.op = "cast"
    <3>1. e.value \in Operands(e)
      BY <2>5, OperandsLower
    <3> QED BY <3>1, <2>1, <2>5, <2>a, <2>2 DEF Checked, CastType
  <2>6. CASE e.op = "not"
    <3>1. e.right \in Operands(e)
      BY <2>6, OperandsLower DEF IsUnary
    <3> QED BY <3>1, <2>1, <2>6, <2>a, <2>2 DEF Checked, NotType
  <2>7. CASE e.op = "minus"
    <3>1. e.right \in Operands(e)
      BY <2>7, OperandsLower DEF IsUnary
    <3> QED BY <3>1, <2>1, <2>7, <2>a, <2>2 DEF Checked, MinusType
  <2>8. CASE IsBinary(e)
    <3> DEFINE left == Check(e.left, Number, typings)
               right == Check(e.right, left.hint, typings)
    <3>1. e.left \in Operands(e) /\ e.right \in Operands(e)
      BY <2>8, OperandsLower
    <3>2. left.ends # "abort" /\ left.hint \in Hints
      BY <3>1, <2>1
    <3>3. right.ends # "abort"
      <4> HIDE DEF left
      <4> QED BY <3>1, <3>2, <2>1
    <3>4. r = BinaryType(e, left, right, h)
      BY <2>8, <2>a DEF Checked
    <3> HIDE DEF left, right
    <3>5. /\ LogicalType(e, left, right).ends # "abort"
          /\ ComparisonType(e, left, right).ends # "abort"
          /\ ArithmeticType(e, left, right, h).ends # "abort"
      BY <2>2 DEF LogicalType, ComparisonType, ArithmeticType
    <3> QED BY <2>8, <3>2, <3>3, <3>4, <3>5 DEF BinaryType, IsBinary
  <2> QED BY <2>3, <2>4, <2>5, <2>6, <2>7, <2>8, OperandsLower DEF IsUnary
<1>2. Expressions \subseteq T
  <2> HIDE DEF T
  <2> QED BY <1>1, ExpressionInduction
<1> QED BY <1>2

(* Only a `not' leaves another type in its node than in lastType.           *)
LEMMA TypeIsLast ==
  ASSUME NEW typings, TypedNames(typings), NEW e \in Expressions, NEW h \in Hints,
         Check(e, h, typings).ends = "normally", e.op # "not"
  PROVE  Check(e, h, typings).type = Check(e, h, typings).last
<1> DEFINE r == Check(e, h, typings)
<1>a. Checked(e, h, typings) /\ r.ends = "normally"
  BY CheckUnfold
<1>0. \A x, y, z : Visited(x, x, z).type = x /\ Visited(x, y, z).last = y /\ TypeError(x).ends # "normally"
                   /\ NoValue.ends # "normally"
  BY DEF Visited, TypeError, NoValue
<1>1. CASE e.op = "text"
  BY <1>1, <1>a, <1>0 DEF Checked, TextType
<1>2. CASE e.op = "number"
  BY <1>2, <1>a, <1>0 DEF Checked, NumberType
<1>3. CASE e.op = "cast"
  BY <1>3, <1>a, <1>0 DEF Checked, CastType
<1>4. CASE e.op = "minus"
  BY <1>4, <1>a, <1>0 DEF Checked, MinusType
<1>5. CASE IsBinary(e)
  <2> DEFINE left == Check(e.left, Number, typings)
             right == Check(e.right, left.hint, typings)
  <2>1. r = BinaryType(e, left, right, h)
    BY <1>5, <1>a DEF Checked
  <2> HIDE DEF left, right
  <2>2. r \in {LogicalType(e, left, right), ComparisonType(e, left, right), ArithmeticType(e, left, right, h)}
    BY <2>1, <1>5, <1>a DEF BinaryType, IsBinary
  <2>3. CASE r = LogicalType(e, left, right)
    BY <2>3, <1>0, <1>a DEF LogicalType
  <2>4. CASE r = ComparisonType(e, left, right)
    BY <2>4, <1>0, <1>a DEF ComparisonType
  <2>5. CASE r = ArithmeticType(e, left, right, h)
    BY <2>5, <1>0, <1>a DEF ArithmeticType
  <2> QED BY <2>2, <2>3, <2>4, <2>5
<1> QED BY <1>1, <1>2, <1>3, <1>4, <1>5, OperandsLower DEF IsUnary


(***************************************************************************)
(* Stacks of scopes by their elements.                                     *)
(***************************************************************************)
LEMMA SequenceExit ==
  ASSUME NEW s, Sequence(s), s # <<>>
  PROVE  /\ Sequence(ExitScope(s)) /\ Len(ExitScope(s)) = Len(s) - 1
         /\ \A i \in 1 .. Len(s) - 1 : ExitScope(s)[i] = s[i]
<1> DEFINE S == {s[i] : i \in 1 .. Len(s)}
<1>1. s \in Seq(S)
  BY DEF Sequence
<1>2. Len(s) \in Nat \ {0} /\ \A i \in 1 .. Len(s) - 1 : s[i] \in S
  BY SequenceFacts
<1> HIDE DEF S
<1>3. /\ SubSeq(s, 1, Len(s) - 1) \in Seq(S)
      /\ Len(SubSeq(s, 1, Len(s) - 1)) = IF 1 <= Len(s) - 1 THEN Len(s) - 1 - 1 + 1 ELSE 0
      /\ \A i \in 1 .. Len(s) - 1 - 1 + 1 : SubSeq(s, 1, Len(s) - 1)[i] = s[1 + i - 1]
  BY <1>1, <1>2, SubSeqProperties
<1>4. Sequence(ExitScope(s))
  BY <1>3, SequenceFrom DEF ExitScope
<1>5. Len(ExitScope(s)) = Len(s) - 1
  <2>1. PICK m \in Nat : m = Len(s) - 1
    BY <1>2, SMTT(20)
  <2>2. m - 1 + 1 = m /\ (~(1 <= m) => m = 0)
    OBVIOUS
  <2> QED
    BY <1>3, <2>1, <2>2 DEF ExitScope
<1>6. ASSUME NEW i \in 1 .. Len(s) - 1 PROVE ExitScope(s)[i] = s[i]
  <2>1. i \in 1 .. Len(s) - 1 - 1 + 1 /\ 1 + i - 1 = i
    BY <1>2
  <2> QED
    BY <1>3, <2>1 DEF ExitScope
<1> QED
  BY <1>4, <1>5, <1>6

LEMMA SequenceAdd ==
  ASSUME NEW s, Sequence(s), s # <<>>, NEW key, NEW value
  PROVE  LET t == AddToScope(s, key, value)
         IN  /\ Sequence(t) /\ Len(t) = Len(s)
             /\ \A i \in 1 .. Len(s) : i # Len(s) => t[i] = s[i]
             /\ t[Len(s)] = Bind(s[Len(s)], key, value)
<1> DEFINE S == {s[i] : i \in 1 .. Len(s)}
<1>1. s \in Seq(S)
  BY DEF Sequence
<1> HIDE DEF S
<1>2. /\ Len(AddToScope(s, key, value)) = Len(s)
      /\ \A i \in 1 .. Len(s) :
           AddToScope(s, key, value)[i] = IF i = Len(s) THEN Bind(s[Len(s)], key, value) ELSE s[i]
  BY <1>1, AddToScopeShape
<1>3. Sequence(AddToScope(s, key, value))
  BY <1>1, AddToScopeSeq, SequenceFrom
<1>4. Len(s) \in 1 .. Len(s)
  BY SequenceFacts
<1> QED
  BY <1>2, <1>3, <1>4

(* A block is left where an else or a fi comes at its level.                *)
LEMMA InScopeOpened ==
  \A j, i \in Nat : j <= i =>
    /\ InScope(j, j)
    /\ InScope(j, i + 1) <=>
         InScope(j, i) /\ (program[i + 1].op \in {"else", "fi"} => Opened(j) # Opened(i))
<1> SUFFICES ASSUME NEW j \in Nat, NEW i \in Nat, j <= i
             PROVE  /\ InScope(j, j)
                    /\ InScope(j, i + 1) <=>
                         InScope(j, i) /\ (program[i + 1].op \in {"else", "fi"} => Opened(j) # Opened(i))
  OBVIOUS
<1>1. InScope(j, j)
  BY DEF InScope
<1>2. (i + 1) - 1 = i
  OBVIOUS
<1>3. \A k \in j + 1 .. i + 1 : k \in j + 1 .. i \/ k = i + 1
  OBVIOUS
<1>4. i + 1 \in j + 1 .. i + 1 /\ \A k \in j + 1 .. i : k \in j + 1 .. i + 1
  OBVIOUS
<1> QED
  BY <1>1, <1>2, <1>3, <1>4 DEF InScope

(***************************************************************************)
(* The inductive invariant.                                                *)
(***************************************************************************)
Accepted(i) == i < Len(program) \/ outcome \in {"compiling", "compiled"}

ItemOK(i) ==
  LET item == program[i]
  IN  /\ item.op \in {"function", "declare", "assign", "return", "if", "else", "fi", "end"}
      /\ item.op = "function" <=> i = 1
      /\ item.op = "function" =>
           /\ item.result \in Types /\ item.parameters \in Seq([type : Types, name : Names])
           /\ \A k, l \in DOMAIN item.parameters :
                item.parameters[k].name = item.parameters[l].name => k = l
      /\ item.op = "declare" => item.type \in Types /\ item.value \in Values \cup {<<>>}
      /\ item.op \in {"assign", "return", "if"} => item.value \in Values
      /\ item.op \in {"declare", "assign"} => item.name \in Names
      /\ item.op = "return" /\ Accepted(i) =>
           item.type = IF item.value[1].op = "not" THEN NoType ELSE program[1].result
      /\ item.op \in {"else", "fi"} => Opened(i - 1) >= 1
      /\ item.op = "end" => i = Len(program)
      /\ Opened(i) >= 0

(* The declarations of a name before item k whose block is open behind it.  *)
Live(n, k) == {j \in 1 .. k : Declares(j, n) /\ InScope(j, k)}

NamesOK ==
  \A l \in 1 .. Len(names) : \A n \in Names : n \in DOMAIN names[l] =>
    \E j \in Live(n, Len(program)) : Opened(j) = IF l <= 3 THEN 0 ELSE l - 3

VariablesOK ==
  /\ variables[1] = EmptyScope
  /\ \A n \in Names :
       /\ \A j \in 1 .. Len(program) : Declares(j, n) => n \in DOMAIN variables[2]
       /\ n \in DOMAIN variables[2] =>
            \E a \in 1 .. Len(program) :
              Declares(a, n) /\ variables[2][n] = [type |-> TypeAt(n, a), at |-> a]

CheckerOK ==
  phase = "check" =>
    /\ pc = 1 /\ slots = <<>> /\ outcome = "compiling"
    /\ IF program = <<>> THEN ifs = <<>> /\ names = <<EmptyScope>> /\ variables = <<EmptyScope>>
       ELSE /\ Len(ifs) = Opened(Len(program)) /\ Len(program) + Len(ifs) <= MaxItems + 1
            /\ Len(names) = 3 + Len(ifs) /\ Len(variables) = 2
            /\ NamesOK /\ VariablesOK
            /\ \A i \in 1 .. Len(program) : program[i].op # "end"

SlotsOK(s, k) ==
  /\ Sequence(s)
  /\ Len(s) = IF k = 0 THEN 0 ELSE 1 + Opened(k)
  /\ \A n \in Names :
       /\ \A l \in 1 .. Len(s) : n \in DOMAIN s[l] =>
            /\ s[l][n].at \in Live(n, k) /\ Opened(s[l][n].at) = l - 1
            /\ s[l][n].type = TypeAt(n, s[l][n].at)
       /\ \A j \in Live(n, k) :
            /\ 1 + Opened(j) \in 1 .. Len(s) /\ n \in DOMAIN s[1 + Opened(j)]
            /\ j <= s[1 + Opened(j)][n].at
       /\ \A l, m \in 1 .. Len(s) :
            n \in DOMAIN s[l] /\ n \in DOMAIN s[m] /\ l < m => s[l][n].at < s[m][n].at

GeneratorOK ==
  phase = "generate" =>
    /\ outcome = "compiling" /\ Len(program) >= 2 /\ program[Len(program)].op = "end"
    /\ pc \in 1 .. Len(program) /\ Len(slots) <= pc - 1
    /\ SlotsOK(slots, pc - 1) /\ Opened(Len(program)) = 0

(* Nothing was generated before the type visitor was through.               *)
Fresh ==
  pc = 1 => current = NoType /\ last = Null /\ emitted = Nothing

IInv ==
  /\ TypeOK
  /\ Sequence(program) /\ Sequence(ifs) /\ Sequence(names) /\ Sequence(variables)
  /\ \A i \in 1 .. Len(program) : ItemOK(i)
  /\ CheckerOK /\ GeneratorOK /\ Fresh
  /\ pc \in Nat \ {0} /\ phase \in {"check", "generate", "done"}
  /\ program = <<>> => phase = "check"
  /\ AcceptedHasType /\ HasTypeAccepted

(***************************************************************************)
(* What an item more leaves as it was.                                     *)
(***************************************************************************)
LEMMA Grown ==
  ASSUME Sequence(program), NEW item, program' = Append(program, item), NEW m, m = Len(program)
  PROVE  /\ m \in Nat /\ Sequence(program') /\ Len(program') = m + 1 /\ program' # <<>>
         /\ DOMAIN program = 1 .. m /\ DOMAIN program' = 1 .. m + 1
         /\ program'[m + 1] = item
         /\ \A i \in 1 .. m : program'[i] = program[i]
<1>1. /\ Sequence(program') /\ Len(program') = m + 1
      /\ program'[m + 1] = item
      /\ \A i \in 1 .. m : program'[i] = program[i]
  BY SequenceAppend
<1>2. m \in Nat /\ DOMAIN program = 1 .. m
  BY SequenceFacts
<1>3. DOMAIN program' = 1 .. m + 1 /\ (program' = <<>> <=> m + 1 = 0)
  BY <1>1, SequenceFacts
<1> QED
  BY <1>1, <1>2, <1>3

LEMMA GrownCounts ==
  ASSUME Sequence(program), NEW item, program' = Append(program, item), NEW m, m = Len(program)
  PROVE  /\ \A op : \A k \in 0 .. m : Count(op, k)' = Count(op, k)
         /\ \A k \in 0 .. m : Opened(k)' = Opened(k)
         /\ \A j, i \in 1 .. m : InScope(j, i)' <=> InScope(j, i)
<1>1. m \in Nat /\ \A i \in 1 .. m : program'[i] = program[i]
  BY Grown
<1>2. ASSUME NEW op, NEW k \in 0 .. m PROVE Count(op, k)' = Count(op, k)
  <2>1. \A j \in 1 .. k : program'[j] = program[j]
    BY <1>1
  <2>2. {j \in 1 .. k : program'[j].op = op} = {j \in 1 .. k : program[j].op = op}
    BY <2>1
  <2> QED
    BY <2>2 DEF Count
<1>3. ASSUME NEW k \in 0 .. m PROVE Opened(k)' = Opened(k)
  BY <1>2 DEF Opened
<1>4. ASSUME NEW j \in 1 .. m, NEW i \in 1 .. m PROVE InScope(j, i)' <=> InScope(j, i)
  <2>1. ASSUME NEW k \in j + 1 .. i
        PROVE  /\ program'[k] = program[k]
               /\ Opened(j)' = Opened(j) /\ Opened(k - 1)' = Opened(k - 1)
    <3>1. k - 1 \in 0 .. m /\ j \in 0 .. m /\ k \in 1 .. m
      BY <1>1
    <3> QED
      BY <1>1, <1>3, <3>1
  <2> QED
    BY <2>1 DEF InScope
<1> QED
  BY <1>2, <1>3, <1>4

(* The last declaration, where there is one.                                *)
LEMMA MeantFacts ==
  ASSUME NEW n, NEW i \in Nat
  PROVE  LET js == {j \in 1 .. i - 1 : Declares(j, n) /\ InScope(j, i)}
         IN  /\ js = {} => Meant(n, i) = 0
             /\ js # {} => Meant(n, i) \in js /\ \A j \in js : j <= Meant(n, i)
             /\ \A k \in js : (\A j \in js : j <= k) => Meant(n, i) = k
             /\ i # 0 => Meant(n, i) \in 0 .. i - 1
<1> DEFINE js == {j \in 1 .. i - 1 : Declares(j, n) /\ InScope(j, i)}
           c == CHOOSE j \in js : \A k \in js : k <= j
<1>1. Meant(n, i) = IF js = {} THEN 0 ELSE c
  BY DEF Meant
<1>2. js \subseteq 1 .. i - 1
  OBVIOUS
<1>3. ASSUME js # {} PROVE c \in js /\ \A j \in js : j <= c
  <2>1. js \in SUBSET (1 .. i)
    BY <1>2
  <2> HIDE DEF js
  <2>2. \E j \in js : \A k \in js : k <= j
    BY <1>3, <2>1, LastPosition
  <2> QED
    BY <2>2
<1> HIDE DEF c
<1>4. ASSUME NEW k \in js, \A j \in js : j <= k PROVE c = k
  <2>1. c \in js /\ c <= k /\ k <= c
    BY <1>3, <1>4
  <2> QED
    BY <1>2, <2>1
<1>5. js # {} => i # 0 /\ c \in 0 .. i - 1
  <2> SUFFICES ASSUME js # {} PROVE i # 0 /\ c \in 0 .. i - 1
    OBVIOUS
  <2>1. c \in 1 .. i - 1
    BY <1>3
  <2> QED
    BY <2>1
<1>6. i # 0 => 0 \in 0 .. i - 1
  OBVIOUS
<1>7. js = {} => Meant(n, i) = 0
  BY <1>1
<1>8. js # {} => Meant(n, i) = c
  BY <1>1
<1> HIDE DEF js
<1> SUFFICES /\ js = {} => Meant(n, i) = 0
             /\ js # {} => Meant(n, i) \in js /\ \A j \in js : j <= Meant(n, i)
             /\ \A k \in js : (\A j \in js : j <= k) => Meant(n, i) = k
             /\ i # 0 => Meant(n, i) \in 0 .. i - 1
  BY DEF js
<1> QED
  BY <1>3, <1>4, <1>5, <1>6, <1>7, <1>8

LEMMA GrownMeaning ==
  ASSUME Sequence(program), NEW item, program' = Append(program, item), NEW m, m = Len(program)
  PROVE  /\ \A n : \A j \in 1 .. m : (Declares(j, n)' <=> Declares(j, n)) /\ TypeAt(n, j)' = TypeAt(n, j)
         /\ \A n : \A i \in 1 .. m : Meant(n, i)' = Meant(n, i)
         /\ \A n : \A i \in 0 .. m : TypeAt(n, i)' = TypeAt(n, i)
         /\ \A i \in 1 .. m : HasValue(i)' <=> HasValue(i)
<1>1. m \in Nat /\ \A i \in 1 .. m : program'[i] = program[i]
  BY Grown
<1>2. ASSUME NEW n, NEW j \in 1 .. m
      PROVE  (Declares(j, n)' <=> Declares(j, n)) /\ TypeAt(n, j)' = TypeAt(n, j)
  <2>1. program'[j] = program[j]
    BY <1>1
  <2> QED
    BY <2>1 DEF Declares, TypeAt
<1>3. ASSUME NEW n, NEW i \in 1 .. m
      PROVE  Meant(n, i)' = Meant(n, i)
  <2> DEFINE js == {j \in 1 .. i - 1 : Declares(j, n) /\ InScope(j, i)}
             ks == {j \in 1 .. i - 1 : Declares(j, n)' /\ InScope(j, i)'}
  <2>1. \A j \in 1 .. i - 1 : j \in 1 .. m
    BY <1>1
  <2>2. \A j \in 1 .. i - 1 : (Declares(j, n)' <=> Declares(j, n)) /\ (InScope(j, i)' <=> InScope(j, i))
    BY <1>2, <2>1, GrownCounts
  <2>3. js = ks
    BY <2>2
  <2>4. Meant(n, i) = IF js = {} THEN 0 ELSE CHOOSE j \in js : \A k \in js : k <= j
    BY DEF Meant
  <2>5. Meant(n, i)' = IF ks = {} THEN 0 ELSE CHOOSE j \in ks : \A k \in ks : k <= j
    BY DEF Meant
  <2> HIDE DEF js, ks
  <2> QED
    BY <2>3, <2>4, <2>5
<1>4. ASSUME NEW n, NEW i \in 0 .. m PROVE TypeAt(n, i)' = TypeAt(n, i)
  <2>1. CASE i = 0
    BY <2>1 DEF TypeAt
  <2>2. CASE i # 0
    <3>1. i \in 1 .. m
      BY <1>1, <2>2
    <3> QED
      BY <1>2, <3>1
  <2> QED
    BY <2>1, <2>2
<1>5. \A i \in 1 .. m : HasValue(i)' <=> HasValue(i)
  BY <1>1 DEF HasValue
<1> QED
  BY <1>2, <1>3, <1>4, <1>5

(***************************************************************************)
(* What an item does to what is open and what is declared.                 *)
(***************************************************************************)
Steps ==
  /\ Opened(0) = 0
  /\ \A k \in Nat :
       /\ Opened(k) \in Int
       /\ Opened(k + 1) = Opened(k) + (IF program[k + 1].op = "if" THEN 1
                                       ELSE IF program[k + 1].op = "fi" THEN -1
                                       ELSE 0)
       /\ \A n : \A j \in 1 .. k :
            j \in Live(n, k + 1) <=>
              j \in Live(n, k) /\ (program[k + 1].op \in {"else", "fi"} => Opened(j) # Opened(k))
       /\ \A n : k + 1 \in Live(n, k + 1) <=> Declares(k + 1, n)

LEMMA StepsHold == Steps
<1>1. ASSUME NEW k \in Nat, NEW n, NEW j \in 1 .. k
      PROVE  j \in Live(n, k + 1) <=>
              j \in Live(n, k) /\ (program[k + 1].op \in {"else", "fi"} => Opened(j) # Opened(k))
  <2>1. j \in Nat /\ j <= k /\ j \in 1 .. k + 1
    OBVIOUS
  <2> QED
    BY <2>1, InScopeOpened DEF Live
<1>2. ASSUME NEW k \in Nat, NEW n PROVE k + 1 \in Live(n, k + 1) <=> Declares(k + 1, n)
  <2>1. k + 1 \in Nat /\ k + 1 \in 1 .. k + 1
    OBVIOUS
  <2> QED
    BY <2>1, InScopeOpened DEF Live
<1> QED
  BY <1>1, <1>2, OpenedStep DEF Steps

LEMMA StepsHoldNext == Steps'
  BY StepsHold, PTL

(* One item more: which declarations live on, and which items stay sound.   *)
LEMMA GrownLive ==
  ASSUME Sequence(program), NEW item, program' = Append(program, item), NEW m, m = Len(program)
  PROVE  /\ Opened(m + 1)' = Opened(m) + (IF item.op = "if" THEN 1 ELSE IF item.op = "fi" THEN -1 ELSE 0)
         /\ Opened(m) \in Int
         /\ \A n : \A j \in 1 .. m :
              j \in Live(n, m + 1)' <=>
                j \in Live(n, m) /\ (item.op \in {"else", "fi"} => Opened(j) # Opened(m))
         /\ \A n : m + 1 \in Live(n, m + 1)' <=> Declares(m + 1, n)'
<1>1. m \in Nat /\ program'[m + 1] = item /\ m \in 0 .. m
  <2>1. m \in Nat /\ program'[m + 1] = item
    BY Grown
  <2> QED
    BY <2>1
<1>2. Opened(m)' = Opened(m) /\ \A j \in 1 .. m : Opened(j)' = Opened(j)
  <2>1. \A j \in 1 .. m : j \in 0 .. m
    BY <1>1
  <2> QED
    BY <1>1, <2>1, GrownCounts
<1>3. Opened(m + 1)' = Opened(m)' + (IF item.op = "if" THEN 1 ELSE IF item.op = "fi" THEN -1 ELSE 0)
  BY <1>1, StepsHoldNext DEF Steps
<1>4. Opened(m) \in Int
  BY <1>1, StepsHold DEF Steps
<1>5. ASSUME NEW n, NEW j \in 1 .. m PROVE j \in Live(n, m)' <=> j \in Live(n, m)
  <2>1. (Declares(j, n)' <=> Declares(j, n)) /\ (InScope(j, m)' <=> InScope(j, m))
    <3>1. m \in 1 .. m
      BY <1>1
    <3> QED
      BY <3>1, GrownCounts, GrownMeaning
  <2> QED
    BY <2>1 DEF Live
<1>6. ASSUME NEW n, NEW j \in 1 .. m
      PROVE  j \in Live(n, m + 1)' <=>
                j \in Live(n, m) /\ (item.op \in {"else", "fi"} => Opened(j) # Opened(m))
  <2>1. j \in Live(n, m + 1)' <=>
          j \in Live(n, m)' /\ (program'[m + 1].op \in {"else", "fi"} => Opened(j)' # Opened(m)')
    BY <1>1, StepsHoldNext DEF Steps
  <2> QED
    BY <1>1, <1>2, <1>5, <2>1
<1>7. \A n : m + 1 \in Live(n, m + 1)' <=> Declares(m + 1, n)'
  BY <1>1, StepsHoldNext DEF Steps
<1> QED
  BY <1>2, <1>3, <1>4, <1>6, <1>7

LEMMA ItemsKept ==
  ASSUME Sequence(program), NEW item, program' = Append(program, item), NEW m, m = Len(program),
         m # 0, phase = "check", CheckerOK, program # <<>>,
         \A i \in 1 .. m : ItemOK(i)
  PROVE  \A i \in 1 .. m : ItemOK(i)'
<1>1. m \in Nat /\ Len(program') = m + 1 /\ \A i \in 1 .. m : program'[i] = program[i]
  BY Grown
<1>2. SUFFICES ASSUME NEW i \in 1 .. m PROVE ItemOK(i)'
  OBVIOUS
<1>3. program'[i] = program[i] /\ program'[1] = program[1]
  BY <1>1
<1>4. i - 1 \in 0 .. m /\ i \in 0 .. m
  BY <1>1
<1>5. Opened(i)' = Opened(i) /\ Opened(i - 1)' = Opened(i - 1)
  BY <1>4, GrownCounts
<1>6. Accepted(i) /\ program[i].op # "end"
  BY DEF Accepted, CheckerOK
<1>7. ItemOK(i)
  OBVIOUS
<1> QED
  BY <1>3, <1>5, <1>6, <1>7 DEF ItemOK

(* A statement, an else or a fi.                                            *)
Stands(item) ==
  /\ item.op \in {"declare", "assign", "return", "if", "else", "fi"}
  /\ item.op = "declare" => item.type \in Types /\ item.value \in Values \cup {<<>>}
  /\ item.op \in {"assign", "return", "if"} => item.value \in Values
  /\ item.op \in {"declare", "assign"} => item.name \in Names

LEMMA ItemAdded ==
  ASSUME Sequence(program), NEW item, program' = Append(program, item), NEW m, m = Len(program),
         m # 0, Stands(item), Opened(m) >= 0,
         item.op \in {"else", "fi"} => Opened(m) >= 1,
         item.op = "return" /\ Accepted(m + 1)' =>
           item.type = IF item.value[1].op = "not" THEN NoType ELSE program[1].result
  PROVE  ItemOK(m + 1)'
<1>1. /\ m \in Nat /\ Len(program') = m + 1 /\ \A i \in 1 .. m : program'[i] = program[i]
      /\ program'[m + 1] = item
  BY Grown
<1>2. program'[1] = program[1] /\ (m + 1) - 1 = m /\ m \in 0 .. m /\ m + 1 # 1
  BY <1>1
<1>3. Opened((m + 1) - 1)' = Opened(m)
  BY <1>2, GrownCounts
<1>4. /\ Opened(m + 1)' = Opened(m) + (IF item.op = "if" THEN 1 ELSE IF item.op = "fi" THEN -1 ELSE 0)
      /\ Opened(m) \in Int
  BY GrownLive
<1>5. Opened(m + 1)' >= 0
  BY <1>4
<1> QED
  BY <1>1, <1>2, <1>3, <1>5 DEF ItemOK, Stands

(***************************************************************************)
(* The scopes of the parser and of the type visitor.                       *)
(***************************************************************************)
LEMMA VariablesKept ==
  ASSUME Sequence(program), NEW item, program' = Append(program, item), NEW m, m = Len(program),
         VariablesOK, variables' = variables, item.op \notin {"declare", "function"}
  PROVE  VariablesOK'
<1>1. m \in Nat /\ Len(program') = m + 1 /\ program'[m + 1] = item
  BY Grown
<1>2. \A n : ~Declares(m + 1, n)'
  BY <1>1 DEF Declares
<1>3. \A n : \A j \in 1 .. m + 1 : Declares(j, n)' => j \in 1 .. m /\ Declares(j, n)
  <2> SUFFICES ASSUME NEW n, NEW j \in 1 .. m + 1, Declares(j, n)' PROVE j \in 1 .. m /\ Declares(j, n)
    OBVIOUS
  <2>1. j # m + 1
    BY <1>2
  <2>2. j \in 1 .. m
    BY <1>1, <2>1
  <2> QED
    BY <2>2, GrownMeaning
<1>4. \A n : \A j \in 1 .. m : j \in 1 .. m + 1 /\ (Declares(j, n)' <=> Declares(j, n)) /\ TypeAt(n, j)' = TypeAt(n, j)
  BY <1>1, GrownMeaning
<1>5. SUFFICES ASSUME NEW n \in Names
               PROVE  /\ \A j \in 1 .. m + 1 : Declares(j, n)' => n \in DOMAIN variables[2]
                      /\ n \in DOMAIN variables[2] =>
                           \E a \in 1 .. m + 1 :
                             Declares(a, n)' /\ variables[2][n] = [type |-> TypeAt(n, a)', at |-> a]
  BY <1>1 DEF VariablesOK
<1>6. \A j \in 1 .. m + 1 : Declares(j, n)' => n \in DOMAIN variables[2]
  BY <1>3 DEF VariablesOK
<1>7. ASSUME n \in DOMAIN variables[2]
      PROVE  \E a \in 1 .. m + 1 :
               Declares(a, n)' /\ variables[2][n] = [type |-> TypeAt(n, a)', at |-> a]
  <2>1. PICK a \in 1 .. m : Declares(a, n) /\ variables[2][n] = [type |-> TypeAt(n, a), at |-> a]
    BY <1>7 DEF VariablesOK
  <2> QED
    BY <1>4, <2>1
<1> QED
  BY <1>6, <1>7

LEMMA VariablesAdded ==
  ASSUME Sequence(program), NEW item, program' = Append(program, item), NEW m, m = Len(program),
         Sequence(variables), Len(variables) = 2, VariablesOK,
         item.op = "declare", item.name \in Names,
         variables' = AddToScope(variables, item.name, [type |-> item.type, at |-> m + 1])
  PROVE  VariablesOK' /\ Sequence(variables') /\ Len(variables') = 2
<1> DEFINE entry == [type |-> item.type, at |-> m + 1]
<1>1. m \in Nat /\ Len(program') = m + 1 /\ program'[m + 1] = item
  BY Grown
<1>2. \A n : Declares(m + 1, n)' <=> n = item.name
  BY <1>1 DEF Declares
<1>3. variables # <<>>
  BY SequenceFacts, SMTT(20)
<1>4. /\ Sequence(variables') /\ Len(variables') = 2
      /\ variables'[1] = variables[1]
      /\ variables'[2] = Bind(variables[2], item.name, entry)
  BY <1>3, SequenceAdd
<1>5. /\ DOMAIN variables'[2] = DOMAIN variables[2] \cup {item.name}
      /\ variables'[2][item.name] = entry
      /\ \A n \in DOMAIN variables[2] : n # item.name => variables'[2][n] = variables[2][n]
  BY <1>4 DEF Bind
<1>6. entry = [type |-> item.type, at |-> m + 1] /\ TypeAt(item.name, m + 1)' = item.type
  <2>1. m + 1 # 0
    BY <1>1
  <2> QED
    BY <1>1, <2>1 DEF TypeAt
<1> HIDE DEF entry
<1>7. \A n : \A j \in 1 .. m : j \in 1 .. m + 1 /\ (Declares(j, n)' <=> Declares(j, n)) /\ TypeAt(n, j)' = TypeAt(n, j)
  BY <1>1, GrownMeaning
<1>8. variables'[1] = EmptyScope
  BY <1>4 DEF VariablesOK
<1>9. ASSUME NEW n \in Names, NEW j \in 1 .. m + 1, Declares(j, n)' PROVE n \in DOMAIN variables'[2]
  <2>1. CASE j = m + 1
    BY <1>2, <1>5, <1>9, <2>1
  <2>2. CASE j # m + 1
    <3>1. j \in 1 .. m
      BY <1>1, <2>2
    <3>2. Declares(j, n)
      BY <1>7, <1>9, <3>1
    <3> QED
      BY <1>5, <3>1, <3>2 DEF VariablesOK
  <2> QED
    BY <2>1, <2>2
<1>10. ASSUME NEW n \in Names, n \in DOMAIN variables'[2]
       PROVE  \E a \in 1 .. m + 1 :
                Declares(a, n)' /\ variables'[2][n] = [type |-> TypeAt(n, a)', at |-> a]
  <2>1. CASE n = item.name
    <3>1. m + 1 \in 1 .. m + 1
      BY <1>1
    <3> QED
      BY <1>2, <1>5, <1>6, <2>1, <3>1
  <2>2. CASE n # item.name
    <3>1. n \in DOMAIN variables[2] /\ variables'[2][n] = variables[2][n]
      BY <1>5, <1>10, <2>2
    <3>2. PICK a \in 1 .. m : Declares(a, n) /\ variables[2][n] = [type |-> TypeAt(n, a), at |-> a]
      BY <3>1 DEF VariablesOK
    <3> QED
      BY <1>7, <3>1, <3>2
  <2> QED
    BY <2>1, <2>2
<1> QED
  BY <1>1, <1>4, <1>8, <1>9, <1>10 DEF VariablesOK

(* Whatever becomes of the parser's scopes, an entry that is left stands    *)
(* for a declaration that lives on.                                         *)
LEMMA NamesKept ==
  ASSUME Sequence(program), NEW item, program' = Append(program, item), NEW m, m = Len(program),
         NamesOK, Sequence(names), Len(names) = 3 + Opened(m), Opened(m) >= 0,
         item.op \in {"else", "fi"} => Opened(m) >= 1,
         NEW k \in Nat, k <= Len(names), k <= Len(names'),
         item.op \in {"else", "fi"} => k <= Len(names) - 1,
         \A l \in 1 .. k : names'[l] = names[l],
         \A l \in 1 .. Len(names') : l > k => names'[l] = EmptyScope
  PROVE  NamesOK'
<1>1. m \in Nat /\ Len(program') = m + 1
  BY Grown
<1>2. SUFFICES ASSUME NEW l \in 1 .. Len(names'), NEW n \in Names, n \in DOMAIN names'[l]
               PROVE  \E j \in Live(n, m + 1)' : Opened(j)' = IF l <= 3 THEN 0 ELSE l - 3
  BY <1>1 DEF NamesOK
<1>3. l <= k
  BY <1>2 DEF EmptyScope
<1>4. l \in 1 .. k /\ l \in 1 .. Len(names) /\ l \in Nat
  <2>1. Len(names) \in Nat
    BY SequenceFacts
  <2>2. l \in 1 .. k
    BY <1>3
  <2> QED
    BY <2>1, <2>2
<1>5. PICK j \in Live(n, m) : Opened(j) = IF l <= 3 THEN 0 ELSE l - 3
  BY <1>2, <1>4 DEF NamesOK
<1>6. j \in 1 .. m /\ j \in 0 .. m /\ Opened(m) \in Int
  BY <1>1, GrownLive DEF Live
<1>7. item.op \in {"else", "fi"} => Opened(j) # Opened(m)
  BY <1>3, <1>4, <1>5, <1>6
<1>8. j \in Live(n, m + 1)'
  BY <1>6, <1>7, GrownLive
<1>9. Opened(j)' = Opened(j)
  BY <1>6, GrownCounts
<1> QED
  BY <1>5, <1>8, <1>9

LEMMA NamesAdded ==
  ASSUME Sequence(program), NEW item, program' = Append(program, item), NEW m, m = Len(program),
         NamesOK, Sequence(names), Len(names) = 3 + Opened(m), Opened(m) >= 0,
         item.op = "declare", names' = AddToScope(names, item.name, Visible)
  PROVE  NamesOK' /\ Sequence(names') /\ Len(names') = Len(names)
<1>1. m \in Nat /\ Len(program') = m + 1 /\ program'[m + 1] = item
  BY Grown
<1>2. Len(names) \in Nat /\ names # <<>> /\ Opened(m) \in Int
  BY SequenceFacts, GrownLive
<1>3. /\ Sequence(names') /\ Len(names') = Len(names)
      /\ \A l \in 1 .. Len(names) : l # Len(names) => names'[l] = names[l]
      /\ names'[Len(names)] = Bind(names[Len(names)], item.name, Visible)
  BY <1>2, SequenceAdd
<1>4. ASSUME NEW l \in 1 .. Len(names), NEW n \in Names, n \in DOMAIN names'[l]
      PROVE  \E j \in Live(n, m + 1)' : Opened(j)' = IF l <= 3 THEN 0 ELSE l - 3
  <2>1. CASE n \in DOMAIN names[l]
    <3>1. PICK j \in Live(n, m) : Opened(j) = IF l <= 3 THEN 0 ELSE l - 3
      BY <2>1 DEF NamesOK
    <3>2. j \in 1 .. m /\ j \in 0 .. m
      BY <1>1 DEF Live
    <3>3. j \in Live(n, m + 1)' /\ Opened(j)' = Opened(j)
      BY <3>2, GrownLive, GrownCounts
    <3> QED
      BY <3>1, <3>3
  <2>2. CASE n \notin DOMAIN names[l]
    <3>1. l = Len(names) /\ n = item.name
      BY <1>3, <1>4, <2>2 DEF Bind
    <3>2. m + 1 \in Live(n, m + 1)'
      BY <1>1, <3>1, GrownLive DEF Declares
    <3>3. Opened(m + 1)' = Opened(m)
      BY <1>2, GrownLive
    <3>4. Opened(m) = IF l <= 3 THEN 0 ELSE l - 3
      BY <1>2, <3>1
    <3> QED
      BY <3>2, <3>3, <3>4
  <2> QED
    BY <2>1, <2>2
<1> QED
  BY <1>1, <1>3, <1>4 DEF NamesOK

(***************************************************************************)
(* What the type visitor takes names for.                                  *)
(***************************************************************************)
Meanings ==
  \A n : \A i \in Nat :
    \/ /\ Meant(n, i) = 0
       /\ \A j \in 1 .. i - 1 : ~(Declares(j, n) /\ InScope(j, i))
    \/ \E a \in 1 .. i - 1 :
         /\ Meant(n, i) = a /\ Declares(a, n) /\ InScope(a, i)
         /\ \A j \in 1 .. i - 1 : Declares(j, n) /\ InScope(j, i) => j <= a

LEMMA MeaningsHold == Meanings
<1>1. ASSUME NEW n, NEW i \in Nat
      PROVE  \/ /\ Meant(n, i) = 0
                /\ \A j \in 1 .. i - 1 : ~(Declares(j, n) /\ InScope(j, i))
             \/ \E a \in 1 .. i - 1 :
                  /\ Meant(n, i) = a /\ Declares(a, n) /\ InScope(a, i)
                  /\ \A j \in 1 .. i - 1 : Declares(j, n) /\ InScope(j, i) => j <= a
  <2> DEFINE js == {j \in 1 .. i - 1 : Declares(j, n) /\ InScope(j, i)}
  <2>1. CASE js = {}
    BY <2>1, MeantFacts
  <2>2. CASE js # {}
    <3>1. Meant(n, i) \in js /\ \A j \in js : j <= Meant(n, i)
      BY <2>2, MeantFacts
    <3> QED
      BY <3>1
  <2> QED
    BY <2>1, <2>2
<1> QED
  BY <1>1 DEF Meanings

LEMMA MeaningsHoldNext == Meanings'
  BY MeaningsHold, PTL

LEMMA TypeAtTypes ==
  ASSUME NEW n, NEW a, a # 0, Declares(a, n), ItemOK(a)
  PROVE  TypeAt(n, a) \in Types
<1>1. CASE program[a].op = "declare"
  BY <1>1 DEF TypeAt, ItemOK
<1>2. CASE program[a].op # "declare"
  <2> DEFINE ps == program[a].parameters
             c == CHOOSE k \in DOMAIN ps : ps[k].name = n
  <2>1. program[a].op = "function" /\ n \in Parameters(ps)
    BY <1>2 DEF Declares
  <2>2. ps \in Seq([type : Types, name : Names])
    BY <2>1 DEF ItemOK
  <2>3. TypeAt(n, a) = ps[c].type
    BY <1>2 DEF TypeAt, ParameterType
  <2> HIDE DEF ps
  <2>4. DOMAIN ps = 1 .. Len(ps)
    BY <2>2, LenProperties
  <2>5. \E k \in DOMAIN ps : ps[k].name = n
    BY <2>1 DEF Parameters
  <2>6. c \in DOMAIN ps
    BY <2>5
  <2> HIDE DEF c
  <2>7. ps[c] \in [type : Types, name : Names]
    BY <2>2, <2>4, <2>6, ElementOfSeq
  <2> QED
    BY <2>3, <2>7
<1> QED
  BY <1>1, <1>2

LEMMA VariablesFound ==
  ASSUME Sequence(variables), Len(variables) = 2, VariablesOK,
         \A i \in 1 .. Len(program) : ItemOK(i), Len(program) \in Nat
  PROVE  /\ TypedNames(variables)
         /\ \A n \in Names : \A a \in 1 .. Len(program) : Declares(a, n) => Binders(variables, n) # {}
         /\ \A n \in Names : Binders(variables, n) # {} =>
              \E a \in 1 .. Len(program) :
                /\ Declares(a, n) /\ Resolve(variables, n) = [type |-> TypeAt(n, a), at |-> a]
<1>1. variables[1] = EmptyScope
  BY DEF VariablesOK
<1>2. ASSUME NEW n PROVE Binders(variables, n) = IF n \in DOMAIN variables[2] THEN {2} ELSE {}
  <2>1. n \notin DOMAIN variables[1]
    BY <1>1 DEF EmptyScope
  <2>2. \A i \in 1 .. 2 : i = 1 \/ i = 2
    OBVIOUS
  <2>3. 2 \in 1 .. 2
    OBVIOUS
  <2> QED
    BY <2>1, <2>2, <2>3 DEF Binders
<1>3. ASSUME NEW n \in Names, NEW a \in 1 .. Len(program), Declares(a, n)
      PROVE  Binders(variables, n) # {}
  BY <1>2, <1>3 DEF VariablesOK
<1>4. ASSUME NEW n \in Names, Binders(variables, n) # {}
      PROVE  \E a \in 1 .. Len(program) :
               /\ Declares(a, n) /\ Resolve(variables, n) = [type |-> TypeAt(n, a), at |-> a]
  <2>1. n \in DOMAIN variables[2] /\ Binders(variables, n) = {2}
    BY <1>2, <1>4
  <2>2. 2 \in Binders(variables, n) /\ \A j \in Binders(variables, n) : j <= 2
    BY <2>1
  <2>3. Resolve(variables, n) = variables[2][n]
    BY <2>2, ResolveInnermost
  <2> QED
    BY <2>1, <2>3 DEF VariablesOK
<1>5. TypedNames(variables)
  <2> SUFFICES ASSUME NEW n \in Names, Binders(variables, n) # {}
               PROVE  Resolve(variables, n).type \in Types
    BY DEF TypedNames
  <2>1. PICK a \in 1 .. Len(program) :
          Declares(a, n) /\ Resolve(variables, n) = [type |-> TypeAt(n, a), at |-> a]
    BY <1>4
  <2>2. TypeAt(n, a) \in Types
    BY <2>1, TypeAtTypes
  <2> QED
    BY <2>1, <2>2
<1> QED
  BY <1>3, <1>4, <1>5

LEMMA NamesDifferBefore ==
  ASSUME Sequence(program), NEW item, program' = Append(program, item), NEW m, m = Len(program),
         NamesDiffer'
  PROVE  NamesDiffer
<1>1. /\ m \in Nat /\ DOMAIN program = 1 .. m /\ DOMAIN program' = 1 .. m + 1
      /\ \A i \in 1 .. m : program'[i] = program[i]
  BY Grown
<1>2. \A i \in 1 .. m : i \in 1 .. m + 1
  BY <1>1
<1>3. ASSUME NEW n \in Names, NEW i \in 1 .. m, NEW j \in 1 .. m, Declares(i, n), Declares(j, n)
      PROVE  i = j
  <2>1. Declares(i, n)' /\ Declares(j, n)'
    BY <1>3, GrownMeaning
  <2> QED
    BY <1>1, <1>2, <2>1 DEF NamesDiffer
<1>4. ASSUME NEW i \in 1 .. m, HasValue(i), NEW n \in NamesIn(program[i].value[1])
      PROVE  Meant(n, i) # 0
  <2>1. HasValue(i)' /\ n \in NamesIn(program'[i].value[1]) /\ Meant(n, i)' = Meant(n, i)
    BY <1>1, <1>4, GrownMeaning
  <2> QED
    BY <1>1, <1>2, <2>1 DEF NamesDiffer
<1> QED
  BY <1>1, <1>3, <1>4 DEF NamesDiffer

(* A name that a live declaration gives a meaning means what variables say. *)
LEMMA MeantIsFound ==
  ASSUME Sequence(program), NEW item, program' = Append(program, item), NEW m, m = Len(program),
         Sequence(variables), Len(variables) = 2, VariablesOK,
         \A i \in 1 .. m : ItemOK(i), NamesDiffer',
         NEW n \in Names, Meant(n, m + 1)' # 0
  PROVE  /\ Binders(variables, n) # {}
         /\ Resolve(variables, n).type = TypeAt(n, Meant(n, m + 1))'
         /\ Resolve(variables, n).type \in Types
<1>1. m \in Nat /\ DOMAIN program' = 1 .. m + 1 /\ (m + 1) - 1 = m /\ m + 1 \in Nat
  <2>1. m \in Nat /\ DOMAIN program' = 1 .. m + 1
    BY Grown
  <2> QED
    BY <2>1
<1>2. PICK a \in 1 .. m : Meant(n, m + 1)' = a /\ Declares(a, n)'
  BY <1>1, MeaningsHoldNext DEF Meanings
<1>3. Declares(a, n)
  BY <1>2, GrownMeaning
<1>4. Binders(variables, n) # {}
  BY <1>1, <1>3, VariablesFound
<1>5. PICK b \in 1 .. m : Declares(b, n) /\ Resolve(variables, n) = [type |-> TypeAt(n, b), at |-> b]
  BY <1>1, <1>4, VariablesFound
<1>6. Declares(b, n)' /\ a \in 1 .. m + 1 /\ b \in 1 .. m + 1
  BY <1>1, <1>5, GrownMeaning
<1>7. a = b
  BY <1>1, <1>2, <1>6 DEF NamesDiffer
<1>8. TypeAt(n, Meant(n, m + 1))' = TypeAt(n, a)'
  BY <1>2 DEF TypeAt
<1>9. TypeAt(n, a)' = TypeAt(n, a)
  BY GrownMeaning
<1>10. TypeAt(n, a) \in Types
  <2>1. a # 0
    BY <1>1
  <2> QED
    BY <1>3, <2>1, TypeAtTypes
<1> QED
  BY <1>4, <1>5, <1>7, <1>8, <1>9, <1>10

(***************************************************************************)
(* The verdict on a value, against the rules of its operators.             *)
(***************************************************************************)
Meaning(i) == [n \in Names |-> TypeAt(n, Meant(n, i))]

LEMMA Verdict ==
  ASSUME Sequence(program), NEW item, program' = Append(program, item), NEW m, m = Len(program),
         Sequence(variables), Len(variables) = 2, VariablesOK,
         \A i \in 1 .. m : ItemOK(i), NamesDiffer',
         item.op \in {"declare", "assign", "return", "if"},
         NEW e \in Expressions, item.value = <<e>>,
         NEW w \in Types, Wanted(m + 1)' = w,
         NEW c, c = Check(e, w, variables)
  PROVE  /\ c.ends = "normally" /\ c.last = w => RightlyTyped(m + 1)'
         /\ RightlyTyped(m + 1)' /\ ~NotAsOperand(e) => c.ends = "normally" /\ c.last = w
         /\ c.ends # "abort"
<1>1. m \in Nat /\ DOMAIN program' = 1 .. m + 1 /\ program'[m + 1] = item /\ Len(program) \in Nat
  BY Grown
<1>2. PICK D : D = [n \in Names |-> (TypeAt(n, Meant(n, m + 1)))']
  OBVIOUS
<1>3. item.value[1] = e /\ item.value # <<>>
  OBVIOUS
<1>4. RightlyTyped(m + 1)' <=> w \in TypesOf(e, D)
  BY <1>1, <1>2, <1>3 DEF RightlyTyped, HasType
<1>5. NamesIn(e) \subseteq Names
  BY WithinFacts
<1>6. m + 1 \in 1 .. m + 1
  BY <1>1
<1>7. HasValue(m + 1)'
  BY <1>1, <1>3 DEF HasValue
<1>8. ASSUME NEW n \in NamesIn(e) PROVE Meant(n, m + 1)' # 0
  BY <1>1, <1>3, <1>6, <1>7 DEF NamesDiffer
<1>9. KnownNames(e, variables, D)
  <2> SUFFICES ASSUME NEW n \in NamesIn(e)
               PROVE  Binders(variables, n) # {} /\ Resolve(variables, n).type = D[n]
    BY DEF KnownNames
  <2>1. n \in Names /\ Meant(n, m + 1)' # 0
    BY <1>5, <1>8
  <2>2. Binders(variables, n) # {} /\ Resolve(variables, n).type = TypeAt(n, Meant(n, m + 1))'
    BY <2>1, MeantIsFound
  <2> QED
    BY <1>2, <2>1, <2>2
<1>10. DeclaredNames(e, variables, D)
  BY <1>9 DEF KnownNames, DeclaredNames
<1>11. TypedNames(variables)
  BY <1>1, VariablesFound
<1>12. w \in Types \cup {Number} /\ w \in Hints
  BY DEF Hints
<1>13. Sound(TypesOf(e, D), c)
  BY <1>10, <1>11, <1>12, CheckSound
<1>14. ASSUME c.ends = "normally", c.last = w PROVE w \in TypesOf(e, D)
  <2>1. Good(TypesOf(e, D), w)
    BY <1>13, <1>14 DEF Sound
  <2>2. TypesOf(e, D) \in SUBSET Types
    BY TypesUnfold DEF Typed
  <2> QED
    BY <2>1, <2>2, GoodFacts
<1>15. ASSUME w \in TypesOf(e, D), ~NotAsOperand(e) PROVE c.ends = "normally" /\ c.last = w
  <2>1. NotOnTop(e)
    BY <1>15 DEF NotAsOperand, NotOnTop
  <2> QED
    BY <1>9, <1>11, <1>15, <2>1, CheckCompleteTop
<1>16. c.ends # "abort"
  <2>1. \A n \in NamesIn(e) : Binders(variables, n) # {}
    BY <1>9 DEF KnownNames
  <2> QED
    BY <1>11, <1>12, <2>1, CheckNotAborted
<1> QED
  BY <1>4, <1>14, <1>15, <1>16

(* The variable of an assignment has a declaration that lives.              *)
LEMMA Assigned ==
  ASSUME Sequence(program), NEW item, program' = Append(program, item), NEW m, m = Len(program),
         Sequence(names), NamesOK, Sequence(variables), Len(variables) = 2, VariablesOK,
         \A i \in 1 .. m : ItemOK(i),
         item.op = "assign", item.name \in Names, Binders(names, item.name) # {}
  PROVE  /\ Resolve(variables, item.name).type \in Types
         /\ NamesDiffer' => Wanted(m + 1)' = Resolve(variables, item.name).type
<1>0. PICK n : n = item.name
  OBVIOUS
<1>1. /\ m \in Nat /\ DOMAIN program' = 1 .. m + 1 /\ program'[m + 1] = item
      /\ Len(program) \in Nat /\ m + 1 \in Nat /\ (m + 1) - 1 = m
  <2>1. m \in Nat /\ DOMAIN program' = 1 .. m + 1 /\ program'[m + 1] = item
    BY Grown
  <2> QED
    BY <2>1
<1>2. PICK l \in 1 .. Len(names) : n \in DOMAIN names[l]
  BY <1>0 DEF Binders
<1>3. PICK j \in Live(n, m) : TRUE
  BY <1>0, <1>2 DEF NamesOK
<1>4. j \in 1 .. m /\ Declares(j, n)
  BY <1>3 DEF Live
<1>5. Binders(variables, n) # {}
  BY <1>0, <1>1, <1>4, VariablesFound
<1>6. Resolve(variables, n).type \in Types
  BY <1>0, <1>1, <1>5, VariablesFound DEF TypedNames
<1>7. ASSUME NamesDiffer' PROVE Wanted(m + 1)' = Resolve(variables, n).type
  <2>1. j \in Live(n, m + 1)'
    BY <1>3, <1>4, GrownLive
  <2>2. Declares(j, n)' /\ InScope(j, m + 1)'
    BY <2>1 DEF Live
  <2>3. Meant(n, m + 1)' # 0
    <3>1. \/ \A k \in 1 .. (m + 1) - 1 : ~(Declares(k, n)' /\ InScope(k, m + 1)')
          \/ \E a \in 1 .. (m + 1) - 1 : Meant(n, m + 1)' = a
      BY <1>1, MeaningsHoldNext DEF Meanings
    <3> QED
      BY <1>1, <1>4, <2>2, <3>1
  <2>4. Resolve(variables, n).type = TypeAt(n, Meant(n, m + 1))'
    BY <1>0, <1>7, <2>3, MeantIsFound
  <2>5. Wanted(m + 1)' = (TypeAt(n, Meant(n, m + 1)))'
    BY <1>0, <1>1 DEF Wanted
  <2> QED
    BY <1>1, <2>4, <2>5
<1> QED
  BY <1>0, <1>6, <1>7

LEMMA RightlyKept ==
  ASSUME Sequence(program), NEW item, program' = Append(program, item), NEW m, m = Len(program), m # 0,
         NEW i \in 1 .. m, HasValue(i)
  PROVE  RightlyTyped(i)' <=> RightlyTyped(i)
<1>1. m \in Nat /\ program'[i] = program[i] /\ program'[1] = program[1] /\ i \in Nat
  BY Grown
<1>2. ASSUME NEW n PROVE (TypeAt(n, Meant(n, i)))' = TypeAt(n, Meant(n, i))
  <2>1. PICK a : a = Meant(n, i)
    OBVIOUS
  <2>2. Meant(n, i)' = a
    BY <2>1, GrownMeaning
  <2>3. a \in 0 .. m
    <3>1. i # 0 /\ \A x \in 0 .. i - 1 : x \in 0 .. m
      BY <1>1
    <3> QED
      BY <1>1, <2>1, <3>1, MeantFacts
  <2>4. TypeAt(n, a)' = TypeAt(n, a)
    BY <2>3, GrownMeaning
  <2>5. (TypeAt(n, Meant(n, i)))' = TypeAt(n, a)'
    BY <2>2 DEF TypeAt
  <2> QED
    BY <2>1, <2>4, <2>5
<1>3. Wanted(i)' = Wanted(i)
  <2>1. program[i].op \in {"declare", "assign", "return", "if"}
    BY DEF HasValue
  <2>2. CASE program[i].op = "assign"
    <3>1. PICK n : n = program[i].name
      OBVIOUS
    <3>2. Wanted(i) = TypeAt(n, Meant(n, i))
      BY <2>2, <3>1 DEF Wanted
    <3>3. Wanted(i)' = (TypeAt(n, Meant(n, i)))'
      BY <1>1, <2>2, <3>1 DEF Wanted
    <3> QED
      BY <1>2, <3>2, <3>3
  <2>3. CASE program[i].op # "assign"
    BY <1>1, <2>1, <2>3 DEF Wanted
  <2> QED
    BY <2>2, <2>3
<1>4. [n \in Names |-> (TypeAt(n, Meant(n, i)))'] = [n \in Names |-> TypeAt(n, Meant(n, i))]
  BY <1>2
<1>5. PICK D : D = [n \in Names |-> TypeAt(n, Meant(n, i))]
  OBVIOUS
<1>6. RightlyTyped(i) <=> HasType(program[i].value[1], Wanted(i), D)
  BY <1>5 DEF RightlyTyped
<1>7. RightlyTyped(i)' <=> HasType(program'[i].value[1], Wanted(i)', D)
  BY <1>4, <1>5 DEF RightlyTyped
<1> QED
  BY <1>1, <1>3, <1>6, <1>7

(***************************************************************************)
(* One item more that the type visitor accepts or rejects.                 *)
(***************************************************************************)
LEMMA ChecksFacts ==
  ASSUME NEW item, NEW v, NEW ifs1, NEW names1, NEW variables1, NEW hint1,
         Checks(item, v, ifs1, names1, variables1, hint1)
  PROVE  /\ phase = "check" /\ program # <<>> /\ Room(ifs1) /\ program' = Append(program, item)
         /\ UNCHANGED generator
         /\ v.ends = "normally" =>
              /\ ifs' = ifs1 /\ names' = names1 /\ variables' = variables1 /\ hint' = hint1
              /\ UNCHANGED <<phase, outcome>>
         /\ v.ends # "normally" =>
              /\ phase' = "done" /\ UNCHANGED checker
              /\ outcome' \in {"aborted", "rejected", "unreported"}
              /\ v.ends # "abort" => outcome' # "aborted"
<1>1. CASE v.ends = "normally"
  BY <1>1 DEF Checks
<1>2. CASE v.ends # "normally"
  BY <1>2 DEF Checks
<1> QED
  BY <1>1, <1>2

(* What the verdict on a new item says of its value.                        *)
Justified(item, v, m) ==
  /\ \/ v.ends = "normally"
     \/ item.op \in {"declare", "assign", "return", "if"} /\ item.value # <<>>
  /\ NamesDiffer' /\ item.op \in {"declare", "assign", "return", "if"} /\ item.value # <<>> =>
       /\ v.ends = "normally" => RightlyTyped(m + 1)'
       /\ v.ends # "normally" =>
            v.ends # "abort" /\ (~RightlyTyped(m + 1)' \/ NotAsOperand(item.value[1]))

LEMMA VerdictsKept ==
  ASSUME Sequence(program), NEW item, program' = Append(program, item), NEW m, m = Len(program), m # 0,
         outcome = "compiling", AcceptedHasType, HasTypeAccepted,
         NEW v, Justified(item, v, m), outcome' \in Outcomes,
         v.ends = "normally" => outcome' = "compiling",
         v.ends # "normally" => /\ outcome' \in {"aborted", "rejected", "unreported"}
                                /\ v.ends # "abort" => outcome' # "aborted"
  PROVE  AcceptedHasType' /\ HasTypeAccepted'
<1>1. /\ m \in Nat /\ Len(program') = m + 1 /\ program'[m + 1] = item
      /\ DOMAIN program = 1 .. m /\ DOMAIN program' = 1 .. m + 1
  BY Grown
<1>2. SUFFICES ASSUME NamesDiffer' PROVE AcceptedHasType' /\ HasTypeAccepted'
  BY DEF AcceptedHasType, HasTypeAccepted
<1>3. NamesDiffer
  BY <1>2, NamesDifferBefore
<1>4. HasValue(m + 1)' <=> item.op \in {"declare", "assign", "return", "if"} /\ item.value # <<>>
  BY <1>1 DEF HasValue
<1>5. ASSUME NEW i \in 1 .. m + 1, HasValue(i)',
             i < m + 1 \/ outcome' \in {"compiling", "compiled"}
      PROVE  RightlyTyped(i)'
  <2>1. CASE i = m + 1
    <3>1. v.ends = "normally"
      BY <1>1, <1>5, <2>1
    <3> QED
      BY <1>2, <1>4, <1>5, <2>1, <3>1 DEF Justified
  <2>2. CASE i # m + 1
    <3>1. i \in 1 .. m
      BY <1>1, <2>2
    <3>2. HasValue(i)
      BY <1>5, <3>1, GrownMeaning
    <3>3. RightlyTyped(i)
      BY <1>1, <1>3, <3>1, <3>2 DEF AcceptedHasType
    <3> QED
      BY <3>1, <3>2, <3>3, RightlyKept
  <2> QED
    BY <2>1, <2>2
<1>6. AcceptedHasType'
  BY <1>1, <1>5 DEF AcceptedHasType
<1>7. outcome' # "aborted"
  BY <1>2, <1>4 DEF Justified
<1>8. outcome' \in {"rejected", "unreported"} =>
        ~RightlyTyped(m + 1)' \/ NotAsOperand(item.value[1])
  BY <1>2, <1>4 DEF Justified
<1>9. HasTypeAccepted'
  BY <1>1, <1>7, <1>8 DEF HasTypeAccepted
<1> QED
  BY <1>6, <1>9

LEMMA CheckerFacts ==
  ASSUME IInv, phase = "check", program # <<>>, NEW m, m = Len(program)
  PROVE  /\ Sequence(program) /\ Sequence(ifs) /\ Sequence(names) /\ Sequence(variables)
         /\ m \in Nat /\ m # 0 /\ \A i \in 1 .. m : ItemOK(i)
         /\ Len(ifs) \in Nat /\ Len(ifs) = Opened(m) /\ Opened(m) \in Int /\ Opened(m) >= 0
         /\ m + Len(ifs) <= MaxItems + 1 /\ (ifs = <<>> <=> Len(ifs) = 0)
         /\ Len(names) = 3 + Opened(m) /\ names # <<>> /\ Len(variables) = 2 /\ variables # <<>>
         /\ NamesOK /\ VariablesOK /\ pc = 1 /\ slots = <<>> /\ outcome = "compiling"
         /\ emitted = Nothing /\ hint \in Hints /\ MaxItems \in Nat
         /\ \A i \in 1 .. m : program[i].op # "end"
<1>1. /\ Sequence(program) /\ Sequence(ifs) /\ Sequence(names) /\ Sequence(variables)
      /\ \A i \in 1 .. m : ItemOK(i)
      /\ hint \in Hints
  BY DEF IInv, TypeOK
<1>2. /\ pc = 1 /\ slots = <<>> /\ outcome = "compiling"
      /\ Len(ifs) = Opened(m) /\ m + Len(ifs) <= MaxItems + 1
      /\ Len(names) = 3 + Len(ifs) /\ Len(variables) = 2
      /\ NamesOK /\ VariablesOK
      /\ \A i \in 1 .. m : program[i].op # "end"
  BY DEF IInv, CheckerOK
<1>3. /\ Len(program) \in Nat /\ (program = <<>> <=> Len(program) = 0)
      /\ Len(ifs) \in Nat /\ (ifs = <<>> <=> Len(ifs) = 0)
      /\ names = <<>> <=> Len(names) = 0
      /\ variables = <<>> <=> Len(variables) = 0
  BY <1>1, SequenceFacts
<1>4. emitted = Nothing
  BY <1>2 DEF IInv, Fresh
<1>5. MaxItems \in Nat
  BY BodiesAssumption
<1> QED
  BY <1>1, <1>2, <1>3, <1>4, <1>5

LEMMA ChecksKeepInvariant ==
  ASSUME IInv, NEW item, NEW v, NEW ifs1, NEW names1, NEW variables1, NEW hint1,
         Checks(item, v, ifs1, names1, variables1, hint1),
         NEW m, m = Len(program), Stands(item),
         item.op \in {"else", "fi"} => Opened(m) >= 1,
         item.op = "return" /\ v.ends = "normally" =>
           item.type = IF item.value[1].op = "not" THEN NoType ELSE program[1].result,
         Sequence(ifs1), Sequence(names1), Sequence(variables1),
         Len(ifs1) = Opened(m) + (IF item.op = "if" THEN 1 ELSE IF item.op = "fi" THEN -1 ELSE 0),
         Len(names1) = 3 + Len(ifs1), Len(variables1) = 2,
         v.ends = "normally" => hint1 \in Hints,
         v.ends = "normally" => NamesOK' /\ VariablesOK',
         Justified(item, v, m)
  PROVE  IInv'
<1> DEFINE ok == v.ends = "normally"
<1>1. /\ phase = "check" /\ program # <<>> /\ Room(ifs1) /\ program' = Append(program, item)
      /\ UNCHANGED generator
      /\ ok =>
           /\ ifs' = ifs1 /\ names' = names1 /\ variables' = variables1 /\ hint' = hint1
           /\ UNCHANGED <<phase, outcome>>
      /\ ~ok =>
           /\ phase' = "done" /\ UNCHANGED checker
           /\ outcome' \in {"aborted", "rejected", "unreported"}
           /\ v.ends # "abort" => outcome' # "aborted"
  BY ChecksFacts
<1>2. /\ Sequence(program) /\ Sequence(ifs) /\ Sequence(names) /\ Sequence(variables)
      /\ m \in Nat /\ m # 0 /\ \A i \in 1 .. m : ItemOK(i)
      /\ Len(ifs) \in Nat /\ Len(ifs) = Opened(m) /\ Opened(m) \in Int /\ Opened(m) >= 0
      /\ m + Len(ifs) <= MaxItems + 1
      /\ Len(names) = 3 + Opened(m) /\ Len(variables) = 2
      /\ pc = 1 /\ slots = <<>> /\ outcome = "compiling"
      /\ hint \in Hints /\ MaxItems \in Nat
      /\ \A i \in 1 .. m : program[i].op # "end"
  BY <1>1, CheckerFacts
<1>3. /\ Sequence(program') /\ Len(program') = m + 1 /\ program' # <<>>
      /\ DOMAIN program' = 1 .. m + 1 /\ program'[m + 1] = item
      /\ \A i \in 1 .. m : program'[i] = program[i]
  BY <1>1, <1>2, Grown
<1>4. m + Len(ifs1) <= MaxItems /\ Len(ifs1) \in Nat
  BY <1>1, SequenceFacts DEF Room
<1>5. Opened(m + 1)' = Len(ifs1)
  BY <1>1, <1>2, GrownLive
<1>6. \A i \in 1 .. m + 1 : ItemOK(i)'
  <2>1. \A i \in 1 .. m : ItemOK(i)'
    <3>1. CheckerOK
      BY DEF IInv
    <3> QED
      BY <1>1, <1>2, <3>1, ItemsKept
  <2>2. Accepted(m + 1)' => ok
    BY <1>1, <1>3 DEF Accepted
  <2>3. item.op = "return" /\ Accepted(m + 1)' =>
           item.type = IF item.value[1].op = "not" THEN NoType ELSE program[1].result
    BY <2>2
  <2>4. ItemOK(m + 1)'
    <3> HIDE DEF ok
    <3> QED
      BY <1>1, <1>2, <2>3, ItemAdded
  <2>5. \A i \in 1 .. m + 1 : i = m + 1 \/ i \in 1 .. m
    BY <1>2
  <2> QED
    BY <2>1, <2>4, <2>5
<1>7. AcceptedHasType' /\ HasTypeAccepted'
  <2>1. AcceptedHasType /\ HasTypeAccepted
    BY DEF IInv
  <2>2. outcome' \in Outcomes
    BY <1>1, <1>2 DEF Outcomes
  <2> QED
    BY <1>1, <1>2, <2>1, <2>2, VerdictsKept
<1>8. pc' = 1 /\ slots' = <<>> /\ UNCHANGED <<current, last, emitted>>
  BY <1>1, <1>2 DEF generator
<1>9. /\ Sequence(ifs') /\ Sequence(names') /\ Sequence(variables')
      /\ Len(names') = 3 + Len(ifs') /\ Len(variables') = 2 /\ hint' \in Hints
      /\ ok => Len(ifs') = Len(ifs1)
      /\ Len(ifs') \in Nat
  <2>1. CASE ok
    BY <1>1, <1>4, <2>1
  <2>2. CASE ~ok
    BY <1>1, <1>2, <2>2 DEF checker
  <2> QED
    BY <2>1, <2>2
<1>10. phase' \in {"check", "done"} /\ (phase' = "check" <=> ok) /\ (ok => outcome' = "compiling")
  BY <1>1, <1>2
<1>11. TypeOK'
  <2>1. m + 1 <= MaxItems + 2
    BY <1>2, <1>4
  <2>2. (outcome' = "compiled" => slots' = <<>>) /\ (phase' = "done" <=> outcome' # "compiling")
    BY <1>1, <1>2, <1>8
  <2>3. outcome' \in Outcomes
    BY <1>1, <1>2 DEF Outcomes
  <2>4. current' \in Types \cup {NoType} /\ last' \in Nat /\ emitted'.pairs \subseteq Nat \X Nat
    BY <1>8 DEF IInv, TypeOK
  <2>5. phase' # "generate" /\ ~(pc' > 1) /\ Len(names') # 1
    BY <1>8, <1>9, <1>10
  <2> HIDE DEF ok
  <2> QED
    BY <1>3, <1>9, <2>1, <2>2, <2>3, <2>4, <2>5 DEF TypeOK
<1>12. CheckerOK'
  <2>1. SUFFICES ASSUME phase' = "check" PROVE CheckerOK'
    BY DEF CheckerOK
  <2>2. ok /\ NamesOK' /\ VariablesOK' /\ outcome' = "compiling"
    BY <1>10, <2>1
  <2>3. \A i \in 1 .. m + 1 : program'[i].op # "end"
    <3>1. \A i \in 1 .. m + 1 : i = m + 1 \/ i \in 1 .. m
      BY <1>2
    <3> QED
      BY <1>2, <1>3, <3>1 DEF Stands
  <2>4. Len(ifs') = Opened(Len(program))' /\ Len(program') + Len(ifs') <= MaxItems + 1
    <3>1. Opened(Len(program))' = Opened(m + 1)'
      BY <1>3 DEF Opened, Count
    <3>2. Len(ifs') = Len(ifs1)
      BY <1>9, <2>2
    <3>3. Len(ifs') = Opened(Len(program))'
      BY <1>5, <3>1, <3>2
    <3>4. m + 1 + Len(ifs1) <= MaxItems + 1
      <4>1. \A a, b, c \in Nat : a + b <= c => a + 1 + b <= c + 1
        OBVIOUS
      <4>2. m \in Nat /\ Len(ifs1) \in Nat /\ MaxItems \in Nat /\ m + Len(ifs1) <= MaxItems
        BY <1>2, <1>4
      <4> QED
        BY <4>1, <4>2
    <3> HIDE DEF ok
    <3> QED
      BY <1>3, <3>2, <3>3, <3>4
  <2> QED
    BY <1>3, <1>8, <1>9, <2>2, <2>3, <2>4 DEF CheckerOK
<1>13. GeneratorOK'
  BY <1>10 DEF GeneratorOK
<1>14. Fresh'
  BY <1>2, <1>8 DEF IInv, Fresh
<1> HIDE DEF ok
<1> QED
  BY <1>3, <1>6, <1>7, <1>8, <1>9, <1>10, <1>11, <1>12, <1>13, <1>14 DEF IInv

(***************************************************************************)
(* The steps of the type visitor.                                          *)
(***************************************************************************)
LEMMA StatementFields ==
  ASSUME NEW s \in Statements, NEW uses
  PROVE  LET i == With(s, uses)
         IN  /\ s.op \in {"declare", "assign", "return", "if"} /\ i.op = s.op
             /\ i.value = s.value /\ i.value \in Values \cup {<<>>}
             /\ s.op = "declare" => i.type = s.type /\ s.type \in Types
             /\ s.op \in {"declare", "assign"} => i.name = s.name /\ s.name \in Names
             /\ s.op # "declare" => i.value \in Values
<1>1. CASE s \in [op : {"declare"}, type : Types, name : Names, value : Values \cup {<<>>}]
  BY <1>1 DEF With, Bind
<1>2. CASE s \in [op : {"assign"}, name : Names, value : Values]
  BY <1>2 DEF With, Bind
<1>3. CASE s \in [op : {"return", "if"}, value : Values]
  BY <1>3 DEF With, Bind
<1> QED
  BY <1>1, <1>2, <1>3, BodiesAssumption

LEMMA ReturnFields ==
  ASSUME NEW s \in Statements, s.op = "return", NEW uses, NEW type
  PROVE  LET i == Bind(With(s, uses), "type", type)
         IN  i.op = "return" /\ i.value = s.value /\ i.value \in Values /\ i.type = type
<1>1. s \in [op : {"return", "if"}, value : Values]
  BY BodiesAssumption
<1> QED
  BY <1>1 DEF With, Bind

LEMMA ValueFacts ==
  ASSUME NEW value \in Values
  PROVE  value[1] \in Expressions /\ value = <<value[1]>> /\ value # <<>>
BY DEF Values

LEMMA WantsFacts ==
  ASSUME NEW w, NEW c, NEW about
  PROVE  LET v == Wants(w, c, about)
         IN  /\ v.ends = "normally" <=> c.ends = "normally" /\ c.last = w
             /\ v.ends = "abort" <=> c.ends = "abort"
BY DEF Wants, TypeError

LEMMA CheckedHints ==
  ASSUME NEW scopes, TypedNames(scopes), NEW e \in Expressions, NEW h \in Hints
  PROVE  Check(e, h, scopes).hint \in Hints
BY CheckUnfold DEF Checked, Results

(* An item with a value, checked against the type that it has to have.      *)
LEMMA ValueJustified ==
  ASSUME IInv, NEW item, NEW m, m = Len(program), phase = "check", program # <<>>,
         program' = Append(program, item),
         item.op \in {"declare", "assign", "return", "if"}, item.value \in Values,
         NEW w \in Types, NamesDiffer' => Wanted(m + 1)' = w,
         NEW about
  PROVE  Justified(item, Wants(w, Check(item.value[1], w, variables), about), m)
<1>1. PICK e \in Expressions : e = item.value[1] /\ item.value = <<e>> /\ item.value # <<>>
  BY ValueFacts
<1>2. PICK c : c = Check(e, w, variables)
  OBVIOUS
<1>3. PICK v : v = Wants(w, c, about)
  OBVIOUS
<1>4. /\ v.ends = "normally" <=> c.ends = "normally" /\ c.last = w
      /\ v.ends = "abort" <=> c.ends = "abort"
  BY <1>3, WantsFacts
<1>5. /\ Sequence(program) /\ Sequence(variables) /\ Len(variables) = 2 /\ VariablesOK
      /\ \A i \in 1 .. m : ItemOK(i)
  BY CheckerFacts
<1>6. ASSUME NamesDiffer'
      PROVE  /\ c.ends = "normally" /\ c.last = w => RightlyTyped(m + 1)'
             /\ RightlyTyped(m + 1)' /\ ~NotAsOperand(e) => c.ends = "normally" /\ c.last = w
             /\ c.ends # "abort"
  <2>1. Wanted(m + 1)' = w /\ NamesDiffer'
    BY <1>6
  <2>2. item.value = <<e>>
    BY <1>1
  <2> QED
    BY <1>2, <1>5, <2>1, <2>2, Verdict, SMTT(20)
<1>7. Justified(item, v, m)
  BY <1>1, <1>4, <1>6 DEF Justified
<1> QED
  BY <1>1, <1>2, <1>3, <1>7

LEMMA DeclarationStep ==
  ASSUME IInv, CheckDeclaration
  PROVE  IInv'
<1>1. PICK s \in Stated("declare") :
        LET names1     == AddToScope(names, s.name, Visible)
            variables1 == AddToScope(variables, s.name, Declared(s.type))
            check      == IF s.value = <<>> THEN Visited(s.type, s.type, hint)
                          ELSE Check(s.value[1], s.type, variables)
            uses       == IF s.value = <<>> THEN {} ELSE Uses(NamesIn(s.value[1]))
        IN  Checks(With(s, uses), Wants(s.type, check, s), ifs, names1, variables1, check.hint)
  BY DEF CheckDeclaration
<1> DEFINE names1     == AddToScope(names, s.name, Visible)
           variables1 == AddToScope(variables, s.name, Declared(s.type))
           check      == IF s.value = <<>> THEN Visited(s.type, s.type, hint)
                         ELSE Check(s.value[1], s.type, variables)
           uses       == IF s.value = <<>> THEN {} ELSE Uses(NamesIn(s.value[1]))
           item       == With(s, uses)
           v          == Wants(s.type, check, s)
<1>2. Checks(item, v, ifs, names1, variables1, check.hint)
  BY <1>1
<1>3. s \in Statements /\ s.op = "declare"
  BY DEF Stated
<1>4. /\ item.op = "declare" /\ item.type = s.type /\ s.type \in Types
      /\ item.name = s.name /\ s.name \in Names
      /\ item.value = s.value /\ item.value \in Values \cup {<<>>}
  BY <1>3, StatementFields
<1>5. PICK m : m = Len(program)
  OBVIOUS
<1>6. s.value = <<>> => check.ends = "normally" /\ check.last = s.type /\ check.hint = hint
  BY DEF Visited
<1>7. s.value # <<>> => check = Check(s.value[1], s.type, variables) /\ s.value \in Values
  BY <1>4
<1>8. /\ v.ends = "normally" <=> check.ends = "normally" /\ check.last = s.type
      /\ v.ends = "abort" <=> check.ends = "abort"
  BY WantsFacts
<1>9. v = Wants(s.type, check, s)
  OBVIOUS
<1>10. names1 = AddToScope(names, item.name, Visible)
  BY <1>4
<1>11. variables1 = AddToScope(variables, item.name, [type |-> item.type, at |-> m + 1])
  BY <1>4, <1>5 DEF Declared, Here
<1> HIDE DEF item, v, check, names1, variables1, uses
<1>12. phase = "check" /\ program # <<>> /\ program' = Append(program, item)
  BY <1>2, ChecksFacts
<1>13. /\ Sequence(program) /\ Sequence(ifs) /\ Sequence(names) /\ Sequence(variables)
       /\ m \in Nat /\ m # 0 /\ \A i \in 1 .. m : ItemOK(i)
       /\ Len(ifs) = Opened(m) /\ Opened(m) \in Int /\ Opened(m) >= 0 /\ Len(program) \in Nat
       /\ Len(names) = 3 + Opened(m) /\ names # <<>> /\ Len(variables) = 2 /\ variables # <<>>
       /\ NamesOK /\ VariablesOK /\ hint \in Hints
  BY <1>5, <1>12, CheckerFacts
<1>14. /\ Sequence(names1) /\ Len(names1) = Len(names)
       /\ Sequence(variables1) /\ Len(variables1) = 2
  BY <1>10, <1>11, <1>13, SequenceAdd
<1>15. names' = names1 => NamesOK'
  BY <1>4, <1>5, <1>10, <1>12, <1>13, NamesAdded
<1>16. variables' = variables1 => VariablesOK'
  BY <1>4, <1>5, <1>11, <1>12, <1>13, VariablesAdded
<1>17. v.ends = "normally" => names' = names1 /\ variables' = variables1
  BY <1>2, ChecksFacts
<1>18. check.hint \in Hints
  <2>1. CASE s.value = <<>>
    BY <1>6, <1>13, <2>1
  <2>2. CASE s.value # <<>>
    <3>1. TypedNames(variables)
      BY <1>5, <1>13, VariablesFound
    <3>2. s.value[1] \in Expressions /\ s.type \in Hints
      BY <1>4, <1>7, <2>2, ValueFacts DEF Hints
    <3> QED
      BY <1>7, <2>2, <3>1, <3>2, CheckedHints
  <2> QED
    BY <2>1, <2>2
<1>19. Justified(item, v, m)
  <2>1. CASE s.value = <<>>
    BY <1>4, <1>6, <1>8, <2>1 DEF Justified
  <2>2. CASE s.value # <<>>
    <3>1. Wanted(m + 1)' = s.type
      <4>1. program'[m + 1] = item
        BY <1>5, <1>12, <1>13, Grown
      <4> QED
        BY <1>4, <4>1 DEF Wanted
    <3>2. v = Wants(s.type, Check(item.value[1], s.type, variables), s)
      BY <1>4, <1>7, <1>9, <2>2
    <3>3. item.value \in Values
      BY <1>4, <1>7, <2>2
    <3> QED
      BY <1>4, <1>5, <1>12, <3>1, <3>2, <3>3, ValueJustified
  <2> QED
    BY <2>1, <2>2
<1>20. Stands(item)
  BY <1>4 DEF Stands
<1> QED
  BY <1>2, <1>4, <1>5, <1>13, <1>14, <1>15, <1>16, <1>17, <1>18, <1>19, <1>20, ChecksKeepInvariant, SMTT(20)

(* A statement that declares nothing and has a value.                       *)
LEMMA StatementStep ==
  ASSUME IInv, NEW item, NEW m, m = Len(program), NEW w \in Types, NEW about, NEW c, NEW v,
         NEW ifs1, NEW names1, NEW hint1,
         Checks(item, v, ifs1, names1, variables, hint1),
         item.op \in {"assign", "return", "if"}, item.value \in Values,
         c = Check(item.value[1], w, variables), v = Wants(w, c, about),
         item.op = "assign" => item.name \in Names,
         item.op = "return" /\ v.ends = "normally" =>
           item.type = IF item.value[1].op = "not" THEN NoType ELSE program[1].result,
         NamesDiffer' => Wanted(m + 1)' = w, hint1 \in {c.hint, NoType},
         item.op = "if" => ifs1 = <<"then">> \o ifs /\ names1 = EnterScope(names),
         item.op # "if" => ifs1 = ifs /\ names1 = names
  PROVE  IInv'
<1>1. /\ phase = "check" /\ program # <<>> /\ program' = Append(program, item)
      /\ v.ends = "normally" => names' = names1 /\ variables' = variables
  BY ChecksFacts
<1>2. /\ Sequence(program) /\ Sequence(ifs) /\ Sequence(names) /\ Sequence(variables)
      /\ m \in Nat /\ m # 0 /\ \A i \in 1 .. m : ItemOK(i)
      /\ Len(ifs) = Opened(m) /\ Opened(m) \in Int /\ Opened(m) >= 0 /\ Len(ifs) \in Nat
      /\ Len(names) = 3 + Opened(m) /\ Len(variables) = 2
      /\ NamesOK /\ VariablesOK /\ Len(program) \in Nat
  BY <1>1, CheckerFacts
<1>3. Justified(item, v, m)
  BY <1>1, ValueJustified
<1>4. hint1 \in Hints
  <2>1. TypedNames(variables)
    BY <1>2, VariablesFound
  <2>2. item.value[1] \in Expressions /\ w \in Hints
    BY ValueFacts DEF Hints
  <2>3. c.hint \in Hints
    BY <2>1, <2>2, CheckedHints
  <2> QED
    BY <2>3 DEF Hints
<1>5. VariablesOK' \/ v.ends # "normally"
  BY <1>1, <1>2, VariablesKept
<1>6. Stands(item)
  BY DEF Stands
<1>7. CASE item.op = "if"
  <2>1. /\ Sequence(names1) /\ Len(names1) = Len(names) + 1
        /\ names1[Len(names) + 1] = EmptyScope
        /\ \A l \in 1 .. Len(names) : names1[l] = names[l]
    <3>1. names1 = Append(names, EmptyScope)
      BY <1>7 DEF EnterScope
    <3> QED
      BY <1>2, <3>1, SequenceAppend
  <2>2. Sequence(ifs1) /\ Len(ifs1) = Len(ifs) + 1
    <3> DEFINE S == {ifs[i] : i \in 1 .. Len(ifs)} \cup {"then"}
    <3>1. ifs \in Seq(S)
      BY <1>2, SeqMonotonic DEF Sequence
    <3>2. "then" \in S
      OBVIOUS
    <3> HIDE DEF S
    <3>3. <<"then">> \in Seq(S) /\ Len(<<"then">>) = 1
      BY <3>2
    <3>4. ifs1 \in Seq(S) /\ Len(ifs1) = 1 + Len(ifs)
      BY <1>7, <3>1, <3>3, ConcatProperties
    <3> QED
      BY <1>2, <3>4, SequenceFrom
  <2>3. v.ends = "normally" => NamesOK'
    <3> SUFFICES ASSUME v.ends = "normally" PROVE NamesOK'
      OBVIOUS
    <3>1. names' = names1
      BY <1>1
    <3>2. Len(names) \in Nat /\ Len(names) <= Len(names) /\ Len(names) <= Len(names')
      BY <1>2, <2>1, <3>1
    <3>3. \A l \in 1 .. Len(names') : l > Len(names) => names'[l] = EmptyScope
      <4>1. \A l \in 1 .. Len(names') : l > Len(names) => l = Len(names) + 1
        BY <2>1, <3>1, <3>2
      <4> QED
        BY <2>1, <3>1, <4>1
    <3> QED
      BY <1>1, <1>2, <1>7, <2>1, <3>1, <3>2, <3>3, NamesKept
  <2>4. Len(ifs1) = Opened(m) + (IF item.op = "if" THEN 1 ELSE IF item.op = "fi" THEN -1 ELSE 0)
    BY <1>2, <1>7, <2>2
  <2>5. Len(names1) = 3 + Len(ifs1)
    BY <1>2, <2>1, <2>2
  <2> QED
    BY <1>2, <1>3, <1>4, <1>5, <1>6, <1>7, <2>1, <2>2, <2>3, <2>4, <2>5, ChecksKeepInvariant
<1>8. CASE item.op # "if"
  <2>1. v.ends = "normally" => NamesOK'
    <3> SUFFICES ASSUME v.ends = "normally" PROVE NamesOK'
      OBVIOUS
    <3>1. names' = names
      BY <1>1, <1>8
    <3>2. Len(names) \in Nat /\ Len(names) <= Len(names) /\ Len(names) <= Len(names')
      BY <1>2, <3>1
    <3>3. \A l \in 1 .. Len(names') : l > Len(names) => names'[l] = EmptyScope
      BY <3>1, <3>2
    <3> QED
      BY <1>1, <1>2, <1>8, <3>1, <3>2, <3>3, NamesKept
  <2>2. Len(ifs1) = Opened(m) + (IF item.op = "if" THEN 1 ELSE IF item.op = "fi" THEN -1 ELSE 0)
    BY <1>2, <1>8
  <2>3. Len(names1) = 3 + Len(ifs1) /\ Sequence(names1) /\ Sequence(ifs1)
    BY <1>2, <1>8
  <2> QED
    BY <1>2, <1>3, <1>4, <1>5, <1>6, <2>1, <2>2, <2>3, ChecksKeepInvariant
<1> QED
  BY <1>7, <1>8

LEMMA AssignmentStep ==
  ASSUME IInv, CheckAssignment
  PROVE  IInv'
<1>1. PICK s \in Stated("assign") :
        /\ Binders(names, s.name) # {}
        /\ LET type  == Resolve(variables, s.name).type
               check == Check(s.value[1], type, variables)
               uses  == Uses(NamesIn(s.value[1]) \cup {s.name})
           IN  Checks(With(s, uses), Wants(type, check, s), ifs, names, variables, check.hint)
  BY DEF CheckAssignment
<1>2. PICK w : w = Resolve(variables, s.name).type
  OBVIOUS
<1>3. PICK c : c = Check(s.value[1], w, variables)
  OBVIOUS
<1>4. PICK item : item = With(s, Uses(NamesIn(s.value[1]) \cup {s.name}))
  OBVIOUS
<1>5. PICK v : v = Wants(w, c, s)
  OBVIOUS
<1>6. Checks(item, v, ifs, names, variables, c.hint)
  BY <1>1, <1>2, <1>3, <1>4, <1>5
<1>7. s \in Statements /\ s.op = "assign"
  BY DEF Stated
<1>8. /\ item.op = "assign" /\ item.name = s.name /\ s.name \in Names
      /\ item.value = s.value /\ item.value \in Values
  BY <1>4, <1>7, StatementFields
<1>9. PICK m : m = Len(program)
  OBVIOUS
<1>10. phase = "check" /\ program # <<>> /\ program' = Append(program, item)
  BY <1>6, ChecksFacts
<1>11. w \in Types /\ (NamesDiffer' => Wanted(m + 1)' = w)
  <2>1. /\ Sequence(program) /\ Sequence(names) /\ Sequence(variables)
        /\ \A i \in 1 .. m : ItemOK(i)
        /\ Len(variables) = 2 /\ NamesOK /\ VariablesOK
    BY <1>9, <1>10, CheckerFacts
  <2> QED
    BY <1>1, <1>2, <1>8, <1>9, <1>10, <2>1, Assigned
<1>12. c = Check(item.value[1], w, variables)
  BY <1>3, <1>8
<1> QED
  BY <1>5, <1>6, <1>8, <1>9, <1>11, <1>12, StatementStep

LEMMA ReturnStep ==
  ASSUME IInv, CheckReturn
  PROVE  IInv'
<1>1. PICK s \in Stated("return") :
        LET check == Check(s.value[1], program[1].result, variables)
            item  == Bind(With(s, Uses(NamesIn(s.value[1]))), "type", check.type)
        IN  Checks(item, Wants(program[1].result, check, s.value[1]), ifs, names, variables, NoType)
  BY DEF CheckReturn
<1>2. PICK w : w = program[1].result
  OBVIOUS
<1>3. PICK c : c = Check(s.value[1], w, variables)
  OBVIOUS
<1>4. PICK item : item = Bind(With(s, Uses(NamesIn(s.value[1]))), "type", c.type)
  OBVIOUS
<1>5. PICK v : v = Wants(w, c, s.value[1])
  OBVIOUS
<1>6. Checks(item, v, ifs, names, variables, NoType)
  BY <1>1, <1>2, <1>3, <1>4, <1>5
<1>7. s \in Statements /\ s.op = "return"
  BY DEF Stated
<1>8. /\ item.op = "return" /\ item.type = c.type
      /\ item.value = s.value /\ item.value \in Values
  BY <1>4, <1>7, ReturnFields
<1>9. PICK m : m = Len(program)
  OBVIOUS
<1>10. phase = "check" /\ program # <<>> /\ program' = Append(program, item)
  BY <1>6, ChecksFacts
<1>11. /\ Sequence(program) /\ Sequence(variables) /\ \A i \in 1 .. m : ItemOK(i)
       /\ Len(variables) = 2 /\ VariablesOK /\ m \in Nat /\ m # 0 /\ Len(program) \in Nat
  BY <1>9, <1>10, CheckerFacts
<1>12. w \in Types
  <2>1. 1 \in 1 .. m
    BY <1>11
  <2> QED
    BY <1>2, <1>11, <2>1 DEF ItemOK
<1>13. Wanted(m + 1)' = w
  <2>1. program'[m + 1] = item /\ program'[1] = program[1]
    <3>1. program'[m + 1] = item /\ \A i \in 1 .. m : program'[i] = program[i]
      BY <1>9, <1>10, <1>11, Grown
    <3>2. 1 \in 1 .. m
      BY <1>11
    <3> QED
      BY <3>1, <3>2
  <2> QED
    BY <1>2, <1>8, <2>1 DEF Wanted
<1>14. c = Check(item.value[1], w, variables)
  BY <1>3, <1>8
<1>15. ASSUME v.ends = "normally"
       PROVE  item.type = IF item.value[1].op = "not" THEN NoType ELSE program[1].result
  <2>1. c.ends = "normally" /\ c.last = w
    BY <1>5, <1>15, WantsFacts
  <2>2. PICK e \in Expressions : e = item.value[1]
    BY <1>8, ValueFacts
  <2>3. TypedNames(variables) /\ w \in Hints
    BY <1>9, <1>11, <1>12, VariablesFound DEF Hints
  <2>4. CASE e.op = "not"
    <3>1. c = NotType(e, Check(e.right, Bool, variables))
      BY <1>14, <2>2, <2>3, <2>4, CheckUnfold DEF Checked
    <3>2. c.type = NoType
      BY <2>1, <3>1 DEF NotType, Visited, TypeError
    <3> QED
      BY <1>8, <2>2, <2>4, <3>2
  <2>5. CASE e.op # "not"
    <3>1. c.type = c.last
      BY <1>14, <2>1, <2>2, <2>3, <2>5, TypeIsLast
    <3> QED
      BY <1>2, <1>8, <2>1, <2>2, <2>5, <3>1
  <2> QED
    BY <2>4, <2>5
<1> QED
  BY <1>5, <1>6, <1>8, <1>9, <1>12, <1>13, <1>14, <1>15, StatementStep

LEMMA IfStep ==
  ASSUME IInv, CheckIf
  PROVE  IInv'
<1>1. PICK s \in Stated("if") :
        LET check == Check(s.value[1], Bool, variables)
        IN  Checks(With(s, Uses(NamesIn(s.value[1]))), Wants(Bool, check, s), <<"then">> \o ifs,
                   EnterScope(names), variables, NoType)
  BY DEF CheckIf
<1>2. PICK c : c = Check(s.value[1], Bool, variables)
  OBVIOUS
<1>3. PICK item : item = With(s, Uses(NamesIn(s.value[1])))
  OBVIOUS
<1>4. PICK v : v = Wants(Bool, c, s)
  OBVIOUS
<1>5. Checks(item, v, <<"then">> \o ifs, EnterScope(names), variables, NoType)
  BY <1>1, <1>2, <1>3, <1>4
<1>6. s \in Statements /\ s.op = "if"
  BY DEF Stated
<1>7. item.op = "if" /\ item.value = s.value /\ item.value \in Values
  BY <1>3, <1>6, StatementFields
<1>8. PICK m : m = Len(program)
  OBVIOUS
<1>9. phase = "check" /\ program # <<>> /\ program' = Append(program, item)
  BY <1>5, ChecksFacts
<1>10. Wanted(m + 1)' = Bool
  <2>1. Sequence(program)
    BY DEF IInv
  <2>2. program'[m + 1] = item
    BY <1>8, <1>9, <2>1, Grown
  <2> QED
    BY <1>7, <2>2 DEF Wanted
<1>11. c = Check(item.value[1], Bool, variables) /\ Bool \in Types
  BY <1>2, <1>7, TypeRulesAssumption
<1> QED
  BY <1>4, <1>5, <1>7, <1>8, <1>10, <1>11, StatementStep

LEMMA TailSequence ==
  ASSUME NEW s, Sequence(s), s # <<>>
  PROVE  /\ Sequence(Tail(s)) /\ Len(Tail(s)) = Len(s) - 1
         /\ \A x : Sequence(<<x>> \o Tail(s)) /\ Len(<<x>> \o Tail(s)) = Len(s)
<1> DEFINE S == {s[i] : i \in 1 .. Len(s)}
<1>1. s \in Seq(S)
  BY DEF Sequence
<1> HIDE DEF S
<1>2. Tail(s) \in Seq(S) /\ Len(Tail(s)) = Len(s) - 1
  BY <1>1, HeadTailProperties
<1>3. ASSUME NEW x PROVE Sequence(<<x>> \o Tail(s)) /\ Len(<<x>> \o Tail(s)) = Len(s)
  <2>1. Tail(s) \in Seq(S \cup {x})
    BY <1>2, SeqMonotonic
  <2>2. PICK T : T = S \cup {x}
    OBVIOUS
  <2>3. <<x>> \in Seq(T) /\ Len(<<x>>) = 1
    BY <2>2
  <2>4. <<x>> \o Tail(s) \in Seq(T) /\ Len(<<x>> \o Tail(s)) = 1 + Len(Tail(s))
    BY <2>1, <2>2, <2>3, ConcatProperties
  <2>5. Len(s) \in Nat
    BY SequenceFacts
  <2>6. PICK t : t = <<x>> \o Tail(s)
    OBVIOUS
  <2>7. Sequence(t)
    BY <2>4, <2>6, SequenceFrom
  <2>8. Len(t) = Len(s)
    <3>1. PICK a : a = Len(Tail(s))
      OBVIOUS
    <3>2. a = Len(s) - 1 /\ Len(t) = 1 + a
      BY <1>2, <2>4, <2>6, <3>1
    <3> QED
      BY <2>5, <3>2
  <2> QED
    BY <2>6, <2>7, <2>8
<1> QED
  BY <1>2, <1>3, SequenceFrom

(* An else or a fi.                                                         *)
LEMMA BranchStep ==
  ASSUME IInv, ifs # <<>>, NEW item, item.op \in {"else", "fi"}, NEW ifs1, NEW names1,
         Checks(item, Fine, ifs1, names1, variables, hint),
         item.op = "else" => ifs1 = <<"else">> \o Tail(ifs) /\ names1 = EnterScope(ExitScope(names)),
         item.op = "fi" => ifs1 = Tail(ifs) /\ names1 = ExitScope(names)
  PROVE  IInv'
<1>1. PICK v : v = Fine
  OBVIOUS
<1>2. v.ends = "normally"
  BY <1>1 DEF Fine, Visited
<1>3. /\ phase = "check" /\ program # <<>> /\ program' = Append(program, item)
      /\ names' = names1 /\ variables' = variables
  BY <1>1, <1>2, ChecksFacts
<1>4. PICK m : m = Len(program)
  OBVIOUS
<1>5. /\ Sequence(program) /\ Sequence(ifs) /\ Sequence(names) /\ Sequence(variables)
      /\ m \in Nat /\ m # 0
      /\ Len(ifs) = Opened(m) /\ Opened(m) \in Int /\ Opened(m) >= 0 /\ Len(ifs) # 0
      /\ Len(names) = 3 + Opened(m) /\ names # <<>> /\ Len(variables) = 2
      /\ NamesOK /\ VariablesOK /\ hint \in Hints
  BY <1>3, <1>4, CheckerFacts
<1>6. Opened(m) >= 1
  BY <1>5
<1>7. VariablesOK'
  BY <1>3, <1>4, <1>5, VariablesKept
<1>8. Stands(item)
  BY DEF Stands
<1>9. Justified(item, v, m)
  BY <1>2 DEF Justified
<1>10. PICK exited : exited = ExitScope(names)
  OBVIOUS
<1>11. /\ Sequence(exited) /\ Len(exited) = Len(names) - 1
       /\ \A l \in 1 .. Len(names) - 1 : exited[l] = names[l]
  BY <1>5, <1>10, SequenceExit
<1>12. PICK k \in Nat : k = Len(names) - 1
  BY <1>5, <1>6
<1>13. CASE item.op = "else"
  <2>1. Sequence(ifs1) /\ Len(ifs1) = Len(ifs)
    BY <1>5, <1>13, TailSequence
  <2>2. names1 = Append(exited, EmptyScope)
    BY <1>10, <1>13 DEF EnterScope
  <2>3. /\ Sequence(names1) /\ Len(names1) = k + 1 /\ names1[k + 1] = EmptyScope
        /\ \A l \in 1 .. k : names1[l] = names[l]
    BY <1>11, <1>12, <2>2, SequenceAppend
  <2>4. Len(names) = k + 1 /\ k <= Len(names) /\ k <= Len(names')
    BY <1>3, <1>5, <1>12, <2>3
  <2>5. \A l \in 1 .. Len(names') : l > k => names'[l] = EmptyScope
    <3>1. \A l \in 1 .. k + 1 : l > k => l = k + 1
      OBVIOUS
    <3> QED
      BY <1>3, <2>3, <3>1
  <2>6. NamesOK'
    <3>1. \A l \in 1 .. k : names'[l] = names[l]
      BY <1>3, <2>3
    <3>2. k <= Len(names) - 1
      BY <2>4
    <3> QED
      BY <1>3, <1>4, <1>5, <1>6, <1>12, <2>4, <2>5, <3>1, <3>2, NamesKept
  <2>7. Len(ifs1) = Opened(m) + (IF item.op = "if" THEN 1 ELSE IF item.op = "fi" THEN -1 ELSE 0)
    BY <1>5, <1>13, <2>1
  <2>8. Len(names1) = 3 + Len(ifs1)
    BY <1>5, <2>1, <2>3, <2>4
  <2> QED
    BY <1>1, <1>2, <1>4, <1>5, <1>6, <1>7, <1>8, <1>9, <1>13, <2>1, <2>3, <2>6, <2>7, <2>8,
       ChecksKeepInvariant
<1>14. CASE item.op = "fi"
  <2>1. Sequence(ifs1) /\ Len(ifs1) = Len(ifs) - 1
    BY <1>5, <1>14, TailSequence
  <2>2. names1 = exited
    BY <1>10, <1>14
  <2>3. Len(names) = k + 1 /\ k <= Len(names) /\ k <= Len(names') /\ Len(names') = k
    BY <1>3, <1>5, <1>11, <1>12, <2>2
  <2>4. \A l \in 1 .. k : names'[l] = names[l]
    BY <1>3, <1>11, <1>12, <2>2
  <2>5. \A l \in 1 .. Len(names') : l > k => names'[l] = EmptyScope
    BY <2>3
  <2>6. NamesOK'
    BY <1>3, <1>4, <1>5, <1>6, <1>12, <2>3, <2>4, <2>5, NamesKept
  <2>7. Len(ifs1) = Opened(m) + (IF item.op = "if" THEN 1 ELSE IF item.op = "fi" THEN -1 ELSE 0)
    BY <1>5, <1>14, <2>1
  <2>8. Len(names1) = 3 + Len(ifs1) /\ Sequence(names1)
    BY <1>5, <1>11, <2>1, <2>2
  <2> QED
    BY <1>1, <1>2, <1>4, <1>5, <1>6, <1>7, <1>8, <1>9, <1>14, <2>1, <2>6, <2>7, <2>8,
       ChecksKeepInvariant
<1> QED
  BY <1>13, <1>14

LEMMA ElseStep ==
  ASSUME IInv, CheckElse
  PROVE  IInv'
<1>1. PICK item : item = [op |-> "else"]
  OBVIOUS
<1>2. /\ ifs # <<>> /\ item.op = "else"
      /\ Checks(item, Fine, <<"else">> \o Tail(ifs), EnterScope(ExitScope(names)), variables, hint)
  BY <1>1 DEF CheckElse
<1>3. PICK ifs1, names1 : ifs1 = <<"else">> \o Tail(ifs) /\ names1 = EnterScope(ExitScope(names))
  OBVIOUS
<1>4. Checks(item, Fine, ifs1, names1, variables, hint)
  BY <1>2, <1>3
<1>5. item.op = "else" => ifs1 = <<"else">> \o Tail(ifs) /\ names1 = EnterScope(ExitScope(names))
  BY <1>3
<1>6. item.op = "fi" => ifs1 = Tail(ifs) /\ names1 = ExitScope(names)
  BY <1>2
<1>7. ifs # <<>> /\ item.op \in {"else", "fi"}
  BY <1>2
<1> QED
  BY <1>4, <1>5, <1>6, <1>7, BranchStep

LEMMA FiStep ==
  ASSUME IInv, CheckFi
  PROVE  IInv'
<1>1. PICK item : item = [op |-> "fi"]
  OBVIOUS
<1>2. /\ ifs # <<>> /\ item.op = "fi"
      /\ Checks(item, Fine, Tail(ifs), ExitScope(names), variables, hint)
  BY <1>1 DEF CheckFi
<1>3. PICK ifs1, names1 : ifs1 = Tail(ifs) /\ names1 = ExitScope(names)
  OBVIOUS
<1>4. Checks(item, Fine, ifs1, names1, variables, hint)
  BY <1>2, <1>3
<1>5. item.op = "else" => ifs1 = <<"else">> \o Tail(ifs) /\ names1 = EnterScope(ExitScope(names))
  BY <1>2
<1>6. item.op = "fi" => ifs1 = Tail(ifs) /\ names1 = ExitScope(names)
  BY <1>3
<1>7. ifs # <<>> /\ item.op \in {"else", "fi"}
  BY <1>2
<1> QED
  BY <1>4, <1>5, <1>6, <1>7, BranchStep

LEMMA EndStep ==
  ASSUME IInv, CheckEnd
  PROVE  IInv'
<1>1. PICK item : item = [op |-> "end"]
  OBVIOUS
<1>2. /\ phase = "check" /\ program # <<>> /\ ifs = <<>> /\ program' = Append(program, item)
      /\ names' = ExitScope(ExitScope(names)) /\ variables' = ExitScope(variables)
      /\ phase' = "generate"
      /\ UNCHANGED <<ifs, hint, outcome, generator>>
  BY <1>1 DEF CheckEnd
<1>3. PICK m : m = Len(program)
  OBVIOUS
<1>4. /\ Sequence(program) /\ Sequence(ifs) /\ Sequence(names) /\ Sequence(variables)
      /\ m \in Nat /\ m # 0 /\ \A i \in 1 .. m : ItemOK(i)
      /\ Opened(m) = 0 /\ m <= MaxItems + 1
      /\ Len(names) = 3 /\ names # <<>> /\ Len(variables) = 2 /\ variables # <<>>
      /\ pc = 1 /\ slots = <<>> /\ outcome = "compiling"
      /\ emitted = Nothing /\ hint \in Hints /\ MaxItems \in Nat
  <2>1. /\ Sequence(program) /\ Sequence(ifs) /\ Sequence(names) /\ Sequence(variables)
        /\ m \in Nat /\ m # 0 /\ \A i \in 1 .. m : ItemOK(i)
        /\ Len(ifs) = Opened(m) /\ (ifs = <<>> <=> Len(ifs) = 0)
        /\ m + Len(ifs) <= MaxItems + 1 /\ MaxItems \in Nat
        /\ Len(names) = 3 + Opened(m) /\ names # <<>> /\ Len(variables) = 2 /\ variables # <<>>
        /\ pc = 1 /\ slots = <<>> /\ outcome = "compiling"
        /\ emitted = Nothing /\ hint \in Hints
    BY <1>2, <1>3, CheckerFacts
  <2>2. Opened(m) = 0 /\ Len(ifs) = 0
    BY <1>2, <2>1
  <2>3. Len(names) = 3 /\ m <= MaxItems + 1
    BY <2>1, <2>2
  <2> QED
    BY <2>1, <2>2, <2>3
<1>5. /\ Sequence(program') /\ Len(program') = m + 1 /\ program' # <<>>
      /\ program'[m + 1] = item /\ \A i \in 1 .. m : program'[i] = program[i]
  BY <1>2, <1>3, <1>4, Grown
<1>6. Opened(m + 1)' = 0
  BY <1>1, <1>2, <1>3, <1>4, GrownLive
<1>7. Sequence(names') /\ Len(names') = 1 /\ Sequence(variables') /\ Len(variables') = 1
  <2>1. \A s : Sequence(s) /\ s # <<>> => Sequence(ExitScope(s)) /\ Len(ExitScope(s)) = Len(s) - 1
    BY SequenceExit
  <2>2. PICK once : once = ExitScope(names)
    OBVIOUS
  <2>3. Sequence(once) /\ Len(once) = 3 - 1
    BY <1>4, <2>1, <2>2
  <2>4. once # <<>>
    BY <2>3, SequenceFacts
  <2>5. Sequence(ExitScope(once)) /\ Len(ExitScope(once)) = 3 - 1 - 1
    BY <2>1, <2>3, <2>4
  <2>6. Sequence(ExitScope(variables)) /\ Len(ExitScope(variables)) = 2 - 1
    BY <1>4, <2>1
  <2>7. names' = ExitScope(once) /\ variables' = ExitScope(variables)
    BY <1>2, <2>2
  <2> QED
    BY <2>5, <2>6, <2>7
<1>8. \A i \in 1 .. m + 1 : ItemOK(i)'
  <2>1. \A i \in 1 .. m : ItemOK(i)'
    <3>1. CheckerOK
      BY DEF IInv
    <3> QED
      BY <1>2, <1>3, <1>4, <3>1, ItemsKept
  <2>2. ItemOK(m + 1)'
    <3>1. m + 1 # 1
      BY <1>4
    <3> QED
      BY <1>1, <1>5, <1>6, <3>1 DEF ItemOK
  <2>3. \A i \in 1 .. m + 1 : i = m + 1 \/ i \in 1 .. m
    BY <1>4
  <2> QED
    BY <2>1, <2>2, <2>3
<1>9. outcome' = "compiling" /\ pc' = 1 /\ slots' = <<>> /\ emitted' = Nothing
      /\ UNCHANGED <<current, last>> /\ ifs' = ifs /\ hint' = hint
  BY <1>2, <1>4 DEF generator
<1>10. AcceptedHasType' /\ HasTypeAccepted'
  <2>1. PICK v : v = Fine
    OBVIOUS
  <2>2. v.ends = "normally"
    BY <2>1 DEF Fine, Visited
  <2>3. Justified(item, v, m)
    BY <1>1, <2>2 DEF Justified
  <2>4. AcceptedHasType /\ HasTypeAccepted /\ outcome' \in Outcomes
    BY <1>9 DEF IInv, Outcomes
  <2> QED
    BY <1>2, <1>3, <1>4, <1>9, <2>2, <2>3, <2>4, VerdictsKept
<1>11. SlotsOK(<<>>, 0)'
  <2>1. Sequence(<<>>) /\ Len(<<>>) = 0
    BY EmptySeq, SequenceFrom
  <2>2. \A n : Live(n, 0)' = {}
    BY DEF Live
  <2>3. 1 .. 0 = {}
    OBVIOUS
  <2> QED
    BY <2>1, <2>2, <2>3 DEF SlotsOK
<1>12. GeneratorOK'
  <2>1. m + 1 >= 2 /\ 1 \in 1 .. m + 1 /\ 1 - 1 = 0 /\ Len(<<>>) = 0
    BY <1>4
  <2>2. SlotsOK(slots, pc - 1)'
    <3>1. slots' = <<>> /\ pc' - 1 = 0
      BY <1>9
    <3> QED
      BY <1>11, <3>1
  <2>3. Opened(Len(program))' = 0
    BY <1>5, <1>6 DEF Opened, Count
  <2>4. program'[Len(program')].op = "end"
    BY <1>1, <1>5
  <2>5. Len(slots') <= pc' - 1 /\ pc' \in 1 .. Len(program') /\ Len(program') >= 2
    BY <1>5, <1>9, <2>1
  <2> QED
    BY <1>9, <2>2, <2>3, <2>4, <2>5 DEF GeneratorOK
<1>13. TypeOK'
  <2>1. m + 1 <= MaxItems + 2 /\ 1 \in 1 .. m + 1 /\ 0 <= 1 /\ Len(<<>>) = 0
    BY <1>4
  <2>2. current' \in Types \cup {NoType} /\ last' \in Nat /\ emitted'.pairs \subseteq Nat \X Nat
    BY <1>4, <1>9 DEF IInv, TypeOK
  <2> QED
    BY <1>2, <1>4, <1>5, <1>7, <1>9, <2>1, <2>2 DEF TypeOK, Outcomes
<1>14. CheckerOK' /\ Fresh'
  BY <1>2, <1>4, <1>9 DEF CheckerOK, Fresh, IInv
<1> QED
  BY <1>2, <1>4, <1>5, <1>7, <1>8, <1>9, <1>10, <1>12, <1>13, <1>14 DEF IInv

LEMMA EmptySequence == Sequence(<<>>) /\ Len(<<>>) = 0
BY EmptySeq, SequenceFrom

LEMMA SingletonSequence ==
  ASSUME NEW x
  PROVE  Sequence(<<x>>) /\ Len(<<x>>) = 1 /\ <<x>>[1] = x /\ <<x>> # <<>>
<1>1. PICK S : S = {x}
  OBVIOUS
<1>2. <<x>> \in Seq(S)
  BY <1>1
<1> QED
  BY <1>2, SequenceFrom

LEMMA SignatureFields ==
  ASSUME NEW signature \in Signatures
  PROVE  LET i == Bind(signature, "op", "function")
         IN  /\ i.op = "function" /\ i.result \in Types
             /\ i.parameters = signature.parameters
             /\ i.parameters \in Seq([type : Types, name : Names])
             /\ \A k, l \in DOMAIN i.parameters : i.parameters[k].name = i.parameters[l].name => k = l
<1>1. signature \in [result : Types, parameters : Seq([type : Types, name : Names])]
  BY BodiesAssumption
<1>2. PICK i : i = Bind(signature, "op", "function")
  OBVIOUS
<1>3. /\ i.op = "function" /\ i.result = signature.result /\ i.parameters = signature.parameters
      /\ signature.result \in Types
      /\ signature.parameters \in Seq([type : Types, name : Names])
  BY <1>1, <1>2 DEF Bind
<1>4. \A k, l \in DOMAIN signature.parameters :
        signature.parameters[k].name = signature.parameters[l].name => k = l
  BY BodiesAssumption
<1> QED
  BY <1>2, <1>3, <1>4

LEMMA FunctionStep ==
  ASSUME IInv, CheckFunction
  PROVE  IInv'
<1>1. PICK signature \in Signatures :
        LET ps == signature.parameters
        IN  /\ program' = <<Bind(signature, "op", "function")>>
            /\ names' = EnterScope(Append(names, [n \in Parameters(ps) |-> Visible]))
            /\ variables' = Append(variables, [n \in Parameters(ps) |-> Declared(ParameterType(ps, n))])
  BY DEF CheckFunction
<1>2. PICK item : item = Bind(signature, "op", "function")
  OBVIOUS
<1>3. PICK ps : ps = item.parameters
  OBVIOUS
<1>4. /\ item.op = "function" /\ item.result \in Types /\ ps = signature.parameters
      /\ ps \in Seq([type : Types, name : Names])
      /\ \A k, l \in DOMAIN ps : ps[k].name = ps[l].name => k = l
  BY <1>2, <1>3, SignatureFields
<1>5. /\ program = <<>> /\ phase = "check" /\ ifs = <<>> /\ names = <<EmptyScope>>
      /\ variables = <<EmptyScope>> /\ pc = 1 /\ slots = <<>> /\ outcome = "compiling"
      /\ hint \in Hints /\ MaxItems \in Nat
      /\ current \in Types \cup {NoType} /\ last \in Nat /\ emitted.pairs \subseteq Nat \X Nat
  BY BodiesAssumption DEF CheckFunction, IInv, CheckerOK, TypeOK
<1>6. ifs' = ifs /\ hint' = hint /\ phase' = phase /\ outcome' = outcome
      /\ pc' = pc /\ slots' = slots /\ UNCHANGED <<current, last, emitted>>
  BY DEF CheckFunction, generator
<1>7. /\ Sequence(program') /\ Len(program') = 1 /\ program'[1] = item /\ program' # <<>>
      /\ DOMAIN program' = 1 .. 1
  <2>1. program' = <<item>>
    BY <1>1, <1>2
  <2>2. Sequence(program') /\ Len(program') = 1 /\ program'[1] = item /\ program' # <<>>
    BY <2>1, SingletonSequence
  <2> QED
    BY <2>2, SequenceFacts
<1>8. \A i \in 1 .. 1 : i = 1
  OBVIOUS
<1>9. Opened(1)' = 0
  <2>1. 0 \in Nat /\ 0 + 1 = 1
    OBVIOUS
  <2>2. Opened(0)' = 0
    BY StepsHoldNext DEF Steps
  <2>3. Opened(0 + 1)' = Opened(0)' + (IF program'[0 + 1].op = "if" THEN 1
                                       ELSE IF program'[0 + 1].op = "fi" THEN -1 ELSE 0)
    BY <2>1, StepsHoldNext DEF Steps
  <2>4. program'[1].op = "function"
    BY <1>4, <1>7
  <2>5. Opened(0 + 1)' = Opened(1)'
    BY <2>1
  <2> QED
    BY <2>1, <2>2, <2>3, <2>4, <2>5
<1>10. \A n : Declares(1, n)' <=> n \in Parameters(ps)
  BY <1>3, <1>4, <1>7 DEF Declares
<1>11. \A n : n \in Parameters(ps) => 1 \in Live(n, 1)'
  <2>1. \A n : 0 + 1 \in Live(n, 0 + 1)' <=> Declares(0 + 1, n)'
    <3>1. 0 \in Nat
      OBVIOUS
    <3> QED
      BY <3>1, StepsHoldNext DEF Steps
  <2>2. 0 + 1 = 1
    OBVIOUS
  <2> QED
    BY <1>10, <2>1, <2>2
<1>12. \A i \in 1 .. Len(program') : ItemOK(i)'
  <2>1. program'[1].op = "function" /\ program'[1].parameters = ps /\ program'[1].result \in Types
    BY <1>3, <1>4, <1>7
  <2>2. Opened(1)' >= 0
    BY <1>9
  <2>3. ItemOK(1)'
    BY <1>4, <2>1, <2>2 DEF ItemOK
  <2> QED
    BY <1>7, <1>8, <2>3
<1>13. /\ Sequence(names') /\ Len(names') = 3 /\ names'[1] = EmptyScope /\ names'[3] = EmptyScope
       /\ names'[2] = [n \in Parameters(ps) |-> Visible]
  <2>1. PICK one : one = [n \in Parameters(ps) |-> Visible]
    OBVIOUS
  <2>2. names' = Append(Append(names, one), EmptyScope)
    BY <1>1, <1>4, <2>1 DEF EnterScope
  <2>3. Sequence(names) /\ Len(names) = 1 /\ names[1] = EmptyScope
    BY <1>5, SingletonSequence
  <2>4. PICK two : two = Append(names, one)
    OBVIOUS
  <2>5. Sequence(two) /\ Len(two) = 1 + 1 /\ two[1 + 1] = one /\ \A i \in 1 .. 1 : two[i] = names[i]
    <3>1. PICK k \in Nat : k = 1
      OBVIOUS
    <3>2. Sequence(names) /\ k = Len(names)
      BY <2>3, <3>1
    <3>3. /\ Sequence(two) /\ Len(two) = k + 1 /\ two[k + 1] = one
          /\ \A i \in 1 .. k : two[i] = names[i]
      BY <2>4, <3>2, SequenceAppend
    <3> QED
      BY <3>1, <3>3
  <2>6. two[1] = EmptyScope /\ 1 \in 1 .. 1 /\ 1 \in 1 .. 2 /\ 2 \in 1 .. 2 /\ Len(two) = 2
    BY <2>3, <2>5
  <2>7. /\ Sequence(names') /\ Len(names') = 2 + 1 /\ names'[2 + 1] = EmptyScope
        /\ \A i \in 1 .. 2 : names'[i] = two[i]
    <3>1. PICK k \in Nat : k = 2
      OBVIOUS
    <3>2. k = Len(two) /\ names' = Append(two, EmptyScope)
      BY <2>2, <2>4, <2>6, <3>1
    <3>3. /\ Sequence(names') /\ Len(names') = k + 1 /\ names'[k + 1] = EmptyScope
          /\ \A i \in 1 .. k : names'[i] = two[i]
      <4>1. Sequence(two)
        BY <2>5
      <4> QED
        BY <3>2, <4>1, SequenceAppend
    <3> QED
      BY <3>1, <3>3
  <2> QED
    BY <2>1, <2>5, <2>6, <2>7
<1>14. /\ Sequence(variables') /\ Len(variables') = 2 /\ variables'[1] = EmptyScope
       /\ variables'[2] = [n \in Parameters(ps) |-> [type |-> ParameterType(ps, n), at |-> 1]]
  <2>1. PICK one : one = [n \in Parameters(ps) |-> [type |-> ParameterType(ps, n), at |-> 1]]
    OBVIOUS
  <2>2. \A type : Declared(type) = [type |-> type, at |-> 1]
    <3>1. Len(program) + 1 = 1
      BY <1>5, EmptySequence
    <3> QED
      BY <3>1 DEF Declared, Here
  <2>3. variables' = Append(variables, one)
    BY <1>1, <1>4, <2>1, <2>2
  <2>4. Sequence(variables) /\ Len(variables) = 1 /\ variables[1] = EmptyScope
    BY <1>5, SingletonSequence
  <2>5. /\ Sequence(variables') /\ Len(variables') = 1 + 1 /\ variables'[1 + 1] = one
        /\ \A i \in 1 .. 1 : variables'[i] = variables[i]
    <3>1. PICK k \in Nat : k = 1
      OBVIOUS
    <3>2. Sequence(variables) /\ k = Len(variables)
      BY <2>4, <3>1
    <3>3. /\ Sequence(variables') /\ Len(variables') = k + 1 /\ variables'[k + 1] = one
          /\ \A i \in 1 .. k : variables'[i] = variables[i]
      BY <2>3, <3>2, SequenceAppend
    <3> QED
      BY <3>1, <3>3
  <2>6. 1 \in 1 .. 1
    OBVIOUS
  <2> QED
    BY <2>1, <2>4, <2>5, <2>6
<1>15. NamesOK'
  <2> SUFFICES ASSUME NEW l \in 1 .. 3, NEW n \in Names, n \in DOMAIN names'[l]
               PROVE  \E j \in Live(n, 1)' : Opened(j)' = IF l <= 3 THEN 0 ELSE l - 3
    BY <1>7, <1>13 DEF NamesOK
  <2>1. l = 2
    <3>1. l = 1 \/ l = 2 \/ l = 3
      OBVIOUS
    <3> QED
      BY <1>13, <3>1 DEF EmptyScope
  <2>2. n \in Parameters(ps)
    BY <1>13, <2>1
  <2> QED
    BY <1>9, <1>11, <2>1, <2>2
<1>16. VariablesOK'
  <2>1. ASSUME NEW n \in Names, NEW j \in 1 .. 1, Declares(j, n)' PROVE n \in DOMAIN variables'[2]
    BY <1>8, <1>10, <1>14, <2>1
  <2>2. ASSUME NEW n \in Names, n \in DOMAIN variables'[2]
        PROVE  \E a \in 1 .. 1 : Declares(a, n)' /\ variables'[2][n] = [type |-> TypeAt(n, a)', at |-> a]
    <3>1. n \in Parameters(ps) /\ 1 \in 1 .. 1
      BY <1>14, <2>2
    <3>2. TypeAt(n, 1)' = ParameterType(ps, n)
      <4>1. program'[1].op = "function" /\ program'[1].parameters = ps
        BY <1>3, <1>4, <1>7
      <4>2. 1 # 0
        OBVIOUS
      <4> QED
        BY <4>1, <4>2 DEF TypeAt
    <3> QED
      BY <1>10, <1>14, <3>1, <3>2
  <2> QED
    BY <1>7, <1>14, <2>1, <2>2 DEF VariablesOK
<1>17. Sequence(ifs') /\ Len(ifs') = 0
  BY <1>5, <1>6, EmptySequence
<1>18. CheckerOK'
  <2>1. Len(ifs') = Opened(Len(program))'
    <3>1. Opened(Len(program))' = Opened(1)'
      BY <1>7 DEF Opened, Count
    <3> QED
      BY <1>9, <1>17, <3>1
  <2>2. Len(program') + Len(ifs') <= MaxItems + 1 /\ Len(names') = 3 + Len(ifs')
    BY <1>5, <1>7, <1>13, <1>17
  <2>3. \A i \in 1 .. Len(program') : program'[i].op # "end"
    BY <1>4, <1>7, <1>8
  <2> QED
    BY <1>5, <1>6, <1>7, <1>14, <1>15, <1>16, <2>1, <2>2, <2>3 DEF CheckerOK
<1>19. AcceptedHasType' /\ HasTypeAccepted'
  <2>1. \A i \in 1 .. 1 : ~HasValue(i)'
    BY <1>4, <1>7, <1>8 DEF HasValue
  <2> QED
    BY <1>5, <1>6, <1>7, <2>1 DEF AcceptedHasType, HasTypeAccepted
<1>20. TypeOK'
  <2>1. 1 <= MaxItems + 2 /\ 3 = 3 + 0 /\ ~(1 > 1)
    BY <1>5
  <2> QED
    BY <1>5, <1>6, <1>7, <1>13, <1>14, <1>17, <2>1 DEF TypeOK, Outcomes
<1>21. GeneratorOK' /\ Fresh'
  BY <1>5, <1>6 DEF GeneratorOK, Fresh, IInv
<1> QED
  BY <1>5, <1>6, <1>7, <1>12, <1>13, <1>14, <1>17, <1>18, <1>19, <1>20, <1>21 DEF IInv

LEMMA InitialInvariant ==
  ASSUME Init
  PROVE  IInv
<1>1. /\ Sequence(program) /\ Len(program) = 0 /\ Sequence(ifs)
      /\ Sequence(names) /\ Len(names) = 1 /\ Sequence(variables) /\ Len(variables) = 1
  BY EmptySequence, SingletonSequence DEF Init
<1>2. DOMAIN program = 1 .. 0 /\ 1 .. 0 = {}
  BY <1>1, SequenceFacts
<1>3. CheckerOK /\ GeneratorOK /\ Fresh
  BY DEF Init, CheckerOK, GeneratorOK, Fresh
<1>4. AcceptedHasType /\ HasTypeAccepted
  BY <1>2 DEF Init, AcceptedHasType, HasTypeAccepted
<1>5. TypeOK
  <2>1. MaxItems \in Nat /\ 0 <= MaxItems + 2 /\ ~(1 > 1)
    BY BodiesAssumption
  <2> QED
    BY <1>1, <2>1 DEF Init, TypeOK, Outcomes, Hints, Null, Nothing
<1> QED
  BY <1>1, <1>2, <1>3, <1>4, <1>5 DEF Init, IInv


(***************************************************************************)
(* The slots of the code generator.                                        *)
(***************************************************************************)
LEMMA SlotsOKParts ==
  ASSUME NEW s, NEW k \in Nat, SlotsOK(s, k), NEW n \in Names
  PROVE  /\ Sequence(s) /\ Len(s) \in Nat
         /\ \A l \in 1 .. Len(s) : n \in DOMAIN s[l] =>
              /\ s[l][n].at \in Live(n, k) /\ s[l][n].at \in 1 .. k /\ Opened(s[l][n].at) = l - 1
              /\ s[l][n].type = TypeAt(n, s[l][n].at)
         /\ \A j \in Live(n, k) :
              /\ j \in 1 .. k /\ 1 + Opened(j) \in 1 .. Len(s) /\ n \in DOMAIN s[1 + Opened(j)]
              /\ j <= s[1 + Opened(j)][n].at
         /\ \A l, m \in 1 .. Len(s) :
              n \in DOMAIN s[l] /\ n \in DOMAIN s[m] /\ l < m => s[l][n].at < s[m][n].at
<1>1. \A j \in Live(n, k) : j \in 1 .. k
  BY DEF Live
<1>2. Sequence(s)
  BY DEF SlotsOK
<1>3. Len(s) \in Nat
  BY <1>2, SequenceFacts
<1> QED
  BY <1>1, <1>2, <1>3 DEF SlotsOK

(* An item that declares nothing: the scopes up to c stay, those above are  *)
(* new.                                                                     *)
LEMMA SlotsKept ==
  ASSUME NEW s, NEW k \in Nat, k # 0, SlotsOK(s, k), NEW q, q = k + 1,
         program[q].op \notin {"declare", "function"},
         NEW t, Sequence(t), Len(t) = 1 + Opened(q), NEW c \in Nat, c <= Len(s), c <= Len(t),
         c = IF program[q].op \in {"else", "fi"} THEN Len(s) - 1 ELSE Len(s),
         \A l \in 1 .. c : t[l] = s[l],
         \A l \in 1 .. Len(t) : l > c => t[l] = EmptyScope
  PROVE  SlotsOK(t, q)
<1>1. Len(s) = 1 + Opened(k) /\ Len(s) \in Nat /\ Len(t) \in Nat /\ Opened(k) \in Int
  <2>1. Sequence(s) /\ Len(s) = 1 + Opened(k)
    BY DEF SlotsOK
  <2> QED
    BY <2>1, SequenceFacts, StepsHold DEF Steps
<1>2. ASSUME NEW n, NEW j \in 1 .. k
      PROVE  j \in Live(n, q) <=>
               j \in Live(n, k) /\ (program[q].op \in {"else", "fi"} => Opened(j) # Opened(k))
  BY StepsHold DEF Steps
<1>3. ASSUME NEW n, NEW j \in Live(n, q) PROVE j \in 1 .. k
  <2>1. j \in 1 .. q /\ Declares(j, n)
    BY DEF Live
  <2>2. ~Declares(q, n)
    BY DEF Declares
  <2> QED
    BY <2>1, <2>2
<1>4. ASSUME NEW j \in 1 .. k PROVE Opened(j) \in Int
  <2>1. j \in Nat
    OBVIOUS
  <2> QED
    BY <2>1, StepsHold DEF Steps
<1>5. ASSUME NEW n \in Names, NEW l \in 1 .. Len(t), n \in DOMAIN t[l]
      PROVE  l \in 1 .. c /\ t[l] = s[l] /\ l \in 1 .. Len(s)
  <2>1. ~(l > c)
    BY <1>5 DEF EmptyScope
  <2>2. l \in 1 .. c
    BY <1>1, <2>1
  <2> QED
    BY <1>1, <2>2
<1>6. ASSUME NEW n \in Names, NEW l \in 1 .. Len(t), n \in DOMAIN t[l]
      PROVE  /\ t[l][n].at \in Live(n, q) /\ Opened(t[l][n].at) = l - 1
             /\ t[l][n].type = TypeAt(n, t[l][n].at)
  <2>1. l \in 1 .. c /\ t[l] = s[l] /\ l \in 1 .. Len(s) /\ n \in DOMAIN s[l]
    BY <1>5, <1>6
  <2>2. PICK a : a = s[l][n].at
    OBVIOUS
  <2>3. a \in Live(n, k) /\ a \in 1 .. k /\ Opened(a) = l - 1 /\ s[l][n].type = TypeAt(n, a)
    BY <2>1, <2>2, SlotsOKParts
  <2>4. program[q].op \in {"else", "fi"} => Opened(a) # Opened(k)
    BY <1>1, <2>1, <2>3
  <2> QED
    BY <1>2, <2>1, <2>2, <2>3, <2>4
<1>7. ASSUME NEW n \in Names, NEW j \in Live(n, q)
      PROVE  /\ 1 + Opened(j) \in 1 .. Len(t) /\ n \in DOMAIN t[1 + Opened(j)]
             /\ j <= t[1 + Opened(j)][n].at
  <2>1. j \in Live(n, k) /\ (program[q].op \in {"else", "fi"} => Opened(j) # Opened(k)) /\ j \in 1 .. k
    BY <1>2, <1>3
  <2>2. PICK l : l = 1 + Opened(j)
    OBVIOUS
  <2>3. l \in 1 .. Len(s) /\ n \in DOMAIN s[l] /\ j <= s[l][n].at
    BY <2>1, <2>2, SlotsOKParts
  <2>4. l \in 1 .. c
    BY <1>1, <1>4, <2>1, <2>2, <2>3
  <2>5. l \in 1 .. Len(t) /\ t[l] = s[l]
    BY <1>1, <2>4
  <2> QED
    BY <2>2, <2>3, <2>5
<1>8. ASSUME NEW n \in Names, NEW l \in 1 .. Len(t), NEW m \in 1 .. Len(t),
             n \in DOMAIN t[l], n \in DOMAIN t[m], l < m
      PROVE  t[l][n].at < t[m][n].at
  <2>1. t[l] = s[l] /\ l \in 1 .. Len(s) /\ t[m] = s[m] /\ m \in 1 .. Len(s)
    BY <1>5, <1>8
  <2> QED
    BY <1>8, <2>1, SlotsOKParts
<1>9. Len(t) = IF q = 0 THEN 0 ELSE 1 + Opened(q)
  OBVIOUS
<1> QED
  BY <1>6, <1>7, <1>8, <1>9 DEF SlotsOK

(* A declaration: its slot is added to the innermost scope.                 *)
LEMMA SlotsAdded ==
  ASSUME NEW s, NEW k \in Nat, k # 0, SlotsOK(s, k), s # <<>>, NEW q, q = k + 1,
         program[q].op = "declare", program[q].name \in Names,
         NEW t, t = AddToScope(s, program[q].name, [type |-> program[q].type, at |-> q])
  PROVE  SlotsOK(t, q) /\ Len(t) = Len(s)
<1> DEFINE x == program[q].name
           entry == [type |-> program[q].type, at |-> q]
<1>1. Len(s) = 1 + Opened(k) /\ Len(s) \in Nat /\ Opened(k) \in Int /\ Opened(q) = Opened(k)
      /\ Sequence(s)
  <2>1. Sequence(s) /\ Len(s) = 1 + Opened(k)
    BY DEF SlotsOK
  <2>2. Opened(k) \in Int
    BY StepsHold DEF Steps
  <2>3. program[k + 1].op = "declare"
    OBVIOUS
  <2>4. Opened(k + 1) = Opened(k) + 0
    BY <2>3, StepsHold DEF Steps
  <2>5. Opened(q) = Opened(k)
    BY <2>2, <2>4
  <2> QED
    BY <2>1, <2>2, <2>5, SequenceFacts
<1>2. /\ Sequence(t) /\ Len(t) = Len(s)
      /\ \A i \in 1 .. Len(s) : i # Len(s) => t[i] = s[i]
      /\ t[Len(s)] = Bind(s[Len(s)], x, entry)
  BY <1>1, SequenceAdd
<1>3. PICK top : top = Len(s)
  OBVIOUS
<1>4. top \in 1 .. top /\ top \in Nat /\ top = 1 + Opened(k)
  <2>1. top # 0
    BY <1>1, <1>3, SequenceFacts
  <2> QED
    BY <1>1, <1>3, <2>1
<1>5. /\ x \in DOMAIN t[top] /\ t[top][x].at = q /\ t[top][x].type = program[q].type
      /\ \A n : n # x => (n \in DOMAIN t[top] <=> n \in DOMAIN s[top])
      /\ \A n : n # x /\ n \in DOMAIN s[top] => t[top][n] = s[top][n]
  <2>1. t[top] = Bind(s[top], x, entry)
    BY <1>2, <1>3
  <2>2. entry.at = q /\ entry.type = program[q].type
    BY <1>1
  <2> QED
    BY ONLY <2>1, <2>2 DEF Bind
<1>6. ASSUME NEW n, NEW j \in 1 .. k PROVE j \in Live(n, q) <=> j \in Live(n, k)
  <2>1. j \in Live(n, k + 1) <=>
          j \in Live(n, k) /\ (program[k + 1].op \in {"else", "fi"} => Opened(j) # Opened(k))
    BY StepsHold DEF Steps
  <2> QED
    BY <2>1
<1>7. \A n : q \in Live(n, q) <=> n = x
  <2>1. \A n : k + 1 \in Live(n, k + 1) <=> Declares(k + 1, n)
    BY StepsHold DEF Steps
  <2>2. \A n : Declares(q, n) <=> n = x
    BY DEF Declares
  <2> QED
    BY <2>1, <2>2
<1>8. \A n : \A j \in Live(n, q) : j \in 1 .. k \/ j = q
  BY DEF Live
<1>9. TypeAt(x, q) = program[q].type
  <2>1. q # 0
    OBVIOUS
  <2> QED
    BY <2>1 DEF TypeAt
<1> HIDE DEF x, entry
<1>10. ASSUME NEW n \in Names, NEW l \in 1 .. top, n \in DOMAIN t[l]
       PROVE  \/ n = x /\ l = top
              \/ l \in 1 .. Len(s) /\ n \in DOMAIN s[l] /\ t[l][n] = s[l][n]
  BY <1>2, <1>3, <1>5, <1>10
<1>11. ASSUME NEW n \in Names, NEW l \in 1 .. top, n \in DOMAIN t[l]
       PROVE  /\ t[l][n].at \in Live(n, q) /\ Opened(t[l][n].at) = l - 1
              /\ t[l][n].type = TypeAt(n, t[l][n].at)
  <2>1. CASE n = x /\ l = top
    <3>1. t[l][n].at = q /\ t[l][n].type = TypeAt(n, q) /\ q \in Live(n, q)
      BY <1>5, <1>7, <1>9, <2>1
    <3>2. Opened(q) = l - 1
      BY <1>1, <1>4, <2>1
    <3> QED
      BY <3>1, <3>2
  <2>2. CASE l \in 1 .. Len(s) /\ n \in DOMAIN s[l] /\ t[l][n] = s[l][n]
    <3>1. PICK a : a = s[l][n].at
      OBVIOUS
    <3>2. a \in Live(n, k) /\ a \in 1 .. k /\ Opened(a) = l - 1 /\ s[l][n].type = TypeAt(n, a)
      BY <2>2, <3>1, SlotsOKParts
    <3>3. a \in Live(n, q)
      BY <1>6, <3>2
    <3> QED
      BY <2>2, <3>1, <3>2, <3>3
  <2> QED
    BY <1>10, <1>11, <2>1, <2>2
<1>12. ASSUME NEW n \in Names, NEW j \in Live(n, q)
       PROVE  /\ 1 + Opened(j) \in 1 .. top /\ n \in DOMAIN t[1 + Opened(j)]
              /\ j <= t[1 + Opened(j)][n].at
  <2>1. CASE j = q
    <3>1. n = x /\ 1 + Opened(j) = top
      BY <1>1, <1>4, <1>7, <2>1
    <3>2. q <= q
      OBVIOUS
    <3> QED
      BY <1>4, <1>5, <2>1, <3>1, <3>2
  <2>2. CASE j \in 1 .. k
    <3>1. PICK l : l = 1 + Opened(j)
      OBVIOUS
    <3>2. l \in 1 .. Len(s) /\ n \in DOMAIN s[l] /\ j <= s[l][n].at
      BY <1>6, <2>2, <3>1, SlotsOKParts
    <3>3. CASE l = top /\ n = x
      <4>1. j <= q
        BY <2>2
      <4> QED
        BY <1>4, <1>5, <3>1, <3>3, <4>1
    <3>4. CASE ~(l = top /\ n = x)
      <4>1. n \in DOMAIN t[l] /\ t[l][n] = s[l][n]
        BY <1>2, <1>3, <1>5, <3>2, <3>4
      <4> QED
        BY <1>3, <3>1, <3>2, <4>1
    <3> QED
      BY <3>3, <3>4
  <2> QED
    BY <1>8, <2>1, <2>2
<1>13. ASSUME NEW n \in Names, NEW l \in 1 .. top, NEW m \in 1 .. top,
              n \in DOMAIN t[l], n \in DOMAIN t[m], l < m
       PROVE  t[l][n].at < t[m][n].at
  <2>1. l # top /\ l \in 1 .. Len(s) /\ m \in 1 .. Len(s)
    BY <1>3, <1>4, <1>13
  <2>2. n \in DOMAIN s[l] /\ t[l][n] = s[l][n]
    BY <1>10, <1>13, <2>1
  <2>3. CASE n = x /\ m = top
    <3>1. PICK a : a = s[l][n].at
      OBVIOUS
    <3>2. a \in 1 .. k
      BY <2>1, <2>2, <3>1, SlotsOKParts
    <3>3. a < q
      BY <3>2
    <3> QED
      BY <1>5, <2>2, <2>3, <3>1, <3>3
  <2>4. CASE n \in DOMAIN s[m] /\ t[m][n] = s[m][n]
    BY <1>13, <2>1, <2>2, <2>4, SlotsOKParts, SMTT(20)
  <2> QED
    BY <1>10, <1>13, <2>3, <2>4
<1>14. Len(t) = IF q = 0 THEN 0 ELSE 1 + Opened(q)
  BY <1>1, <1>2
<1>15. Len(t) = top
  BY <1>2, <1>3
<1>16. \A n \in Names : \A l \in 1 .. top : n \in DOMAIN t[l] =>
         /\ t[l][n].at \in Live(n, q) /\ Opened(t[l][n].at) = l - 1
         /\ t[l][n].type = TypeAt(n, t[l][n].at)
  BY <1>11
<1>17. \A n \in Names : \A j \in Live(n, q) :
         /\ 1 + Opened(j) \in 1 .. top /\ n \in DOMAIN t[1 + Opened(j)]
         /\ j <= t[1 + Opened(j)][n].at
  BY <1>12
<1>18. \A n \in Names : \A l, m \in 1 .. top :
         n \in DOMAIN t[l] /\ n \in DOMAIN t[m] /\ l < m => t[l][n].at < t[m][n].at
  BY <1>13
<1>19. SlotsOK(t, q)
  <2>1. Sequence(t)
    BY <1>2
  <2>2. PICK S : S = 1 .. Len(t) /\ S = 1 .. top
    BY <1>15
  <2>3. \A n \in Names : \A l \in S : n \in DOMAIN t[l] =>
           /\ t[l][n].at \in Live(n, q) /\ Opened(t[l][n].at) = l - 1
           /\ t[l][n].type = TypeAt(n, t[l][n].at)
    BY <1>16, <2>2
  <2>4. \A n \in Names : \A j \in Live(n, q) :
           /\ 1 + Opened(j) \in S /\ n \in DOMAIN t[1 + Opened(j)]
           /\ j <= t[1 + Opened(j)][n].at
    BY <1>17, <2>2
  <2>5. \A n \in Names : \A l, m \in S :
           n \in DOMAIN t[l] /\ n \in DOMAIN t[m] /\ l < m => t[l][n].at < t[m][n].at
    BY <1>18, <2>2
  <2>6. \A n \in Names : \A l \in 1 .. Len(t) : n \in DOMAIN t[l] =>
           /\ t[l][n].at \in Live(n, q) /\ Opened(t[l][n].at) = l - 1
           /\ t[l][n].type = TypeAt(n, t[l][n].at)
    BY <2>2, <2>3
  <2>7. \A n \in Names : \A j \in Live(n, q) :
           /\ 1 + Opened(j) \in 1 .. Len(t) /\ n \in DOMAIN t[1 + Opened(j)]
           /\ j <= t[1 + Opened(j)][n].at
    BY <2>2, <2>4
  <2>8. \A n \in Names : \A l, m \in 1 .. Len(t) :
           n \in DOMAIN t[l] /\ n \in DOMAIN t[m] /\ l < m => t[l][n].at < t[m][n].at
    BY <2>2, <2>5
  <2> QED
    BY ONLY <1>14, <2>1, <2>6, <2>7, <2>8, ZenonT(30) DEF SlotsOK
<1> QED
  BY <1>2, <1>19

(* The slot of a name is that of what it means.                             *)
LEMMA SlotsFound ==
  ASSUME NEW s, NEW k \in Nat, SlotsOK(s, k), NEW q, q = k + 1,
         program[q].op \notin {"else", "fi"}, NEW n \in Names
  PROVE  \/ Binders(s, n) = {} /\ Meant(n, q) = 0
         \/ \E a \in 1 .. k :
              /\ Meant(n, q) = a /\ Declares(a, n) /\ Binders(s, n) # {}
              /\ Resolve(s, n).at = a /\ Resolve(s, n).type = TypeAt(n, a)
<1>1. q \in Nat /\ q - 1 = k
  OBVIOUS
<1>2. ASSUME NEW j \in 1 .. k PROVE j \in Live(n, k) <=> Declares(j, n) /\ InScope(j, q)
  <2>1. j \in Nat /\ j <= k
    OBVIOUS
  <2>2. InScope(j, k + 1) <=>
          InScope(j, k) /\ (program[k + 1].op \in {"else", "fi"} => Opened(j) # Opened(k))
    BY <2>1, InScopeOpened
  <2> QED
    BY <2>2 DEF Live
<1>3. CASE Meant(n, q) = 0 /\ \A j \in 1 .. k : ~(Declares(j, n) /\ InScope(j, q))
  <2>1. ASSUME NEW l \in Binders(s, n) PROVE FALSE
    <3>1. l \in 1 .. Len(s) /\ n \in DOMAIN s[l]
      BY DEF Binders
    <3>2. s[l][n].at \in Live(n, k) /\ s[l][n].at \in 1 .. k
      BY <3>1, SlotsOKParts
    <3> QED
      BY <1>2, <1>3, <3>2
  <2> QED
    BY <1>3, <2>1
<1>4. ASSUME NEW a \in 1 .. k, Meant(n, q) = a, Declares(a, n), InScope(a, q),
             \A j \in 1 .. k : Declares(j, n) /\ InScope(j, q) => j <= a
      PROVE  Binders(s, n) # {} /\ Resolve(s, n).at = a /\ Resolve(s, n).type = TypeAt(n, a)
  <2>1. a \in Live(n, k)
    BY <1>2, <1>4
  <2>2. PICK l : l = 1 + Opened(a)
    OBVIOUS
  <2>3. l \in 1 .. Len(s) /\ n \in DOMAIN s[l] /\ a <= s[l][n].at /\ Len(s) \in Nat
    BY <2>1, <2>2, SlotsOKParts
  <2>4. l \in Binders(s, n)
    BY <2>3 DEF Binders
  <2>5. PICK m \in Binders(s, n) : /\ \A j \in Binders(s, n) : j <= m
                                   /\ Resolve(s, n) = s[m][n]
    BY <2>3, <2>4, ResolveType
  <2>6. m \in 1 .. Len(s) /\ n \in DOMAIN s[m] /\ l <= m
    BY <2>4, <2>5 DEF Binders
  <2>7. PICK b : b = s[m][n].at
    OBVIOUS
  <2>8. b \in Live(n, k) /\ b \in 1 .. k /\ s[m][n].type = TypeAt(n, b)
    BY <2>6, <2>7, SlotsOKParts
  <2>9. b <= a
    BY <1>2, <1>4, <2>8
  <2>10. PICK d : d = s[l][n].at
    OBVIOUS
  <2>11. a <= d /\ d \in 1 .. k
    BY <2>3, <2>10, SlotsOKParts
  <2>12. l < m => d < b
    BY <2>3, <2>6, <2>7, <2>10, SlotsOKParts
  <2>13. l = m \/ l < m
    BY <2>3, <2>6
  <2>14. b = a
    BY <2>7, <2>8, <2>9, <2>10, <2>11, <2>12, <2>13
  <2> QED
    BY <2>4, <2>5, <2>7, <2>8, <2>14
<1>5. CASE \E a \in 1 .. k :
             /\ Meant(n, q) = a /\ Declares(a, n) /\ InScope(a, q)
             /\ \A j \in 1 .. k : Declares(j, n) /\ InScope(j, q) => j <= a
  BY <1>4, <1>5
<1> QED
  BY <1>1, <1>3, <1>5, MeaningsHold DEF Meanings

(***************************************************************************)
(* The visit of an expression, unfolded.                                   *)
(***************************************************************************)
Wider(g, w) == [g EXCEPT !.last = w]
Under(g, t) == [g EXCEPT !.current = t]

LEMMA StatesFacts ==
  ASSUME NEW g \in States
  PROVE  /\ g.current \in Types \cup {NoType} /\ g.last \in Nat /\ g.pairs \in SUBSET (Nat \X Nat)
         /\ LiteralWidth(g.current) \in Nat
         /\ \A w \in Nat : /\ Wider(g, w) \in States
                           /\ Wider(g, w).current = g.current
                           /\ Wider(g, w).pairs = g.pairs
                           /\ Wider(g, w).last = w
         /\ \A t \in Types \cup {NoType} : Under(g, t) \in States
         /\ \A w, v \in Nat : /\ Pairs(g, w, v) \in States
                              /\ Pairs(g, w, v).current = g.current
                              /\ Pairs(g, w, v).last = g.last
                              /\ Pairs(g, w, v).pairs = g.pairs \cup {<<w, v>>}
<1>1. g.current \in Types \cup {NoType} /\ g.last \in Nat /\ g.pairs \in SUBSET (Nat \X Nat)
  BY DEF States
<1>2. LiteralWidth(g.current) \in Nat
  <2>1. \A t \in Types : Width(t) \in Nat
    BY BodiesAssumption
  <2>2. 32 \in Nat
    OBVIOUS
  <2> QED
    BY <1>1, <2>1, <2>2 DEF LiteralWidth
<1>3. ASSUME NEW w \in Nat
      PROVE  /\ Wider(g, w) \in States
             /\ Wider(g, w).current = g.current
             /\ Wider(g, w).pairs = g.pairs
             /\ Wider(g, w).last = w
  BY DEF States, Wider
<1>4. ASSUME NEW t \in Types \cup {NoType} PROVE Under(g, t) \in States
  BY DEF States, Under
<1>5. ASSUME NEW w \in Nat, NEW v \in Nat
      PROVE  /\ Pairs(g, w, v) \in States
             /\ Pairs(g, w, v).current = g.current
             /\ Pairs(g, w, v).last = g.last
             /\ Pairs(g, w, v).pairs = g.pairs \cup {<<w, v>>}
  <2>1. <<w, v>> \in Nat \X Nat
    OBVIOUS
  <2>2. g.pairs \cup {<<w, v>>} \in SUBSET (Nat \X Nat)
    BY <1>1, <2>1
  <2>3. PICK p : p = g.pairs \cup {<<w, v>>}
    OBVIOUS
  <2>4. Pairs(g, w, v) = [g EXCEPT !.pairs = p]
    BY <2>3 DEF Pairs
  <2>5. PICK P : P = SUBSET (Nat \X Nat)
    OBVIOUS
  <2>6. g \in [current : Types \cup {NoType}, last : Nat, pairs : P] /\ p \in P
    BY <2>2, <2>3, <2>5 DEF States
  <2>7. /\ [g EXCEPT !.pairs = p] \in [current : Types \cup {NoType}, last : Nat, pairs : P]
        /\ [g EXCEPT !.pairs = p].current = g.current
        /\ [g EXCEPT !.pairs = p].last = g.last
        /\ [g EXCEPT !.pairs = p].pairs = p
    BY <2>6
  <2>8. Pairs(g, w, v) \in States
    BY <2>4, <2>5, <2>7 DEF States
  <2> QED
    BY <2>3, <2>4, <2>7, <2>8
<1> QED
  BY <1>1, <1>2, <1>3, <1>4, <1>5

(* What each visit does to the state.                                       *)
LEMMA VisitShapes ==
  /\ \A e, g, scopes :
       VisitText(e, g, scopes) =
         IF Binders(scopes, e.name) = {} THEN g ELSE Wider(g, Width(Resolve(scopes, e.name).type))
  /\ \A e, g :
       VisitCast(e, g) =
         Wider(IF CastFits(g.last, e.type) THEN g ELSE Pairs(g, g.last, Width(e.type)), Width(e.type))
  /\ \A e, g :
       VisitUnary(e, g) = Wider(Pairs(g, g.last, g.last), IF e.op = "not" THEN 1 ELSE g.last)
  /\ \A g : VisitLogical(g) = Wider(Pairs(g, g.last, 1), 1)
  /\ \A e, g, h :
       VisitBinary(e, g, h) =
         IF e.op = "logical" THEN Wider(h, 0)
         ELSE Wider(Pairs(h, g.last, h.last), IF e.op = "comparison" THEN 1 ELSE g.last)
<1>1. ASSUME NEW e, NEW g, NEW scopes
      PROVE  VisitText(e, g, scopes) =
               IF Binders(scopes, e.name) = {} THEN g ELSE Wider(g, Width(Resolve(scopes, e.name).type))
  BY DEF VisitText, Wider
<1>2. ASSUME NEW e, NEW g
      PROVE  VisitCast(e, g) =
               Wider(IF CastFits(g.last, e.type) THEN g ELSE Pairs(g, g.last, Width(e.type)), Width(e.type))
  BY DEF VisitCast, Wider
<1>3. ASSUME NEW e, NEW g
      PROVE  VisitUnary(e, g) = Wider(Pairs(g, g.last, g.last), IF e.op = "not" THEN 1 ELSE g.last)
  BY DEF VisitUnary, Wider
<1>4. ASSUME NEW g PROVE VisitLogical(g) = Wider(Pairs(g, g.last, 1), 1)
  BY DEF VisitLogical, Wider
<1>5. ASSUME NEW e, NEW g, NEW h
      PROVE  VisitBinary(e, g, h) =
               IF e.op = "logical" THEN Wider(h, 0)
               ELSE Wider(Pairs(h, g.last, h.last), IF e.op = "comparison" THEN 1 ELSE g.last)
  BY DEF VisitBinary, Wider, Null
<1> QED
  BY <1>1, <1>2, <1>3, <1>4, <1>5

LEMMA StatesKept ==
  /\ \A g \in States : \A w \in Nat : Wider(g, w) \in States
  /\ \A g \in States : \A u, v \in Nat : Pairs(g, u, v) \in States
  /\ \A g \in States : \A t \in Types \cup {NoType} : Under(g, t) \in States
  /\ \A g \in States : g.last \in Nat /\ LiteralWidth(g.current) \in Nat
BY StatesFacts

LEMMA VisitTypes ==
  ASSUME NEW scopes, TypedNames(scopes)
  PROVE  /\ \A e \in Expressions : \A g \in States : e.op = "text" => VisitText(e, g, scopes) \in States
         /\ \A e \in Expressions : \A g \in States : e.op = "cast" => VisitCast(e, g) \in States
         /\ \A e \in Expressions : \A g \in States : VisitUnary(e, g) \in States
         /\ \A g \in States : VisitLogical(g) \in States
         /\ \A e \in Expressions : \A g, h \in States : VisitBinary(e, g, h) \in States
<1>1. \A t \in Types : Width(t) \in Nat
  BY BodiesAssumption
<1>2. 1 \in Nat
  OBVIOUS
<1>3. ASSUME NEW e \in Expressions, NEW g \in States, e.op = "text"
      PROVE  VisitText(e, g, scopes) \in States
  <2>1. Binders(scopes, e.name) # {} => Width(Resolve(scopes, e.name).type) \in Nat
    BY <1>1, <1>3, OperandsLower DEF TypedNames
  <2> QED
    BY <2>1, VisitShapes, StatesKept
<1>4. ASSUME NEW e \in Expressions, NEW g \in States, e.op = "cast"
      PROVE  VisitCast(e, g) \in States
  <2>1. PICK w : w = Width(e.type)
    OBVIOUS
  <2>2. w \in Nat
    BY <1>1, <1>4, <2>1, OperandsLower
  <2>3. PICK p : p = IF CastFits(g.last, e.type) THEN g ELSE Pairs(g, g.last, w)
    OBVIOUS
  <2>4. p \in States
    BY <2>2, <2>3, StatesKept
  <2>5. VisitCast(e, g) = Wider(p, w)
    BY <2>1, <2>3, VisitShapes
  <2> QED
    BY <2>2, <2>4, <2>5, StatesKept
<1>5. ASSUME NEW e \in Expressions, NEW g \in States
      PROVE  VisitUnary(e, g) \in States
  <2>1. PICK p : p = Pairs(g, g.last, g.last)
    OBVIOUS
  <2>2. PICK w : w = IF e.op = "not" THEN 1 ELSE g.last
    OBVIOUS
  <2>3. p \in States /\ w \in Nat
    BY <1>2, <2>1, <2>2, StatesKept
  <2> QED
    BY <2>1, <2>2, <2>3, VisitShapes, StatesKept
<1>6. ASSUME NEW g \in States PROVE VisitLogical(g) \in States
  BY <1>2, VisitShapes, StatesKept
<1>7. ASSUME NEW e \in Expressions, NEW g \in States, NEW h \in States
      PROVE  VisitBinary(e, g, h) \in States
  <2>1. PICK p : p = Pairs(h, g.last, h.last)
    OBVIOUS
  <2>2. PICK w : w = IF e.op = "comparison" THEN 1 ELSE g.last
    OBVIOUS
  <2>3. p \in States /\ w \in Nat /\ 0 \in Nat
    BY <1>2, <2>1, <2>2, StatesKept
  <2>4. VisitBinary(e, g, h) = IF e.op = "logical" THEN Wider(h, 0) ELSE Wider(p, w)
    BY <2>1, <2>2, VisitShapes
  <2> QED
    BY <2>3, <2>4, StatesKept
<1> QED
  BY <1>3, <1>4, <1>5, <1>6, <1>7

LEMMA VisitNodeCases ==
  ASSUME NEW e, NEW g, NEW scopes, NEW visit
  PROVE  /\ e.op = "number" => VisitNode(e, g, scopes, visit) = Wider(g, LiteralWidth(g.current))
         /\ e.op = "text" => VisitNode(e, g, scopes, visit) = VisitText(e, g, scopes)
         /\ e.op = "cast" =>
              VisitNode(e, g, scopes, visit) = VisitCast(e, visit[e.value][Under(g, e.type)])
         /\ IsUnary(e) => VisitNode(e, g, scopes, visit) = VisitUnary(e, visit[e.right][g])
         /\ IsLazy(e) =>
              VisitNode(e, g, scopes, visit) =
                VisitLogical(visit[e.right][Pairs(visit[e.left][g], visit[e.left][g].last, 1)])
         /\ IsBinary(e) /\ ~IsLazy(e) =>
              VisitNode(e, g, scopes, visit) =
                VisitBinary(e, visit[e.left][g], visit[e.right][visit[e.left][g]])
<1>1. CASE e.op = "number"
  BY <1>1 DEF VisitNode, IsUnary, IsLazy, IsBinary, Wider, Under
<1>2. CASE e.op = "text"
  BY <1>2 DEF VisitNode, IsUnary, IsLazy, IsBinary, Wider, Under
<1>3. CASE e.op = "cast"
  BY <1>3 DEF VisitNode, IsUnary, IsLazy, IsBinary, Wider, Under
<1>4. CASE IsUnary(e)
  BY <1>4 DEF VisitNode, IsUnary, IsLazy, IsBinary, Wider, Under
<1>5. CASE IsLazy(e)
  BY <1>5 DEF VisitNode, IsUnary, IsLazy, Wider, Under
<1>6. CASE IsBinary(e) /\ ~IsLazy(e)
  BY <1>6 DEF VisitNode, IsUnary, IsBinary, Wider, Under
<1> QED
  BY <1>1, <1>2, <1>3, <1>4, <1>5, <1>6

LEMMA VisitNodeLocal ==
  ASSUME NEW e \in Expressions, NEW g, NEW scopes, NEW f, NEW h,
         \A o \in Operands(e) : f[o] = h[o]
  PROVE  VisitNode(e, g, scopes, f) = VisitNode(e, g, scopes, h)
<1>1. /\ e.op = "cast" => f[e.value] = h[e.value]
      /\ IsUnary(e) => f[e.right] = h[e.right]
      /\ IsBinary(e) => f[e.left] = h[e.left] /\ f[e.right] = h[e.right]
  BY OperandsLower
<1>2. CASE e.op \in {"text", "number"}
  BY <1>2, VisitNodeCases
<1>3. CASE e.op = "cast"
  BY <1>3, <1>1, VisitNodeCases
<1>4. CASE IsUnary(e)
  BY <1>4, <1>1, VisitNodeCases
<1>5. CASE IsBinary(e) /\ IsLazy(e)
  BY <1>5, <1>1, VisitNodeCases
<1>6. CASE IsBinary(e) /\ ~IsLazy(e)
  BY <1>6, <1>1, VisitNodeCases
<1> QED
  BY <1>2, <1>3, <1>4, <1>5, <1>6, OperandsLower

LEMMA VisitNodeType ==
  ASSUME NEW e \in Expressions, NEW g \in States, NEW scopes, TypedNames(scopes),
         NEW f, \A o \in Operands(e) : f[o] \in [States -> States]
  PROVE  VisitNode(e, g, scopes, f) \in States
<1>1. \A o \in Operands(e) : \A h \in States : f[o][h] \in States
  OBVIOUS
<1>2. CASE e.op = "text"
  <2>1. VisitNode(e, g, scopes, f) = VisitText(e, g, scopes)
    BY <1>2, VisitNodeCases
  <2> QED
    BY <1>2, <2>1, VisitTypes
<1>3. CASE e.op = "number"
  <2>1. VisitNode(e, g, scopes, f) = Wider(g, LiteralWidth(g.current))
    BY <1>3, VisitNodeCases
  <2> QED
    BY <2>1, StatesKept
<1>4. CASE e.op = "cast"
  <2>1. PICK h : h = Under(g, e.type)
    OBVIOUS
  <2>2. h \in States
    BY <1>4, <2>1, OperandsLower, StatesKept
  <2>3. f[e.value][h] \in States
    BY <1>1, <1>4, <2>2, OperandsLower
  <2>4. VisitNode(e, g, scopes, f) = VisitCast(e, f[e.value][h])
    BY <1>4, <2>1, VisitNodeCases
  <2> QED
    BY <1>4, <2>3, <2>4, VisitTypes
<1>5. CASE IsUnary(e)
  <2>1. f[e.right][g] \in States
    BY <1>1, <1>5, OperandsLower
  <2>2. VisitNode(e, g, scopes, f) = VisitUnary(e, f[e.right][g])
    BY <1>5, VisitNodeCases
  <2> QED
    BY <2>1, <2>2, VisitTypes
<1>6. CASE IsBinary(e)
  <2>1. PICK left : left = f[e.left][g]
    OBVIOUS
  <2>2. left \in States
    BY <1>1, <1>6, <2>1, OperandsLower
  <2>3. CASE IsLazy(e)
    <3>1. PICK p : p = Pairs(left, left.last, 1)
      OBVIOUS
    <3>2. p \in States
      <4>1. left.last \in Nat /\ 1 \in Nat
        BY <2>2, StatesKept
      <4> QED
        BY <2>2, <3>1, <4>1, StatesKept
    <3>3. f[e.right][p] \in States
      BY <1>1, <1>6, <3>2, OperandsLower
    <3>4. VisitNode(e, g, scopes, f) = VisitLogical(f[e.right][p])
      BY <2>1, <2>3, <3>1, VisitNodeCases
    <3> QED
      BY <3>3, <3>4, VisitTypes
  <2>4. CASE ~IsLazy(e)
    <3>1. f[e.right][left] \in States
      BY <1>1, <1>6, <2>2, OperandsLower
    <3>2. VisitNode(e, g, scopes, f) = VisitBinary(e, left, f[e.right][left])
      BY <1>6, <2>1, <2>4, VisitNodeCases
    <3> QED
      BY <2>2, <3>1, <3>2, VisitTypes
  <2> QED
    BY <2>3, <2>4
<1> QED
  BY <1>2, <1>3, <1>4, <1>5, <1>6, OperandsLower

Walked(e, g, scopes) ==
  /\ Visit(e, g, scopes) \in States
  /\ e.op = "number" => Visit(e, g, scopes) = Wider(g, LiteralWidth(g.current))
  /\ e.op = "text" => Visit(e, g, scopes) = VisitText(e, g, scopes)
  /\ e.op = "cast" => Visit(e, g, scopes) = VisitCast(e, Visit(e.value, Under(g, e.type), scopes))
  /\ IsUnary(e) => Visit(e, g, scopes) = VisitUnary(e, Visit(e.right, g, scopes))
  /\ IsLazy(e) =>
       Visit(e, g, scopes) =
         VisitLogical(Visit(e.right, Pairs(Visit(e.left, g, scopes), Visit(e.left, g, scopes).last, 1), scopes))
  /\ IsBinary(e) /\ ~IsLazy(e) =>
       Visit(e, g, scopes) =
         VisitBinary(e, Visit(e.left, g, scopes), Visit(e.right, Visit(e.left, g, scopes), scopes))

LEMMA VisitUnfold ==
  ASSUME NEW scopes, TypedNames(scopes)
  PROVE  \A e \in Expressions : \A g \in States : Walked(e, g, scopes)
<1> DEFINE V == [States -> States]
           row(f, e) == [g \in States |-> VisitNode(e, g, scopes, f)]
           step(f) == [e \in Expressions |-> row(f, e)]
           F == [f \in [Expressions -> V] |-> step(f)]
           visit == CHOOSE visit : visit = [e \in Expressions |-> [g \in States |-> VisitNode(e, g, scopes, visit)]]
<1>0. \A e \in Expressions : \A o \in Operands(e) : o \in Expressions /\ Tall[o] < Tall[e]
  BY TypeRulesAssumption, TallType
<1>1. ASSUME NEW f, NEW e \in Expressions, \A o \in Operands(e) : f[o] \in V
      PROVE  row(f, e) \in V
  BY <1>1, VisitNodeType
<1>2. ASSUME NEW f \in [Expressions -> V] PROVE step(f) \in [Expressions -> V] /\ F[f] = step(f)
  <2>1. \A e \in Expressions : \A o \in Operands(e) : f[o] \in V
    <3> HIDE DEF V
    <3> QED
      BY <1>0
  <2> HIDE DEF row, V
  <2> QED
    BY <1>1, <2>1
<1>3. ASSUME NEW f \in [Expressions -> V], NEW h \in [Expressions -> V], NEW e \in Expressions,
             \A y \in Expressions : Tall[y] < Tall[e] => f[y] = h[y]
      PROVE  F[f][e] = F[h][e]
  <2>1. \A o \in Operands(e) : f[o] = h[o]
    <3> HIDE DEF V
    <3> QED
      BY <1>0, <1>3
  <2>2. ASSUME NEW g \in States
        PROVE  VisitNode(e, g, scopes, f) = VisitNode(e, g, scopes, h)
    BY <2>1, VisitNodeLocal
  <2>3. row(f, e) = row(h, e)
    BY <2>2
  <2>4. F[f] = step(f) /\ F[h] = step(h)
    <3> HIDE DEF F, V, step
    <3> QED
      BY <1>2
  <2>5. step(f)[e] = row(f, e) /\ step(h)[e] = row(h, e)
    OBVIOUS
  <2> HIDE DEF F, V, row, step
  <2> QED
    BY <2>3, <2>4, <2>5
<1>4. Recursive(Expressions, V, Tall, F)
  <2>1. F \in [[Expressions -> V] -> [Expressions -> V]]
    <3> HIDE DEF V, step
    <3> QED
      BY <1>2
  <2> HIDE DEF F, V
  <2> QED
    BY <2>1, <1>3 DEF Recursive
<1>5. PICK f \in [Expressions -> V] : f = F[f]
  <2> [g \in States |-> g] \in V
    OBVIOUS
  <2> HIDE DEF F, V
  <2> QED
    BY <1>4, TallType, RecursiveFunctionExists
<1>6. f = step(f)
  <2> HIDE DEF F, V, step
  <2> QED
    BY <1>5, <1>2
<1>7. visit = step(visit)
  BY <1>6
<1>8. ASSUME NEW e \in Expressions, NEW g \in States PROVE Visit(e, g, scopes) = visit[e][g]
  BY DEF Visit
<1> HIDE DEF visit
<1>9. ASSUME NEW e \in Expressions, NEW g \in States PROVE visit[e][g] = VisitNode(e, g, scopes, visit)
  BY <1>7
<1>10. visit \in [Expressions -> V]
  <2> DEFINE T == {e \in Expressions : visit[e] \in V}
  <2>1. ASSUME NEW e \in Expressions, Operands(e) \subseteq T PROVE e \in T
    <3>1. row(visit, e) \in V
      <4> HIDE DEF V, row
      <4> QED
        BY <2>1, <1>1
    <3>2. visit[e] = row(visit, e)
      <4> HIDE DEF V, row
      <4> QED
        BY <1>7
    <3> HIDE DEF V, row
    <3> QED
      BY <3>1, <3>2
  <2>2. Expressions \subseteq T
    <3> HIDE DEF T
    <3> QED
      BY <2>1, ExpressionInduction
  <2>3. visit = [e \in Expressions |-> visit[e]]
    <3> HIDE DEF row
    <3> QED
      BY <1>7
  <2> HIDE DEF V
  <2> QED
    BY <2>2, <2>3
<1>11. \A e \in Expressions : \A g \in States : visit[e][g] \in States
  BY <1>10
<1>12. ASSUME NEW e \in Expressions, NEW g \in States PROVE Walked(e, g, scopes)
  <2>1. Visit(e, g, scopes) \in States
    BY <1>8, <1>11
  <2>2. Visit(e, g, scopes) = VisitNode(e, g, scopes, visit)
    BY <1>8, <1>9
  <2>3. /\ e.op = "text" => Visit(e, g, scopes) = VisitText(e, g, scopes)
        /\ e.op = "number" => Visit(e, g, scopes) = Wider(g, LiteralWidth(g.current))
    BY <2>2, VisitNodeCases
  <2>4. IsUnary(e) => Visit(e, g, scopes) = VisitUnary(e, Visit(e.right, g, scopes))
    <3> SUFFICES ASSUME IsUnary(e) PROVE Visit(e, g, scopes) = VisitUnary(e, visit[e.right][g])
      BY <1>8, OperandsLower
    <3> QED
      BY <2>2, VisitNodeCases
  <2>5. ASSUME IsBinary(e)
        PROVE  /\ e.left \in Expressions /\ e.right \in Expressions
               /\ Visit(e.left, g, scopes) = visit[e.left][g] /\ visit[e.left][g] \in States
    BY <1>8, <1>11, <2>5, OperandsLower
  <2>6. IsLazy(e) =>
          Visit(e, g, scopes) =
            VisitLogical(Visit(e.right, Pairs(Visit(e.left, g, scopes), Visit(e.left, g, scopes).last, 1), scopes))
    <3> SUFFICES ASSUME IsLazy(e)
                 PROVE  Visit(e, g, scopes) =
                          VisitLogical(Visit(e.right, Pairs(Visit(e.left, g, scopes), Visit(e.left, g, scopes).last, 1), scopes))
      OBVIOUS
    <3>1. PICK left : left = Visit(e.left, g, scopes)
      OBVIOUS
    <3>2. left \in States /\ left = visit[e.left][g] /\ e.right \in Expressions
      BY <2>5, <3>1 DEF IsBinary, IsLazy
    <3>3. PICK p : p = Pairs(left, left.last, 1)
      OBVIOUS
    <3>4. p \in States
      <4>1. left.last \in Nat /\ 1 \in Nat
        BY <3>2, StatesFacts
      <4> QED
        BY <3>2, <3>3, <4>1, StatesFacts
    <3>5. Visit(e.right, p, scopes) = visit[e.right][p]
      BY <1>8, <3>2, <3>4
    <3>6. VisitNode(e, g, scopes, visit) = VisitLogical(visit[e.right][p])
      BY <3>2, <3>3, VisitNodeCases
    <3> QED
      BY <2>2, <3>1, <3>3, <3>5, <3>6
  <2>7. IsBinary(e) /\ ~IsLazy(e) =>
          Visit(e, g, scopes) =
            VisitBinary(e, Visit(e.left, g, scopes), Visit(e.right, Visit(e.left, g, scopes), scopes))
    <3> SUFFICES ASSUME IsBinary(e), ~IsLazy(e)
                 PROVE  Visit(e, g, scopes) =
                          VisitBinary(e, Visit(e.left, g, scopes), Visit(e.right, Visit(e.left, g, scopes), scopes))
      OBVIOUS
    <3>1. PICK left : left = Visit(e.left, g, scopes)
      OBVIOUS
    <3>2. left \in States /\ left = visit[e.left][g] /\ e.right \in Expressions
      BY <2>5, <3>1
    <3>3. Visit(e.right, left, scopes) = visit[e.right][left]
      BY <1>8, <3>2
    <3>4. VisitNode(e, g, scopes, visit) = VisitBinary(e, left, visit[e.right][left])
      BY <3>2, VisitNodeCases
    <3> QED
      BY <2>2, <3>1, <3>3, <3>4
  <2>8. e.op = "cast" => Visit(e, g, scopes) = VisitCast(e, Visit(e.value, Under(g, e.type), scopes))
    <3> SUFFICES ASSUME e.op = "cast"
                 PROVE  Visit(e, g, scopes) = VisitCast(e, Visit(e.value, Under(g, e.type), scopes))
      OBVIOUS
    <3>1. PICK h : h = Under(g, e.type)
      OBVIOUS
    <3>2. h \in States /\ e.value \in Expressions
      BY <3>1, OperandsLower, StatesKept
    <3>3. Visit(e.value, h, scopes) = visit[e.value][h]
      BY <1>8, <3>2
    <3>4. VisitNode(e, g, scopes, visit) = VisitCast(e, visit[e.value][h])
      BY <3>1, VisitNodeCases
    <3> QED
      BY <2>2, <3>1, <3>3, <3>4
  <2> QED
    BY <2>1, <2>3, <2>4, <2>6, <2>7, <2>8 DEF Walked
<1> QED
  BY <1>12

(***************************************************************************)
(* The widths of a value that has its type.                                *)
(***************************************************************************)
EqualPairs(g) == \A pair \in g.pairs : pair[1] = pair[2]

(* Its logical operators are lazy.                                          *)
Lazy(e) == \A f \in Within[e] : ~(f.op = "logical" /\ ~f.lazy)

(* A value without casts, its logical operators lazy, its literals outside  *)
(* comparisons and logical operators.                                       *)
Plain(e) ==
  /\ ~HasOp(e, "cast") /\ Lazy(e)
  /\ \A f \in Within[e] : f.op \in {"comparison", "logical"} => ~HasOp(f, "number")

Fitting(v, g, t) == v \in States /\ v.current = g.current /\ v.last = Width(t) /\ EqualPairs(v)

LEMMA PlainOperands ==
  ASSUME NEW e \in Expressions, Plain(e), NEW o \in Operands(e)
  PROVE  /\ o \in Expressions /\ Plain(o) /\ (HasOp(o, "number") => HasOp(e, "number"))
         /\ e.op \in {"comparison", "logical"} => ~HasOp(o, "number")
<1>1. o \in Expressions /\ Within[o] \subseteq Within[e] /\ e \in Within[e]
  BY WithinFacts
<1>2. HasOp(o, "number") => HasOp(e, "number")
  BY WithinFacts
<1>3. ~HasOp(o, "cast")
  BY WithinFacts DEF Plain
<1>4. Plain(o)
  BY <1>1, <1>3 DEF Plain, Lazy
<1>5. e.op \in {"comparison", "logical"} => ~HasOp(e, "number")
  BY <1>1 DEF Plain
<1> QED
  BY <1>1, <1>2, <1>4, <1>5

LEMMA EqualPairsKept ==
  /\ \A g \in States : \A w \in Nat :
       /\ Wider(g, w) \in States /\ Wider(g, w).current = g.current /\ Wider(g, w).last = w
       /\ EqualPairs(g) => EqualPairs(Wider(g, w))
  /\ \A g \in States : \A w \in Nat :
       /\ Pairs(g, w, w) \in States /\ Pairs(g, w, w).current = g.current /\ Pairs(g, w, w).last = g.last
       /\ EqualPairs(g) => EqualPairs(Pairs(g, w, w))
<1>1. ASSUME NEW g \in States, NEW w \in Nat
      PROVE  /\ Wider(g, w) \in States /\ Wider(g, w).current = g.current /\ Wider(g, w).last = w
             /\ EqualPairs(g) => EqualPairs(Wider(g, w))
  <2>1. /\ Wider(g, w) \in States /\ Wider(g, w).current = g.current /\ Wider(g, w).last = w
        /\ Wider(g, w).pairs = g.pairs
    BY StatesFacts
  <2> QED
    BY <2>1 DEF EqualPairs
<1>2. ASSUME NEW g \in States, NEW w \in Nat
      PROVE  /\ Pairs(g, w, w) \in States /\ Pairs(g, w, w).current = g.current /\ Pairs(g, w, w).last = g.last
             /\ EqualPairs(g) => EqualPairs(Pairs(g, w, w))
  <2>1. PICK p : p = Pairs(g, w, w)
    OBVIOUS
  <2>2. p \in States /\ p.current = g.current /\ p.last = g.last /\ p.pairs = g.pairs \cup {<<w, w>>}
    <3>1. \A x, y \in Nat : /\ Pairs(g, x, y) \in States
                            /\ Pairs(g, x, y).current = g.current
                            /\ Pairs(g, x, y).last = g.last
                            /\ Pairs(g, x, y).pairs = g.pairs \cup {<<x, y>>}
      BY StatesFacts
    <3> QED
      BY <2>1, <3>1
  <2>3. <<w, w>>[1] = <<w, w>>[2]
    OBVIOUS
  <2>4. EqualPairs(g) => EqualPairs(p)
    BY <2>2, <2>3 DEF EqualPairs
  <2> QED
    BY <2>1, <2>2, <2>4
<1> QED
  BY <1>1, <1>2

(* llvmVisitor over an expression that has the type t: lastValue gets its   *)
(* width, and the operands of each instruction have one, if the literals    *)
(* are of the type of currentType and there is no cast.                     *)
THEOREM WidthsKept ==
  ASSUME NEW scopes, NEW declared, TypedNames(scopes)
  PROVE  \A e \in Expressions : KnownNames(e, scopes, declared) /\ Plain(e) =>
           \A t \in TypesOf(e, declared) : \A g \in States :
             EqualPairs(g) /\ (HasOp(e, "number") => g.current = t) => Fitting(Visit(e, g, scopes), g, t)
<1> DEFINE T == {e \in Expressions : KnownNames(e, scopes, declared) /\ Plain(e) =>
                   \A t \in TypesOf(e, declared) : \A g \in States :
                     EqualPairs(g) /\ (HasOp(e, "number") => g.current = t) => Fitting(Visit(e, g, scopes), g, t)}
<1>1. ASSUME NEW e \in Expressions, Operands(e) \subseteq T PROVE e \in T
  <2> SUFFICES ASSUME KnownNames(e, scopes, declared), Plain(e),
                      NEW t \in TypesOf(e, declared), NEW g \in States,
                      EqualPairs(g), HasOp(e, "number") => g.current = t
               PROVE  Fitting(Visit(e, g, scopes), g, t)
    OBVIOUS
  <2>1. ASSUME NEW o \in Operands(e), NEW u \in TypesOf(o, declared), NEW h \in States,
               EqualPairs(h), HasOp(o, "number") => h.current = u
        PROVE  Fitting(Visit(o, h, scopes), h, u)
    <3>1. KnownNames(o, scopes, declared)
      BY WithinFacts DEF KnownNames
    <3>2. o \in Expressions /\ Plain(o)
      BY PlainOperands
    <3> QED
      BY <1>1, <2>1, <3>1, <3>2
  <2> HIDE DEF T
  <2>2. PICK v : v = Visit(e, g, scopes)
    OBVIOUS
  <2>3. Typed(e, declared) /\ t \in Types /\ Width(t) \in Nat
    <3>1. Typed(e, declared) /\ t \in Types
      BY TypesUnfold DEF Typed
    <3> QED
      BY <3>1, BodiesAssumption
  <2>4. Walked(e, g, scopes)
    BY VisitUnfold
  <2>5. Width(Bool) = 1 /\ 1 \in Nat
    BY BodiesAssumption
  <2>6. e.op # "cast"
    BY WithinFacts DEF Plain
  <2>7. SUFFICES Fitting(v, g, t)
    BY <2>2
  <2>8. CASE e.op = "text"
    <3>1. e.name \in NamesIn(e)
      BY <2>8, WithinFacts
    <3>2. Binders(scopes, e.name) # {} /\ Resolve(scopes, e.name).type = declared[e.name]
      BY <3>1 DEF KnownNames
    <3>3. v = VisitText(e, g, scopes) /\ t = declared[e.name]
      BY <2>2, <2>3, <2>4, <2>8 DEF Walked, Typed
    <3>4. v = Wider(g, Width(t))
      BY <3>2, <3>3, VisitShapes
    <3> QED
      BY <2>3, <3>4, EqualPairsKept DEF Fitting
  <2>9. CASE e.op = "number"
    <3>1. g.current = t
      BY <2>9, WithinFacts
    <3>2. v = Wider(g, LiteralWidth(t))
      BY <2>2, <2>4, <2>9, <3>1 DEF Walked
    <3>3. LiteralWidth(t) = Width(t)
      BY <2>3, GoodFacts DEF LiteralWidth
    <3>4. v = Wider(g, Width(t))
      BY <3>2, <3>3
    <3> QED
      BY <2>3, <3>4, EqualPairsKept DEF Fitting
  <2>10. CASE IsUnary(e)
    <3>1. e.right \in Operands(e)
      BY <2>10, OperandsLower
    <3>2. PICK r : r = Visit(e.right, g, scopes)
      OBVIOUS
    <3>3. t \in TypesOf(e.right, declared) /\ (e.op = "not" => t = Bool)
      BY <2>3, <2>10 DEF Typed, IsUnary
    <3>4. HasOp(e.right, "number") => g.current = t
      BY <3>1, PlainOperands
    <3>5. Fitting(r, g, t)
      BY <2>1, <3>1, <3>2, <3>3, <3>4
    <3>6. v = VisitUnary(e, r)
      BY <2>2, <2>4, <2>10, <3>2 DEF Walked
    <3>7. r \in States /\ r.current = g.current /\ EqualPairs(r) /\ r.last = Width(t)
      BY <3>5 DEF Fitting
    <3>8. PICK p : p = Pairs(r, Width(t), Width(t))
      OBVIOUS
    <3>9. p \in States /\ p.current = g.current /\ EqualPairs(p)
      BY <2>3, <3>7, <3>8, EqualPairsKept
    <3>10. v = Wider(p, IF e.op = "not" THEN 1 ELSE Width(t))
      BY <3>6, <3>7, <3>8, VisitShapes
    <3>11. v = Wider(p, Width(t))
      BY <2>5, <3>3, <3>10
    <3> QED
      BY <2>3, <3>9, <3>11, EqualPairsKept DEF Fitting
  <2>11. CASE IsBinary(e)
    <3>1. e.left \in Operands(e) /\ e.right \in Operands(e)
      BY <2>11, OperandsLower
    <3>2. PICK left : left = Visit(e.left, g, scopes)
      OBVIOUS
    <3>3. /\ e.op \in {"comparison", "logical"} =>
               ~HasOp(e.left, "number") /\ ~HasOp(e.right, "number")
          /\ HasOp(e.left, "number") => g.current = t
          /\ HasOp(e.right, "number") => g.current = t
      BY <3>1, PlainOperands
    <3>4. CASE e.op = "logical"
      <4>1. t = Bool /\ t \in TypesOf(e.left, declared) /\ t \in TypesOf(e.right, declared)
        BY <2>3, <3>4 DEF Typed
      <4>2. Fitting(left, g, t)
        BY <2>1, <3>1, <3>2, <3>3, <4>1
      <4>3. left \in States /\ left.current = g.current /\ left.last = 1 /\ EqualPairs(left)
        BY <2>5, <4>1, <4>2 DEF Fitting
      <4>4. PICK p : p = Pairs(left, left.last, 1)
        OBVIOUS
      <4>5. p \in States /\ p.current = g.current /\ EqualPairs(p)
        <5>1. p = Pairs(left, 1, 1)
          BY <4>3, <4>4
        <5> QED
          BY <2>5, <4>3, <5>1, EqualPairsKept
      <4>6. PICK right : right = Visit(e.right, p, scopes)
        OBVIOUS
      <4>7. Fitting(right, p, t)
        BY <2>1, <3>1, <3>3, <3>4, <4>1, <4>5, <4>6
      <4>8. right \in States /\ right.current = g.current /\ right.last = 1 /\ EqualPairs(right)
        BY <2>5, <4>1, <4>5, <4>7 DEF Fitting
      <4>9. v = VisitLogical(right)
        <5>1. IsLazy(e)
          BY <3>4, WithinFacts DEF Plain, Lazy, IsLazy
        <5> QED
          BY <2>2, <2>4, <3>2, <4>4, <4>6, <5>1 DEF Walked
      <4>10. v = Wider(Pairs(right, 1, 1), 1)
        <5>1. VisitLogical(right) = Wider(Pairs(right, right.last, 1), 1)
          BY VisitShapes
        <5> QED
          BY <4>8, <4>9, <5>1
      <4>11. PICK z : z = Pairs(right, 1, 1)
        OBVIOUS
      <4>12. z \in States /\ z.current = g.current /\ EqualPairs(z)
        BY <2>5, <4>8, <4>11, EqualPairsKept
      <4>13. v = Wider(z, 1) /\ Width(t) = 1
        BY <2>5, <4>1, <4>10, <4>11
      <4> QED
        BY <2>5, <4>12, <4>13, EqualPairsKept DEF Fitting
    <3>5. CASE e.op \in {"arithmetic", "comparison"}
      <4>1. PICK u \in Types : /\ u \in TypesOf(e.left, declared) /\ u \in TypesOf(e.right, declared)
                               /\ e.op = "arithmetic" => u = t
                               /\ e.op = "comparison" => t = Bool
        <5>1. CASE e.op = "arithmetic"
          BY <2>3, <5>1 DEF Typed
        <5>2. CASE e.op = "comparison"
          <6>1. PICK u \in TypesOf(e.left, declared) \cap TypesOf(e.right, declared) : t = Bool
            BY <2>3, <5>2 DEF Typed
          <6>2. u \in Types
            BY <3>1, TypesUnfold, WithinFacts DEF Typed
          <6> QED
            BY <5>2, <6>1, <6>2
        <5> QED
          BY <3>5, <5>1, <5>2
      <4>2. HasOp(e.left, "number") => g.current = u
        BY <3>3, <3>5, <4>1
      <4>3. Fitting(left, g, u)
        BY <2>1, <3>1, <3>2, <4>1, <4>2
      <4>4. left \in States /\ left.current = g.current /\ left.last = Width(u) /\ EqualPairs(left)
        BY <4>3 DEF Fitting
      <4>5. HasOp(e.right, "number") => left.current = u
        BY <3>3, <3>5, <4>1, <4>4
      <4>6. PICK right : right = Visit(e.right, left, scopes)
        OBVIOUS
      <4>7. Fitting(right, left, u)
        BY <2>1, <3>1, <4>1, <4>4, <4>5, <4>6
      <4>8. right \in States /\ right.current = g.current /\ right.last = Width(u) /\ EqualPairs(right)
        BY <4>4, <4>7 DEF Fitting
      <4>9. v = VisitBinary(e, left, right)
        <5>1. ~IsLazy(e)
          BY <3>5 DEF IsLazy
        <5> QED
          BY <2>2, <2>4, <2>11, <3>2, <4>6, <5>1 DEF Walked
      <4>10. PICK z : z = Pairs(right, left.last, right.last)
        OBVIOUS
      <4>11. z = Pairs(right, Width(u), Width(u)) /\ Width(u) \in Nat
        BY <4>1, <4>4, <4>8, <4>10, BodiesAssumption
      <4>12. z \in States /\ z.current = g.current /\ EqualPairs(z)
        BY <4>8, <4>11, EqualPairsKept
      <4>13. v = Wider(z, IF e.op = "comparison" THEN 1 ELSE left.last)
        BY <3>5, <4>9, <4>10, VisitShapes
      <4>14. v = Wider(z, Width(t))
        BY <2>5, <3>5, <4>1, <4>4, <4>13
      <4> QED
        BY <2>3, <4>12, <4>14, EqualPairsKept DEF Fitting
    <3> QED
      BY <2>11, <3>4, <3>5 DEF IsBinary
  <2> QED
    BY <2>6, <2>8, <2>9, <2>10, <2>11, OperandsLower
<1>2. Expressions \subseteq T
  <2> HIDE DEF T
  <2> QED
    BY <1>1, ExpressionInduction
<1> QED
  BY <1>2

(***************************************************************************)
(* What a visit leaves in lastValue when no `xor' is visited.              *)
(***************************************************************************)
NoNull(pairs) == \A pair \in pairs : pair[1] # Null /\ pair[2] # Null

Solid(v) == v \in States /\ v.last # Null /\ NoNull(v.pairs)

LEMMA SolidKept ==
  /\ \A g \in States : \A w \in Nat : NoNull(g.pairs) /\ w # Null => Solid(Wider(g, w))
  /\ \A g \in States : \A u, w \in Nat :
       NoNull(g.pairs) /\ u # Null /\ w # Null =>
         /\ Pairs(g, u, w) \in States /\ NoNull(Pairs(g, u, w).pairs)
         /\ Pairs(g, u, w).last = g.last
<1>1. ASSUME NEW g \in States, NEW w \in Nat, NoNull(g.pairs), w # Null PROVE Solid(Wider(g, w))
  <2>1. Wider(g, w) \in States /\ Wider(g, w).pairs = g.pairs /\ Wider(g, w).last = w
    BY StatesFacts
  <2> QED
    BY <1>1, <2>1 DEF Solid
<1>2. ASSUME NEW g \in States, NEW u \in Nat, NEW w \in Nat, NoNull(g.pairs), u # Null, w # Null
      PROVE  /\ Pairs(g, u, w) \in States /\ NoNull(Pairs(g, u, w).pairs)
             /\ Pairs(g, u, w).last = g.last
  <2>1. /\ Pairs(g, u, w) \in States /\ Pairs(g, u, w).last = g.last
        /\ Pairs(g, u, w).pairs = g.pairs \cup {<<u, w>>}
    <3>1. \A x, y \in Nat : /\ Pairs(g, x, y) \in States
                            /\ Pairs(g, x, y).current = g.current
                            /\ Pairs(g, x, y).last = g.last
                            /\ Pairs(g, x, y).pairs = g.pairs \cup {<<x, y>>}
      BY StatesFacts
    <3> QED
      BY <3>1, Zenon
  <2>2. <<u, w>>[1] = u /\ <<u, w>>[2] = w
    OBVIOUS
  <2>3. PICK pair : pair = <<u, w>>
    OBVIOUS
  <2>4. pair[1] # Null /\ pair[2] # Null
    BY <1>2, <2>2, <2>3
  <2>5. PICK pairs : pairs = g.pairs
    OBVIOUS
  <2>6. NoNull(pairs \cup {pair})
    BY <1>2, <2>4, <2>5 DEF NoNull
  <2> QED
    BY <2>1, <2>3, <2>5, <2>6
<1> QED
  BY <1>1, <1>2

(* Whatever the types, the casts and the literals of an expression whose    *)
(* names have slots are: lastValue is a value wherever the visit of an      *)
(* operand is read, unless an operator is a `xor'.                          *)
LEMMA NeverNull ==
  ASSUME NEW scopes, NEW declared, TypedNames(scopes)
  PROVE  \A e \in Expressions : KnownNames(e, scopes, declared) /\ Lazy(e) =>
           \A g \in States : NoNull(g.pairs) => Solid(Visit(e, g, scopes))
<1> DEFINE T == {e \in Expressions : KnownNames(e, scopes, declared) /\ Lazy(e) =>
                   \A g \in States : NoNull(g.pairs) => Solid(Visit(e, g, scopes))}
<1>1. ASSUME NEW e \in Expressions, Operands(e) \subseteq T PROVE e \in T
  <2> SUFFICES ASSUME KnownNames(e, scopes, declared), Lazy(e), NEW g \in States, NoNull(g.pairs)
               PROVE  Solid(Visit(e, g, scopes))
    OBVIOUS
  <2>1. ASSUME NEW o \in Operands(e), NEW h \in States, NoNull(h.pairs)
        PROVE  Solid(Visit(o, h, scopes))
    <3>1. KnownNames(o, scopes, declared)
      BY WithinFacts DEF KnownNames
    <3>2. o \in Expressions /\ Lazy(o)
      BY WithinFacts DEF Lazy
    <3> QED
      BY <1>1, <2>1, <3>1, <3>2
  <2> HIDE DEF T
  <2>2. PICK v : v = Visit(e, g, scopes)
    OBVIOUS
  <2>3. Walked(e, g, scopes)
    BY VisitUnfold
  <2>4. /\ \A t \in Types : Width(t) \in Nat /\ Width(t) # Null
        /\ 1 \in Nat /\ 1 # Null /\ 32 \in Nat /\ 32 # Null
    BY BodiesAssumption DEF Null
  <2>5. SUFFICES Solid(v)
    BY <2>2
  <2>6. CASE e.op = "text"
    <3>1. e.name \in NamesIn(e) /\ e.name \in Names
      BY <2>6, WithinFacts
    <3>2. Binders(scopes, e.name) # {} /\ Resolve(scopes, e.name).type \in Types
      BY <3>1 DEF KnownNames, TypedNames
    <3>3. v = VisitText(e, g, scopes)
      BY <2>2, <2>3, <2>6 DEF Walked
    <3>4. v = Wider(g, Width(Resolve(scopes, e.name).type))
      BY <3>2, <3>3, VisitShapes
    <3> QED
      BY <2>4, <3>2, <3>4, SolidKept
  <2>7. CASE e.op = "number"
    <3>1. PICK w : w = LiteralWidth(g.current)
      OBVIOUS
    <3>2. v = Wider(g, w)
      BY <2>2, <2>3, <2>7, <3>1 DEF Walked
    <3>3. w \in Nat /\ w # Null
      <4>1. g.current \in Types \cup {NoType}
        BY StatesFacts
      <4> QED
        BY <2>4, <3>1, <4>1 DEF LiteralWidth
    <3> QED
      BY <3>2, <3>3, SolidKept
  <2>8. CASE e.op = "cast"
    <3>1. e.value \in Operands(e) /\ e.type \in Types
      BY <2>8, OperandsLower
    <3>2. PICK h : h = Under(g, e.type)
      OBVIOUS
    <3>3. h \in States /\ NoNull(h.pairs)
      <4>1. h \in States
        BY <3>1, <3>2, StatesKept
      <4>2. h.pairs = g.pairs
        <5>1. [g EXCEPT !.current = e.type].pairs = g.pairs
          BY DEF States
        <5> QED
          BY <3>2, <5>1, Zenon DEF Under
      <4> QED
        BY <4>1, <4>2
    <3>4. PICK r : r = Visit(e.value, h, scopes)
      OBVIOUS
    <3>5. Solid(r)
      BY <2>1, <3>1, <3>3, <3>4
    <3>6. PICK w : w = Width(e.type)
      OBVIOUS
    <3>7. w \in Nat /\ w # Null
      BY <2>4, <3>1, <3>6
    <3>8. r \in States /\ r.last \in Nat /\ r.last # Null /\ NoNull(r.pairs)
      BY <3>5, StatesKept DEF Solid
    <3>9. PICK p : p = IF CastFits(r.last, e.type) THEN r ELSE Pairs(r, r.last, w)
      OBVIOUS
    <3>10. p \in States /\ NoNull(p.pairs)
      BY <3>7, <3>8, <3>9, SolidKept
    <3>11. v = VisitCast(e, r)
      BY <2>2, <2>3, <2>8, <3>2, <3>4 DEF Walked
    <3>12. v = Wider(p, w)
      BY <3>6, <3>9, <3>11, VisitShapes
    <3> QED
      BY <3>7, <3>10, <3>12, SolidKept
  <2>9. CASE IsUnary(e)
    <3>1. e.right \in Operands(e)
      BY <2>9, OperandsLower
    <3>2. PICK r : r = Visit(e.right, g, scopes)
      OBVIOUS
    <3>3. Solid(r)
      BY <2>1, <3>1, <3>2
    <3>4. r \in States /\ r.last \in Nat /\ r.last # Null /\ NoNull(r.pairs)
      BY <3>3, StatesKept DEF Solid
    <3>5. PICK p : p = Pairs(r, r.last, r.last)
      OBVIOUS
    <3>6. p \in States /\ NoNull(p.pairs)
      BY <3>4, <3>5, SolidKept
    <3>7. PICK w : w = IF e.op = "not" THEN 1 ELSE r.last
      OBVIOUS
    <3>8. w \in Nat /\ w # Null
      BY <2>4, <3>4, <3>7
    <3>9. v = VisitUnary(e, r)
      BY <2>2, <2>3, <2>9, <3>2 DEF Walked
    <3>10. v = Wider(p, w)
      BY <3>5, <3>7, <3>9, VisitShapes
    <3> QED
      BY <3>6, <3>8, <3>10, SolidKept
  <2>10. CASE IsBinary(e)
    <3>1. e.left \in Operands(e) /\ e.right \in Operands(e)
      BY <2>10, OperandsLower
    <3>2. PICK left : left = Visit(e.left, g, scopes)
      OBVIOUS
    <3>3. Solid(left)
      BY <2>1, <3>1, <3>2
    <3>4. left \in States /\ left.last \in Nat /\ left.last # Null /\ NoNull(left.pairs)
      BY <3>3, StatesKept DEF Solid
    <3>5. CASE IsLazy(e)
      <4>1. PICK p : p = Pairs(left, left.last, 1)
        OBVIOUS
      <4>2. p \in States /\ NoNull(p.pairs)
        BY <2>4, <3>4, <4>1, SolidKept
      <4>3. PICK right : right = Visit(e.right, p, scopes)
        OBVIOUS
      <4>4. Solid(right)
        BY <2>1, <3>1, <4>2, <4>3
      <4>5. right \in States /\ right.last \in Nat /\ right.last # Null /\ NoNull(right.pairs)
        BY <4>4, StatesKept DEF Solid
      <4>6. PICK z : z = Pairs(right, right.last, 1)
        OBVIOUS
      <4>7. z \in States /\ NoNull(z.pairs)
        BY <2>4, <4>5, <4>6, SolidKept
      <4>8. v = VisitLogical(right)
        BY <2>2, <2>3, <3>2, <3>5, <4>1, <4>3 DEF Walked
      <4>9. v = Wider(z, 1)
        BY <4>6, <4>8, VisitShapes
      <4> QED
        BY <2>4, <4>7, <4>9, SolidKept
    <3>6. CASE ~IsLazy(e)
      <4>1. e.op # "logical"
        BY <3>6, WithinFacts DEF Lazy, IsLazy
      <4>2. PICK right : right = Visit(e.right, left, scopes)
        OBVIOUS
      <4>3. Solid(right)
        BY <2>1, <3>1, <3>4, <4>2
      <4>4. right \in States /\ right.last \in Nat /\ right.last # Null /\ NoNull(right.pairs)
        BY <4>3, StatesKept DEF Solid
      <4>5. PICK z : z = Pairs(right, left.last, right.last)
        OBVIOUS
      <4>6. z \in States /\ NoNull(z.pairs)
        BY <3>4, <4>4, <4>5, SolidKept
      <4>7. PICK w : w = IF e.op = "comparison" THEN 1 ELSE left.last
        OBVIOUS
      <4>8. w \in Nat /\ w # Null
        BY <2>4, <3>4, <4>7
      <4>9. v = VisitBinary(e, left, right)
        BY <2>2, <2>3, <2>10, <3>2, <3>6, <4>2 DEF Walked
      <4>10. v = Wider(z, w)
        BY <4>1, <4>5, <4>7, <4>9, VisitShapes
      <4> QED
        BY <4>6, <4>8, <4>10, SolidKept
    <3> QED
      BY <3>5, <3>6
  <2> QED
    BY <2>6, <2>7, <2>8, <2>9, <2>10, OperandsLower
<1>2. Expressions \subseteq T
  <2> HIDE DEF T
  <2> QED
    BY <1>1, ExpressionInduction
<1> QED
  BY <1>2

(***************************************************************************)
(* The code generator leaves the items as they are.                        *)
(***************************************************************************)
LEMMA ProgramKept ==
  ASSUME program' = program
  PROVE  /\ \A n, j : (Declares(j, n)' <=> Declares(j, n)) /\ TypeAt(n, j)' = TypeAt(n, j)
         /\ \A k : Opened(k)' = Opened(k)
         /\ \A n, k : Live(n, k)' = Live(n, k)
         /\ \A n, i : Meant(n, i)' = Meant(n, i)
         /\ \A i : HasValue(i)' <=> HasValue(i)
         /\ \A i : LiteralsTyped(i)' <=> LiteralsTyped(i)
         /\ \A i : UsesXor(i)' <=> UsesXor(i)
<1>1. \A n, j : (Declares(j, n)' <=> Declares(j, n)) /\ TypeAt(n, j)' = TypeAt(n, j)
  BY DEF Declares, TypeAt
<1>2. \A op, k : Count(op, k)' = Count(op, k)
  <2> SUFFICES ASSUME NEW op, NEW k PROVE Count(op, k)' = Count(op, k)
    OBVIOUS
  <2>1. {j \in 1 .. k : program'[j].op = op} = {j \in 1 .. k : program[j].op = op}
    OBVIOUS
  <2> QED
    BY <2>1 DEF Count
<1>3. \A k : Opened(k)' = Opened(k)
  BY <1>2 DEF Opened
<1>4. \A j, i : InScope(j, i)' <=> InScope(j, i)
  <2> SUFFICES ASSUME NEW j, NEW i PROVE InScope(j, i)' <=> InScope(j, i)
    OBVIOUS
  <2> QED
    BY <1>3 DEF InScope
<1>5. ASSUME NEW n, NEW k PROVE Live(n, k)' = Live(n, k)
  <2>1. {j \in 1 .. k : Declares(j, n)' /\ InScope(j, k)'} = {j \in 1 .. k : Declares(j, n) /\ InScope(j, k)}
    BY <1>1, <1>4
  <2> QED
    BY <2>1 DEF Live
<1>6. ASSUME NEW n, NEW i PROVE Meant(n, i)' = Meant(n, i)
  <2> DEFINE js == {j \in 1 .. i - 1 : Declares(j, n) /\ InScope(j, i)}
             ks == {j \in 1 .. i - 1 : Declares(j, n)' /\ InScope(j, i)'}
  <2>1. js = ks
    BY <1>1, <1>4
  <2>2. Meant(n, i) = IF js = {} THEN 0 ELSE CHOOSE j \in js : \A k \in js : k <= j
    BY DEF Meant
  <2>3. Meant(n, i)' = IF ks = {} THEN 0 ELSE CHOOSE j \in ks : \A k \in ks : k <= j
    BY DEF Meant
  <2> HIDE DEF js, ks
  <2> QED
    BY <2>1, <2>2, <2>3
<1>7. \A i : HasValue(i)' <=> HasValue(i)
  BY DEF HasValue
<1>8. \A i : LiteralsTyped(i)' <=> LiteralsTyped(i)
  BY DEF LiteralsTyped
<1>9. \A i : UsesXor(i)' <=> UsesXor(i)
  BY DEF UsesXor
<1> QED
  BY <1>1, <1>3, <1>5, <1>6, <1>7, <1>8, <1>9

LEMMA MeaningKept ==
  ASSUME program' = program
  PROVE  /\ NamesDiffer' <=> NamesDiffer
         /\ \A i : RightlyTyped(i)' <=> RightlyTyped(i)
<1>1. NamesDiffer' <=> NamesDiffer
  <2>1. \A n, i : Meant(n, i)' = Meant(n, i)
    BY ProgramKept
  <2>2. \A n, i : Declares(i, n)' <=> Declares(i, n)
    BY ProgramKept
  <2>3. \A i : HasValue(i)' <=> HasValue(i)
    BY ProgramKept
  <2> QED
    BY <2>1, <2>2, <2>3 DEF NamesDiffer
<1>2. ASSUME NEW i PROVE RightlyTyped(i)' <=> RightlyTyped(i)
  <2>1. ASSUME NEW n PROVE (TypeAt(n, Meant(n, i)))' = TypeAt(n, Meant(n, i))
    <3>1. PICK a : a = Meant(n, i)
      OBVIOUS
    <3>2. Meant(n, i)' = a /\ TypeAt(n, a)' = TypeAt(n, a)
      BY <3>1, ProgramKept
    <3>3. (TypeAt(n, Meant(n, i)))' = TypeAt(n, a)'
      BY <3>2 DEF TypeAt
    <3> QED
      BY <3>1, <3>2, <3>3
  <2>2. Wanted(i)' = Wanted(i)
    <3>1. CASE program[i].op = "assign"
      <4>1. PICK n : n = program[i].name
        OBVIOUS
      <4>2. Wanted(i) = TypeAt(n, Meant(n, i))
        BY <3>1, <4>1 DEF Wanted
      <4>3. Wanted(i)' = (TypeAt(n, Meant(n, i)))'
        BY <3>1, <4>1 DEF Wanted
      <4> QED
        BY <2>1, <4>2, <4>3
    <3>2. CASE program[i].op # "assign"
      BY <3>2, SMT DEF Wanted
    <3> QED
      BY <3>1, <3>2
  <2>3. [n \in Names |-> (TypeAt(n, Meant(n, i)))'] = [n \in Names |-> TypeAt(n, Meant(n, i))]
    BY <2>1
  <2>4. PICK D : D = [n \in Names |-> TypeAt(n, Meant(n, i))]
    OBVIOUS
  <2>5. RightlyTyped(i) <=> HasType(program[i].value[1], Wanted(i), D)
    BY <2>4 DEF RightlyTyped
  <2>6. RightlyTyped(i)' <=> HasType(program'[i].value[1], Wanted(i)', D)
    BY <2>3, <2>4 DEF RightlyTyped
  <2> QED
    BY <2>2, <2>5, <2>6
<1> QED
  BY <1>1, <1>2

LEMMA SlotsOKNext ==
  ASSUME program' = program, NEW s, NEW k, SlotsOK(s, k)
  PROVE  SlotsOK(s, k)'
<1>1. \A n, j : TypeAt(n, j)' = TypeAt(n, j)
  BY ProgramKept
<1>2. \A j : Opened(j)' = Opened(j)
  BY ProgramKept
<1>3. \A n, j : Live(n, j)' = Live(n, j)
  BY ProgramKept
<1>4. /\ Sequence(s)
      /\ Len(s) = IF k = 0 THEN 0 ELSE 1 + Opened(k)'
  BY <1>2 DEF SlotsOK
<1>5. \A n \in Names : \A l \in 1 .. Len(s) : n \in DOMAIN s[l] =>
        /\ s[l][n].at \in Live(n, k)' /\ Opened(s[l][n].at)' = l - 1
        /\ s[l][n].type = TypeAt(n, s[l][n].at)'
  BY <1>1, <1>2, <1>3 DEF SlotsOK
<1>6. \A n \in Names : \A j \in Live(n, k)' :
        /\ 1 + Opened(j)' \in 1 .. Len(s) /\ n \in DOMAIN s[1 + Opened(j)']
        /\ j <= s[1 + Opened(j)'][n].at
  BY <1>2, <1>3 DEF SlotsOK
<1>7. \A n \in Names : \A l, m \in 1 .. Len(s) :
        n \in DOMAIN s[l] /\ n \in DOMAIN s[m] /\ l < m => s[l][n].at < s[m][n].at
  BY DEF SlotsOK
<1> QED
  BY <1>4, <1>5, <1>6, <1>7 DEF SlotsOK

SlotsThere == \A s, k : s = slots /\ k = pc - 1 /\ SlotsOK(s, k) => SlotsOK(slots, pc - 1)

LEMMA SlotsAreThere == SlotsThere
  BY DEF SlotsThere

LEMMA SlotsAreThereNext == SlotsThere'
  BY SlotsAreThere, PTL

(* What the properties of the generator say of item i.                      *)
Lexical(i, uses) ==
  \A use \in uses :
    use[2] = IF program[i].op = "declare" /\ program[i].name = use[1] THEN i ELSE Meant(use[1], i)

Agree(i, pairs) ==
  /\ NamesDiffer /\ HasValue(i) /\ ~HasOp(program[i].value[1], "cast") /\ ~UsesXor(i) /\ LiteralsTyped(i) =>
       \A pair \in pairs : pair[1] = pair[2]
  /\ NamesDiffer /\ ~(HasValue(i) /\ UsesXor(i)) => NoNull(pairs)

FromLast ==
  (\E i, uses, pairs : /\ emitted.item = i /\ emitted.uses = uses /\ emitted.pairs = pairs
                       /\ Lexical(i, uses) /\ Agree(i, pairs)) =>
    GeneratorScopesLexically /\ WidthsAgree /\ NullNeedsXor

LEMMA LastDecides == FromLast
<1> SUFFICES ASSUME NEW i, NEW uses, NEW pairs,
                    emitted.item = i, emitted.uses = uses, emitted.pairs = pairs,
                    Lexical(i, uses), Agree(i, pairs)
             PROVE  GeneratorScopesLexically /\ WidthsAgree /\ NullNeedsXor
  BY DEF FromLast
<1>1. GeneratorScopesLexically
  BY DEF GeneratorScopesLexically, Lexical
<1>2. WidthsAgree
  BY DEF WidthsAgree, Uncast, SameWidths, Agree
<1>3. NullNeedsXor
  BY DEF NullNeedsXor, UsesNull, NoNull, Agree
<1> QED
  BY <1>1, <1>2, <1>3

LEMMA LastDecidesNext == FromLast'
  BY LastDecides, PTL

LEMMA AgreeNext ==
  ASSUME program' = program, NEW i, NEW uses, NEW pairs
  PROVE  /\ Lexical(i, uses) => Lexical(i, uses)'
         /\ Agree(i, pairs) => Agree(i, pairs)'
<1>1. \A n : Meant(n, i)' = Meant(n, i)
  BY ProgramKept
<1>2. Lexical(i, uses) => Lexical(i, uses)'
  BY <1>1 DEF Lexical
<1>3. /\ NamesDiffer' <=> NamesDiffer
      /\ HasValue(i)' <=> HasValue(i)
      /\ LiteralsTyped(i)' <=> LiteralsTyped(i)
      /\ UsesXor(i)' <=> UsesXor(i)
  BY ProgramKept, MeaningKept
<1>4. Agree(i, pairs) => Agree(i, pairs)'
  BY <1>3 DEF Agree, NoNull
<1> QED
  BY <1>2, <1>4

LastRight == RightlyTyped(Len(program)) <=> \E m : m = Len(program) /\ RightlyTyped(m)

LEMMA LastIsRight == LastRight
  BY DEF LastRight

LEMMA LastIsRightNext == LastRight'
  BY LastIsRight, PTL

(***************************************************************************)
(* What the code generator finds at a name.                                *)
(***************************************************************************)
LEMMA SlotsTyped ==
  ASSUME NEW s, NEW k \in Nat, SlotsOK(s, k), \A a \in 1 .. k : ItemOK(a)
  PROVE  TypedNames(s)
<1> SUFFICES ASSUME NEW n \in Names, Binders(s, n) # {}
             PROVE  Resolve(s, n).type \in Types
  BY DEF TypedNames
<1>1. Len(s) \in Nat
  BY SlotsOKParts
<1>2. PICK l \in Binders(s, n) : Resolve(s, n) = s[l][n]
  BY <1>1, ResolveType
<1>3. l \in 1 .. Len(s) /\ n \in DOMAIN s[l]
  BY <1>2 DEF Binders
<1>4. PICK a : a = s[l][n].at
  OBVIOUS
<1>5. a \in Live(n, k) /\ a \in 1 .. k /\ s[l][n].type = TypeAt(n, a)
  BY <1>3, <1>4, SlotsOKParts
<1>6. Declares(a, n) /\ a # 0 /\ ItemOK(a)
  BY <1>5 DEF Live
<1>7. TypeAt(n, a) \in Types
  BY <1>6, TypeAtTypes
<1> QED
  BY <1>2, <1>5, <1>7

LEMMA AddBinders ==
  ASSUME NEW s, Sequence(s), s # <<>>, NEW x, NEW value, NEW t, t = AddToScope(s, x, value), NEW n
  PROVE  /\ n # x => (Binders(t, n) = {} <=> Binders(s, n) = {}) /\ Resolve(t, n) = Resolve(s, n)
         /\ n = x => Binders(t, n) # {} /\ Resolve(t, n) = value
<1> DEFINE S == {s[i] : i \in 1 .. Len(s)}
<1>1. s \in Seq(S)
  BY DEF Sequence
<1> HIDE DEF S
<1>2. Resolve(t, n) = IF n = x THEN value ELSE Resolve(s, n)
  BY <1>1, ResolveAdd
<1>3. Len(s) \in Nat /\ Len(s) # 0
  BY SequenceFacts
<1>4. /\ Len(t) = Len(s) /\ \A i \in 1 .. Len(s) : i # Len(s) => t[i] = s[i]
      /\ t[Len(s)] = Bind(s[Len(s)], x, value)
  BY SequenceAdd
<1>5. DOMAIN t[Len(s)] = DOMAIN s[Len(s)] \cup {x}
  BY <1>4 DEF Bind
<1>6. CASE n = x
  <2>1. Len(s) \in 1 .. Len(t) /\ n \in DOMAIN t[Len(s)]
    BY <1>3, <1>4, <1>5, <1>6
  <2> QED
    BY <1>2, <1>6, <2>1 DEF Binders
<1>7. CASE n # x
  <2>1. \A i \in 1 .. Len(s) : n \in DOMAIN t[i] <=> n \in DOMAIN s[i]
    BY <1>4, <1>5, <1>7
  <2>2. Binders(t, n) = Binders(s, n)
    BY <1>4, <2>1 DEF Binders
  <2> QED
    BY <1>2, <1>7, <2>2
<1> QED
  BY <1>6, <1>7

LEMMA FoundLexically ==
  ASSUME NEW s, NEW k \in Nat, SlotsOK(s, k), NEW i, i = k + 1,
         program[i].op \notin {"else", "fi", "declare"}, NEW ns \in SUBSET Names
  PROVE  Lexical(i, Found(ns, s))
<1> SUFFICES ASSUME NEW n \in ns
             PROVE  (IF Binders(s, n) = {} THEN 0 ELSE Resolve(s, n).at) = Meant(n, i)
  BY DEF Lexical, Found
<1>1. \/ Binders(s, n) = {} /\ Meant(n, i) = 0
      \/ \E a \in 1 .. k : Meant(n, i) = a /\ Binders(s, n) # {} /\ Resolve(s, n).at = a
  BY SlotsFound
<1> QED
  BY <1>1

LEMMA FoundKnown ==
  ASSUME NEW s, NEW k \in Nat, SlotsOK(s, k), NEW i, i = k + 1,
         program[i].op \notin {"else", "fi"}, NEW n \in Names, Meant(n, i) # 0
  PROVE  Binders(s, n) # {} /\ Resolve(s, n).type = Meaning(i)[n]
<1>1. \/ Binders(s, n) = {} /\ Meant(n, i) = 0
      \/ \E a \in 1 .. k :
           /\ Meant(n, i) = a /\ Binders(s, n) # {} /\ Resolve(s, n).type = TypeAt(n, a)
  BY SlotsFound
<1>2. Meaning(i)[n] = TypeAt(n, Meant(n, i))
  BY DEF Meaning
<1> QED
  BY <1>1, <1>2

LEMMA ValueKnown ==
  ASSUME NEW s, NEW k \in Nat, SlotsOK(s, k), NEW i \in DOMAIN program, i = k + 1,
         program[i].op \notin {"else", "fi"}, HasValue(i), NamesDiffer,
         NEW e \in Expressions, e = program[i].value[1]
  PROVE  KnownNames(e, s, Meaning(i))
<1> SUFFICES ASSUME NEW n \in NamesIn(e)
             PROVE  Binders(s, n) # {} /\ Resolve(s, n).type = Meaning(i)[n]
  BY DEF KnownNames
<1>1. n \in Names
  BY WithinFacts
<1>2. Meant(n, i) # 0
  BY DEF NamesDiffer
<1> QED
  BY <1>1, <1>2, FoundKnown

(* The declaration of item i is there before its value is visited.          *)
LEMMA DeclaredFound ==
  ASSUME NEW s, NEW k \in Nat, SlotsOK(s, k), s # <<>>, NEW i \in DOMAIN program, i = k + 1,
         Sequence(program), program[i].op = "declare", program[i].name \in Names,
         NEW t, t = AddToScope(s, program[i].name, [type |-> program[i].type, at |-> i])
  PROVE  /\ \A ns \in SUBSET Names : Lexical(i, Found(ns, t))
         /\ \A e \in Expressions :
              HasValue(i) /\ NamesDiffer /\ e = program[i].value[1] => KnownNames(e, t, Meaning(i))
<1>1. PICK x : x = program[i].name
  OBVIOUS
<1>2. PICK slot : slot = [type |-> program[i].type, at |-> i]
  OBVIOUS
<1>3. slot.at = i
  BY <1>2
<1>4. Sequence(s)
  BY <1>1, SlotsOKParts
<1>5. ASSUME NEW n
      PROVE  /\ n # x => (Binders(t, n) = {} <=> Binders(s, n) = {}) /\ Resolve(t, n) = Resolve(s, n)
             /\ n = x => Binders(t, n) # {} /\ Resolve(t, n) = slot
  BY <1>1, <1>2, <1>4, AddBinders
<1>6. ASSUME NEW ns \in SUBSET Names
      PROVE  Lexical(i, Found(ns, t))
  <2> SUFFICES ASSUME NEW n \in ns
               PROVE  (IF Binders(t, n) = {} THEN 0 ELSE Resolve(t, n).at) =
                        IF program[i].op = "declare" /\ program[i].name = n THEN i ELSE Meant(n, i)
    BY DEF Lexical, Found
  <2>1. CASE n = x
    BY <1>1, <1>3, <1>5, <2>1
  <2>2. CASE n # x
    <3>1. \/ Binders(s, n) = {} /\ Meant(n, i) = 0
          \/ \E a \in 1 .. k : Meant(n, i) = a /\ Binders(s, n) # {} /\ Resolve(s, n).at = a
      BY SlotsFound
    <3> QED
      BY <1>1, <1>5, <2>2, <3>1
  <2> QED
    BY <2>1, <2>2
<1>7. ASSUME NEW e \in Expressions, HasValue(i), NamesDiffer, e = program[i].value[1]
      PROVE  KnownNames(e, t, Meaning(i))
  <2> SUFFICES ASSUME NEW n \in NamesIn(e)
               PROVE  Binders(t, n) # {} /\ Resolve(t, n).type = Meaning(i)[n]
    BY DEF KnownNames
  <2>1. n \in Names
    BY WithinFacts
  <2>2. Meant(n, i) # 0
    BY <1>7 DEF NamesDiffer
  <2>3. n # x
    <3>1. PICK a \in 1 .. k : Declares(a, n)
      BY <2>1, <2>2, SlotsFound
    <3>2. ASSUME n = x PROVE FALSE
      <4>1. Declares(i, n)
        BY <1>1, <3>2 DEF Declares
      <4>2. a \in DOMAIN program /\ a # i
        <5>1. DOMAIN program = 1 .. Len(program) /\ Len(program) \in Nat
          BY SequenceFacts
        <5> QED
          BY <5>1
      <4> QED
        BY <1>7, <2>1, <3>1, <4>1, <4>2 DEF NamesDiffer
    <3> QED
      BY <3>2
  <2> QED
    BY <1>5, <2>1, <2>2, <2>3, FoundKnown
<1> QED
  BY <1>6, <1>7

(***************************************************************************)
(* A step of the code generator.                                           *)
(***************************************************************************)
LEMMA GeneratorFacts ==
  ASSUME IInv, phase = "generate", NEW i, i = pc
  PROVE  /\ Sequence(program) /\ Len(program) \in Nat /\ i \in 1 .. Len(program) /\ i \in DOMAIN program
         /\ i - 1 \in Nat /\ i = i - 1 + 1
         /\ SlotsOK(slots, i - 1) /\ Len(slots) <= i - 1 /\ Sequence(slots) /\ Len(slots) \in Nat
         /\ \A j \in 1 .. Len(program) : ItemOK(j)
         /\ program[i].op = "end" <=> i = Len(program)
         /\ program[i].op = "function" <=> i = 1
         /\ i # 1 => Len(slots) = 1 + Opened(i - 1) /\ slots # <<>>
         /\ Opened(i - 1) \in Int /\ Opened(i - 1) >= 0 /\ Opened(Len(program)) = 0
         /\ outcome = "compiling" /\ Generator \in States /\ Generator.pairs = {}
         /\ current = Generator.current /\ last = Generator.last
<1>1. /\ Sequence(program) /\ \A j \in 1 .. Len(program) : ItemOK(j)
      /\ GeneratorOK /\ TypeOK
  BY DEF IInv
<1>2. Len(program) \in Nat /\ DOMAIN program = 1 .. Len(program)
  BY <1>1, SequenceFacts
<1>3. /\ outcome = "compiling" /\ program[Len(program)].op = "end" /\ i \in 1 .. Len(program)
      /\ Len(slots) <= i - 1 /\ SlotsOK(slots, i - 1) /\ Opened(Len(program)) = 0
  BY <1>1 DEF GeneratorOK
<1>4. i - 1 \in Nat /\ i = i - 1 + 1 /\ (i # 1 => i - 1 # 0 /\ i - 1 \in 1 .. Len(program))
  BY <1>2, <1>3
<1>5. Sequence(slots)
  BY <1>3 DEF SlotsOK
<1>6. Len(slots) \in Nat /\ (slots = <<>> <=> Len(slots) = 0)
  BY <1>5, SequenceFacts
<1>7. Opened(i - 1) \in Int /\ Opened(0) = 0
  BY <1>4, StepsHold DEF Steps
<1>8. Opened(i - 1) >= 0
  <2>1. CASE i = 1
    <3>1. i - 1 = 0
      BY <2>1
    <3> QED
      BY <1>7, <3>1
  <2>2. CASE i # 1
    BY <1>1, <1>4, <2>2 DEF ItemOK
  <2> QED
    BY <2>1, <2>2
<1>9. i # 1 => Len(slots) = 1 + Opened(i - 1) /\ slots # <<>>
  BY <1>3, <1>4, <1>6, <1>7, <1>8 DEF SlotsOK
<1>10. ItemOK(i) /\ (program[i].op = "end" <=> i = Len(program)) /\ (program[i].op = "function" <=> i = 1)
  BY <1>1, <1>3 DEF ItemOK
<1>11. Generator \in States /\ Generator.pairs = {} /\ current = Generator.current /\ last = Generator.last
  BY <1>1 DEF TypeOK, Generator, States
<1> QED
  BY <1>1, <1>2, <1>3, <1>4, <1>5, <1>6, <1>7, <1>8, <1>9, <1>10, <1>11

(* The widths that meet in the value of item i, which the wanted width w    *)
(* awaits.                                                                  *)
LEMMA ValueWidths ==
  ASSUME Sequence(program), NEW i \in DOMAIN program, HasValue(i), AcceptedHasType, outcome = "compiling",
         NEW e \in Expressions, e = program[i].value[1], NEW scopes, TypedNames(scopes),
         NamesDiffer => KnownNames(e, scopes, Meaning(i)),
         NEW g \in States, g.pairs = {},
         NamesDiffer /\ LiteralsTyped(i) /\ HasOp(e, "number") => g.current = Wanted(i),
         NEW w \in Nat \ {0}, NamesDiffer => w = Width(Wanted(i)),
         NEW h, h = Pairs(Visit(e, g, scopes), Visit(e, g, scopes).last, w)
  PROVE  h \in States /\ Agree(i, h.pairs)
<1>1. PICK v : v = Visit(e, g, scopes)
  OBVIOUS
<1>2. v \in States
  BY <1>1, VisitUnfold DEF Walked
<1>3. v.last \in Nat
  BY <1>2, StatesKept
<1>4. h = Pairs(v, v.last, w)
  BY <1>1
<1>5. h \in States /\ h.pairs = v.pairs \cup {<<v.last, w>>}
  BY <1>2, <1>3, <1>4 DEF Pairs, States
<1>6. ASSUME NamesDiffer, ~HasOp(e, "cast"), ~UsesXor(i), LiteralsTyped(i), NEW pair \in h.pairs
      PROVE  pair[1] = pair[2]
  <2>1. Plain(e)
    BY <1>6 DEF Plain, Lazy, UsesXor, LiteralsTyped
  <2>2. RightlyTyped(i)
    BY <1>6 DEF AcceptedHasType
  <2>3. PICK t : t = Wanted(i)
    OBVIOUS
  <2>4. PICK D : D = Meaning(i)
    OBVIOUS
  <2>5. t \in TypesOf(e, D)
    BY <2>2, <2>3, <2>4 DEF RightlyTyped, HasType, Meaning
  <2>6. KnownNames(e, scopes, D)
    BY <1>6, <2>4
  <2>7. EqualPairs(g)
    BY DEF EqualPairs
  <2>8. HasOp(e, "number") => g.current = t
    BY <1>6, <2>3
  <2>9. Fitting(v, g, t)
    BY <1>1, <2>1, <2>5, <2>6, <2>7, <2>8, WidthsKept
  <2>10. v.last = w /\ EqualPairs(v)
    BY <1>6, <2>3, <2>9 DEF Fitting
  <2>11. pair \in v.pairs \/ pair = <<w, w>>
    BY <1>5, <1>6, <2>10
  <2> QED
    BY <2>10, <2>11 DEF EqualPairs
<1>7. ASSUME NamesDiffer, ~UsesXor(i) PROVE NoNull(h.pairs)
  <2>1. Lazy(e)
    BY <1>7 DEF Lazy, UsesXor
  <2>2. PICK D : D = Meaning(i)
    OBVIOUS
  <2>3. KnownNames(e, scopes, D)
    BY <1>7, <2>2
  <2>4. NoNull(g.pairs)
    BY DEF NoNull
  <2>5. Solid(v)
    BY <1>1, <2>1, <2>3, <2>4, NeverNull
  <2>6. v.last # Null /\ w # Null /\ w \in Nat /\ NoNull(v.pairs)
    BY <2>5 DEF Solid, Null
  <2> QED
    BY <1>2, <1>3, <1>4, <2>6, SolidKept
<1>8. Agree(i, h.pairs)
  BY <1>6, <1>7 DEF Agree
<1> QED
  BY <1>5, <1>8

(* An invariant of the checker's verdicts only needs the program.           *)
LEMMA VerdictsLast ==
  ASSUME Sequence(program), program' = program, outcome = "compiling",
         outcome' \in {"compiling", "compiled", "crashed"},
         outcome' = "crashed" => program[Len(program)].op = "end",
         AcceptedHasType, HasTypeAccepted
  PROVE  AcceptedHasType' /\ HasTypeAccepted'
<1>1. NamesDiffer' <=> NamesDiffer
  BY MeaningKept
<1>2. \A i : HasValue(i)' <=> HasValue(i)
  BY ProgramKept
<1>3. \A i : RightlyTyped(i)' <=> RightlyTyped(i)
  BY MeaningKept
<1>4. AcceptedHasType'
  <2>1. \A i : HasValue(i) => program[i].op # "end"
    BY DEF HasValue
  <2>2. DOMAIN program = 1 .. Len(program) /\ Len(program) \in Nat
    BY SequenceFacts
  <2> QED
    BY <1>1, <1>2, <1>3 DEF AcceptedHasType
<1>5. HasTypeAccepted'
  BY DEF HasTypeAccepted
<1> QED
  BY <1>4, <1>5

(* What the walks keep: the properties of the generator hold of what it     *)
(* generated last.                                                          *)
Safe == IInv /\ GeneratorScopesLexically /\ WidthsAgree /\ NullNeedsXor

LEMMA GeneratesStep ==
  ASSUME IInv, phase = "generate", NEW i, i = pc, NEW g \in States, NEW uses, NEW t,
         Generates(g, uses, t),
         program[i].op # "end" => SlotsOK(t, i) /\ Len(t) <= i,
         program[i].op = "end" => t = <<>>,
         Lexical(i, uses), Agree(i, g.pairs)
  PROVE  Safe'
<1>1. /\ slots' = t /\ current' = g.current /\ last' = g.last
      /\ emitted' = [item |-> i, pairs |-> g.pairs, uses |-> uses]
      /\ pc' = i + 1 /\ program' = program /\ ifs' = ifs /\ names' = names
      /\ variables' = variables /\ hint' = hint
      /\ program[i].op = "end" => phase' = "done" /\ outcome' = "compiled"
      /\ program[i].op # "end" => phase' = phase /\ outcome' = outcome
  BY DEF Generates, Item, checker
<1>2. /\ Sequence(program) /\ Len(program) \in Nat /\ i \in 1 .. Len(program)
      /\ \A j \in 1 .. Len(program) : ItemOK(j)
      /\ program[i].op = "end" <=> i = Len(program)
      /\ Opened(Len(program)) = 0 /\ outcome = "compiling"
  BY GeneratorFacts
<1>3. /\ i + 1 \in Nat /\ i + 1 # 0 /\ i + 1 # 1 /\ i + 1 > 1 /\ i + 1 - 1 = i
      /\ program[i].op # "end" => i + 1 \in 1 .. Len(program)
  BY <1>2
<1>4. /\ TypeOK /\ Sequence(ifs) /\ Sequence(names) /\ Sequence(variables)
      /\ AcceptedHasType /\ HasTypeAccepted /\ Len(program) >= 2
      /\ program[Len(program)].op = "end"
  BY DEF IInv, GeneratorOK
<1>5. outcome' \in {"compiling", "compiled"}
  BY <1>1, <1>2
<1>6. AcceptedHasType' /\ HasTypeAccepted'
  BY <1>1, <1>2, <1>4, <1>5, VerdictsLast
<1>7. \A j \in 1 .. Len(program') : ItemOK(j)'
  <2> SUFFICES ASSUME NEW j \in 1 .. Len(program) PROVE ItemOK(j)'
    BY <1>1
  <2>1. ItemOK(j)
    BY <1>2
  <2>2. Accepted(j)
    BY <1>2 DEF Accepted
  <2>3. \A k : Opened(k)' = Opened(k)
    BY <1>1, ProgramKept
  <2> QED
    BY <1>1, <2>1, <2>2, <2>3 DEF ItemOK
<1>8. g.current \in Types \cup {NoType} /\ g.last \in Nat /\ g.pairs \subseteq Nat \X Nat
  BY DEF States
<1>9. TypeOK'
  <2>1. /\ Len(program') <= MaxItems + 2 /\ Len(names') = 1 /\ Len(variables') = 1
        /\ hint' \in Hints
    BY <1>1, <1>4 DEF TypeOK
  <2>2. phase' = "generate" => pc' \in 1 .. Len(program') /\ Len(slots') <= pc'
    <3>1. ASSUME phase' = "generate" PROVE pc' \in 1 .. Len(program') /\ Len(slots') <= pc'
      <4>1. program[i].op # "end"
        BY <1>1, <3>1
      <4>2. SlotsOK(t, i) /\ Len(t) <= i
        BY <4>1
      <4>3. Len(t) \in Nat
        BY <4>2, SequenceFacts DEF SlotsOK
      <4>4. Len(t) <= i + 1
        BY <1>2, <4>2, <4>3
      <4> QED
        BY <1>1, <1>3, <4>1, <4>4
    <3> QED
      BY <3>1
  <2>3. outcome' = "compiled" => slots' = <<>>
    BY <1>1, <1>2
  <2>4. phase' = "done" <=> outcome' # "compiling"
    BY <1>1, <1>2
  <2>5. outcome' \in Outcomes
    BY <1>5 DEF Outcomes
  <2>6. current' \in Types \cup {NoType} /\ last' \in Nat /\ emitted'.pairs \subseteq Nat \X Nat
    BY <1>1, <1>8
  <2>7. pc' > 1
    BY <1>1, <1>3
  <2> QED
    BY <2>1, <2>2, <2>3, <2>4, <2>5, <2>6, <2>7 DEF TypeOK
<1>10. GeneratorOK'
  <2> SUFFICES ASSUME phase' = "generate" PROVE GeneratorOK'
    BY DEF GeneratorOK
  <2>1. program[i].op # "end"
    BY <1>1
  <2>2. SlotsOK(t, i) /\ Len(t) <= i
    BY <2>1
  <2>3. SlotsOK(t, i)'
    BY <1>1, <2>2, SlotsOKNext
  <2>4. SlotsOK(slots, pc - 1)'
    <3>1. slots' = t /\ pc' - 1 = i
      BY <1>1, <1>2
    <3> QED
      BY <2>3, <3>1, SlotsAreThereNext DEF SlotsThere
  <2>5. Opened(Len(program))' = 0
    <3>1. PICK m : m = Len(program)
      OBVIOUS
    <3>2. Opened(m)' = Opened(m)
      BY <1>1, ProgramKept
    <3> QED
      BY <1>1, <1>2, <3>1, <3>2 DEF Opened, Count
  <2>6. /\ outcome' = "compiling" /\ Len(program') >= 2 /\ program'[Len(program')].op = "end"
        /\ pc' \in 1 .. Len(program') /\ Len(slots') <= pc' - 1
    BY <1>1, <1>2, <1>3, <1>4, <2>1, <2>2
  <2> QED
    BY <2>4, <2>5, <2>6 DEF GeneratorOK
<1>11. CheckerOK' /\ Fresh'
  <2>1. phase' # "check" /\ pc' # 1
    BY <1>1, <1>3
  <2> QED
    BY <2>1 DEF CheckerOK, Fresh
<1>12. program' # <<>>
  <2>1. \A s : Sequence(s) => (s = <<>> <=> Len(s) = 0)
    BY SequenceFacts
  <2> QED
    BY <1>1, <1>2, <2>1
<1>13. IInv'
  <2>1. pc' \in Nat \ {0} /\ phase' \in {"check", "generate", "done"}
    BY <1>1, <1>2, <1>3
  <2>2. Sequence(program)' /\ Sequence(ifs)' /\ Sequence(names)' /\ Sequence(variables)'
    BY <1>1, <1>2, <1>4
  <2> QED
    BY <1>6, <1>7, <1>9, <1>10, <1>11, <1>12, <2>1, <2>2 DEF IInv
<1>14. GeneratorScopesLexically' /\ WidthsAgree' /\ NullNeedsXor'
  <2>1. Lexical(i, uses)' /\ Agree(i, g.pairs)'
    <3>1. PICK pairs : pairs = g.pairs
      OBVIOUS
    <3>2. Lexical(i, uses)' /\ Agree(i, pairs)'
      BY <1>1, <3>1, AgreeNext
    <3> QED
      BY <3>1, <3>2
  <2>2. emitted'.item = i /\ emitted'.uses = uses /\ emitted'.pairs = g.pairs
    BY <1>1
  <2> QED
    BY <2>1, <2>2, LastDecidesNext DEF FromLast
<1> QED
  BY <1>13, <1>14 DEF Safe

LEMMA GenerateFunctionStep ==
  ASSUME IInv, GenerateFunction
  PROVE  Safe'
<1>1. PICK i : i = pc
  OBVIOUS
<1>2. PICK ps : ps = program[i].parameters
  OBVIOUS
<1>3. PICK scope : scope = [n \in Parameters(ps) |-> [type |-> ParameterType(ps, n), at |-> i]]
  OBVIOUS
<1>4. PICK t : t = Append(slots, scope)
  OBVIOUS
<1>5. PICK g : g = Wider(Generator, Null)
  OBVIOUS
<1>6. phase = "generate" /\ program[i].op = "function" /\ Generates(g, {}, t)
  BY <1>1, <1>2, <1>3, <1>4, <1>5 DEF GenerateFunction, Visits, Item, Wider
<1>7. /\ i = 1 /\ i \in 1 .. Len(program) /\ Sequence(slots) /\ Len(slots) <= i - 1
      /\ Len(slots) \in Nat /\ Generator \in States /\ Generator.pairs = {} /\ ItemOK(i)
  BY <1>1, <1>6, GeneratorFacts
<1>8. g \in States /\ g.pairs = {}
  <2>1. Null \in Nat
    BY DEF Null
  <2> QED
    BY <1>5, <1>7, <2>1, StatesFacts
<1>9. Len(slots) = 0 /\ Len(slots) + 1 = 1
  BY <1>7
<1>10. Sequence(t) /\ Len(t) = 1 /\ t[1] = scope
  <2>1. Sequence(t) /\ Len(t) = Len(slots) + 1 /\ t[Len(slots) + 1] = scope
    BY <1>4, <1>7, SequenceAppend
  <2> QED
    BY <1>9, <2>1
<1>11. Opened(1) = 0
  <2>1. 0 \in Nat /\ 0 + 1 = 1
    OBVIOUS
  <2>2. Opened(0 + 1) = Opened(0) + (IF program[0 + 1].op = "if" THEN 1
                                      ELSE IF program[0 + 1].op = "fi" THEN -1 ELSE 0)
    BY <2>1, StepsHold DEF Steps
  <2>3. Opened(0) = 0
    BY StepsHold DEF Steps
  <2>4. program[0 + 1].op = "function"
    BY <1>6, <1>7, <2>1
  <2>5. Opened(0 + 1) = Opened(0)
    BY <2>2, <2>3, <2>4
  <2> QED
    BY <2>1, <2>3, <2>5
<1>12. \A n : Live(n, 1) = IF n \in Parameters(ps) THEN {1} ELSE {}
  <2> SUFFICES ASSUME NEW n PROVE Live(n, 1) = IF n \in Parameters(ps) THEN {1} ELSE {}
    OBVIOUS
  <2>1. 1 \in Nat /\ 1 .. 1 = {1}
    OBVIOUS
  <2>2. InScope(1, 1)
    BY <2>1, InScopeOpened
  <2>3. Declares(1, n) <=> n \in Parameters(ps)
    BY <1>2, <1>6, <1>7 DEF Declares
  <2> QED
    BY <2>1, <2>2, <2>3 DEF Live
<1>13. \A n : TypeAt(n, 1) = ParameterType(ps, n)
  BY <1>2, <1>6, <1>7 DEF TypeAt
<1>14. \A l : l \in 1 .. 1 <=> l = 1
  OBVIOUS
<1>15. SlotsOK(t, 1)
  <2>1. Len(t) = 1 + Opened(1)
    BY <1>10, <1>11
  <2>2. ASSUME NEW n \in Names, NEW l \in 1 .. Len(t), n \in DOMAIN t[l]
        PROVE  /\ t[l][n].at \in Live(n, 1) /\ Opened(t[l][n].at) = l - 1
               /\ t[l][n].type = TypeAt(n, t[l][n].at)
    <3>1. l = 1 /\ n \in Parameters(ps)
      BY <1>3, <1>10, <1>14, <2>2
    <3>2. t[l][n] = [type |-> ParameterType(ps, n), at |-> 1]
      BY <1>3, <1>7, <1>10, <3>1
    <3>3. 1 - 1 = 0
      OBVIOUS
    <3> QED
      BY <1>11, <1>12, <1>13, <3>1, <3>2, <3>3
  <2>3. ASSUME NEW n \in Names, NEW j \in Live(n, 1)
        PROVE  /\ 1 + Opened(j) \in 1 .. Len(t) /\ n \in DOMAIN t[1 + Opened(j)]
               /\ j <= t[1 + Opened(j)][n].at
    <3>1. j = 1 /\ n \in Parameters(ps)
      BY <1>12, <2>3
    <3>2. n \in DOMAIN t[1] /\ t[1][n].at = 1
      BY <1>3, <1>7, <1>10, <3>1
    <3>3. 1 + 0 = 1 /\ 1 <= 1 /\ 1 \in 1 .. 1
      OBVIOUS
    <3> QED
      BY <1>10, <1>11, <3>1, <3>2, <3>3
  <2>4. ASSUME NEW n \in Names, NEW l \in 1 .. Len(t), NEW m \in 1 .. Len(t), l < m
        PROVE  t[l][n].at < t[m][n].at
    BY <1>10, <2>4
  <2>5. 1 # 0
    OBVIOUS
  <2> QED
    BY <1>10, <2>1, <2>2, <2>3, <2>4, <2>5 DEF SlotsOK
<1>16. Lexical(i, {}) /\ Agree(i, g.pairs)
  BY <1>8 DEF Lexical, Agree, NoNull
<1>17. SlotsOK(t, i) /\ Len(t) <= i /\ program[i].op # "end"
  BY <1>6, <1>7, <1>10, <1>15
<1> QED
  BY <1>1, <1>6, <1>8, <1>16, <1>17, GeneratesStep

LEMMA GenerateDeclarationStep ==
  ASSUME IInv, GenerateDeclaration
  PROVE  Safe'
<1>1. PICK i : i = pc
  OBVIOUS
<1>2. PICK x, type, value : x = program[i].name /\ type = program[i].type /\ value = program[i].value
  OBVIOUS
<1>3. PICK t : t = AddToScope(slots, x, [type |-> type, at |-> i])
  OBVIOUS
<1>4. PICK g : g = Under(Generator, type)
  OBVIOUS
<1>5. /\ phase = "generate" /\ program[i].op = "declare"
      /\ value = <<>> => Generates(g, {}, t)
      /\ value # <<>> =>
           Generates(Pairs(Visit(value[1], g, t), Visit(value[1], g, t).last, Width(type)),
                     Found(NamesIn(value[1]), t), t)
  BY <1>1, <1>2, <1>3, <1>4 DEF GenerateDeclaration, Visits, Item, Under
<1>6. /\ Sequence(program) /\ i \in 1 .. Len(program) /\ i \in DOMAIN program
      /\ i - 1 \in Nat /\ i = i - 1 + 1
      /\ SlotsOK(slots, i - 1) /\ Len(slots) <= i - 1 /\ Sequence(slots) /\ Len(slots) \in Nat
      /\ \A j \in 1 .. Len(program) : ItemOK(j)
      /\ i # 1 /\ slots # <<>> /\ outcome = "compiling"
      /\ Generator \in States /\ Generator.pairs = {}
  BY <1>1, <1>5, GeneratorFacts
<1>7. x \in Names /\ type \in Types /\ value \in Values \cup {<<>>}
  <2>1. ItemOK(i)
    BY <1>6
  <2> QED
    BY <1>2, <1>5, <2>1 DEF ItemOK
<1>8. PICK k \in Nat : k = i - 1
  BY <1>6
<1>9. k # 0 /\ i = k + 1 /\ SlotsOK(slots, k) /\ \A j \in 1 .. k : ItemOK(j)
  BY <1>6, <1>8
<1>10. SlotsOK(t, i) /\ Len(t) = Len(slots)
  BY <1>2, <1>3, <1>5, <1>6, <1>7, <1>9, SlotsAdded
<1>11. Len(t) <= i
  BY <1>6, <1>10
<1>12. g \in States /\ g.pairs = {} /\ g.current = type
  BY <1>4, <1>6, <1>7 DEF Under, States
<1>13. CASE value = <<>>
  <2>1. ~HasValue(i)
    BY <1>2, <1>13 DEF HasValue
  <2>2. Lexical(i, {}) /\ Agree(i, g.pairs)
    BY <1>12, <2>1 DEF Lexical, Agree, NoNull
  <2>3. Generates(g, {}, t) /\ program[i].op # "end"
    BY <1>5, <1>13
  <2> QED
    BY <1>1, <1>5, <1>10, <1>11, <1>12, <2>2, <2>3, GeneratesStep
<1>14. CASE value # <<>>
  <2>1. PICK e : e = value[1]
    OBVIOUS
  <2>2. e \in Expressions /\ HasValue(i) /\ e = program[i].value[1] /\ NamesIn(e) \in SUBSET Names
    <3>1. value \in Values
      BY <1>7, <1>14
    <3>2. e \in Expressions
      BY <2>1, <3>1, ValueFacts
    <3>3. NamesIn(e) \subseteq Names
      BY <3>2, WithinFacts
    <3>4. HasValue(i)
      BY <1>2, <1>5, <1>14 DEF HasValue
    <3> QED
      BY <1>2, <2>1, <3>2, <3>3, <3>4
  <2>3. PICK uses : uses = Found(NamesIn(e), t)
    OBVIOUS
  <2>4. PICK w : w = Width(type)
    OBVIOUS
  <2>5. PICK h : h = Pairs(Visit(e, g, t), Visit(e, g, t).last, w)
    OBVIOUS
  <2>6. Generates(h, uses, t) /\ program[i].op # "end"
    BY <1>5, <1>14, <2>1, <2>3, <2>4, <2>5
  <2>7. t = AddToScope(slots, program[i].name, [type |-> program[i].type, at |-> i])
    BY <1>2, <1>3
  <2>8. program[i].name \in Names
    BY <1>2, <1>7
  <2>9. /\ \A ns \in SUBSET Names : Lexical(i, Found(ns, t))
        /\ \A f \in Expressions :
             HasValue(i) /\ NamesDiffer /\ f = program[i].value[1] => KnownNames(f, t, Meaning(i))
    BY <1>5, <1>6, <1>9, <2>7, <2>8, DeclaredFound
  <2>10. Lexical(i, uses) /\ (NamesDiffer => KnownNames(e, t, Meaning(i)))
    BY <2>2, <2>3, <2>9
  <2>11. TypedNames(t)
    <3>1. \A j \in 1 .. i : ItemOK(j)
      BY <1>6
    <3>2. i \in Nat
      BY <1>9
    <3> QED
      BY <1>10, <3>1, <3>2, SlotsTyped
  <2>12. Wanted(i) = type /\ w \in Nat \ {0}
    BY <1>2, <1>5, <1>7, <2>4, BodiesAssumption DEF Wanted
  <2>13. AcceptedHasType
    BY DEF IInv
  <2>14. h \in States /\ Agree(i, h.pairs)
    BY <1>6, <1>12, <2>2, <2>4, <2>5, <2>10, <2>11, <2>12, <2>13, ValueWidths
  <2> QED
    BY <1>1, <1>5, <1>10, <1>11, <2>6, <2>10, <2>14, GeneratesStep
<1> QED
  BY <1>13, <1>14

LEMMA SequenceEnter ==
  ASSUME NEW s, Sequence(s), NEW t, t = EnterScope(s)
  PROVE  /\ Sequence(t) /\ Len(t) = Len(s) + 1 /\ t[Len(s) + 1] = EmptyScope
         /\ \A l \in 1 .. Len(s) : t[l] = s[l]
<1>1. t = Append(s, EmptyScope)
  BY DEF EnterScope
<1> QED
  BY <1>1, SequenceAppend

(* An assignment, a return or a condition, whose value meets the width w.   *)
LEMMA GenerateValueStep ==
  ASSUME IInv, phase = "generate", NEW i, i = pc, program[i].op \in {"assign", "return", "if"},
         NEW e, e = program[i].value[1],
         NEW ns, ns = IF program[i].op = "assign" THEN NamesIn(e) \cup {program[i].name} ELSE NamesIn(e),
         NEW g \in States, g.pairs = {},
         NamesDiffer /\ LiteralsTyped(i) /\ HasOp(e, "number") => g.current = Wanted(i),
         NEW w \in Nat \ {0}, NamesDiffer => w = Width(Wanted(i)),
         NEW t, t = IF program[i].op = "if" THEN EnterScope(slots) ELSE slots,
         Generates(Pairs(Visit(e, g, slots), Visit(e, g, slots).last, w), Found(ns, slots), t)
  PROVE  Safe'
<1>1. /\ Sequence(program) /\ i \in 1 .. Len(program) /\ i \in DOMAIN program
      /\ i - 1 \in Nat /\ i = i - 1 + 1
      /\ SlotsOK(slots, i - 1) /\ Len(slots) <= i - 1 /\ Sequence(slots) /\ Len(slots) \in Nat
      /\ \A j \in 1 .. Len(program) : ItemOK(j)
      /\ i # 1 /\ Len(slots) = 1 + Opened(i - 1) /\ Opened(i - 1) \in Int /\ outcome = "compiling"
  BY GeneratorFacts
<1>2. PICK k \in Nat : k = i - 1
  BY <1>1
<1>3. /\ k # 0 /\ i = k + 1 /\ SlotsOK(slots, k) /\ \A j \in 1 .. k : ItemOK(j)
      /\ Len(slots) = 1 + Opened(k) /\ Opened(k) \in Int
  BY <1>1, <1>2
<1>4. program[i].value \in Values /\ (program[i].op = "assign" => program[i].name \in Names)
  BY <1>1 DEF ItemOK
<1>5. e \in Expressions /\ HasValue(i)
  BY <1>4, ValueFacts DEF HasValue
<1>6. ns \in SUBSET Names
  BY <1>4, <1>5, WithinFacts
<1>7. PICK uses : uses = Found(ns, slots)
  OBVIOUS
<1>8. PICK h : h = Pairs(Visit(e, g, slots), Visit(e, g, slots).last, w)
  OBVIOUS
<1>9. program[i].op \notin {"else", "fi", "declare"} /\ program[i].op \notin {"declare", "function"}
      /\ program[i].op \notin {"else", "fi"} /\ program[i].op # "end" /\ program[i].op # "fi"
  OBVIOUS
<1>10. Lexical(i, uses)
  BY <1>3, <1>6, <1>7, <1>9, FoundLexically
<1>11. TypedNames(slots)
  BY <1>3, SlotsTyped
<1>12. NamesDiffer => KnownNames(e, slots, Meaning(i))
  BY <1>1, <1>3, <1>5, <1>9, ValueKnown
<1>13. AcceptedHasType
  BY DEF IInv
<1>14. h \in States /\ Agree(i, h.pairs)
  BY <1>1, <1>5, <1>8, <1>11, <1>12, <1>13, ValueWidths
<1>15. Opened(k + 1) = Opened(k) + (IF program[i].op = "if" THEN 1 ELSE 0)
  <2>1. Opened(k + 1) = Opened(k) + (IF program[k + 1].op = "if" THEN 1
                                      ELSE IF program[k + 1].op = "fi" THEN -1 ELSE 0)
    BY StepsHold DEF Steps
  <2> QED
    BY <1>3, <1>9, <2>1
<1>16. PICK c \in Nat : c = Len(slots)
  BY <1>1
<1>17. c = IF program[i].op \in {"else", "fi"} THEN Len(slots) - 1 ELSE Len(slots)
  BY <1>9, <1>16
<1>18. CASE program[i].op = "if"
  <2>1. t = EnterScope(slots)
    BY <1>18
  <2>2. /\ Sequence(t) /\ Len(t) = Len(slots) + 1 /\ t[Len(slots) + 1] = EmptyScope
        /\ \A l \in 1 .. Len(slots) : t[l] = slots[l]
    BY ONLY <1>1, <2>1, SequenceEnter
  <2>3. Len(t) = 1 + Opened(i) /\ c <= Len(slots) /\ c <= Len(t) /\ Len(t) <= i
    BY <1>1, <1>3, <1>15, <1>16, <1>18, <2>2
  <2>4. \A l \in 1 .. c : t[l] = slots[l]
    BY <1>16, <2>2
  <2>5. \A l \in 1 .. Len(t) : l > c => t[l] = EmptyScope
    <3>1. \A l \in 1 .. c + 1 : l > c => l = c + 1
      OBVIOUS
    <3> QED
      BY <1>16, <2>2, <3>1
  <2>6. SlotsOK(t, i)
    BY <1>3, <1>9, <1>17, <2>2, <2>3, <2>4, <2>5, SlotsKept
  <2> QED
    BY <1>7, <1>8, <1>9, <1>10, <1>14, <2>3, <2>6, GeneratesStep
<1>19. CASE program[i].op # "if"
  <2>1. t = slots
    BY <1>19
  <2>2. Len(t) = 1 + Opened(i) /\ c <= Len(slots) /\ c <= Len(t) /\ Len(t) <= i
    BY <1>1, <1>3, <1>15, <1>16, <1>19, <2>1
  <2>3. \A l \in 1 .. Len(t) : l > c => t[l] = EmptyScope
    BY <1>16, <2>1
  <2>4. \A l \in 1 .. c : t[l] = slots[l]
    BY <2>1
  <2>5. SlotsOK(t, i)
    BY <1>1, <1>3, <1>9, <1>17, <2>1, <2>2, <2>3, <2>4, SlotsKept
  <2> QED
    BY <1>7, <1>8, <1>9, <1>10, <1>14, <2>2, <2>5, GeneratesStep
<1> QED
  BY <1>18, <1>19

LEMMA GenerateAssignmentStep ==
  ASSUME IInv, GenerateAssignment
  PROVE  Safe'
<1>1. PICK i : i = pc
  OBVIOUS
<1>2. PICK x, e : x = program[i].name /\ e = program[i].value[1]
  OBVIOUS
<1>3. PICK type : type = Resolve(slots, x).type
  OBVIOUS
<1>4. PICK g : g = Under(Generator, type)
  OBVIOUS
<1>5. /\ phase = "generate" /\ program[i].op = "assign"
      /\ Binders(slots, x) = {} => Generates(Generator, Found({x}, slots), slots)
      /\ Binders(slots, x) # {} =>
           Generates(Pairs(Visit(e, g, slots), Visit(e, g, slots).last, Width(type)),
                     Found(NamesIn(e) \cup {x}, slots), slots)
  BY <1>1, <1>2, <1>3, <1>4 DEF GenerateAssignment, Visits, Item, Under
<1>6. /\ i \in 1 .. Len(program) /\ i - 1 \in Nat /\ i = i - 1 + 1
      /\ SlotsOK(slots, i - 1) /\ Len(slots) <= i - 1 /\ Len(slots) \in Nat
      /\ \A j \in 1 .. Len(program) : ItemOK(j)
      /\ i # 1 /\ Len(slots) = 1 + Opened(i - 1)
      /\ Generator \in States /\ Generator.pairs = {}
  BY <1>1, <1>5, GeneratorFacts
<1>7. x \in Names
  <2>1. ItemOK(i)
    BY <1>6
  <2> QED
    BY <1>2, <1>5, <2>1 DEF ItemOK
<1>8. PICK k \in Nat : k = i - 1
  BY <1>6
<1>9. k # 0 /\ i = k + 1 /\ SlotsOK(slots, k) /\ \A j \in 1 .. k : ItemOK(j)
  BY <1>6, <1>8
<1>10. program[i].op \notin {"else", "fi"} /\ program[i].op \notin {"declare", "function"}
       /\ program[i].op \notin {"else", "fi", "declare"}
       /\ program[i].op # "end" /\ program[i].op # "if" /\ program[i].op # "fi"
  BY <1>5
<1>11. CASE Binders(slots, x) # {}
  <2>1. PICK a \in 1 .. k : Meant(x, i) = a /\ Declares(a, x) /\ type = TypeAt(x, a)
    BY <1>3, <1>7, <1>9, <1>10, <1>11, SlotsFound
  <2>2. type \in Types /\ Wanted(i) = type
    <3>1. ItemOK(a) /\ a # 0
      BY <1>9
    <3>2. TypeAt(x, a) \in Types
      BY <2>1, <3>1, TypeAtTypes
    <3> QED
      BY <1>2, <1>5, <2>1, <3>2 DEF Wanted
  <2>3. PICK w : w = Width(type)
    OBVIOUS
  <2>4. w \in Nat \ {0} /\ w = Width(Wanted(i))
    BY <2>2, <2>3, BodiesAssumption
  <2>5. g \in States /\ g.pairs = {} /\ g.current = Wanted(i)
    BY <1>4, <1>6, <2>2 DEF Under, States
  <2>6. PICK ns : ns = NamesIn(e) \cup {x}
    OBVIOUS
  <2>7. Generates(Pairs(Visit(e, g, slots), Visit(e, g, slots).last, w), Found(ns, slots), slots)
    BY <1>5, <1>11, <2>3, <2>6
  <2>8. slots = IF program[i].op = "if" THEN EnterScope(slots) ELSE slots
    BY <1>10
  <2>9. ns = IF program[i].op = "assign" THEN NamesIn(e) \cup {program[i].name} ELSE NamesIn(e)
    BY <1>2, <1>5, <2>6
  <2>10. program[i].op \in {"assign", "return", "if"}
    BY <1>5
  <2> QED
    BY <1>1, <1>2, <1>5, <2>4, <2>5, <2>7, <2>8, <2>9, <2>10, GenerateValueStep
<1>12. CASE Binders(slots, x) = {}
  <2>1. PICK g0 : g0 = Generator
    OBVIOUS
  <2>2. PICK uses : uses = Found({x}, slots)
    OBVIOUS
  <2>3. Generates(g0, uses, slots)
    BY <1>5, <1>12, <2>1, <2>2
  <2>4. {x} \in SUBSET Names
    BY <1>7
  <2>5. Lexical(i, uses)
    BY <1>9, <1>10, <2>2, <2>4, FoundLexically
  <2>6. Agree(i, g0.pairs)
    BY <1>6, <2>1 DEF Agree, NoNull
  <2>7. SlotsOK(slots, i) /\ Len(slots) <= i
    <3>1. Opened(k + 1) = Opened(k)
      <4>1. /\ Opened(k) \in Int
            /\ Opened(k + 1) = Opened(k) + (IF program[k + 1].op = "if" THEN 1
                                            ELSE IF program[k + 1].op = "fi" THEN -1 ELSE 0)
        BY StepsHold DEF Steps
      <4> QED
        BY <1>9, <1>10, <4>1
    <3>2. PICK c \in Nat : c = Len(slots)
      BY <1>6
    <3>3. c = IF program[i].op \in {"else", "fi"} THEN Len(slots) - 1 ELSE Len(slots)
      BY <1>10, <3>2
    <3>4. Len(slots) = 1 + Opened(i) /\ c <= Len(slots) /\ Sequence(slots) /\ Len(slots) <= i
      BY <1>6, <1>8, <1>9, <3>1, <3>2 DEF SlotsOK
    <3>5. \A l \in 1 .. Len(slots) : l > c => slots[l] = EmptyScope
      BY <3>2
    <3>6. \A l \in 1 .. c : slots[l] = slots[l]
      OBVIOUS
    <3> QED
      BY <1>9, <1>10, <3>2, <3>3, <3>4, <3>5, <3>6, SlotsKept
  <2>8. g0 \in States
    BY <1>6, <2>1
  <2> QED
    BY <1>1, <1>5, <1>10, <2>3, <2>5, <2>6, <2>7, <2>8, GeneratesStep
<1> QED
  BY <1>11, <1>12

LEMMA GenerateReturnStep ==
  ASSUME IInv, GenerateReturn
  PROVE  Safe'
<1>1. PICK i : i = pc
  OBVIOUS
<1>2. PICK e, type, result : e = program[i].value[1] /\ type = program[i].type /\ result = program[1].result
  OBVIOUS
<1>3. PICK g : g = Under(Generator, type)
  OBVIOUS
<1>4. PICK w : w = Width(result)
  OBVIOUS
<1>5. PICK ns : ns = NamesIn(e)
  OBVIOUS
<1>6. /\ phase = "generate" /\ program[i].op = "return"
      /\ Generates(Pairs(Visit(e, g, slots), Visit(e, g, slots).last, w), Found(ns, slots), slots)
  BY <1>1, <1>2, <1>3, <1>4, <1>5 DEF GenerateReturn, Visits, Item, Under
<1>7. /\ i \in 1 .. Len(program) /\ Len(program) \in Nat
      /\ \A j \in 1 .. Len(program) : ItemOK(j)
      /\ outcome = "compiling" /\ Generator \in States /\ Generator.pairs = {}
  BY <1>1, <1>6, GeneratorFacts
<1>8. result \in Types
  <2>1. 1 \in 1 .. Len(program)
    BY <1>7
  <2>2. ItemOK(1)
    BY <1>7, <2>1
  <2> QED
    BY <1>2, <2>2 DEF ItemOK
<1>9. type = IF e.op = "not" THEN NoType ELSE result
  <2>1. ItemOK(i) /\ Accepted(i)
    BY <1>7 DEF Accepted
  <2> QED
    BY <1>2, <1>6, <2>1 DEF ItemOK
<1>10. g \in States /\ g.pairs = {} /\ g.current = type
  BY <1>3, <1>7, <1>8, <1>9 DEF Under, States
<1>11. Wanted(i) = result
  BY <1>2, <1>6 DEF Wanted
<1>12. NamesDiffer /\ LiteralsTyped(i) /\ HasOp(e, "number") => g.current = Wanted(i)
  <2>1. LiteralsTyped(i) /\ HasOp(e, "number") => e.op # "not"
    BY <1>2, <1>6 DEF LiteralsTyped
  <2> QED
    BY <1>9, <1>10, <1>11, <2>1
<1>13. w \in Nat \ {0} /\ w = Width(Wanted(i))
  BY <1>4, <1>8, <1>11, BodiesAssumption
<1>14. /\ program[i].op \in {"assign", "return", "if"}
       /\ ns = IF program[i].op = "assign" THEN NamesIn(e) \cup {program[i].name} ELSE NamesIn(e)
       /\ slots = IF program[i].op = "if" THEN EnterScope(slots) ELSE slots
  BY <1>5, <1>6
<1> QED
  BY <1>1, <1>2, <1>6, <1>10, <1>12, <1>13, <1>14, GenerateValueStep

LEMMA GenerateIfStep ==
  ASSUME IInv, GenerateIf
  PROVE  Safe'
<1>1. PICK i : i = pc
  OBVIOUS
<1>2. PICK e : e = program[i].value[1]
  OBVIOUS
<1>3. PICK g : g = Generator
  OBVIOUS
<1>4. PICK w : w = 1
  OBVIOUS
<1>5. PICK ns : ns = NamesIn(e)
  OBVIOUS
<1>6. PICK t : t = EnterScope(slots)
  OBVIOUS
<1>7. /\ phase = "generate" /\ program[i].op = "if"
      /\ Generates(Pairs(Visit(e, g, slots), Visit(e, g, slots).last, w), Found(ns, slots), t)
  BY <1>1, <1>2, <1>3, <1>4, <1>5, <1>6 DEF GenerateIf, Visits, Item
<1>8. g \in States /\ g.pairs = {}
  BY <1>1, <1>3, <1>7, GeneratorFacts
<1>9. w \in Nat \ {0} /\ w = Width(Wanted(i))
  BY <1>4, <1>7, BodiesAssumption DEF Wanted
<1>10. NamesDiffer /\ LiteralsTyped(i) /\ HasOp(e, "number") => g.current = Wanted(i)
  BY <1>2, <1>7 DEF LiteralsTyped
<1>11. /\ program[i].op \in {"assign", "return", "if"}
       /\ ns = IF program[i].op = "assign" THEN NamesIn(e) \cup {program[i].name} ELSE NamesIn(e)
       /\ t = IF program[i].op = "if" THEN EnterScope(slots) ELSE slots
  BY <1>5, <1>6, <1>7
<1> QED
  BY <1>1, <1>2, <1>7, <1>8, <1>9, <1>10, <1>11, GenerateValueStep

(* The items without a value: an else, a fi and the end.                    *)
LEMMA GenerateBranchStep ==
  ASSUME IInv, phase = "generate", NEW i, i = pc, program[i].op \in {"else", "fi", "end"},
         NEW t, t = IF program[i].op = "else" THEN EnterScope(ExitScope(slots)) ELSE ExitScope(slots),
         Generates(Generator, {}, t)
  PROVE  Safe'
<1>1. /\ i \in 1 .. Len(program) /\ Len(program) \in Nat /\ i - 1 \in Nat /\ i = i - 1 + 1
      /\ SlotsOK(slots, i - 1) /\ Len(slots) <= i - 1 /\ Sequence(slots) /\ Len(slots) \in Nat
      /\ \A j \in 1 .. Len(program) : ItemOK(j)
      /\ program[i].op = "end" <=> i = Len(program)
      /\ i # 1 /\ slots # <<>> /\ Len(slots) = 1 + Opened(i - 1) /\ Opened(i - 1) \in Int
      /\ Opened(Len(program)) = 0 /\ Generator \in States /\ Generator.pairs = {}
  BY GeneratorFacts
<1>2. PICK k \in Nat : k = i - 1
  BY <1>1
<1>3. /\ k # 0 /\ i = k + 1 /\ SlotsOK(slots, k) /\ Len(slots) = 1 + Opened(k) /\ Opened(k) \in Int
      /\ Len(slots) <= k
  BY <1>1, <1>2
<1>4. Opened(i) = Opened(k) + (IF program[i].op = "fi" THEN -1 ELSE 0)
  <2>1. Opened(k + 1) = Opened(k) + (IF program[k + 1].op = "if" THEN 1
                                      ELSE IF program[k + 1].op = "fi" THEN -1 ELSE 0)
    BY StepsHold DEF Steps
  <2> QED
    BY <1>3, <2>1
<1>5. PICK exited : exited = ExitScope(slots)
  OBVIOUS
<1>6. /\ Sequence(exited) /\ Len(exited) = Len(slots) - 1
      /\ \A l \in 1 .. Len(slots) - 1 : exited[l] = slots[l]
  BY <1>1, <1>5, SequenceExit
<1>7. PICK g : g = Generator
  OBVIOUS
<1>8. g \in States /\ Generates(g, {}, t)
  BY <1>1, <1>7
<1>9. Lexical(i, {}) /\ Agree(i, g.pairs)
  BY <1>1, <1>7 DEF Lexical, Agree, NoNull
<1>10. CASE program[i].op = "end"
  <2>1. Opened(k) = 0
    BY <1>1, <1>3, <1>4, <1>10
  <2>2. Len(exited) = 0
    BY <1>3, <1>6, <2>1
  <2>3. t = exited
    BY <1>5, <1>10
  <2>4. t = <<>>
    BY <1>6, <2>2, <2>3, SequenceFacts
  <2> QED
    BY <1>8, <1>9, <1>10, <2>4, GeneratesStep
<1>11. CASE program[i].op \in {"else", "fi"}
  <2>1. PICK c \in Nat : c = Len(slots) - 1
    <3>1. Len(slots) # 0
      BY <1>1, SequenceFacts
    <3>2. Len(slots) - 1 \in Nat
      BY <1>1, <3>1
    <3> QED
      BY <3>2
  <2>2. c = IF program[i].op \in {"else", "fi"} THEN Len(slots) - 1 ELSE Len(slots)
    BY <1>11, <2>1
  <2>3. c <= Len(slots) /\ Len(exited) = c /\ c = Opened(k) /\ \A l \in 1 .. c : exited[l] = slots[l]
    BY <1>1, <1>3, <1>6, <2>1
  <2>4. program[i].op \notin {"declare", "function"} /\ program[i].op # "end"
    BY <1>11
  <2>5. CASE program[i].op = "else"
    <3>1. t = EnterScope(exited)
      BY <1>5, <2>5
    <3>2. /\ Sequence(t) /\ Len(t) = Len(exited) + 1 /\ t[Len(exited) + 1] = EmptyScope
          /\ \A l \in 1 .. Len(exited) : t[l] = exited[l]
      BY <1>6, <3>1, SequenceEnter
    <3>3. /\ Len(t) = c + 1 /\ t[c + 1] = EmptyScope /\ \A l \in 1 .. c : t[l] = slots[l]
      BY <2>3, <3>2
    <3>4. Len(t) = 1 + Opened(i) /\ c <= Len(t) /\ Len(t) <= i
      BY <1>1, <1>3, <1>4, <2>1, <2>3, <2>5, <3>3
    <3>5. \A l \in 1 .. Len(t) : l > c => t[l] = EmptyScope
      <4>1. \A l \in 1 .. c + 1 : l > c => l = c + 1
        OBVIOUS
      <4> QED
        BY <3>3, <4>1
    <3>6. SlotsOK(t, i)
      BY <1>3, <2>2, <2>3, <2>4, <3>2, <3>3, <3>4, <3>5, SlotsKept
    <3> QED
      BY <1>8, <1>9, <2>4, <3>4, <3>6, GeneratesStep
  <2>6. CASE program[i].op = "fi"
    <3>1. t = exited
      BY <1>5, <2>6
    <3>2. Sequence(t) /\ Len(t) = 1 + Opened(i) /\ c <= Len(t) /\ Len(t) <= i
      BY <1>1, <1>3, <1>4, <1>6, <2>1, <2>3, <2>6, <3>1
    <3>3. \A l \in 1 .. c : t[l] = slots[l]
      BY <2>3, <3>1
    <3>4. \A l \in 1 .. Len(t) : l > c => t[l] = EmptyScope
      BY <2>3, <3>1
    <3>5. SlotsOK(t, i)
      BY <1>3, <2>2, <2>3, <2>4, <3>2, <3>3, <3>4, SlotsKept
    <3> QED
      BY <1>8, <1>9, <2>4, <3>2, <3>5, GeneratesStep
  <2> QED
    BY <1>11, <2>5, <2>6
<1> QED
  BY <1>10, <1>11

LEMMA GenerateStep ==
  ASSUME IInv, Generate, ~Crash
  PROVE  Safe'
<1>1. CASE GenerateFunction
  BY <1>1, GenerateFunctionStep
<1>2. CASE GenerateDeclaration
  BY <1>2, GenerateDeclarationStep
<1>3. CASE GenerateAssignment
  BY <1>3, GenerateAssignmentStep
<1>4. CASE GenerateReturn
  BY <1>4, GenerateReturnStep
<1>5. CASE GenerateIf
  BY <1>5, GenerateIfStep
<1>6. CASE GenerateElse
  <2>1. PICK i : i = pc
    OBVIOUS
  <2>2. PICK t : t = EnterScope(ExitScope(slots))
    OBVIOUS
  <2>3. phase = "generate" /\ program[i].op = "else" /\ Generates(Generator, {}, t)
    BY <1>6, <2>1, <2>2 DEF GenerateElse, Visits, Item
  <2>4. t = IF program[i].op = "else" THEN EnterScope(ExitScope(slots)) ELSE ExitScope(slots)
    BY <2>2, <2>3
  <2>5. program[i].op \in {"else", "fi", "end"}
    BY <2>3
  <2> QED
    BY <2>1, <2>3, <2>4, <2>5, GenerateBranchStep
<1>7. CASE LeaveScope
  <2>1. PICK i : i = pc
    OBVIOUS
  <2>2. PICK t : t = ExitScope(slots)
    OBVIOUS
  <2>3. phase = "generate" /\ program[i].op \in {"fi", "end"} /\ Generates(Generator, {}, t)
    BY <1>7, <2>1, <2>2 DEF LeaveScope, Visits, Item
  <2>4. t = IF program[i].op = "else" THEN EnterScope(ExitScope(slots)) ELSE ExitScope(slots)
    BY <2>2, <2>3
  <2>5. program[i].op \in {"else", "fi", "end"}
    BY <2>3
  <2> QED
    BY <2>1, <2>3, <2>4, <2>5, GenerateBranchStep
<1> QED
  BY <1>1, <1>2, <1>3, <1>4, <1>5, <1>6, <1>7 DEF Generate

(***************************************************************************)
(* The theorems.                                                           *)
(***************************************************************************)
LEMMA WalkStep ==
  ASSUME IInv, Walk
  PROVE  Safe'
<1>1. IInv'
  BY FunctionStep, DeclarationStep, AssignmentStep, ReturnStep, IfStep, ElseStep, FiStep, EndStep DEF Walk
<1>2. phase = "check" /\ UNCHANGED generator
  <2>1. CASE CheckFunction
    BY <2>1 DEF CheckFunction, IInv
  <2>2. CASE CheckEnd
    BY <2>2 DEF CheckEnd
  <2>3. CASE CheckDeclaration
    BY <2>3, ChecksFacts DEF CheckDeclaration
  <2>4. CASE CheckAssignment
    BY <2>4, ChecksFacts DEF CheckAssignment
  <2>5. CASE CheckReturn
    BY <2>5, ChecksFacts DEF CheckReturn
  <2>6. CASE CheckIf
    BY <2>6, ChecksFacts DEF CheckIf
  <2>7. CASE CheckElse
    BY <2>7, ChecksFacts DEF CheckElse
  <2>8. CASE CheckFi
    BY <2>8, ChecksFacts DEF CheckFi
  <2> QED
    BY <2>1, <2>2, <2>3, <2>4, <2>5, <2>6, <2>7, <2>8 DEF Walk
<1>3. emitted' = Nothing
  BY <1>2 DEF IInv, CheckerOK, Fresh, generator
<1>4. GeneratorScopesLexically' /\ WidthsAgree' /\ NullNeedsXor'
  BY <1>3 DEF GeneratorScopesLexically, WidthsAgree, Uncast, NullNeedsXor, UsesNull, Nothing
<1> QED
  BY <1>1, <1>4 DEF Safe

(* The pairs and the uses of the last item are judged by the program alone.  *)
LEMMA LastKept ==
  ASSUME Safe, program' = program, emitted' = emitted
  PROVE  GeneratorScopesLexically' /\ WidthsAgree' /\ NullNeedsXor'
<1>1. PICK i, uses, pairs : i = emitted.item /\ uses = emitted.uses /\ pairs = emitted.pairs
  OBVIOUS
<1>2. Lexical(i, uses)
  BY <1>1 DEF Safe, GeneratorScopesLexically, Lexical
<1>3. emitted # Nothing => Agree(i, pairs)
  BY <1>1 DEF Safe, WidthsAgree, Uncast, SameWidths, NullNeedsXor, UsesNull, NoNull, Agree
<1>4. CASE emitted = Nothing
  BY <1>4 DEF GeneratorScopesLexically, WidthsAgree, Uncast, NullNeedsXor, UsesNull, Nothing
<1>5. CASE emitted # Nothing
  <2>1. Lexical(i, uses)' /\ Agree(i, pairs)'
    BY <1>2, <1>3, <1>5, AgreeNext
  <2> QED
    BY <1>1, <2>1, LastDecidesNext DEF FromLast
<1> QED
  BY <1>4, <1>5

LEMMA StutteringStep ==
  ASSUME Safe, UNCHANGED vars
  PROVE  Safe'
<1>1. /\ program' = program /\ ifs' = ifs /\ names' = names /\ variables' = variables /\ hint' = hint
      /\ phase' = phase /\ outcome' = outcome /\ pc' = pc /\ slots' = slots
      /\ current' = current /\ last' = last /\ emitted' = emitted
  BY DEF vars, checker, generator
<1>2. \A n, j : (Declares(j, n)' <=> Declares(j, n)) /\ TypeAt(n, j)' = TypeAt(n, j)
  BY <1>1, ProgramKept
<1>3. \A k : Opened(k)' = Opened(k)
  BY <1>1, ProgramKept
<1>4. \A n, k : Live(n, k)' = Live(n, k)
  BY <1>1, ProgramKept
<1>5. IInv
  BY DEF Safe
<1>6. TypeOK' /\ Fresh'
  BY <1>1, <1>5 DEF IInv, TypeOK, Fresh
<1>7. \A i \in 1 .. Len(program') : ItemOK(i)'
  <2>1. \A i \in 1 .. Len(program) : ItemOK(i)
    BY <1>5 DEF IInv
  <2>2. \A i : Accepted(i)' <=> Accepted(i)
    BY <1>1 DEF Accepted
  <2> SUFFICES ASSUME NEW i \in 1 .. Len(program) PROVE ItemOK(i)'
    BY <1>1
  <2>3. ItemOK(i) /\ (Accepted(i)' <=> Accepted(i))
    BY <2>1, <2>2
  <2> QED
    BY <1>1, <1>3, <2>3 DEF ItemOK
<1>8. CheckerOK'
  <2>1. Opened(Len(program))' = Opened(Len(program))
    BY <1>1 DEF Opened, Count
  <2>2. \A n : Live(n, Len(program))' = Live(n, Len(program))
    <3>1. PICK m : m = Len(program)
      OBVIOUS
    <3>2. \A n : Live(n, m)' = Live(n, m)
      BY <1>4
    <3>3. \A n : Live(n, Len(program))' = Live(n, m)'
      BY <1>1, <3>1 DEF Live, Declares, InScope, Opened, Count
    <3> QED
      BY <3>1, <3>2, <3>3
  <2>3. NamesOK => NamesOK'
    BY <1>1, <1>3, <2>2 DEF NamesOK
  <2>4. VariablesOK => VariablesOK'
    BY <1>1, <1>2 DEF VariablesOK
  <2>5. CheckerOK
    BY <1>5 DEF IInv
  <2> QED
    BY <1>1, <2>1, <2>3, <2>4, <2>5 DEF CheckerOK
<1>9. GeneratorOK'
  <2>1. Opened(Len(program))' = Opened(Len(program))
    BY <1>1 DEF Opened, Count
  <2>2. GeneratorOK
    BY <1>5 DEF IInv
  <2>3. SlotsOK(slots, pc - 1) => SlotsOK(slots, pc - 1)'
    <3>1. PICK s, k : s = slots /\ k = pc - 1
      OBVIOUS
    <3>2. SlotsOK(s, k) => SlotsOK(s, k)'
      BY <1>1, SlotsOKNext
    <3> QED
      BY <1>1, <3>1, <3>2, SlotsAreThereNext DEF SlotsThere
  <2> QED
    BY <1>1, <2>1, <2>2, <2>3 DEF GeneratorOK
<1>10. \A i : HasValue(i)' <=> HasValue(i)
  BY <1>1, ProgramKept
<1>11. (NamesDiffer' <=> NamesDiffer) /\ \A i : RightlyTyped(i)' <=> RightlyTyped(i)
  BY <1>1, MeaningKept
<1>12. AcceptedHasType'
  BY <1>1, <1>5, <1>10, <1>11 DEF AcceptedHasType, IInv
<1>13. HasTypeAccepted'
  <2>1. RightlyTyped(Len(program))' <=> RightlyTyped(Len(program))
    BY <1>1, <1>11, LastIsRight, LastIsRightNext DEF LastRight
  <2>2. HasTypeAccepted
    BY <1>5 DEF IInv
  <2> QED
    BY <1>1, <1>11, <2>1, <2>2 DEF HasTypeAccepted
<1>14. GeneratorScopesLexically' /\ WidthsAgree' /\ NullNeedsXor'
  BY <1>1, LastKept
<1>15. IInv'
  BY <1>1, <1>5, <1>6, <1>7, <1>8, <1>9, <1>12, <1>13 DEF IInv
<1> QED
  BY <1>14, <1>15 DEF Safe

(* A null pointer was used: nothing more is generated.                      *)
LEMMA CrashStep ==
  ASSUME Safe, Crash
  PROVE  Safe'
<1>1. /\ phase = "generate" /\ UsesNull /\ phase' = "done" /\ outcome' = "crashed"
      /\ program' = program /\ ifs' = ifs /\ names' = names /\ variables' = variables /\ hint' = hint
      /\ pc' = pc /\ slots' = slots /\ current' = current /\ last' = last /\ emitted' = emitted
  BY DEF Crash, checker, generator
<1>2. IInv
  BY DEF Safe
<1>3. /\ Sequence(program) /\ Len(program) \in Nat /\ outcome = "compiling"
      /\ program[Len(program)].op = "end" /\ program # <<>>
  BY <1>1, <1>2 DEF IInv, GeneratorOK
<1>4. pc \in Nat /\ pc > 1
  <2>1. emitted # Nothing
    BY <1>1 DEF UsesNull, Nothing
  <2>2. pc # 1 /\ pc \in Nat \ {0}
    BY <1>2, <2>1 DEF IInv, Fresh
  <2> QED
    BY <2>2
<1>5. TypeOK'
  <2>1. TypeOK
    BY <1>2 DEF IInv
  <2>2. "crashed" \in Outcomes /\ "crashed" # "compiled" /\ "crashed" # "compiling"
    BY DEF Outcomes
  <2> QED
    BY <1>1, <1>4, <2>1, <2>2 DEF TypeOK
<1>6. Fresh'
  BY <1>1, <1>4 DEF Fresh
<1>7. \A i \in 1 .. Len(program') : ItemOK(i)'
  <2> SUFFICES ASSUME NEW i \in 1 .. Len(program) PROVE ItemOK(i)'
    BY <1>1
  <2>1. ItemOK(i)
    BY <1>2 DEF IInv
  <2>2. Accepted(i)
    BY <1>3 DEF Accepted
  <2>3. \A k : Opened(k)' = Opened(k)
    BY <1>1, ProgramKept
  <2> QED
    BY <1>1, <2>1, <2>2, <2>3 DEF ItemOK
<1>8. CheckerOK' /\ GeneratorOK'
  BY <1>1 DEF CheckerOK, GeneratorOK
<1>9. AcceptedHasType' /\ HasTypeAccepted'
  <2>1. outcome' \in {"compiling", "compiled", "crashed"} /\ AcceptedHasType /\ HasTypeAccepted
    BY <1>1, <1>2 DEF IInv
  <2> QED
    BY <1>1, <1>3, <2>1, VerdictsLast
<1>10. IInv'
  BY <1>1, <1>2, <1>3, <1>5, <1>6, <1>7, <1>8, <1>9 DEF IInv
<1>11. GeneratorScopesLexically' /\ WidthsAgree' /\ NullNeedsXor'
  BY <1>1, LastKept
<1> QED
  BY <1>10, <1>11 DEF Safe

(* The inductive invariant holds, and with it, of each step of the code     *)
(* generator, that names and widths are right and no null pointer is used.  *)
THEOREM Invariant == Spec => []Safe
<1>1. Init => Safe
  <2>1. Init => emitted = Nothing
    BY DEF Init
  <2>2. emitted = Nothing => GeneratorScopesLexically /\ WidthsAgree /\ NullNeedsXor
    BY DEF GeneratorScopesLexically, WidthsAgree, Uncast, NullNeedsXor, UsesNull, Nothing
  <2> QED
    BY <2>1, <2>2, InitialInvariant DEF Safe
<1>2. Safe /\ [Next]_vars => Safe'
  BY WalkStep, GenerateStep, CrashStep, StutteringStep DEF Next, Done, Safe
<1> QED
  BY <1>1, <1>2, PTL DEF Spec

(* The type invariant: the stacks are as high as the open branches make     *)
(* them, and the generator leaves none of its scopes open.                  *)
THEOREM TypeCorrect == Spec => []TypeOK
<1>1. Safe => TypeOK
  BY DEF Safe, IInv
<1> QED
  BY <1>1, Invariant, PTL

(* typeVisitor never restores hintType, and resolve_collision takes a       *)
(* number for anything: what is accepted has its type all the same, in any  *)
(* body of any length, as long as names are declared once and used in their *)
(* scope.                                                                   *)
THEOREM AcceptedIsTyped == Spec => []AcceptedHasType
<1>1. Safe => AcceptedHasType
  BY DEF Safe, IInv
<1> QED
  BY <1>1, Invariant, PTL

(* What has its type is accepted, except for a `not` below another          *)
(* operator, and no lookup comes to nothing.                                *)
THEOREM TypedIsAccepted == Spec => []HasTypeAccepted
<1>1. Safe => HasTypeAccepted
  BY DEF Safe, IInv
<1> QED
  BY <1>1, Invariant, PTL

(* enterBlock and exitBlock around the two branches of an if let            *)
(* ContextProvider find the declaration that lexical scoping gives a name,  *)
(* however deep the branches are nested.                                    *)
THEOREM LexicalScopes == Spec => []GeneratorScopesLexically
<1>1. Safe => GeneratorScopesLexically
  BY DEF Safe
<1> QED
  BY <1>1, Invariant, PTL

(* The operands of every instruction generated from what the type visitor   *)
(* accepted have one width, literals whose type currentType decides and     *)
(* casts and `xor' left out.                                                *)
THEOREM EqualWidths == Spec => []WidthsAgree
<1>1. Safe => WidthsAgree
  BY DEF Safe
<1> QED
  BY <1>1, Invariant, PTL

(* lastValue is a null pointer at the head of each function, and again      *)
(* after a `xor': no instruction of a function whose names are declared     *)
(* once and used in their scope gets one, unless the value that it belongs  *)
(* to has a `xor' in it.                                                    *)
THEOREM NullsNeedXor == Spec => []NullNeedsXor
<1>1. Safe => NullNeedsXor
  BY DEF Safe
<1> QED
  BY <1>1, Invariant, PTL
=============================================================================
