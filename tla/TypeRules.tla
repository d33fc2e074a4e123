----------------------------- MODULE TypeRules -----------------------------
(***************************************************************************)
(* The type of an expression, as the type visitor finds it                 *)
(* (src/visitor/typeVisitor.cpp), and as it may be according to the        *)
(* operators alone.                                                        *)
(*                                                                         *)
(* An expression is a tree: "text" with a name, "number", "arithmetic",    *)
(* "comparison" and "logical" with a left and a right operand, "not" and   *)
(* "minus" with a right operand, "cast" with a type and a value.           *)
(***************************************************************************)
EXTENDS ScopeStack

CONSTANTS
  Types,        \* the types of variables
  Names,        \* the names of variables
  Expressions,  \* expressions, the operands of each among them
  Height(_)     \* the height of the tree of an expression

Number == "number"
Bool == "bool"
NoType == ""

Hints == Types \cup {Number, NoType}

IsBinary(e) == e.op = "arithmetic" \/ e.op = "comparison" \/ e.op = "logical"
IsUnary(e) == e.op = "not" \/ e.op = "minus"

Operands(e) ==
  CASE e.op = "cast" -> {e.value}
    [] IsUnary(e)    -> {e.right}
    [] IsBinary(e)   -> {e.left, e.right}
    [] OTHER         -> {}

ASSUME TypeRulesAssumption ==
  /\ Bool \in Types /\ {Number, NoType, Absent} \cap Types = {}
  /\ \A e \in Expressions :
       /\ \/ e.op \in {"number", "cast"} \/ IsUnary(e) \/ IsBinary(e)
          \/ e.op = "text" /\ e.name \in Names
       /\ e.op = "cast" => e.type \in Types
       /\ Height(e) \in Nat
       /\ \A f \in Operands(e) : f \in Expressions /\ Height(f) < Height(e)

(* An expression and all that it is made of.                                *)
Within[e \in Expressions] == {e} \cup UNION {Within[f] : f \in Operands(e)}

HasOp(e, op) == \E f \in Within[e] : f.op = op

(* The names in an expression.                                              *)
NamesIn(e) == {f.name : f \in {g \in Within[e] : g.op = "text"}}

-----------------------------------------------------------------------------
(* resolve_collision; its default type is never used, as two numbers are    *)
(* equal.                                                                   *)
Collide(a, b) ==
  IF a = b \/ b = Number THEN a ELSE IF a = Number THEN b ELSE Absent

(* What a visit leaves: the type of the node, lastType, hintType, and how it *)
(* ended: normally, by a type error about some nodes, or by the absent value *)
(* of an optional.                                                          *)
Visited(type, last, hint) ==
  [type |-> type, last |-> last, hint |-> hint, ends |-> "normally", about |-> {}]
TypeError(nodes) ==
  [type |-> NoType, last |-> NoType, hint |-> NoType, ends |-> "error", about |-> nodes]
NoValue ==
  [type |-> NoType, last |-> NoType, hint |-> NoType, ends |-> "abort", about |-> {}]

(* The three tails of visitBinOperator, given what its operands left.       *)
LogicalType(e, left, right) ==
  IF Collide(left.type, Bool) = Absent \/ Collide(right.type, Bool) = Absent
  THEN TypeError({e.left, e.right})
  ELSE Visited(Bool, Bool, right.hint)

ComparisonTypeAny(e, left, right) == Visited(Bool, Bool, right.hint)

ComparisonType(e, left, right) ==
  IF Collide(left.type, right.type) = Absent
  THEN TypeError({e.left, e.right})
  ELSE Visited(Bool, Bool, right.hint)

ArithmeticType(e, left, right, hint) ==
  LET type == Collide(left.type, right.type)
      both == Collide(type, hint)
  IN  IF type = Absent THEN TypeError({e.left, e.right})
      ELSE IF both = Absent THEN TypeError({e})
      ELSE Visited(both, both, right.hint)

(* The leaves, and what the operators of one operand make of it.            *)
TextType(e, hint, variables) ==
  IF Binders(variables, e.name) = {} THEN NoValue
  ELSE LET type == Resolve(variables, e.name).type IN Visited(type, type, hint)

NumberType(hint) ==
  LET type == Collide(Number, hint) IN Visited(type, type, hint)

CastType(e, value) ==
  IF value.ends # "normally" THEN value ELSE Visited(e.type, e.type, value.hint)

(* The node of a `not' keeps its empty type.                                *)
NotType(e, right) ==
  IF right.ends # "normally" THEN right
  ELSE IF right.last # Bool THEN TypeError({e})
  ELSE Visited(NoType, Bool, right.hint)

MinusType(e, right) ==
  LET type == Collide(right.last, right.hint)
  IN  IF right.ends # "normally" THEN right
      ELSE IF type = Absent THEN TypeError({e})
      ELSE Visited(type, type, right.hint)

(* Its beginning: an operand that does not end normally ends the visit.     *)
BinaryType(e, left, right, hint) ==
  IF left.ends # "normally" THEN left
  ELSE IF right.ends # "normally" THEN right
  ELSE CASE e.op = "logical"    -> LogicalType(e, left, right)
         [] e.op = "comparison" -> ComparisonType(e, left, right)
         [] e.op = "arithmetic" -> ArithmeticType(e, left, right, hint)

(* The visit of a node, where `check' gives the visits of its operands.      *)
CheckNode(e, hint, variables, check) ==
  CASE e.op = "text"   -> TextType(e, hint, variables)
    [] e.op = "number" -> NumberType(hint)
    [] e.op = "cast"   -> CastType(e, check[e.value][Number])
    [] e.op = "not"    -> NotType(e, check[e.right][Bool])
    [] e.op = "minus"  -> MinusType(e, check[e.right][hint])
    [] IsBinary(e)     ->
         LET left  == check[e.left][Number]
             right == check[e.right][left.hint]
         IN  BinaryType(e, left, right, hint)

(* accept(typeVisitor) under a hint, with the variables in scope.           *)
Check(expression, under, variables) ==
  LET check[e \in Expressions] ==
        [hint \in Hints |-> CheckNode(e, hint, variables, check)]
  IN  check[expression][under]

-----------------------------------------------------------------------------
(* The rules that the operators suggest: a literal has any type, the two    *)
(* operands of an operator have one type, a name has the type it was        *)
(* declared with.  `declared' maps names to types.                          *)
TypesFrom(e, declared, types) ==
  CASE e.op = "number"     -> Types
    [] e.op = "text"       -> {declared[e.name]} \cap Types
    [] e.op = "cast"       -> IF types[e.value] = {} THEN {} ELSE {e.type}
    [] e.op = "not"        -> types[e.right] \cap {Bool}
    [] e.op = "minus"      -> types[e.right]
    [] e.op = "arithmetic" -> types[e.left] \cap types[e.right]
    [] e.op = "logical"    -> types[e.left] \cap types[e.right] \cap {Bool}
    [] e.op = "comparison" -> IF types[e.left] \cap types[e.right] = {} THEN {} ELSE {Bool}

TypesOf(expression, declared) ==
  LET types[e \in Expressions] == TypesFrom(e, declared, types)
  IN  types[expression]

HasType(e, type, declared) == type \in TypesOf(e, declared)
=============================================================================
