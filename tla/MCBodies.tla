------------------------------ MODULE MCBodies ------------------------------
(* Bodies for the model checker.                                            *)
EXTENDS Bodies

Bits(type) == CASE type = "int8" -> 8 [] type = "int32" -> 32 [] type = "bool" -> 1

One == [op |-> "number"]
Var(n) == [op |-> "text", name |-> n]
Cast(t, e) == [op |-> "cast", type |-> t, value |-> e]
Apply(op, e) == [op |-> op, right |-> e]
Join(op, e, f) == [op |-> op, left |-> e, right |-> f]
And(e, f) == [op |-> "logical", lazy |-> TRUE, left |-> e, right |-> f]
Xor(e, f) == [op |-> "logical", lazy |-> FALSE, left |-> e, right |-> f]

Declare(t, n, value) == [op |-> "declare", type |-> t, name |-> n, value |-> value]
Assign(n, e) == [op |-> "assign", name |-> n, value |-> <<e>>]
Return(e) == [op |-> "return", value |-> <<e>>]
If(e) == [op |-> "if", value |-> <<e>>]

(* A tree and all that it is made of, and its height.                       *)
RECURSIVE Tree(_)
Tree(e) == {e} \cup UNION {Tree(f) : f \in Operands(e)}

RECURSIVE TreeHeight(_)
TreeHeight(e) == CHOOSE h \in 0 .. 9 :
  /\ \A f \in Operands(e) : TreeHeight(f) < h
  /\ h > 0 => \E f \in Operands(e) : h = TreeHeight(f) + 1

Parts(statements) ==
  UNION {Tree(s.value[1]) : s \in {s \in statements : s.value # <<>>}}

Few ==
  {Declare("int8", "y", <<>>), Declare("int32", "x", <<One>>),
   Declare("int8", "x", <<Var("x")>>), Declare("int32", "y", <<Apply("minus", One)>>),
   Assign("x", Join("arithmetic", Var("y"), One)), Assign("y", Apply("minus", Var("x"))),
   Assign("y", Cast("int8", Join("comparison", Var("x"), One))),
   Assign("b", And(Apply("not", Var("b")), Var("b"))), Assign("b", Xor(Var("b"), Var("b"))),
   Assign("b", Join("comparison", Cast("int8", Apply("not", Var("b"))),
                                  Join("arithmetic", Var("x"), One))),
   Assign("b", Apply("not", Join("comparison", Var("x"), Var("y")))),
   Assign("y", Apply("minus", Cast("int8", Apply("not", Var("b"))))),
   Return(Var("x")), Return(And(Var("b"), One)), Return(Apply("not", Join("arithmetic", Var("b"), One))),
   If(Var("b")), If(Join("comparison", Var("x"), Var("y"))), If(Apply("minus", One))}

FewParts == Parts(Few)

Compared ==
  {Declare("int32", "y", <<One>>), If(Join("comparison", Var("x"), One)), Return(Var("x"))}

ComparedParts == Parts(Compared)

Shadows ==
  {Declare("int8", "x", <<One>>), Declare("int8", "y", <<Var("x")>>), If(Var("b"))}

ShadowsParts == Parts(Shadows)

Wide ==
  {[result |-> "int32",
    parameters |-> <<[type |-> "int32", name |-> "x"], [type |-> "bool", name |-> "b"]>>]}

TwoParameters ==
  {[result |-> r, parameters |-> <<[type |-> "int8", name |-> "x"], [type |-> "bool", name |-> "b"]>>]
     : r \in {"int8", "bool"}}
=============================================================================
