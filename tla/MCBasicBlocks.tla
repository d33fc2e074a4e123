--------------------------- MODULE MCBasicBlocks ---------------------------
(* Sources for the model checker.                                           *)
EXTENDS BasicBlocks

Var(v) == [op |-> "variable", name |-> v]
Binary(op, left, right) == [op |-> op, left |-> left, right |-> right]

Simple == {Var("a"), Binary("or", Binary("and", Var("a"), Var("b")), Var("b"))}
OfVariable == {Var("a")}
NestedRight == {Binary("or", Var("a"), Binary("and", Var("b"), Var("a")))}

(* A tree and all that it is made of, and its height.                       *)
RECURSIVE Tree(_)
Tree(e) == {e} \cup (IF e.op = "variable" THEN {} ELSE Tree(e.left) \cup Tree(e.right))

RECURSIVE TreeHeight(_)
TreeHeight(e) ==
  IF e.op = "variable" THEN 0
  ELSE 1 + TreeHeight(e.left) + TreeHeight(e.right)

SimpleParts == UNION {Tree(e) : e \in Simple}
NestedParts == UNION {Tree(e) : e \in OfVariable \cup NestedRight}
=============================================================================
