------------------------------ MODULE MCLinkage ------------------------------
(* Small vocabularies for model-checking Linkage.                            *)
EXTENDS Linkage, TLC

Numbered(name, k) == name \o "_" \o ToString(k)

Returns(result, lists) == {[parameters |-> parameters, result |-> result] : parameters \in lists}

(* overloads of at most one parameter, another result, and none *)
Mixed ==
  Returns("int32", {<<>>, <<"int8">>, <<"int32">>}) \cup Returns("int8", {<<"int32">>})
    \cup Returns(Absent, {<<"int8">>})

(* overloads of two parameters *)
Pairs == Returns("int32", {<<"int8", "int8">>, <<"int8", "int32">>})

(* lists of arguments *)
Cast == {<<"int32">>}
Casts == {<<"int8", "int32">>}
=============================================================================
