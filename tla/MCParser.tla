------------------------------ MODULE MCParser ------------------------------
(* Alphabets for model-checking Parser: each is the vocabulary of one part  *)
(* of the grammar, closed enough that its constructs can be completed.      *)
EXTENDS Parser

(* multi-blocks of every kind of statement, good and bad *)
BlockTexts ==
  {"if", "then", "else", "fi", "uint8", "x", "99", ":=", ";", "pragma", "#", "goto", "is"}

(* functions, prototypes, parameters, and functions in functions; operators *)
(* of two precedence indexes, casts, parentheses, and calls                 *)
DeclarationTexts ==
  {"function", "f", "(", ")", ",", "uint8", "x", "is", "endfunction", ";", "return",
   "-", "*", "1"}

(* two prototypes that name a parameter *)
PrototypeTexts == {"function", "f", "(", ")", "uint8", "x", ";"}
=============================================================================
