------------------------------ MODULE MCLexer ------------------------------
(* Characters for the model checker: one of each class that the lexer tells *)
(* apart.                                                                   *)
EXTENDS Lexer

Classes == {"a", "_", ";", "(", Quote, "\\", " ", "\t", Newline, Return, HighByte}
=============================================================================
