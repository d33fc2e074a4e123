---------------------------- MODULE TokenStream ----------------------------
(***************************************************************************)
(* The lexer as the parser sees it: Lexer::TokenStream, one token of       *)
(* lookahead over the input, and Lexer::LexerContext, the stack of scopes  *)
(* that gives a word its token type.  The type is decided when the token   *)
(* is read, so a token that waits in the buffer keeps the type it was      *)
(* given even when the scopes change under it.                             *)
(*                                                                         *)
(* Characters are abstracted: the input is a sequence of texts, chosen one *)
(* at a time, of at most MaxTokens + 1 texts before the end of file.       *)
(***************************************************************************)
EXTENDS ScopeStack, FiniteSets

CONSTANTS
  Alphabet,      \* the texts the input may be made of
  Types,         \* the type names bound in the global scope
  Numerals,      \* the texts isNumber accepts
  BigNumerals,   \* those of them that do not fit an int
  MaxTokens      \* bound on the length of the input

(* The text the input gives for ever once it is exhausted. *)
EOF == ""

(* tokenToStringMap read backwards.  A keyword's token type is named by its *)
(* own text.  "partial" is absent: KEYWORD_FUNCTION occurs twice as a key   *)
(* of the initializer, and the first occurrence is the one the map keeps.   *)
Keywords ==
  { EOF, "if", "then", "else", "fi", "goto", "return", "function",
    "endfunction", ";", ",", "is", "pragma", "symbol_name", "<", ">", "=",
    "<=", ">=", "!=", "%", "+", "-", "*", "|", "~", "<<", ">>", "&", "or",
    "and", "xor", "not", "/", ":=", "(", "#", ")" }

ASSUME AlphabetAssumption ==
  /\ MaxTokens \in Nat
  /\ Types \cap Keywords = {}
  /\ Numerals \cap Keywords = {}
  /\ BigNumerals \subseteq Numerals
  /\ EOF \notin Alphabet

(* Every text a token may have, and every kind. *)
Texts == Alphabet \cup Types \cup {EOF}
BoundKinds == {"TYPE", "VARIABLE_NAME", "FUNCTION_NAME"}
Kinds == Keywords \cup BoundKinds \cup {"IDENTIFIER", "NUMBER"}

VARIABLES
  head,     \* the text in front of the read position
  left,     \* how many more texts may follow head
  buffer,   \* TokenStream::buffer, the token peek() has read ahead
  scopes    \* LexerContext::contextStack

stream == <<head, left, buffer>>

NoToken == [text |-> EOF, kind |-> "none"]

GlobalScope == [t \in Types |-> "TYPE"]

StreamInit ==
  /\ head \in Alphabet \cup {EOF}
  /\ left = MaxTokens
  /\ buffer = NoToken
  /\ scopes = <<GlobalScope>>

(* The classification of TokenStream::get: the keywords first, then the     *)
(* scopes, then the shape of the text.                                      *)
KindOf(text, stack) ==
  CASE text \in Keywords                                       -> text
    [] text \notin Keywords /\ Resolve(stack, text) # Absent   -> Resolve(stack, text)
    [] text \notin Keywords /\ Resolve(stack, text) = Absent   ->
         IF text \in Numerals THEN "NUMBER" ELSE "IDENTIFIER"

(* getNextToken and moveHead: step over head to whatever text comes next.   *)
Advance ==
  IF head = EOF \/ left = 0
  THEN head' = EOF /\ left' = 0
  ELSE /\ head' \in Alphabet \cup {EOF}
       /\ left' = left - 1

(* TokenStream::peek on an empty buffer, and the first half of every get(). *)
Peek ==
  /\ buffer = NoToken
  /\ buffer' = [text |-> head, kind |-> KindOf(head, scopes)]
  /\ Advance
  /\ UNCHANGED scopes

(* TokenStream::get once the buffer is full: hand the token over.           *)
Consume ==
  /\ buffer # NoToken
  /\ buffer' = NoToken
  /\ UNCHANGED <<head, left>>

(* TokenStream::isEmpty looks at the input only, never at the buffer.       *)
InputIsEmpty == head = EOF

(* LexerContext::pushContext, popContext and addToken.                      *)
PushContext == scopes' = EnterScope(scopes)
PopContext == scopes' = ExitScope(scopes)
(* Variant: the token keeps the type it was read with. *)
AddTokenAsRead(name, kind) == scopes' = AddToScope(scopes, name, "IDENTIFIER")
AddToken(name, kind) == scopes' = AddToScope(scopes, name, kind)

IsUnaryOperator(kind) == kind \in {"~", "not", "-"}
(* Variant: the end of file does not end a multi-block. *)
IsEndMultiBlockNoEOF(kind) == kind \in {"else", "fi", "endfunction"}
IsEndMultiBlock(kind) == kind \in {"else", "fi", "endfunction", EOF}
IsEndExpression(kind) == kind \in {EOF, ";", "then", ")"}

(* tokenPrecedence grouped along precedenceList: the operators of each      *)
(* precedence index, tightest first.  Index i of the code is i + 1 here.    *)
LevelOperators ==
  << {"*", "/", "%"}, {"+", "-"}, {"<<", ">>"},
     {"<", "<=", ">", ">=", "=", "!="}, {"&", "and"}, {"|", "or", "xor"} >>
Levels == 1 .. 6

StreamTypeOK ==
  /\ head \in Texts
  /\ left \in 0 .. MaxTokens
  /\ buffer \in [text : Texts, kind : Kinds] \cup {NoToken}
  /\ \A i \in 1 .. Len(scopes) :
       /\ DOMAIN scopes[i] \subseteq Texts
       /\ \A name \in DOMAIN scopes[i] : scopes[i][name] \in BoundKinds
=============================================================================
