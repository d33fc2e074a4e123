------------------------------- MODULE Parser -------------------------------
(***************************************************************************)
(* The recursive-descent parser (src/parser.cpp) and the loop of main that *)
(* drives it, as a pushdown machine.  `control' is the C++ call stack: a   *)
(* sequence of items, the innermost first, each standing for what one      *)
(* active call has still to do.  An exception discards items up to the     *)
(* next one that stands for a try block.                                   *)
(***************************************************************************)
EXTENDS TokenStream

VARIABLES
  control,       \* the call stack
  thrown,        \* an exception is propagating
  tree,          \* what the nodes built so far for the current block make
  parserError,   \* the parser's static flag
  error,         \* main's local flag: a visitor found an error
  outcome,       \* how the compilation ended
  history        \* what has happened so far; read by the properties only

vars == <<stream, scopes, control, thrown, tree, parserError, error, outcome, history>>
driver == <<error, outcome>>

(* NodeIdentifier(-1) stands for a null node.  A tree is "holed" when a     *)
(* node of it holds such an identifier, "null" when it is one itself.       *)
Trees == {"whole", "holed", "null"}
Outcomes == {"parsing", "rejected", "codegen", "crashed", "stopped"}
Events == {"reported", "overflow", "prototype"}

-----------------------------------------------------------------------------
(* The items of the call stack *)

Do(op) == [op |-> op]
Expect(kind) == [op |-> "expect", kind |-> kind]    \* checkToken(ts.get(), kind, ts)
Semicolon == Expect(";")
Check(kind) == [op |-> "check", kind |-> kind]      \* checkToken(ts.peek(), kind, ts); ts.get()
Separator(loop) == [op |-> "separator", loop |-> loop]
Named(op, name) == [op |-> op, name |-> name]
Blocks(saved) == [op |-> "blocks", saved |-> saved]
Precedence(level) == [op |-> "precedence", level |-> level]
Operators(low, high) == [op |-> "operators", low |-> low, high |-> high]

(* parsePrecedence with its default index, and parseExpression's try block. *)
TopPrecedence == Precedence(6)
Expression == <<TopPrecedence, Do("catch")>>

MainLoop == <<Do("visit"), Do("main")>>

SilentOps == {"main", "visit", "multiblock", "params", "closefunction", "declare", "catch"}
ReadingOps ==
  { "block", "body", "expect", "check", "skip", "target", "blocks", "skipblock", "else",
    "returned", "declarator", "initializer", "funcname", "param", "paramname", "separator",
    "returntype", "funcbody", "args", "precedence", "operators", "recover" }

(* The items that stand for a try block, and those whose call has opened a  *)
(* scope it has not closed yet.                                             *)
HandlerOps == {"main", "blocks", "catch"}
OwnerOps == {"blocks", "funcbody", "closefunction"}

PlainOps ==
  (SilentOps \cup ReadingOps) \ { "expect", "check", "separator", "initializer",
                                 "declare", "blocks", "precedence", "operators" }

Items ==
  [op : PlainOps]
    \cup [op : {"expect", "check"}, kind : Kinds]
    \cup [op : {"separator"}, loop : {"params", "args"}]
    \cup [op : {"initializer", "declare"}, name : Texts]
    \cup [op : {"blocks"}, saved : Trees]
    \cup [op : {"precedence"}, level : Levels]
    \cup [op : {"operators"}, low : Levels, high : Levels]

Running(op) == ~thrown /\ control # <<>> /\ Head(control).op = op
Looking(op) == Running(op) /\ buffer # NoToken
Continue(items) == control' = items \o Tail(control)

(* Whether the block being parsed belongs to main, not to a parseMultiBlock. *)
AtTopLevel == Tail(control) = MainLoop

(* checkToken's failure: report, set the flag, throw.  The current call is  *)
(* abandoned.                                                               *)
Fail ==
  /\ thrown' = TRUE
  /\ parserError' = TRUE
  /\ history' = history \cup {"reported"}
  /\ Continue(<<>>)

Quiet == UNCHANGED <<thrown, parserError, history>>
Report == history' = history \cup {"reported"} /\ UNCHANGED <<thrown, parserError>>

-----------------------------------------------------------------------------
(* Tokens *)

(* Every ts.peek() and ts.get() whose buffer is empty reads a token first.  *)
Lookahead ==
  /\ ~thrown /\ control # <<>>
  /\ Head(control).op \in ReadingOps
  /\ Peek
  /\ Quiet /\ UNCHANGED <<control, tree, driver>>

(* Consume the token and go on with the given items; nothing else changes.  *)
Take(items) ==
  /\ Consume /\ Continue(items)
  /\ Quiet /\ UNCHANGED <<scopes, tree, driver>>

(* Go on with the given items without consuming anything.                   *)
Pass(items) ==
  /\ Continue(items)
  /\ Quiet /\ UNCHANGED <<stream, scopes, tree, driver>>

(* Go on with the given items after a change of the scopes. *)
Rescope(items) == Continue(items) /\ Quiet /\ UNCHANGED <<stream, tree, driver>>

RefuseConsumed == Consume /\ Fail /\ UNCHANGED <<scopes, tree, driver>>
RefuseUnread == Fail /\ UNCHANGED <<stream, scopes, tree, driver>>

ExpectToken ==
  /\ Looking("expect")
  /\ IF buffer.kind = Head(control).kind THEN Take(<<>>) ELSE RefuseConsumed

CheckToken ==
  /\ Looking("check")
  /\ IF buffer.kind = Head(control).kind THEN Take(<<>>) ELSE RefuseUnread

(* ts.get() whose token is used whatever it is. *)
Skip == Looking("skip") /\ Take(<<>>)

-----------------------------------------------------------------------------
(* Blocks *)

(* parseBlock: "#" and the token after it are the modifier.                 *)
ParseBlock ==
  /\ Looking("block")
  /\ IF buffer.kind = "#"
     THEN Take(<<Do("skip"), Do("body")>>)
     ELSE Pass(<<Do("body")>>)

(* The switches of parseBlock and parseStatement, one action per case.      *)
Starts(kind, items) == Looking("body") /\ buffer.kind = kind /\ Take(items)

ParseIf ==
  Starts("if", <<TopPrecedence, Expect("then"), Do("multiblock"), Do("else")>>)

ParseFunction == Starts("function", <<Do("funcname")>>)

ParsePragma ==
  Starts("pragma", <<Do("target"), Do("skip"), Expect("is"), Do("skip"), Semicolon>>)

ParseGoto == Starts("goto", <<Do("skip"), Semicolon>>)

ReturnWithoutSemicolon == Starts("return", <<Do("returned")>>)    \* variant: no ";"
ParseReturn == Starts("return", <<Do("returned"), Semicolon>>)

ParseVariableAssignment ==
  Starts("VARIABLE_NAME", <<Expect(":=")>> \o Expression \o <<Semicolon>>)

ParseVariableDeclaration == Starts("TYPE", <<Do("declarator")>>)

StatementStarts == {"if", "function", "pragma", "goto", "return", "VARIABLE_NAME", "TYPE", EOF}

(* The block is a null node: main's loop breaks on it, a multi-block keeps it. *)
NullBlock == tree' = IF AtTopLevel THEN "null" ELSE "holed"

(* parseStatement's default case reports the token and goes on; the variant *)
(* is silent.                                                               *)
DefaultCaseSilent == Quiet
DefaultCase == Report

ParseUnexpected ==
  /\ Looking("body") /\ buffer.kind \notin StatementStarts
  /\ Consume /\ Continue(<<Semicolon>>)
  /\ NullBlock
  /\ DefaultCase /\ UNCHANGED <<scopes, driver>>

ParseEndOfFile ==
  /\ Looking("body") /\ buffer.kind = EOF
  /\ Continue(<<>>)
  /\ NullBlock
  /\ Quiet /\ UNCHANGED <<stream, scopes, driver>>

(* parsePragma reports a target that is a plain identifier, and goes on.    *)
PragmaTarget ==
  /\ Looking("target")
  /\ Consume /\ Continue(<<>>)
  /\ IF buffer.kind = "IDENTIFIER" THEN Report ELSE Quiet
  /\ UNCHANGED <<scopes, tree, driver>>

(* parseReturn: the ";" of an empty return is consumed here, and            *)
(* parseStatement then expects another one.                                 *)
ReturnValue ==
  /\ Looking("returned")
  /\ IF buffer.kind = ";" THEN Take(<<>>) ELSE Pass(Expression)

(* parseIf after its first multi-block. *)
ElseBranch ==
  /\ Looking("else")
  /\ IF buffer.kind = "else"
     THEN Take(<<Do("multiblock"), Expect("fi")>>)
     ELSE Pass(<<Expect("fi")>>)

(* parseMultiBlock: a scope around a loop of parseBlock in a try block.     *)
OpenMultiBlock == Running("multiblock") /\ PushContext /\ Rescope(<<Blocks(tree)>>)

NextBlock ==
  /\ Looking("blocks") /\ ~IsEndMultiBlock(buffer.kind)
  /\ Pass(<<Do("block"), Blocks(tree)>>)

CloseMultiBlock ==
  /\ Looking("blocks") /\ IsEndMultiBlock(buffer.kind)
  /\ PopContext /\ Rescope(<<>>)

(* The catch clause of parseMultiBlock throws the rest of its blocks away.  *)
SkipBlock ==
  /\ Looking("skipblock")
  /\ IF IsEndMultiBlock(buffer.kind) THEN Pass(<<>>) ELSE Take(<<Do("skipblock")>>)

-----------------------------------------------------------------------------
(* Declarations *)

(* parseVariableDeclaration takes any token for the name, and declares it   *)
(* after its initializer, when the token that follows has been read ahead.  *)
Declarator ==
  /\ Looking("declarator")
  /\ Take(<<Named("initializer", buffer.text)>>)

Initializer ==
  /\ Looking("initializer")
  /\ LET declare == <<Named("declare", Head(control).name)>>
     IN  IF buffer.kind = ":=" THEN Take(Expression \o declare) ELSE Pass(declare)

(* Variant: the declaration is complete without a semicolon. *)
AfterDeclarationNothing == <<>>
AfterDeclaration == <<Semicolon>>

DeclareVariable ==
  /\ Running("declare")
  /\ AddToken(Head(control).name, "VARIABLE_NAME")
  /\ Rescope(AfterDeclaration)

(* Variant: no scope is opened for the parameters. *)
NameFunctionOnly(name) == AddToken(name, "FUNCTION_NAME")

(* parseFunction: the name goes to the enclosing scope, then a scope is     *)
(* opened for the parameters.                                               *)
NameFunction(name) == scopes' = EnterScope(AddToScope(scopes, name, "FUNCTION_NAME"))

FunctionName ==
  /\ Looking("funcname")
  /\ IF buffer.kind \in {"IDENTIFIER", "FUNCTION_NAME"}
     THEN /\ Consume
          /\ NameFunction(buffer.text)
          /\ Continue(<< Expect("("), Do("params"), Expect(")"),
                         Do("returntype"), Do("funcbody") >>)
          /\ Quiet /\ UNCHANGED <<tree, driver>>
     ELSE RefuseUnread

Parameters ==
  /\ Running("params")
  /\ Pass(IF InputIsEmpty THEN <<>> ELSE <<Do("param")>>)

Parameter ==
  /\ Looking("param")
  /\ Pass(IF buffer.kind = ")" THEN <<>> ELSE <<Check("TYPE"), Do("paramname")>>)

ParameterName ==
  /\ Looking("paramname")
  /\ IF buffer.kind = "IDENTIFIER"
     THEN /\ Consume
          /\ AddToken(buffer.text, "VARIABLE_NAME")
          /\ Continue(<<Separator("params")>>)
          /\ Quiet /\ UNCHANGED <<tree, driver>>
     ELSE RefuseUnread

(* The end of an iteration of the parameter and of the argument loop; the   *)
(* variant checks nothing after a parameter or an argument.                 *)
SeparatorUnchecked(loop) == IF buffer.kind = "," THEN Take(loop) ELSE Pass(loop)
Separate(loop) ==
  CASE buffer.kind = ","             -> Take(loop)
    [] buffer.kind = ")"             -> Pass(loop)
    [] buffer.kind \notin {",", ")"} -> RefuseUnread

ParseSeparator == Looking("separator") /\ Separate(<<Do(Head(control).loop)>>)

ReturnType ==
  /\ Looking("returntype")
  /\ IF buffer.kind = "return" THEN Take(<<Check("TYPE")>>) ELSE Pass(<<>>)

(* A function without a body leaves its parameter scope open.               *)
BodyUnclosed == <<Do("multiblock"), Expect("endfunction")>>    \* variant: no popContext
Body == <<Do("multiblock"), Do("closefunction"), Expect("endfunction")>>

FunctionBody == Looking("funcbody") /\ buffer.kind = "is" /\ Take(Body)

Prototype ==
  /\ Looking("funcbody") /\ buffer.kind # "is"
  /\ Continue(<<Semicolon>>)
  /\ history' = history \cup {"prototype"}
  /\ UNCHANGED <<stream, scopes, thrown, parserError, tree, driver>>

CloseFunction == Running("closefunction") /\ PopContext /\ Rescope(<<>>)

-----------------------------------------------------------------------------
(* Expressions *)

(* A unary operator takes a whole expression, and ends the one it starts.   *)
ParseUnary ==
  /\ Looking("precedence") /\ IsUnaryOperator(buffer.kind)
  /\ Take(<<TopPrecedence>>)

(* parseNumber: std::stoi throws on a numeral that does not fit an int.     *)
ParseNumber ==
  /\ Looking("precedence") /\ buffer.kind = "NUMBER"
  /\ Consume
  /\ IF buffer.text \in BigNumerals
     THEN /\ thrown' = TRUE
          /\ history' = history \cup {"overflow"}
          /\ Continue(<<>>)
          /\ UNCHANGED parserError
     ELSE /\ Continue(<<Operators(1, Head(control).level)>>)
          /\ Quiet
  /\ UNCHANGED <<scopes, tree, driver>>

(* The operands of precedence index 0 that are not numbers.                 *)
Operand(items) == Take(items \o <<Operators(1, Head(control).level)>>)

ParseParenthesis ==
  /\ Looking("precedence") /\ buffer.kind = "("
  /\ Operand(Expression \o <<Expect(")")>>)

ParseFunctionCall ==
  /\ Looking("precedence") /\ buffer.kind = "FUNCTION_NAME"
  /\ Operand(<<Expect("("), Do("args")>>)

ParseCast ==
  /\ Looking("precedence") /\ buffer.kind = "TYPE"
  /\ Operand(<<Expect("(")>> \o Expression \o <<Expect(")")>>)

(* parseTerm takes any other token for an identifier. *)
ParseIdentifier ==
  /\ Looking("precedence")
  /\ ~IsUnaryOperator(buffer.kind)
  /\ buffer.kind \notin {"NUMBER", "(", "FUNCTION_NAME", "TYPE"}
  /\ Operand(<<>>)

(* The precedence index of a right operand; the variant lacks the test for  *)
(* the first index.                                                         *)
RightOperandBelow(level) == level - 1
RightOperand(level) == IF level > 1 THEN level - 1 ELSE 1

(* The while loops of the calls from precedence index low to high, whose    *)
(* left operand is complete: the first that has the operator goes on.       *)
ParseOperators ==
  /\ Looking("operators")
  /\ LET level == {l \in Head(control).low .. Head(control).high :
                     buffer.kind \in LevelOperators[l]}
     IN  IF level = {}
         THEN Pass(<<>>)
         ELSE \E l \in level :
                Take(<<Precedence(RightOperand(l)), Operators(l, Head(control).high)>>)

(* The argument loop of parseFunctionCall, up to its ")".                   *)
Arguments ==
  /\ Looking("args")
  /\ IF buffer.kind = ")" THEN Take(<<>>) ELSE Pass(<<TopPrecedence, Separator("args")>>)

-----------------------------------------------------------------------------
(* Exceptions *)

(* A call without a try block is left as it stands: no scope is closed.     *)
Unwind ==
  /\ thrown
  /\ Head(control).op \notin HandlerOps
  /\ Continue(<<>>)
  /\ UNCHANGED <<stream, scopes, thrown, tree, parserError, driver, history>>

(* The end of parseExpression's try block. *)
LeaveExpression == Running("catch") /\ Pass(<<>>)

Handle(op, items) ==
  /\ thrown /\ Head(control).op = op
  /\ thrown' = FALSE
  /\ Continue(items)
  /\ UNCHANGED <<stream, scopes, parserError, driver, history>>

CatchInExpression == Handle("catch", <<Do("recover")>>) /\ UNCHANGED tree

(* ts.get() in the loop that skips to the end of an expression.             *)
SkipToken == Take(<<Do("recover")>>)

(* parseExpression's catch clause: skip to the end of the expression, give  *)
(* back a null node; at the end of a multi-block, throw again.              *)
RecoverExpression ==
  /\ Looking("recover")
  /\ \/ /\ ~IsEndExpression(buffer.kind) /\ ~IsEndMultiBlock(buffer.kind)
        /\ SkipToken
     \/ /\ IsEndMultiBlock(buffer.kind)
        /\ thrown' = TRUE /\ Continue(<<>>)
        /\ UNCHANGED <<stream, scopes, tree, parserError, driver, history>>
     \/ /\ IsEndExpression(buffer.kind) /\ ~IsEndMultiBlock(buffer.kind)
        /\ tree' = "holed" /\ Continue(<<>>)
        /\ Quiet /\ UNCHANGED <<stream, scopes, driver>>

(* The block that threw is dropped, the blocks before it are kept.          *)
CatchInMultiBlock ==
  /\ Handle("blocks", <<Do("skipblock"), Blocks(Head(control).saved)>>)
  /\ tree' = Head(control).saved

(* The catch clause of main's loop breaks out of it. *)
CatchInMain ==
  /\ thrown /\ Head(control).op = "main"
  /\ thrown' = FALSE
  /\ control' = <<>>
  /\ UNCHANGED <<stream, scopes, tree, parserError, driver, history>>

-----------------------------------------------------------------------------
(* main *)

NextTopLevelBlock ==
  /\ Running("main")
  /\ Pass(IF InputIsEmpty THEN <<>> ELSE <<Do("block")>> \o MainLoop)

(* What the print, pragma and type visitors make of the block: nothing, or  *)
(* a type error, which main catches.  A tree with a null node in it never   *)
(* gets through: the type visitor dereferences every node it accepts.       *)
Visit ==
  /\ Running("visit") /\ tree # "null"
  /\ tree' = "whole"
  /\ Continue(<<>>)
  /\ \/ tree = "whole" /\ UNCHANGED error
     \/ error' = TRUE
  /\ Quiet /\ UNCHANGED <<stream, scopes, outcome>>

(* The other ends of a visit: the pragma visitor exits, the type visitor    *)
(* throws what nothing catches, or one of them meets the null node.         *)
VisitStops ==
  /\ Running("visit") /\ tree # "null"
  /\ outcome' \in {"stopped"} \cup (IF tree = "holed" THEN {"crashed"} ELSE {})
  /\ control' = <<>>
  /\ Quiet /\ UNCHANGED <<stream, scopes, tree, error>>

BreakOnNull ==
  /\ Running("visit") /\ tree = "null"
  /\ control' = <<>>
  /\ Quiet /\ UNCHANGED <<stream, scopes, tree, driver>>

Finish ==
  /\ control = <<>> /\ outcome = "parsing"
  /\ outcome' = IF parserError \/ error THEN "rejected" ELSE "codegen"
  /\ Quiet /\ UNCHANGED <<stream, scopes, control, tree, error>>

Finished == outcome # "parsing" /\ UNCHANGED vars

-----------------------------------------------------------------------------
Init ==
  /\ StreamInit
  /\ control = <<Do("main")>>
  /\ thrown = FALSE
  /\ tree = "whole"
  /\ parserError = FALSE
  /\ error = FALSE
  /\ outcome = "parsing"
  /\ history = {}

TokenStep == Lookahead \/ ExpectToken \/ CheckToken \/ Skip

BlockStep ==
  \/ ParseBlock \/ ParseIf \/ ParseFunction \/ ParsePragma \/ ParseGoto \/ ParseReturn
  \/ ParseVariableAssignment \/ ParseVariableDeclaration \/ ParseUnexpected
  \/ ParseEndOfFile \/ PragmaTarget \/ ReturnValue \/ ElseBranch
  \/ OpenMultiBlock \/ NextBlock \/ CloseMultiBlock \/ SkipBlock

DeclarationStep ==
  \/ Declarator \/ Initializer \/ DeclareVariable
  \/ FunctionName \/ Parameters \/ Parameter \/ ParameterName \/ ParseSeparator
  \/ ReturnType \/ FunctionBody \/ Prototype \/ CloseFunction

ExpressionStep ==
  \/ ParseUnary \/ ParseNumber \/ ParseParenthesis \/ ParseFunctionCall \/ ParseCast
  \/ ParseIdentifier \/ ParseOperators \/ Arguments \/ LeaveExpression
  \/ RecoverExpression

ExceptionStep == Unwind \/ CatchInExpression \/ CatchInMultiBlock \/ CatchInMain

DriverStep == NextTopLevelBlock \/ Visit \/ VisitStops \/ BreakOnNull \/ Finish

Next ==
  \/ TokenStep \/ BlockStep \/ DeclarationStep \/ ExpressionStep
  \/ ExceptionStep \/ DriverStep \/ Finished

(* One thread, nothing to wait for: as long as a step is possible the       *)
(* program takes one.                                                       *)
Spec == Init /\ [][Next]_vars /\ WF_vars(Next)

-----------------------------------------------------------------------------
(* Properties *)

TypeOK ==
  /\ StreamTypeOK
  /\ control \in Seq(Items)
  /\ thrown \in BOOLEAN
  /\ tree \in Trees
  /\ parserError \in BOOLEAN
  /\ error \in BOOLEAN
  /\ outcome \in Outcomes
  /\ history \subseteq Events

(* The scopes that calls on the stack have opened and will close.           *)
Owners(items) == Cardinality({i \in DOMAIN items : items[i].op \in OwnerOps})

(* LexerContext::popContext pops, and addToken writes to, the last element  *)
(* of a vector without looking whether there is one.  Whatever is thrown,   *)
(* caught and thrown again, every scope an active call is going to close is *)
(* open, and the global one is under them.                                  *)
ScopesNeverUnderflow == Len(scopes) >= 1 + Owners(control)

(* As long as nothing was reported, no literal overflowed and no function   *)
(* without a body was parsed, no scope is left behind: exactly the scopes   *)
(* of the active multi-blocks and functions are open, so a name is never    *)
(* visible after the end of its block.                                      *)
ScopesBalanced == history = {} => Len(scopes) = 1 + Owners(control)

(* A token read ahead keeps the type it had when it was read.  When the     *)
(* scopes have given its text another one since, the parser is about to     *)
(* check it against a semicolon, which it is not under either type: no      *)
(* decision is ever taken on a stale type.                                  *)
StaleLookaheadRejected ==
  (buffer # NoToken /\ buffer.kind # KindOf(buffer.text, scopes)) =>
    /\ control # <<>> /\ Head(control) = Semicolon
    /\ {buffer.kind, KindOf(buffer.text, scopes)} \cap Keywords = {}

(* main stops parsing when the input is empty, when a block is null and     *)
(* when an exception reaches it, and it looks neither at the buffer nor at  *)
(* why.  A program that goes to code generation with no token reported and  *)
(* no literal out of range has nevertheless been read to its end.           *)
AcceptedMeansAllRead ==
  (outcome = "codegen" /\ history \cap {"reported", "overflow"} = {}) =>
    head = EOF /\ buffer.text = EOF

(* A visitor only ever meets a null node after a token was reported or a    *)
(* literal overflowed.  A source that ends after a block modifier puts one  *)
(* in a multi-block in silence, but the call around it then misses its last *)
(* token, and the tree is discarded.                                        *)
NullOnlyAfterDiagnosis ==
  (Running("visit") /\ tree = "holed") => history \cap {"reported", "overflow"} # {}

(* Every loop of the parser ends on every input, the recovery loops that    *)
(* wait for the end of an expression or of a multi-block included, and the  *)
(* compilation reaches one of its ends.                                     *)
Termination == <>(outcome # "parsing")

(* What the grammar promises and the code does not keep: each of the three  *)
(* properties below is violated.                                            *)

(* A source with a token the grammar does not allow is not compiled.        *)
(* parseStatement and parsePragma report such a token without setting       *)
(* parserError, and main takes the null node for the end of the source.     *)
ReportedIsRejected == outcome = "codegen" => "reported" \notin history

(* A parameter may have any identifier for a name.  In a function at the    *)
(* top level, in a source without error, a name that is neither a function  *)
(* nor in the global scope nor another parameter of the function is an      *)
(* identifier to the parser.                                                *)
ParameterNamesAccepted ==
  (/\ Looking("paramname") /\ Owners(control) = 1
   /\ history \subseteq {"prototype"}
   /\ buffer.text \notin Keywords \cup Types \cup Numerals
   /\ buffer.text \notin DOMAIN scopes[1] \cup DOMAIN scopes[Len(scopes)])
  => buffer.kind \in {"IDENTIFIER", "FUNCTION_NAME"}
=============================================================================
