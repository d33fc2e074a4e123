# A verification model of the ckc compiler

ckc compiles a small language (`roadmap.md`, steps 1 and 2) to an object file
through LLVM. It is one sequential C++ program; what makes it hard to get right
is not concurrency but the state that its phases share and that outlives the
call that changed it: scopes opened and closed across exceptions, a token whose
type was decided before the scopes changed, symbols copied by one walk over the
tree and changed by the next. This directory holds TLA+ modules of those parts,
the TLC runs that check them on small instances, and proofs that TLAPS checks.

Paths below are relative to the repository root (`src/parser.cpp`,
`include/lexer.hpp`, ...).

## 1. Inventory

| Part | State | Operations | Talks to |
|---|---|---|---|
| Lexer characters (`src/lexer.cpp` `getNextToken`, `moveHead`) | the input stream, line and column | split the input into texts | token stream |
| Token stream (`TokenStream`, `LexerContext`) | one token of lookahead (`buffer`); a stack of scopes that give a text its token type | `peek`, `get`, `isEmpty`; `pushContext`, `popContext`, `addToken` | parser, which changes the scopes while tokens are waiting |
| Parser (`src/parser.cpp`) | the C++ call stack, `parserError`, the tree | one `parse...` per construct; `checkToken` throws; three try blocks recover | token stream; main |
| Main loop (`src/main.cpp`) | `nodes`, `error` | parse a block, pragma visitor, type visitor, next; at the end code generation over every block | everything |
| Pragma visitor | `pragmaContext`, a stack of scopes from names to nodes | set `symbol_name` of the target of a pragma, or `exit(1)` | type visitor (through `symbol_name`) |
| Type visitor | `variables` (scopes), `currentFunction`, `hintType`, `lastType`; the function table in `ContextProvider` | register functions, choose overloads, make up symbols, check types, throw type errors | code generator (through node types and `symbol_name`) |
| Code generator (`llvmVisitor`) | LLVM module and builder, scopes of variables, `namedBlocks`, `currentType`, `lastValue` | one `visit...` per node | LLVM |
| Range visitor | first and last token, absent at first | the range of a node, for a message | main's error messages |
| Print visitor | none | print a node | the standard output |
| Options and object output | none | parse options, write `output.o` | LLVM |

What makes each correct, and what is hard about it:

* **Token stream and parser.** Every scope that is opened is closed, and none
  twice, whatever is thrown; no decision is taken on a token type that the
  scopes have since changed; every recovery loop ends; a source that is
  compiled was read to its end; a null node only ever follows a diagnosis.
* **Function table and linkage.** A call reaches the function it means,
  although the name is resolved by three tables filled by three walks (the
  parser's scopes, the function table, the module's symbols).
* **Scopes.** Four stacks of scopes (lexer, pragma visitor, type visitor, code
  generator) should agree on what a name means; they are pushed and popped by
  different code, at different constructs.
* **Types and widths.** `hintType`/`lastType` and `currentType` carry types
  between nodes through fields that nothing restores.
* **Characters and messages.** Every loop over characters counts lines and
  columns on its own; what it counts is used long after, in a message.
* **Labels and insert point.** One map of labels for the whole module, one
  insert point for all functions.

`PROJECT.json` lists the hazards one by one, each at its line, with the
properties that watch it.

## 2. Modules

| Module | Models |
|---|---|
| `ScopeStack` | `include/genericContext.hpp` and its copies in the lexer and `ContextProvider`: operators on stacks of maps; facts proved in `ScopeStackProofs` |
| `Lexer` | the characters under the token stream: texts, lines, places, marks in messages; proved about in `LexerProofs` |
| `TokenStream` | lookahead, classification, lexer scopes |
| `Parser` | `src/parser.cpp` and the loop of `main`; proved about in `ParserProofs` |
| `Linkage` | pragma visitor, function table, overloads, symbols, calls in the module; proved about in `LinkageProofs` |
| `TypeRules` | the type of an expression, as the type visitor finds it and as the operators suggest it; proved about at the head of `BodiesProofs` |
| `Bodies` | one function body through parser scopes, type visitor and code generator: names, types, widths; proved about in `BodiesProofs` |
| `Items` | the shape of a body as a sequence of items; facts proved in `ItemsProofs` |
| `ControlFlow` | what a body means: the abstract specification |
| `BasicBlocks` | the blocks the code generator builds, and what they do when they run; implements `ControlFlow`; proved about in `BlockBuildingProofs` and `BasicBlocksProofs` |
| `MC...` | vocabularies for TLC |

`Parser` extends `TokenStream`, which extends `ScopeStack`; `Linkage` and
`TypeRules` extend `ScopeStack`; `Bodies` extends `TypeRules` and `Items`;
`BasicBlocks` extends `Items` and has an instance of `ControlFlow`. `Lexer`
stands below `TokenStream`, which starts from texts; `Linkage`, `Bodies` and
`BasicBlocks` stand beside `Parser`: they start from items, not from tokens, and
repeat of the parser only what decides which names mean what.

### 2.1 `TokenStream`

The input is chosen while it is read: `head` is the text at the read position,
and `Advance` replaces it by any text of `Alphabet`, or by the end of file, with
`left` counting down from `MaxTokens`. So a run covers every source, well formed
or not, of at most `MaxTokens + 1` texts of its alphabet. `Peek` is
`TokenStream::peek` on an empty buffer and the first half of `get`; `Consume` is
the second half. The token's kind is computed in `Peek`, from the scopes of that
moment, as `TokenStream::get` does. A keyword's kind is its own text.

Abstracted: characters, positions in the file, string literals (the kind
`STRING` is accepted only as the value of a pragma, which takes any token).
Kept because it matters: `isEmpty` looks at the input, not at the buffer; and
`partial` is an ordinary identifier, since `tokenToStringMap` has the key
`KEYWORD_FUNCTION` twice and keeps the first.

### 2.2 `Parser`

`control` is the call stack. Each item is what one active call has still to do,
the innermost first: `Do("else")` is `parseIf` after its first multi-block,
`Operators(low, high)` the while loops of the `parsePrecedence` calls from index
`low` to `high`. Every action takes the first item and replaces it by others;
`Lookahead` fills the buffer when the first item reads a token and the buffer is
empty. `thrown` is an exception in flight: `Unwind` drops items, closing
nothing, to the next one that stands for a try block (`parseExpression`,
`parseMultiBlock`, `main`), whose catch clause is an action.

Of the tree only one thing is kept: whether the current block is whole, has a
null node in it, or is one. `Visit` and `VisitStops` stand for the visitors of
`main` and may go wrong in every way those can; whether they do is not this
module's business. `history` records reports, overflows and prototypes; no
action reads it.

Details a reader may stumble on: a unary operator takes the whole expression to
its right (`ParseUnary`); `return;` needs a second `;` (`ReturnValue`, then
`parseStatement`'s own); a declared name may be any token at all.

### 2.3 `Linkage`

`program` is the tree, flat: functions, the ends of their bodies, calls (as the
value of a `return` or of a declaration), pragmas. `phase`, `unit` and `pc` walk
over it as `main` does: a top-level block is parsed, then visited by the pragma
visitor, then by the type visitor; when the source has ended, the code generator
visits everything. A type error skips the rest of the block. `symbol` is
`Node::symbol_name`; a call gets a copy of its function's when the type visitor
meets it. `module` is the LLVM module's symbol table; `Function::Create` under a
taken symbol leaves the table as it was, since LLVM gives the new function
another name.

The outcomes other than `compiled` and `rejected` are ends of the process in
the middle: `exited` (`exit(1)` of the pragma visitor), `aborted` (an exception
nothing catches: of `value()` of an absent type, or thrown again by the catch
clause of `main` for an error about a declaration, which has no tokens),
`crashed` (`types[0]` of an empty vector, the builder without an insert point).

A pragma has any target and any kind, as `parsePragma` takes whatever tokens
there are; `isFunction` keeps what the parser took the target for, and only the
properties read it. The pragma visitor exits on a target it does not know and on
every kind but `symbol_name`.

Left out: variables (see `Bodies`), expressions other than calls and literals,
calls as arguments of calls, functions or pragmas inside an `if`, and the names
of declared variables as targets of pragmas: a target that is no function is one
that the pragma visitor does not know.

### 2.4 `Lexer`

A state is the input, the position in it, the lines kept for messages, and the
tokens read so far. `Get` is one `TokenStream::get` on an empty buffer:
`EndOfText` is where the four cases of `getNextToken` stop, `MoveHead` the blanks
behind it with the lines and columns they count. A character is its class; the
eleven classes are those the code tells apart, among them the byte 0xFF, which a
`char` holds as -1: `getNextToken` takes it for the end of the file, `isEmpty`
does not (`PeekChar` and `Peek`). A string never ends at an escaped quote or
otherwise than the code makes it: `escape` is the test of the very character it
is or-ed with (`InString`). A run of operator characters goes over a tab.

`RangeOf`, `Wave` and `Highlight` are the arithmetic of error messages: which of
an operand's tokens is first and last, and how many blanks and marks go under a
line. `Highlight` is for two ranges on one line, the case of
`different_type_error`; ranges over several lines are left out.

The lines are stated by sets of positions: `Newlines` are those moved over,
`Nth` is one of them in their order, `Without` what is left of a text, so that
`getCurrentLine` is the text up to the next newline without carriage returns.
No operator here is recursive, which is what lets proofs speak of every length.

### 2.5 `TypeRules` and `Bodies`

`Check` is `accept(typeVisitor)`: given a hint, it gives the type of the node,
`lastType`, and the hint that is left behind, which nothing restores. `HasType`
is the reference: a literal has any type, the operands of an operator have one.

An expression is a tree, of which the modules only know the set, `Expressions`,
and that each operand is in it and of less `Height` (`TypeRulesAssumption`). What a
visitor does at one node is an operator that takes the results for the operands
(`CheckNode`, `VisitNode`); the walk over a tree is the recursive function that
makes of it (`Check`, `Visit`, `TypesOf`, `Within`), so that proofs speak of trees
of every shape. `MCBodies` gives the finite set of trees that its statements are
made of.

`Bodies` walks over one function. The parser's scopes (`names`), the type
visitor's (`variables`) and the code generator's (`slots`) are opened and closed
where each of the three does: the type visitor opens none for the branches of an
`if`. The type visitor takes or refuses one item at a time; the first error ends
the walk, as whatever follows is not compiled. Then the code generator visits
the items again: `Visit` keeps of each value its width and of each name the item
whose slot was found; an instruction adds the pair of widths that it wants to be
equal. `emitted` is what was generated last, for the properties only. An error
about a node without tokens is `unreported`: the range visitor's empty optional
throws inside the catch clause of `main`. The width `Null` is a null pointer, which
`lastValue` is at the beginning of a function and after a `xor`, an operator that
the type rules have and the code generator has no instruction for. An instruction,
a store or a return that uses one may end the process (`Crash`), or go on.

### 2.6 `ControlFlow` and `BasicBlocks`

`BasicBlocks` reads a source, item by item, then visits the items in their order
(`Visit...`, one action per visitor function or part of one between two nested
`accept`s), then hands the module to LLVM (`EmitObject`), and then one of the
functions runs on any values of its variables. Blocks are numbered by creation;
blocks made without a function have no parent until they are pushed back, and a
block pushed back twice, or a branch to one without a parent, is the end of the
compiler (`broken`). A block whose code goes on after a terminator is run up to
the terminator, which is what the object file does; `ExecutedBlocksKept` says
that this cannot differ from what LLVM keeps. A PHI node that does not list the
block control came from has any value.

`ControlFlow` has no blocks: statements in their order, an `if` that runs one
branch, a goto to the item of its label, expressions by their value. The
refinement mapping is `position`, the item that the instruction to be executed
belongs to (`Settle` skips the ends of branches); program, memory and result
are the same. `ImplementsControlFlow` is the implementation of its safety part
(checked and proved), `ForwardReturns` the liveness, stated directly.

Left out: variables of other types than `bool` (their instructions do not
branch), declarations (see `Bodies`), calls (see `Linkage`), functions in
functions (see `EmittedInCaller` there).

## 3. Runs

All runs are exhaustive over their bounds; deadlock is checked in all of them
(a finished compilation stutters).

| Run | Bound | What it shows |
|---|---|---|
| `declarations` | sources of up to 9 words over 14 | scopes never underflow; they balance on clean sources; precedence indexes in range; what is compiled was read to its end; recovery ends |
| `blocks` | up to 8 words over 13 | no decision on a stale token type; no visitor meets a null node without a diagnosis; what is compiled was read to its end; every recovery loop ends |
| `functions` | programs of up to 5 nodes, 2 names, 5 signatures (no parameter, an `int8`, an `int32`; two results or none), calls with one argument, pragmas on either name, of a known or unknown kind, that give one function the name of the other (2.3 million states) | overloads differ, symbols differ, nothing is called before it is in the table; calls reach what they mean, in their caller; a pragma target that the parser takes for a function is found; overload search with one parameter is sound and complete |
| `control_flow` | sources of up to 7 items, one or two functions, one label, lazy operators nested to the left | the blocks do what the source means; labels and gotos in order compile; what is executed is kept; control that only goes forward arrives |
| `bodies` | up to 5 items over 18 statements, casts and a `xor` among them (740 thousand states) | what is accepted has its type and the other way round; names reach the slots that lexical scoping gives them; the operands of each instruction have one width; nothing but a `xor` makes a null pointer of a value |
| `lexer` | inputs of up to 5 characters of 11 classes | tokens lose only blanks, are where they say and are marked there; the end of the file is reached |

The bounds on sources are long enough for the shortest well-formed instance of
each construct of the alphabet and for an error inside it: a function with a
parameter takes 8 words, a call in a function 8, an `if` with a
declaration in it 7, two prototypes with parameters 12 (run `prototypes`).
Programs of 5 nodes hold three overloads or a nested function with a prototype;
the scope a prototype leaks shows at 5 nodes, a pragma between two blocks with a
call at 5, two overloads of one parameter with a call of the second at 5. Bodies of 5 items hold a branch with a shadowing declaration and a
use behind it; the bounds of `control_flow` hold a branch with both sides and a
labelled statement, and two functions with a label each. Five characters hold a
token on each of two lines, or three tokens on one.

Runs that are expected to find a violation, each one property against one
sentence of the documents:

| Run | Says | Does |
|---|---|---|
| `reported` | a source is blocks to its end (`roadmap.md:20`) | an unexpected token is reported, the rest dropped, the beginning compiled |
| `prototypes` | a parameter has any identifier (`roadmap.md:69`) | not one that an earlier prototype used |
| `overload_search` | "Search for corresponding overloaded function" (`typeVisitor.cpp:195`) | every argument is compared with the first parameter: a call with exactly the parameter types is rejected |
| `literal_width` | errors in typing are compilation errors (`roadmap.md:86`) | with an `int8` parameter `x`, `if x <= 1` as the first statement is accepted and compares 8 bits with the 32 that a literal has before any statement has set a type |
| `shadowed_names` | the same | the type of a variable declared in a branch stays after it, its slot does not: 32 bits are stored into 8 |
| `nested_lazy` | `and` and `or` are the logical operators (`specification.md:176-177`) | with a lazy operator on the right of another, the PHI node has no entry for the block control comes from |

Other differences between documents and code that the models have, but no run
states: a function without a return type ends the compiler with an uncaught
`bad_optional_access` (`TypeFunction`; `roadmap.md:85` calls it void); a literal
that does not fit an `int` becomes a null node without a word and the visitors
dereference it (`ParseNumber`; `roadmap.md:22` gives no bound); a pragma in a
later block renames a function and not its calls (`KeptSymbol`); the symbol made
up for the second overload of `f` is `f_1`, which may be the name of a function
(`GivenSymbol`); `b := b xor b` is parsed and accepted, has no instruction, and
stores a null pointer (`VisitBinary`; `llvmVisitor.cpp:57`, `106-108`); a call whose
result does not fit the variable it is declared for ends the compiler in the catch
clause of `main` (`TypeCall`; `main.cpp:170`); a pragma on a target that is no
function or of an unknown kind ends it with `exit(1)` and no place in the source
(`VisitPragma`). Two were met while proving, as cases that a property
must leave out. A `not` below another operator is rejected or accepted by
accident, a unary minus included, since its node keeps an empty type
(`NotAsOperand`). And the width of a literal is not that of its type in more
places than the operands of a comparison: in a condition, `if -1 then`, it is what
an earlier statement left in `currentType`, or 32 bits if none did, and in
`return not (b + 1)` it is 32 bits, since the type that the return gives on is the
empty one of the `not` (`LiteralsTyped`).

**Fairness.** The compiler and the programs it makes are one thread that waits
for nothing, so as long as a step is possible one is taken. `Parser!Spec`
assumes `WF_vars(Next)`, used by `Termination`; `Lexer!Spec` assumes
`WF_vars(Get)`, the parser asking for tokens until it has the end of the file
(`ReadsToEnd`); `BasicBlocks!Spec` assumes `WF_vars(Execute)`, the program that
was made running (`ForwardReturns`). `Linkage` and `Bodies` state no liveness:
their walks are bounded by the length of the program.

## 4. Proofs

`ScopeStackProofs` proves, for every stack and key, what a lookup sees after
`EnterScope`, `AddToScope` and `ExitScope`: entering changes nothing
(`ResolveEnter`), adding changes the lookup of one name (`ResolveAdd`), and what
was added to a scope is forgotten with it (`ExitForgets`).

`ParserProofs` proves, for every alphabet, every set of types and numerals and
every `MaxTokens` (from `AlphabetAssumption` alone), that

* `Spec => []TypeOK` (`ParserTypes`),
* `Spec => []ScopesNeverUnderflow` (`NoUnderflow`),
* `Spec => []ScopesBalanced` (`Balanced`).

None of the three is inductive. `IInv` is, theorem `Inductive`; its parts, and
why each is needed:

* `StreamInv`, `FlagsInv`: types. The token read must be a known text and kind.
* `Stack(control)`: `control` is a sequence of items, `main`'s item is at its
  bottom and nowhere else, and the item of a visit only just above that. It is
  what makes an exception find a handler before the stack is empty.
* `ThrownInv`: an exception is in flight only while there is a call to leave,
  and only after something was reported or overflowed.
* `RecoveringInv`: likewise an expression is recovered from only after that.
  Both are needed for `ScopesBalanced`: `Unwind` abandons scopes, and may do so
  only when `history` is not empty.
* `ScopesNeverUnderflow`: at least one more scope is open than calls on the
  stack will close. `CloseMultiBlock` and `CloseFunction` pop one and drop one
  such call; `Unwind` only drops calls. The count is `Owners(control)`, and the
  lemmas about it (what it is of a sequence with items put in front) carry the
  proof of every action.
* `ScopesBalanced`: the same with equality as long as `history` is empty.

Its second half proves, from the same assumption,

* `Spec => []AcceptedMeansAllRead` (`AcceptedIsRead`),
* `Spec => []StaleLookaheadRejected` (`StaleIsRejected`),
* `Spec => []NullOnlyAfterDiagnosis` (`NullsAreDiagnosed`).

They are about what is read and what is missing, so they need to know where in a
source the parser is. `ReadingInv` is inductive together with `IInv`, theorem
`ReadingInductive`:

* `ShapeInv`: which call may be under which (`Follows`, `Whole`): a block is
  parsed for a multi-block or for `main`, a multi-block for an `if` or a function,
  and no call expects the end of the file.
* `BufferInv`: a token read ahead is a keyword under any scopes or under none,
  and when it is the end of the file, nothing is behind it.
* `FreshInv`: its type is the one the scopes would give it now, unless the next
  thing the parser does is to compare it with a semicolon.
* `SilentInv`: what holds as long as there was no diagnosis. Nothing is in
  flight or recovered from; `main` and the visitors of a whole block meet an
  empty buffer; a tree has a null node in it only when the end of the file is
  waiting and one of four calls that must miss a token comes next (a block
  modifier with nothing behind it); it is null only at the end.
* `CloseInv`: a function's scope is closed in front of the end of its body.
  `StoppedInv`: code generation starts when no call is left.

The steps are proved in three classes: those that only exchange calls
(`Ordinary`), those that diagnose (`Diagnosing`), and those that read, open,
close or stop, each on its own.

Every invariant of `Linkage` is proved, for every set of names, types, results,
parameters and arguments and every `MaxItems`: from `LinkageAssumption` (the
constants are sequences of types and the marks are no types), and from
`SuffixAssumption` for the symbols (what `Suffixed` appends can be told from the
name). `LinkageProofs` proves

* `Spec => []TypeOK` (`LinkageTypes`),
* `Spec => []OverloadsDiffer` (`OverloadsDifferAlways`),
* `Spec => []RegisteredBeforeCalled` (`CalledAreRegistered`),
* `Spec => []SymbolsDistinct` (`SymbolsAreDistinct`).

The second follows from `LinkageInv`, which is inductive (`LinkageInductive`), and
so does the first but for its last conjunct, which needs `NamedOK`: until an error,
every function and call behind the type visitor has a symbol, so that the code
generator, which only starts without an error, finds one for each.

* `SourceOK`: the program is a sequence of items, `unit` and `pc` are in it or
  just behind it, open bodies and what is read together stay within the bound,
  the current block starts at the top level, the phase agrees with the outcome.
  The guard of every read is about the depth of the body being read, so types
  alone are not inductive.
* `NamesOK`: the parser's scopes hold names of functions read before, and so
  does every node that was taken for a call or a pragma on a function: it is
  what makes a called name one of the program's functions at all.
* `TablesOK`: an entry of the function table lists functions that were visited,
  that have the entry's name and result, in the order of the source, no two of
  them with the same parameters; a symbol belongs to a visited node; the insert
  point, the callees and the callers are functions.

The last two need more, as a block that is given up leaves its functions
outside the table and pragmas put symbols in first. `KnownOK`: as long as there
was no error, every function behind the type visitor is an overload of its name
and every entry has one. `GivenOK`: without pragmas, symbols belong to nodes
behind the type visitor only, and the k-th overload of a name has the symbol
`visitNodeFunction` makes for k, so two functions share a symbol only if two
numbered names read alike.

Its second half proves

* `Spec => []EmittedInCaller` (`CallsInTheirCallers`),
* `Spec => []CallsLinked` (`CallsReachChosen`),
* `Spec => []OneParameterOverloadFound` (`OverloadFoundAlways`).

Where a call is emitted is settled by one variable that is never put back.
`EmittedOK` says what that variable is: the last function with a body before the
node being generated. Without a body inside a body, that function is the one
which encloses the node, since nothing between the two can close it
(`NotShallower`). What a call reaches takes four more. `PlaceOK` places the
pragma and type visitors in the block that was read last, so that a pragma in no
later block than a call was visited before it. `ChosenOK` and `KeptOK`: a call
behind the type visitor has a function before it, and both still have the same
symbol. `ModuleOK`: the LLVM module has every function behind the code
generator, by its symbol. `LinkedOK` follows, and is the property for every call
emitted so far. For the search, `MeantOK` says that what was chosen accepts the
call, and `FoundOK` that there is no error while every call read so far has its
function; the property speaks of the whole program, and what holds of the whole
holds of its beginning (`TypableBefore`).

It also proves `Spec => []PragmaTargetsFound`
(`PragmaTargetsFoundAlways`): where the pragma visitor exits, its target was no
function to the parser either, or the kind of the pragma is unknown. The parser
takes any target, so the first of these does happen; the theorem is about
functions. Two visitors keep scopes of their own, the parser
two for each open body and the pragma visitor one, and the parser keeps one more
for every prototype it has read. `VisibleOK` counts them: a name in the parser's
scopes belongs to a function whose scope is still open in the source. `TargetsOK`
says the same from the other side: every function whose scope is open is in the
pragma visitor's. A function that a pragma names is between the two.

`LexerProofs` proves every invariant of `Lexer`, for every
set of characters and every `MaxLength`, from `LexerAssumption` (the length is a
number and the end of the file is no character):

* `Spec => []TypeOK` (`LexerTypes`),
* `Spec => []HighlightFits` (`MarksAreUnderTokens`),
* `Spec => []OnlyBlanksLost` (`OnlyBlanksAreLost`),
* `Spec => []TokensInPlace` (`TokensAreInPlace`).

The loops over characters are settled first: a run ends in the input, since the
end of the file is in no run (`RunEnds`, `TextEnds`), and what `moveHead` leaves is
the predicate `Moved`. The lines are counted by sets of positions; how the n-th
of a set goes with a set put behind it or cut off (`NthBehind`, `NthInitial`) is
what the rest is computed from, and `WithoutConcat` is the lemma on texts.

`PlaceInv` is inductive (`PlaceInductive`). Its parts are `ReadInv`, the types;
`CountInv`, only the last token may be empty, so there are no more than
characters read (without it nothing bounds them: `TypeOK` is not inductive); and
`OrderInv`, tokens come one behind the other, in their lines and columns, and the
next one will be behind them all. `HighlightFits` follows from the order alone:
the range visitor's minimum and maximum of two tokens are then the first and the
last, whatever order it meets them in, and the arithmetic of marks adds up
(`MarksFit`). `OnlyBlanksLost` is inductive with `ReadInv`. `TokensInPlace` speaks
of the end and needs `InPlaceInv`, which speaks of every moment: as long as no
token has gone over a line, the lines kept are those of the input, the column is
counted from the start of the last of them (`LinesAt`), and each token was read at
a position that its line and column give back (`TokenAt`). That `getNextToken`
counts no line inside a string is why the condition on the tokens cannot be left
out. A text without a carriage return is found in its line as it is in the input
(`LineHas`, `TokenInLine`).

The first part of `BodiesProofs` is about expressions alone, for every set of them that
`TypeRulesAssumption` allows, and every height. The operators over trees are
recursive functions, and a recursive function is only what its equation says if
there is one. `RecursiveFunctionExists` (in `ItemsProofs`) shows that, for every step that looks at
the results of operands only: the trees of height below n get their values for
every n, by the least n for which they would not (`LeastNumber`), and the union of
those is the function. `CheckUnfold`, `TypesUnfold`, `WithinUnfold` are the
equations that follow. `ExpressionInduction` is induction over trees as a fact
about a set: one that has an expression whenever it has all its operands has all.
From these,

* `AcceptedHasItsType`: what `Check` accepts as a value of the type w has the type w.
  The claim carried through the tree (`Sound`) is about any hint that may have been
  left behind, and says of a result that is still "number" that every type would do.
* `WhatHasItsTypeIsAccepted`: an expression that has the type of the hint is
  accepted, without a `not` below another operator.

Its second part proves every invariant of the run `bodies`, for every set of types,
names, expressions, statements and signatures and every `MaxItems`, from
`TypeRulesAssumption`, `BodiesAssumption` (statements are what the grammar allows, a
`bool` has one bit, the parameters of a function have different names):

* `Spec => []TypeOK` (`TypeCorrect`),
* `Spec => []AcceptedHasType` (`AcceptedIsTyped`),
* `Spec => []HasTypeAccepted` (`TypedIsAccepted`),
* `Spec => []GeneratorScopesLexically` (`LexicalScopes`),
* `Spec => []WidthsAgree` (`EqualWidths`),
* `Spec => []NullNeedsXor` (`NullsNeedXor`).

All follow from theorem `Invariant`, `Spec => []Safe`, where `Safe` is `IInv` with the
two properties of what was generated last. `IInv` is inductive by itself:

* `ItemOK`: what each item is, and that there never are more ends of branches than
  branches. The height of an item is `Opened`, and most of the work is what an item
  that is added does to it (`OpenedStep`, in `ItemsProofs`) and to `InScope`.
* `CheckerOK`: the parser has three scopes and one for each open branch, the type
  visitor two. `NamesOK`: a name in a scope of the parser has a declaration at that
  height that is still in scope. `VariablesOK`: a name in the type visitor's one
  scope has some declaration. Where names are declared once, the three mean the same,
  which is why `AcceptedHasType` and `HasTypeAccepted` ask for `NamesDiffer`.
* `SlotsOK`: the code generator has one scope for each open branch; what it has for
  a name in the scope of one height is the last declaration of the name in the
  branch open at that height, and inner scopes have later ones. The innermost scope
  that has a name then has the declaration that is meant (`Meant`), with any
  shadowing.
* `AcceptedHasType`, `HasTypeAccepted`: an item added does not change what was meant
  before it, and is accepted just when it has its type, by the two theorems on
  expressions.

`WidthsAgree` follows from what was accepted: `WidthsKept` says, by induction over the
expression, that the value of one that has the type t is as wide as t, and that no
instruction below it has operands of two widths, if `currentType` is t wherever a
literal is met (`LiteralsTyped`) and there is no `xor` in it (`UsesXor`), whose value
is none. It is a property of one step of the code generator and needs only `IInv`
before it. `NullNeedsXor` is about casts and literals too, so it does not go by
widths: `NeverNull` says, by induction again, that without a `xor` every operand is a
value, and so is the result, if every name has a slot; every name has one, as its
declaration is in scope.

`BlockBuildingProofs` and `BasicBlocksProofs` prove every safety property of the run
`control_flow`, for every set of variables, labels and expressions and every
`MaxItems`, from `BlocksAssumption` (operands are expressions of less height, what is
assigned is a truth value, `Absent` is neither a label nor a truth value):

* `Spec => []TypeOK` (`TypesAreRight`),
* `Spec => []WellLabelledCompiles` (`WellLabelledSourcesCompile`),
* `Spec => []ExecutedBlocksKept` (`ExecutedBlocksStay`),
* `RightsAreVariables` implies `Spec => ImplementsControlFlow`
  (`BlocksImplementControlFlow`).

None of the first three is inductive: what the visitor keeps are numbers of blocks,
and nothing in its state says what a block is for. The invariant says it, by a *role*
for every block: the item that its code leads to (`goal`), what is known where it
begins, by the block control came from (`claims`), and the expression that its PHI
node has the value of (`means`). The roles are no state of the model. The invariant
says that there are some; each visit extends them by those of the blocks it makes.

* `SourceOK`: the items are ones the parser lets through, `Opened` is the depth of
  branches, and no branch has two `else`s (`OneElse`), so that `Elses` is at most one
  item.
* `Core` is about the blocks alone. `BlockOK`: a block has code only in a function,
  begins with the item it leads to and ends in a terminator, unless it is the insert
  block. `InstrOK`: an instruction does what its item means if the roles of the
  blocks it goes to are right. `FlowOK`: what follows in the block is the next item.
  `TargetOK`: branches stay in the function, but for those to blocks that wait for
  one. `EntryOK`: the first block of a function leads to its first statement, and any
  set that holds it and all ends of its blocks holds all blocks of the function. The
  last is reachability, by what is closed instead of by paths: a path would be data
  to do induction over.
* `NamedOK` and `LabelOK`: the block of a label is in the function of the label, or
  is still without one, has no item with the label behind it, and a goto that was
  visited goes to it. `PendOK`: the blocks of each `visitNodeIf` under way wait, the
  inner ones made later. `Waiting` is all that waits when an item is visited.
* `AtOK`, while the program runs: control is in a block of a function, what the block
  claims for the block control came from is so (`Claimed`), and the operand that the
  next instruction uses has the value of its expression (`Means`).

`BlockBuildingProofs` has a lemma for each way to change a builder (`StayCore`,
`TurnCore`, `ForkCore` and what they rest on), then one for each visitor function.
`Visit` is recursive: as in `BodiesProofs`, that there is such a
function follows from `RecursiveFunctionExists`, and its claim, `Visited`, is carried
through the tree by induction over the set of expressions for which it holds.
`BasicBlocksProofs` makes `IInv` of it (`InvariantHolds`).

`WellLabelledCompiles` is a part of `IInv`: `broken` comes only from a label that is
placed twice, a goto that leaves its function or one without a label.
`ExecutedBlocksKept` follows from `EntryOK`, which for that reason speaks of the last
instruction of each block: what LLVM reaches from the entry is closed in that sense,
so it holds every block of the function, the running one included.

For the refinement, each step of the blocks is one of the source or none:
`Parse` is `Write`, `Start` is `Call`, a store `Assign`, the branches of an if `If`,
the branch of a goto `Goto`, a `ret` `Return`, the `unreachable` at the end of a
function `End`; PHI nodes, branches of lazy operators and those that join the ends
of an if change neither the memory nor the position. `Settle`, which skips the ends
of branches, is the same function in both modules, and so is what a condition is
worth (`Value`). `RightsAreVariables` says that no operator has another on its right,
and cannot be left out: this is what the run `nested_lazy` finds. It is a hypothesis
of the refinement only. The invariants hold for any nesting.

Only model-checked: `Termination`, `ReadsToEnd` and `ForwardReturns`, as liveness
under fairness is out of this prover's reach; and the properties that are violated.

## 5. Not modelled, and plan

Not modelled: printing of nodes (no state, no property), options, target
initialisation, writing the object file, and what an arithmetic instruction
computes: these change no state of the compiler or belong to LLVM. Strings are
texts to the parser, whether they are closed is not asked; messages over several
lines are not laid out. Functions inside an `if`, calls as arguments of calls,
and pragmas on declared variables are in no module.

What would come next: a module on the grouping of operators, the trees of
`parsePrecedence` against the table of precedences.
