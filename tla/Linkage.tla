------------------------------ MODULE Linkage ------------------------------
(***************************************************************************)
(* How a call finds its function.  A source is read one top-level block at *)
(* a time; the pragma visitor, then the type visitor walk over the block   *)
(* (src/main.cpp), and once the whole source is read the code generator    *)
(* walks over every block.  The parser's scopes say which names are        *)
(* functions, the pragma visitor's scopes which node a pragma names, the   *)
(* function table which overload a call means, and the LLVM module which   *)
(* function a symbol is.                                                   *)
(*                                                                         *)
(* The tree is kept flat: a node is a position of `program', and a         *)
(* function with a body is closed by a matching "end".  Variables and      *)
(* expressions other than calls, literals and casts are left out.          *)
(***************************************************************************)
EXTENDS ScopeStack, FiniteSets

CONSTANTS
  Names,            \* names of functions
  Types,            \* names of types
  Symbols,          \* symbols that pragmas give
  Suffixed(_, _),   \* Suffixed("f", 1) is "f_1"
  Signatures,       \* lists of parameter types, with a return type or Absent
  Arguments,        \* lists of arguments, by type: literals are of type Number
  Uses,             \* what a call's value is for: Return, or the type of a variable
  MaxItems          \* bound on the length of the program

Number == "number"
Return == "return"

Parameters == {s.parameters : s \in Signatures}
Results == {s.result : s \in Signatures}

ASSUME SuffixAssumption ==
  /\ \A n, m \in Names : \A j, k \in 1 .. MaxItems :
       Suffixed(n, j) = Suffixed(m, k) => n = m /\ j = k
  /\ \A n \in Names : \A k \in 1 .. MaxItems : Suffixed(n, k) # n

ASSUME LinkageAssumption ==
  /\ MaxItems \in Nat
  /\ Number \notin Types /\ Return \notin Types /\ Absent \notin Types
  /\ Results \subseteq Types \cup {Absent}
  /\ Uses \subseteq Types \cup {Return}
  /\ Parameters \subseteq Seq(Types)
  /\ Arguments \subseteq Seq(Types \cup {Number})

VARIABLES
  program,         \* the nodes read so far
  scopes,          \* LexerContext::contextStack, function names only
  phase,           \* which walk is under way
  unit,            \* the node the current top-level block starts at
  pc,              \* the node being visited
  symbol,          \* Node::symbol_name, of functions and of calls
  pragmaContext,   \* pragmaVisitor::pragmaContext
  functions,       \* ContextProvider::functions
  currentFunction, \* typeVisitor::currentFunction
  error,           \* main's flag
  module,          \* the symbols of the LLVM module
  insert,          \* the function the IRBuilder inserts into
  outcome,         \* how the compilation ended
  chosen,          \* the overload each call was given
  emitted          \* the calls in the module

source == <<program, scopes>>
walk == <<phase, unit, pc>>
checked == <<functions, currentFunction, error, chosen>>
generated == <<module, insert, emitted>>
vars == <<source, walk, symbol, pragmaContext, checked, generated, outcome>>

(* A null pointer to a node. *)
NoNode == 0

(* The kinds of pragmas: symbol_name, and any other token. *)
PragmaTypes == {"SYMBOL_NAME", "other"}

Phases == {"parse", "pragma", "type", "codegen", "done"}
Outcomes == {"compiling", "rejected", "compiled", "exited", "aborted", "crashed"}

(* Each walk of main's loop, and the one after it; the variant has the      *)
(* visitors the other way round.                                            *)
FollowingSwapped == [parse |-> "type", type |-> "pragma", pragma |-> "parse"]
Following == [parse |-> "pragma", pragma |-> "type", type |-> "parse"]

(* std::map with operator[]: what a missing entry is constructed to.        *)
NoFunction == [result |-> Absent, overloads |-> <<>>]

Node == program[pc]

HasBody(item) == item.op = "function" /\ item.body

(* The bodies open before node i. *)
Depth(i) ==
  Cardinality({j \in 1 .. i - 1 : HasBody(program[j])})
    - Cardinality({j \in 1 .. i - 1 : program[j].op = "end"})

-----------------------------------------------------------------------------
(* Parsing *)

(* Room is kept for the "end" of every open body. *)
Reads(item, depth) ==
  /\ phase = "parse"
  /\ Len(program) + 1 + depth <= MaxItems
  /\ program' = Append(program, item)
  /\ IF depth = 0
     THEN phase' = Following["parse"] /\ pc' = unit
     ELSE UNCHANGED <<phase, pc>>
  /\ UNCHANGED <<unit, symbol, pragmaContext, checked, generated, outcome>>

Here == Depth(Len(program) + 1)

(* A call starts with a FUNCTION_NAME.                                      *)
Visible == {name \in Names : Resolve(scopes, name) # Absent}

(* parseFunction: the name goes to the scope around the function, and the   *)
(* scope of the parameters of a prototype is never closed.                  *)
ParseFunction ==
  \E name \in Names, s \in Signatures, body \in BOOLEAN :
    LET named == AddToScope(scopes, name, "FUNCTION_NAME")
    IN  /\ Reads([op |-> "function", name |-> name, parameters |-> s.parameters,
                  result |-> s.result, body |-> body],
                 IF body THEN Here + 1 ELSE Here)
        /\ scopes' = IF body THEN EnterScope(EnterScope(named)) ELSE EnterScope(named)

EndFunction ==
  /\ Here > 0
  /\ Reads([op |-> "end"], Here - 1)
  /\ scopes' = ExitScope(ExitScope(scopes))

(* `return f(...);' or `<type> v := f(...);' *)
ParseCall ==
  /\ \E name \in Visible, arguments \in Arguments, into \in Uses :
       Reads([op |-> "call", name |-> name, arguments |-> arguments, into |-> into], Here)
  /\ UNCHANGED scopes

(* Any token is taken for the target and for the kind of a pragma: an       *)
(* IDENTIFIER is reported, and the node is built all the same.  A target    *)
(* that is not a name at all is one that nothing declares.                  *)
ParsePragma ==
  /\ \E target \in Names, type \in PragmaTypes, value \in Symbols :
       Reads([op |-> "pragma", name |-> target, isFunction |-> target \in Visible,
              type |-> type, value |-> value], Here)
  /\ UNCHANGED scopes

EndOfSource ==
  /\ phase = "parse" /\ Here = 0
  /\ IF error
     THEN phase' = "done" /\ outcome' = "rejected"
     ELSE phase' = "codegen" /\ UNCHANGED outcome
  /\ pc' = 1
  /\ UNCHANGED <<source, unit, symbol, pragmaContext, checked, generated>>

-----------------------------------------------------------------------------
(* Walking *)

Visits(walker, op) == phase = walker /\ pc <= Len(program) /\ Node.op = op

GoOn == pc' = pc + 1 /\ UNCHANGED <<phase, unit, outcome>>

(* The process ends here and now. *)
Stop(how) == phase' = "done" /\ outcome' = how /\ UNCHANGED <<unit, pc>>

(* One of main's visitors is done with the block: the next, or the next block. *)
EndWalk ==
  /\ phase \in {"pragma", "type"} /\ pc = Len(program) + 1
  /\ phase' = Following[phase]
  /\ unit' = IF phase' = "parse" THEN Len(program) + 1 ELSE unit
  /\ pc' = unit'
  /\ UNCHANGED <<source, symbol, pragmaContext, checked, generated, outcome>>

-----------------------------------------------------------------------------
(* The pragma visitor *)

(* Variant: the name goes to the scope of the body. *)
DeclareInside(stack, name, node) == AddToScope(EnterScope(stack), name, node)
Declare(stack, name, node) == EnterScope(AddToScope(stack, name, node))

PragmaFunction ==
  /\ Visits("pragma", "function")
  /\ LET inside == Declare(pragmaContext, Node.name, pc)
     IN  pragmaContext' = IF Node.body THEN inside ELSE ExitScope(inside)
  /\ GoOn
  /\ UNCHANGED <<source, symbol, checked, generated>>

PragmaEnd ==
  /\ Visits("pragma", "end")
  /\ pragmaContext' = ExitScope(pragmaContext)
  /\ GoOn
  /\ UNCHANGED <<source, symbol, checked, generated>>

PragmaCall ==
  /\ Visits("pragma", "call")
  /\ GoOn
  /\ UNCHANGED <<source, symbol, pragmaContext, checked, generated>>

(* setSymbolName on the node the name stands for; exit(1) when it stands    *)
(* for none and when the pragma is of another kind.                         *)
VisitPragma ==
  /\ Visits("pragma", "pragma")
  /\ IF Binders(pragmaContext, Node.name) = {} \/ Node.type # "SYMBOL_NAME"
     THEN Stop("exited") /\ UNCHANGED symbol
     ELSE GoOn /\ symbol' = Bind(symbol, Resolve(pragmaContext, Node.name), Node.value)
  /\ UNCHANGED <<source, pragmaContext, checked, generated>>

-----------------------------------------------------------------------------
(* The type visitor *)

(* A type_error or function_definition_error, caught by main: the rest of   *)
(* the block is not visited.  The variant does not keep the error.          *)
TypeErrorForgotten ==
  /\ UNCHANGED error
  /\ pc' = Len(program) + 1
  /\ UNCHANGED <<phase, unit, outcome>>
TypeError ==
  /\ error' = TRUE
  /\ pc' = Len(program) + 1
  /\ UNCHANGED <<phase, unit, outcome>>

Overloads(name) == functions[name].overloads

(* The name of the first overload is its symbol, the later ones are         *)
(* numbered; the variant numbers by overloadCount, which stays 0.           *)
GivenSymbolUncounted(name, count) == name
GivenSymbol(name, count) == IF count = 0 THEN name ELSE Suffixed(name, count)

(* The variant compares with the last overload only.                        *)
HasOverloadLast(overloads, parameters) ==
  overloads # <<>> /\ program[overloads[Len(overloads)]].parameters = parameters
HasOverload(overloads, parameters) ==
  \E k \in DOMAIN overloads : program[overloads[k]].parameters = parameters

(* functionType::add; the variant enters definitions only. *)
AddDefinition(table, name) ==
  IF Node.body THEN [table EXCEPT ![name].overloads = Append(@, pc)] ELSE functions
AddOverload(table, name) == [table EXCEPT ![name].overloads = Append(@, pc)]

(* visitNodeFunction up to the body.  Taking value() of an absent return    *)
(* type throws what nothing catches.                                        *)
TypeFunction ==
  /\ Visits("type", "function")
  /\ LET name      == Node.name
         table     == IF name \in DOMAIN functions THEN functions
                      ELSE Bind(functions, name, [result |-> Node.result, overloads |-> <<>>])
         overloads == table[name].overloads
         duplicate == HasOverload(overloads, Node.parameters)
     IN  \/ /\ table[name].result # Node.result
            /\ functions' = table
            /\ IF Absent \in {table[name].result, Node.result}
               THEN Stop("aborted") /\ UNCHANGED error
               ELSE TypeError
            /\ UNCHANGED <<symbol, currentFunction>>
         \/ /\ table[name].result = Node.result
            /\ symbol' = IF pc \in DOMAIN symbol THEN symbol
                         ELSE Bind(symbol, pc, GivenSymbol(name, Len(overloads)))
            /\ \/ /\ duplicate
                  /\ functions' = table
                  /\ TypeError /\ UNCHANGED currentFunction
               \/ /\ ~duplicate /\ Node.result = Absent
                  /\ functions' = table
                  /\ Stop("aborted") /\ UNCHANGED <<error, currentFunction>>
               \/ /\ ~duplicate /\ Node.result # Absent
                  /\ functions' = AddOverload(table, name)
                  /\ currentFunction' = IF Node.body THEN name ELSE Absent
                  /\ GoOn /\ UNCHANGED error
  /\ UNCHANGED <<source, pragmaContext, chosen, generated>>

TypeEnd ==
  /\ Visits("type", "end")
  /\ currentFunction' = Absent
  /\ GoOn
  /\ UNCHANGED <<source, symbol, pragmaContext, functions, error, chosen, generated>>

TypePragma ==
  /\ Visits("type", "pragma")
  /\ GoOn
  /\ UNCHANGED <<source, symbol, pragmaContext, checked, generated>>

(* The search of visitNodeFunctionCall compares every argument with the     *)
(* first parameter and never counts the parameters.  In the variant only an *)
(* exception rejects an overload, and these arguments throw none.           *)
AcceptsUnlessThrown(parameters, arguments) == TRUE
Accepts(parameters, arguments) ==
  \A k \in DOMAIN arguments : arguments[k] \in {Number, parameters[1]}

(* types[0] of an overload without parameters. *)
OutOfRange(parameters, arguments) == parameters = <<>> /\ arguments # <<>>

(* The overloads at which the search stops, in one way or the other.        *)
Candidates(overloads, arguments) ==
  {k \in DOMAIN overloads :
     LET parameters == program[overloads[k]].parameters
     IN  OutOfRange(parameters, arguments) \/ Accepts(parameters, arguments)}

(* The node found for a call, and the symbol the call keeps of it: the one  *)
(* the function has at this moment.  In the variant it is the name.         *)
KeptSymbolName(callee) == program[callee].name
KeptSymbol(callee) == symbol[callee]

Expected(into) == IF into = Return THEN functions[currentFunction].result ELSE into

(* A call as the value of a return or of a declaration.  A return outside a *)
(* function takes value() of an absent currentFunction; operator[] enters   *)
(* an unknown callee into the table.  The error of a declaration is about a *)
(* node without tokens, for which main's catch clause throws in its turn.   *)
TypeCall ==
  /\ Visits("type", "call")
  /\ \/ /\ Node.into = Return /\ currentFunction = Absent
        /\ Stop("aborted")
        /\ UNCHANGED <<functions, error, symbol, chosen>>
     \/ /\ Node.into = Return => currentFunction # Absent
        /\ LET table      == IF Node.name \in DOMAIN functions THEN functions
                             ELSE Bind(functions, Node.name, NoFunction)
               overloads  == table[Node.name].overloads
               candidates == Candidates(overloads, Node.arguments)
           IN  /\ functions' = table
               /\ \/ candidates = {} /\ TypeError /\ UNCHANGED <<symbol, chosen>>
                  \/ \E k \in candidates :
                       /\ \A j \in candidates : k <= j
                       /\ IF OutOfRange(program[overloads[k]].parameters, Node.arguments)
                          THEN Stop("crashed") /\ UNCHANGED <<error, symbol, chosen>>
                          ELSE /\ chosen' = Bind(chosen, pc, overloads[k])
                               /\ symbol' = Bind(symbol, pc, KeptSymbol(overloads[k]))
                               /\ \/ /\ table[Node.name].result = Expected(Node.into)
                                     /\ GoOn /\ UNCHANGED error
                                  \/ /\ table[Node.name].result # Expected(Node.into)
                                     /\ IF Node.into = Return THEN TypeError
                                        ELSE error' = TRUE /\ Stop("aborted")
  /\ UNCHANGED <<source, pragmaContext, currentFunction, generated>>

-----------------------------------------------------------------------------
(* The code generator *)

(* Function::Create: a symbol that is taken is made unique by LLVM, so that *)
(* the new function is not found under it.                                  *)
CreateFunction(name, node) ==
  module' = IF name \in DOMAIN module THEN module ELSE Bind(module, name, node)

(* The builder goes into the body, and stays there after it.  The variant   *)
(* misses the early return for a function without a body.                   *)
SetInsertPointAlways == pc
SetInsertPoint == IF Node.body THEN pc ELSE insert

GenerateFunction ==
  /\ Visits("codegen", "function")
  /\ CreateFunction(symbol[pc], pc)
  /\ insert' = SetInsertPoint
  /\ GoOn
  /\ UNCHANGED <<source, symbol, pragmaContext, checked, emitted>>

GenerateNothing ==
  /\ phase = "codegen" /\ pc <= Len(program) /\ Node.op \in {"end", "pragma"}
  /\ GoOn
  /\ UNCHANGED <<source, symbol, pragmaContext, checked, generated>>

(* TheModule->getFunction(symbol) *)
GetFunction(name) == IF name \in DOMAIN module THEN module[name] ELSE NoNode

(* A call whose symbol is not in the module is logged and left out, and     *)
(* what uses its value gets the one left over from before, or none, which   *)
(* may end the process.  The builder is used without an insert point when   *)
(* no body came before.                                                     *)
GenerateCall ==
  /\ Visits("codegen", "call")
  /\ \/ /\ insert # NoNode
        /\ emitted' = emitted \cup
             {[call |-> pc, callee |-> GetFunction(symbol[pc]), within |-> insert]}
        /\ GoOn
     \/ /\ insert = NoNode \/ GetFunction(symbol[pc]) = NoNode
        /\ Stop("crashed") /\ UNCHANGED emitted
  /\ UNCHANGED <<source, symbol, pragmaContext, checked, module, insert>>

EndOfCode ==
  /\ phase = "codegen" /\ pc = Len(program) + 1
  /\ Stop("compiled")
  /\ UNCHANGED <<source, symbol, pragmaContext, checked, generated>>

Finished == phase = "done" /\ UNCHANGED vars

-----------------------------------------------------------------------------
Init ==
  /\ program = <<>>
  /\ scopes = <<EmptyScope>>
  /\ phase = "parse" /\ unit = 1 /\ pc = 1
  /\ symbol = EmptyScope
  /\ pragmaContext = <<EmptyScope>>
  /\ functions = EmptyScope
  /\ currentFunction = Absent
  /\ error = FALSE
  /\ chosen = EmptyScope
  /\ module = EmptyScope
  /\ insert = NoNode
  /\ emitted = {}
  /\ outcome = "compiling"

ParseStep == ParseFunction \/ EndFunction \/ ParseCall \/ ParsePragma \/ EndOfSource
PragmaStep == PragmaFunction \/ PragmaEnd \/ PragmaCall \/ VisitPragma
TypeStep == TypeFunction \/ TypeEnd \/ TypePragma \/ TypeCall
CodegenStep == GenerateFunction \/ GenerateNothing \/ GenerateCall \/ EndOfCode

Next == ParseStep \/ PragmaStep \/ TypeStep \/ EndWalk \/ CodegenStep \/ Finished

Spec == Init /\ [][Next]_vars

-----------------------------------------------------------------------------
(* Properties *)

Nodes == 1 .. Len(program)
FunctionNodes == {i \in Nodes : program[i].op = "function"}
CallNodes == {i \in Nodes : program[i].op = "call"}
PragmaNodes == {i \in Nodes : program[i].op = "pragma"}

Items ==
  [op : {"function"}, name : Names, parameters : Parameters, result : Results, body : BOOLEAN]
    \cup [op : {"end"}]
    \cup [op : {"call"}, name : Names, arguments : Arguments, into : Uses]
    \cup [op : {"pragma"}, name : Names, isFunction : BOOLEAN, type : PragmaTypes,
           value : Symbols]

(* Every symbol a node may have. *)
AllSymbols ==
  Names \cup Symbols \cup {Suffixed(name, k) : name \in Names, k \in 1 .. MaxItems}

TypeOK ==
  /\ program \in Seq(Items) /\ Len(program) <= MaxItems
  /\ phase \in Phases /\ outcome \in Outcomes
  /\ unit \in 1 .. Len(program) + 1 /\ pc \in 1 .. Len(program) + 1
  /\ DOMAIN symbol \subseteq FunctionNodes \cup CallNodes
  /\ \A i \in DOMAIN symbol : symbol[i] \in AllSymbols
  /\ DOMAIN functions \subseteq Names
  /\ \A name \in DOMAIN functions :
       /\ functions[name].result \in Results \cup {Absent}
       /\ ~error => functions[name].result \in Results
       /\ functions[name].overloads \in Seq(FunctionNodes)
  /\ currentFunction \in Names \cup {Absent}
  /\ error \in BOOLEAN
  /\ DOMAIN chosen \subseteq CallNodes
  /\ \A call \in DOMAIN chosen : chosen[call] \in FunctionNodes
  /\ \A name \in DOMAIN module : module[name] \in FunctionNodes
  /\ insert \in FunctionNodes \cup {NoNode}
  /\ phase = "codegen" => FunctionNodes \cup CallNodes \subseteq DOMAIN symbol

Compiled == outcome = "compiled"

(* The node of a function is in the table. *)
Registered(f) ==
  /\ program[f].name \in DOMAIN functions
  /\ \E k \in DOMAIN Overloads(program[f].name) : Overloads(program[f].name)[k] = f

(* No name of the program reads like the numbered symbol of another. *)
NamesUnlikeSuffixes ==
  \A n, m \in Names, k \in 1 .. MaxItems : Suffixed(n, k) # m

(* The first node of the top-level block of node i. *)
UnitOf(i) ==
  CHOOSE j \in 1 .. i : Depth(j) = 0 /\ \A k \in j + 1 .. i : Depth(k) > 0

(* Symbols that visitNodeFunction makes up are all different: no two        *)
(* functions of the table, overloads of each other or not, share one as     *)
(* long as pragmas gave none and no name reads like a numbered one.         *)
SymbolsDistinct ==
  (PragmaNodes = {} /\ NamesUnlikeSuffixes) =>
    \A f, g \in FunctionNodes :
      (Registered(f) /\ Registered(g) /\ f # g) => symbol[f] # symbol[g]

(* An overload is registered once: however prototypes, definitions, nested  *)
(* functions and rejected blocks follow one another, two nodes of the same  *)
(* entry of the table differ in their parameters and agree on the result.   *)
OverloadsDiffer ==
  \A name \in DOMAIN functions : \A j, k \in DOMAIN Overloads(name) :
    LET f == program[Overloads(name)[j]]
        g == program[Overloads(name)[k]]
    IN  /\ f.result = g.result
        /\ j # k => f.parameters # g.parameters

(* A name the parser takes for a function is one the type visitor has       *)
(* registered when it comes to the call, two tables filled in by two walks. *)
(* Only a block that an error cut short leaves functions unregistered, for  *)
(* which operator[] of visitNodeFunctionCall then makes up an entry.        *)
RegisteredBeforeCalled ==
  (Visits("type", "call") /\ ~error) => Node.name \in DOMAIN functions

(* A prototype in a body leaves its parameter scope open in the parser, and *)
(* names outlive the body.  Without one, the parser's scopes and the pragma *)
(* visitor's agree: what the parser takes for a function the pragma visitor *)
(* finds, and only an unknown kind of pragma ends the compilation there.    *)
PragmaTargetsFound ==
  (/\ outcome = "exited"
   /\ \A f \in FunctionNodes : HasBody(program[f]) \/ Depth(f) = 0)
  => ~Node.isFunction \/ Node.type # "SYMBOL_NAME"

(* A call reaches the function that was chosen for it, through a symbol     *)
(* copied by one walk and looked up by another, when symbols are distinct   *)
(* and no pragma is in a later block than a call.  In the block of the call *)
(* itself the pragma may come after it, the pragma visitor runs first.      *)
CallsLinked ==
  (/\ Compiled
   /\ \A f, g \in FunctionNodes : symbol[f] = symbol[g] => f = g
   /\ \A p \in PragmaNodes, c \in CallNodes : UnitOf(p) <= UnitOf(c))
  => \A e \in emitted : e.callee = chosen[e.call]

(* The function whose body node i is in, NoNode at the top level. *)
Enclosing(i) ==
  LET open == {j \in 1 .. i - 1 : HasBody(program[j]) /\ \A k \in j + 1 .. i : Depth(k) > Depth(j)}
  IN  IF open = {} THEN NoNode ELSE CHOOSE j \in open : \A k \in open : k <= j

(* The IRBuilder's insert point is one variable, set when a body starts and *)
(* never put back: every call is in its own caller as long as no function   *)
(* is declared with a body inside another and no call is at the top level.  *)
EmittedInCaller ==
  (/\ Compiled
   /\ \A f \in FunctionNodes : HasBody(program[f]) => Depth(f) = 0
   /\ \A c \in CallNodes : Depth(c) > 0)
  => /\ \A e \in emitted : e.within = Enclosing(e.call)
     /\ {e.call : e \in emitted} = CallNodes

(* Function f is what call c asks for, whatever the table says of it.       *)
Matches(parameters, arguments) ==
  /\ Len(parameters) = Len(arguments)
  /\ \A k \in DOMAIN arguments : arguments[k] \in {Number, parameters[k]}

Means(c, f) ==
  /\ program[f].name = program[c].name
  /\ Matches(program[f].parameters, program[c].arguments)

(* No function is declared twice or inside another, one type is returned    *)
(* everywhere, and every call has a function before it.                     *)
WellTyped ==
  /\ \A f, g \in FunctionNodes :
       /\ program[f].result = program[g].result /\ program[f].result # Absent
       /\ (program[f].name = program[g].name /\ program[f].parameters = program[g].parameters)
            => f = g
  /\ \A f \in FunctionNodes : Depth(f) = 0
  /\ \A c \in CallNodes :
       /\ Depth(c) > 0 /\ program[c].into = Return
       /\ \E f \in FunctionNodes : f < c /\ Means(c, f)

CallsMatch == \A c \in DOMAIN chosen : Means(c, chosen[c])

(* With one parameter everywhere, the search for an overload is sound and   *)
(* complete: prototypes, definitions, recursion and overloads in any order, *)
(* a source in which every call has its function is never rejected, and     *)
(* what is compiled calls functions that correspond to the arguments.       *)
OneParameterOverloadFound ==
  (/\ \A f \in FunctionNodes : Len(program[f].parameters) = 1
   /\ \A c \in CallNodes : Len(program[c].arguments) = 1)
  => /\ WellTyped => outcome # "rejected"
     /\ Compiled => CallsMatch

-----------------------------------------------------------------------------
(* What the documents say and the code does not do: the property below is   *)
(* violated.                                                                *)

(* A source in which every call has its function is compiled, each call to  *)
(* a function that corresponds to its arguments; a source with a call that  *)
(* has none is rejected.                                                    *)
CorrespondingOverloadFound ==
  /\ WellTyped => outcome # "rejected"
  /\ Compiled => CallsMatch
=============================================================================
