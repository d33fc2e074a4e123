------------------------------- MODULE Bodies -------------------------------
(***************************************************************************)
(* A function body through the three walks that give its names a meaning:  *)
(* the parser, whose scopes say which names are variables; the type        *)
(* visitor, which finds their types and accepts or rejects each statement  *)
(* (src/visitor/typeVisitor.cpp); and, when nothing was rejected, the code *)
(* generator, which gives each variable its slot and each value a width    *)
(* (src/visitor/llvmVisitor.cpp).                                          *)
(*                                                                         *)
(* The parser has read the whole body before the type visitor walks over   *)
(* it.  Nothing in the parser depends on types, so that here an item is    *)
(* chosen when the type visitor comes to it.                               *)
(***************************************************************************)
EXTENDS Items, TypeRules

CONSTANTS
  Width(_),     \* the bits of a type
  Signed,       \* the types a cast to which extends the sign
  Statements,   \* the declarations, assignments, returns and conditions
  Signatures,   \* result types and parameter lists: pairs of type and name
  MaxItems      \* bound on the items between "function" and "end"

Values == {<<e>> : e \in Expressions}

(* A logical operator tells whether it is lazy: `and' and `or' are, `xor'   *)
(* is not.  Only a declaration can do without a value.  The name of a       *)
(* parameter is one that no variable has yet (parseFunction), so that no    *)
(* two parameters have one.                                                 *)
ASSUME BodiesAssumption ==
  /\ MaxItems \in Nat /\ Signed \subseteq Types
  /\ Width(Bool) = 1 /\ \A t \in Types : Width(t) \in Nat \ {0}
  /\ \A e \in Expressions : e.op = "logical" => e.lazy \in BOOLEAN
  /\ Statements \subseteq
         [op : {"declare"}, type : Types, name : Names, value : Values \cup {<<>>}]
           \cup [op : {"assign"}, name : Names, value : Values]
           \cup [op : {"return", "if"}, value : Values]
  /\ Signatures \subseteq [result : Types, parameters : Seq([type : Types, name : Names])]
  /\ \A s \in Signatures : \A i, j \in DOMAIN s.parameters :
       s.parameters[i].name = s.parameters[j].name => i = j

VARIABLES
  ifs,        \* the parseIf calls under way, innermost first: "then" or "else"
  names,      \* LexerContext::contextStack, variables only
  variables,  \* typeVisitor::variables: the type and the item of a declaration
  hint,       \* typeVisitor::hintType
  phase,      \* "check", "generate" or "done"
  outcome,    \* how the compilation ended
  pc,         \* the item the code generator visits
  slots,      \* ContextProvider::variables: the type and the item of each alloca
  current,    \* llvmVisitor::currentType
  last,       \* the width of llvmVisitor::lastValue, Null for nullptr
  emitted     \* what was generated for the last item: no part of the compiler

checker == <<ifs, names, variables, hint>>
generator == <<pc, slots, current, last, emitted>>
vars == <<program, checker, phase, outcome, generator>>

Null == 0
Visible == "VARIABLE_NAME"
Nothing == [item |-> 0, pairs |-> {}, uses |-> {}]

(* The names of parameters, and the type of one.                            *)
Parameters(ps) == {ps[k].name : k \in DOMAIN ps}
ParameterType(ps, name) == ps[CHOOSE k \in DOMAIN ps : ps[k].name = name].type

Outcomes == {"compiling", "compiled", "rejected", "unreported", "aborted", "crashed"}

-----------------------------------------------------------------------------
(* Parser and type visitor *)

(* Room is kept for what ends the ifs.                                      *)
Room(ifs1) == Len(program) + Len(ifs1) <= MaxItems

(* rangeVisitor: a statement and a unary operator record no token at all,   *)
(* the if only its first.                                                   *)
HasRange[e \in Expressions] ==
  CASE e.op \in {"text", "number", "cast"} -> TRUE
    [] IsBinary(e) -> HasRange[e.left] \/ HasRange[e.right]
    [] OTHER -> FALSE

(* lastType against the type that the statement wants.                      *)
Wants(type, check, about) ==
  IF check.ends = "normally" /\ check.last # type THEN TypeError({about}) ELSE check

(* An accepted item; or main's catch clause, in which an absent first token *)
(* is one more exception, that nothing catches.                             *)
Checks(item, verdict, ifs1, names1, variables1, hint1) ==
  /\ phase = "check" /\ program # <<>> /\ Room(ifs1)
  /\ program' = Append(program, item)
  /\ CASE verdict.ends = "normally" ->
            /\ ifs' = ifs1 /\ names' = names1 /\ variables' = variables1
            /\ hint' = hint1
            /\ UNCHANGED <<phase, outcome>>
       [] OTHER ->
            /\ phase' = "done"
            /\ outcome' = CASE verdict.ends = "abort" -> "aborted"
                            [] ~(verdict.about \subseteq {e \in Expressions : HasRange[e]}) -> "unreported"
                            [] OTHER -> "rejected"
            /\ UNCHANGED checker
  /\ UNCHANGED generator

(* Which declarations the type visitor takes names for.                     *)
Uses(ns) == {<<n, Resolve(variables, n).at>> : n \in {m \in ns : Binders(variables, m) # {}}}

Here == Len(program) + 1
Declared(type) == [type |-> type, at |-> Here]

Stated(op) == {s \in Statements : s.op = op}
With(statement, uses) == Bind(statement, "uses", uses)

CheckFunction ==
  /\ program = <<>>
  /\ \E signature \in Signatures :
       LET ps == signature.parameters
       IN  /\ program' = <<Bind(signature, "op", "function")>>
           /\ names' = EnterScope(Append(names, [n \in Parameters(ps) |-> Visible]))
           /\ variables' = Append(variables, [n \in Parameters(ps) |-> Declared(ParameterType(ps, n))])
  /\ UNCHANGED <<ifs, hint, phase, outcome, generator>>

CheckDeclarationUnhinted ==
  \E s \in Stated("declare") :
    LET names1     == AddToScope(names, s.name, Visible)
        variables1 == AddToScope(variables, s.name, Declared(s.type))
        check      == IF s.value = <<>> THEN Visited(s.type, s.type, hint)
                      ELSE Check(s.value[1], hint, variables)
        uses       == IF s.value = <<>> THEN {} ELSE Uses(NamesIn(s.value[1]))
    IN  Checks(With(s, uses), Wants(s.type, check, s), ifs, names1, variables1, check.hint)

(* The variable is declared after its value is read and after it is typed.  *)
CheckDeclaration ==
  \E s \in Stated("declare") :
    LET names1     == AddToScope(names, s.name, Visible)
        variables1 == AddToScope(variables, s.name, Declared(s.type))
        check      == IF s.value = <<>> THEN Visited(s.type, s.type, hint)
                      ELSE Check(s.value[1], s.type, variables)
        uses       == IF s.value = <<>> THEN {} ELSE Uses(NamesIn(s.value[1]))
    IN  Checks(With(s, uses), Wants(s.type, check, s), ifs, names1, variables1, check.hint)

(* parseStatement takes a name for an assignment's if it is in scope.       *)
CheckAssignment ==
  \E s \in Stated("assign") :
    /\ Binders(names, s.name) # {}
    /\ LET type  == Resolve(variables, s.name).type
           check == Check(s.value[1], type, variables)
           uses  == Uses(NamesIn(s.value[1]) \cup {s.name})
       IN  Checks(With(s, uses), Wants(type, check, s), ifs, names, variables, check.hint)

CheckReturn ==
  \E s \in Stated("return") :
    LET check == Check(s.value[1], program[1].result, variables)
        item  == Bind(With(s, Uses(NamesIn(s.value[1]))), "type", check.type)
    IN  Checks(item, Wants(program[1].result, check, s.value[1]), ifs, names, variables, NoType)

(* The parser opens a scope for each branch, the type visitor none.         *)
CheckIf ==
  \E s \in Stated("if") :
    LET check == Check(s.value[1], Bool, variables)
    IN  Checks(With(s, Uses(NamesIn(s.value[1]))), Wants(Bool, check, s), <<"then">> \o ifs,
               EnterScope(names), variables, NoType)

Fine == Visited(NoType, NoType, hint)

CheckElse ==
  /\ ifs # <<>> /\ Head(ifs) = "then"
  /\ Checks([op |-> "else"], Fine, <<"else">> \o Tail(ifs), EnterScope(ExitScope(names)),
            variables, hint)

CheckFi ==
  /\ ifs # <<>>
  /\ Checks([op |-> "fi"], Fine, Tail(ifs), ExitScope(names), variables, hint)

CheckEnd ==
  /\ phase = "check" /\ program # <<>> /\ ifs = <<>>
  /\ program' = Append(program, [op |-> "end"])
  /\ names' = ExitScope(ExitScope(names)) /\ variables' = ExitScope(variables)
  /\ phase' = "generate"
  /\ UNCHANGED <<ifs, hint, outcome, generator>>

Walk ==
  \/ CheckFunction \/ CheckDeclaration \/ CheckAssignment \/ CheckReturn
  \/ CheckIf \/ CheckElse \/ CheckFi \/ CheckEnd

-----------------------------------------------------------------------------
(* Code generator: g holds currentType, the width of lastValue, and the     *)
(* pairs of widths that an instruction wants to be equal.                   *)

States == [current : Types \cup {NoType}, last : Nat, pairs : SUBSET (Nat \X Nat)]

LiteralWidth(type) == IF type = NoType THEN 32 ELSE Width(type)

Pairs(g, width, wanted) == [g EXCEPT !.pairs = @ \cup {<<width, wanted>>}]

(* CreateCast does nothing between equal widths.                            *)
CastFits(width, type) ==
  /\ width # Null
  /\ \/ width = Width(type)
     \/ IF type \in Signed THEN width < Width(type) ELSE width > Width(type)

(* A name without a slot is logged, and lastValue stays what it was.        *)
VisitText(e, g, scopes) ==
  IF Binders(scopes, e.name) = {} THEN g
  ELSE [g EXCEPT !.last = Width(Resolve(scopes, e.name).type)]

VisitCast(e, g) ==
  [(IF CastFits(g.last, e.type) THEN g ELSE Pairs(g, g.last, Width(e.type)))
     EXCEPT !.last = Width(e.type)]

(* A `not' is a comparison with the zero of its operand's type, a `minus' a *)
(* difference from it.                                                      *)
VisitUnary(e, g) ==
  [Pairs(g, g.last, g.last) EXCEPT !.last = IF e.op = "not" THEN 1 ELSE g.last]

IsLazy(e) == e.op = "logical" /\ e.lazy

VisitLogical(right) == [Pairs(right, right.last, 1) EXCEPT !.last = 1]

(* The switch has no case for `xor', which leaves a null pointer; in the    *)
(* variant it has none for comparisons either.                              *)
VisitBinaryArithmetic(e, left, right) ==
  IF e.op # "arithmetic" THEN [right EXCEPT !.last = Null]
  ELSE [Pairs(right, left.last, right.last) EXCEPT !.last = left.last]
VisitBinary(e, left, right) ==
  IF e.op = "logical" THEN [right EXCEPT !.last = Null]
  ELSE [Pairs(right, left.last, right.last)
          EXCEPT !.last = IF e.op = "comparison" THEN 1 ELSE left.last]

(* The visit of a node, where `visit' gives the visits of its operands.      *)
VisitNode(e, g, scopes, visit) ==
  CASE e.op = "number"  -> [g EXCEPT !.last = LiteralWidth(g.current)]
    [] e.op = "text"    -> VisitText(e, g, scopes)
    [] e.op = "cast"    -> VisitCast(e, visit[e.value][[g EXCEPT !.current = e.type]])
    [] IsUnary(e)       -> VisitUnary(e, visit[e.right][g])
    [] IsLazy(e)        ->
         LET left == visit[e.left][g]
         IN  VisitLogical(visit[e.right][Pairs(left, left.last, 1)])
    [] OTHER            ->
         LET left == visit[e.left][g]
         IN  VisitBinary(e, left, visit[e.right][left])

Visit(expression, state, scopes) ==
  LET visit[e \in Expressions] == [g \in States |-> VisitNode(e, g, scopes, visit)]
  IN  visit[expression][state]

Generator == [current |-> current, last |-> last, pairs |-> {}]

(* The slots that names are found at, none being 0.                         *)
Found(ns, scopes) ==
  {<<n, IF Binders(scopes, n) = {} THEN 0 ELSE Resolve(scopes, n).at>> : n \in ns}

Item == program[pc]
Visits(op) == phase = "generate" /\ Item.op = op

Generates(g, uses, slots1) ==
  /\ slots' = slots1 /\ current' = g.current /\ last' = g.last
  /\ emitted' = [item |-> pc, pairs |-> g.pairs, uses |-> uses]
  /\ pc' = pc + 1
  /\ UNCHANGED <<program, checker>>
  /\ IF Item.op = "end" THEN phase' = "done" /\ outcome' = "compiled"
     ELSE UNCHANGED <<phase, outcome>>

GenerateFunction ==
  /\ Visits("function")
  /\ LET ps == Item.parameters
     IN  Generates([Generator EXCEPT !.last = Null], {},
                   Append(slots, [n \in Parameters(ps) |-> [type |-> ParameterType(ps, n), at |-> pc]]))

(* The slot is there before the value is visited.                           *)
GenerateDeclaration ==
  /\ Visits("declare")
  /\ LET slots1 == AddToScope(slots, Item.name, [type |-> Item.type, at |-> pc])
         g == [Generator EXCEPT !.current = Item.type]
     IN  IF Item.value = <<>> THEN Generates(g, {}, slots1)
         ELSE LET v == Visit(Item.value[1], g, slots1)
              IN  Generates(Pairs(v, v.last, Width(Item.type)), Found(NamesIn(Item.value[1]), slots1), slots1)

GenerateAssignmentCurrent ==
  /\ Visits("assign")
  /\ LET v == Visit(Item.value[1], Generator, slots)
     IN  Generates(Pairs(v, v.last, Width(Resolve(slots, Item.name).type)),
                   Found(NamesIn(Item.value[1]) \cup {Item.name}, slots), slots)

GenerateAssignment ==
  /\ Visits("assign")
  /\ LET type == Resolve(slots, Item.name).type
     IN  IF Binders(slots, Item.name) = {}
         THEN Generates(Generator, Found({Item.name}, slots), slots)
         ELSE LET v == Visit(Item.value[1], [Generator EXCEPT !.current = type], slots)
              IN  Generates(Pairs(v, v.last, Width(type)),
                            Found(NamesIn(Item.value[1]) \cup {Item.name}, slots), slots)

GenerateReturn ==
  /\ Visits("return")
  /\ LET v == Visit(Item.value[1], [Generator EXCEPT !.current = Item.type], slots)
     IN  Generates(Pairs(v, v.last, Width(program[1].result)), Found(NamesIn(Item.value[1]), slots), slots)

GenerateIf ==
  /\ Visits("if")
  /\ LET v == Visit(Item.value[1], Generator, slots)
     IN  Generates(Pairs(v, v.last, 1), Found(NamesIn(Item.value[1]), slots), EnterScope(slots))

GenerateElseSameScope == Visits("else") /\ Generates(Generator, {}, slots)
GenerateElse == Visits("else") /\ Generates(Generator, {}, EnterScope(ExitScope(slots)))

LeaveScopeAtEnd ==
  (Visits("fi") \/ Visits("end")) /\
    Generates(Generator, {}, IF Item.op = "end" THEN ExitScope(slots) ELSE slots)

LeaveScope == (Visits("fi") \/ Visits("end")) /\ Generates(Generator, {}, ExitScope(slots))

(* A null pointer where the last item wanted a value is undefined behaviour: *)
(* the process may end, or go on.                                           *)
UsesNull == \E pair \in emitted.pairs : Null \in {pair[1], pair[2]}

Crash ==
  /\ phase = "generate" /\ UsesNull
  /\ phase' = "done" /\ outcome' = "crashed"
  /\ UNCHANGED <<program, checker, generator>>

Generate ==
  \/ GenerateFunction \/ GenerateDeclaration \/ GenerateAssignment \/ GenerateReturn
  \/ GenerateIf \/ GenerateElse \/ LeaveScope \/ Crash

-----------------------------------------------------------------------------
Init ==
  /\ program = <<>> /\ ifs = <<>> /\ phase = "check" /\ outcome = "compiling" /\ pc = 1
  /\ names = <<EmptyScope>> /\ variables = <<EmptyScope>> /\ slots = <<>>
  /\ hint = NoType /\ current = NoType /\ last = Null /\ emitted = Nothing

Done == phase = "done" /\ UNCHANGED vars

Next == Walk \/ Generate \/ Done

Spec == Init /\ [][Next]_vars

-----------------------------------------------------------------------------
(* What the walks should agree on *)

Declares(j, name) ==
  \/ program[j].op = "declare" /\ program[j].name = name
  \/ program[j].op = "function" /\ name \in Parameters(program[j].parameters)

(* The block that j is in is still open at i.                               *)
InScope(j, i) ==
  \A k \in j + 1 .. i : program[k].op \in {"else", "fi"} => Opened(j) # Opened(k - 1)

(* Lexical scoping: the last declaration before i whose block is open at i. *)
Meant(name, i) ==
  LET js == {j \in 1 .. i - 1 : Declares(j, name) /\ InScope(j, i)}
  IN  IF js = {} THEN 0 ELSE CHOOSE j \in js : \A k \in js : k <= j

TypeAt(name, j) ==
  IF j = 0 THEN NoType
  ELSE IF program[j].op = "declare" THEN program[j].type
  ELSE ParameterType(program[j].parameters, name)

HasValue(i) == program[i].op \in {"declare", "assign", "return", "if"} /\ program[i].value # <<>>

(* Every name is declared once, and used only in the scope of that.         *)
NamesDiffer ==
  /\ \A n \in Names : \A i, j \in DOMAIN program : Declares(i, n) /\ Declares(j, n) => i = j
  /\ \A i \in DOMAIN program : HasValue(i) =>
       \A n \in NamesIn(program[i].value[1]) : Meant(n, i) # 0

(* The type that the value of item i has to have.                           *)
Wanted(i) ==
  CASE program[i].op = "declare" -> program[i].type
    [] program[i].op = "assign"  -> TypeAt(program[i].name, Meant(program[i].name, i))
    [] program[i].op = "return"  -> program[1].result
    [] program[i].op = "if"      -> Bool

RightlyTyped(i) ==
  HasType(program[i].value[1], Wanted(i), [n \in Names |-> TypeAt(n, Meant(n, i))])

(* visitNodeUnaryOperator leaves the type of a `not` empty and the hint at  *)
(* "bool": an operator that has a `not` among its operands meets both.      *)
NotAsOperand(e) ==
  \E f \in Within[e] : (IsBinary(f) \/ f.op = "minus") /\ HasOp(f, "not")

(* Literals whose width currentType decides: not in a condition, nor below  *)
(* a comparison or a logical operator, nor in a `not' that is returned,     *)
(* whose type is empty.                                                     *)
LiteralsTyped(i) ==
  LET e == program[i].value[1]
  IN  /\ program[i].op = "if" => ~HasOp(e, "number")
      /\ program[i].op = "return" /\ e.op = "not" => ~HasOp(e, "number")
      /\ \A f \in Within[e] :
           f.op \in {"comparison", "logical"} => ~HasOp(f, "number")

UsesXor(i) == \E f \in Within[program[i].value[1]] : f.op = "logical" /\ ~f.lazy

(* What was generated last has a value without casts, and names in order.   *)
Uncast ==
  /\ NamesDiffer /\ emitted # Nothing /\ HasValue(emitted.item)
  /\ ~HasOp(program[emitted.item].value[1], "cast")

SameWidths == \A pair \in emitted.pairs : pair[1] = pair[2]

-----------------------------------------------------------------------------
(* Properties *)

TypeOK ==
  /\ Len(program) <= MaxItems + 2
  /\ Len(names) = (IF program = <<>> \/ pc > 1 \/ phase = "generate" THEN 1 ELSE 3 + Len(ifs))
  /\ Len(variables) = (IF Len(names) = 1 THEN 1 ELSE 2)
  /\ phase = "generate" => pc \in 1 .. Len(program) /\ Len(slots) <= pc
  /\ outcome = "compiled" => slots = <<>>
  /\ phase = "done" <=> outcome # "compiling"
  /\ outcome \in Outcomes /\ hint \in Hints
  /\ current \in Types \cup {NoType} /\ last \in Nat /\ emitted.pairs \subseteq Nat \X Nat

(* The slot that the code generator finds for a name is that of the         *)
(* declaration lexical scoping gives it, whatever is declared in the        *)
(* branches before: llvmVisitor::enterBlock and exitBlock around the two    *)
(* branches of visitNodeIf.  Only the value of a declaration, visited after *)
(* addVariable, sees the new variable for its own name.                     *)
GeneratorScopesLexically ==
  \A use \in emitted.uses :
    LET item == program[emitted.item]
    IN  use[2] = IF item.op = "declare" /\ item.name = use[1] THEN emitted.item
                 ELSE Meant(use[1], emitted.item)

(* As long as every name is declared once and used in its scope, what the   *)
(* type visitor accepts has the type that it has to have: neither a hint    *)
(* that was left behind (typeVisitor::hintType is never restored) nor       *)
(* lastType lets a wrong value through resolve_collision.                   *)
AcceptedHasType ==
  NamesDiffer =>
    \A i \in DOMAIN program :
      HasValue(i) /\ (i < Len(program) \/ outcome \in {"compiling", "compiled"}) =>
        RightlyTyped(i)

(* And nothing that has its type is rejected, nor does any lookup come to   *)
(* nothing: resolve_collision and the hints refuse only what is wrong,      *)
(* except for a `not` among the operands of another operator.               *)
HasTypeAccepted ==
  NamesDiffer =>
    /\ outcome # "aborted"
    /\ outcome \in {"rejected", "unreported"} =>
         \/ ~RightlyTyped(Len(program))
         \/ NotAsOperand(program[Len(program)].value[1])

(* The two operands of each instruction, and the value and the slot of each *)
(* store, have one width in what is generated from accepted statements: the *)
(* rules of the type visitor are enough for the code generator.  Literals   *)
(* below a comparison or a logical operator and values that are cast are    *)
(* left out, see LiteralsHaveWidth; a `xor' has no value to have a width.   *)
WidthsAgree ==
  Uncast /\ ~UsesXor(emitted.item) /\ LiteralsTyped(emitted.item) => SameWidths

(* A null pointer never gets into an instruction, casts and literals or not, *)
(* as long as no `xor' is written: lastValue, left by one visit and read by *)
(* another, is a value wherever the code generator reads it                 *)
(* (llvmVisitor::lastValue starts as a null pointer in each function, and a *)
(* name without a slot leaves it as it was).                                *)
NullNeedsXor ==
  NamesDiffer /\ UsesNull => HasValue(emitted.item) /\ UsesXor(emitted.item)

(* roadmap.md:86: `Errors in typing should result in a compilation error.'  *)
(* What is accepted has no literal, then, that the other operand cannot be  *)
(* compared with.  But an if sets no llvmVisitor::currentType, and a        *)
(* literal has 32 bits as long as no statement has set one.                 *)
LiteralsHaveWidth ==
  Uncast => SameWidths

(* The declaration that the type of a name is taken from is the one whose   *)
(* slot it is read from: typeVisitor::variables and                         *)
(* ContextProvider::variables agree on every name of an accepted statement. *)
SameDeclaration ==
  emitted # Nothing /\ HasValue(emitted.item) =>
    emitted.uses \subseteq program[emitted.item].uses
=============================================================================
