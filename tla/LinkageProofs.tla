--------------------------- MODULE LinkageProofs ---------------------------
(***************************************************************************)
(* The tables and the calls of Linkage, for every vocabulary and every     *)
(* length of the source.  Tables: the type invariant, that the overloads   *)
(* of a name differ, that the type visitor knows what the parser takes for *)
(* a function, and that the symbols it makes up are distinct.  Calls and   *)
(* pragmas: that calls are emitted where they are written, that they reach *)
(* the function chosen for them, that the search which chooses it is right *)
(* for one parameter, and that, without a prototype in a body, every       *)
(* pragma that the parser accepts finds its function.                      *)
(***************************************************************************)
EXTENDS Linkage, ScopeStackProofs, FiniteSetTheorems

-----------------------------------------------------------------------------
(* Stacks whose scopes bind keys of K to values of V *)

Scopes(K, V) == UNION {[D -> V] : D \in SUBSET K}

LEMMA ScopesElim ==
  ASSUME NEW K, NEW V, NEW s \in Scopes(K, V)
  PROVE  DOMAIN s \subseteq K /\ \A k \in DOMAIN s : s[k] \in V
<1>1. PICK D \in SUBSET K : s \in [D -> V]
  BY DEF Scopes
<1> QED BY <1>1

LEMMA ScopesIntro ==
  ASSUME NEW K, NEW V, NEW D \in SUBSET K, NEW s \in [D -> V]
  PROVE  s \in Scopes(K, V)
BY DEF Scopes

LEMMA ScopesMono ==
  ASSUME NEW K, NEW V, NEW L, NEW W, K \subseteq L, V \subseteq W
  PROVE  Scopes(K, V) \subseteq Scopes(L, W)
<1> SUFFICES ASSUME NEW s \in Scopes(K, V) PROVE s \in Scopes(L, W)
  OBVIOUS
<1>1. PICK D \in SUBSET K : s \in [D -> V]
  BY DEF Scopes
<1>2. D \in SUBSET L /\ s \in [D -> W]
  BY <1>1
<1> QED BY <1>2, ScopesIntro

LEMMA EmptyInScopes ==
  ASSUME NEW K, NEW V
  PROVE  EmptyScope \in Scopes(K, V)
<1>1. EmptyScope \in [{} -> V]
  BY DEF EmptyScope
<1> QED BY <1>1, ScopesIntro

LEMMA BindInScopes ==
  ASSUME NEW K, NEW V, NEW s \in Scopes(K, V), NEW key \in K, NEW value \in V
  PROVE  Bind(s, key, value) \in Scopes(K, V)
<1>1. DOMAIN s \subseteq K /\ \A k \in DOMAIN s : s[k] \in V
  BY ScopesElim
<1>2. Bind(s, key, value) \in [DOMAIN s \cup {key} -> V]
  BY <1>1 DEF Bind
<1> QED BY <1>1, <1>2, ScopesIntro

LEMMA StackMono ==
  ASSUME NEW K, NEW V, NEW L, NEW W, K \subseteq L, V \subseteq W,
         NEW stack \in Seq(Scopes(K, V))
  PROVE  stack \in Seq(Scopes(L, W))
BY ScopesMono, SeqMonotonic

LEMMA StackEnter ==
  ASSUME NEW K, NEW V, NEW stack \in Seq(Scopes(K, V))
  PROVE  /\ EnterScope(stack) \in Seq(Scopes(K, V))
         /\ Len(EnterScope(stack)) = Len(stack) + 1
         /\ \A i \in 1 .. Len(stack) : EnterScope(stack)[i] = stack[i]
         /\ EnterScope(stack)[Len(stack) + 1] = EmptyScope
BY EmptyInScopes, AppendProperties DEF EnterScope

LEMMA StackExit ==
  ASSUME NEW K, NEW V, NEW stack \in Seq(Scopes(K, V))
  PROVE  /\ ExitScope(stack) \in Seq(Scopes(K, V))
         /\ stack # <<>> => Len(ExitScope(stack)) = Len(stack) - 1
         /\ \A i \in 1 .. Len(stack) - 1 : ExitScope(stack)[i] = stack[i]
<1>1. Len(stack) \in Nat
  BY LenProperties
<1>2. CASE stack = <<>>
  <2>1. ExitScope(stack) = <<>>
    BY <1>2 DEF ExitScope
  <2> QED BY <1>2, <2>1
<1>3. CASE stack # <<>>
  <2>1. Len(stack) \in 1 .. Len(stack)
    BY <1>1, <1>3, EmptySeq
  <2>2. \A i \in 1 .. Len(stack) - 1 : stack[i] \in Scopes(K, V)
    BY <1>1, ElementOfSeq
  <2> DEFINE n == Len(stack) - 1
             rest == SubSeq(stack, 1, n)
  <2>3. n \in Nat
    BY <1>1, <2>1
  <2>4. ExitScope(stack) = rest
    BY DEF ExitScope
  <2> HIDE DEF n
  <2>5. \A i \in 1 .. n : stack[i] \in Scopes(K, V)
    BY <2>2 DEF n
  <2>6. /\ rest \in Seq(Scopes(K, V))
        /\ Len(rest) = IF 1 <= n THEN n - 1 + 1 ELSE 0
        /\ \A i \in 1 .. n - 1 + 1 : rest[i] = stack[1 + i - 1]
    BY ONLY <2>3, <2>5, SubSeqProperties
  <2> HIDE DEF rest
  <2>7. Len(rest) = n /\ \A i \in 1 .. n : rest[i] = stack[i]
    <3>1. n - 1 + 1 = n /\ \A i \in 1 .. n : 1 + i - 1 = i
      BY <2>3
    <3> QED BY <2>3, <2>6, <3>1
  <2> QED BY <1>3, <2>4, <2>6, <2>7 DEF n
<1> QED BY <1>2, <1>3

LEMMA StackAdd ==
  ASSUME NEW K, NEW V, NEW stack \in Seq(Scopes(K, V)), NEW key \in K, NEW value \in V
  PROVE  /\ AddToScope(stack, key, value) \in Seq(Scopes(K, V))
         /\ Len(AddToScope(stack, key, value)) = Len(stack)
<1> DEFINE added == AddToScope(stack, key, value)
           new == Bind(stack[Len(stack)], key, value)
<1>1. CASE stack = <<>>
  <2>1. added = <<>>
    BY <1>1 DEF AddToScope
  <2> QED BY <1>1, <2>1
<1>2. CASE stack # <<>>
  <2>1. Len(stack) \in 1 .. Len(stack)
    BY <1>2, EmptySeq, LenProperties
  <2>2. stack[Len(stack)] \in Scopes(K, V)
    BY <2>1, ElementOfSeq
  <2>3. new \in Scopes(K, V)
    BY <2>2, BindInScopes
  <2>4. added = [stack EXCEPT ![Len(stack)] = new]
    BY DEF AddToScope
  <2> HIDE DEF added, new
  <2>5. added \in Seq(Scopes(K, V)) /\ Len(added) = Len(stack)
    BY <2>1, <2>3, <2>4, ExceptSeq
  <2> QED BY <2>5 DEF added
<1> QED BY <1>1, <1>2

LEMMA ResolveOver ==
  ASSUME NEW K, NEW V, NEW stack \in Seq(Scopes(K, V)), NEW key
  PROVE  \/ Binders(stack, key) = {} /\ Resolve(stack, key) = Absent
         \/ Binders(stack, key) # {} /\ key \in K /\ Resolve(stack, key) \in V
<1>1. Len(stack) \in Nat
  BY LenProperties
<1>2. CASE Binders(stack, key) = {}
  BY <1>2 DEF Resolve
<1>3. CASE Binders(stack, key) # {}
  <2>1. PICK i \in Binders(stack, key) : Resolve(stack, key) = stack[i][key]
    BY <1>1, <1>3, ResolveType
  <2>2. i \in 1 .. Len(stack) /\ key \in DOMAIN stack[i]
    BY <2>1 DEF Binders
  <2>3. stack[i] \in Scopes(K, V)
    BY <2>2, ElementOfSeq
  <2> QED BY <1>3, <2>1, <2>2, <2>3, ScopesElim
<1> QED BY <1>2, <1>3

-----------------------------------------------------------------------------
(* Depths, with the program as a parameter *)

BodiesBefore(prog, n) == {j \in 1 .. n - 1 : HasBody(prog[j])}
EndsBefore(prog, n) == {j \in 1 .. n - 1 : prog[j].op = "end"}
DepthOf(prog, n) == Cardinality(BodiesBefore(prog, n)) - Cardinality(EndsBefore(prog, n))

DepthStep(item) == IF HasBody(item) THEN 1 ELSE IF item.op = "end" THEN -1 ELSE 0

LEMMA DepthIs == \A n : Depth(n) = DepthOf(program, n)
BY DEF Depth, DepthOf, BodiesBefore, EndsBefore

LEMMA BeforeFinite ==
  ASSUME NEW prog, NEW n \in Int
  PROVE  /\ IsFiniteSet(BodiesBefore(prog, n)) /\ IsFiniteSet(EndsBefore(prog, n))
         /\ Cardinality(BodiesBefore(prog, n)) \in Nat
         /\ Cardinality(EndsBefore(prog, n)) \in Nat
         /\ DepthOf(prog, n) \in Int
<1>1. IsFiniteSet(1 .. n - 1)
  BY FS_Interval
<1>2. BodiesBefore(prog, n) \subseteq 1 .. n - 1 /\ EndsBefore(prog, n) \subseteq 1 .. n - 1
  BY DEF BodiesBefore, EndsBefore
<1>3. IsFiniteSet(BodiesBefore(prog, n)) /\ IsFiniteSet(EndsBefore(prog, n))
  BY <1>1, <1>2, FS_Subset
<1> QED BY <1>3, FS_CardinalityType DEF DepthOf

LEMMA DepthFirst == ASSUME NEW prog PROVE DepthOf(prog, 1) = 0
<1>1. BodiesBefore(prog, 1) = {} /\ EndsBefore(prog, 1) = {}
  BY DEF BodiesBefore, EndsBefore
<1> QED BY <1>1, FS_EmptySet DEF DepthOf

LEMMA DepthNext ==
  ASSUME NEW prog, NEW n \in Nat \ {0}
  PROVE  DepthOf(prog, n + 1) = DepthOf(prog, n) + DepthStep(prog[n])
<1> DEFINE item == prog[n]
<1>1. n \in Int /\ n + 1 \in Int
  OBVIOUS
<1>2. n \notin BodiesBefore(prog, n) /\ n \notin EndsBefore(prog, n)
  BY DEF BodiesBefore, EndsBefore
<1>3. BodiesBefore(prog, n + 1) =
        IF HasBody(item) THEN BodiesBefore(prog, n) \cup {n} ELSE BodiesBefore(prog, n)
  BY DEF BodiesBefore
<1>4. EndsBefore(prog, n + 1) =
        IF item.op = "end" THEN EndsBefore(prog, n) \cup {n} ELSE EndsBefore(prog, n)
  BY DEF EndsBefore
<1>5. Cardinality(BodiesBefore(prog, n + 1)) =
        IF HasBody(item) THEN Cardinality(BodiesBefore(prog, n)) + 1
        ELSE Cardinality(BodiesBefore(prog, n))
  BY <1>1, <1>2, <1>3, BeforeFinite, FS_AddElement
<1>6. Cardinality(EndsBefore(prog, n + 1)) =
        IF item.op = "end" THEN Cardinality(EndsBefore(prog, n)) + 1
        ELSE Cardinality(EndsBefore(prog, n))
  BY <1>1, <1>2, <1>4, BeforeFinite, FS_AddElement
<1>7. HasBody(item) => item.op # "end"
  BY DEF HasBody
<1> HIDE DEF item
<1>8. /\ Cardinality(BodiesBefore(prog, n)) \in Nat
      /\ Cardinality(EndsBefore(prog, n)) \in Nat
  BY <1>1, BeforeFinite
<1>9. DepthOf(prog, n + 1) = DepthOf(prog, n) + DepthStep(item)
  BY <1>5, <1>6, <1>7, <1>8 DEF DepthStep, DepthOf
<1> QED BY <1>9 DEF item

(* A depth is the business of the nodes before it only. *)
LEMMA DepthStable ==
  ASSUME NEW p, NEW q, NEW n \in Nat, \A j \in 1 .. n - 1 : p[j] = q[j]
  PROVE  DepthOf(p, n) = DepthOf(q, n)
<1>1. BodiesBefore(p, n) = BodiesBefore(q, n) /\ EndsBefore(p, n) = EndsBefore(q, n)
  BY DEF BodiesBefore, EndsBefore
<1> QED BY <1>1 DEF DepthOf

-----------------------------------------------------------------------------
(* The inductive invariant *)

(* The bodies that are open at the end of what was read. *)
Opened == DepthOf(program, Len(program) + 1)

(* The source and the place of the walks in it.                             *)
SourceOK ==
  /\ program \in Seq(Items)
  /\ phase \in Phases /\ outcome \in Outcomes /\ error \in BOOLEAN
  /\ Opened \in Nat /\ Len(program) + Opened <= MaxItems
  /\ unit \in 1 .. Len(program) + 1 /\ pc \in 1 .. Len(program) + 1
  /\ DepthOf(program, unit) = 0
  /\ IF phase = "parse" THEN Opened = 0 <=> unit = Len(program) + 1 ELSE Opened = 0
  /\ phase = "done" <=> outcome # "compiling"
  /\ phase = "codegen" \/ outcome = "compiled" => ~error /\ unit = Len(program) + 1

(* The names in the parser's scopes are those of functions read before, and *)
(* so is every name that was taken for a function.                          *)
Declared == {program[f].name : f \in FunctionNodes}

TakesFunction(item) == item.op = "call" \/ (item.op = "pragma" /\ item.isFunction)

Takers == {i \in Nodes : TakesFunction(program[i])}

NamesOK ==
  /\ scopes \in Seq(Scopes(Declared, {"FUNCTION_NAME"}))
  /\ \A i \in Takers :
       \E f \in FunctionNodes : f < i /\ program[f].name = program[i].name

(* What comes before has been seen by the type visitor. *)
Typed == IF phase = "type" THEN pc ELSE IF phase \in {"parse", "pragma"} THEN unit ELSE Len(program) + 1

(* An entry of the table of functions: what its overloads are, that they    *)
(* are in the order of the source, and that they differ.                    *)
EntryOK(entry, name, prog, known, bound) ==
  /\ entry \in [result : Results \cup {Absent}, overloads : Seq(Nat)]
  /\ \A k \in DOMAIN entry.overloads :
       LET f == entry.overloads[k]
       IN  /\ f \in 1 .. Len(prog) /\ prog[f].op = "function"
           /\ k <= f /\ f < bound /\ f \in known
           /\ prog[f].name = name /\ prog[f].result = entry.result
  /\ \A j, k \in DOMAIN entry.overloads :
       j # k => prog[entry.overloads[j]].parameters # prog[entry.overloads[k]].parameters

(* The pragma visitor's scopes. *)
ContextOK == pragmaContext \in Seq(Scopes(Names, FunctionNodes))

SymbolOK ==
  /\ DOMAIN symbol \subseteq FunctionNodes \cup CallNodes
  /\ \A i \in DOMAIN symbol : symbol[i] \in AllSymbols

(* The table of functions. *)
TableOK ==
  /\ DOMAIN functions \subseteq Names
  /\ \A name \in DOMAIN functions :
       /\ EntryOK(functions[name], name, program, DOMAIN symbol, Typed)
       /\ ~error => functions[name].result \in Results

(* What the walks keep of single nodes. *)
NodesOK ==
  /\ currentFunction \in Names \cup {Absent}
  /\ DOMAIN chosen \subseteq CallNodes
  /\ \A call \in DOMAIN chosen : chosen[call] \in FunctionNodes
  /\ \A name \in DOMAIN module : module[name] \in FunctionNodes
  /\ insert \in FunctionNodes \cup {NoNode}

TablesOK == ContextOK /\ SymbolOK /\ TableOK /\ NodesOK

(* Until an error, every function that the type visitor came past is an     *)
(* overload of its name, and every entry has one.                           *)
KnownOK ==
  phase \in {"parse", "pragma", "type"} /\ ~error =>
    /\ \A f \in FunctionNodes : f < Typed => Registered(f)
    /\ \A name \in DOMAIN functions : Overloads(name) # <<>>

(* Until an error, every function and call that the type visitor came past  *)
(* has a symbol.                                                            *)
NamedOK ==
  phase # "done" /\ ~error =>
    \A i \in FunctionNodes \cup CallNodes : i < Typed => i \in DOMAIN symbol

(* Without pragmas a symbol is what visitNodeFunction made of the name.     *)
GivenOK ==
  PragmaNodes = {} =>
    /\ \A i \in DOMAIN symbol : i < Typed
    /\ \A name \in DOMAIN functions : \A k \in DOMAIN Overloads(name) :
         symbol[Overloads(name)[k]] = GivenSymbol(name, k - 1)

-----------------------------------------------------------------------------
(* What a step does to the source and to the place of the walks *)

ReadStep == ParseFunction \/ EndFunction \/ ParseCall \/ ParsePragma
VisitStep == PragmaStep \/ TypeStep \/ CodegenStep

(* A step that reads appends one item and changes the depth by it.          *)
LEMMA ReadShape ==
  ASSUME SourceOK, ReadStep
  PROVE  \E item \in Items :
           /\ Reads(item, Opened + DepthStep(item)) /\ Opened + DepthStep(item) \in Nat
           /\ TakesFunction(item) => item.name \in Visible
           /\ item.op \in {"call", "pragma"} => UNCHANGED scopes
           /\ item.op = "end" => scopes' = ExitScope(ExitScope(scopes))
           /\ item.op = "function" =>
                LET named == AddToScope(scopes, item.name, "FUNCTION_NAME")
                IN  scopes' = IF item.body THEN EnterScope(EnterScope(named))
                              ELSE EnterScope(named)
<1> DEFINE Shape(item) ==
      /\ Reads(item, Opened + DepthStep(item)) /\ Opened + DepthStep(item) \in Nat
      /\ TakesFunction(item) => item.name \in Visible
      /\ item.op \in {"call", "pragma"} => UNCHANGED scopes
      /\ item.op = "end" => scopes' = ExitScope(ExitScope(scopes))
      /\ item.op = "function" =>
           LET named == AddToScope(scopes, item.name, "FUNCTION_NAME")
           IN  scopes' = IF item.body THEN EnterScope(EnterScope(named)) ELSE EnterScope(named)
<1> SUFFICES \E item \in Items : Shape(item)
  OBVIOUS
<1>1. Opened \in Nat /\ Here = Opened
  BY DepthIs DEF SourceOK, Here, Opened
<1>2. CASE ParseFunction
  <2>1. PICK name \in Names, s \in Signatures, body \in BOOLEAN :
          LET named == AddToScope(scopes, name, "FUNCTION_NAME")
          IN  /\ Reads([op |-> "function", name |-> name, parameters |-> s.parameters,
                        result |-> s.result, body |-> body],
                       IF body THEN Here + 1 ELSE Here)
              /\ scopes' = IF body THEN EnterScope(EnterScope(named)) ELSE EnterScope(named)
    BY <1>2 DEF ParseFunction
  <2> DEFINE item == [op |-> "function", name |-> name, parameters |-> s.parameters,
                      result |-> s.result, body |-> body]
  <2>2. item \in Items
    <3>1. s.parameters \in Parameters /\ s.result \in Results
      BY DEF Parameters, Results
    <3> QED BY <3>1 DEF Items
  <2>3. Opened + DepthStep(item) = IF body THEN Here + 1 ELSE Here
    BY <1>1 DEF DepthStep, HasBody
  <2>4. Shape(item)
    BY <1>1, <2>1, <2>3 DEF TakesFunction
  <2> QED BY <2>2, <2>4
<1>3. CASE EndFunction
  <2> DEFINE item == [op |-> "end"]
  <2>1. item \in Items
    BY DEF Items
  <2>2. Opened + DepthStep(item) = Here - 1 /\ Here > 0
    BY <1>1, <1>3 DEF DepthStep, HasBody, EndFunction
  <2>3. Shape(item)
    BY <1>1, <1>3, <2>2 DEF EndFunction, TakesFunction
  <2> QED BY <2>1, <2>3
<1>4. CASE ParseCall
  <2>1. PICK name \in Visible, arguments \in Arguments, into \in Uses :
          Reads([op |-> "call", name |-> name, arguments |-> arguments, into |-> into], Here)
    BY <1>4 DEF ParseCall
  <2> DEFINE item == [op |-> "call", name |-> name, arguments |-> arguments, into |-> into]
  <2>2. item \in Items
    BY DEF Items, Visible
  <2>3. Opened + DepthStep(item) = Here
    BY <1>1 DEF DepthStep, HasBody
  <2>4. Shape(item)
    BY <1>1, <1>4, <2>1, <2>3 DEF ParseCall
  <2> QED BY <2>2, <2>4
<1>5. CASE ParsePragma
  <2>1. PICK target \in Names, type \in PragmaTypes, value \in Symbols :
          Reads([op |-> "pragma", name |-> target, isFunction |-> target \in Visible,
                 type |-> type, value |-> value], Here)
    BY <1>5 DEF ParsePragma
  <2> DEFINE item == [op |-> "pragma", name |-> target, isFunction |-> target \in Visible,
                      type |-> type, value |-> value]
  <2>2. item \in Items
    BY DEF Items
  <2>3. Opened + DepthStep(item) = Here
    BY <1>1 DEF DepthStep, HasBody
  <2>4. Shape(item)
    BY <1>1, <1>5, <2>1, <2>3 DEF ParsePragma, TakesFunction
  <2> QED BY <2>2, <2>4
<1> QED BY <1>2, <1>3, <1>4, <1>5 DEF ReadStep

(* The program after a step that reads. *)
LEMMA Grows ==
  ASSUME SourceOK, NEW item \in Items, NEW d, Reads(item, d)
  PROVE  /\ program' \in Seq(Items)
         /\ Len(program) \in Nat /\ Len(program') = Len(program) + 1
         /\ \A i \in 1 .. Len(program) : program'[i] = program[i]
         /\ program'[Len(program) + 1] = item
         /\ \A n \in 1 .. Len(program) + 1 : DepthOf(program', n) = DepthOf(program, n)
<1>1. program \in Seq(Items) /\ program' = Append(program, item)
  BY DEF SourceOK, Reads
<1>2. /\ program' \in Seq(Items)
      /\ Len(program) \in Nat /\ Len(program') = Len(program) + 1
      /\ \A i \in 1 .. Len(program) : program'[i] = program[i]
      /\ program'[Len(program) + 1] = item
  BY <1>1, AppendProperties, LenProperties
<1>3. ASSUME NEW n \in 1 .. Len(program) + 1 PROVE DepthOf(program', n) = DepthOf(program, n)
  <2>1. n \in Nat /\ \A j \in 1 .. n - 1 : program'[j] = program[j]
    BY <1>2
  <2> QED BY <2>1, DepthStable
<1> QED BY <1>2, <1>3

(* Every other step but EndWalk and the end of the source stays, moves on,  *)
(* gives the block up or ends the process.                                  *)
LEMMA VisitShape ==
  ASSUME SourceOK, VisitStep
  PROVE  /\ UNCHANGED source /\ unit' = unit
         /\ phase \in {"pragma", "type", "codegen"}
         /\ \/ pc \in 1 .. Len(program) /\ GoOn /\ UNCHANGED error
            \/ phase = "type" /\ pc \in 1 .. Len(program) /\ TypeError
            \/ \E how \in Outcomes \ {"compiling", "compiled"} : Stop(how) /\ error' \in {error, TRUE}
            \/ phase = "codegen" /\ Stop("compiled") /\ UNCHANGED error
<1> DEFINE Ended == Stop("exited") \/ Stop("aborted") \/ Stop("crashed")
<1>1. pc \in 1 .. Len(program) + 1 /\ Len(program) \in Nat
  BY LenProperties DEF SourceOK
<1>2. Ended => \E how \in Outcomes \ {"compiling", "compiled"} : Stop(how)
  <2>1. {"exited", "aborted", "crashed"} \subseteq Outcomes \ {"compiling", "compiled"}
    BY DEF Outcomes
  <2> QED BY <2>1
<1>3. /\ GoOn \/ TypeError \/ Ended \/ Stop("compiled") => unit' = unit
      /\ phase \in {"pragma", "type", "codegen"} /\ pc <= Len(program) => pc \in 1 .. Len(program)
  BY <1>1 DEF GoOn, TypeError, Stop
<1>4. CASE PragmaStep
  <2>1. /\ UNCHANGED <<source, error>> /\ phase = "pragma" /\ pc <= Len(program)
        /\ GoOn \/ Stop("exited")
    BY <1>4 DEF PragmaStep, PragmaFunction, PragmaEnd, PragmaCall, VisitPragma, Visits, checked
  <2> QED BY <1>2, <1>3, <2>1
<1>5. CASE TypeFunction
  <2>1. /\ UNCHANGED source /\ phase = "type" /\ pc <= Len(program)
        /\ TypeError \/ ((GoOn \/ Stop("aborted")) /\ UNCHANGED error)
    BY <1>5 DEF TypeFunction, Visits
  <2> QED BY <1>2, <1>3, <2>1
<1>6. CASE TypeEnd \/ TypePragma
  <2>1. UNCHANGED <<source, error>> /\ phase = "type" /\ pc <= Len(program) /\ GoOn
    BY <1>6 DEF TypeEnd, TypePragma, Visits, checked
  <2> QED BY <1>3, <2>1
<1>7. CASE TypeCall
  <2>1. /\ UNCHANGED source /\ phase = "type" /\ pc <= Len(program)
        /\ \/ TypeError
           \/ GoOn /\ UNCHANGED error
           \/ (Stop("aborted") \/ Stop("crashed")) /\ error' \in {error, TRUE}
    BY <1>7 DEF TypeCall, Visits
  <2> QED BY <1>2, <1>3, <2>1
<1>8. CASE CodegenStep
  <2>1. /\ UNCHANGED <<source, error>> /\ phase = "codegen"
        /\ (pc <= Len(program) /\ (GoOn \/ Stop("crashed"))) \/ Stop("compiled")
    BY <1>8 DEF CodegenStep, GenerateFunction, GenerateNothing, GenerateCall, EndOfCode, Visits,
                checked
  <2> QED BY <1>2, <1>3, <2>1
<1> QED BY <1>4, <1>5, <1>6, <1>7, <1>8 DEF VisitStep, TypeStep

LEMMA StepCases ==
  ASSUME [Next]_vars
  PROVE  ReadStep \/ EndOfSource \/ VisitStep \/ EndWalk \/ UNCHANGED vars
BY DEF Next, ParseStep, ReadStep, VisitStep, Finished

-----------------------------------------------------------------------------
(* The source *)

LEMMA SourceInit == Init => SourceOK
<1> SUFFICES ASSUME Init PROVE SourceOK
  OBVIOUS
<1>1. program = <<>> /\ Len(program) = 0
  BY EmptySeq DEF Init
<1>2. program \in Seq(Items)
  BY <1>1, EmptySeq
<1>3. Opened = 0 /\ DepthOf(program, unit) = 0
  BY <1>1, DepthFirst DEF Init, Opened
<1>4. phase = "parse" /\ outcome = "compiling" /\ error = FALSE /\ unit = 1 /\ pc = 1
  BY DEF Init
<1>5. phase \in Phases /\ outcome \in Outcomes /\ error \in BOOLEAN
  BY <1>4 DEF Phases, Outcomes
<1>6. Opened \in Nat /\ Len(program) + Opened <= MaxItems
  BY <1>1, <1>3, LinkageAssumption
<1>7. unit \in 1 .. Len(program) + 1 /\ pc \in 1 .. Len(program) + 1
  BY <1>1, <1>4
<1> QED BY <1>1, <1>2, <1>3, <1>4, <1>5, <1>6, <1>7 DEF SourceOK

(* How deep the end of the source is after a step that reads. *)
LEMMA OpensBy ==
  ASSUME SourceOK, NEW item \in Items, NEW d, Reads(item, d)
  PROVE  Opened' = Opened + DepthStep(item)
<1> DEFINE n == Len(program)
<1>1. /\ n \in Nat /\ Len(program') = n + 1 /\ program'[n + 1] = item
      /\ DepthOf(program', n + 1) = DepthOf(program, n + 1)
  BY Grows, n + 1 \in 1 .. n + 1
<1>2. n + 1 \in Nat \ {0}
  BY <1>1
<1> HIDE DEF n
<1>3. DepthOf(program', n + 1 + 1) = DepthOf(program', n + 1) + DepthStep(program'[n + 1])
  BY <1>2, DepthNext
<1> QED BY <1>1, <1>3 DEF Opened, n

LEMMA SourceRead ==
  ASSUME SourceOK, ReadStep
  PROVE  SourceOK'
<1>1. PICK item \in Items :
        Reads(item, Opened + DepthStep(item)) /\ Opened + DepthStep(item) \in Nat
  BY ReadShape
<1> DEFINE n == Len(program)
           d == Opened + DepthStep(item)
<1>2. /\ program' \in Seq(Items)
      /\ n \in Nat /\ Len(program') = n + 1
      /\ \A m \in 1 .. n + 1 : DepthOf(program', m) = DepthOf(program, m)
  BY <1>1, Grows
<1>3. Opened' = d /\ d \in Nat
  BY <1>1, OpensBy
<1>4. unit \in 1 .. n + 1 /\ unit' = unit /\ DepthOf(program', unit) = 0
  BY <1>1, <1>2 DEF SourceOK, Reads
<1> HIDE DEF n, d
<1>5. phase = "parse" /\ n + 1 + d <= MaxItems
  BY <1>1 DEF Reads, n, d
<1>6. CASE d = 0
  <2>1. phase' = "pragma" /\ pc' = unit
    BY <1>1, <1>6 DEF Reads, Following, d
  <2>2. unit \in 1 .. n + 2 /\ n + 1 <= MaxItems
    BY <1>2, <1>4, <1>5, <1>6
  <2>3. /\ outcome \in Outcomes /\ error \in BOOLEAN
        /\ outcome = "compiling" /\ UNCHANGED <<outcome, error, unit>>
    BY <1>1, <1>5 DEF SourceOK, Reads, checked
  <2>4. Opened' = 0 /\ DepthOf(program', unit') = 0
    BY <1>1, <1>3, <1>4, <1>6
  <2>5. Len(program') + 0 <= MaxItems /\ unit' \in 1 .. Len(program') + 1
    BY <1>2, <2>2, <2>3
  <2> QED BY <1>2, <2>1, <2>2, <2>3, <2>4, <2>5 DEF SourceOK, Phases
<1>7. CASE d # 0
  <2>1. phase' = "parse" /\ pc' = pc
    BY <1>1, <1>5, <1>7 DEF Reads, d
  <2>2. unit # n + 2
    BY <1>2, <1>4
  <2> QED BY <1>1, <1>2, <1>3, <1>4, <1>5, <1>7, <2>1, <2>2 DEF SourceOK, Reads, checked, Phases, n
<1> QED BY <1>6, <1>7

LEMMA SourceOther ==
  ASSUME SourceOK, EndOfSource \/ VisitStep \/ EndWalk \/ UNCHANGED vars
  PROVE  SourceOK'
<1> USE DEF Opened
<1>0. Len(program) \in Nat
  BY LenProperties DEF SourceOK
<1>1. CASE EndOfSource
  <2>1. Opened = 0
    BY <1>1, DepthIs DEF EndOfSource, Here
  <2> QED BY <1>0, <1>1, <2>1 DEF EndOfSource, SourceOK, source, checked, Phases, Outcomes
<1>2. CASE VisitStep
  <2>1. /\ UNCHANGED source /\ unit' = unit
        /\ phase \in {"pragma", "type", "codegen"}
        /\ \/ pc \in 1 .. Len(program) /\ GoOn /\ UNCHANGED error
           \/ phase = "type" /\ pc \in 1 .. Len(program) /\ TypeError
           \/ \E how \in Outcomes \ {"compiling", "compiled"} : Stop(how) /\ error' \in {error, TRUE}
           \/ phase = "codegen" /\ Stop("compiled") /\ UNCHANGED error
    BY <1>2, VisitShape
  <2>2. CASE pc \in 1 .. Len(program) /\ GoOn /\ UNCHANGED error
    BY <1>0, <2>1, <2>2 DEF SourceOK, GoOn, source
  <2>3. CASE phase = "type" /\ pc \in 1 .. Len(program) /\ TypeError
    BY <1>0, <2>1, <2>3 DEF SourceOK, TypeError, source
  <2>4. CASE \E how \in Outcomes \ {"compiling", "compiled"} : Stop(how) /\ error' \in {error, TRUE}
    BY <1>0, <2>1, <2>4 DEF SourceOK, Stop, source, Phases
  <2>5. CASE phase = "codegen" /\ Stop("compiled") /\ UNCHANGED error
    BY <1>0, <2>1, <2>5 DEF SourceOK, Stop, source, Phases, Outcomes
  <2> QED BY <2>1, <2>2, <2>3, <2>4, <2>5
<1>3. CASE EndWalk
  <2>1. UNCHANGED <<source, error, outcome>> /\ phase' = Following[phase] /\ phase \in {"pragma", "type"}
    BY <1>3 DEF EndWalk, checked
  <2>2. \/ phase = "pragma" /\ phase' = "type" /\ unit' = unit /\ pc' = unit
        \/ phase = "type" /\ phase' = "parse" /\ unit' = Len(program) + 1 /\ pc' = Len(program) + 1
    BY <1>3, <2>1 DEF EndWalk, Following
  <2> QED BY <1>0, <2>1, <2>2 DEF SourceOK, source, Phases
<1>4. CASE UNCHANGED vars
  BY <1>4 DEF vars, source, walk, checked, SourceOK
<1> QED BY <1>1, <1>2, <1>3, <1>4

LEMMA SourceStep == SourceOK /\ [Next]_vars => SourceOK'
BY SourceRead, SourceOther, StepCases

-----------------------------------------------------------------------------
(* The names *)

LEMMA NamesInit == Init => NamesOK
<1> SUFFICES ASSUME Init PROVE NamesOK
  OBVIOUS
<1>1. program = <<>> /\ Len(program) = 0 /\ scopes = <<EmptyScope>>
  BY EmptySeq DEF Init
<1>2. EmptyScope \in Scopes(Declared, {"FUNCTION_NAME"})
  BY EmptyInScopes
<1>3. scopes \in Seq(Scopes(Declared, {"FUNCTION_NAME"}))
  BY <1>1, <1>2
<1> QED BY <1>1, <1>3 DEF NamesOK, Takers, Nodes

LEMMA VisibleDeclared ==
  ASSUME NamesOK, NEW name \in Visible
  PROVE  name \in Declared
BY ResolveOver DEF NamesOK, Visible

LEMMA NamesRead ==
  ASSUME SourceOK, NamesOK, ReadStep
  PROVE  NamesOK'
<1>1. PICK item \in Items :
        /\ Reads(item, Opened + DepthStep(item))
        /\ TakesFunction(item) => item.name \in Visible
        /\ item.op \in {"call", "pragma"} => UNCHANGED scopes
        /\ item.op = "end" => scopes' = ExitScope(ExitScope(scopes))
        /\ item.op = "function" =>
             LET named == AddToScope(scopes, item.name, "FUNCTION_NAME")
             IN  scopes' = IF item.body THEN EnterScope(EnterScope(named)) ELSE EnterScope(named)
  BY ReadShape
<1> DEFINE n == Len(program)
           V == {"FUNCTION_NAME"}
<1>2. /\ n \in Nat /\ Len(program') = n + 1
      /\ \A i \in 1 .. n : program'[i] = program[i]
      /\ program'[n + 1] = item
  BY <1>1, Grows
<1>3. Declared \subseteq Declared' /\ (item.op = "function" => item.name \in Declared')
  <2> HIDE DEF n
  <2> QED BY <1>2 DEF Declared, FunctionNodes, Nodes, n
<1>4. scopes \in Seq(Scopes(Declared, V))
  BY DEF NamesOK
<1>5. scopes \in Seq(Scopes(Declared', V))
  BY <1>3, <1>4, StackMono
<1>6. scopes' \in Seq(Scopes(Declared', V))
  <2>1. item.op \in {"call", "pragma", "end", "function"}
    BY DEF Items
  <2>2. CASE item.op \in {"call", "pragma"}
    BY <1>1, <1>5, <2>2
  <2>3. CASE item.op = "end"
    <3>1. ExitScope(scopes) \in Seq(Scopes(Declared', V))
      BY <1>5, StackExit
    <3>2. ExitScope(ExitScope(scopes)) \in Seq(Scopes(Declared', V))
      BY <3>1, StackExit
    <3> QED BY <1>1, <2>3, <3>2
  <2>4. CASE item.op = "function"
    <3> DEFINE named == AddToScope(scopes, item.name, "FUNCTION_NAME")
    <3>1. named \in Seq(Scopes(Declared', V))
      BY <1>3, <1>5, <2>4, StackAdd
    <3>2. EnterScope(named) \in Seq(Scopes(Declared', V))
      BY <3>1, StackEnter
    <3>3. EnterScope(EnterScope(named)) \in Seq(Scopes(Declared', V))
      BY <3>2, StackEnter
    <3> QED BY <1>1, <2>4, <3>2, <3>3
  <2> QED BY <2>1, <2>2, <2>3, <2>4
<1>7. ASSUME NEW i \in Takers'
      PROVE  \E f \in FunctionNodes' : f < i /\ program'[f].name = program'[i].name
  <2>1. i \in 1 .. n + 1 /\ TakesFunction(program'[i])
    BY <1>2 DEF Takers, Nodes, TakesFunction
  <2>2. CASE i \in 1 .. n
    <3>1. i \in Takers
      BY <1>2, <2>1, <2>2 DEF Takers, Nodes
    <3>2. PICK f \in FunctionNodes : f < i /\ program[f].name = program[i].name
      BY <3>1 DEF NamesOK
    <3>3. f \in 1 .. n /\ f \in FunctionNodes'
      BY <1>2, <3>2 DEF FunctionNodes, Nodes
    <3> QED BY <1>2, <2>2, <3>2, <3>3
  <2>3. CASE i = n + 1
    <3>1. TakesFunction(item)
      BY <1>2, <2>1, <2>3
    <3>2. item.name \in Declared
      BY <1>1, <3>1, VisibleDeclared
    <3>3. PICK f \in FunctionNodes : program[f].name = item.name
      BY <3>2 DEF Declared
    <3>4. f \in 1 .. n /\ f \in FunctionNodes'
      BY <1>2, <3>3 DEF FunctionNodes, Nodes
    <3> QED BY <1>2, <2>3, <3>3, <3>4
  <2> QED BY <1>2, <2>1, <2>2, <2>3
<1> QED BY <1>6, <1>7 DEF NamesOK

LEMMA NamesStep == SourceOK /\ NamesOK /\ [Next]_vars => NamesOK'
<1> SUFFICES ASSUME SourceOK, NamesOK, [Next]_vars PROVE NamesOK'
  OBVIOUS
<1>1. CASE ReadStep
  BY <1>1, NamesRead
<1>2. CASE UNCHANGED source
  BY <1>2 DEF NamesOK, source, Declared, FunctionNodes, Takers, TakesFunction, Nodes
<1>3. CASE EndOfSource \/ EndWalk \/ UNCHANGED vars
  BY <1>2, <1>3 DEF EndOfSource, EndWalk, vars
<1>4. CASE VisitStep
  BY <1>2, <1>4, VisitShape
<1> QED BY <1>1, <1>3, <1>4, StepCases

-----------------------------------------------------------------------------
(* Entries of the table *)

LEMMA EntryStays ==
  ASSUME NEW entry, NEW name, NEW p, NEW q, NEW known, NEW more,
         NEW b \in Int, NEW c \in Int, b <= c, known \subseteq more,
         Len(p) \in Nat, Len(q) \in Nat, Len(p) <= Len(q), \A i \in 1 .. Len(p) : q[i] = p[i],
         EntryOK(entry, name, p, known, b)
  PROVE  EntryOK(entry, name, q, more, c)
<1> DEFINE o == entry.overloads
<1>1. entry \in [result : Results \cup {Absent}, overloads : Seq(Nat)]
  BY DEF EntryOK
<1>2. ASSUME NEW k \in DOMAIN o
      PROVE  /\ o[k] \in 1 .. Len(p) /\ p[o[k]].op = "function"
             /\ k <= o[k] /\ o[k] < b /\ o[k] \in known
             /\ p[o[k]].name = name /\ p[o[k]].result = entry.result
  BY DEF EntryOK
<1>3. \A k \in DOMAIN o : o[k] \in 1 .. Len(q) /\ q[o[k]] = p[o[k]] /\ o[k] < c
  BY <1>2
<1>4. \A j, k \in DOMAIN o : j # k => p[o[j]].parameters # p[o[k]].parameters
  BY DEF EntryOK
<1> HIDE DEF o
<1>5. \A j, k \in DOMAIN o : j # k => q[o[j]].parameters # q[o[k]].parameters
  BY <1>3, <1>4
<1> QED BY <1>1, <1>2, <1>3, <1>5 DEF EntryOK, o

LEMMA EntryEmpty ==
  ASSUME NEW name, NEW p, NEW known, NEW b, NEW result \in Results \cup {Absent}
  PROVE  EntryOK([result |-> result, overloads |-> <<>>], name, p, known, b)
<1>1. <<>> \in Seq(Nat) /\ DOMAIN <<>> = {}
  BY EmptySeq
<1> QED BY <1>1 DEF EntryOK

LEMMA EntryLength ==
  ASSUME NEW entry, NEW name, NEW p, NEW known, NEW f \in Nat \ {0},
         Len(p) \in Nat, EntryOK(entry, name, p, known, f)
  PROVE  /\ Len(entry.overloads) \in Nat
         /\ DOMAIN entry.overloads = 1 .. Len(entry.overloads)
         /\ Len(entry.overloads) + 1 <= f
<1> DEFINE o == entry.overloads
<1>1. o \in Seq(Nat)
  BY DEF EntryOK
<1>2. Len(o) \in Nat /\ DOMAIN o = 1 .. Len(o)
  BY <1>1, LenProperties
<1>3. \A k \in DOMAIN o : k <= o[k] /\ o[k] < f /\ o[k] \in 1 .. Len(p)
  BY DEF EntryOK
<1> HIDE DEF o
<1>4. CASE Len(o) = 0
  BY <1>2, <1>4 DEF o
<1>5. CASE Len(o) # 0
  <2>1. Len(o) \in DOMAIN o
    BY <1>2, <1>5
  <2>2. Len(o) <= o[Len(o)] /\ o[Len(o)] < f /\ o[Len(o)] \in Nat
    BY <1>3, <2>1
  <2> QED BY <1>2, <2>2 DEF o
<1> QED BY <1>2, <1>4, <1>5 DEF o

LEMMA EntryExcept ==
  ASSUME NEW A, NEW B, NEW entry \in [result : A, overloads : B], NEW o
  PROVE  [entry EXCEPT !.overloads = o] = [result |-> entry.result, overloads |-> o]
OBVIOUS

LEMMA EntryAdd ==
  ASSUME NEW entry, NEW name, NEW p, NEW known, NEW f \in 1 .. Len(p), Len(p) \in Nat,
         EntryOK(entry, name, p, known, f), f \in known,
         p[f].op = "function", p[f].name = name, p[f].result = entry.result,
         \A k \in DOMAIN entry.overloads : p[entry.overloads[k]].parameters # p[f].parameters
  PROVE  /\ EntryOK([entry EXCEPT !.overloads = Append(@, f)], name, p, known, f + 1)
         /\ [entry EXCEPT !.overloads = Append(@, f)].result = entry.result
<1> DEFINE o == entry.overloads
           n == Len(o)
           new == Append(o, f)
           result == entry.result
<1>1. o \in Seq(Nat) /\ entry \in [result : Results \cup {Absent}, overloads : Seq(Nat)]
  BY DEF EntryOK
<1>2. n \in Nat /\ DOMAIN o = 1 .. n /\ n + 1 <= f
  BY EntryLength
<1>3. /\ new \in Seq(Nat) /\ Len(new) = n + 1
      /\ \A k \in 1 .. n : new[k] = o[k]
      /\ new[n + 1] = f
  BY <1>1, AppendProperties
<1>4. DOMAIN new = 1 .. n + 1
  BY <1>3, LenProperties
<1>5. \A k \in 1 .. n :
        /\ o[k] \in 1 .. Len(p) /\ p[o[k]].op = "function"
        /\ k <= o[k] /\ o[k] < f /\ o[k] \in known
        /\ p[o[k]].name = name /\ p[o[k]].result = result
        /\ p[o[k]].parameters # p[f].parameters
  BY <1>2 DEF EntryOK
<1>6. \A j, k \in 1 .. n : j # k => p[o[j]].parameters # p[o[k]].parameters
  BY <1>2 DEF EntryOK
<1>7. [entry EXCEPT !.overloads = Append(@, f)] = [result |-> result, overloads |-> new]
  BY <1>1, EntryExcept
<1>8. result \in Results \cup {Absent} /\ p[f].result = result
  BY <1>1
<1> HIDE DEF o, n, new, result
<1>9. \A k \in 1 .. n + 1 :
        /\ new[k] \in 1 .. Len(p) /\ p[new[k]].op = "function"
        /\ k <= new[k] /\ new[k] < f + 1 /\ new[k] \in known
        /\ p[new[k]].name = name /\ p[new[k]].result = result
  <2> SUFFICES ASSUME NEW k \in 1 .. n + 1
               PROVE  /\ new[k] \in 1 .. Len(p) /\ p[new[k]].op = "function"
                      /\ k <= new[k] /\ new[k] < f + 1 /\ new[k] \in known
                      /\ p[new[k]].name = name /\ p[new[k]].result = result
    OBVIOUS
  <2>1. CASE k = n + 1
    BY <1>2, <1>3, <1>8, <2>1
  <2>2. CASE k # n + 1
    <3>1. k \in 1 .. n
      BY <1>2, <2>2
    <3> QED BY <1>3, <1>5, <3>1
  <2> QED BY <2>1, <2>2
<1>10. ASSUME NEW j \in 1 .. n + 1, NEW k \in 1 .. n + 1, j # k
       PROVE  p[new[j]].parameters # p[new[k]].parameters
  <2>1. CASE j = n + 1
    <3>1. k \in 1 .. n
      BY <1>2, <1>10, <2>1
    <3> QED BY <1>3, <1>5, <2>1, <3>1
  <2>2. CASE k = n + 1
    <3>1. j \in 1 .. n
      BY <1>2, <1>10, <2>2
    <3> QED BY <1>3, <1>5, <2>2, <3>1
  <2>3. CASE j # n + 1 /\ k # n + 1
    <3>1. j \in 1 .. n /\ k \in 1 .. n
      BY <1>2, <2>3
    <3> QED BY <1>3, <1>6, <1>10, <3>1
  <2> QED BY <2>1, <2>2, <2>3
<1> DEFINE e == [result |-> result, overloads |-> new]
<1>11. e \in [result : Results \cup {Absent}, overloads : Seq(Nat)]
  BY <1>3, <1>8
<1>12. e.overloads = new /\ e.result = result
  OBVIOUS
<1> HIDE DEF e
<1>13. EntryOK(e, name, p, known, f + 1)
  BY <1>4, <1>9, <1>10, <1>11, <1>12 DEF EntryOK
<1> QED BY <1>7, <1>12, <1>13 DEF e, result

(* The type visitor only goes on. *)
LEMMA TypedGrows ==
  ASSUME SourceOK, [Next]_vars
  PROVE  Typed \in Nat /\ Typed' \in Nat /\ Typed <= Typed'
<1>0. SourceOK'
  BY SourceStep
<1>1. /\ Len(program) \in Nat /\ Len(program') \in Nat
      /\ unit \in 1 .. Len(program) + 1 /\ pc \in 1 .. Len(program) + 1
      /\ unit' \in 1 .. Len(program') + 1 /\ pc' \in 1 .. Len(program') + 1
      /\ phase \in Phases
  <2>1. Len(program) \in Nat
    BY LenProperties DEF SourceOK
  <2>2. Len(program') \in Nat
    BY <1>0, LenProperties DEF SourceOK
  <2> QED BY <1>0, <2>1, <2>2 DEF SourceOK
<1>2. CASE ReadStep
  <2>1. PICK item \in Items : Reads(item, Opened + DepthStep(item))
    BY <1>2, ReadShape
  <2>2. phase = "parse" /\ phase' \in {"parse", "pragma"} /\ unit' = unit
    BY <2>1 DEF Reads, Following
  <2> QED BY <1>1, <2>2 DEF Typed
<1>3. CASE EndOfSource
  <2>1. phase = "parse" /\ phase' \in {"done", "codegen"} /\ program' = program
    BY <1>3 DEF EndOfSource, source
  <2> QED BY <1>1, <2>1 DEF Typed
<1>4. CASE VisitStep
  <2>1. /\ program' = program /\ unit' = unit
        /\ phase \in {"pragma", "type", "codegen"}
        /\ \/ phase' = phase /\ pc' = pc + 1
           \/ phase' = phase /\ phase = "type" /\ pc' = Len(program) + 1
           \/ phase' = "done"
    BY <1>4, VisitShape DEF source, GoOn, Stop, TypeError
  <2> QED BY <1>1, <2>1 DEF Typed
<1>5. CASE EndWalk
  <2>1. /\ program' = program /\ pc = Len(program) + 1
        /\ \/ phase = "pragma" /\ phase' = "type" /\ unit' = unit /\ pc' = unit
           \/ phase = "type" /\ phase' = "parse" /\ unit' = Len(program) + 1
    BY <1>5 DEF EndWalk, Following, source
  <2> QED BY <1>1, <2>1 DEF Typed
<1>6. CASE UNCHANGED vars
  BY <1>1, <1>6 DEF vars, source, walk, Typed
<1> QED BY <1>2, <1>3, <1>4, <1>5, <1>6, StepCases

(* A program that grows keeps its nodes. *)
LEMMA NodesGrow ==
  ASSUME SourceOK, [Next]_vars
  PROVE  /\ Len(program) \in Nat /\ Len(program') \in Nat /\ Len(program) <= Len(program')
         /\ \A i \in 1 .. Len(program) : program'[i] = program[i]
         /\ FunctionNodes \subseteq FunctionNodes' /\ CallNodes \subseteq CallNodes'
         /\ PragmaNodes \subseteq PragmaNodes'
         /\ FunctionNodes' \cap 1 .. Len(program) = FunctionNodes
         /\ CallNodes' \cap 1 .. Len(program) = CallNodes
         /\ PragmaNodes' \cap 1 .. Len(program) = PragmaNodes
<1>1. Len(program) \in Nat
  BY LenProperties DEF SourceOK
<1>2. CASE ReadStep
  <2>1. PICK item \in Items : Reads(item, Opened + DepthStep(item))
    BY <1>2, ReadShape
  <2>2. /\ Len(program') = Len(program) + 1
        /\ \A i \in 1 .. Len(program) : program'[i] = program[i]
    BY <2>1, Grows
  <2> QED BY <1>1, <2>2 DEF FunctionNodes, CallNodes, PragmaNodes, Nodes
<1>3. CASE UNCHANGED source
  BY <1>1, <1>3 DEF source, FunctionNodes, CallNodes, PragmaNodes, Nodes
<1>4. CASE EndOfSource \/ EndWalk \/ UNCHANGED vars
  BY <1>3, <1>4 DEF EndOfSource, EndWalk, vars
<1>5. CASE VisitStep
  BY <1>3, <1>5, VisitShape
<1> QED BY <1>2, <1>4, <1>5, StepCases

-----------------------------------------------------------------------------
(* The tables *)

LEMMA TablesInit == Init => TablesOK
<1> SUFFICES ASSUME Init PROVE TablesOK
  OBVIOUS
<1>1. EmptyScope \in Scopes(Names, FunctionNodes)
  BY EmptyInScopes
<1>2. pragmaContext \in Seq(Scopes(Names, FunctionNodes))
  BY <1>1 DEF Init
<1>3. DOMAIN EmptyScope = {}
  BY DEF EmptyScope
<1>4. DOMAIN symbol = {} /\ DOMAIN functions = {} /\ DOMAIN chosen = {} /\ DOMAIN module = {}
  BY <1>3 DEF Init
<1>5. currentFunction = Absent /\ insert = NoNode
  BY DEF Init
<1> QED BY <1>2, <1>4, <1>5 DEF TablesOK, ContextOK, SymbolOK, TableOK, NodesOK

(* What a step does not write stays as it has to be. *)
LEMMA ContextStays ==
  ASSUME SourceOK, TablesOK, [Next]_vars, UNCHANGED pragmaContext
  PROVE  ContextOK'
BY NodesGrow, StackMono DEF ContextOK, TablesOK

LEMMA SymbolStays ==
  ASSUME SourceOK, TablesOK, [Next]_vars, UNCHANGED symbol
  PROVE  SymbolOK'
BY NodesGrow DEF SymbolOK, TablesOK, AllSymbols

LEMMA TableStays ==
  ASSUME SourceOK, TablesOK, [Next]_vars, UNCHANGED functions, error => error',
         DOMAIN symbol \subseteq DOMAIN symbol'
  PROVE  TableOK'
<1>1. /\ Len(program) \in Nat /\ Len(program') \in Nat /\ Len(program) <= Len(program')
      /\ \A i \in 1 .. Len(program) : program'[i] = program[i]
      /\ Typed \in Int /\ Typed' \in Int /\ Typed <= Typed'
  BY NodesGrow, TypedGrows
<1>2. \A name \in DOMAIN functions :
        EntryOK(functions[name], name, program', DOMAIN symbol', Typed')
  BY <1>1, EntryStays DEF TablesOK, TableOK
<1> QED BY <1>2 DEF TablesOK, TableOK

LEMMA NodesStay ==
  ASSUME SourceOK, TablesOK, [Next]_vars
  PROVE  /\ UNCHANGED currentFunction => (currentFunction \in Names \cup {Absent})'
         /\ UNCHANGED chosen =>
              (DOMAIN chosen \subseteq CallNodes /\ \A call \in DOMAIN chosen : chosen[call] \in FunctionNodes)'
         /\ UNCHANGED module => (\A name \in DOMAIN module : module[name] \in FunctionNodes)'
         /\ UNCHANGED insert => (insert \in FunctionNodes \cup {NoNode})'
BY NodesGrow DEF TablesOK, NodesOK

LEMMA TablesUnwritten ==
  ASSUME SourceOK, TablesOK, [Next]_vars, UNCHANGED <<symbol, pragmaContext, checked, generated>>
  PROVE  TablesOK'
BY ContextStays, SymbolStays, TableStays, NodesStay DEF checked, generated, TablesOK, NodesOK

(* The node that is visited. *)
LEMMA NodeVisited ==
  ASSUME SourceOK, NEW walker, NEW op, Visits(walker, op)
  PROVE  /\ pc \in 1 .. Len(program) /\ Node \in Items /\ Node = program[pc] /\ Node.op = op
         /\ Len(program) \in Nat /\ Len(program) <= MaxItems
<1>1. Len(program) \in Nat /\ Len(program) <= MaxItems
  BY LenProperties, LinkageAssumption DEF SourceOK
<1>2. pc \in 1 .. Len(program)
  BY <1>1 DEF SourceOK, Visits
<1>3. Node \in Items
  BY <1>2, ElementOfSeq DEF SourceOK, Node
<1> QED BY <1>1, <1>2, <1>3 DEF Visits, Node

LEMMA FunctionVisited ==
  ASSUME SourceOK, NEW walker, Visits(walker, "function")
  PROVE  /\ pc \in FunctionNodes /\ Node.name \in Names /\ Node.body \in BOOLEAN
         /\ Node.result \in Results /\ Node.parameters \in Parameters
<1>1. pc \in 1 .. Len(program) /\ Node \in Items /\ Node = program[pc] /\ Node.op = "function"
  BY NodeVisited
<1>2. Node \in [op : {"function"}, name : Names, parameters : Parameters, result : Results,
                body : BOOLEAN]
  BY <1>1 DEF Items
<1> QED BY <1>1, <1>2 DEF FunctionNodes, Nodes

LEMMA CallVisited ==
  ASSUME SourceOK, NEW walker, Visits(walker, "call")
  PROVE  /\ pc \in CallNodes /\ pc \notin FunctionNodes
         /\ Node.name \in Names /\ Node.arguments \in Arguments /\ Node.into \in Uses
<1>1. pc \in 1 .. Len(program) /\ Node \in Items /\ Node = program[pc] /\ Node.op = "call"
  BY NodeVisited
<1>2. Node \in [op : {"call"}, name : Names, arguments : Arguments, into : Uses]
  BY <1>1 DEF Items
<1> QED BY <1>1, <1>2 DEF CallNodes, FunctionNodes, Nodes

LEMMA TablesPragma ==
  ASSUME SourceOK, TablesOK, [Next]_vars, PragmaStep
  PROVE  TablesOK'
<1>1. CASE PragmaFunction
  <2>1. /\ UNCHANGED <<source, symbol, checked, generated>>
        /\ LET inside == EnterScope(AddToScope(pragmaContext, Node.name, pc))
           IN  pragmaContext' = IF Node.body THEN inside ELSE ExitScope(inside)
    BY <1>1 DEF PragmaFunction, Declare
  <2>2. pc \in FunctionNodes /\ Node.name \in Names
    BY <1>1, FunctionVisited DEF PragmaFunction
  <2> DEFINE S == Seq(Scopes(Names, FunctionNodes))
             named == AddToScope(pragmaContext, Node.name, pc)
  <2>3. named \in S
    BY <2>2, StackAdd DEF TablesOK, ContextOK
  <2>4. EnterScope(named) \in S
    BY <2>3, StackEnter
  <2>5. ExitScope(EnterScope(named)) \in S
    BY <2>4, StackExit
  <2>6. pragmaContext' \in S
    BY <2>1, <2>4, <2>5
  <2>7. ContextOK'
    BY <2>1, <2>6 DEF ContextOK, source, FunctionNodes, Nodes
  <2> QED BY <2>1, <2>7, SymbolStays, TableStays, NodesStay
          DEF checked, generated, TablesOK, NodesOK
<1>2. CASE PragmaEnd
  <2>1. UNCHANGED <<source, symbol, checked, generated>> /\ pragmaContext' = ExitScope(pragmaContext)
    BY <1>2 DEF PragmaEnd
  <2>2. pragmaContext' \in Seq(Scopes(Names, FunctionNodes))
    BY <2>1, StackExit DEF TablesOK, ContextOK
  <2>3. ContextOK'
    BY <2>1, <2>2 DEF ContextOK, source, FunctionNodes, Nodes
  <2> QED BY <2>1, <2>3, SymbolStays, TableStays, NodesStay
          DEF checked, generated, TablesOK, NodesOK
<1>3. CASE PragmaCall
  BY <1>3, TablesUnwritten DEF PragmaCall
<1>4. CASE VisitPragma
  <2>1. UNCHANGED <<source, pragmaContext, checked, generated>>
    BY <1>4 DEF VisitPragma
  <2>2. CASE UNCHANGED symbol
    BY <2>1, <2>2, TablesUnwritten
  <2>3. CASE /\ Binders(pragmaContext, Node.name) # {}
             /\ symbol' = Bind(symbol, Resolve(pragmaContext, Node.name), Node.value)
    <3> DEFINE target == Resolve(pragmaContext, Node.name)
    <3>1. target \in FunctionNodes
      BY <2>3, ResolveOver DEF TablesOK, ContextOK
    <3>2. Node.value \in Symbols
      <4>1. Node \in Items /\ Node.op = "pragma"
        BY <1>4, NodeVisited DEF VisitPragma
      <4> QED BY <4>1 DEF Items
    <3>3. /\ DOMAIN symbol' = DOMAIN symbol \cup {target}
          /\ \A i \in DOMAIN symbol' : symbol'[i] = IF i = target THEN Node.value ELSE symbol[i]
      BY <2>3 DEF Bind
    <3>4. Node.value \in AllSymbols
      BY <3>2 DEF AllSymbols
    <3>5. /\ DOMAIN symbol' \subseteq FunctionNodes \cup CallNodes
          /\ \A i \in DOMAIN symbol' : symbol'[i] \in AllSymbols
      BY <3>1, <3>3, <3>4 DEF TablesOK, SymbolOK
    <3>6. SymbolOK'
      BY <2>1, <3>5 DEF SymbolOK, source, FunctionNodes, CallNodes, Nodes, AllSymbols
    <3> QED BY <2>1, <3>3, <3>6, ContextStays, TableStays, NodesStay
            DEF checked, generated, TablesOK, NodesOK
  <2> QED BY <1>4, <2>2, <2>3 DEF VisitPragma
<1> QED BY <1>1, <1>2, <1>3, <1>4 DEF PragmaStep

LEMMA TablesCodegen ==
  ASSUME SourceOK, TablesOK, [Next]_vars, CodegenStep
  PROVE  TablesOK'
<1>1. CASE GenerateFunction
  <2>1. UNCHANGED <<source, symbol, pragmaContext, checked>>
    BY <1>1 DEF GenerateFunction
  <2>2. pc \in FunctionNodes
    BY <1>1, FunctionVisited DEF GenerateFunction
  <2>3. \A name \in DOMAIN module' : module'[name] \in FunctionNodes
    <3>1. module' = module \/ module' = Bind(module, symbol[pc], pc)
      BY <1>1 DEF GenerateFunction, CreateFunction
    <3> QED BY <2>2, <3>1 DEF Bind, TablesOK, NodesOK
  <2>4. insert' \in FunctionNodes \cup {NoNode}
    BY <1>1, <2>2 DEF GenerateFunction, SetInsertPoint, TablesOK, NodesOK
  <2>5. FunctionNodes' = FunctionNodes
    BY <2>1 DEF source, FunctionNodes, Nodes
  <2> QED BY <2>1, <2>3, <2>4, <2>5, ContextStays, SymbolStays, TableStays, NodesStay
          DEF checked, TablesOK, NodesOK
<1>2. CASE GenerateNothing \/ EndOfCode
  BY <1>2, TablesUnwritten DEF GenerateNothing, EndOfCode
<1>3. CASE GenerateCall
  <2>1. UNCHANGED <<source, symbol, pragmaContext, checked, module, insert>>
    BY <1>3 DEF GenerateCall
  <2> QED BY <2>1, ContextStays, SymbolStays, TableStays, NodesStay DEF checked, TablesOK, NodesOK
<1> QED BY <1>1, <1>2, <1>3 DEF CodegenStep

(* The symbol that visitNodeFunction makes up for the next overload.        *)
LEMMA GivenInSymbols ==
  ASSUME NEW name \in Names, NEW count \in 0 .. MaxItems
  PROVE  GivenSymbol(name, count) \in AllSymbols
BY LinkageAssumption DEF GivenSymbol, AllSymbols

(* A table whose entries are right is right after the step. *)
LEMMA TableAfter ==
  ASSUME SourceOK, [Next]_vars, UNCHANGED source,
         error => error', DOMAIN symbol \subseteq DOMAIN symbol',
         DOMAIN functions' \subseteq Names,
         \A n \in DOMAIN functions' :
           /\ EntryOK(functions'[n], n, program, DOMAIN symbol', Typed')
           /\ ~error' => functions'[n].result \in Results
  PROVE  TableOK'
BY DEF TableOK, source

LEMMA TablesTypeFunction ==
  ASSUME SourceOK, TablesOK, [Next]_vars, TypeFunction
  PROVE  TablesOK'
<1> DEFINE name == Node.name
           table == IF name \in DOMAIN functions THEN functions
                    ELSE Bind(functions, name, [result |-> Node.result, overloads |-> <<>>])
           overloads == table[name].overloads
           added == [table EXCEPT ![name].overloads = Append(@, pc)]
<1>1. /\ phase = "type" /\ UNCHANGED <<source, pragmaContext, chosen, generated>>
      /\ Visits("type", "function")
  BY DEF TypeFunction, Visits
<1>2. /\ pc \in FunctionNodes /\ pc \in 1 .. Len(program)
      /\ name \in Names /\ Node.result \in Results /\ Node.body \in BOOLEAN
      /\ Node = program[pc] /\ Node.op = "function"
      /\ Len(program) \in Nat /\ Len(program) <= MaxItems
  BY <1>1, FunctionVisited, NodeVisited
<1>3. Typed = pc /\ Typed' \in Int /\ pc + 1 <= Typed'
  <2>1. Typed = pc
    BY <1>1 DEF Typed
  <2>2. phase' = "done" \/ (phase' = "type" /\ pc' \in {pc + 1, Len(program) + 1})
    <3>1. TypeError \/ GoOn \/ \E how \in Outcomes : Stop(how)
      BY DEF TypeFunction, Outcomes
    <3> QED BY <1>1, <3>1 DEF Stop, TypeError, GoOn
  <2> QED BY <1>1, <1>2, <2>1, <2>2 DEF Typed, source
<1>4. /\ DOMAIN table = DOMAIN functions \cup {name}
      /\ \A n \in DOMAIN table :
           /\ EntryOK(table[n], n, program, DOMAIN symbol, pc)
           /\ ~error => table[n].result \in Results
  <2>1. /\ DOMAIN functions \subseteq Names
        /\ \A n \in DOMAIN functions :
             /\ EntryOK(functions[n], n, program, DOMAIN symbol, pc)
             /\ ~error => functions[n].result \in Results
    BY <1>3 DEF TablesOK, TableOK
  <2>2. CASE name \in DOMAIN functions
    BY <2>1, <2>2
  <2>3. CASE name \notin DOMAIN functions
    <3> DEFINE new == [result |-> Node.result, overloads |-> <<>>]
    <3>1. /\ DOMAIN table = DOMAIN functions \cup {name}
          /\ \A n \in DOMAIN table : table[n] = IF n = name THEN new ELSE functions[n]
      BY <2>3 DEF Bind
    <3>2. EntryOK(new, name, program, DOMAIN symbol, pc)
      BY <1>2, EntryEmpty
    <3>3. new.result \in Results
      BY <1>2
    <3> HIDE DEF new, table
    <3> QED BY <2>1, <3>1, <3>2, <3>3
  <2> QED BY <2>2, <2>3
<1>5. DOMAIN table \subseteq Names
  BY <1>2, <1>4 DEF TablesOK, TableOK
<1>6. Len(overloads) \in 0 .. MaxItems
  <2>1. EntryOK(table[name], name, program, DOMAIN symbol, pc)
    BY <1>4
  <2> HIDE DEF table
  <2>2. pc \in Nat \ {0}
    BY <1>2
  <2>3. Len(overloads) \in Nat /\ Len(overloads) + 1 <= pc
    BY <1>2, <2>1, <2>2, EntryLength
  <2> QED BY <1>2, <2>3, LinkageAssumption
<1>7. /\ symbol' = symbol \/ symbol' = Bind(symbol, pc, GivenSymbol(name, Len(overloads)))
      /\ functions' = table \/ functions' = added
      /\ error => error'
      /\ currentFunction' \in {currentFunction, name, Absent}
  BY DEF TypeFunction, AddOverload, TypeError
<1>8. functions' = added =>
        /\ symbol' = IF pc \in DOMAIN symbol THEN symbol
                     ELSE Bind(symbol, pc, GivenSymbol(name, Len(overloads)))
        /\ table[name].result = Node.result
        /\ ~HasOverload(overloads, Node.parameters)
    \/ functions' = table
  BY DEF TypeFunction, AddOverload, TypeError
<1> HIDE DEF table, overloads
<1>9. DOMAIN symbol \subseteq DOMAIN symbol' /\ SymbolOK'
  <2>1. GivenSymbol(name, Len(overloads)) \in AllSymbols
    BY <1>2, <1>6, GivenInSymbols
  <2>2. CASE symbol' = symbol
    BY <2>2, SymbolStays
  <2>3. CASE symbol' = Bind(symbol, pc, GivenSymbol(name, Len(overloads)))
    <3>1. /\ DOMAIN symbol' = DOMAIN symbol \cup {pc}
          /\ \A i \in DOMAIN symbol' : symbol'[i] \in AllSymbols
      BY <2>1, <2>3 DEF Bind, TablesOK, SymbolOK
    <3>2. DOMAIN symbol' \subseteq FunctionNodes \cup CallNodes
      BY <1>2, <3>1 DEF TablesOK, SymbolOK
    <3> QED BY <1>1, <3>1, <3>2 DEF SymbolOK, source, FunctionNodes, CallNodes, Nodes, AllSymbols
  <2> QED BY <1>7, <2>2, <2>3
<1>10. TableOK'
  <2>1. CASE functions' = table
    <3>1. \A n \in DOMAIN table : EntryOK(table[n], n, program, DOMAIN symbol', Typed')
      BY <1>2, <1>3, <1>4, <1>9, EntryStays
    <3> QED BY <1>1, <1>4, <1>5, <1>7, <1>9, <2>1, <3>1, TableAfter
  <2>2. CASE functions' # table
    <3>1. /\ functions' = added
          /\ symbol' = IF pc \in DOMAIN symbol THEN symbol
                       ELSE Bind(symbol, pc, GivenSymbol(name, Len(overloads)))
          /\ table[name].result = Node.result
          /\ ~HasOverload(overloads, Node.parameters)
      BY <1>7, <1>8, <2>2
    <3>2. pc \in DOMAIN symbol'
      BY <3>1 DEF Bind
    <3>3. /\ DOMAIN added = DOMAIN table
          /\ \A n \in DOMAIN table :
               added[n] = IF n = name THEN [table[name] EXCEPT !.overloads = Append(@, pc)]
                          ELSE table[n]
      OBVIOUS
    <3> DEFINE entry == [table[name] EXCEPT !.overloads = Append(@, pc)]
    <3>4. EntryOK(table[name], name, program, DOMAIN symbol', pc)
      BY <1>2, <1>4, <1>9, EntryStays
    <3>5. \A k \in DOMAIN overloads : program[overloads[k]].parameters # program[pc].parameters
      BY <1>2, <3>1 DEF HasOverload
    <3>6. EntryOK(entry, name, program, DOMAIN symbol', pc + 1) /\ entry.result = table[name].result
      <4>1. program[pc].op = "function" /\ program[pc].name = name /\ program[pc].result = table[name].result
        BY <1>2, <3>1
      <4>2. \A k \in DOMAIN table[name].overloads :
              program[table[name].overloads[k]].parameters # program[pc].parameters
        BY <3>5 DEF overloads
      <4> DEFINE old == table[name]
                 known == DOMAIN symbol'
      <4>3. EntryOK(old, name, program, known, pc) /\ pc \in known /\ program[pc].result = old.result
        BY <3>2, <3>4, <4>1
      <4>4. \A k \in DOMAIN old.overloads :
              program[old.overloads[k]].parameters # program[pc].parameters
        BY <4>2
      <4> HIDE DEF old, known, name
      <4>5. /\ EntryOK([old EXCEPT !.overloads = Append(@, pc)], name, program, known, pc + 1)
            /\ [old EXCEPT !.overloads = Append(@, pc)].result = old.result
        BY <1>2, <4>1, <4>3, <4>4, EntryAdd
      <4> QED BY <4>5 DEF old, known, name
    <3> HIDE DEF entry, added
    <3>7. EntryOK(entry, name, program, DOMAIN symbol', Typed')
      BY <1>2, <1>3, <3>6, EntryStays
    <3>8. \A n \in DOMAIN table : n # name => EntryOK(table[n], n, program, DOMAIN symbol', Typed')
      BY <1>2, <1>3, <1>4, <1>9, EntryStays
    <3>9. \A n \in DOMAIN added :
            /\ EntryOK(added[n], n, program, DOMAIN symbol', Typed')
            /\ ~error' => added[n].result \in Results
      BY <1>4, <1>7, <3>3, <3>6, <3>7, <3>8 DEF entry
    <3> QED BY <1>1, <1>5, <1>7, <1>9, <3>1, <3>3, <3>9, TableAfter
  <2> QED BY <2>1, <2>2
<1>11. ContextOK'
  BY <1>1, ContextStays
<1>12. NodesOK'
  BY <1>1, <1>2, <1>7, NodesStay DEF generated, NodesOK, TablesOK
<1> QED BY <1>9, <1>10, <1>11, <1>12 DEF TablesOK

(* What a call does: it is refused, or an overload of its name is chosen.   *)
CallTable == IF Node.name \in DOMAIN functions THEN functions
             ELSE Bind(functions, Node.name, NoFunction)

LEMMA CallShape ==
  ASSUME TypeCall
  PROVE  /\ phase = "type" /\ Visits("type", "call")
         /\ UNCHANGED <<source, pragmaContext, currentFunction, generated>>
         /\ error => error'
         /\ \/ UNCHANGED functions
            \/ functions' = CallTable
         /\ \/ UNCHANGED <<symbol, chosen>> /\ (TypeError \/ Stop("aborted") \/ Stop("crashed"))
            \/ /\ Node.name \in DOMAIN functions /\ UNCHANGED functions
               /\ \E k \in DOMAIN Overloads(Node.name) :
                    /\ Accepts(program[Overloads(Node.name)[k]].parameters, Node.arguments)
                    /\ chosen' = Bind(chosen, pc, Overloads(Node.name)[k])
                    /\ symbol' = Bind(symbol, pc, symbol[Overloads(Node.name)[k]])
                    /\ GoOn \/ TypeError \/ Stop("aborted")
         /\ Node.name \notin DOMAIN functions => UNCHANGED functions \/ error'
<1> DEFINE overloads == CallTable[Node.name].overloads
           candidates == Candidates(overloads, Node.arguments)
<1>1. /\ phase = "type" /\ Visits("type", "call")
      /\ UNCHANGED <<source, pragmaContext, currentFunction, generated>>
  BY DEF TypeCall, Visits
<1>2. \/ Stop("aborted") /\ UNCHANGED <<functions, error, symbol, chosen>>
      \/ /\ functions' = CallTable
         /\ \/ candidates = {} /\ TypeError /\ UNCHANGED <<symbol, chosen>>
            \/ \E k \in candidates :
                 IF OutOfRange(program[overloads[k]].parameters, Node.arguments)
                 THEN Stop("crashed") /\ UNCHANGED <<error, symbol, chosen>>
                 ELSE /\ chosen' = Bind(chosen, pc, overloads[k])
                      /\ symbol' = Bind(symbol, pc, KeptSymbol(overloads[k]))
                      /\ \/ GoOn /\ UNCHANGED error
                         \/ TypeError
                         \/ error' = TRUE /\ Stop("aborted")
  BY DEF TypeCall, CallTable
<1>3. Node.name \notin DOMAIN functions => candidates = {}
  <2> SUFFICES ASSUME Node.name \notin DOMAIN functions PROVE candidates = {}
    OBVIOUS
  <2>1. CallTable[Node.name] = NoFunction
    BY DEF CallTable, Bind
  <2>2. DOMAIN overloads = {}
    BY <2>1 DEF NoFunction
  <2> QED BY <2>2 DEF Candidates
<1>4. Node.name \in DOMAIN functions => CallTable = functions /\ overloads = Overloads(Node.name)
  BY DEF CallTable, Overloads
<1>5. \A k \in candidates :
        /\ k \in DOMAIN overloads
        /\ \/ OutOfRange(program[overloads[k]].parameters, Node.arguments)
           \/ Accepts(program[overloads[k]].parameters, Node.arguments)
  BY DEF Candidates
<1> HIDE DEF overloads, candidates
<1>6. CASE Stop("aborted") /\ UNCHANGED <<functions, error, symbol, chosen>>
  BY <1>1, <1>6
<1>7. CASE functions' = CallTable /\ candidates = {} /\ TypeError /\ UNCHANGED <<symbol, chosen>>
  BY <1>1, <1>7 DEF TypeError
<1>8. CASE /\ functions' = CallTable
           /\ \E k \in candidates :
                IF OutOfRange(program[overloads[k]].parameters, Node.arguments)
                THEN Stop("crashed") /\ UNCHANGED <<error, symbol, chosen>>
                ELSE /\ chosen' = Bind(chosen, pc, overloads[k])
                     /\ symbol' = Bind(symbol, pc, KeptSymbol(overloads[k]))
                     /\ \/ GoOn /\ UNCHANGED error
                        \/ TypeError
                        \/ error' = TRUE /\ Stop("aborted")
  <2>1. Node.name \in DOMAIN functions /\ functions' = functions /\ overloads = Overloads(Node.name)
    BY <1>3, <1>4, <1>8
  <2>2. PICK k \in candidates :
          IF OutOfRange(program[overloads[k]].parameters, Node.arguments)
          THEN Stop("crashed") /\ UNCHANGED <<error, symbol, chosen>>
          ELSE /\ chosen' = Bind(chosen, pc, overloads[k])
               /\ symbol' = Bind(symbol, pc, KeptSymbol(overloads[k]))
               /\ \/ GoOn /\ UNCHANGED error
                  \/ TypeError
                  \/ error' = TRUE /\ Stop("aborted")
    BY <1>8
  <2>3. CASE OutOfRange(program[overloads[k]].parameters, Node.arguments)
    BY <1>1, <2>1, <2>2, <2>3
  <2>4. CASE ~OutOfRange(program[overloads[k]].parameters, Node.arguments)
    <3>1. /\ k \in DOMAIN overloads /\ Accepts(program[overloads[k]].parameters, Node.arguments)
          /\ chosen' = Bind(chosen, pc, overloads[k])
          /\ symbol' = Bind(symbol, pc, symbol[overloads[k]])
          /\ GoOn \/ TypeError \/ Stop("aborted")
      BY <1>5, <2>2, <2>4 DEF KeptSymbol
    <3>2. error => error'
      BY <2>2, <2>4 DEF TypeError
    <3> QED BY <1>1, <2>1, <3>1, <3>2
  <2> QED BY <2>3, <2>4
<1> QED BY <1>2, <1>6, <1>7, <1>8

LEMMA TablesTypeCall ==
  ASSUME SourceOK, TablesOK, [Next]_vars, TypeCall
  PROVE  TablesOK'
<1>1. /\ phase = "type" /\ Visits("type", "call")
      /\ UNCHANGED <<source, pragmaContext, currentFunction, generated>>
      /\ error => error'
      /\ UNCHANGED functions \/ functions' = CallTable
      /\ Node.name \notin DOMAIN functions => UNCHANGED functions \/ error'
  BY CallShape
<1>2. \/ UNCHANGED <<symbol, chosen>>
      \/ \E k \in DOMAIN Overloads(Node.name) :
           /\ Node.name \in DOMAIN functions
           /\ chosen' = Bind(chosen, pc, Overloads(Node.name)[k])
           /\ symbol' = Bind(symbol, pc, symbol[Overloads(Node.name)[k]])
  BY CallShape
<1>3. pc \in CallNodes /\ Node.name \in Names
  BY <1>1, CallVisited
<1>4. FunctionNodes' = FunctionNodes /\ CallNodes' = CallNodes /\ AllSymbols' = AllSymbols
  BY <1>1 DEF source, FunctionNodes, CallNodes, Nodes, AllSymbols
<1>5. /\ DOMAIN symbol \subseteq DOMAIN symbol' /\ SymbolOK'
      /\ DOMAIN chosen' \subseteq CallNodes
      /\ \A call \in DOMAIN chosen' : chosen'[call] \in FunctionNodes
  <2>1. CASE UNCHANGED <<symbol, chosen>>
    BY <2>1, SymbolStays DEF TablesOK, NodesOK
  <2>2. ASSUME NEW k \in DOMAIN Overloads(Node.name), Node.name \in DOMAIN functions,
               chosen' = Bind(chosen, pc, Overloads(Node.name)[k]),
               symbol' = Bind(symbol, pc, symbol[Overloads(Node.name)[k]])
        PROVE  /\ DOMAIN symbol \subseteq DOMAIN symbol' /\ SymbolOK'
               /\ DOMAIN chosen' \subseteq CallNodes
               /\ \A call \in DOMAIN chosen' : chosen'[call] \in FunctionNodes
    <3> DEFINE f == Overloads(Node.name)[k]
    <3>1. EntryOK(functions[Node.name], Node.name, program, DOMAIN symbol, Typed)
      BY <2>2 DEF TablesOK, TableOK
    <3>2. f \in FunctionNodes /\ f \in DOMAIN symbol
      BY <2>2, <3>1 DEF EntryOK, Overloads, FunctionNodes, Nodes
    <3> HIDE DEF f
    <3>3. /\ DOMAIN symbol' = DOMAIN symbol \cup {pc}
          /\ \A i \in DOMAIN symbol' : symbol'[i] = IF i = pc THEN symbol[f] ELSE symbol[i]
          /\ DOMAIN chosen' = DOMAIN chosen \cup {pc}
          /\ \A i \in DOMAIN chosen' : chosen'[i] = IF i = pc THEN f ELSE chosen[i]
      BY <2>2 DEF Bind, f
    <3>4. SymbolOK'
      BY <1>3, <1>4, <3>2, <3>3 DEF TablesOK, SymbolOK
    <3> QED BY <1>3, <3>2, <3>3, <3>4 DEF TablesOK, NodesOK
  <2> QED BY <1>2, <2>1, <2>2
<1>6. TableOK'
  <2>1. CASE UNCHANGED functions
    BY <1>1, <1>5, <2>1, TableStays
  <2>2. CASE functions' = CallTable /\ Node.name \notin DOMAIN functions /\ error'
    <3>1. /\ DOMAIN functions' = DOMAIN functions \cup {Node.name}
          /\ \A n \in DOMAIN functions' :
               functions'[n] = IF n = Node.name THEN NoFunction ELSE functions[n]
      BY <2>2 DEF CallTable, Bind
    <3>2. EntryOK(NoFunction, Node.name, program, DOMAIN symbol', Typed')
      BY EntryEmpty DEF NoFunction
    <3>3. /\ Typed \in Int /\ Typed' \in Int /\ Typed <= Typed' /\ Len(program) \in Nat
      BY TypedGrows, NodesGrow
    <3>4. \A n \in DOMAIN functions :
            EntryOK(functions[n], n, program, DOMAIN symbol', Typed')
      BY <1>5, <3>3, EntryStays DEF TablesOK, TableOK
    <3>5. \A n \in DOMAIN functions' : EntryOK(functions'[n], n, program, DOMAIN symbol', Typed')
      BY <3>1, <3>2, <3>4
    <3>6. DOMAIN functions' \subseteq Names
      BY <1>3, <3>1 DEF TablesOK, TableOK
    <3> QED BY <1>1, <1>5, <2>2, <3>5, <3>6, TableAfter
  <2>3. CASE functions' = CallTable /\ Node.name \in DOMAIN functions
    BY <2>1, <2>3 DEF CallTable
  <2> QED BY <1>1, <2>1, <2>2, <2>3
<1>7. ContextOK'
  BY <1>1, ContextStays
<1>8. NodesOK'
  BY <1>1, <1>4, <1>5, NodesStay DEF generated, NodesOK
<1> QED BY <1>5, <1>6, <1>7, <1>8 DEF TablesOK

LEMMA TablesStep == SourceOK /\ TablesOK /\ [Next]_vars => TablesOK'
<1> SUFFICES ASSUME SourceOK, TablesOK, [Next]_vars PROVE TablesOK'
  OBVIOUS
<1>1. CASE ReadStep
  <2>1. PICK item \in Items : Reads(item, Opened + DepthStep(item))
    BY <1>1, ReadShape
  <2> QED BY <2>1, TablesUnwritten DEF Reads
<1>2. CASE EndOfSource \/ EndWalk \/ UNCHANGED vars
  BY <1>2, TablesUnwritten DEF EndOfSource, EndWalk, vars
<1>3. CASE PragmaStep
  BY <1>3, TablesPragma
<1>4. CASE TypeStep
  <2>1. CASE TypeFunction
    BY <2>1, TablesTypeFunction
  <2>2. CASE TypeEnd
    <3>1. /\ currentFunction' = Absent
          /\ UNCHANGED <<source, symbol, pragmaContext, functions, error, chosen, generated>>
      BY <2>2 DEF TypeEnd
    <3> QED BY <3>1, ContextStays, SymbolStays, TableStays, NodesStay
            DEF generated, TablesOK, NodesOK
  <2>3. CASE TypePragma
    BY <2>3, TablesUnwritten DEF TypePragma
  <2>4. CASE TypeCall
    BY <2>4, TablesTypeCall
  <2> QED BY <1>4, <2>1, <2>2, <2>3, <2>4 DEF TypeStep
<1>5. CASE CodegenStep
  BY <1>5, TablesCodegen
<1> QED BY <1>1, <1>2, <1>3, <1>4, <1>5, StepCases DEF VisitStep

-----------------------------------------------------------------------------
(* The theorems *)

LinkageInv == SourceOK /\ NamesOK /\ TablesOK

(* The inductive invariant: what was read stays a well-typed program behind *)
(* pc and unit, the parser's names are of functions it has seen, and every  *)
(* entry of the function table lists functions that were visited, of its    *)
(* own name and result, no two with the same parameters.                    *)
THEOREM LinkageInductive == Spec => []LinkageInv
<1>1. Init => LinkageInv
  BY SourceInit, NamesInit, TablesInit DEF LinkageInv
<1>2. LinkageInv /\ [Next]_vars => LinkageInv'
  BY SourceStep, NamesStep, TablesStep DEF LinkageInv
<1> QED BY <1>1, <1>2, PTL DEF Spec

(* functionType::add never enters an overload twice, nor one whose result   *)
(* is not that of the entry, for every order of prototypes, definitions,    *)
(* nested functions and rejected blocks.                                    *)
THEOREM OverloadsDifferAlways == Spec => []OverloadsDiffer
<1>1. LinkageInv => OverloadsDiffer
  BY DEF LinkageInv, TablesOK, TableOK, EntryOK, OverloadsDiffer, Overloads
<1> QED BY <1>1, LinkageInductive, PTL

-----------------------------------------------------------------------------
(* What the type visitor knows *)

FunctionTable == IF Node.name \in DOMAIN functions THEN functions
                 ELSE Bind(functions, Node.name, [result |-> Node.result, overloads |-> <<>>])

MadeUpSymbol == GivenSymbol(Node.name, Len(FunctionTable[Node.name].overloads))

(* A function is refused, before or after it got its symbol, or entered.    *)
LEMMA FunctionShape ==
  ASSUME TypeFunction
  PROVE  /\ phase = "type" /\ Visits("type", "function")
         /\ UNCHANGED <<source, pragmaContext, chosen, generated>>
         /\ error => error'
         /\ \/ symbol' = symbol
            \/ pc \notin DOMAIN symbol /\ symbol' = Bind(symbol, pc, MadeUpSymbol)
         /\ \/ /\ functions' = FunctionTable
               /\ TypeError \/ Stop("aborted")
               /\ UNCHANGED currentFunction
            \/ /\ functions' = [FunctionTable EXCEPT ![Node.name].overloads = Append(@, pc)]
               /\ symbol' = IF pc \in DOMAIN symbol THEN symbol ELSE Bind(symbol, pc, MadeUpSymbol)
               /\ FunctionTable[Node.name].result = Node.result
               /\ ~HasOverload(FunctionTable[Node.name].overloads, Node.parameters)
               /\ currentFunction' = IF Node.body THEN Node.name ELSE Absent
               /\ Node.result # Absent
               /\ GoOn /\ UNCHANGED error
BY DEF TypeFunction, FunctionTable, MadeUpSymbol, AddOverload, TypeError, Visits

LEMMA FunctionTableGrows ==
  DOMAIN FunctionTable = DOMAIN functions \cup {Node.name}
BY DEF FunctionTable, Bind

(* The table that a function leaves when it is entered: one more overload.  *)
LEMMA FunctionEntered ==
  ASSUME LinkageInv, TypeFunction,
         functions' = [FunctionTable EXCEPT ![Node.name].overloads = Append(@, pc)]
  PROVE  /\ DOMAIN functions' = DOMAIN functions \cup {Node.name}
         /\ \A n \in DOMAIN functions : n # Node.name => functions'[n] = functions[n]
         /\ Node.name \in DOMAIN functions => functions'[Node.name].result = functions[Node.name].result
         /\ LET old == FunctionTable[Node.name].overloads
                new == functions'[Node.name].overloads
            IN  /\ Node.name \in DOMAIN functions => old = functions[Node.name].overloads
                /\ Len(old) \in Nat /\ DOMAIN old = 1 .. Len(old)
                /\ DOMAIN new = 1 .. Len(old) + 1
                /\ \A k \in 1 .. Len(old) : new[k] = old[k]
                /\ new[Len(old) + 1] = pc
<1> DEFINE name == Node.name
           entry == FunctionTable[name]
           old == entry.overloads
           new == Append(old, pc)
<1>1. DOMAIN FunctionTable = DOMAIN functions \cup {name}
  BY FunctionTableGrows
<1>2. \A n \in DOMAIN functions : FunctionTable[n] = functions[n]
  BY DEF FunctionTable, Bind
<1>3. entry \in [result : Results \cup {Absent}, overloads : Seq(Nat)]
  <2>1. CASE name \in DOMAIN functions
    BY <2>1 DEF FunctionTable, LinkageInv, TablesOK, TableOK, EntryOK
  <2>2. CASE name \notin DOMAIN functions
    <3>1. entry = [result |-> Node.result, overloads |-> <<>>]
      BY <2>2 DEF FunctionTable, Bind
    <3>2. Node.result \in Results
      BY FunctionShape, FunctionVisited DEF LinkageInv
    <3>3. <<>> \in Seq(Nat)
      BY EmptySeq
    <3> QED BY <3>1, <3>2, <3>3
  <2> QED BY <2>1, <2>2
<1>4. /\ DOMAIN functions' = DOMAIN FunctionTable
      /\ \A n \in DOMAIN FunctionTable : n # name => functions'[n] = FunctionTable[n]
      /\ functions'[name] = [entry EXCEPT !.overloads = new]
  BY <1>1
<1>5. functions'[name].overloads = new /\ functions'[name].result = entry.result
  BY <1>3, <1>4
<1>6. pc \in Nat
  BY FunctionShape, FunctionVisited DEF LinkageInv, FunctionNodes, Nodes
<1>7. old \in Seq(Nat)
  BY <1>3
<1>8. Len(old) \in Nat /\ DOMAIN old = 1 .. Len(old)
  BY <1>7, LenProperties
<1>9. /\ new \in Seq(Nat) /\ Len(new) = Len(old) + 1
      /\ \A k \in 1 .. Len(old) : new[k] = old[k]
      /\ new[Len(old) + 1] = pc
  BY <1>6, <1>7, AppendProperties
<1>10. DOMAIN new = 1 .. Len(old) + 1
  BY <1>9, LenProperties
<1> HIDE DEF name, entry, new
<1> QED BY <1>1, <1>2, <1>4, <1>5, <1>8, <1>9, <1>10 DEF name, entry

(* Nothing is ever taken out of the table. *)
LEMMA RegisteredStays ==
  ASSUME LinkageInv, [Next]_vars, NEW f \in FunctionNodes, Registered(f)
  PROVE  Registered(f)'
<1> DEFINE n == program[f].name
<1>1. program'[f] = program[f]
  BY NodesGrow DEF LinkageInv, FunctionNodes, Nodes
<1>2. PICK k \in DOMAIN functions[n].overloads : functions[n].overloads[k] = f
  BY DEF Registered, Overloads
<1>3. n \in DOMAIN functions
  BY DEF Registered
<1>4. CASE UNCHANGED functions
  BY <1>1, <1>4 DEF Registered, Overloads
<1>5. CASE functions' = CallTable
  BY <1>1, <1>2, <1>3, <1>5 DEF CallTable, Bind, Registered, Overloads
<1>6. CASE TypeFunction
  <2>1. CASE functions' = FunctionTable
    BY <1>1, <1>2, <1>3, <2>1 DEF FunctionTable, Bind, Registered, Overloads
  <2>2. CASE functions' = [FunctionTable EXCEPT ![Node.name].overloads = Append(@, pc)]
    <3>1. n \in DOMAIN functions'
      BY <1>3, <1>6, <2>2, FunctionEntered
    <3>2. k \in DOMAIN functions'[n].overloads /\ functions'[n].overloads[k] = f
      <4>1. CASE n # Node.name
        BY <1>2, <1>3, <1>6, <2>2, <4>1, FunctionEntered
      <4>2. CASE n = Node.name
        <5> DEFINE old == FunctionTable[Node.name].overloads
                   new == functions'[Node.name].overloads
        <5>1. /\ old = functions[n].overloads
              /\ Len(old) \in Nat /\ DOMAIN old = 1 .. Len(old)
              /\ DOMAIN new = 1 .. Len(old) + 1
              /\ \A i \in 1 .. Len(old) : new[i] = old[i]
          BY <1>3, <1>6, <2>2, <4>2, FunctionEntered
        <5> HIDE DEF old, new
        <5>2. k \in 1 .. Len(old) /\ old[k] = f
          BY <1>2, <5>1
        <5> QED BY <4>2, <5>1, <5>2 DEF new
      <4> QED BY <4>1, <4>2
    <3> QED BY <1>1, <3>1, <3>2 DEF Registered, Overloads
  <2> QED BY <1>6, <2>1, <2>2, FunctionShape
<1>7. CASE ReadStep
  <2>1. PICK item \in Items : Reads(item, Opened + DepthStep(item))
    BY <1>7, ReadShape DEF LinkageInv
  <2> QED BY <1>4, <2>1 DEF Reads, checked
<1>8. CASE EndOfSource \/ EndWalk \/ UNCHANGED vars
  BY <1>4, <1>8 DEF EndOfSource, EndWalk, vars, checked
<1>9. CASE PragmaStep \/ TypeEnd \/ TypePragma
  BY <1>4, <1>9
     DEF PragmaStep, PragmaFunction, PragmaEnd, PragmaCall, VisitPragma, TypeEnd, TypePragma, checked
<1>10. CASE TypeCall
  BY <1>4, <1>5, <1>10, CallShape
<1>11. CASE CodegenStep
  BY <1>4, <1>11
     DEF CodegenStep, GenerateFunction, GenerateNothing, GenerateCall, EndOfCode, checked
<1> QED BY <1>6, <1>7, <1>8, <1>9, <1>10, <1>11, StepCases DEF VisitStep, TypeStep

LEMMA KnownInit == Init => KnownOK
<1> SUFFICES ASSUME Init PROVE KnownOK
  OBVIOUS
<1>1. FunctionNodes = {}
  <2>1. Len(program) = 0
    BY EmptySeq DEF Init
  <2> QED BY <2>1 DEF FunctionNodes, Nodes
<1>2. DOMAIN functions = {}
  BY DEF Init, EmptyScope
<1> QED BY <1>1, <1>2 DEF KnownOK

LEMMA KnownStep == LinkageInv /\ KnownOK /\ [Next]_vars => KnownOK'
<1> SUFFICES ASSUME LinkageInv, KnownOK, [Next]_vars PROVE KnownOK'
  OBVIOUS
<1>1. SourceOK
  BY DEF LinkageInv
<1>2. /\ Len(program) \in Nat /\ pc \in 1 .. Len(program) + 1 /\ unit \in 1 .. Len(program) + 1
      /\ FunctionNodes' \cap 1 .. Len(program) = FunctionNodes
      /\ FunctionNodes' \subseteq Nat
  <2>1. FunctionNodes' \subseteq Nat
    BY DEF FunctionNodes, Nodes
  <2> QED BY <1>1, <2>1, NodesGrow DEF SourceOK
<1>3. ASSUME Typed' = Typed, Typed <= Len(program) + 1, error => error', UNCHANGED functions,
             phase \in {"parse", "pragma", "type"}
      PROVE  KnownOK'
  <2> SUFFICES ASSUME ~error' PROVE /\ \A f \in FunctionNodes' : f < Typed' => Registered(f)'
                                   /\ \A name \in DOMAIN functions' : functions'[name].overloads # <<>>
    BY DEF KnownOK, Overloads
  <2>1. ASSUME NEW f \in FunctionNodes', f < Typed' PROVE Registered(f)'
    <3>1. Typed \in Nat
      BY <1>1, TypedGrows
    <3>2. f \in 1 .. Len(program) /\ f \in FunctionNodes /\ f < Typed
      <4>1. f \in Nat /\ f < Len(program) + 1 /\ f >= 1
        BY <1>2, <1>3, <2>1, <3>1 DEF FunctionNodes, Nodes
      <4> QED BY <1>2, <1>3, <2>1, <4>1
    <3>3. Registered(f)
      BY <1>3, <3>2 DEF KnownOK
    <3> QED BY <3>2, <3>3, RegisteredStays
  <2>2. \A name \in DOMAIN functions' : functions'[name].overloads # <<>>
    BY <1>3 DEF KnownOK, Overloads
  <2> QED BY <2>1, <2>2
<1>4. CASE ReadStep
  <2>1. PICK item \in Items : Reads(item, Opened + DepthStep(item))
    BY <1>1, <1>4, ReadShape
  <2>2. /\ phase = "parse" /\ phase' \in {"parse", "pragma"} /\ unit' = unit
        /\ UNCHANGED <<functions, error>>
    BY <2>1 DEF Reads, Following, checked
  <2>3. Typed' = Typed /\ Typed <= Len(program) + 1
    BY <1>2, <2>2 DEF Typed
  <2> QED BY <1>3, <2>2, <2>3
<1>5. CASE EndOfSource
  <2>1. phase' \in {"done", "codegen"}
    BY <1>5 DEF EndOfSource
  <2> QED BY <2>1 DEF KnownOK
<1>6. CASE EndWalk
  <2>1. /\ pc = Len(program) + 1 /\ UNCHANGED <<functions, error, program>>
        /\ \/ phase = "pragma" /\ phase' = "type" /\ unit' = unit /\ pc' = unit
           \/ phase = "type" /\ phase' = "parse" /\ unit' = Len(program) + 1
    BY <1>6 DEF EndWalk, Following, source, checked
  <2>2. Typed' = Typed /\ Typed <= Len(program) + 1
    BY <1>2, <2>1 DEF Typed
  <2> QED BY <1>3, <2>1, <2>2
<1>7. CASE PragmaStep
  <2>1. /\ phase = "pragma" /\ UNCHANGED <<functions, error, unit>>
        /\ phase' = "pragma" \/ phase' = "done"
    BY <1>7 DEF PragmaStep, PragmaFunction, PragmaEnd, PragmaCall, VisitPragma, Visits, GoOn, Stop,
                checked
  <2>2. CASE phase' = "done"
    BY <2>2 DEF KnownOK
  <2>3. CASE phase' = "pragma"
    <3>1. Typed' = Typed /\ Typed <= Len(program) + 1
      BY <1>2, <2>1, <2>3 DEF Typed
    <3> QED BY <1>3, <2>1, <3>1
  <2> QED BY <2>1, <2>2, <2>3
<1>8. CASE TypeStep
  <2>1. /\ phase = "type" /\ UNCHANGED source /\ pc \in 1 .. Len(program)
        /\ error => error'
        /\ GoOn \/ error' \/ phase' = "done"
        /\ GoOn /\ ~error' => \A f \in FunctionNodes : f = pc => Registered(f)'
        /\ GoOn /\ ~error' => \A n \in DOMAIN functions' :
             functions'[n].overloads # <<>> \/ (n \in DOMAIN functions /\ functions'[n] = functions[n])
    <3>1. CASE TypeFunction
      <4>1. /\ phase = "type" /\ UNCHANGED source /\ (error => error')
            /\ pc \in 1 .. Len(program) /\ Node = program[pc]
        BY <1>1, <3>1, FunctionShape, NodeVisited
      <4>2. CASE functions' = FunctionTable /\ (TypeError \/ Stop("aborted"))
        <5>1. error' \/ phase' = "done"
          BY <4>2 DEF TypeError, Stop
        <5>2. phase' = "done" => ~GoOn
          BY <4>1 DEF GoOn
        <5> QED BY <4>1, <5>1, <5>2
      <4>3. CASE functions' = [FunctionTable EXCEPT ![Node.name].overloads = Append(@, pc)] /\ GoOn
        <5> DEFINE old == FunctionTable[Node.name].overloads
                   new == functions'[Node.name].overloads
        <5>1. /\ DOMAIN functions' = DOMAIN functions \cup {Node.name}
              /\ \A n \in DOMAIN functions : n # Node.name => functions'[n] = functions[n]
              /\ Len(old) \in Nat /\ DOMAIN new = 1 .. Len(old) + 1 /\ new[Len(old) + 1] = pc
          BY <3>1, <4>3, FunctionEntered
        <5> HIDE DEF old
        <5>2. Len(old) + 1 \in DOMAIN new /\ DOMAIN <<>> = {}
          BY <5>1
        <5>3. new # <<>>
          BY <5>2
        <5>4. ASSUME NEW f \in FunctionNodes, f = pc PROVE Registered(f)'
          <6>1. program'[f].name = Node.name
            BY <4>1, <5>4 DEF source
          <6> QED BY <5>1, <5>2, <5>4, <6>1 DEF Registered, Overloads
        <5> QED BY <4>1, <4>3, <5>1, <5>3, <5>4
      <4> QED BY <3>1, <4>2, <4>3, FunctionShape
    <3>2. CASE TypeEnd \/ TypePragma
      <4>1. /\ phase = "type" /\ UNCHANGED <<source, functions, error>> /\ GoOn
            /\ Visits("type", "end") \/ Visits("type", "pragma")
        BY <3>2 DEF TypeEnd, TypePragma, Visits, checked
      <4>2. pc \in 1 .. Len(program) /\ program[pc].op \in {"end", "pragma"}
        BY <1>1, <4>1, NodeVisited
      <4> QED BY <4>1, <4>2 DEF FunctionNodes
    <3>3. CASE TypeCall
      <4>1. pc \in 1 .. Len(program) /\ pc \notin FunctionNodes
        BY <1>1, <3>3, CallShape, NodeVisited, CallVisited
      <4>2. phase = "type" /\ UNCHANGED source /\ (error => error') /\ (UNCHANGED functions \/ error')
        BY <3>3, CallShape DEF CallTable
      <4>3. GoOn \/ error' \/ phase' = "done"
        BY <3>3, CallShape DEF TypeError, Stop
      <4> QED BY <4>1, <4>2, <4>3
    <3> QED BY <1>8, <3>1, <3>2, <3>3 DEF TypeStep
  <2>2. CASE error' \/ phase' = "done"
    BY <2>2 DEF KnownOK
  <2>3. CASE GoOn /\ ~error'
    <3> SUFFICES /\ \A f \in FunctionNodes' : f < Typed' => Registered(f)'
                 /\ \A name \in DOMAIN functions' : functions'[name].overloads # <<>>
      BY DEF KnownOK, Overloads
    <3>0. \A name \in DOMAIN functions' : functions'[name].overloads # <<>>
      BY <2>1, <2>3 DEF KnownOK, Overloads
    <3> SUFFICES ASSUME NEW f \in FunctionNodes', f < Typed' PROVE Registered(f)'
      BY <3>0
    <3>1. Typed' = pc + 1 /\ Typed = pc
      BY <2>1, <2>3 DEF GoOn, Typed
    <3>2. f \in FunctionNodes /\ f \in Nat
      BY <1>2, <2>1 DEF source, FunctionNodes, Nodes
    <3>3. CASE f = pc
      BY <2>1, <2>3, <3>2, <3>3
    <3>4. CASE f # pc
      <4>1. f < Typed
        BY <2>1, <3>1, <3>2, <3>4
      <4>2. Registered(f)
        BY <2>1, <2>3, <3>2, <4>1 DEF KnownOK
      <4> QED BY <3>2, <4>2, RegisteredStays
    <3> QED BY <3>3, <3>4
  <2> QED BY <2>1, <2>2, <2>3
<1>9. CASE CodegenStep
  <2>1. phase' \in {"done", "codegen"}
    BY <1>9 DEF CodegenStep, GenerateFunction, GenerateNothing, GenerateCall, EndOfCode, Visits, GoOn,
                Stop
  <2> QED BY <2>1 DEF KnownOK
<1>10. CASE UNCHANGED vars
  <2>1. UNCHANGED <<source, walk, functions, error>>
    BY <1>10 DEF vars, checked
  <2> QED BY <2>1 DEF KnownOK, Typed, source, walk, FunctionNodes, Nodes, Registered, Overloads
<1> QED BY <1>4, <1>5, <1>6, <1>7, <1>8, <1>9, <1>10, StepCases DEF VisitStep

(* What the parser takes for a function is in the table when the type       *)
(* visitor comes to the call, as long as no block was given up.             *)
THEOREM CalledAreRegistered == Spec => []RegisteredBeforeCalled
<1>1. LinkageInv /\ KnownOK => RegisteredBeforeCalled
  <2> SUFFICES ASSUME LinkageInv, KnownOK, Visits("type", "call"), ~error
               PROVE  Node.name \in DOMAIN functions
    BY DEF RegisteredBeforeCalled
  <2>1. pc \in CallNodes /\ Node = program[pc]
    BY CallVisited, NodeVisited DEF LinkageInv
  <2>2. PICK f \in FunctionNodes : f < pc /\ program[f].name = program[pc].name
    <3>1. pc \in Takers
      BY <2>1 DEF CallNodes, Takers, TakesFunction
    <3> QED BY <3>1 DEF LinkageInv, NamesOK
  <2>3. phase = "type" /\ Typed = pc
    BY DEF Visits, Typed
  <2> QED BY <2>1, <2>2, <2>3 DEF KnownOK, Registered
<1>2. Init => LinkageInv /\ KnownOK
  BY KnownInit, SourceInit, NamesInit, TablesInit DEF LinkageInv
<1>3. LinkageInv /\ KnownOK /\ [Next]_vars => (LinkageInv /\ KnownOK)'
  BY KnownStep, SourceStep, NamesStep, TablesStep DEF LinkageInv
<1> QED BY <1>1, <1>2, <1>3, PTL DEF Spec

-----------------------------------------------------------------------------
(* Types *)

LEMMA NamedInit == Init => NamedOK
<1> SUFFICES ASSUME Init PROVE NamedOK
  OBVIOUS
<1>1. Len(program) = 0
  BY EmptySeq DEF Init
<1>2. FunctionNodes = {} /\ CallNodes = {}
  BY <1>1 DEF FunctionNodes, CallNodes, Nodes
<1> QED BY <1>2 DEF NamedOK

(* A node that is given a symbol keeps one. *)
LEMMA SymbolsStay ==
  ASSUME SourceOK, [Next]_vars
  PROVE  DOMAIN symbol \subseteq DOMAIN symbol'
<1>1. CASE UNCHANGED symbol
  BY <1>1
<1>2. ASSUME NEW i, NEW s, symbol' = Bind(symbol, i, s) PROVE DOMAIN symbol \subseteq DOMAIN symbol'
  BY <1>2 DEF Bind
<1>3. CASE ReadStep
  <2>1. PICK item \in Items : Reads(item, Opened + DepthStep(item))
    BY <1>3, ReadShape
  <2> QED BY <1>1, <2>1 DEF Reads
<1>4. CASE EndOfSource \/ EndWalk \/ UNCHANGED vars
  BY <1>1, <1>4 DEF EndOfSource, EndWalk, vars
<1>5. CASE PragmaFunction \/ PragmaEnd \/ PragmaCall \/ CodegenStep \/ TypeEnd \/ TypePragma
  BY <1>1, <1>5
     DEF PragmaFunction, PragmaEnd, PragmaCall, CodegenStep, GenerateFunction, GenerateNothing,
         GenerateCall, EndOfCode, TypeEnd, TypePragma
<1>6. CASE VisitPragma
  BY <1>1, <1>2, <1>6 DEF VisitPragma
<1>7. CASE TypeFunction
  BY <1>1, <1>2, <1>7, FunctionShape
<1>8. CASE TypeCall
  <2>1. \/ UNCHANGED symbol
        \/ \E s : symbol' = Bind(symbol, pc, s)
    BY <1>8, CallShape
  <2> QED BY <1>1, <1>2, <2>1
<1> QED BY <1>3, <1>4, <1>5, <1>6, <1>7, <1>8, StepCases DEF VisitStep, PragmaStep, TypeStep

LEMMA NamedStep == LinkageInv /\ NamedOK /\ [Next]_vars => NamedOK'
<1> SUFFICES ASSUME LinkageInv, NamedOK, [Next]_vars, phase' # "done", ~error',
                    NEW i \in FunctionNodes' \cup CallNodes', i < Typed'
             PROVE  i \in DOMAIN symbol'
  BY DEF NamedOK
<1>1. SourceOK /\ DOMAIN symbol \subseteq DOMAIN symbol'
  BY SymbolsStay DEF LinkageInv
<1>2. /\ Len(program) \in Nat /\ pc \in 1 .. Len(program) + 1 /\ unit \in 1 .. Len(program) + 1
      /\ i \in Nat /\ Typed \in Nat /\ Typed <= Len(program) + 1
  <2>1. i \in Nat
    BY DEF FunctionNodes, CallNodes, Nodes
  <2>2. Len(program) \in Nat
    BY <1>1, LenProperties DEF SourceOK
  <2> QED BY <1>1, <2>1, <2>2 DEF SourceOK, Typed
<1>3. ASSUME phase # "done", ~error, i < Typed PROVE i \in DOMAIN symbol'
  <2>1. i \in 1 .. Len(program)
    <3>1. i >= 1
      BY DEF FunctionNodes, CallNodes, Nodes
    <3> QED BY <1>2, <1>3, <3>1
  <2>2. i \in FunctionNodes \cup CallNodes
    BY <1>1, <2>1, NodesGrow
  <2> QED BY <1>1, <1>3, <2>2 DEF NamedOK
<1>4. CASE ReadStep
  <2>1. PICK item \in Items : Reads(item, Opened + DepthStep(item))
    BY <1>1, <1>4, ReadShape
  <2>2. phase = "parse" /\ phase' \in {"parse", "pragma"} /\ unit' = unit /\ UNCHANGED error
    BY <2>1 DEF Reads, Following, checked
  <2>3. Typed' = Typed
    BY <2>2 DEF Typed
  <2> QED BY <1>3, <2>2, <2>3
<1>5. CASE EndOfSource
  <2>1. phase = "parse" /\ Here = 0 /\ UNCHANGED <<program, error>>
    BY <1>5 DEF EndOfSource, source, checked
  <2>2. Opened = 0
    BY <1>1, <2>1, DepthIs DEF Here, Opened
  <2>3. Typed = Len(program) + 1 /\ Typed' = Len(program) + 1
    BY <1>1, <1>5, <2>1, <2>2 DEF SourceOK, Typed, EndOfSource
  <2> QED BY <1>3, <2>1, <2>3
<1>6. CASE EndWalk
  <2>1. /\ pc = Len(program) + 1 /\ UNCHANGED <<error, program>>
        /\ \/ phase = "pragma" /\ phase' = "type" /\ unit' = unit /\ pc' = unit
           \/ phase = "type" /\ phase' = "parse" /\ unit' = Len(program) + 1
    BY <1>6 DEF EndWalk, Following, source, checked
  <2>2. Typed' = Typed
    BY <2>1 DEF Typed
  <2> QED BY <1>3, <2>1, <2>2
<1>7. CASE PragmaStep \/ CodegenStep
  <2>1. /\ UNCHANGED <<source, error, unit>>
        /\ (phase = "pragma" /\ phase' = "pragma") \/ (phase = "codegen" /\ phase' = "codegen")
    BY <1>7 DEF PragmaStep, PragmaFunction, PragmaEnd, PragmaCall, VisitPragma, CodegenStep,
                GenerateFunction, GenerateNothing, GenerateCall, EndOfCode, Visits, GoOn, Stop, checked
  <2>2. Typed' = Typed
    BY <2>1 DEF Typed, source
  <2> QED BY <1>3, <2>1, <2>2
<1>8. CASE TypeStep
  <2>1. /\ phase = "type" /\ UNCHANGED source /\ pc \in 1 .. Len(program)
        /\ error => error'
        /\ GoOn \/ error' \/ phase' = "done"
        /\ GoOn /\ ~error' => pc \in DOMAIN symbol' \/ Node.op \in {"end", "pragma"}
    <3>1. CASE TypeFunction
      <4>1. /\ phase = "type" /\ UNCHANGED source /\ (error => error') /\ pc \in 1 .. Len(program)
        BY <1>1, <3>1, FunctionShape, NodeVisited
      <4>2. CASE TypeError \/ Stop("aborted")
        BY <4>1, <4>2 DEF TypeError, Stop, GoOn
      <4>3. CASE GoOn /\ symbol' = IF pc \in DOMAIN symbol THEN symbol ELSE Bind(symbol, pc, MadeUpSymbol)
        BY <4>1, <4>3 DEF Bind
      <4> QED BY <3>1, <4>2, <4>3, FunctionShape
    <3>2. CASE TypeEnd \/ TypePragma
      BY <1>1, <3>2, NodeVisited DEF TypeEnd, TypePragma, Visits, checked
    <3>3. CASE TypeCall
      <4>1. phase = "type" /\ UNCHANGED source /\ (error => error') /\ pc \in 1 .. Len(program)
        BY <1>1, <3>3, CallShape, NodeVisited
      <4>2. CASE TypeError \/ Stop("aborted") \/ Stop("crashed")
        BY <4>1, <4>2 DEF TypeError, Stop, GoOn
      <4>3. CASE GoOn /\ \E s : symbol' = Bind(symbol, pc, s)
        BY <4>1, <4>3 DEF Bind
      <4> QED BY <3>3, <4>2, <4>3, CallShape
    <3> QED BY <1>8, <3>1, <3>2, <3>3 DEF TypeStep
  <2>2. ~error /\ GoOn
    BY <2>1
  <2>3. Typed = pc /\ Typed' = pc + 1
    BY <2>1, <2>2 DEF GoOn, Typed
  <2>4. CASE i = pc
    <3>1. program[pc].op \notin {"end", "pragma"}
      BY <2>1, <2>4 DEF FunctionNodes, CallNodes, source
    <3> QED BY <2>1, <2>2, <2>4, <3>1 DEF Node
  <2> QED BY <1>2, <1>3, <2>1, <2>2, <2>3, <2>4
<1>9. CASE UNCHANGED vars
  <2>1. UNCHANGED <<source, walk, error>>
    BY <1>9 DEF vars, checked
  <2>2. Typed' = Typed
    BY <2>1 DEF Typed, source, walk
  <2> QED BY <1>3, <2>1, <2>2 DEF walk
<1> QED BY <1>4, <1>5, <1>6, <1>7, <1>8, <1>9, StepCases DEF VisitStep

(* Every state is well typed, whatever the names, types and parameters and  *)
(* however long the source: in particular the tables of the walks only      *)
(* speak of nodes of the kind that they are meant for.                      *)
THEOREM LinkageTypes == Spec => []TypeOK
<1>1. LinkageInv /\ NamedOK => TypeOK
  <2> SUFFICES ASSUME LinkageInv, NamedOK PROVE TypeOK
    OBVIOUS
  <2>1. Len(program) \in Nat
    BY LenProperties DEF LinkageInv, SourceOK
  <2>2. Len(program) <= MaxItems
    BY <2>1, LinkageAssumption DEF LinkageInv, SourceOK
  <2>3. \A name \in DOMAIN functions :
          /\ functions[name].result \in Results \cup {Absent}
          /\ ~error => functions[name].result \in Results
    BY DEF LinkageInv, TablesOK, TableOK, EntryOK
  <2>4. \A name \in DOMAIN functions : functions[name].overloads \in Seq(FunctionNodes)
    <3> SUFFICES ASSUME NEW name \in DOMAIN functions
                 PROVE  functions[name].overloads \in Seq(FunctionNodes)
      OBVIOUS
    <3> DEFINE o == functions[name].overloads
    <3>1. EntryOK(functions[name], name, program, DOMAIN symbol, Typed)
      BY DEF LinkageInv, TablesOK, TableOK
    <3>2. o \in Seq(Nat)
      BY <3>1 DEF EntryOK
    <3>3. \A k \in DOMAIN o : o[k] \in FunctionNodes
      BY <3>1 DEF EntryOK, FunctionNodes, Nodes
    <3> HIDE DEF o
    <3>4. Len(o) \in Nat /\ DOMAIN o = 1 .. Len(o) /\ o \in [1 .. Len(o) -> Nat]
      BY <3>2, LenProperties
    <3>5. o \in [1 .. Len(o) -> FunctionNodes]
      BY <3>3, <3>4
    <3> QED BY <3>4, <3>5 DEF o
  <2>5. phase = "codegen" => FunctionNodes \cup CallNodes \subseteq DOMAIN symbol
    <3> SUFFICES ASSUME phase = "codegen", NEW i \in FunctionNodes \cup CallNodes
                 PROVE  i \in DOMAIN symbol
      OBVIOUS
    <3>1. ~error /\ Typed = Len(program) + 1 /\ i \in 1 .. Len(program)
      BY DEF LinkageInv, SourceOK, Typed, FunctionNodes, CallNodes, Nodes
    <3>2. i < Typed
      BY <2>1, <3>1
    <3> QED BY <3>1, <3>2 DEF NamedOK
  <2> QED BY <2>2, <2>3, <2>4, <2>5
          DEF LinkageInv, SourceOK, TablesOK, SymbolOK, TableOK, NodesOK, TypeOK
<1>2. Init => LinkageInv /\ NamedOK
  BY NamedInit, SourceInit, NamesInit, TablesInit DEF LinkageInv
<1>3. LinkageInv /\ NamedOK /\ [Next]_vars => (LinkageInv /\ NamedOK)'
  BY NamedStep, SourceStep, NamesStep, TablesStep DEF LinkageInv
<1> QED BY <1>1, <1>2, <1>3, PTL DEF Spec

-----------------------------------------------------------------------------
(* The symbols *)

LEMMA GivenInit == Init => GivenOK
<1> SUFFICES ASSUME Init PROVE GivenOK
  OBVIOUS
<1>1. DOMAIN EmptyScope = {}
  BY DEF EmptyScope
<1> QED BY <1>1 DEF Init, GivenOK

(* Overloads keep their symbols when only other nodes are given one. *)
LEMMA GivenStays ==
  ASSUME LinkageInv, GivenOK, [Next]_vars, PragmaNodes' = {},
         UNCHANGED functions, UNCHANGED symbol
  PROVE  GivenOK'
<1>1. PragmaNodes = {}
  BY NodesGrow DEF LinkageInv
<1>2. Typed \in Nat /\ Typed' \in Nat /\ Typed <= Typed'
  BY TypedGrows DEF LinkageInv
<1>3. DOMAIN symbol \subseteq Nat
  BY DEF LinkageInv, TablesOK, SymbolOK, FunctionNodes, CallNodes, Nodes
<1>4. \A i \in DOMAIN symbol : i < Typed'
  BY <1>1, <1>2, <1>3 DEF GivenOK
<1> QED BY <1>1, <1>4 DEF GivenOK, Overloads

LEMMA GivenTypeFunction ==
  ASSUME LinkageInv, GivenOK, [Next]_vars, PragmaNodes = {}, TypeFunction
  PROVE  GivenOK'
<1> DEFINE name == Node.name
           table == FunctionTable
           added == [table EXCEPT ![name].overloads = Append(@, pc)]
<1>1. /\ phase = "type" /\ pc \in 1 .. Len(program) /\ Len(program) \in Nat /\ Typed = pc
      /\ UNCHANGED source
  <2>1. phase = "type" /\ Visits("type", "function") /\ UNCHANGED source
    BY FunctionShape
  <2> QED BY <2>1, NodeVisited DEF LinkageInv, Typed
<1>2. Typed' \in Int /\ pc + 1 <= Typed'
  <2>1. TypeError \/ GoOn \/ Stop("aborted")
    BY FunctionShape
  <2>2. phase' = "done" \/ (phase' = "type" /\ pc' \in {pc + 1, Len(program) + 1})
    BY <1>1, <2>1 DEF TypeError, GoOn, Stop
  <2> QED BY <1>1, <2>2 DEF Typed, source
<1>3. \A i \in DOMAIN symbol : i \in Nat /\ i < pc
  <2>1. DOMAIN symbol \subseteq Nat
    BY DEF LinkageInv, TablesOK, SymbolOK, FunctionNodes, CallNodes, Nodes
  <2> QED BY <1>1, <2>1 DEF GivenOK
<1>4. pc \notin DOMAIN symbol
  BY <1>1, <1>3
<1>5. symbol' = symbol \/ symbol' = Bind(symbol, pc, MadeUpSymbol)
  BY FunctionShape
<1>6. \A i \in DOMAIN symbol' : i < Typed'
  BY <1>1, <1>2, <1>3, <1>5 DEF Bind
<1>7. \A i \in DOMAIN symbol : i \in DOMAIN symbol' /\ symbol'[i] = symbol[i]
  BY <1>4, <1>5 DEF Bind
<1>8. \A n \in DOMAIN table : \A k \in DOMAIN table[n].overloads :
        /\ table[n].overloads[k] \in DOMAIN symbol
        /\ symbol[table[n].overloads[k]] = GivenSymbol(n, k - 1)
  <2>1. \A n \in DOMAIN functions : \A k \in DOMAIN functions[n].overloads :
          /\ functions[n].overloads[k] \in DOMAIN symbol
          /\ symbol[functions[n].overloads[k]] = GivenSymbol(n, k - 1)
    BY DEF LinkageInv, TablesOK, TableOK, EntryOK, GivenOK, Overloads
  <2>2. CASE name \in DOMAIN functions
    BY <2>1, <2>2 DEF FunctionTable
  <2>3. CASE name \notin DOMAIN functions
    <3>1. \A n \in DOMAIN table :
            IF n = name THEN table[n].overloads = <<>> ELSE n \in DOMAIN functions /\ table[n] = functions[n]
      BY <2>3 DEF FunctionTable, Bind
    <3>2. DOMAIN <<>> = {}
      OBVIOUS
    <3> HIDE DEF table, name
    <3> QED BY <2>1, <3>1, <3>2
  <2> QED BY <2>2, <2>3
<1> HIDE DEF table
<1>9. CASE functions' = table
  BY <1>6, <1>7, <1>8, <1>9 DEF GivenOK, Overloads
<1>10. CASE functions' # table
  <2>1. functions' = added /\ symbol' = Bind(symbol, pc, MadeUpSymbol)
    BY <1>4, <1>10, FunctionShape DEF table
  <2>2. symbol'[pc] = GivenSymbol(name, Len(table[name].overloads))
    BY <2>1 DEF Bind, MadeUpSymbol, table
  <2>3. name \in DOMAIN table
    BY FunctionTableGrows DEF table
  <2>4. /\ DOMAIN added = DOMAIN table
        /\ \A n \in DOMAIN table : n # name => added[n] = table[n]
        /\ added[name] = [table[name] EXCEPT !.overloads = Append(@, pc)]
    BY <2>3
  <2> DEFINE o == table[name].overloads
             m == Len(o)
             new == Append(o, pc)
  <2>5. table[name] \in [result : Results \cup {Absent}, overloads : Seq(Nat)]
    <3>1. CASE name \in DOMAIN functions
      BY <3>1 DEF FunctionTable, table, LinkageInv, TablesOK, TableOK, EntryOK
    <3>2. CASE name \notin DOMAIN functions
      <4>1. table[name] = [result |-> Node.result, overloads |-> <<>>]
        BY <3>2 DEF FunctionTable, table, Bind
      <4>2. Node.result \in Results
        BY FunctionShape, FunctionVisited DEF LinkageInv
      <4>3. <<>> \in Seq(Nat)
        BY EmptySeq
      <4> QED BY <4>1, <4>2, <4>3
    <3> QED BY <3>1, <3>2
  <2>6. o \in Seq(Nat) /\ added[name].overloads = new
    BY <2>4, <2>5
  <2>7. /\ m \in Nat /\ DOMAIN o = 1 .. m /\ DOMAIN new = 1 .. m + 1
        /\ \A k \in 1 .. m : new[k] = o[k]
        /\ new[m + 1] = pc
    <3>1. pc \in Nat
      BY <1>1
    <3>2. /\ new \in Seq(Nat) /\ Len(new) = Len(o) + 1
          /\ \A k \in 1 .. Len(o) : new[k] = o[k]
          /\ new[Len(o) + 1] = pc
      BY <2>6, <3>1, AppendProperties
    <3>3. Len(o) \in Nat /\ DOMAIN o = 1 .. Len(o)
      BY <2>6, LenProperties
    <3>4. DOMAIN new = 1 .. Len(new)
      BY <3>2, LenProperties
    <3> QED BY <3>2, <3>3, <3>4
  <2>8. \A k \in DOMAIN o : o[k] \in DOMAIN symbol /\ symbol[o[k]] = GivenSymbol(name, k - 1)
    BY <1>8, <2>3
  <2>9. symbol'[pc] = GivenSymbol(name, m)
    BY <2>2
  <2> HIDE DEF o, m, new, added, name
  <2>10. ASSUME NEW k \in DOMAIN new
         PROVE  symbol'[new[k]] = GivenSymbol(name, k - 1)
    <3>1. CASE k = m + 1
      <4>1. k - 1 = m
        BY <2>7, <3>1
      <4> QED BY <2>7, <2>9, <3>1, <4>1
    <3>2. CASE k # m + 1
      <4>1. k \in 1 .. m
        BY <2>7, <3>2
      <4> QED BY <1>7, <2>7, <2>8, <4>1
    <3> QED BY <3>1, <3>2
  <2>11. \A n \in DOMAIN added : \A k \in DOMAIN added[n].overloads :
           symbol'[added[n].overloads[k]] = GivenSymbol(n, k - 1)
    <3> SUFFICES ASSUME NEW n \in DOMAIN added, NEW k \in DOMAIN added[n].overloads
                 PROVE  symbol'[added[n].overloads[k]] = GivenSymbol(n, k - 1)
      OBVIOUS
    <3>1. CASE n = name
      BY <2>6, <2>10, <3>1
    <3>2. CASE n # name
      <4>1. n \in DOMAIN table /\ added[n] = table[n]
        BY <2>4, <3>2
      <4> QED BY <1>7, <1>8, <4>1
    <3> QED BY <3>1, <3>2
  <2> QED BY <1>6, <2>1, <2>11 DEF GivenOK, Overloads
<1> QED BY <1>9, <1>10

LEMMA GivenTypeCall ==
  ASSUME LinkageInv, GivenOK, [Next]_vars, PragmaNodes = {}, TypeCall
  PROVE  GivenOK'
<1>1. /\ phase = "type" /\ Typed = pc /\ UNCHANGED source
      /\ pc \in 1 .. Len(program) /\ Len(program) \in Nat
      /\ pc \notin FunctionNodes
  <2>1. phase = "type" /\ Visits("type", "call") /\ UNCHANGED source
    BY CallShape
  <2> QED BY <2>1, NodeVisited, CallVisited DEF LinkageInv, Typed
<1>2. \/ symbol' = symbol
      \/ \E s : symbol' = Bind(symbol, pc, s)
  BY CallShape
<1>3. \A i \in FunctionNodes : symbol'[i] = symbol[i] \/ i \notin DOMAIN symbol
  BY <1>1, <1>2 DEF Bind
<1>4. DOMAIN symbol' \subseteq DOMAIN symbol \cup {pc}
  BY <1>2 DEF Bind
<1>5. Typed' \in Int /\ Typed <= Typed' /\ (symbol' # symbol => Typed < Typed')
  <2>1. Typed \in Nat /\ Typed' \in Nat /\ Typed <= Typed'
    BY TypedGrows DEF LinkageInv
  <2>2. symbol' # symbol => GoOn \/ TypeError \/ Stop("aborted")
    BY CallShape
  <2>3. GoOn \/ TypeError \/ Stop("aborted") => Typed' \in {pc + 1, Len(program) + 1}
    BY <1>1 DEF GoOn, TypeError, Stop, Typed, source
  <2> QED BY <1>1, <2>1, <2>2, <2>3
<1>6. \A i \in DOMAIN symbol' : i < Typed'
  <2>1. DOMAIN symbol \subseteq Nat
    BY DEF LinkageInv, TablesOK, SymbolOK, FunctionNodes, CallNodes, Nodes
  <2>2. \A i \in DOMAIN symbol : i < Typed'
    BY <1>1, <1>5, <2>1 DEF GivenOK
  <2> QED BY <1>1, <1>4, <1>5, <2>2
<1>7. \A n \in DOMAIN functions' : \A k \in DOMAIN functions'[n].overloads :
        /\ n \in DOMAIN functions /\ k \in DOMAIN functions[n].overloads
        /\ functions'[n].overloads[k] = functions[n].overloads[k]
  <2>1. functions' = functions \/ functions' = CallTable
    BY CallShape
  <2>2. \A n \in DOMAIN CallTable :
          \/ n \in DOMAIN functions /\ CallTable[n] = functions[n]
          \/ CallTable[n].overloads = <<>>
    BY DEF CallTable, Bind, NoFunction
  <2>3. DOMAIN <<>> = {}
    OBVIOUS
  <2> QED BY <2>1, <2>2, <2>3
<1>8. \A n \in DOMAIN functions : \A k \in DOMAIN functions[n].overloads :
        /\ functions[n].overloads[k] \in FunctionNodes
        /\ functions[n].overloads[k] \in DOMAIN symbol
        /\ symbol[functions[n].overloads[k]] = GivenSymbol(n, k - 1)
  BY DEF LinkageInv, TablesOK, TableOK, EntryOK, GivenOK, Overloads, FunctionNodes, Nodes
<1> QED BY <1>3, <1>6, <1>7, <1>8 DEF GivenOK, Overloads

LEMMA GivenStep == LinkageInv /\ GivenOK /\ [Next]_vars => GivenOK'
<1> SUFFICES ASSUME LinkageInv, GivenOK, [Next]_vars, PragmaNodes' = {} PROVE GivenOK'
  BY DEF GivenOK
<1>1. SourceOK /\ PragmaNodes = {}
  BY NodesGrow DEF LinkageInv
<1>2. CASE ReadStep
  <2>1. PICK item \in Items : Reads(item, Opened + DepthStep(item))
    BY <1>1, <1>2, ReadShape
  <2> QED BY <2>1, GivenStays DEF Reads, checked
<1>3. CASE EndOfSource \/ EndWalk \/ UNCHANGED vars
  BY <1>3, GivenStays DEF EndOfSource, EndWalk, vars, checked
<1>4. CASE VisitPragma
  <2>1. pc \in PragmaNodes
    BY <1>1, <1>4, NodeVisited DEF VisitPragma, PragmaNodes, Nodes
  <2> QED BY <1>1, <2>1
<1>5. CASE PragmaFunction \/ PragmaEnd \/ PragmaCall \/ CodegenStep \/ TypeEnd \/ TypePragma
  BY <1>5, GivenStays
     DEF PragmaFunction, PragmaEnd, PragmaCall, CodegenStep, GenerateFunction, GenerateNothing,
         GenerateCall, EndOfCode, TypeEnd, TypePragma, checked
<1>6. CASE TypeFunction
  BY <1>1, <1>6, GivenTypeFunction
<1>7. CASE TypeCall
  BY <1>1, <1>7, GivenTypeCall
<1> QED BY <1>2, <1>3, <1>4, <1>5, <1>6, <1>7, StepCases DEF VisitStep, PragmaStep, TypeStep

LEMMA GivenDiffer ==
  ASSUME NamesUnlikeSuffixes, NEW n \in Names, NEW m \in Names,
         NEW j \in 0 .. MaxItems, NEW k \in 0 .. MaxItems,
         n # m \/ j # k
  PROVE  GivenSymbol(n, j) # GivenSymbol(m, k)
<1>1. CASE j = 0 /\ k = 0
  BY <1>1 DEF GivenSymbol
<1>2. CASE j = 0 /\ k # 0
  <2>1. k \in 1 .. MaxItems
    BY <1>2, LinkageAssumption
  <2> QED BY <1>2, <2>1 DEF GivenSymbol, NamesUnlikeSuffixes
<1>3. CASE j # 0 /\ k = 0
  <2>1. j \in 1 .. MaxItems
    BY <1>3, LinkageAssumption
  <2> QED BY <1>3, <2>1 DEF GivenSymbol, NamesUnlikeSuffixes
<1>4. CASE j # 0 /\ k # 0
  <2>1. j \in 1 .. MaxItems /\ k \in 1 .. MaxItems
    BY <1>4, LinkageAssumption
  <2> QED BY <1>4, <2>1, SuffixAssumption DEF GivenSymbol
<1> QED BY <1>1, <1>2, <1>3, <1>4

(* Two functions in the table never share a symbol that the type visitor    *)
(* made up, as long as no name reads like a numbered one.                   *)
THEOREM SymbolsAreDistinct == Spec => []SymbolsDistinct
<1>1. LinkageInv /\ GivenOK => SymbolsDistinct
  <2> SUFFICES ASSUME LinkageInv, GivenOK, PragmaNodes = {}, NamesUnlikeSuffixes,
                      NEW f \in FunctionNodes, NEW g \in FunctionNodes,
                      Registered(f), Registered(g), f # g
               PROVE  symbol[f] # symbol[g]
    BY DEF SymbolsDistinct
  <2> DEFINE n == program[f].name
             m == program[g].name
  <2>1. PICK j \in DOMAIN Overloads(n) : Overloads(n)[j] = f
    BY DEF Registered
  <2>2. PICK k \in DOMAIN Overloads(m) : Overloads(m)[k] = g
    BY DEF Registered
  <2>3. n \in DOMAIN functions /\ m \in DOMAIN functions /\ DOMAIN functions \subseteq Names
    BY DEF Registered, LinkageInv, TablesOK, TableOK
  <2>4. symbol[f] = GivenSymbol(n, j - 1) /\ symbol[g] = GivenSymbol(m, k - 1)
    BY <2>1, <2>2, <2>3 DEF GivenOK
  <2>5. n # m \/ j # k
    BY <2>1, <2>2
  <2>6. j \in 1 .. MaxItems /\ k \in 1 .. MaxItems
    <3>1. Len(program) \in Nat /\ Len(program) <= MaxItems /\ MaxItems \in Nat
      BY LenProperties, LinkageAssumption DEF LinkageInv, SourceOK
    <3>2. ASSUME NEW name \in DOMAIN functions, NEW i \in DOMAIN Overloads(name)
          PROVE  i \in 1 .. MaxItems
      <4> DEFINE o == Overloads(name)
      <4>1. EntryOK(functions[name], name, program, DOMAIN symbol, Typed)
        BY DEF LinkageInv, TablesOK, TableOK
      <4>2. o \in Seq(Nat) /\ i <= o[i] /\ o[i] \in 1 .. Len(program)
        BY <4>1 DEF EntryOK, Overloads
      <4>3. DOMAIN o = 1 .. Len(o) /\ Len(o) \in Nat
        BY <4>2, LenProperties
      <4> HIDE DEF o
      <4>4. i \in 1 .. Len(o)
        BY <4>3 DEF o
      <4> QED BY <3>1, <4>2, <4>3, <4>4
    <3> QED BY <2>1, <2>2, <2>3, <3>2
  <2> HIDE DEF n, m
  <2>7. j - 1 \in 0 .. MaxItems /\ k - 1 \in 0 .. MaxItems /\ (j # k => j - 1 # k - 1)
    BY <2>6, LinkageAssumption
  <2>8. GivenSymbol(n, j - 1) # GivenSymbol(m, k - 1)
    BY <2>3, <2>5, <2>7, GivenDiffer
  <2> QED BY <2>4, <2>8
<1>2. Init => LinkageInv /\ GivenOK
  BY GivenInit, SourceInit, NamesInit, TablesInit DEF LinkageInv
<1>3. LinkageInv /\ GivenOK /\ [Next]_vars => (LinkageInv /\ GivenOK)'
  BY GivenStep, SourceStep, NamesStep, TablesStep DEF LinkageInv
<1> QED BY <1>1, <1>2, <1>3, PTL DEF Spec
-----------------------------------------------------------------------------
InCodegen == phase = "codegen" \/ outcome = "compiled"

(* b is the last function with a body before node i. *)
LastBody(prog, b, i) ==
  IF b = NoNode THEN \A j \in 1 .. i - 1 : ~HasBody(prog[j])
  ELSE /\ b \in 1 .. i - 1 /\ HasBody(prog[b])
       /\ \A j \in b + 1 .. i - 1 : ~HasBody(prog[j])

-----------------------------------------------------------------------------
(* Where calls are emitted *)

(* The insert point is in the body that was generated last, and every call  *)
(* that the code generator came past was emitted there.                     *)
EmittedOK ==
  /\ phase \in {"parse", "pragma", "type"} =>
       emitted = {} /\ insert = NoNode /\ DOMAIN module = {}
  /\ InCodegen => LastBody(program, insert, pc)
  /\ \A e \in emitted :
       e.call \in CallNodes /\ e.within # NoNode /\ LastBody(program, e.within, e.call)
  /\ InCodegen => \A c \in CallNodes : c < pc => \E e \in emitted : e.call = c
  /\ outcome = "compiled" => phase = "done" /\ pc = Len(program) + 1

LEMMA LastBodyFirst == ASSUME NEW prog PROVE LastBody(prog, NoNode, 1)
BY DEF LastBody

LEMMA LastBodyNext ==
  ASSUME NEW prog, NEW b \in Nat, NEW i \in Nat \ {0}, LastBody(prog, b, i)
  PROVE  LastBody(prog, IF HasBody(prog[i]) THEN i ELSE b, i + 1)
<1>1. CASE HasBody(prog[i])
  BY <1>1 DEF LastBody, NoNode
<1>2. CASE ~HasBody(prog[i]) /\ b = NoNode
  BY <1>2 DEF LastBody, NoNode
<1>3. CASE ~HasBody(prog[i]) /\ b # NoNode
  BY <1>3 DEF LastBody, NoNode
<1> QED BY <1>1, <1>2, <1>3

LEMMA EmittedInit == Init => EmittedOK
<1> SUFFICES ASSUME Init PROVE EmittedOK
  OBVIOUS
<1>1. DOMAIN EmptyScope = {}
  BY DEF EmptyScope
<1> QED BY <1>1 DEF Init, EmittedOK, InCodegen

(* No walk but the code generator's touches what it keeps. *)
LEMMA OtherSteps ==
  ASSUME SourceOK, [Next]_vars
  PROVE  \/ CodegenStep
         \/ EndOfSource
         \/ /\ phase \in {"parse", "pragma", "type"} /\ UNCHANGED generated
            /\ phase' \in {"parse", "pragma", "type"} \/ (phase' = "done" /\ outcome' # "compiled")
            /\ outcome' # "compiled"
         \/ UNCHANGED vars
<1>0. phase # "done" => outcome = "compiling"
  BY DEF SourceOK, Outcomes
<1>1. CASE ReadStep
  BY <1>0, <1>1, ReadShape DEF Reads, Following
<1>2. CASE PragmaStep
  BY <1>0, <1>2 DEF PragmaStep, PragmaFunction, PragmaEnd, PragmaCall, VisitPragma, Visits, GoOn, Stop
<1>3. CASE TypeStep
  <2>1. CASE TypeFunction
    BY <1>0, <2>1, FunctionShape DEF GoOn, TypeError, Stop
  <2>2. CASE TypeCall
    BY <1>0, <2>2, CallShape DEF GoOn, TypeError, Stop
  <2>3. CASE TypeEnd \/ TypePragma
    BY <1>0, <2>3 DEF TypeEnd, TypePragma, Visits, GoOn
  <2> QED BY <1>3, <2>1, <2>2, <2>3 DEF TypeStep
<1>4. CASE EndWalk
  BY <1>0, <1>4 DEF EndWalk, Following
<1> QED BY <1>1, <1>2, <1>3, <1>4, StepCases DEF VisitStep

LEMMA EmittedStep ==
  ASSUME LinkageInv, EmittedOK, [Next]_vars
  PROVE  EmittedOK'
<1>0. SourceOK /\ insert \in Nat /\ Len(program) \in Nat
  <2>1. SourceOK /\ NodesOK /\ Len(program) \in Nat
    BY LenProperties DEF LinkageInv, TablesOK, SourceOK
  <2> QED BY <2>1 DEF NodesOK, FunctionNodes, Nodes, NoNode
<1>1. CASE EndOfSource
  <2>1. /\ phase = "parse" /\ UNCHANGED <<source, generated>>
        /\ \/ phase' = "done" /\ outcome' = "rejected"
           \/ phase' = "codegen" /\ pc' = 1 /\ outcome' = outcome
    BY <1>1 DEF EndOfSource
  <2>2. phase # "done" /\ outcome = "compiling"
    BY <1>0, <2>1 DEF SourceOK, Outcomes
  <2>3. emitted' = {} /\ insert' = NoNode
    BY <2>1 DEF EmittedOK, generated
  <2>4. CASE phase' = "done"
    BY <2>1, <2>3, <2>4 DEF EmittedOK, InCodegen
  <2>5. CASE phase' = "codegen" /\ pc' = 1 /\ outcome' = outcome
    <3>1. LastBody(program', insert', pc')
      BY <2>3, <2>5, LastBodyFirst
    <3>2. \A c \in CallNodes' : ~(c < pc')
      BY <2>5 DEF CallNodes, Nodes
    <3> QED BY <2>2, <2>3, <2>5, <3>1, <3>2 DEF EmittedOK, InCodegen
  <2> QED BY <2>1, <2>4, <2>5
<1>2. CASE CodegenStep
  <2>0. /\ phase = "codegen" /\ UNCHANGED source /\ InCodegen
        /\ CallNodes' = CallNodes /\ outcome = "compiling"
    BY <1>0, <1>2 DEF CodegenStep, GenerateFunction, GenerateNothing, GenerateCall, EndOfCode, Visits,
                      InCodegen, CallNodes, Nodes, source, SourceOK, Outcomes
  <2>1. CASE phase' = "done" /\ outcome' # "compiled"
    <3>1. emitted' = emitted
      BY <1>2, <2>1 DEF CodegenStep, GenerateFunction, GenerateNothing, GenerateCall, EndOfCode,
                        GoOn, Stop, Visits, generated
    <3> QED BY <2>0, <2>1, <3>1 DEF EmittedOK, InCodegen, source
  <2>2. CASE EndOfCode
    BY <2>0, <2>2 DEF EndOfCode, Stop, EmittedOK, InCodegen, source, generated
  <2>3. CASE (GenerateFunction \/ GenerateNothing \/ GenerateCall) /\ GoOn
    <3>1. pc \in 1 .. Len(program) /\ pc \in Nat \ {0} /\ phase' = "codegen" /\ pc' = pc + 1
      BY <1>0, <2>0, <2>3 DEF GenerateFunction, GenerateNothing, GenerateCall, Visits, GoOn, SourceOK
    <3>2. insert' = IF HasBody(program[pc]) THEN pc ELSE insert
      BY <2>3 DEF GenerateFunction, GenerateNothing, GenerateCall, Visits, HasBody, Node,
                  SetInsertPoint, generated
    <3>3. LastBody(program', insert', pc')
      BY <1>0, <2>0, <3>1, <3>2, LastBodyNext DEF EmittedOK, source
    <3>4. \/ emitted' = emitted /\ pc \notin CallNodes
          \/ /\ pc \in CallNodes /\ insert # NoNode
             /\ emitted' = emitted \cup
                  {[call |-> pc, callee |-> GetFunction(symbol[pc]), within |-> insert]}
      <4>1. CASE GenerateFunction \/ GenerateNothing
        BY <4>1 DEF GenerateFunction, GenerateNothing, Visits, Node, CallNodes, generated
      <4>2. CASE GenerateCall
        BY <2>3, <3>1, <4>2 DEF GenerateCall, Visits, Node, CallNodes, Nodes, GoOn, Stop
      <4> QED BY <2>3, <4>1, <4>2
    <3>5. \A e \in emitted' :
            e.call \in CallNodes /\ e.within # NoNode /\ LastBody(program, e.within, e.call)
      BY <2>0, <3>4 DEF EmittedOK
    <3>6. \A c \in CallNodes : c < pc + 1 => \E e \in emitted' : e.call = c
      <4> SUFFICES ASSUME NEW c \in CallNodes, c < pc + 1 PROVE \E e \in emitted' : e.call = c
        OBVIOUS
      <4>1. c = pc \/ c < pc
        BY <3>1 DEF CallNodes, Nodes
      <4>2. emitted \subseteq emitted'
        BY <3>4
      <4>3. CASE c = pc
        <5> DEFINE e == [call |-> pc, callee |-> GetFunction(symbol[pc]), within |-> insert]
        <5>1. e \in emitted' /\ e.call = c
          BY <3>4, <4>3
        <5> QED BY <5>1
      <4>4. CASE c < pc
        <5>1. \E e \in emitted : e.call = c
          BY <2>0, <4>4 DEF EmittedOK
        <5> QED BY <4>2, <5>1
      <4> QED BY <4>1, <4>3, <4>4
    <3> QED BY <2>0, <2>3, <3>1, <3>3, <3>5, <3>6 DEF EmittedOK, InCodegen, source, GoOn
  <2> QED BY <1>2, <2>1, <2>2, <2>3
          DEF CodegenStep, GenerateFunction, GenerateNothing, GenerateCall, Stop
<1>3. CASE /\ phase \in {"parse", "pragma", "type"} /\ UNCHANGED generated
           /\ phase' \in {"parse", "pragma", "type"} \/ (phase' = "done" /\ outcome' # "compiled")
           /\ outcome' # "compiled"
  <2>1. emitted' = {} /\ insert' = NoNode /\ DOMAIN module' = {}
    BY <1>3 DEF EmittedOK, generated
  <2>2. ~InCodegen'
    BY <1>3 DEF InCodegen
  <2> QED BY <1>3, <2>1, <2>2 DEF EmittedOK
<1>4. CASE UNCHANGED vars
  BY <1>4 DEF vars, source, walk, generated, EmittedOK, InCodegen, CallNodes, Nodes
<1> QED BY <1>0, <1>1, <1>2, <1>3, <1>4, OtherSteps

(* Without a body in between, no node is less deep than a later one. *)
LEMMA NotShallower ==
  ASSUME NEW prog, NEW k \in Int, NEW i \in Int, k <= i,
         \A j \in k .. i - 1 : ~HasBody(prog[j])
  PROVE  DepthOf(prog, k) >= DepthOf(prog, i)
<1>1. BodiesBefore(prog, k) = BodiesBefore(prog, i)
  BY DEF BodiesBefore
<1>2. EndsBefore(prog, k) \subseteq EndsBefore(prog, i)
  BY DEF EndsBefore
<1>3. Cardinality(EndsBefore(prog, k)) <= Cardinality(EndsBefore(prog, i))
  BY <1>2, BeforeFinite, FS_Subset
<1>4. /\ Cardinality(EndsBefore(prog, k)) \in Nat /\ Cardinality(EndsBefore(prog, i)) \in Nat
      /\ Cardinality(BodiesBefore(prog, k)) \in Nat
  BY BeforeFinite
<1> QED BY <1>1, <1>3, <1>4 DEF DepthOf

(* Where functions with bodies are at the top level only, the last body     *)
(* before a call in a body is the one that the call is in.                  *)
LEMMA LastBodyEncloses ==
  ASSUME NEW c \in CallNodes, NEW b, b # NoNode, LastBody(program, b, c),
         Len(program) \in Nat,
         \A f \in FunctionNodes : HasBody(program[f]) => Depth(f) = 0,
         Depth(c) > 0
  PROVE  b = Enclosing(c)
<1> DEFINE open == {j \in 1 .. c - 1 : HasBody(program[j]) /\ \A k \in j + 1 .. c : Depth(k) > Depth(j)}
<1>1. /\ c \in 1 .. Len(program) /\ b \in 1 .. c - 1 /\ HasBody(program[b])
      /\ \A j \in b + 1 .. c - 1 : ~HasBody(program[j])
  BY DEF LastBody, CallNodes, Nodes
<1>2. Depth(b) = 0
  <2>1. b \in FunctionNodes
    BY <1>1 DEF FunctionNodes, Nodes, HasBody
  <2> QED BY <1>1, <2>1
<1>3. ASSUME NEW k \in b + 1 .. c PROVE Depth(k) > 0
  <2>1. k \in Int /\ c \in Int /\ k <= c /\ \A j \in k .. c - 1 : ~HasBody(program[j])
    BY <1>1
  <2>2. DepthOf(program, k) >= DepthOf(program, c)
    BY <2>1, NotShallower
  <2>3. DepthOf(program, k) \in Int /\ DepthOf(program, c) \in Int /\ DepthOf(program, c) > 0
    BY <2>1, BeforeFinite, DepthIs
  <2> QED BY <2>2, <2>3, DepthIs
<1>4. b \in open
  BY <1>1, <1>2, <1>3
<1>5. \A k \in open : k <= b
  BY <1>1
<1>6. \A j \in open : (\A k \in open : k <= j) => j = b
  BY <1>1, <1>4, <1>5
<1>7. Enclosing(c) = IF open = {} THEN NoNode ELSE CHOOSE j \in open : \A k \in open : k <= j
  BY DEF Enclosing
<1> HIDE DEF open
<1>8. (CHOOSE j \in open : \A k \in open : k <= j) = b
  BY <1>4, <1>5, <1>6
<1> QED BY <1>4, <1>7, <1>8

(* One insert point is enough for functions that are not inside others: a   *)
(* program that was compiled has every call exactly in the body that it was *)
(* written in.                                                              *)
THEOREM CallsInTheirCallers == Spec => []EmittedInCaller
<1>1. LinkageInv /\ EmittedOK => EmittedInCaller
  <2> SUFFICES ASSUME LinkageInv, EmittedOK, Compiled,
                      \A f \in FunctionNodes : HasBody(program[f]) => Depth(f) = 0,
                      \A c \in CallNodes : Depth(c) > 0
               PROVE  /\ \A e \in emitted : e.within = Enclosing(e.call)
                      /\ {e.call : e \in emitted} = CallNodes
    BY DEF EmittedInCaller
  <2>0. Len(program) \in Nat
    BY LenProperties DEF LinkageInv, SourceOK
  <2>1. ASSUME NEW e \in emitted PROVE e.within = Enclosing(e.call)
    BY <2>0, <2>1, LastBodyEncloses DEF EmittedOK
  <2>2. pc = Len(program) + 1 /\ InCodegen
    BY DEF Compiled, EmittedOK, InCodegen
  <2>3. \A c \in CallNodes : c < pc
    BY <2>0, <2>2 DEF CallNodes, Nodes
  <2>4. {e.call : e \in emitted} = CallNodes
    BY <2>2, <2>3 DEF EmittedOK
  <2> QED BY <2>1, <2>4
<1>2. Init => EmittedOK
  BY EmittedInit
<1>3. LinkageInv /\ EmittedOK /\ [Next]_vars => EmittedOK'
  BY EmittedStep
<1> QED BY <1>1, <1>2, <1>3, LinkageInductive, PTL DEF Spec

-----------------------------------------------------------------------------
(* The blocks of the source *)

(* No "end" is read without an open body, and the pragma and type visitors  *)
(* are in the block that was read last.                                     *)
PlaceOK ==
  /\ \A n \in 1 .. Len(program) + 1 : DepthOf(program, n) \in Nat
  /\ phase \in {"pragma", "type"} => unit <= pc

(* Node j starts the top-level block that node i is in. *)
Starts(prog, j, i) == DepthOf(prog, j) = 0 /\ \A k \in j + 1 .. i : DepthOf(prog, k) > 0
StartOf(prog, i) == CHOOSE j \in 1 .. i : Starts(prog, j, i)

LEMMA UnitIs == \A i : UnitOf(i) = StartOf(program, i)
BY DEF UnitOf, StartOf, Starts, Depth, DepthOf, BodiesBefore, EndsBefore

LEMMA StartExists ==
  ASSUME NEW prog, NEW i \in Nat, NEW u \in 1 .. i, DepthOf(prog, u) = 0,
         \A n \in 1 .. i : DepthOf(prog, n) \in Nat
  PROVE  \E j \in u .. i : Starts(prog, j, i)
<1> DEFINE T == {j \in 1 .. i : DepthOf(prog, j) = 0}
<1>1. T \in SUBSET (1 .. i) /\ u \in T
  OBVIOUS
<1>2. PICK j \in T : \A k \in T : k <= j
  <2> HIDE DEF T
  <2> QED BY <1>1, LastPosition
<1>3. j \in u .. i /\ DepthOf(prog, j) = 0
  BY <1>1, <1>2
<1>4. ASSUME NEW k \in j + 1 .. i PROVE DepthOf(prog, k) > 0
  <2>1. k \in 1 .. i /\ k \notin T
    BY <1>2, <1>3
  <2>2. DepthOf(prog, k) # 0 /\ DepthOf(prog, k) \in Nat
    BY <2>1
  <2> QED BY <2>2
<1> QED BY <1>3, <1>4 DEF Starts

LEMMA StartUnique ==
  ASSUME NEW prog, NEW i \in Nat, NEW j \in 1 .. i, Starts(prog, j, i)
  PROVE  StartOf(prog, i) = j
<1>1. ASSUME NEW m \in 1 .. i, Starts(prog, m, i) PROVE m = j
  <2>1. CASE m < j
    BY <1>1, <2>1 DEF Starts
  <2>2. CASE j < m
    BY <1>1, <2>2 DEF Starts
  <2> QED BY <2>1, <2>2
<1> QED BY <1>1 DEF StartOf

(* The block of a node starts at it or before, and not before any other     *)
(* start of a block that is.                                                *)
LEMMA StartBounds ==
  ASSUME PlaceOK, Len(program) \in Nat, NEW i \in 1 .. Len(program)
  PROVE  /\ StartOf(program, i) \in 1 .. i /\ Starts(program, StartOf(program, i), i)
         /\ \A u \in 1 .. i : DepthOf(program, u) = 0 => u <= StartOf(program, i)
<1>1. i \in Nat /\ 1 \in 1 .. i /\ \A n \in 1 .. i : DepthOf(program, n) \in Nat
  BY DEF PlaceOK
<1>2. PICK j \in 1 .. i : Starts(program, j, i)
  BY <1>1, DepthFirst, StartExists
<1>3. StartOf(program, i) = j
  BY <1>1, <1>2, StartUnique
<1>4. ASSUME NEW u \in 1 .. i, DepthOf(program, u) = 0 PROVE u <= j
  BY <1>2, <1>4 DEF Starts
<1> QED BY <1>2, <1>3, <1>4

LEMMA PlaceInit == Init => PlaceOK
<1> SUFFICES ASSUME Init PROVE PlaceOK
  OBVIOUS
<1>1. Len(program) = 0 /\ phase = "parse"
  BY EmptySeq DEF Init
<1>2. \A n \in 1 .. 0 + 1 : n = 1
  OBVIOUS
<1> QED BY <1>1, <1>2, DepthFirst DEF PlaceOK

LEMMA PlaceStep ==
  ASSUME SourceOK, PlaceOK, [Next]_vars
  PROVE  PlaceOK'
<1>0. /\ Len(program) \in Nat /\ unit \in 1 .. Len(program) + 1
      /\ pc \in 1 .. Len(program) + 1
  BY LenProperties DEF SourceOK
<1>1. CASE ReadStep
  <2>1. PICK item \in Items :
          Reads(item, Opened + DepthStep(item)) /\ Opened + DepthStep(item) \in Nat
    BY <1>1, ReadShape
  <2>2. /\ Len(program') = Len(program) + 1 /\ Opened' \in Nat
        /\ \A n \in 1 .. Len(program) + 1 : DepthOf(program', n) = DepthOf(program, n)
    BY <2>1, Grows, OpensBy
  <2>3. DepthOf(program', Len(program) + 2) \in Nat
    BY <1>0, <2>2 DEF Opened
  <2>4. ASSUME NEW n \in 1 .. Len(program') + 1 PROVE DepthOf(program', n) \in Nat
    <3>1. n \in 1 .. Len(program) + 1 \/ n = Len(program) + 2
      BY <1>0, <2>2
    <3> QED BY <2>2, <2>3, <3>1 DEF PlaceOK
  <2>5. phase = "parse" /\ unit' = unit /\ (phase' = phase \/ pc' = unit)
    BY <2>1 DEF Reads
  <2> QED BY <1>0, <2>4, <2>5 DEF PlaceOK
<1>2. CASE EndOfSource
  <2>1. program' = program /\ phase' \in {"done", "codegen"}
    BY <1>2 DEF EndOfSource, source
  <2> QED BY <2>1 DEF PlaceOK
<1>3. CASE VisitStep
  <2>1. /\ program' = program /\ unit' = unit
        /\ \/ phase' = phase /\ pc' = pc + 1
           \/ phase' = phase /\ pc' = Len(program) + 1
           \/ phase' = "done"
    BY <1>3, VisitShape DEF source, GoOn, Stop, TypeError
  <2> QED BY <1>0, <2>1 DEF PlaceOK
<1>4. CASE EndWalk
  <2>1. program' = program /\ pc' = unit'
    BY <1>4 DEF EndWalk, source
  <2>2. unit' \in Nat
    BY <1>0, <1>4 DEF EndWalk
  <2> QED BY <2>1, <2>2 DEF PlaceOK
<1>5. CASE UNCHANGED vars
  BY <1>5 DEF vars, source, walk, PlaceOK
<1> QED BY <1>1, <1>2, <1>3, <1>4, <1>5, StepCases

(* No pragma is in a later block than a call. *)
PragmasFirst(prog) ==
  \A p, c \in 1 .. Len(prog) :
    prog[p].op = "pragma" /\ prog[c].op = "call" => StartOf(prog, p) <= StartOf(prog, c)

LEMMA PragmasFirstBefore ==
  ASSUME SourceOK, PlaceOK, [Next]_vars, PragmasFirst(program')
  PROVE  PragmasFirst(program)
<1>0. Len(program) \in Nat
  BY LenProperties DEF SourceOK
<1>1. CASE ReadStep
  <2>1. PICK item \in Items : Reads(item, Opened + DepthStep(item))
    BY <1>1, ReadShape
  <2>2. /\ Len(program') = Len(program) + 1
        /\ \A i \in 1 .. Len(program) : program'[i] = program[i]
        /\ \A n \in 1 .. Len(program) + 1 : DepthOf(program', n) = DepthOf(program, n)
    BY <2>1, Grows
  <2>3. ASSUME NEW i \in 1 .. Len(program) PROVE StartOf(program', i) = StartOf(program, i)
    <3>1. PICK j \in 1 .. i : StartOf(program, i) = j /\ Starts(program, j, i)
      BY <1>0, StartBounds
    <3>2. /\ DepthOf(program', j) = DepthOf(program, j)
          /\ \A k \in j + 1 .. i : DepthOf(program', k) = DepthOf(program, k)
      BY <1>0, <2>2
    <3>3. Starts(program', j, i)
      BY <3>1, <3>2 DEF Starts
    <3>4. i \in Nat
      BY <1>0
    <3> QED BY <3>1, <3>3, <3>4, StartUnique
  <2>4. \A i \in 1 .. Len(program) : i \in 1 .. Len(program')
    BY <1>0, <2>2
  <2> QED BY <2>2, <2>3, <2>4 DEF PragmasFirst
<1>2. CASE UNCHANGED source
  BY <1>2 DEF source
<1>3. CASE EndOfSource \/ EndWalk \/ UNCHANGED vars
  BY <1>2, <1>3 DEF EndOfSource, EndWalk, vars
<1>4. CASE VisitStep
  BY <1>2, <1>4, VisitShape
<1> QED BY <1>1, <1>3, <1>4, StepCases

-----------------------------------------------------------------------------
(* What calls were given *)

(* The function chosen for a call comes before it and has its name, and     *)
(* until an error there is one for every call that was visited.             *)
ChosenOK ==
  /\ \A c \in DOMAIN chosen :
       /\ c \in DOMAIN symbol /\ c < Typed
       /\ chosen[c] < c /\ chosen[c] \in DOMAIN symbol
  /\ ~error /\ phase # "done" => \A c \in CallNodes : c < Typed => c \in DOMAIN chosen

(* The symbol that a call keeps stays that of its function. *)
KeptOK == PragmasFirst(program) => \A c \in DOMAIN chosen : symbol[c] = symbol[chosen[c]]

LEMMA ChosenInit == Init => ChosenOK /\ KeptOK
<1> SUFFICES ASSUME Init PROVE ChosenOK /\ KeptOK
  OBVIOUS
<1>1. DOMAIN chosen = {}
  BY DEF Init, EmptyScope
<1>2. CallNodes = {}
  BY EmptySeq DEF Init, CallNodes, Nodes
<1> QED BY <1>1, <1>2 DEF ChosenOK, KeptOK

(* What was chosen stays so, if the walk comes past no call. *)
LEMMA ChosenKept ==
  ASSUME SourceOK, NodesOK, ChosenOK, [Next]_vars,
         UNCHANGED chosen, DOMAIN symbol \subseteq DOMAIN symbol',
         ~error' /\ phase' # "done" =>
           /\ ~error /\ phase # "done"
           /\ \A c \in CallNodes' : c < Typed' => c \in CallNodes /\ c < Typed
  PROVE  ChosenOK'
<1>1. Typed \in Nat /\ Typed' \in Nat /\ Typed <= Typed'
  BY TypedGrows
<1>2. ASSUME NEW c \in DOMAIN chosen PROVE c < Typed'
  <2>1. c \in Nat /\ c < Typed
    BY DEF ChosenOK, NodesOK, CallNodes, Nodes
  <2> QED BY <1>1, <2>1
<1> QED BY <1>1, <1>2 DEF ChosenOK

LEMMA KeptStays ==
  ASSUME SourceOK, PlaceOK, ChosenOK, KeptOK, [Next]_vars, UNCHANGED chosen,
         \A i \in DOMAIN symbol : symbol'[i] = symbol[i]
  PROVE  KeptOK'
<1> SUFFICES ASSUME PragmasFirst(program'), NEW c \in DOMAIN chosen
             PROVE  symbol'[c] = symbol'[chosen[c]]
  BY DEF KeptOK
<1>1. PragmasFirst(program)
  BY PragmasFirstBefore
<1>2. c \in DOMAIN symbol /\ chosen[c] \in DOMAIN symbol
  BY DEF ChosenOK
<1> QED BY <1>1, <1>2 DEF KeptOK

(* A pragma visited when no later block than its own has a call finds no    *)
(* call visited yet.                                                        *)
LEMMA PragmaFirst ==
  ASSUME LinkageInv, PlaceOK, ChosenOK, PragmasFirst(program), Visits("pragma", "pragma")
  PROVE  DOMAIN chosen = {}
<1> SUFFICES ASSUME NEW c \in DOMAIN chosen PROVE FALSE
  OBVIOUS
<1>1. SourceOK /\ NodesOK
  BY DEF LinkageInv, TablesOK
<1>2. pc \in 1 .. Len(program) /\ program[pc].op = "pragma" /\ Len(program) \in Nat /\ phase = "pragma"
  BY <1>1, NodeVisited DEF Visits
<1>3. c \in 1 .. Len(program) /\ program[c].op = "call"
  BY <1>1 DEF NodesOK, CallNodes, Nodes
<1>4. c < unit /\ unit \in 1 .. pc /\ DepthOf(program, unit) = 0
  BY <1>1, <1>2 DEF ChosenOK, Typed, PlaceOK, SourceOK
<1>5. unit <= StartOf(program, pc) /\ StartOf(program, pc) \in 1 .. pc
  BY <1>2, <1>4, StartBounds
<1>6. StartOf(program, c) \in 1 .. c
  BY <1>2, <1>3, StartBounds
<1>7. StartOf(program, pc) <= StartOf(program, c)
  BY <1>2, <1>3 DEF PragmasFirst
<1> QED BY <1>3, <1>4, <1>5, <1>6, <1>7

LEMMA ChosenStep ==
  ASSUME LinkageInv, PlaceOK, ChosenOK, KeptOK, [Next]_vars
  PROVE  ChosenOK' /\ KeptOK'
<1>0. /\ SourceOK /\ NodesOK /\ TableOK /\ Len(program) \in Nat
      /\ unit \in 1 .. Len(program) + 1 /\ pc \in 1 .. Len(program) + 1
  BY LenProperties DEF LinkageInv, TablesOK, SourceOK
<1>1. CASE ReadStep
  <2>1. PICK item \in Items : Reads(item, Opened + DepthStep(item))
    BY <1>0, <1>1, ReadShape
  <2>2. /\ phase = "parse" /\ phase' \in {"parse", "pragma"} /\ unit' = unit
        /\ UNCHANGED <<symbol, chosen, error>>
    BY <2>1 DEF Reads, Following, checked
  <2>3. Typed' = unit /\ Typed = unit
    BY <2>2 DEF Typed
  <2>4. CallNodes' \cap 1 .. Len(program) = CallNodes /\ Len(program') \in Nat
    BY <1>0, NodesGrow
  <2>5. \A c \in CallNodes' : c < unit => c \in CallNodes
    <3>1. CallNodes' \subseteq 1 .. Len(program')
      BY DEF CallNodes, Nodes
    <3> QED BY <1>0, <2>4, <3>1
  <2> QED BY <1>0, <2>2, <2>3, <2>5, ChosenKept, KeptStays
<1>2. CASE EndOfSource
  <2>1. /\ phase = "parse" /\ phase' \in {"codegen", "done"} /\ Here = 0
        /\ UNCHANGED <<program, symbol, chosen, error>>
    BY <1>2 DEF EndOfSource, source, checked
  <2>2. unit = Len(program) + 1
    BY <1>0, <2>1, DepthIs DEF SourceOK, Here, Opened
  <2>3. Typed = Len(program) + 1 /\ Typed' = Len(program) + 1 /\ CallNodes' = CallNodes
    BY <2>1, <2>2 DEF Typed, CallNodes, Nodes
  <2> QED BY <1>0, <2>1, <2>3, ChosenKept, KeptStays
<1>3. CASE PragmaStep
  <2>1. /\ phase = "pragma" /\ phase' \in {"pragma", "done"} /\ unit' = unit
        /\ UNCHANGED <<source, chosen, error>>
    BY <1>3 DEF PragmaStep, PragmaFunction, PragmaEnd, PragmaCall, VisitPragma, Visits, GoOn, Stop,
                checked
  <2>2. phase' # "done" => Typed' = Typed
    BY <2>1 DEF Typed
  <2>3. CallNodes' = CallNodes
    BY <2>1 DEF CallNodes, Nodes, source
  <2>4. CASE UNCHANGED symbol
    BY <1>0, <2>1, <2>2, <2>3, <2>4, ChosenKept, KeptStays
  <2>5. CASE VisitPragma /\ symbol' = Bind(symbol, Resolve(pragmaContext, Node.name), Node.value)
    <3>1. DOMAIN symbol \subseteq DOMAIN symbol'
      BY <2>5 DEF Bind
    <3>2. ChosenOK'
      BY <1>0, <2>1, <2>2, <2>3, <3>1, ChosenKept
    <3>3. Visits("pragma", "pragma")
      BY <2>5 DEF VisitPragma
    <3>4. PragmasFirst(program) => DOMAIN chosen = {}
      BY <3>3, PragmaFirst
    <3>5. PragmasFirst(program') = PragmasFirst(program) /\ DOMAIN chosen' = DOMAIN chosen
      BY <2>1 DEF source
    <3> QED BY <3>2, <3>4, <3>5 DEF KeptOK
  <2> QED BY <1>3, <2>4, <2>5 DEF PragmaStep, PragmaFunction, PragmaEnd, PragmaCall, VisitPragma
<1>4. CASE TypeFunction
  <2>1. /\ phase = "type" /\ UNCHANGED <<source, chosen>> /\ Visits("type", "function")
        /\ error => error'
        /\ symbol' = symbol \/ (pc \notin DOMAIN symbol /\ symbol' = Bind(symbol, pc, MadeUpSymbol))
        /\ TypeError \/ Stop("aborted") \/ GoOn
    BY <1>4, FunctionShape
  <2>2. pc \in FunctionNodes
    BY <1>0, <2>1, FunctionVisited
  <2>3. pc \notin CallNodes /\ CallNodes' = CallNodes
    BY <2>1, <2>2 DEF FunctionNodes, CallNodes, Nodes, source
  <2>4. \A i \in DOMAIN symbol : i \in DOMAIN symbol' /\ symbol'[i] = symbol[i]
    BY <2>1 DEF Bind
  <2>5. ~error' /\ phase' # "done" => ~error /\ phase' = "type" /\ pc' = pc + 1
    BY <2>1 DEF TypeError, Stop, GoOn
  <2>6. ~error' /\ phase' # "done" =>
          /\ ~error /\ phase # "done"
          /\ \A c \in CallNodes' : c < Typed' => c \in CallNodes /\ c < Typed
    <3>1. Typed = pc /\ (phase' = "type" => Typed' = pc')
      BY <2>1 DEF Typed
    <3>2. \A c \in CallNodes : c < pc + 1 => c < pc
      BY <1>0, <2>3 DEF CallNodes, Nodes
    <3> QED BY <2>1, <2>3, <2>5, <3>1, <3>2
  <2> QED BY <1>0, <2>1, <2>4, <2>6, ChosenKept, KeptStays
<1>5. CASE TypeEnd \/ TypePragma
  <2>1. /\ phase = "type" /\ UNCHANGED <<source, chosen, symbol, error>> /\ GoOn
        /\ Visits("type", "end") \/ Visits("type", "pragma")
    BY <1>5 DEF TypeEnd, TypePragma, Visits, checked
  <2>2. pc \notin CallNodes /\ CallNodes' = CallNodes
    BY <2>1 DEF CallNodes, Nodes, source, Visits, Node
  <2>3. Typed = pc /\ Typed' = pc + 1
    BY <2>1 DEF Typed, GoOn
  <2>4. \A c \in CallNodes : c < pc + 1 => c < pc
    BY <1>0, <2>2 DEF CallNodes, Nodes
  <2> QED BY <1>0, <2>1, <2>2, <2>3, <2>4, ChosenKept, KeptStays
<1>6. CASE TypeCall
  <2>1. /\ phase = "type" /\ UNCHANGED source /\ Visits("type", "call")
        /\ error => error'
        /\ \/ UNCHANGED <<symbol, chosen>> /\ (TypeError \/ Stop("aborted") \/ Stop("crashed"))
           \/ /\ Node.name \in DOMAIN functions
              /\ \E k \in DOMAIN Overloads(Node.name) :
                   /\ chosen' = Bind(chosen, pc, Overloads(Node.name)[k])
                   /\ symbol' = Bind(symbol, pc, symbol[Overloads(Node.name)[k]])
                   /\ GoOn \/ TypeError \/ Stop("aborted")
    BY <1>6, CallShape
  <2>2. CASE UNCHANGED <<symbol, chosen>> /\ (TypeError \/ Stop("aborted") \/ Stop("crashed"))
    <3>1. error' \/ phase' = "done"
      BY <2>2 DEF TypeError, Stop
    <3> QED BY <1>0, <2>2, <3>1, ChosenKept, KeptStays
  <2>3. CASE /\ Node.name \in DOMAIN functions
             /\ \E k \in DOMAIN Overloads(Node.name) :
                  /\ chosen' = Bind(chosen, pc, Overloads(Node.name)[k])
                  /\ symbol' = Bind(symbol, pc, symbol[Overloads(Node.name)[k]])
                  /\ GoOn \/ TypeError \/ Stop("aborted")
    <3>1. PICK k \in DOMAIN Overloads(Node.name) :
            /\ chosen' = Bind(chosen, pc, Overloads(Node.name)[k])
            /\ symbol' = Bind(symbol, pc, symbol[Overloads(Node.name)[k]])
            /\ GoOn \/ TypeError \/ Stop("aborted")
      BY <2>3
    <3> DEFINE f == Overloads(Node.name)[k]
    <3>2. EntryOK(functions[Node.name], Node.name, program, DOMAIN symbol, Typed)
      BY <1>0, <2>3 DEF TableOK
    <3>3. Typed = pc /\ pc \in 1 .. Len(program) /\ pc \in CallNodes /\ Node = program[pc]
      <4>1. Typed = pc
        BY <2>1 DEF Typed
      <4>2. pc \in CallNodes
        BY <1>0, <2>1, CallVisited
      <4>3. pc \in 1 .. Len(program) /\ Node = program[pc]
        BY <1>0, <2>1, NodeVisited
      <4> QED BY <4>1, <4>2, <4>3
    <3>4. f \in 1 .. Len(program) /\ f < pc /\ f \in DOMAIN symbol
      BY <3>2, <3>3 DEF EntryOK, Overloads
    <3> HIDE DEF f
    <3>5. /\ DOMAIN chosen' = DOMAIN chosen \cup {pc} /\ chosen'[pc] = f
          /\ \A c \in DOMAIN chosen : c # pc => chosen'[c] = chosen[c]
          /\ DOMAIN symbol' = DOMAIN symbol \cup {pc} /\ symbol'[pc] = symbol[f]
          /\ \A i \in DOMAIN symbol : i # pc => symbol'[i] = symbol[i]
      BY <3>1 DEF Bind, f
    <3>6. pc < Typed' /\ Typed < Typed' /\ Typed' \in Nat
      <4>1. program' = program
        BY <2>1 DEF source
      <4>2. Typed' \in {pc + 1, Len(program) + 1}
        BY <2>1, <3>1, <4>1 DEF GoOn, TypeError, Stop, Typed
      <4> QED BY <1>0, <3>3, <4>2
    <3>7. \A c \in DOMAIN chosen : c \in Nat /\ c < pc /\ c # pc /\ chosen[c] # pc /\ chosen[c] \in DOMAIN symbol
      <4>1. \A c \in DOMAIN chosen : c \in Nat /\ chosen[c] \in Nat /\ c < pc /\ chosen[c] < c
        BY <1>0, <3>3 DEF ChosenOK, NodesOK, CallNodes, FunctionNodes, Nodes
      <4> QED BY <1>0, <4>1 DEF ChosenOK
    <3>8. ChosenOK'
      <4>1. ASSUME NEW c \in DOMAIN chosen'
            PROVE  /\ c \in DOMAIN symbol' /\ c < Typed'
                   /\ chosen'[c] < c /\ chosen'[c] \in DOMAIN symbol'
        <5>1. CASE c = pc
          BY <3>4, <3>5, <3>6, <5>1
        <5>2. CASE c \in DOMAIN chosen /\ c # pc
          <6>1. c \in DOMAIN symbol /\ chosen[c] < c /\ chosen[c] \in DOMAIN symbol
            BY <5>2 DEF ChosenOK
          <6>2. c < Typed'
            BY <1>0, <3>3, <3>6, <3>7, <5>2
          <6> QED BY <3>5, <5>2, <6>1, <6>2
        <5> QED BY <3>5, <5>1, <5>2
      <4>2. ASSUME ~error', phase' # "done", NEW c \in CallNodes', c < Typed'
            PROVE  c \in DOMAIN chosen'
        <5>1. c \in CallNodes /\ Typed' = pc + 1 /\ ~error /\ phase # "done"
          <6>1. ~error /\ phase' = phase /\ pc' = pc + 1
            BY <2>1, <3>1, <4>2 DEF GoOn, TypeError, Stop
          <6>2. Typed' = pc'
            BY <2>1, <6>1 DEF Typed
          <6>3. CallNodes' = CallNodes
            BY <2>1 DEF CallNodes, Nodes, source
          <6> QED BY <2>1, <4>2, <6>1, <6>2, <6>3
        <5>2. c = pc \/ c < pc
          BY <1>0, <4>2, <5>1 DEF CallNodes, Nodes
        <5>3. c < pc => c \in DOMAIN chosen
          BY <3>3, <5>1 DEF ChosenOK
        <5> QED BY <3>5, <5>2, <5>3
      <4> QED BY <4>1, <4>2 DEF ChosenOK
    <3>9. KeptOK'
      <4> SUFFICES ASSUME PragmasFirst(program'), NEW c \in DOMAIN chosen'
                   PROVE  symbol'[c] = symbol'[chosen'[c]]
        BY DEF KeptOK
      <4>1. PragmasFirst(program)
        BY <1>0, PragmasFirstBefore
      <4>2. f # pc
        BY <1>0, <3>4
      <4>3. CASE c = pc
        BY <3>4, <3>5, <4>2, <4>3
      <4>4. CASE c \in DOMAIN chosen /\ c # pc
        <5>1. symbol[c] = symbol[chosen[c]] /\ c \in DOMAIN symbol
          BY <4>1, <4>4 DEF KeptOK, ChosenOK
        <5> QED BY <3>5, <3>7, <4>4, <5>1
      <4> QED BY <3>5, <4>3, <4>4
    <3> QED BY <3>8, <3>9
  <2> QED BY <2>1, <2>2, <2>3
<1>7. CASE EndWalk
  <2>1. /\ UNCHANGED <<source, symbol, chosen, error>> /\ pc = Len(program) + 1
        /\ \/ phase = "pragma" /\ phase' = "type" /\ pc' = unit
           \/ phase = "type" /\ phase' = "parse" /\ unit' = Len(program) + 1
    BY <1>7 DEF EndWalk, Following, checked
  <2>2. Typed' = Typed /\ phase # "done" /\ CallNodes' = CallNodes
    BY <2>1 DEF Typed, CallNodes, Nodes, source
  <2> QED BY <1>0, <2>1, <2>2, ChosenKept, KeptStays
<1>8. CASE CodegenStep
  <2>1. phase = "codegen" /\ UNCHANGED <<source, symbol, chosen, error>> /\ phase' \in {"codegen", "done"}
    BY <1>8 DEF CodegenStep, GenerateFunction, GenerateNothing, GenerateCall, EndOfCode, Visits, GoOn,
                Stop, checked
  <2>2. Typed' = Typed /\ phase # "done" /\ CallNodes' = CallNodes
    BY <2>1 DEF Typed, CallNodes, Nodes, source
  <2> QED BY <1>0, <2>1, <2>2, ChosenKept, KeptStays
<1>9. CASE UNCHANGED vars
  <2>1. Typed' = Typed /\ CallNodes' = CallNodes /\ UNCHANGED <<symbol, chosen, error, phase>>
    BY <1>9 DEF Typed, CallNodes, Nodes, source, vars, walk, checked
  <2> QED BY <1>0, <2>1, ChosenKept, KeptStays
<1> QED BY <1>1, <1>2, <1>3, <1>4, <1>5, <1>6, <1>7, <1>8, <1>9, StepCases DEF VisitStep, TypeStep

-----------------------------------------------------------------------------
(* What calls reach *)

(* The LLVM module has the functions that were generated, by their symbols. *)
ModuleOK ==
  InCodegen =>
    /\ \A s \in DOMAIN module : module[s] \in FunctionNodes /\ symbol[module[s]] = s
    /\ \A f \in FunctionNodes : f < pc => symbol[f] \in DOMAIN module

DistinctSymbols == \A f, g \in FunctionNodes : symbol[f] = symbol[g] => f = g

(* A call that was emitted reaches the function chosen for it. *)
LinkedOK ==
  InCodegen /\ PragmasFirst(program) /\ DistinctSymbols =>
    \A e \in emitted : e.callee = chosen[e.call]

LEMMA LinkedInit == Init => ModuleOK /\ LinkedOK
BY DEF Init, ModuleOK, LinkedOK, InCodegen

LEMMA LinkedStep ==
  ASSUME LinkageInv, EmittedOK, ChosenOK, KeptOK, ModuleOK, LinkedOK, [Next]_vars
  PROVE  ModuleOK' /\ LinkedOK'
<1>0. SourceOK /\ NodesOK /\ Len(program) \in Nat
  BY LenProperties DEF LinkageInv, TablesOK, SourceOK
<1>1. CASE EndOfSource
  <2>1. /\ phase = "parse" /\ UNCHANGED generated
        /\ phase' = "codegen" => pc' = 1
        /\ phase' # "codegen" => ~InCodegen'
    BY <1>1 DEF EndOfSource, InCodegen
  <2>2. emitted' = {} /\ DOMAIN module' = {}
    BY <2>1 DEF EmittedOK, generated
  <2>3. phase' = "codegen" => \A f \in FunctionNodes' : ~(f < pc')
    BY <2>1 DEF FunctionNodes, Nodes
  <2> QED BY <2>1, <2>2, <2>3 DEF ModuleOK, LinkedOK
<1>2. CASE CodegenStep
  <2>0. /\ phase = "codegen" /\ InCodegen /\ UNCHANGED <<program, symbol, chosen>>
        /\ pc \in 1 .. Len(program) + 1
    BY <1>0, <1>2 DEF CodegenStep, GenerateFunction, GenerateNothing, GenerateCall, EndOfCode, Visits,
                      InCodegen, checked, source, SourceOK
  <2>1. /\ FunctionNodes' = FunctionNodes /\ DistinctSymbols' = DistinctSymbols
        /\ PragmasFirst(program') = PragmasFirst(program)
    BY <2>0 DEF FunctionNodes, Nodes, DistinctSymbols
  <2>2. CASE GenerateFunction
    <3>1. /\ pc' = pc + 1 /\ emitted' = emitted
          /\ module' = IF symbol[pc] \in DOMAIN module THEN module ELSE Bind(module, symbol[pc], pc)
      BY <2>2 DEF GenerateFunction, GoOn, CreateFunction
    <3>2. pc \in FunctionNodes
      BY <1>0, <2>2, FunctionVisited DEF GenerateFunction
    <3>3. \A s \in DOMAIN module' : module'[s] \in FunctionNodes /\ symbol[module'[s]] = s
      BY <2>0, <3>1, <3>2 DEF ModuleOK, Bind
    <3>4. DOMAIN module \cup {symbol[pc]} \subseteq DOMAIN module'
      BY <3>1 DEF Bind
    <3>5. \A f \in FunctionNodes : f < pc + 1 => f < pc \/ f = pc
      BY <2>0 DEF FunctionNodes, Nodes
    <3>6. \A f \in FunctionNodes : f < pc + 1 => symbol[f] \in DOMAIN module'
      BY <2>0, <3>4, <3>5 DEF ModuleOK
    <3> QED BY <2>0, <2>1, <3>1, <3>3, <3>6 DEF ModuleOK, LinkedOK
  <2>3. CASE GenerateNothing
    <3>1. pc' = pc + 1 /\ UNCHANGED <<emitted, module>> /\ pc \notin FunctionNodes
      BY <2>3 DEF GenerateNothing, GoOn, generated, Node, FunctionNodes
    <3>2. \A f \in FunctionNodes : f < pc + 1 => f < pc
      BY <2>0, <3>1 DEF FunctionNodes, Nodes
    <3> QED BY <2>0, <2>1, <3>1, <3>2 DEF ModuleOK, LinkedOK
  <2>4. CASE GenerateCall
    <3>1. /\ module' = module /\ (pc' = pc + 1 \/ (phase' = "done" /\ outcome' = "crashed"))
          /\ \/ emitted' = emitted
             \/ emitted' = emitted \cup
                  {[call |-> pc, callee |-> GetFunction(symbol[pc]), within |-> insert]}
      BY <2>4 DEF GenerateCall, GoOn, Stop
    <3>2. pc \in CallNodes /\ pc \notin FunctionNodes
      BY <1>0, <2>4, CallVisited DEF GenerateCall
    <3>3. \A f \in FunctionNodes : f < pc + 1 => f < pc
      BY <2>0, <3>2 DEF FunctionNodes, Nodes
    <3>4. ModuleOK'
      BY <2>0, <2>1, <3>1, <3>3 DEF ModuleOK, InCodegen
    <3>5. PragmasFirst(program) /\ DistinctSymbols => GetFunction(symbol[pc]) = chosen[pc]
      <4> SUFFICES ASSUME PragmasFirst(program), DistinctSymbols
                   PROVE  GetFunction(symbol[pc]) = chosen[pc]
        OBVIOUS
      <4>1. ~error /\ Typed = Len(program) + 1 /\ pc < Typed
        BY <1>0, <2>0, <3>2 DEF SourceOK, Typed, CallNodes, Nodes
      <4>2. pc \in DOMAIN chosen
        BY <2>0, <3>2, <4>1 DEF ChosenOK
      <4>3. symbol[pc] = symbol[chosen[pc]] /\ chosen[pc] < pc /\ chosen[pc] \in FunctionNodes
        BY <1>0, <4>2 DEF KeptOK, ChosenOK, NodesOK
      <4>4. symbol[pc] \in DOMAIN module
        BY <2>0, <4>3 DEF ModuleOK
      <4>5. /\ module[symbol[pc]] \in FunctionNodes
            /\ symbol[module[symbol[pc]]] = symbol[chosen[pc]]
        BY <2>0, <4>3, <4>4 DEF ModuleOK
      <4>6. module[symbol[pc]] = chosen[pc]
        BY <4>3, <4>5 DEF DistinctSymbols
      <4> QED BY <4>4, <4>6 DEF GetFunction
    <3>6. LinkedOK'
      BY <2>0, <2>1, <3>1, <3>5 DEF LinkedOK
    <3> QED BY <3>4, <3>6
  <2>5. CASE EndOfCode
    <3>1. UNCHANGED <<emitted, module, pc>>
      BY <2>5 DEF EndOfCode, Stop, generated
    <3> QED BY <2>0, <2>1, <3>1 DEF ModuleOK, LinkedOK
  <2> QED BY <1>2, <2>2, <2>3, <2>4, <2>5 DEF CodegenStep
<1>3. CASE /\ phase \in {"parse", "pragma", "type"}
           /\ phase' \in {"parse", "pragma", "type"} \/ (phase' = "done" /\ outcome' # "compiled")
           /\ outcome' # "compiled"
  BY <1>3 DEF ModuleOK, LinkedOK, InCodegen
<1>4. CASE UNCHANGED vars
  <2>1. UNCHANGED <<program, symbol, chosen, module, emitted, pc, phase, outcome>>
    BY <1>4 DEF vars, source, walk, checked, generated
  <2>2. /\ FunctionNodes' = FunctionNodes /\ DistinctSymbols' = DistinctSymbols
        /\ PragmasFirst(program') = PragmasFirst(program) /\ InCodegen' = InCodegen
    BY <2>1 DEF FunctionNodes, Nodes, DistinctSymbols, InCodegen
  <2> QED BY <2>1, <2>2 DEF ModuleOK, LinkedOK
<1> QED BY <1>0, <1>1, <1>2, <1>3, <1>4, OtherSteps

(* A call reaches the function that the type visitor chose for it, though   *)
(* only a symbol is handed from one walk to the other, in every program     *)
(* whose symbols are distinct and whose pragmas are in no later block than  *)
(* a call.                                                                  *)
THEOREM CallsReachChosen == Spec => []CallsLinked
<1> DEFINE Inv == EmittedOK /\ PlaceOK /\ ChosenOK /\ KeptOK /\ ModuleOK /\ LinkedOK
<1>1. LinkageInv /\ Inv => CallsLinked
  <2> SUFFICES ASSUME Inv, Compiled,
                      \A f, g \in FunctionNodes : symbol[f] = symbol[g] => f = g,
                      \A p \in PragmaNodes, c \in CallNodes : UnitOf(p) <= UnitOf(c)
               PROVE  \A e \in emitted : e.callee = chosen[e.call]
    BY DEF CallsLinked
  <2>1. PragmasFirst(program)
    BY UnitIs DEF PragmasFirst, PragmaNodes, CallNodes, Nodes
  <2> QED BY <2>1 DEF LinkedOK, DistinctSymbols, InCodegen, Compiled
<1>2. Init => Inv
  BY EmittedInit, PlaceInit, ChosenInit, LinkedInit
<1>3. LinkageInv /\ Inv /\ [Next]_vars => Inv'
  <2> SUFFICES ASSUME LinkageInv, Inv, [Next]_vars PROVE Inv'
    OBVIOUS
  <2>1. EmittedOK' /\ PlaceOK'
    BY EmittedStep, PlaceStep DEF LinkageInv
  <2>2. ChosenOK' /\ KeptOK'
    BY ChosenStep
  <2>3. ModuleOK' /\ LinkedOK'
    BY LinkedStep
  <2> QED BY <2>1, <2>2, <2>3
<1> HIDE DEF Inv
<1> QED BY <1>1, <1>2, <1>3, LinkageInductive, PTL DEF Spec

-----------------------------------------------------------------------------
(* The search for an overload *)

OneEach(prog) ==
  \A i \in 1 .. Len(prog) :
    /\ prog[i].op = "function" => Len(prog[i].parameters) = 1
    /\ prog[i].op = "call" => Len(prog[i].arguments) = 1

(* What of WellTyped keeps the type visitor from refusing anything. *)
Typable(prog) ==
  /\ \A f, g \in 1 .. Len(prog) :
       prog[f].op = "function" /\ prog[g].op = "function" =>
         /\ prog[f].result = prog[g].result
         /\ prog[f].name = prog[g].name /\ prog[f].parameters = prog[g].parameters => f = g
  /\ \A c \in 1 .. Len(prog) : prog[c].op = "call" =>
       /\ prog[c].into = Return
       /\ \E f \in 1 .. c - 1 :
            /\ prog[f].op = "function" /\ prog[f].name = prog[c].name
            /\ Matches(prog[f].parameters, prog[c].arguments)

(* The function chosen for a call is one of its name that accepts it. *)
MeantOK ==
  \A c \in DOMAIN chosen :
    /\ program[chosen[c]].name = program[c].name
    /\ Accepts(program[chosen[c]].parameters, program[c].arguments)

(* What is typable is not refused. *)
FoundOK ==
  /\ currentFunction # Absent => currentFunction \in DOMAIN functions
  /\ outcome = "rejected" => error
  /\ OneEach(program) /\ Typable(program) => ~error

LEMMA TypableBefore ==
  ASSUME SourceOK, [Next]_vars, OneEach(program'), Typable(program')
  PROVE  OneEach(program) /\ Typable(program)
<1>1. /\ Len(program) \in Nat /\ Len(program') \in Nat /\ Len(program) <= Len(program')
      /\ \A i \in 1 .. Len(program) : i \in 1 .. Len(program') /\ program'[i] = program[i]
  BY NodesGrow
<1>2. OneEach(program)
  BY <1>1 DEF OneEach
<1>3. ASSUME NEW c \in 1 .. Len(program), program[c].op = "call"
      PROVE  /\ program[c].into = Return
             /\ \E f \in 1 .. c - 1 :
                  /\ program[f].op = "function" /\ program[f].name = program[c].name
                  /\ Matches(program[f].parameters, program[c].arguments)
  <2>1. \A f \in 1 .. c - 1 : program'[f] = program[f]
    BY <1>1
  <2>2. c \in 1 .. Len(program') /\ program'[c] = program[c]
    BY <1>1
  <2> QED BY <1>3, <2>1, <2>2 DEF Typable
<1>4. \A f, g \in 1 .. Len(program) :
        program[f].op = "function" /\ program[g].op = "function" =>
          /\ program[f].result = program[g].result
          /\ program[f].name = program[g].name /\ program[f].parameters = program[g].parameters => f = g
  BY <1>1 DEF Typable
<1> QED BY <1>2, <1>3, <1>4 DEF Typable

(* An argument list of one, accepted and matched by the same functions. *)
LEMMA OneArgument ==
  ASSUME NEW arguments \in Arguments, Len(arguments) = 1, NEW parameters, Len(parameters) = 1
  PROVE  Accepts(parameters, arguments) <=> Matches(parameters, arguments)
<1>1. DOMAIN arguments = {1}
  <2>1. arguments \in Seq(Types \cup {Number})
    BY LinkageAssumption
  <2>2. DOMAIN arguments = 1 .. 1
    BY <2>1, LenProperties
  <2> QED BY <2>2
<1> QED BY <1>1 DEF Accepts, Matches

(* An entry of the table has the name and the result of a function. *)
LEMMA EntryHasFunction ==
  ASSUME LinkageInv, KnownOK, phase = "type", ~error, NEW n \in DOMAIN functions
  PROVE  \E f \in FunctionNodes :
           f < pc /\ program[f].name = n /\ program[f].result = functions[n].result
<1> DEFINE o == functions[n].overloads
<1>1. EntryOK(functions[n], n, program, DOMAIN symbol, Typed) /\ Typed = pc
  BY DEF LinkageInv, TablesOK, TableOK, Typed
<1>2. o \in Seq(Nat) /\ o # <<>>
  BY <1>1 DEF EntryOK, KnownOK, Overloads
<1>3. 1 \in DOMAIN o
  <2> HIDE DEF o
  <2> QED BY <1>2, EmptySeq, LenProperties
<1> QED BY <1>1, <1>3 DEF EntryOK, FunctionNodes, Nodes

LEMMA FunctionAccepted ==
  ASSUME LinkageInv, KnownOK, Typable(program), ~error, TypeFunction
  PROVE  ~error'
<1> DEFINE name == Node.name
<1>1. /\ Visits("type", "function") /\ phase = "type" /\ SourceOK /\ TableOK /\ Typed = pc
  BY DEF TypeFunction, Visits, LinkageInv, TablesOK, Typed
<1>2. pc \in FunctionNodes /\ Node = program[pc]
  BY <1>1, FunctionVisited, NodeVisited
<1>3. FunctionTable[name].result = Node.result
  <2>1. CASE name \in DOMAIN functions
    <3>1. PICK f \in FunctionNodes : program[f].name = name /\ program[f].result = functions[name].result
      BY <1>1, <2>1, EntryHasFunction
    <3>2. program[f].result = program[pc].result
      BY <1>2 DEF Typable, FunctionNodes, Nodes
    <3> QED BY <1>2, <2>1, <3>1, <3>2 DEF FunctionTable
  <2>2. CASE name \notin DOMAIN functions
    BY <2>2 DEF FunctionTable, Bind
  <2> QED BY <2>1, <2>2
<1>4. ~HasOverload(FunctionTable[name].overloads, Node.parameters)
  <2>1. CASE name \in DOMAIN functions
    <3> SUFFICES ASSUME NEW k \in DOMAIN functions[name].overloads,
                        program[functions[name].overloads[k]].parameters = Node.parameters
                 PROVE  FALSE
      BY <2>1 DEF FunctionTable, HasOverload
    <3> DEFINE f == functions[name].overloads[k]
    <3>1. /\ f \in 1 .. Len(program) /\ program[f].op = "function" /\ f < pc
          /\ program[f].name = name
      BY <1>1, <2>1 DEF TableOK, EntryOK
    <3>2. program[f].parameters = program[pc].parameters /\ program[f].name = program[pc].name
      BY <1>2, <3>1
    <3> HIDE DEF f
    <3>3. f = pc
      BY <1>2, <3>1, <3>2 DEF Typable, FunctionNodes, Nodes
    <3> QED BY <1>2, <3>1, <3>3 DEF FunctionNodes, Nodes
  <2>2. CASE name \notin DOMAIN functions
    <3>1. FunctionTable[name].overloads = <<>>
      BY <2>2 DEF FunctionTable, Bind
    <3> QED BY <3>1 DEF HasOverload
  <2> QED BY <2>1, <2>2
<1> QED BY <1>3, <1>4 DEF TypeFunction, FunctionTable

LEMMA CallAccepted ==
  ASSUME LinkageInv, KnownOK, FoundOK, OneEach(program), Typable(program), ~error, TypeCall
  PROVE  ~error'
<1> DEFINE name == Node.name
           candidates == Candidates(CallTable[name].overloads, Node.arguments)
<1>1. Visits("type", "call") /\ phase = "type" /\ SourceOK /\ TableOK /\ Typed = pc
  BY DEF TypeCall, Visits, LinkageInv, TablesOK, Typed
<1>2. /\ pc \in CallNodes /\ Node = program[pc] /\ Node.arguments \in Arguments
      /\ pc \in 1 .. Len(program) /\ Node.op = "call" /\ Len(program) \in Nat
  BY <1>1, CallVisited, NodeVisited
<1>3. PICK f \in 1 .. pc - 1 :
        /\ program[f].op = "function" /\ program[f].name = name
        /\ Matches(program[f].parameters, Node.arguments)
  BY <1>2 DEF Typable
<1>4. f \in FunctionNodes /\ f < pc
  BY <1>2, <1>3 DEF FunctionNodes, Nodes
<1>5. PICK k \in DOMAIN functions[name].overloads : functions[name].overloads[k] = f
  BY <1>1, <1>3, <1>4 DEF KnownOK, Registered, Overloads
<1>6. name \in DOMAIN functions
  BY <1>1, <1>3, <1>4 DEF KnownOK, Registered
<1>7. CallTable = functions
  BY <1>6 DEF CallTable
<1>8. candidates # {}
  <2>1. Len(program[f].parameters) = 1 /\ Len(Node.arguments) = 1
    BY <1>2, <1>4 DEF OneEach, FunctionNodes, Nodes
  <2>2. Accepts(program[f].parameters, Node.arguments)
    BY <1>2, <1>3, <2>1, OneArgument
  <2>3. k \in candidates
    BY <1>5, <1>7, <2>2 DEF Candidates
  <2> QED BY <2>3
<1>9. Node.into = Return
  BY <1>2 DEF Typable
<1>10. currentFunction # Absent => functions[name].result = Expected(Node.into)
  <2> SUFFICES ASSUME currentFunction # Absent
               PROVE  functions[name].result = functions[currentFunction].result
    BY <1>9 DEF Expected
  <2>1. PICK g \in FunctionNodes : program[g].result = functions[name].result
    BY <1>1, <1>6, EntryHasFunction
  <2>2. PICK h \in FunctionNodes : program[h].result = functions[currentFunction].result
    BY <1>1, EntryHasFunction DEF FoundOK
  <2> QED BY <2>1, <2>2 DEF Typable, FunctionNodes, Nodes
<1> HIDE DEF candidates
<1>11. \/ error' = error
       \/ /\ Node.into = Return => currentFunction # Absent
          /\ candidates = {} \/ CallTable[name].result # Expected(Node.into)
  BY DEF TypeCall, CallTable, candidates
<1> QED BY <1>7, <1>8, <1>9, <1>10, <1>11

LEMMA FoundInit == Init => MeantOK /\ FoundOK
BY DEF Init, EmptyScope, MeantOK, FoundOK

LEMMA MeantStep ==
  ASSUME LinkageInv, MeantOK, [Next]_vars
  PROVE  MeantOK'
<1>0. SourceOK /\ NodesOK /\ TableOK
  BY DEF LinkageInv, TablesOK
<1>1. \A i \in 1 .. Len(program) : program'[i] = program[i]
  BY <1>0, NodesGrow
<1>2. \A c \in DOMAIN chosen : c \in 1 .. Len(program) /\ chosen[c] \in 1 .. Len(program)
  BY <1>0 DEF NodesOK, CallNodes, FunctionNodes, Nodes
<1>3. CASE UNCHANGED chosen
  BY <1>1, <1>2, <1>3 DEF MeantOK
<1>4. CASE TypeCall
  <2>1. /\ Visits("type", "call") /\ UNCHANGED source
        /\ \/ UNCHANGED chosen
           \/ /\ Node.name \in DOMAIN functions
              /\ \E k \in DOMAIN Overloads(Node.name) :
                   /\ Accepts(program[Overloads(Node.name)[k]].parameters, Node.arguments)
                   /\ chosen' = Bind(chosen, pc, Overloads(Node.name)[k])
    BY <1>4, CallShape
  <2>2. CASE /\ Node.name \in DOMAIN functions
             /\ \E k \in DOMAIN Overloads(Node.name) :
                  /\ Accepts(program[Overloads(Node.name)[k]].parameters, Node.arguments)
                  /\ chosen' = Bind(chosen, pc, Overloads(Node.name)[k])
    <3>1. PICK k \in DOMAIN Overloads(Node.name) :
            /\ Accepts(program[Overloads(Node.name)[k]].parameters, Node.arguments)
            /\ chosen' = Bind(chosen, pc, Overloads(Node.name)[k])
      BY <2>2
    <3> DEFINE f == Overloads(Node.name)[k]
    <3>2. program[f].name = Node.name
      BY <1>0, <2>2 DEF TableOK, EntryOK, Overloads
    <3>3. Node = program[pc] /\ program' = program
      BY <2>1 DEF Node, source
    <3>4. Accepts(program[f].parameters, Node.arguments) /\ chosen' = Bind(chosen, pc, f)
      BY <3>1
    <3> HIDE DEF f
    <3>5. \A c \in DOMAIN chosen' :
            \/ c = pc /\ chosen'[c] = f
            \/ c \in DOMAIN chosen /\ chosen'[c] = chosen[c]
      BY <3>4 DEF Bind
    <3> QED BY <3>2, <3>3, <3>4, <3>5 DEF MeantOK
  <2> QED BY <1>3, <2>1, <2>2
<1>5. CASE ReadStep
  <2>1. PICK item \in Items : Reads(item, Opened + DepthStep(item))
    BY <1>0, <1>5, ReadShape
  <2> QED BY <1>3, <2>1 DEF Reads, checked
<1>6. CASE EndOfSource \/ EndWalk \/ UNCHANGED vars
  BY <1>3, <1>6 DEF EndOfSource, EndWalk, vars, checked
<1>7. CASE PragmaStep \/ TypeFunction \/ TypeEnd \/ TypePragma
  BY <1>3, <1>7 DEF PragmaStep, PragmaFunction, PragmaEnd, PragmaCall, VisitPragma,
                    TypeFunction, TypeEnd, TypePragma, checked
<1>8. CASE CodegenStep
  BY <1>3, <1>8
     DEF CodegenStep, GenerateFunction, GenerateNothing, GenerateCall, EndOfCode, checked
<1> QED BY <1>4, <1>5, <1>6, <1>7, <1>8, StepCases DEF VisitStep, TypeStep

LEMMA FoundStep ==
  ASSUME LinkageInv, KnownOK, FoundOK, [Next]_vars
  PROVE  FoundOK'
<1>0. SourceOK
  BY DEF LinkageInv
<1>1. OneEach(program') /\ Typable(program') => OneEach(program) /\ Typable(program)
  BY <1>0, TypableBefore
<1>2. CASE UNCHANGED <<functions, currentFunction, error>> /\ outcome' # "rejected"
  BY <1>1, <1>2 DEF FoundOK
<1>3. phase # "done" => outcome = "compiling"
  BY <1>0 DEF SourceOK, Outcomes
<1>4. CASE ReadStep
  <2>1. PICK item \in Items : Reads(item, Opened + DepthStep(item))
    BY <1>0, <1>4, ReadShape
  <2> QED BY <1>2, <1>3, <2>1 DEF Reads, checked
<1>5. CASE EndOfSource
  <2>1. /\ UNCHANGED <<functions, currentFunction, error>> /\ phase = "parse"
        /\ outcome' = outcome \/ error
    BY <1>5 DEF EndOfSource, checked
  <2> QED BY <1>1, <1>3, <2>1 DEF FoundOK
<1>6. CASE PragmaStep \/ TypePragma \/ EndWalk \/ CodegenStep
  <2>1. UNCHANGED <<functions, currentFunction, error>> /\ phase # "done"
    BY <1>6 DEF PragmaStep, PragmaFunction, PragmaEnd, PragmaCall, VisitPragma, TypePragma, EndWalk,
                CodegenStep, GenerateFunction, GenerateNothing, GenerateCall, EndOfCode, Visits, checked
  <2>2. outcome' = outcome \/ outcome' \in {"exited", "crashed", "compiled"}
    BY <1>6 DEF PragmaStep, PragmaFunction, PragmaEnd, PragmaCall, VisitPragma, TypePragma, EndWalk,
                CodegenStep, GenerateFunction, GenerateNothing, GenerateCall, EndOfCode, GoOn, Stop
  <2> QED BY <1>2, <1>3, <2>1, <2>2
<1>7. CASE TypeEnd
  <2>1. UNCHANGED <<functions, error, outcome>> /\ phase = "type" /\ currentFunction' = Absent
    BY <1>7 DEF TypeEnd, Visits, GoOn
  <2> QED BY <1>1, <1>3, <2>1 DEF FoundOK
<1>8. CASE TypeFunction
  <2>1. /\ phase = "type" /\ UNCHANGED source /\ Visits("type", "function")
        /\ outcome' = outcome \/ outcome' = "aborted"
        /\ \/ functions' = FunctionTable /\ UNCHANGED currentFunction
           \/ /\ functions' = [FunctionTable EXCEPT ![Node.name].overloads = Append(@, pc)]
              /\ currentFunction' \in {Node.name, Absent}
    BY <1>8, FunctionShape DEF TypeError, Stop, GoOn
  <2>2. DOMAIN functions' = DOMAIN functions \cup {Node.name}
    BY <2>1, FunctionTableGrows
  <2>3. program' = program
    BY <2>1 DEF source
  <2>4. OneEach(program) /\ Typable(program) => ~error'
    BY <1>8, FunctionAccepted DEF FoundOK
  <2> QED BY <1>3, <2>1, <2>2, <2>3, <2>4 DEF FoundOK
<1>9. CASE TypeCall
  <2>1. /\ phase = "type" /\ UNCHANGED <<source, currentFunction>>
        /\ functions' = functions \/ functions' = CallTable
        /\ outcome' = outcome \/ outcome' \in {"aborted", "crashed"}
    BY <1>9, CallShape DEF TypeError, Stop, GoOn
  <2>2. DOMAIN functions \subseteq DOMAIN functions'
    BY <2>1 DEF CallTable, Bind
  <2>3. program' = program
    BY <2>1 DEF source
  <2>4. OneEach(program) /\ Typable(program) => ~error'
    BY <1>9, CallAccepted DEF FoundOK
  <2> QED BY <1>3, <2>1, <2>2, <2>3, <2>4 DEF FoundOK
<1>10. CASE UNCHANGED vars
  <2>1. UNCHANGED <<program, functions, currentFunction, error, outcome>>
    BY <1>10 DEF vars, source, checked
  <2> QED BY <2>1 DEF FoundOK
<1> QED BY <1>4, <1>5, <1>6, <1>7, <1>8, <1>9, <1>10, StepCases DEF VisitStep, TypeStep

(* Where every function has one parameter and every call one argument, the  *)
(* search for an overload refuses no call that has its function, and takes  *)
(* only functions that correspond to the arguments.                         *)
THEOREM OverloadFoundAlways == Spec => []OneParameterOverloadFound
<1>1. LinkageInv /\ MeantOK /\ FoundOK => OneParameterOverloadFound
  <2> SUFFICES ASSUME LinkageInv, MeantOK, FoundOK,
                      \A f \in FunctionNodes : Len(program[f].parameters) = 1,
                      \A c \in CallNodes : Len(program[c].arguments) = 1
               PROVE  (WellTyped => outcome # "rejected") /\ CallsMatch
    BY DEF OneParameterOverloadFound
  <2>0. SourceOK /\ NodesOK /\ Len(program) \in Nat
    BY LenProperties DEF LinkageInv, TablesOK, SourceOK
  <2>1. OneEach(program)
    BY DEF OneEach, FunctionNodes, CallNodes, Nodes
  <2>2. ASSUME WellTyped PROVE Typable(program)
    <3>1. \A f, g \in FunctionNodes :
            /\ program[f].result = program[g].result
            /\ program[f].name = program[g].name /\ program[f].parameters = program[g].parameters => f = g
      BY <2>2 DEF WellTyped
    <3>2. \A c \in CallNodes :
            /\ program[c].into = Return
            /\ \E f \in FunctionNodes : f < c /\ Means(c, f)
      BY <2>2 DEF WellTyped
    <3>3. \A c \in 1 .. Len(program) : program[c].op = "call" =>
            \E f \in 1 .. c - 1 :
              /\ program[f].op = "function" /\ program[f].name = program[c].name
              /\ Matches(program[f].parameters, program[c].arguments)
      BY <2>0, <3>2 DEF Means, FunctionNodes, CallNodes, Nodes
    <3> QED BY <3>1, <3>2, <3>3 DEF Typable, FunctionNodes, CallNodes, Nodes
  <2>3. ASSUME NEW c \in DOMAIN chosen PROVE Means(c, chosen[c])
    <3>1. c \in CallNodes /\ chosen[c] \in FunctionNodes
      BY <2>0 DEF NodesOK
    <3>2. program[c].arguments \in Arguments
      <4>1. program[c] \in Items /\ program[c].op = "call"
        BY <2>0, <3>1, ElementOfSeq DEF SourceOK, CallNodes, Nodes
      <4> QED BY <4>1 DEF Items
    <3>3. /\ program[chosen[c]].name = program[c].name
          /\ Accepts(program[chosen[c]].parameters, program[c].arguments)
      BY DEF MeantOK
    <3> QED BY <3>1, <3>2, <3>3, OneArgument DEF Means
  <2> QED BY <2>1, <2>2, <2>3 DEF FoundOK, CallsMatch
<1>2. Init => LinkageInv /\ KnownOK /\ MeantOK /\ FoundOK
  BY SourceInit, NamesInit, TablesInit, KnownInit, FoundInit DEF LinkageInv
<1>3. LinkageInv /\ KnownOK /\ MeantOK /\ FoundOK /\ [Next]_vars
        => (LinkageInv /\ KnownOK /\ MeantOK /\ FoundOK)'
  BY SourceStep, NamesStep, TablesStep, KnownStep, MeantStep, FoundStep DEF LinkageInv
<1> QED BY <1>1, <1>2, <1>3, PTL DEF Spec

(* No prototype is inside another function. *)
NoInner(prog) ==
  \A f \in 1 .. Len(prog) : prog[f].op = "function" => HasBody(prog[f]) \/ DepthOf(prog, f) = 0

(* The scope that function j is declared in is still open at node i. *)
OpenAt(prog, j, i) == \A k \in j .. i : DepthOf(prog, k) >= DepthOf(prog, j)

IsFunction(prog, j, name) == prog[j].op = "function" /\ prog[j].name = name

LEMMA OpenStays ==
  ASSUME NEW p, NEW q, NEW j \in Int, NEW i \in Int, j <= i, OpenAt(p, j, i),
         \A k \in j .. i : DepthOf(q, k) = DepthOf(p, k)
  PROVE  OpenAt(q, j, i)
BY DEF OpenAt

LEMMA OpenLater ==
  ASSUME NEW prog, NEW j \in Int, NEW i \in Int, OpenAt(prog, j, i),
         DepthOf(prog, i + 1) >= DepthOf(prog, j)
  PROVE  OpenAt(prog, j, i + 1)
<1>1. \A k \in j .. i + 1 : k \in j .. i \/ k = i + 1
  OBVIOUS
<1> QED BY <1>1 DEF OpenAt

LEMMA NamedShape ==
  ASSUME NEW S, NEW stack \in Seq(S), NEW key, NEW value, Len(stack) >= 1
  PROVE  LET named == AddToScope(stack, key, value)
         IN  /\ Len(named) = Len(stack)
             /\ \A i \in 1 .. Len(stack) :
                  DOMAIN named[i] = DOMAIN stack[i] \cup (IF i = Len(stack) THEN {key} ELSE {})
<1>1. stack # <<>>
  BY EmptySeq
<1> DEFINE named == AddToScope(stack, key, value)
           bound == Bind(stack[Len(stack)], key, value)
<1>2. /\ Len(named) = Len(stack)
      /\ \A i \in 1 .. Len(stack) : named[i] = IF i = Len(stack) THEN bound ELSE stack[i]
  BY <1>1, AddToScopeShape
<1>3. DOMAIN bound = DOMAIN stack[Len(stack)] \cup {key}
  BY DEF Bind
<1> HIDE DEF named, bound
<1>4. ASSUME NEW i \in 1 .. Len(stack)
      PROVE  DOMAIN named[i] = DOMAIN stack[i] \cup (IF i = Len(stack) THEN {key} ELSE {})
  <2>1. CASE i = Len(stack)
    BY <1>2, <1>3, <2>1
  <2>2. CASE i # Len(stack)
    BY <1>2, <2>2
  <2> QED BY <2>1, <2>2
<1> QED BY <1>2, <1>4 DEF named

LEMMA EnterShape ==
  ASSUME NEW S, NEW stack \in Seq(S)
  PROVE  /\ EnterScope(stack) \in Seq(S \cup {EmptyScope})
         /\ Len(EnterScope(stack)) = Len(stack) + 1
         /\ \A i \in 1 .. Len(stack) : EnterScope(stack)[i] = stack[i]
         /\ EnterScope(stack)[Len(stack) + 1] = EmptyScope
<1>1. stack \in Seq(S \cup {EmptyScope}) /\ EmptyScope \in S \cup {EmptyScope}
  BY SeqMonotonic
<1> QED BY <1>1, AppendProperties DEF EnterScope

LEMMA ExitShape ==
  ASSUME NEW S, NEW stack \in Seq(S), stack # <<>>
  PROVE  /\ ExitScope(stack) \in Seq(S)
         /\ Len(ExitScope(stack)) = Len(stack) - 1
         /\ \A i \in 1 .. Len(stack) - 1 : ExitScope(stack)[i] = stack[i]
<1> DEFINE n == Len(stack) - 1
           rest == SubSeq(stack, 1, n)
<1>1. n \in Nat /\ Len(stack) \in Nat
  BY EmptySeq, LenProperties
<1>2. \A i \in 1 .. n : stack[i] \in S
  BY <1>1, ElementOfSeq
<1>3. ExitScope(stack) = rest
  BY DEF ExitScope
<1> HIDE DEF n
<1>4. /\ rest \in Seq(S)
      /\ Len(rest) = IF 1 <= n THEN n - 1 + 1 ELSE 0
      /\ \A i \in 1 .. n - 1 + 1 : rest[i] = stack[1 + i - 1]
  BY ONLY <1>1, <1>2, SubSeqProperties
<1> HIDE DEF rest
<1>5. n - 1 + 1 = n /\ \A i \in 1 .. n : 1 + i - 1 = i
  BY <1>1
<1>6. Len(rest) = n /\ \A i \in 1 .. n : rest[i] = stack[i]
  BY <1>1, <1>4, <1>5
<1> QED BY <1>3, <1>4, <1>6 DEF n

-----------------------------------------------------------------------------
(* The parser's scopes *)

(* Under the two scopes of every open body are those of prototypes.         *)
Base == Len(scopes) - 2 * Opened

(* Function j is why the scope at position i has a name. *)
BoundBy(prog, base, i, name, j) ==
  /\ IsFunction(prog, j, name) /\ OpenAt(prog, j, Len(prog) + 1)
  /\ \/ i <= base /\ DepthOf(prog, j) = 0
     \/ i = base + 2 * DepthOf(prog, j)

(* A pragma's function was declared in a scope that is open at the pragma.  *)
HasTarget(prog, p) ==
  \E j \in 1 .. p - 1 : IsFunction(prog, j, prog[p].name) /\ OpenAt(prog, j, p)

VisibleOK ==
  NoInner(program) =>
    /\ Base >= 1
    /\ \A i \in 1 .. Len(scopes) : \A name \in DOMAIN scopes[i] :
         \E j \in 1 .. Len(program) : BoundBy(program, Base, i, name, j)
    /\ \A p \in PragmaNodes : program[p].isFunction => HasTarget(program, p)

LEMMA VisibleInit == Init => VisibleOK
<1> SUFFICES ASSUME Init PROVE VisibleOK
  OBVIOUS
<1>1. /\ Len(program) = 0 /\ Len(scopes) = 1 /\ scopes = <<EmptyScope>>
      /\ DOMAIN EmptyScope = {}
  BY EmptySeq DEF Init, EmptyScope
<1>2. Opened = 0
  BY <1>1, DepthFirst DEF Opened
<1>3. \A i \in 1 .. Len(scopes) : DOMAIN scopes[i] = {}
  BY <1>1
<1>4. PragmaNodes = {}
  BY <1>1 DEF PragmaNodes, Nodes
<1> QED BY <1>1, <1>2, <1>3, <1>4 DEF VisibleOK, Base

(* What the parser's scopes are after an item was read: the names there     *)
(* were, in the scopes that are left, and the name of a function.           *)
LEMMA ScopesRead ==
  ASSUME NEW S, scopes \in Seq(S), NEW item \in Items, Opened \in Nat, Base >= 1,
         NEW d \in Nat, d = Opened + DepthStep(item),
         item.op \in {"call", "pragma"} => UNCHANGED scopes,
         item.op = "end" => scopes' = ExitScope(ExitScope(scopes)),
         item.op = "function" =>
           LET named == AddToScope(scopes, item.name, "FUNCTION_NAME")
           IN  scopes' = IF item.body THEN EnterScope(EnterScope(named)) ELSE EnterScope(named)
  PROVE  /\ Len(scopes') = IF item.op = "function" /\ ~item.body
                           THEN Len(scopes) + 1
                           ELSE Len(scopes) + 2 * (d - Opened)
         /\ \A i \in 1 .. Len(scopes') : \A name \in DOMAIN scopes'[i] :
              \/ i \in 1 .. Len(scopes) /\ name \in DOMAIN scopes[i]
              \/ item.op = "function" /\ name = item.name /\ i = Len(scopes)
<1>1. Len(scopes) \in Nat /\ Len(scopes) >= 2 * Opened + 1 /\ DOMAIN EmptyScope = {}
  <2>1. Len(scopes) \in Nat
    BY LenProperties
  <2> QED BY <2>1 DEF Base, EmptyScope
<1>2. CASE item.op \in {"call", "pragma"}
  <2>1. d = Opened
    BY <1>2 DEF DepthStep, HasBody
  <2> QED BY <1>1, <1>2, <2>1
<1>3. CASE item.op = "end"
  <2>1. Opened >= 1 /\ d = Opened - 1
    BY <1>3 DEF DepthStep, HasBody
  <2>2. Len(scopes) >= 3 /\ scopes # <<>>
    BY <1>1, <2>1, EmptySeq
  <2> DEFINE once == ExitScope(scopes)
  <2>3. /\ once \in Seq(S) /\ Len(once) = Len(scopes) - 1
        /\ \A i \in 1 .. Len(scopes) - 1 : once[i] = scopes[i]
    BY <1>1, <2>2, ExitShape
  <2>4. once # <<>>
    BY <1>1, <2>2, <2>3, EmptySeq
  <2>5. /\ Len(ExitScope(once)) = Len(once) - 1
        /\ \A i \in 1 .. Len(once) - 1 : ExitScope(once)[i] = once[i]
    BY <1>1, <2>3, <2>4, ExitShape
  <2>6. scopes' = ExitScope(once)
    BY <1>3
  <2> HIDE DEF once
  <2>7. Len(scopes') = Len(scopes) - 2 /\ \A i \in 1 .. Len(scopes) - 2 : scopes'[i] = scopes[i]
    BY <1>1, <2>2, <2>3, <2>5, <2>6
  <2>8. Len(scopes') = Len(scopes) + 2 * (d - Opened) /\ item.op # "function"
    BY <1>1, <1>3, <2>1, <2>7
  <2> QED BY <1>1, <2>7, <2>8
<1>4. CASE item.op = "function"
  <2> DEFINE named == AddToScope(scopes, item.name, "FUNCTION_NAME")
  <2>1. /\ Len(named) = Len(scopes)
        /\ \A i \in 1 .. Len(scopes) :
             DOMAIN named[i] = DOMAIN scopes[i] \cup (IF i = Len(scopes) THEN {item.name} ELSE {})
    BY <1>1, NamedShape
  <2> DEFINE T == S \cup {Bind(scopes[Len(scopes)], item.name, "FUNCTION_NAME")}
  <2>2. named \in Seq(T)
    <3>1. scopes # <<>>
      BY <1>1, EmptySeq
    <3> QED BY <3>1, AddToScopeSeq
  <2>3. item.body \in BOOLEAN
    BY <1>4 DEF Items
  <2>4. scopes' = IF item.body THEN EnterScope(EnterScope(named)) ELSE EnterScope(named)
    BY <1>4
  <2> HIDE DEF named, T
  <2>5. /\ Len(EnterScope(named)) = Len(scopes) + 1
        /\ \A i \in 1 .. Len(scopes) : EnterScope(named)[i] = named[i]
        /\ EnterScope(named)[Len(scopes) + 1] = EmptyScope
        /\ EnterScope(named) \in Seq(T \cup {EmptyScope})
    BY <2>1, <2>2, EnterShape
  <2>6. /\ Len(EnterScope(EnterScope(named))) = Len(scopes) + 2
        /\ \A i \in 1 .. Len(scopes) + 1 : EnterScope(EnterScope(named))[i] = EnterScope(named)[i]
        /\ EnterScope(EnterScope(named))[Len(scopes) + 2] = EmptyScope
    <3>1. Len(scopes) + 1 + 1 = Len(scopes) + 2
      BY <1>1
    <3> QED BY <2>5, <3>1, EnterShape
  <2>7. CASE item.body
    <3>1. d = Opened + 1
      BY <1>4, <2>7 DEF DepthStep, HasBody
    <3>2. /\ Len(scopes') = Len(scopes) + 2
          /\ \A i \in 1 .. Len(scopes) : scopes'[i] = named[i]
          /\ scopes'[Len(scopes) + 1] = EmptyScope /\ scopes'[Len(scopes) + 2] = EmptyScope
      BY <1>1, <2>4, <2>5, <2>6, <2>7
    <3>3. \A i \in 1 .. Len(scopes) + 2 :
            i \in 1 .. Len(scopes) \/ i = Len(scopes) + 1 \/ i = Len(scopes) + 2
      BY <1>1
    <3>4. Len(scopes') = Len(scopes) + 2 * (d - Opened)
      BY <1>1, <3>1, <3>2
    <3>5. \A i \in 1 .. Len(scopes') : \A name \in DOMAIN scopes'[i] :
            \/ i \in 1 .. Len(scopes) /\ name \in DOMAIN scopes[i]
            \/ name = item.name /\ i = Len(scopes)
      BY <1>1, <2>1, <3>2, <3>3
    <3> QED BY <1>4, <2>7, <3>4, <3>5
  <2>8. CASE ~item.body
    <3>1. /\ Len(scopes') = Len(scopes) + 1
          /\ \A i \in 1 .. Len(scopes) : scopes'[i] = named[i]
          /\ scopes'[Len(scopes) + 1] = EmptyScope
      BY <2>4, <2>5, <2>8
    <3>2. \A i \in 1 .. Len(scopes) + 1 : i \in 1 .. Len(scopes) \/ i = Len(scopes) + 1
      BY <1>1
    <3> QED BY <1>1, <1>4, <2>1, <2>8, <3>1, <3>2
  <2> QED BY <2>3, <2>7, <2>8
<1>5. item.op \in {"call", "pragma", "end", "function"}
  BY DEF Items
<1> QED BY <1>2, <1>3, <1>4, <1>5

(* What it means to a bound name that the item was read. *)
LEMMA VisibleRead ==
  ASSUME LinkageInv, PlaceOK, VisibleOK, ReadStep
  PROVE  VisibleOK'
<1> SUFFICES ASSUME NoInner(program')
             PROVE  /\ Base' >= 1
                    /\ \A i \in 1 .. Len(scopes') : \A name \in DOMAIN scopes'[i] :
                         \E j \in 1 .. Len(program') : BoundBy(program', Base', i, name, j)
                    /\ \A p \in PragmaNodes' : program'[p].isFunction => HasTarget(program', p)
  BY DEF VisibleOK
<1>0. SourceOK /\ NamesOK
  BY DEF LinkageInv
<1>1. PICK item \in Items :
        /\ Reads(item, Opened + DepthStep(item)) /\ Opened + DepthStep(item) \in Nat
        /\ TakesFunction(item) => item.name \in Visible
        /\ item.op \in {"call", "pragma"} => UNCHANGED scopes
        /\ item.op = "end" => scopes' = ExitScope(ExitScope(scopes))
        /\ item.op = "function" =>
             LET named == AddToScope(scopes, item.name, "FUNCTION_NAME")
             IN  scopes' = IF item.body THEN EnterScope(EnterScope(named)) ELSE EnterScope(named)
  BY <1>0, ReadShape
<1> DEFINE n == Len(program)
           d == Opened + DepthStep(item)
           base == Base
           prototype == item.op = "function" /\ ~item.body
<1>2. /\ n \in Nat /\ Len(program') = n + 1
      /\ \A i \in 1 .. n : program'[i] = program[i]
      /\ program'[n + 1] = item
      /\ \A i \in 1 .. n + 1 : DepthOf(program', i) = DepthOf(program, i)
  BY <1>0, <1>1, Grows
<1>3. Opened' = d /\ d \in Nat /\ Opened \in Nat
  BY <1>0, <1>1, OpensBy DEF SourceOK
<1>4. DepthOf(program, n + 1) = Opened /\ DepthOf(program', n + 1 + 1) = d
  <2>1. n + 1 \in 1 .. n + 1
    BY <1>2
  <2> QED BY <1>2, <1>3, <2>1 DEF Opened
<1>5. \A i \in 1 .. n + 1 : DepthOf(program, i) \in Nat
  BY DEF PlaceOK
<1>6. /\ DepthStep(item) \in {-1, 0, 1} /\ (DepthStep(item) = -1 => item.op = "end")
      /\ prototype => DepthStep(item) = 0
      /\ item.op \in {"call", "pragma", "end", "function"}
      /\ item.op = "function" /\ ~prototype => DepthStep(item) = 1
  BY DEF DepthStep, HasBody, Items
<1>7. NoInner(program)
  <2> SUFFICES ASSUME NEW f \in 1 .. n, program[f].op = "function"
               PROVE  HasBody(program[f]) \/ DepthOf(program, f) = 0
    BY DEF NoInner
  <2>1. f \in 1 .. Len(program') /\ program'[f] = program[f] /\ DepthOf(program', f) = DepthOf(program, f)
    BY <1>2
  <2> QED BY <2>1 DEF NoInner
<1>8. prototype => Opened = 0
  <2> SUFFICES ASSUME prototype PROVE DepthOf(program', n + 1) = 0
    BY <1>2, <1>4
  <2>1. n + 1 \in 1 .. Len(program') /\ ~HasBody(program'[n + 1]) /\ program'[n + 1].op = "function"
    BY <1>2 DEF HasBody
  <2> QED BY <2>1 DEF NoInner
<1>9. /\ base >= 1
      /\ \A i \in 1 .. Len(scopes) : \A name \in DOMAIN scopes[i] :
           \E j \in 1 .. n : BoundBy(program, base, i, name, j)
      /\ \A p \in PragmaNodes : program[p].isFunction => HasTarget(program, p)
  BY <1>7 DEF VisibleOK
<1>10. /\ Len(scopes') = IF prototype THEN Len(scopes) + 1 ELSE Len(scopes) + 2 * (d - Opened)
       /\ \A i \in 1 .. Len(scopes') : \A name \in DOMAIN scopes'[i] :
            \/ i \in 1 .. Len(scopes) /\ name \in DOMAIN scopes[i]
            \/ item.op = "function" /\ name = item.name /\ i = Len(scopes)
  BY <1>0, <1>1, <1>3, <1>9, ScopesRead DEF NamesOK
<1>11. Len(scopes) \in Nat /\ base \in Int /\ Len(scopes) = base + 2 * Opened
  <2>1. Len(scopes) \in Nat
    BY <1>0, LenProperties DEF NamesOK
  <2> QED BY <1>3, <2>1 DEF Base
<1> HIDE DEF n
<1>12. Base' = IF prototype THEN base + 1 ELSE base
  <2>1. Base' = Len(scopes') - 2 * d
    BY <1>3 DEF Base
  <2>2. d = Opened + DepthStep(item)
    OBVIOUS
  <2>3. Len(scopes') = IF prototype THEN Len(scopes) + 1 ELSE Len(scopes) + 2 * (d - Opened)
    BY <1>10
  <2> HIDE DEF d, base, prototype
  <2>4. CASE prototype
    <3>1. d = 0 /\ Opened = 0 /\ Len(scopes') = Len(scopes) + 1
      BY <1>3, <1>6, <1>8, <2>2, <2>3, <2>4
    <3> QED BY <1>11, <2>1, <2>4, <3>1
  <2>5. CASE ~prototype
    <3>1. Len(scopes') = Len(scopes) + 2 * (d - Opened)
      BY <2>3, <2>5
    <3> QED BY <1>3, <1>11, <2>1, <2>5, <3>1
  <2> QED BY <2>4, <2>5
<1> HIDE DEF base
<1>13. d >= Opened \/ (item.op = "end" /\ d = Opened - 1)
  BY <1>3, <1>6
<1> HIDE DEF d, prototype
<1>14. ASSUME NEW i \in 1 .. Len(scopes'), NEW name \in DOMAIN scopes'[i]
       PROVE  \E j \in 1 .. Len(program') : BoundBy(program', Base', i, name, j)
  <2>1. CASE i \in 1 .. Len(scopes) /\ name \in DOMAIN scopes[i]
    <3>1. PICK j \in 1 .. n : BoundBy(program, base, i, name, j)
      BY <1>9, <2>1
    <3> DEFINE depth == DepthOf(program, j)
    <3>2. /\ IsFunction(program', j, name) /\ j \in 1 .. Len(program')
          /\ DepthOf(program', j) = depth /\ depth \in Nat
      BY <1>2, <1>5, <3>1 DEF BoundBy, IsFunction
    <3>3. OpenAt(program, j, n + 1)
      BY <3>1 DEF BoundBy, n
    <3>4. depth <= Opened
      <4>1. n + 1 \in j .. n + 1
        BY <1>2
      <4> QED BY <1>4, <3>3, <4>1 DEF OpenAt
    <3>5. (i <= base /\ depth = 0) \/ i = base + 2 * depth
      BY <3>1 DEF BoundBy
    <3> HIDE DEF depth
    <3>6. depth <= d
      <4>1. CASE d >= Opened
        BY <1>3, <3>2, <3>4, <4>1
      <4>2. CASE item.op = "end" /\ d = Opened - 1
        <5>1. Len(scopes') = base + 2 * d
          BY <1>3, <1>10, <1>11, <4>2 DEF prototype
        <5> QED BY <1>3, <1>11, <3>2, <3>5, <5>1
      <4> QED BY <1>13, <4>1, <4>2
    <3>7. OpenAt(program', j, n + 1 + 1)
      <4>1. \A k \in j .. n + 1 : k \in 1 .. n + 1
        BY <1>2
      <4>2. j \in Int /\ n + 1 \in Int /\ j <= n + 1
        BY <1>2
      <4>3. OpenAt(program', j, n + 1)
        BY <1>2, <3>3, <4>1, <4>2, OpenStays
      <4> QED BY <1>4, <3>2, <3>6, <4>2, <4>3, OpenLater
    <3>8. (i <= Base' /\ depth = 0) \/ i = Base' + 2 * depth
      BY <1>3, <1>8, <1>11, <1>12, <3>2, <3>4, <3>5
    <3> QED BY <1>2, <3>2, <3>7, <3>8 DEF BoundBy
  <2>2. CASE item.op = "function" /\ name = item.name /\ i = Len(scopes)
    <3> DEFINE j == n + 1
    <3>1. j \in 1 .. Len(program') /\ IsFunction(program', j, name) /\ DepthOf(program', j) = Opened
      <4>1. n + 1 \in 1 .. n + 1
        BY <1>2
      <4> QED BY <1>2, <1>4, <2>2, <4>1 DEF IsFunction
    <3>2. OpenAt(program', j, j + 1)
      <4>1. \A k \in j .. j + 1 : k = j \/ k = j + 1
        BY <1>2
      <4>2. d >= Opened /\ Opened >= Opened
        BY <1>3, <1>13, <2>2
      <4> QED BY <1>4, <3>1, <4>1, <4>2 DEF OpenAt
    <3>3. (i <= Base' /\ Opened = 0) \/ i = Base' + 2 * Opened
      BY <1>3, <1>8, <1>11, <1>12, <2>2
    <3> HIDE DEF j
    <3>4. Len(program') = j
      BY <1>2 DEF j
    <3> QED BY <3>1, <3>2, <3>3, <3>4 DEF BoundBy
  <2> QED BY <1>10, <2>1, <2>2
<1>15. ASSUME NEW p \in PragmaNodes', program'[p].isFunction PROVE HasTarget(program', p)
  <2>1. p \in 1 .. n + 1 /\ program'[p].op = "pragma"
    BY <1>2 DEF PragmaNodes, Nodes
  <2>2. PICK j \in 1 .. p - 1 : IsFunction(program, j, program'[p].name) /\ OpenAt(program, j, p)
    <3>1. CASE p \in 1 .. n
      <4>1. p \in PragmaNodes /\ program'[p] = program[p]
        BY <1>2, <2>1, <3>1 DEF PragmaNodes, Nodes, n
      <4> QED BY <1>9, <1>15, <4>1 DEF HasTarget
    <3>2. CASE p = n + 1
      <4>1. item.name \in Visible
        BY <1>1, <1>2, <1>15, <2>1, <3>2 DEF TakesFunction
      <4>2. Binders(scopes, item.name) # {}
        BY <4>1 DEF Visible, Resolve
      <4>3. PICK i \in 1 .. Len(scopes) : item.name \in DOMAIN scopes[i]
        BY <4>2 DEF Binders
      <4>4. PICK j \in 1 .. n : BoundBy(program, base, i, item.name, j)
        BY <1>9, <4>3
      <4>5. j \in 1 .. p - 1 /\ p = Len(program) + 1
        BY <1>2, <3>2 DEF n
      <4> QED BY <1>2, <3>2, <4>4, <4>5 DEF BoundBy
    <3> QED BY <1>2, <2>1, <3>1, <3>2
  <2>3. IsFunction(program', j, program'[p].name)
    <3>1. j \in 1 .. n
      BY <1>2, <2>1
    <3> QED BY <1>2, <2>2, <3>1 DEF IsFunction
  <2>4. OpenAt(program', j, p)
    <3>1. j \in Int /\ p \in Int /\ j <= p /\ \A k \in j .. p : k \in 1 .. n + 1
      BY <1>2, <2>1
    <3> QED BY <1>2, <2>2, <3>1, OpenStays
  <2> QED BY <2>3, <2>4 DEF HasTarget
<1>16. Base' >= 1
  BY <1>9, <1>11, <1>12
<1> QED BY <1>14, <1>15, <1>16

LEMMA VisibleStep ==
  ASSUME LinkageInv, PlaceOK, VisibleOK, [Next]_vars
  PROVE  VisibleOK'
<1>1. CASE UNCHANGED source
  <2>1. program' = program /\ scopes' = scopes
    BY <1>1 DEF source
  <2>2. Base' = Base /\ PragmaNodes' = PragmaNodes
    BY <2>1 DEF Base, Opened, PragmaNodes, Nodes
  <2> QED BY <2>1, <2>2 DEF VisibleOK
<1>2. CASE EndOfSource \/ EndWalk \/ UNCHANGED vars
  BY <1>1, <1>2 DEF EndOfSource, EndWalk, vars
<1>3. CASE VisitStep
  BY <1>1, <1>3, VisitShape DEF LinkageInv
<1> QED BY <1>2, <1>3, VisibleRead, StepCases

-----------------------------------------------------------------------------
(* The pragma visitor's scopes *)

(* How far the pragma visitor has come. *)
Pragmed == IF phase = "pragma" THEN pc ELSE IF phase = "parse" THEN unit ELSE Len(program) + 1

(* One scope is open for every body around node q, and every function whose *)
(* scope is still open there has its name in it.                            *)
ContextAt(prog, context, q) ==
  /\ Len(context) = DepthOf(prog, q) + 1
  /\ \A j \in 1 .. q - 1 : prog[j].op = "function" /\ OpenAt(prog, j, q) =>
       prog[j].name \in DOMAIN context[DepthOf(prog, j) + 1]

TargetsOK ==
  /\ phase \in {"parse", "pragma", "type"} => ContextAt(program, pragmaContext, Pragmed)
  /\ NoInner(program) /\ outcome = "exited" => ~Node.isFunction \/ Node.type # "SYMBOL_NAME"

LEMMA TargetsInit == Init => TargetsOK
<1> SUFFICES ASSUME Init PROVE TargetsOK
  OBVIOUS
<1>1. Len(pragmaContext) = 1 /\ Pragmed = 1 /\ DepthOf(program, 1) = 0
  BY EmptySeq, DepthFirst DEF Init, Pragmed
<1> QED BY <1>1 DEF Init, TargetsOK, ContextAt

(* What is open after a node was open before it, unless it starts there.    *)
LEMMA OpenBefore ==
  ASSUME NEW prog, NEW q \in Nat \ {0}, NEW j \in 1 .. q, OpenAt(prog, j, q + 1)
  PROVE  /\ OpenAt(prog, j, q) /\ DepthOf(prog, j) <= DepthOf(prog, q)
         /\ DepthOf(prog, j) <= DepthOf(prog, q + 1)
<1>1. q \in j .. q + 1 /\ q + 1 \in j .. q + 1 /\ \A k \in j .. q : k \in j .. q + 1
  OBVIOUS
<1>2. DepthOf(prog, j) \in Int /\ DepthOf(prog, q) \in Int /\ DepthOf(prog, q + 1) \in Int
  BY BeforeFinite
<1> QED BY <1>1, <1>2 DEF OpenAt

LEMMA ContextGrows ==
  ASSUME NEW p, NEW r, NEW context, NEW q \in Nat \ {0}, ContextAt(p, context, q),
         \A i \in 1 .. q - 1 : r[i] = p[i],
         \A i \in 1 .. q : DepthOf(r, i) = DepthOf(p, i)
  PROVE  ContextAt(r, context, q)
<1>1. Len(context) = DepthOf(r, q) + 1
  BY DEF ContextAt
<1>2. ASSUME NEW j \in 1 .. q - 1, r[j].op = "function", OpenAt(r, j, q)
      PROVE  r[j].name \in DOMAIN context[DepthOf(r, j) + 1]
  <2>1. \A k \in j .. q : k \in 1 .. q
    OBVIOUS
  <2>2. OpenAt(p, j, q)
    BY <1>2, <2>1, OpenStays
  <2> QED BY <1>2, <2>2 DEF ContextAt
<1> QED BY <1>1, <1>2 DEF ContextAt

(* The pragma visitor comes past a node. *)
LEMMA ContextPasses ==
  ASSUME NEW S, pragmaContext \in Seq(S), NEW q \in Nat \ {0}, pc = q, Node \in Items, Node = program[q],
         \A n \in 1 .. q + 1 : DepthOf(program, n) \in Nat,
         ContextAt(program, pragmaContext, q),
         PragmaFunction \/ PragmaEnd \/ (UNCHANGED pragmaContext /\ Node.op \in {"call", "pragma"})
  PROVE  ContextAt(program, pragmaContext', q + 1)
<1> DEFINE depth == DepthOf(program, q)
           next == DepthOf(program, q + 1)
<1>1. depth \in Nat /\ next \in Nat /\ next = depth + DepthStep(Node)
  <2>1. q \in 1 .. q + 1 /\ q + 1 \in 1 .. q + 1
    OBVIOUS
  <2> QED BY <2>1, DepthNext
<1>2. Len(pragmaContext) = depth + 1
  BY DEF ContextAt
<1>3. ASSUME NEW j \in 1 .. q - 1, program[j].op = "function", OpenAt(program, j, q + 1)
      PROVE  /\ program[j].name \in DOMAIN pragmaContext[DepthOf(program, j) + 1]
             /\ DepthOf(program, j) + 1 \in 1 .. depth + 1
             /\ DepthOf(program, j) + 1 \in 1 .. next + 1
  <2>1. /\ OpenAt(program, j, q) /\ DepthOf(program, j) <= depth /\ DepthOf(program, j) <= next
    BY <1>3, OpenBefore
  <2>2. DepthOf(program, j) \in Nat
    OBVIOUS
  <2> QED BY <1>1, <1>3, <2>1, <2>2 DEF ContextAt
<1> HIDE DEF depth, next
<1>4. \A j \in 1 .. q : j \in 1 .. q - 1 \/ j = q
  OBVIOUS
<1>5. CASE UNCHANGED pragmaContext /\ Node.op \in {"call", "pragma"}
  <2>1. next = depth /\ program[q].op # "function"
    BY <1>1, <1>5 DEF DepthStep, HasBody
  <2> QED BY <1>2, <1>3, <1>4, <1>5, <2>1 DEF ContextAt, next
<1>6. CASE PragmaEnd
  <2>1. Node.op = "end" /\ pragmaContext' = ExitScope(pragmaContext)
    BY <1>6 DEF PragmaEnd, Visits
  <2>2. next = depth - 1 /\ program[q].op # "function"
    BY <1>1, <2>1 DEF DepthStep, HasBody
  <2>3. pragmaContext # <<>>
    BY <1>1, <1>2, EmptySeq
  <2>4. Len(pragmaContext') = depth /\ \A i \in 1 .. depth : pragmaContext'[i] = pragmaContext[i]
    <3>1. /\ Len(ExitScope(pragmaContext)) = Len(pragmaContext) - 1
          /\ \A i \in 1 .. Len(pragmaContext) - 1 : ExitScope(pragmaContext)[i] = pragmaContext[i]
      BY <2>3, ExitShape
    <3>2. Len(pragmaContext) - 1 = depth
      BY <1>1, <1>2
    <3> QED BY <2>1, <3>1, <3>2
  <2>5. next + 1 = depth
    BY <1>1, <2>2
  <2> QED BY <1>3, <1>4, <2>2, <2>4, <2>5 DEF ContextAt, next
<1>7. CASE PragmaFunction
  <2> DEFINE named == AddToScope(pragmaContext, Node.name, pc)
             inside == EnterScope(named)
  <2>1. /\ Node.op = "function" /\ Node.body \in BOOLEAN
        /\ pragmaContext' = IF Node.body THEN inside ELSE ExitScope(inside)
    <3>1. Node.op = "function" /\ pragmaContext' = IF Node.body THEN inside ELSE ExitScope(inside)
      BY <1>7 DEF PragmaFunction, Visits, Declare
    <3> QED BY <3>1 DEF Items
  <2>2. next = IF Node.body THEN depth + 1 ELSE depth
    BY <1>1, <2>1 DEF DepthStep, HasBody
  <2> DEFINE T == S \cup {Bind(pragmaContext[Len(pragmaContext)], Node.name, pc)}
  <2>3. /\ Len(named) = depth + 1 /\ named \in Seq(T)
        /\ \A i \in 1 .. depth + 1 :
             DOMAIN named[i] = DOMAIN pragmaContext[i] \cup (IF i = depth + 1 THEN {Node.name} ELSE {})
    <3>1. pragmaContext # <<>> /\ Len(pragmaContext) >= 1
      BY <1>1, <1>2, EmptySeq
    <3> QED BY <1>2, <3>1, NamedShape, AddToScopeSeq
  <2> HIDE DEF named, T
  <2>4. /\ inside \in Seq(T \cup {EmptyScope}) /\ Len(inside) = depth + 2
        /\ \A i \in 1 .. depth + 1 : inside[i] = named[i]
    <3>1. depth + 1 + 1 = depth + 2
      BY <1>1
    <3> QED BY <2>3, <3>1, EnterShape
  <2>5. inside # <<>>
    BY <1>1, <2>4, EmptySeq
  <2> HIDE DEF inside
  <2>6. /\ Len(ExitScope(inside)) = depth + 1
        /\ \A i \in 1 .. depth + 1 : ExitScope(inside)[i] = named[i]
    <3>1. /\ Len(ExitScope(inside)) = Len(inside) - 1
          /\ \A i \in 1 .. Len(inside) - 1 : ExitScope(inside)[i] = inside[i]
      BY <2>4, <2>5, ExitShape
    <3>2. Len(inside) - 1 = depth + 1
      BY <1>1, <2>4
    <3> QED BY <2>4, <3>1, <3>2
  <2>7. Len(pragmaContext') = next + 1 /\ \A i \in 1 .. depth + 1 : pragmaContext'[i] = named[i]
    <3>1. depth + 2 = depth + 1 + 1
      BY <1>1
    <3> QED BY <2>1, <2>2, <2>4, <2>6, <3>1
  <2>8. \A j \in 1 .. q - 1 : program[j].op = "function" /\ OpenAt(program, j, q + 1) =>
          program[j].name \in DOMAIN pragmaContext'[DepthOf(program, j) + 1]
    BY <1>3, <2>3, <2>7
  <2>9. program[q].name \in DOMAIN pragmaContext'[DepthOf(program, q) + 1]
    <3>1. depth + 1 \in 1 .. depth + 1
      BY <1>1
    <3> QED BY <2>3, <2>7, <3>1 DEF depth
  <2> QED BY <1>4, <2>7, <2>8, <2>9 DEF ContextAt, next
<1> QED BY <1>5, <1>6, <1>7

LEMMA PragmaFound ==
  ASSUME LinkageInv, PlaceOK, VisibleOK, TargetsOK, NoInner(program), Visits("pragma", "pragma"),
         Node.isFunction
  PROVE  Binders(pragmaContext, Node.name) # {}
<1>1. /\ pc \in 1 .. Len(program) /\ program[pc].op = "pragma" /\ Node = program[pc]
      /\ Len(program) \in Nat /\ phase = "pragma" /\ Pragmed = pc
  <2>1. pc \in 1 .. Len(program) /\ Node.op = "pragma" /\ Node = program[pc] /\ Len(program) \in Nat
    BY NodeVisited DEF LinkageInv
  <2> QED BY <2>1 DEF Visits, Pragmed
<1>2. pc \in PragmaNodes
  BY <1>1 DEF PragmaNodes, Nodes
<1>3. PICK j \in 1 .. pc - 1 : IsFunction(program, j, Node.name) /\ OpenAt(program, j, pc)
  BY <1>1, <1>2 DEF VisibleOK, HasTarget
<1>4. ContextAt(program, pragmaContext, pc)
  BY <1>1 DEF TargetsOK
<1> DEFINE i == DepthOf(program, j) + 1
<1>5. Node.name \in DOMAIN pragmaContext[i] /\ Len(pragmaContext) = DepthOf(program, pc) + 1
  BY <1>3, <1>4 DEF ContextAt, IsFunction
<1>6. i \in 1 .. Len(pragmaContext)
  <2>1. j \in 1 .. Len(program) + 1 /\ pc \in 1 .. Len(program) + 1 /\ pc \in j .. pc
    BY <1>1
  <2>2. DepthOf(program, j) \in Nat /\ DepthOf(program, pc) \in Nat
    BY <2>1 DEF PlaceOK
  <2>3. DepthOf(program, pc) >= DepthOf(program, j)
    BY <1>3, <2>1 DEF OpenAt
  <2> QED BY <1>5, <2>2, <2>3
<1> QED BY <1>5, <1>6 DEF Binders

LEMMA TargetsStep ==
  ASSUME LinkageInv, PlaceOK, VisibleOK, TargetsOK, [Next]_vars
  PROVE  TargetsOK'
<1>0. /\ SourceOK /\ ContextOK /\ Len(program) \in Nat
      /\ unit \in 1 .. Len(program) + 1 /\ pc \in 1 .. Len(program) + 1
  BY LenProperties DEF LinkageInv, TablesOK, SourceOK
<1>1. phase # "done" => outcome = "compiling"
  BY <1>0 DEF SourceOK, Outcomes
<1>2. CASE ReadStep
  <2>1. PICK item \in Items : Reads(item, Opened + DepthStep(item))
    BY <1>0, <1>2, ReadShape
  <2>2. /\ phase = "parse" /\ unit' = unit /\ UNCHANGED <<pragmaContext, outcome>>
        /\ phase' = "parse" \/ (phase' = "pragma" /\ pc' = unit)
    BY <2>1 DEF Reads, Following
  <2>3. Pragmed = unit /\ Pragmed' = unit
    BY <2>2 DEF Pragmed
  <2>4. /\ \A i \in 1 .. Len(program) : program'[i] = program[i]
        /\ \A i \in 1 .. Len(program) + 1 : DepthOf(program', i) = DepthOf(program, i)
    BY <1>0, <2>1, Grows
  <2>5. ContextAt(program, pragmaContext, unit)
    BY <2>2, <2>3 DEF TargetsOK
  <2>6. ContextAt(program', pragmaContext, unit)
    <3>1. /\ unit \in Nat \ {0}
          /\ \A i \in 1 .. unit - 1 : program'[i] = program[i]
          /\ \A i \in 1 .. unit : DepthOf(program', i) = DepthOf(program, i)
      BY <1>0, <2>4
    <3> QED BY <2>5, <3>1, ContextGrows
  <2> QED BY <1>1, <2>2, <2>3, <2>6 DEF TargetsOK
<1>3. CASE EndOfSource
  BY <1>1, <1>3 DEF EndOfSource, TargetsOK
<1>4. CASE PragmaStep
  <2>1. phase = "pragma" /\ UNCHANGED source /\ pc \in 1 .. Len(program) /\ Node = program[pc]
    BY <1>0, <1>4 DEF PragmaStep, PragmaFunction, PragmaEnd, PragmaCall, VisitPragma, Visits, Node
  <2>2. CASE GoOn /\ (PragmaFunction \/ PragmaEnd \/ (UNCHANGED pragmaContext /\ Node.op \in {"call", "pragma"}))
    <3>1. phase' = "pragma" /\ pc' = pc + 1 /\ outcome' = "compiling" /\ program' = program
      BY <1>1, <2>1, <2>2 DEF GoOn, source
    <3>2. Pragmed = pc /\ Pragmed' = pc + 1
      BY <2>1, <3>1 DEF Pragmed
    <3>3. ContextAt(program, pragmaContext, pc)
      BY <2>1, <3>2 DEF TargetsOK
    <3>4. Node \in Items /\ pc \in Nat \ {0}
      BY <1>0, <2>1, ElementOfSeq DEF SourceOK
    <3>5. \A n \in 1 .. pc + 1 : DepthOf(program, n) \in Nat
      BY <1>0, <2>1 DEF PlaceOK
    <3>6. \A q \in Nat \ {0} : pc = q => ContextAt(program, pragmaContext', q + 1)
      <4> SUFFICES ASSUME NEW q \in Nat \ {0}, pc = q PROVE ContextAt(program, pragmaContext', q + 1)
        OBVIOUS
      <4> QED BY <1>0, <2>1, <2>2, <3>3, <3>4, <3>5, ContextPasses DEF ContextOK
    <3>7. ContextAt(program, pragmaContext', pc + 1)
      BY <3>4, <3>6
    <3> QED BY <3>1, <3>2, <3>7 DEF TargetsOK
  <2>3. CASE VisitPragma /\ (Binders(pragmaContext, Node.name) = {} \/ Node.type # "SYMBOL_NAME")
    <3>1. phase' = "done" /\ program' = program /\ pc' = pc /\ Visits("pragma", "pragma")
      BY <2>1, <2>3 DEF VisitPragma, Stop, source
    <3>2. NoInner(program) => ~Node.isFunction \/ Node.type # "SYMBOL_NAME"
      BY <2>3, <3>1, PragmaFound
    <3>3. Node' = Node /\ (NoInner(program') => NoInner(program))
      BY <3>1 DEF Node
    <3> QED BY <3>1, <3>2, <3>3 DEF TargetsOK
  <2> QED BY <1>4, <2>2, <2>3
          DEF PragmaStep, PragmaFunction, PragmaEnd, PragmaCall, VisitPragma, Visits
<1>5. CASE TypeStep \/ CodegenStep
  <2>1. /\ UNCHANGED <<source, pragmaContext>> /\ phase \in {"type", "codegen"}
    BY <1>5 DEF TypeStep, TypeFunction, TypeEnd, TypePragma, TypeCall, CodegenStep, GenerateFunction,
                GenerateNothing, GenerateCall, EndOfCode, Visits
  <2>2. phase' = phase \/ phase' = "done"
    BY <1>0, <1>5, VisitShape DEF VisitStep, GoOn, TypeError, Stop
  <2>3. outcome' # "exited"
    <3>1. CASE TypeFunction
      BY <1>1, <2>1, <3>1, FunctionShape DEF GoOn, TypeError, Stop
    <3>2. CASE TypeCall
      BY <1>1, <2>1, <3>2, CallShape DEF GoOn, TypeError, Stop
    <3>3. CASE TypeEnd \/ TypePragma
      BY <1>1, <2>1, <3>3 DEF TypeEnd, TypePragma, GoOn
    <3>4. CASE CodegenStep
      BY <1>1, <2>1, <3>4
         DEF CodegenStep, GenerateFunction, GenerateNothing, GenerateCall, EndOfCode, GoOn, Stop
    <3> QED BY <1>5, <3>1, <3>2, <3>3, <3>4 DEF TypeStep
  <2>4. phase' = "type" => Pragmed = Len(program) + 1 /\ Pragmed' = Len(program) + 1 /\ phase = "type"
    BY <2>1, <2>2 DEF Pragmed, source
  <2>5. phase' \notin {"parse", "pragma"} /\ program' = program /\ pragmaContext' = pragmaContext
    BY <2>1, <2>2 DEF source
  <2> QED BY <2>3, <2>4, <2>5 DEF TargetsOK
<1>6. CASE EndWalk
  <2>1. /\ UNCHANGED <<source, pragmaContext, outcome>> /\ pc = Len(program) + 1
        /\ phase \in {"pragma", "type"}
        /\ \/ phase = "pragma" /\ phase' = "type"
           \/ phase = "type" /\ phase' = "parse" /\ unit' = Len(program) + 1
    BY <1>6 DEF EndWalk, Following
  <2>2. Pragmed = Len(program) + 1 /\ Pragmed' = Len(program) + 1 /\ program' = program
    BY <2>1 DEF Pragmed, source
  <2> QED BY <1>1, <2>1, <2>2 DEF TargetsOK
<1>7. CASE UNCHANGED vars
  <2>1. UNCHANGED <<program, pragmaContext, outcome, phase, unit, pc>>
    BY <1>7 DEF vars, source, walk
  <2>2. Pragmed' = Pragmed /\ Node' = Node
    BY <2>1 DEF Pragmed, Node
  <2> QED BY <2>1, <2>2 DEF TargetsOK
<1> QED BY <1>2, <1>3, <1>4, <1>5, <1>6, <1>7, StepCases DEF VisitStep

(* What the parser took for a function in scope, the pragma visitor finds   *)
(* in a scope of its own, in every source without a prototype inside a      *)
(* body: where the pragma visitor exits, the target is no function to the   *)
(* parser either, or the pragma is of an unknown kind.                      *)
THEOREM PragmaTargetsFoundAlways == Spec => []PragmaTargetsFound
<1> DEFINE Inv == PlaceOK /\ VisibleOK /\ TargetsOK
<1>1. LinkageInv /\ Inv => PragmaTargetsFound
  <2> SUFFICES ASSUME Inv, outcome = "exited",
                      \A f \in FunctionNodes : HasBody(program[f]) \/ Depth(f) = 0
               PROVE  ~Node.isFunction \/ Node.type # "SYMBOL_NAME"
    BY DEF PragmaTargetsFound
  <2>1. NoInner(program)
    BY DepthIs DEF NoInner, FunctionNodes, Nodes
  <2> QED BY <2>1 DEF TargetsOK
<1>2. Init => Inv
  BY PlaceInit, VisibleInit, TargetsInit
<1>3. LinkageInv /\ Inv /\ [Next]_vars => Inv'
  BY PlaceStep, VisibleStep, TargetsStep DEF LinkageInv
<1> HIDE DEF Inv
<1> QED BY <1>1, <1>2, <1>3, LinkageInductive, PTL DEF Spec
=============================================================================
