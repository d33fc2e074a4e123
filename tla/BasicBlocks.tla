---------------------------- MODULE BasicBlocks ----------------------------
(***************************************************************************)
(* The basic blocks that the code generator builds for function bodies     *)
(* (src/visitor/llvmVisitor.cpp), and what they do when they run.          *)
(*                                                                         *)
(* A source is read, visited item by item in its order, and then one of    *)
(* its functions runs.  Blocks are numbered in the order of their          *)
(* creation.  A block that is created without a function, as those of      *)
(* labels and of else branches are, has no parent until it is pushed back. *)
(* Each instruction remembers the item control is at before it; nothing    *)
(* but the properties reads that.                                          *)
(***************************************************************************)
EXTENDS Items

CONSTANTS
  Variables,    \* variables of type bool
  Labels,       \* names of labels
  Expressions,  \* variables, `and', `or', the operands of each among them
  Height(_),    \* the height of the tree of an expression
  Conditions,   \* the expressions in conditions
  Returned,     \* the expressions returned
  Values,       \* what is assigned
  MaxItems,     \* bound on the length of the source
  Absent        \* an optional without a value, a null pointer

ASSUME BlocksAssumption ==
  /\ MaxItems \in Nat /\ Values \subseteq BOOLEAN
  /\ Absent \notin Labels /\ Absent \notin BOOLEAN
  /\ Conditions \subseteq Expressions /\ Returned \subseteq Expressions
  /\ \A e \in Expressions :
       /\ Height(e) \in Nat
       /\ \/ e.op = "variable" /\ e.name \in Variables
          \/ /\ e.op \in {"and", "or"}
             /\ e.left \in Expressions /\ Height(e.left) < Height(e)
             /\ e.right \in Expressions /\ Height(e.right) < Height(e)

VARIABLES
  ifs,          \* the parseIf calls under way, innermost first: "then" or "else"
  phase,        \* "parse", "codegen", "emit", "run" or "done"
  pc,           \* the item the code generator visits
  blocks,       \* the basic blocks: parent and code
  insert,       \* the block the IRBuilder inserts into
  namedBlocks,  \* ContextProvider::namedBlocks
  pending,      \* the visitNodeIf calls under way: their node, elseBB and mergeBB
  broken,       \* a block was inserted twice, or the module cannot be emitted
  at,           \* the running function: block and instruction
  from,         \* the block control came from
  registers,    \* the value of each PHI node that was executed
  memory,       \* the values of the variables
  result        \* what the function has returned

module == <<blocks, insert, namedBlocks, pending, broken>>
running == <<at, from, registers, memory, result>>
vars == <<program, ifs, phase, pc, module, running>>

NotRunning == <<0, 0>>
NoBlock == 0
Detached == 0

-----------------------------------------------------------------------------
(* Reading the source *)

(* Inside a function.                                                       *)
Open ==
  \E f \in DOMAIN program :
    /\ program[f].op = "function"
    /\ \A i \in f .. Len(program) : program[i].op # "end"

(* Room is kept for what ends the ifs and the function.                     *)
Reads(item, ifs1, closers) ==
  /\ phase = "parse"
  /\ Len(program) + 1 + Len(ifs1) + closers <= MaxItems
  /\ program' = Append(program, item)
  /\ ifs' = ifs1
  /\ UNCHANGED <<phase, pc, module, running>>

Plain(op) == [op |-> op, label |-> Absent]

ParseFunction == ~Open /\ Reads(Plain("function"), ifs, 1)

(* parseBlock: a block may have a label in front.                           *)
ParseStatement ==
  /\ Open
  /\ \E label \in Labels \cup {Absent} :
       \/ \E v \in Variables, x \in Values :
            Reads([op |-> "assign", label |-> label, name |-> v, value |-> x], ifs, 1)
       \/ \E l \in Labels :
            Reads([op |-> "goto", label |-> label, to |-> l], ifs, 1)
       \/ \E e \in Returned :
            Reads([op |-> "return", label |-> label, value |-> e], ifs, 1)
       \/ \E e \in Conditions :
            Reads([op |-> "if", label |-> label, condition |-> e], <<"then">> \o ifs, 1)

ParseElse ==
  /\ ifs # <<>> /\ Head(ifs) = "then"
  /\ Reads(Plain("else"), <<"else">> \o Tail(ifs), 1)

ParseFi == ifs # <<>> /\ Reads(Plain("fi"), Tail(ifs), 1)

ParseEnd == Open /\ ifs = <<>> /\ Reads(Plain("end"), ifs, 0)

EndOfSource ==
  /\ phase = "parse" /\ ~Open /\ program # <<>>
  /\ phase' = "codegen" /\ pc' = 1
  /\ UNCHANGED <<program, ifs, module, running>>

-----------------------------------------------------------------------------
(* Building blocks: b is a record of the blocks, the insert block, lastValue *)
(* and whether a block was inserted into a second place.                     *)

Builder == [blocks |-> blocks, insert |-> insert, last |-> Absent, broken |-> broken]

Emit(b, instruction) ==
  [b EXCEPT !.blocks[b.insert].code = Append(@, [item |-> Settle[pc], does |-> instruction])]

Create(b, parent) ==
  [b EXCEPT !.blocks = Append(@, [parent |-> parent, code |-> <<>>])]

Parent(b) == b.blocks[b.insert].parent

(* getBasicBlockList().push_back(block) of the function inserted into.      *)
PushBack(b, block) ==
  [b EXCEPT !.blocks[block].parent = Parent(b),
            !.broken = @ \/ b.blocks[block].parent # Detached]

SetInsert(b, block) == [b EXCEPT !.insert = block]

Br(to) == [op |-> "br", to |-> to]
CondBrSwapped(on, yes, no) == [op |-> "condbr", on |-> on, yes |-> no, no |-> yes]
CondBr(on, yes, no) == [op |-> "condbr", on |-> on, yes |-> yes, no |-> no]

(* lastValue: a variable's value or a PHI node, named after its block.      *)
Load(name) == [op |-> "load", name |-> name]
PhiOf(block) == [op |-> "phi", block |-> block]
Operands == [op : {"load"}, name : Variables] \cup [op : {"phi"}, block : Nat]

Instructions ==
  [op : {"br"}, to : Nat] \cup [op : {"condbr"}, on : Operands, yes : Nat, no : Nat]
    \cup [op : {"phi"}, incoming : SUBSET (Nat \X Operands)]
    \cup [op : {"store"}, name : Variables, value : Values]
    \cup [op : {"ret"}, value : Operands] \cup [op : {"unreachable"}]

Blocks == [parent : Nat, code : Seq([item : Nat, does : Instructions])]

Builders ==
  {b \in [blocks : Seq(Blocks), insert : Nat, last : Operands \cup {Absent}, broken : BOOLEAN] :
     b.insert \in DOMAIN b.blocks}

(* visitLazyBinOperator, where `visit' gives the visits of the operands.     *)
VisitLazy(b, e, visit) ==
  LET left    == visit[e.left][b]
      leftB   == Len(left.blocks) + 1
      rightB  == leftB + 1
      mergeB  == leftB + 2
      created == Create(Create(Create(left, Parent(left)), Detached), Detached)
      split   == Emit(created, IF e.op = "and" THEN CondBr(left.last, rightB, leftB)
                                               ELSE CondBr(left.last, leftB, rightB))
      leftEnd == Emit(SetInsert(split, leftB), Br(mergeB))
      right   == visit[e.right][SetInsert(PushBack(leftEnd, rightB), rightB)]
      merged  == SetInsert(PushBack(Emit(right, Br(mergeB)), mergeB), mergeB)
      phi     == [op |-> "phi", incoming |-> {<<leftB, left.last>>, <<rightB, right.last>>}]
  IN  [Emit(merged, phi) EXCEPT !.last = PhiOf(mergeB)]

(* accept of an expression; visitNodeText is the first case.                *)
Visit(builder, expression) ==
  LET visit[e \in Expressions] ==
        [b \in Builders |-> IF e.op = "variable" THEN [b EXCEPT !.last = Load(e.name)]
                                                 ELSE VisitLazy(b, e, visit)]
  IN  visit[expression][builder]

MarkedAfterTerminator(b, label) ==
  LET block == namedBlocks[label]
      made  == IF block = NoBlock THEN Create(b, Detached) ELSE b
      named == IF block = NoBlock THEN Len(made.blocks) ELSE block
      code  == b.blocks[b.insert].code
      ended == code # <<>> /\ code[Len(code)].does.op \in {"br", "ret"}
  IN  SetInsert(PushBack(IF ended THEN made ELSE Emit(made, Br(named)), named), named)

(* accept of a labelled block: visitNodeBlockModifier comes first.          *)
Marked(b, label) ==
  LET block == namedBlocks[label]
      made  == IF block = NoBlock THEN Create(b, Detached) ELSE b
      named == IF block = NoBlock THEN Len(made.blocks) ELSE block
  IN  SetInsert(PushBack(Emit(made, Br(named)), named), named)

Accepted(label) == IF label = Absent THEN Builder ELSE Marked(Builder, label)

Named(label, b) ==
  IF label = Absent THEN namedBlocks ELSE [namedBlocks EXCEPT ![label] = b.insert]

Visits(op) == phase = "codegen" /\ pc <= Len(program) /\ program[pc].op = op

Item == program[pc]

(* The builder is left as b; an insertion into a second list of blocks is   *)
(* the end of the compiler.                                                 *)
Leaves(b, named) ==
  /\ blocks' = b.blocks /\ insert' = b.insert /\ broken' = b.broken
  /\ namedBlocks' = named
  /\ pc' = pc + 1
  /\ phase' = IF b.broken THEN "done" ELSE phase
  /\ UNCHANGED <<program, ifs, running>>

VisitFunction ==
  /\ Visits("function")
  /\ LET b == Create(Builder, pc)
     IN  Leaves(SetInsert(b, Len(b.blocks)), namedBlocks)
  /\ UNCHANGED pending

(* After the body.  The variant leaves the last block as it is.             *)
VisitEndOpen ==
  /\ Visits("end")
  /\ Leaves(Builder, namedBlocks)
  /\ UNCHANGED pending
VisitEnd ==
  /\ Visits("end")
  /\ Leaves(Emit(Builder, [op |-> "unreachable"]), namedBlocks)
  /\ UNCHANGED pending

VisitAssign ==
  /\ Visits("assign")
  /\ LET b == Accepted(Item.label)
     IN  Leaves(Emit(b, [op |-> "store", name |-> Item.name, value |-> Item.value]),
                Named(Item.label, b))
  /\ UNCHANGED pending

VisitReturn ==
  /\ Visits("return")
  /\ LET marked == Accepted(Item.label)
         b == Visit(marked, Item.value)
     IN  Leaves(Emit(b, [op |-> "ret", value |-> b.last]), Named(Item.label, marked))
  /\ UNCHANGED pending

VisitGotoUnregistered ==
  /\ Visits("goto")
  /\ LET marked == Accepted(Item.label)
         named  == Named(Item.label, marked)
         known  == named[Item.to] # NoBlock
         b      == IF known THEN marked ELSE Create(marked, Detached)
         block  == IF known THEN named[Item.to] ELSE Len(b.blocks)
     IN  Leaves(Emit(b, Br(block)), named)
  /\ UNCHANGED pending

(* The code after a goto goes into the block that the goto has ended.       *)
VisitGoto ==
  /\ Visits("goto")
  /\ LET marked == Accepted(Item.label)
         named  == Named(Item.label, marked)
         known  == named[Item.to] # NoBlock
         b      == IF known THEN marked ELSE Create(marked, Detached)
         block  == IF known THEN named[Item.to] ELSE Len(b.blocks)
     IN  Leaves(Emit(b, Br(block)), [named EXCEPT ![Item.to] = block])
  /\ UNCHANGED pending

VisitIf ==
  /\ Visits("if")
  /\ LET marked == Accepted(Item.label)
         c      == Visit(marked, Item.condition)
         thenBB == Len(c.blocks) + 1
         elseBB == thenBB + 1
         made   == Create(Create(Create(c, Parent(c)), Detached), Detached)
         b      == Emit(made, CondBr(c.last, thenBB, elseBB))
     IN  /\ Leaves(SetInsert(b, thenBB), Named(Item.label, marked))
         /\ pending' = <<[node |-> pc, else |-> elseBB, merge |-> elseBB + 1, inElse |-> FALSE]>> \o pending

(* The branch under visit ends, the else block follows.                     *)
ElseOf(b, open) ==
  SetInsert(PushBack(Emit(b, Br(open.merge)), open.else), open.else)

MergeOf(b, open) ==
  SetInsert(PushBack(Emit(b, Br(open.merge)), open.merge), open.merge)

VisitElse ==
  /\ Visits("else")
  /\ Leaves(ElseOf(Builder, Head(pending)), namedBlocks)
  /\ pending' = <<[Head(pending) EXCEPT !.inElse = TRUE]>> \o Tail(pending)

VisitFiLooping ==
  /\ Visits("fi")
  /\ LET open  == Head(pending)
         elsed == ElseOf(Builder, open)
     IN  Leaves(IF open.inElse THEN MergeOf(Builder, open)
                ELSE SetInsert(PushBack(Emit(elsed, Br(open.else)), open.merge), open.merge),
                namedBlocks)
  /\ pending' = Tail(pending)

VisitFi ==
  /\ Visits("fi")
  /\ LET open == Head(pending)
     IN  Leaves(MergeOf(IF open.inElse THEN Builder ELSE ElseOf(Builder, open), open),
                namedBlocks)
  /\ pending' = Tail(pending)

Codegen ==
  \/ VisitFunction \/ VisitEnd \/ VisitAssign \/ VisitReturn
  \/ VisitGoto \/ VisitIf \/ VisitElse \/ VisitFi

-----------------------------------------------------------------------------
(* Emission and execution: LLVM's part *)

Targets(instruction) ==
  CASE instruction.op = "br"     -> {instruction.to}
    [] instruction.op = "condbr" -> {instruction.yes, instruction.no}
    [] OTHER                     -> {}

Terminators == {"br", "condbr", "ret", "unreachable"}

(* Branches stay in their function.                                         *)
Emittable ==
  \A b \in DOMAIN blocks : \A k \in DOMAIN blocks[b].code :
    \A to \in Targets(blocks[b].code[k].does) :
      blocks[to].parent = blocks[b].parent /\ blocks[to].parent # Detached

EmitObject ==
  /\ phase = "codegen" /\ pc > Len(program)
  /\ IF Emittable THEN phase' = "emit" /\ UNCHANGED broken
     ELSE phase' = "done" /\ broken' = TRUE
  /\ UNCHANGED <<program, ifs, pc, blocks, insert, namedBlocks, pending, running>>

(* One of the functions runs; its entry block is the first of its blocks.   *)
Start ==
  /\ phase = "emit"
  /\ phase' = "run"
  /\ \E f \in DOMAIN program :
       /\ program[f].op = "function"
       /\ \E b \in DOMAIN blocks :
            /\ blocks[b].parent = f
            /\ \A c \in DOMAIN blocks : blocks[c].parent = f => b <= c
            /\ at' = <<b, 1>>
  /\ memory' \in [Variables -> BOOLEAN]
  /\ UNCHANGED <<program, ifs, pc, module, from, registers, result>>

Instruction == blocks[at[1]].code[at[2]].does
Executes(op) == phase = "run" /\ Instruction.op = op

Operand(o) == IF o.op = "load" THEN memory[o.name] ELSE registers[o.block]

NextInstruction == at' = <<at[1], at[2] + 1>> /\ UNCHANGED <<phase, from, result>>
Jump(to) == at' = <<to, 1>> /\ from' = at[1] /\ UNCHANGED <<phase, result>>
Finish(value) ==
  /\ phase' = "done" /\ result' = value /\ at' = NotRunning
  /\ UNCHANGED from

Store ==
  /\ Executes("store") /\ NextInstruction
  /\ memory' = [memory EXCEPT ![Instruction.name] = Instruction.value]
  /\ UNCHANGED registers

(* A PHI node without the block control comes from has any value.           *)
Phi ==
  /\ Executes("phi") /\ NextInstruction
  /\ LET values == {Operand(v[2]) : v \in {w \in Instruction.incoming : w[1] = from}}
     IN  \E value \in IF values = {} THEN BOOLEAN ELSE values :
           registers' = [b \in DOMAIN registers \cup {at[1]} |->
                           IF b = at[1] THEN value ELSE registers[b]]
  /\ UNCHANGED memory

Branch ==
  /\ \/ Executes("br") /\ Jump(Instruction.to)
     \/ Executes("condbr")
          /\ Jump(IF Operand(Instruction.on) THEN Instruction.yes ELSE Instruction.no)
  /\ UNCHANGED <<registers, memory>>

Ret ==
  /\ \/ Executes("ret") /\ Finish(Operand(Instruction.value))
     \/ Executes("unreachable") /\ \E x \in BOOLEAN : Finish(x)
  /\ UNCHANGED <<registers, memory>>

Execute ==
  /\ Store \/ Phi \/ Branch \/ Ret
  /\ UNCHANGED <<program, ifs, pc, module>>

-----------------------------------------------------------------------------
Init ==
  /\ program = <<>> /\ ifs = <<>> /\ phase = "parse" /\ pc = 1
  /\ blocks = <<>> /\ insert = NoBlock /\ pending = <<>> /\ broken = FALSE
  /\ namedBlocks = [l \in Labels |-> NoBlock]
  /\ at = NotRunning /\ from = NoBlock /\ registers = <<>>
  /\ memory = [v \in Variables |-> FALSE] /\ result = Absent

Done == phase = "done" /\ UNCHANGED vars

Parse ==
  \/ ParseFunction \/ ParseStatement \/ ParseElse \/ ParseFi \/ ParseEnd \/ EndOfSource

Next == Parse \/ Codegen \/ EmitObject \/ Start \/ Execute \/ Done

(* The program that was made is one thread, which waits for nothing.        *)
Spec == Init /\ [][Next]_vars /\ WF_vars(Execute)
-----------------------------------------------------------------------------
(* What the blocks are to the source *)

(* Control is at the item whose instruction is executed next.               *)
Position == IF phase = "run" THEN blocks[at[1]].code[at[2]].item ELSE 0

Meaning == INSTANCE ControlFlow WITH position <- Position

(* What runs is what the source means: every execution of the blocks is one *)
(* of the statements in their order, with branches, gotos, lazy operators   *)
(* and the returned value as written (visitNodeIf, visitNodeGoto,           *)
(* visitLazyBinOperator, visitNodeBlockModifier, visitNodeReturn).          *)
ImplementsControlFlow == Meaning!Spec

(* A return with `and' or `or' returns what specification.md:176-177 calls   *)
(* the logical and and the logical or of the operands.                      *)
ReturnsAsWritten ==
  [][Executes("ret") => result' = Meaning!Eval(program[Position].value)]_vars

(* A label is on one item of the source only, and every goto is in the      *)
(* function of its label.                                                   *)
WellLabelled ==
  /\ \A i, j \in DOMAIN program :
       program[i].label = program[j].label /\ i # j => program[i].label = Absent
  /\ \A i \in DOMAIN program :
       program[i].op = "goto" => Labelled(program[i].to, i) # {}

(* A source whose labels are all different, with every goto in the function *)
(* of its label, is compiled: no block stays without a function, and no     *)
(* branch leaves its function (visitNodeGoto makes blocks that only a label *)
(* puts somewhere).                                                         *)
WellLabelledCompiles == WellLabelled => ~broken

(* LLVM takes the last instruction of a block for its only terminator when  *)
(* it looks for blocks that nothing reaches, and drops those; what is       *)
(* executed never depends on a branch in the middle of a block to be kept   *)
(* (visitNodeGoto and visitNodeReturn go on inserting after a terminator).  *)
Successors(b) == IF blocks[b].code = <<>> THEN {} ELSE Targets(blocks[b].code[Len(blocks[b].code)].does)
Reached(start) ==
  LET reached[bs \in SUBSET DOMAIN blocks] ==
        LET more == bs \cup UNION {Successors(b) : b \in bs}
        IN  IF more = bs THEN bs ELSE reached[more]
  IN  reached[start]
Entry(b) == CHOOSE e \in DOMAIN blocks :
  /\ blocks[e].parent = blocks[b].parent
  /\ \A c \in DOMAIN blocks : blocks[c].parent = blocks[b].parent => e <= c
ExecutedBlocksKept == phase = "run" => at[1] \in Reached({Entry(at[1])})

(* A source whose gotos all go forward returns: control does not get caught *)
(* in the blocks that no item of the source stands for (the branches around *)
(* else, merge and label blocks).                                           *)
ForwardOnly ==
  \A i \in DOMAIN program :
    program[i].op = "goto" => \A j \in Labelled(program[i].to, i) : j > i
ForwardReturns == (phase = "run" /\ ForwardOnly) ~> phase = "done"

(* Types of the state.  Control never runs past the last instruction of a   *)
(* block: every block that the visitors make ends in a branch, a return or  *)
(* an unreachable, whatever is inserted into it and wherever it is put.     *)
TypeOK ==
  /\ phase \in {"parse", "codegen", "emit", "run", "done"}
  /\ pc \in 1 .. MaxItems + 1
  /\ insert \in 0 .. Len(blocks)
  /\ \A b \in DOMAIN blocks : blocks[b].parent \in 0 .. Len(program)
  /\ namedBlocks \in [Labels -> 0 .. Len(blocks)]
  /\ Len(pending) <= MaxItems
  /\ phase # "parse" /\ pc > Len(program) => pending = <<>>
  /\ result \in BOOLEAN \cup {Absent}
  /\ phase = "run" => at[1] \in DOMAIN blocks /\ at[2] \in DOMAIN blocks[at[1]].code
=============================================================================
