------------------------- MODULE BasicBlocksProofs -------------------------
(***************************************************************************)
(* The code generation of jumps and conditions, for every set of names,    *)
(* labels and expressions and every bound on the source: the type          *)
(* invariant; that a source with labels as the language wants them is      *)
(* compiled; that the removal of unreachable blocks takes away nothing the *)
(* program executes; and that it executes what the source means.           *)
(*                                                                         *)
(* The invariant says what BlockBuildingProofs shows of the visits: while  *)
(* the source is visited, the blocks so far have roles; when it runs,      *)
(* control is in such a block, what the block claims holds, and its        *)
(* operands have the values of their expressions.                          *)
(***************************************************************************)
EXTENDS BlockBuildingProofs

-----------------------------------------------------------------------------
(* The invariant *)

(* The values of the expressions, given those of the variables.             *)
Valued(val, mem) ==
  /\ val \in [Expressions -> BOOLEAN]
  /\ \A e \in Expressions :
       /\ e.op = "variable" => val[e] = mem[e.name]
       /\ e.op = "and" => val[e] = (val[e.left] /\ val[e.right])
       /\ e.op = "or" => val[e] = (val[e.left] \/ val[e.right])

OperandOf(o, regs, mem) == IF o.op = "load" THEN mem[o.name] ELSE regs[o.block]

(* The operand has a value, which is that of e.                             *)
Means(o, e, regs, mem) ==
  /\ OperandOf(o, regs, mem) \in BOOLEAN
  /\ RightsAreVariables => \A val : Valued(val, mem) => OperandOf(o, regs, mem) = val[e]

(* What block c begins with holds for who comes from block origin.          *)
Claimed(role, c, origin, regs, mem) ==
  /\ \A f \in role[c].claims : f.from \in {0, origin} => ~f.never /\ Means(f.on, f.is, regs, mem)
  /\ RightsAreVariables => role[c].claims = {} \/ \E f \in role[c].claims : f.from \in {0, origin}

(* Control is in front of instruction k of block c.                         *)
AtOK(bs, role, c, k, origin, regs, mem) ==
  /\ c \in 1 .. Len(bs) /\ Par(bs, c) # 0 /\ k \in 1 .. Long(bs, c)
  /\ mem \in [Variables -> BOOLEAN]
  /\ k = 1 => Claimed(role, c, origin, regs, mem)
  /\ k = 2 /\ Does(bs, c, 1).op = "phi" => Means(PhiOf(c), role[c].means, regs, mem)

Built(x, n, bs, named, role) ==
  Core(x, bs, role, 0, {}, n, named) /\ NamedOK(x, bs, role, {}, n, named)

GeneratedWith(role) ==
  /\ Built(Context, Len(program), blocks, namedBlocks, role)
  /\ phase = "run" => /\ at = <<at[1], at[2]>>
                      /\ AtOK(blocks, role, at[1], at[2], from, registers, memory)

Generated == Emittable /\ \E role : GeneratedWith(role)

IInv ==
  /\ SourceOK /\ Light
  /\ phase \in {"parse", "codegen", "emit", "run", "done"}
  /\ pc \in 1 .. MaxItems + 1
  /\ phase # "parse" => WholeSource /\ (pc > Len(program) => pending = <<>>)
  /\ phase = "parse" => Fresh
  /\ phase = "codegen" => Generating
  /\ phase \in {"emit", "run"} => Generated
  /\ phase \in {"parse", "codegen", "emit"} => NotStarted
  /\ broken => phase = "done" /\ ~WellLabelled
  /\ result \in BOOLEAN \cup {Absent}

LEMMA FreshLight ==
  ASSUME NEW n \in Nat, Fresh
  PROVE  LightAt(n, blocks, insert, namedBlocks, pending, broken)
<1>1. blocks = <<>> /\ insert = 0 /\ pending = <<>> /\ broken = FALSE /\ namedBlocks = [l \in Labels |-> 0]
  BY DEF Fresh, NoBlock
<1>2. Len(blocks) = 0 /\ blocks \in Seq(Blocks) /\ Len(pending) = 0
  BY <1>1
<1>3. namedBlocks \in [Labels -> 0 .. Len(blocks)] /\ insert \in 0 .. Len(blocks)
  BY <1>1, <1>2
<1>4. Len(pending) <= MaxItems
  BY <1>2, BlocksAssumption
<1>5. insert = 0 /\ pending = <<>> /\ broken \in BOOLEAN
  BY <1>1
<1>6. \A c \in 1 .. Len(blocks) : FALSE
  BY <1>2
<1> QED BY <1>2, <1>3, <1>4, <1>5, <1>6 DEF LightAt

LEMMA InitInv == Init => IInv
<1> SUFFICES ASSUME Init PROVE IInv
  OBVIOUS
<1>1. Fresh /\ NotStarted /\ phase = "parse" /\ program = <<>> /\ ifs = <<>> /\ result = Absent /\ pc = 1
      /\ broken = FALSE
  BY DEF Init, Fresh, NotStarted
<1>2. Len(program) = 0 /\ Len(program) \in Nat
  BY <1>1
<1>3. Light
  BY <1>1, <1>2, FreshLight DEF Light
<1>4. SourceOK
  <2>1. AtEnd
    BY <1>1 DEF AtEnd
  <2>2. Sequence(program) /\ Len(program) <= MaxItems
    BY <1>1, <1>2, BlocksAssumption DEF Sequence
  <2>3. \A i : i \notin 1 .. Len(program)
    BY <1>2
  <2>4. OneElse
    BY <2>3 DEF OneElse
  <2>5. IfsOK
    <3>1. Len(ifs) = 0 /\ ifs \in Seq({"then", "else"})
      BY <1>1
    <3>2. Opened(0) = 0
      BY OpenedStep
    <3>3. Len(ifs) = Opened(Len(program))
      BY <1>2, <3>1, <3>2
    <3>4. \A l : l \notin 1 .. Len(ifs)
      BY <3>1
    <3> QED BY <3>1, <3>3, <3>4 DEF IfsOK
  <2> QED BY <2>1, <2>2, <2>3, <2>4, <2>5, <1>1 DEF SourceOK
<1>5. pc \in 1 .. MaxItems + 1
  BY <1>1, BlocksAssumption
<1> QED BY <1>1, <1>3, <1>4, <1>5 DEF IInv

-----------------------------------------------------------------------------
(* Reading *)

LEMMA ReadsInv ==
  ASSUME NEW item, NEW ifs1, NEW closers, IInv, Reads(item, ifs1, closers), SourceOK'
  PROVE  IInv'
<1>1. phase = "parse" /\ phase' = "parse" /\ UNCHANGED <<pc, module, running>>
  BY DEF Reads
<1>2. Fresh /\ NotStarted
  BY <1>1 DEF IInv
<1>3. Fresh' /\ NotStarted' /\ broken' = FALSE /\ result' = Absent /\ pc' = 1
  BY <1>1, <1>2 DEF Fresh, NotStarted, module, running
<1>4. Len(program') \in Nat
  <2>1. Sequence(program')
    BY DEF SourceOK
  <2> QED BY <2>1, SequenceFacts
<1>5. LightAt(Len(program'), blocks, insert, namedBlocks, pending, broken)
  BY <1>2, <1>4, FreshLight
<1>6. Light'
  BY <1>1, <1>5 DEF Light, module
<1>7. pc' \in 1 .. MaxItems + 1
  BY <1>3, BlocksAssumption
<1> QED BY <1>1, <1>3, <1>6, <1>7 DEF IInv

LEMMA OpenNotAtEnd ==
  ASSUME Open, SourceOK PROVE ~AtEnd
<1>1. PICK f \in DOMAIN program : program[f].op = "function" /\ \A i \in f .. Len(program) : program[i].op # "end"
  BY DEF Open
<1>2. Len(program) \in Nat /\ DOMAIN program = 1 .. Len(program)
  BY SequenceFacts DEF SourceOK
<1>3. Len(program) \in f .. Len(program)
  BY <1>1, <1>2
<1>4. program[Len(program)].op # "end"
  BY <1>1, <1>3
<1>5. program # <<>>
  BY <1>1, <1>2
<1> QED BY <1>4, <1>5 DEF AtEnd

LEMMA ReadsSource ==
  ASSUME NEW item, NEW ifs1, NEW closers, NEW delta,
         SourceOK, Reads(item, ifs1, closers), ItemOK(item), closers \in {0, 1},
         item.op = "function" <=> AtEnd, item.op \in {"function", "end"} => ifs = <<>>,
         item.op \in {"else", "fi"} => ifs # <<>>, item.op = "else" => ifs[1] = "then",
         ifs1 \in Seq({"then", "else"}),
         delta = (IF item.op = "if" THEN 1 ELSE IF item.op = "fi" THEN -1 ELSE 0),
         Len(ifs1) = Len(ifs) + delta,
         \A l \in 1 .. Len(ifs1) : ifs1[l] = "then" =>
           \/ item.op = "if" /\ l = 1
           \/ \E q \in 1 .. Len(ifs) :
                ifs[q] = "then" /\ Len(ifs) - q = Len(ifs1) - l /\ (item.op = "else" => q # 1)
  PROVE  SourceOK'
<1>1. program' = Append(program, item) /\ ifs' = ifs1 /\ Len(program) + 1 + Len(ifs1) + closers <= MaxItems
  BY DEF Reads
<1>2. Len(program) \in Nat /\ Len(ifs1) \in Nat
  BY SequenceFacts DEF SourceOK
<1>3. PICK m \in Nat : m = Len(program)
  BY <1>2
<1>4. PICK d \in Nat : d = Len(ifs1)
  BY <1>2
<1>5. m + 1 + d + closers <= MaxItems
  BY <1>1, <1>3, <1>4
<1>6. m + 1 <= MaxItems
  BY <1>5, BlocksAssumption
<1>7. ifs' \in Seq({"then", "else"})
  BY <1>1
<1>8. Len(ifs') = Len(ifs) + (IF item.op = "if" THEN 1 ELSE IF item.op = "fi" THEN -1 ELSE 0)
  BY <1>1
<1>9. \A l \in 1 .. Len(ifs') : ifs'[l] = "then" =>
        \/ item.op = "if" /\ l = 1
        \/ \E q \in 1 .. Len(ifs) :
             ifs[q] = "then" /\ Len(ifs) - q = Len(ifs') - l /\ (item.op = "else" => q # 1)
  BY <1>1
<1> QED BY <1>1, <1>3, <1>6, <1>7, <1>8, <1>9, SourceGrown

(* The ifs under way are those of the source.                               *)
LEMMA IfsFacts ==
  ASSUME SourceOK
  PROVE  ifs \in Seq({"then", "else"}) /\ Len(ifs) \in Nat /\ (ifs # <<>> <=> Len(ifs) # 0)
<1>1. ifs \in Seq({"then", "else"})
  BY DEF SourceOK, IfsOK
<1> QED BY <1>1

(* What is read when no if begins or ends, or in front of the others.       *)
Same(item, ifs1) == ifs1 = ifs /\ item.op \notin {"if", "else", "fi"}
Deeper(item, ifs1) == ifs1 = <<"then">> \o ifs /\ item.op = "if"
Switched(item, ifs1) == ifs1 = <<"else">> \o Tail(ifs) /\ item.op = "else" /\ ifs # <<>> /\ ifs[1] = "then"
Shut(item, ifs1) == ifs1 = Tail(ifs) /\ item.op = "fi" /\ ifs # <<>>

LEMMA ReadSame ==
  ASSUME NEW item, NEW ifs1, NEW closers,
         SourceOK, Reads(item, ifs1, closers), ItemOK(item), closers \in {0, 1}, Same(item, ifs1),
         item.op = "function" <=> AtEnd, item.op \in {"function", "end"} => ifs = <<>>
  PROVE  SourceOK'
<1>1. ifs1 \in Seq({"then", "else"}) /\ Len(ifs1) = Len(ifs) + 0
  BY IfsFacts DEF Same
<1>2. \A l \in 1 .. Len(ifs1) : ifs1[l] = "then" =>
        \E q \in 1 .. Len(ifs) :
          ifs[q] = "then" /\ Len(ifs) - q = Len(ifs1) - l /\ (item.op = "else" => q # 1)
  BY DEF Same
<1>3. item.op \notin {"if", "else", "fi"}
  BY DEF Same
<1>4. 0 = (IF item.op = "if" THEN 1 ELSE IF item.op = "fi" THEN -1 ELSE 0)
  BY <1>3
<1> QED BY <1>1, <1>2, <1>3, <1>4, ReadsSource

LEMMA ReadDeeper ==
  ASSUME NEW item, NEW ifs1, NEW closers,
         SourceOK, Reads(item, ifs1, closers), ItemOK(item), closers \in {0, 1}, Deeper(item, ifs1), ~AtEnd
  PROVE  SourceOK'
<1>1. ifs1 \in Seq({"then", "else"}) /\ Len(ifs1) = Len(ifs) + 1
      /\ \A l \in 1 .. Len(ifs1) : l = 1 \/ (l - 1 \in 1 .. Len(ifs) /\ ifs1[l] = ifs[l - 1])
  <2>1. ifs \in Seq({"then", "else"}) /\ ifs1 = <<"then">> \o ifs
    BY IfsFacts DEF Deeper
  <2>2. /\ ifs1 \in Seq({"then", "else"}) /\ Len(ifs1) = Len(ifs) + 1 /\ Len(ifs) \in Nat
        /\ \A q \in 1 .. Len(ifs) : ifs1[q + 1] = ifs[q]
    BY <2>1
  <2>3. ASSUME NEW l \in 1 .. Len(ifs1), l # 1
        PROVE  l - 1 \in 1 .. Len(ifs) /\ ifs1[l] = ifs[l - 1]
    <3>1. l - 1 \in 1 .. Len(ifs) /\ (l - 1) + 1 = l
      BY <2>2, <2>3
    <3>2. ifs1[(l - 1) + 1] = ifs[l - 1]
      BY <3>1, <2>2
    <3> QED BY <3>1, <3>2
  <2> QED BY <2>2, <2>3
<1>2. item.op = "if" /\ Len(ifs) \in Nat
  BY IfsFacts DEF Deeper
<1>3. \A l \in 1 .. Len(ifs1) : ifs1[l] = "then" =>
        \/ item.op = "if" /\ l = 1
        \/ \E q \in 1 .. Len(ifs) :
             ifs[q] = "then" /\ Len(ifs) - q = Len(ifs1) - l /\ (item.op = "else" => q # 1)
  <2> SUFFICES ASSUME NEW l \in 1 .. Len(ifs1), ifs1[l] = "then", l # 1
               PROVE  \E q \in 1 .. Len(ifs) :
                        ifs[q] = "then" /\ Len(ifs) - q = Len(ifs1) - l /\ (item.op = "else" => q # 1)
    BY <1>2
  <2>1. l - 1 \in 1 .. Len(ifs) /\ ifs[l - 1] = "then"
    BY <1>1
  <2>2. Len(ifs) - (l - 1) = Len(ifs1) - l
    BY <1>1, <1>2
  <2> QED BY <2>1, <2>2, <1>2
<1>4. 1 = (IF item.op = "if" THEN 1 ELSE IF item.op = "fi" THEN -1 ELSE 0)
  BY <1>2
<1> QED BY <1>1, <1>2, <1>3, <1>4, ReadsSource

LEMMA ReadSwitched ==
  ASSUME NEW item, NEW ifs1, NEW closers,
         SourceOK, Reads(item, ifs1, closers), ItemOK(item), closers \in {0, 1}, Switched(item, ifs1), ~AtEnd
  PROVE  SourceOK'
<1>1. Tail(ifs) \in Seq({"then", "else"}) /\ Len(Tail(ifs)) = Len(ifs) - 1 /\ Len(ifs) \in Nat \ {0}
      /\ \A l \in 1 .. Len(ifs) - 1 : Tail(ifs)[l] = ifs[l + 1]
  BY IfsFacts DEF Switched
<1>2. ifs1 = <<"else">> \o Tail(ifs) /\ item.op = "else" /\ ifs # <<>> /\ ifs[1] = "then"
  BY DEF Switched
<1>3. ifs1 \in Seq({"then", "else"}) /\ Len(ifs1) = Len(ifs) + 0 /\ ifs1[1] = "else"
      /\ \A l \in 1 .. Len(ifs1) : l = 1 \/ ifs1[l] = Tail(ifs)[l - 1]
  BY <1>1, <1>2
<1>4. \A l \in 1 .. Len(ifs1) : ifs1[l] = "then" =>
        \E q \in 1 .. Len(ifs) :
          ifs[q] = "then" /\ Len(ifs) - q = Len(ifs1) - l /\ (item.op = "else" => q # 1)
  <2> SUFFICES ASSUME NEW l \in 1 .. Len(ifs1), ifs1[l] = "then"
               PROVE  \E q \in 1 .. Len(ifs) :
                        ifs[q] = "then" /\ Len(ifs) - q = Len(ifs1) - l /\ (item.op = "else" => q # 1)
    OBVIOUS
  <2>1. l # 1
    BY <1>3
  <2>2. l - 1 \in 1 .. Len(ifs) - 1 /\ (l - 1) + 1 = l /\ l \in 1 .. Len(ifs)
    BY <2>1, <1>1, <1>3
  <2>3. ifs1[l] = Tail(ifs)[l - 1]
    BY <2>1, <1>3
  <2>4. Tail(ifs)[l - 1] = ifs[(l - 1) + 1]
    BY <2>2, <1>1
  <2>5. ifs[l] = "then"
    BY <2>2, <2>3, <2>4
  <2>6. Len(ifs) - l = Len(ifs1) - l
    BY <1>1, <1>3
  <2> QED BY <2>1, <2>2, <2>5, <2>6
<1>5. 0 = (IF item.op = "if" THEN 1 ELSE IF item.op = "fi" THEN -1 ELSE 0)
  BY <1>2
<1> QED BY <1>2, <1>3, <1>4, <1>5, ReadsSource

LEMMA ReadShut ==
  ASSUME NEW item, NEW ifs1, NEW closers,
         SourceOK, Reads(item, ifs1, closers), ItemOK(item), closers \in {0, 1}, Shut(item, ifs1), ~AtEnd
  PROVE  SourceOK'
<1>1. Tail(ifs) \in Seq({"then", "else"}) /\ Len(Tail(ifs)) = Len(ifs) - 1 /\ Len(ifs) \in Nat \ {0}
      /\ \A l \in 1 .. Len(ifs) - 1 : Tail(ifs)[l] = ifs[l + 1]
  BY IfsFacts DEF Shut
<1>2. ifs1 = Tail(ifs) /\ item.op = "fi" /\ ifs # <<>>
  BY DEF Shut
<1>3. ifs1 \in Seq({"then", "else"}) /\ Len(ifs1) = Len(ifs) + (-1)
  BY <1>1, <1>2
<1>4. \A l \in 1 .. Len(ifs1) : ifs1[l] = "then" =>
        \E q \in 1 .. Len(ifs) :
          ifs[q] = "then" /\ Len(ifs) - q = Len(ifs1) - l /\ (item.op = "else" => q # 1)
  <2> SUFFICES ASSUME NEW l \in 1 .. Len(ifs1), ifs1[l] = "then"
               PROVE  \E q \in 1 .. Len(ifs) :
                        ifs[q] = "then" /\ Len(ifs) - q = Len(ifs1) - l /\ (item.op = "else" => q # 1)
    OBVIOUS
  <2>1. l \in 1 .. Len(ifs) - 1 /\ l + 1 \in 1 .. Len(ifs)
    BY <1>1, <1>2
  <2>2. ifs[l + 1] = "then"
    BY <2>1, <1>1, <1>2
  <2>3. Len(ifs) - (l + 1) = Len(ifs1) - l
    BY <1>1, <1>3
  <2> QED BY <2>1, <2>2, <2>3, <1>2
<1>5. -1 = (IF item.op = "if" THEN 1 ELSE IF item.op = "fi" THEN -1 ELSE 0)
  BY <1>2
<1> QED BY <1>2, <1>3, <1>4, <1>5, ReadsSource

LEMMA ItemsRead ==
  /\ \A op \in {"function", "end", "else", "fi"} : ItemOK(Plain(op)) /\ Plain(op).op = op
  /\ \A label \in Labels \cup {Absent}, v \in Variables, x \in Values :
       ItemOK([op |-> "assign", label |-> label, name |-> v, value |-> x])
  /\ \A label \in Labels \cup {Absent}, l \in Labels : ItemOK([op |-> "goto", label |-> label, to |-> l])
  /\ \A label \in Labels \cup {Absent}, e \in Returned :
       ItemOK([op |-> "return", label |-> label, value |-> e])
  /\ \A label \in Labels \cup {Absent}, e \in Conditions :
       ItemOK([op |-> "if", label |-> label, condition |-> e])
<1>1. ASSUME NEW op \in {"function", "end", "else", "fi"} PROVE ItemOK(Plain(op)) /\ Plain(op).op = op
  BY <1>1 DEF ItemOK, Plain, Ops
<1>2. ASSUME NEW label \in Labels \cup {Absent}, NEW v \in Variables, NEW x \in Values
      PROVE  ItemOK([op |-> "assign", label |-> label, name |-> v, value |-> x])
  BY <1>2 DEF ItemOK, Ops
<1>3. ASSUME NEW label \in Labels \cup {Absent}, NEW l \in Labels
      PROVE  ItemOK([op |-> "goto", label |-> label, to |-> l])
  BY <1>3 DEF ItemOK, Ops
<1>4. ASSUME NEW label \in Labels \cup {Absent}, NEW e \in Returned
      PROVE  ItemOK([op |-> "return", label |-> label, value |-> e])
  BY <1>4 DEF ItemOK, Ops
<1>5. ASSUME NEW label \in Labels \cup {Absent}, NEW e \in Conditions
      PROVE  ItemOK([op |-> "if", label |-> label, condition |-> e])
  BY <1>5 DEF ItemOK, Ops
<1> QED BY <1>1, <1>2, <1>3, <1>4, <1>5

(* Statements but for an if.                                                *)
LEMMA ReadStatement ==
  ASSUME NEW item, IInv, Open, Reads(item, ifs, 1), ItemOK(item), item.op \in {"assign", "goto", "return"}
  PROVE  IInv'
<1>1. SourceOK /\ ~AtEnd
  BY OpenNotAtEnd DEF IInv
<1>2. Same(item, ifs)
  BY DEF Same
<1>3. item.op # "function" /\ item.op # "end"
  OBVIOUS
<1>4. SourceOK'
  BY <1>1, <1>2, <1>3, ReadSame
<1> QED BY <1>4, ReadsInv

LEMMA ReadIf ==
  ASSUME NEW item, IInv, Open, Reads(item, <<"then">> \o ifs, 1), ItemOK(item), item.op = "if"
  PROVE  IInv'
<1>1. SourceOK /\ ~AtEnd
  BY OpenNotAtEnd DEF IInv
<1>2. Deeper(item, <<"then">> \o ifs)
  BY DEF Deeper
<1>3. SourceOK'
  BY <1>1, <1>2, ReadDeeper
<1> QED BY <1>3, ReadsInv

LEMMA ParseStatementInv ==
  ASSUME IInv, ParseStatement PROVE IInv'
<1>1. Open
  BY DEF ParseStatement
<1>2. PICK label \in Labels \cup {Absent} :
       \/ \E v \in Variables, x \in Values :
            Reads([op |-> "assign", label |-> label, name |-> v, value |-> x], ifs, 1)
       \/ \E l \in Labels :
            Reads([op |-> "goto", label |-> label, to |-> l], ifs, 1)
       \/ \E e \in Returned :
            Reads([op |-> "return", label |-> label, value |-> e], ifs, 1)
       \/ \E e \in Conditions :
            Reads([op |-> "if", label |-> label, condition |-> e], <<"then">> \o ifs, 1)
  BY DEF ParseStatement
<1>3. ASSUME NEW v \in Variables, NEW x \in Values,
             Reads([op |-> "assign", label |-> label, name |-> v, value |-> x], ifs, 1)
      PROVE  IInv'
  <2>1. PICK item : item = [op |-> "assign", label |-> label, name |-> v, value |-> x]
    OBVIOUS
  <2>2. Reads(item, ifs, 1) /\ ItemOK(item) /\ item.op = "assign"
    BY <1>3, <2>1, ItemsRead
  <2> QED BY <2>2, <1>1, ReadStatement
<1>4. ASSUME NEW l \in Labels, Reads([op |-> "goto", label |-> label, to |-> l], ifs, 1)
      PROVE  IInv'
  <2>1. PICK item : item = [op |-> "goto", label |-> label, to |-> l]
    OBVIOUS
  <2>2. Reads(item, ifs, 1) /\ ItemOK(item) /\ item.op = "goto"
    BY <1>4, <2>1, ItemsRead
  <2> QED BY <2>2, <1>1, ReadStatement
<1>5. ASSUME NEW e \in Returned, Reads([op |-> "return", label |-> label, value |-> e], ifs, 1)
      PROVE  IInv'
  <2>1. PICK item : item = [op |-> "return", label |-> label, value |-> e]
    OBVIOUS
  <2>2. Reads(item, ifs, 1) /\ ItemOK(item) /\ item.op = "return"
    BY <1>5, <2>1, ItemsRead
  <2> QED BY <2>2, <1>1, ReadStatement
<1>6. ASSUME NEW e \in Conditions,
             Reads([op |-> "if", label |-> label, condition |-> e], <<"then">> \o ifs, 1)
      PROVE  IInv'
  <2>1. PICK item : item = [op |-> "if", label |-> label, condition |-> e]
    OBVIOUS
  <2>2. Reads(item, <<"then">> \o ifs, 1) /\ ItemOK(item) /\ item.op = "if"
    BY <1>6, <2>1, ItemsRead
  <2> QED BY <2>2, <1>1, ReadIf
<1> QED BY <1>2, <1>3, <1>4, <1>5, <1>6

LEMMA ParseFunctionInv ==
  ASSUME IInv, ParseFunction PROVE IInv'
<1>1. PICK item : item = Plain("function")
  OBVIOUS
<1>2. Reads(item, ifs, 1) /\ ItemOK(item) /\ item.op = "function" /\ ~Open
  BY <1>1, ItemsRead DEF ParseFunction
<1>3. SourceOK /\ AtEnd /\ ifs = <<>>
  BY <1>2 DEF IInv, SourceOK
<1>4. Same(item, ifs)
  BY <1>2 DEF Same
<1>5. SourceOK'
  BY <1>2, <1>3, <1>4, ReadSame
<1> QED BY <1>2, <1>5, ReadsInv

LEMMA ParseEndInv ==
  ASSUME IInv, ParseEnd PROVE IInv'
<1>1. PICK item : item = Plain("end")
  OBVIOUS
<1>2. Reads(item, ifs, 0) /\ ItemOK(item) /\ item.op = "end" /\ Open /\ ifs = <<>>
  BY <1>1, ItemsRead DEF ParseEnd
<1>3. SourceOK /\ ~AtEnd
  BY <1>2, OpenNotAtEnd DEF IInv
<1>4. Same(item, ifs)
  BY <1>2 DEF Same
<1>5. SourceOK'
  BY <1>2, <1>3, <1>4, ReadSame
<1> QED BY <1>2, <1>5, ReadsInv

LEMMA ParseElseInv ==
  ASSUME IInv, ParseElse PROVE IInv'
<1>1. PICK item : item = Plain("else")
  OBVIOUS
<1>2. PICK ifs1 : ifs1 = <<"else">> \o Tail(ifs)
  OBVIOUS
<1>3. Reads(item, ifs1, 1) /\ ItemOK(item) /\ item.op = "else" /\ ifs # <<>> /\ Head(ifs) = "then"
  BY <1>1, <1>2, ItemsRead DEF ParseElse
<1>4. SourceOK /\ ~AtEnd
  BY <1>3 DEF IInv, SourceOK
<1>5. ifs[1] = "then"
  BY <1>3, <1>4, IfsFacts
<1>6. Switched(item, ifs1)
  BY <1>2, <1>3, <1>5 DEF Switched
<1>7. SourceOK'
  BY <1>3, <1>4, <1>6, ReadSwitched
<1> QED BY <1>3, <1>7, ReadsInv

LEMMA ParseFiInv ==
  ASSUME IInv, ParseFi PROVE IInv'
<1>1. PICK item : item = Plain("fi")
  OBVIOUS
<1>2. PICK ifs1 : ifs1 = Tail(ifs)
  OBVIOUS
<1>3. Reads(item, ifs1, 1) /\ ItemOK(item) /\ item.op = "fi" /\ ifs # <<>>
  BY <1>1, <1>2, ItemsRead DEF ParseFi
<1>4. SourceOK /\ ~AtEnd
  BY <1>3 DEF IInv, SourceOK
<1>6. Shut(item, ifs1)
  BY <1>2, <1>3 DEF Shut
<1>7. SourceOK'
  BY <1>3, <1>4, <1>6, ReadShut
<1> QED BY <1>3, <1>7, ReadsInv

(* Before anything is generated.                                            *)
LEMMA FreshGen ==
  ASSUME NEW x, NEW n, WholeSource, n = Len(program), x = Context, Fresh
  PROVE  GenAt(x, n, pc, blocks, insert, namedBlocks, pending, broken)
<1>1. /\ pc = 1 /\ blocks = <<>> /\ insert = 0 /\ pending = <<>> /\ broken = FALSE
      /\ namedBlocks = [l \in Labels |-> 0]
  BY DEF Fresh, NoBlock
<1>2. n \in Nat \ {0} /\ x.source[1].op = "function"
  BY ContextFacts
<1>3. pc \in 1 .. n + 1 /\ ~Inside(x, n, pc) /\ pc - 1 = 0
  BY <1>1, <1>2 DEF Inside
<1>4. x.opened[0] = 0
  <2>1. Sourced(x, n, 1)
    BY <1>2 DEF Sourced
  <2>2. x.opened[0] = Opened(0)
    BY <1>2, <2>1, OpenedFacts
  <2> QED BY <2>2, OpenedStep
<1>5. PendAt(x, pc, pending)
  <2>1. pending \in Seq(Ifs) /\ Len(pending) = 0
    BY <1>1
  <2> QED BY <2>1, <1>3, <1>4 DEF PendAt
<1>6. PICK role : role = 0
  OBVIOUS
<1>7. Len(blocks) = 0 /\ blocks \in Seq(Blocks)
  BY <1>1
<1>8. Core(x, blocks, role, 0, {}, 0, namedBlocks)
  <2>1. \A c \in 1 .. Len(blocks) : FALSE
    BY <1>7
  <2>2. \A f \in 1 .. 0 : FALSE
    OBVIOUS
  <2>3. /\ \A c \in 1 .. Len(blocks) : BlockOK(x, blocks, role, 0, 0, c)
        /\ \A c \in 1 .. Len(blocks) : \A k \in 1 .. Long(blocks, c) : InstrOK(x, blocks, role, namedBlocks, c, k)
        /\ \A c \in 1 .. Len(blocks) : \A k \in 1 .. Long(blocks, c) - 1 : FlowOK(x, blocks, c, k)
        /\ \A c \in 1 .. Len(blocks) : \A k \in 1 .. Long(blocks, c) : TargetOK(x, blocks, 0, {}, namedBlocks, c, k)
    BY <2>1
  <2> QED BY <2>2, <2>3, <1>7 DEF Core
<1>9. NamedOK(x, blocks, role, {}, 0, namedBlocks)
  <2>1. namedBlocks \in [Labels -> 0 .. Len(blocks)]
    BY <1>1, <1>7
  <2>2. \A l \in Labels : namedBlocks[l] = 0
    BY <1>1
  <2>3. \A j \in 1 .. 0 : FALSE
    OBVIOUS
  <2> QED BY <2>1, <2>2, <2>3 DEF NamedOK
<1>10. OutAt(x, pc, blocks, namedBlocks, role)
  BY <1>3, <1>8, <1>9 DEF OutAt
<1> QED BY <1>1, <1>3, <1>5, <1>10 DEF GenAt

LEMMA EndOfSourceInv ==
  ASSUME IInv, EndOfSource PROVE IInv'
<1>1. /\ phase = "parse" /\ ~Open /\ program # <<>> /\ phase' = "codegen" /\ pc' = 1
      /\ program' = program /\ ifs' = ifs
  BY DEF EndOfSource
<1>2. blocks' = blocks /\ insert' = insert /\ namedBlocks' = namedBlocks /\ pending' = pending /\ broken' = broken
  BY DEF EndOfSource, module
<1>3. NotStarted'
  <2>1. NotStarted
    BY <1>1 DEF IInv
  <2>2. at' = at /\ from' = from /\ registers' = registers /\ memory' = memory /\ result' = result
    BY DEF EndOfSource, running
  <2> QED BY <2>1, <2>2 DEF NotStarted
<1>4. WholeSource /\ Fresh /\ Light /\ SourceOK
  BY <1>1 DEF IInv, SourceOK, WholeSource
<1>5. WholeSource' /\ Context' = Context /\ SourceOK'
  BY <1>1, <1>4, WholeStays, SourceStays
<1>6. Light'
  BY <1>1, <1>2, <1>4 DEF Light
<1>7. Generating'
  <2>0. pc = pc'
    BY <1>1, <1>4 DEF Fresh
  <2>1. Generating
    BY <1>4, FreshGen DEF Generating
  <2> QED BY <2>0, <2>1, <1>1, <1>2, <1>5 DEF Generating
<1>8. pc' \in 1 .. MaxItems + 1
  BY <1>1, BlocksAssumption
<1>9. broken' = FALSE /\ pending' = <<>>
  BY <1>2, <1>4 DEF Fresh
<1>10. result' \in BOOLEAN \cup {Absent}
  BY <1>3 DEF NotStarted
<1> QED BY <1>1, <1>3, <1>5, <1>6, <1>7, <1>8, <1>9, <1>10 DEF IInv

LEMMA ParseInv ==
  ASSUME IInv, Parse PROVE IInv'
BY ParseFunctionInv, ParseStatementInv, ParseElseInv, ParseFiInv, ParseEndInv, EndOfSourceInv DEF Parse

-----------------------------------------------------------------------------
(* Generating *)

(* The item at k of a whole source is visited.                              *)
Here(x, n, k) ==
  /\ Sourced(x, n, k) /\ k = pc /\ phase = "codegen" /\ Generating /\ NotStarted /\ Light /\ broken = FALSE
  /\ PendAt(x, k, pending)

LEMMA HereAt ==
  ASSUME IInv, phase = "codegen", pc <= Len(program)
  PROVE  \E x, n, k : Here(x, n, k) /\ x.source = program
<1>1. PICK x : x = Context
  OBVIOUS
<1>2. PICK n : n = Len(program)
  OBVIOUS
<1>3. PICK k : k = pc
  OBVIOUS
<1>4. WholeSource /\ Generating /\ NotStarted /\ Light
  BY DEF IInv
<1>5. broken = FALSE /\ PendAt(x, k, pending) /\ k \in 1 .. n + 1
  BY <1>1, <1>2, <1>3, <1>4 DEF Generating, GenAt
<1>6. n \in Nat
  BY <1>2, <1>4, WholeFacts
<1>7. k <= n
  BY <1>2, <1>3
<1>8. k \in 1 .. n
  BY <1>5, <1>6, <1>7
<1>9. Sourced(x, n, k)
  BY <1>1, <1>2, <1>4, <1>8 DEF Sourced
<1>10. x.source = program
  BY <1>1 DEF Context
<1> QED BY <1>3, <1>4, <1>5, <1>9, <1>10 DEF Here

LEMMA HereInside ==
  ASSUME NEW x, NEW n, NEW k, Here(x, n, k), x.source[k].op # "function"
  PROVE  /\ \E role : InAt(x, k, blocks, insert, namedBlocks, pending, role)
         /\ Visiting(x, n, k)
<1>1. Sourced(x, n, k) /\ Generating /\ k = pc
  BY DEF Here
<1>2. Inside(x, n, k)
  BY <1>1 DEF Inside, Sourced
<1>3. GenAt(x, n, k, blocks, insert, namedBlocks, pending, broken)
  BY <1>1 DEF Generating, Sourced
<1>4. \E role : InAt(x, k, blocks, insert, namedBlocks, pending, role)
  BY <1>2, <1>3 DEF GenAt
<1>5. x.source = program
  BY <1>1, OpenedFacts
<1>6. Visiting(x, n, k)
  BY <1>1, <1>5 DEF Visiting, Sourced
<1> QED BY <1>4, <1>6

LEMMA HereBuilder ==
  ASSUME NEW x, NEW n, NEW k, Here(x, n, k), x.source[k].op # "function", NEW b, b = Builder
  PROVE  b \in Builders /\ \A c \in 1 .. Len(b.blocks) : Par(b.blocks, c) \in 0 .. n
<1>1. PICK role : InAt(x, k, blocks, insert, namedBlocks, pending, role)
  BY HereInside
<1>2. insert \in 1 .. Len(blocks)
  BY <1>1 DEF InAt
<1>3. LightAt(n, blocks, insert, namedBlocks, pending, broken) /\ broken \in BOOLEAN
  BY DEF Here, Light, Sourced
<1>4. blocks \in Seq(Blocks) /\ \A c \in 1 .. Len(blocks) : Par(blocks, c) \in 0 .. n
  BY <1>3 DEF LightAt
<1>5. b \in Builders /\ b.blocks = blocks
  BY <1>2, <1>3, <1>4, BuilderHere
<1> QED BY <1>4, <1>5

(* The end of a visit.                                                      *)
Leaving(b, named2, pend2) == Leaves(b, named2) /\ pending' = pend2

LEMMA LeavingFacts ==
  ASSUME NEW b, NEW named2, NEW pend2, NEW k, Leaving(b, named2, pend2), k = pc
  PROVE  /\ blocks' = b.blocks /\ insert' = b.insert /\ broken' = b.broken /\ namedBlocks' = named2
         /\ pending' = pend2 /\ pc' = k + 1 /\ program' = program /\ ifs' = ifs
         /\ phase' = IF b.broken THEN "done" ELSE phase
         /\ at' = at /\ from' = from /\ registers' = registers /\ memory' = memory /\ result' = result
BY DEF Leaving, Leaves, running

LEMMA LeavingSource ==
  ASSUME NEW x, NEW n, NEW k, NEW b, NEW named2, NEW pend2,
         Here(x, n, k), Leaving(b, named2, pend2)
  PROVE  /\ WholeSource' /\ Context' = x /\ Len(program') = n /\ SourceOK' /\ NotStarted' /\ n \in Nat /\ n <= MaxItems
         /\ WellLabelled' = WellLabelled /\ result' \in BOOLEAN \cup {Absent} /\ k \in Nat /\ pc' = k + 1
<1>1. WholeSource /\ x = Context /\ NotStarted /\ n = Len(program) /\ k = pc /\ SourceOK /\ k \in 1 .. n
  BY DEF Here, Sourced, WholeSource
<1>2. program' = program /\ ifs' = ifs /\ at' = at /\ from' = from /\ registers' = registers
      /\ memory' = memory /\ result' = result /\ pc' = k + 1
  BY <1>1, LeavingFacts
<1>3. NotStarted'
  BY <1>1, <1>2 DEF NotStarted
<1>4. WholeSource' /\ Context' = x /\ SourceOK' /\ WellLabelled' = WellLabelled
  BY <1>1, <1>2, WholeStays, SourceStays, LabelledStays
<1>5. result' \in BOOLEAN \cup {Absent}
  BY <1>3 DEF NotStarted
<1>6. n \in Nat /\ n <= MaxItems
  BY <1>1, WholeFacts
<1>7. k \in Nat
  BY <1>1, <1>6
<1> QED BY <1>1, <1>2, <1>3, <1>4, <1>5, <1>6, <1>7

(* On to the next item of the function.                                     *)
LEMMA LeadingInv ==
  ASSUME NEW x, NEW n, NEW k, NEW b, NEW named2, NEW pend2,
         Here(x, n, k), Leaving(b, named2, pend2), x.source[k].op # "end", Leading(x, k, b, named2, pend2)
  PROVE  IInv'
<1>1. /\ WholeSource' /\ Context' = x /\ Len(program') = n /\ SourceOK' /\ NotStarted' /\ n \in Nat /\ n <= MaxItems
      /\ result' \in BOOLEAN \cup {Absent} /\ k \in Nat /\ pc' = k + 1
  BY LeavingSource
<1>2. k = pc /\ Sourced(x, n, k) /\ phase = "codegen"
  BY DEF Here
<1>3. /\ blocks' = b.blocks /\ insert' = b.insert /\ broken' = b.broken /\ namedBlocks' = named2
      /\ pending' = pend2 /\ phase' = IF b.broken THEN "done" ELSE phase
  BY <1>2, LeavingFacts
<1>4. b.broken = FALSE
  BY DEF Leading
<1>5. PICK t : t = FALSE
  OBVIOUS
<1>6. /\ GenAt(x, n, k + 1, b.blocks, b.insert, named2, pend2, t)
      /\ LightAt(n, b.blocks, b.insert, named2, pend2, t) /\ k + 1 \in 1 .. n
  BY <1>2, <1>5, LeadingGen
<1>7. broken' = t
  BY <1>3, <1>4, <1>5
<1>8. Generating'
  BY <1>1, <1>3, <1>6, <1>7 DEF Generating
<1>9. Light'
  BY <1>1, <1>3, <1>6, <1>7 DEF Light
<1>10. phase' = "codegen" /\ broken' = FALSE
  BY <1>2, <1>3, <1>4
<1>11. pc' \in 1 .. MaxItems + 1 /\ ~(pc' > Len(program'))
  <2>1. k + 1 \in 1 .. n /\ MaxItems \in Nat
    BY <1>6, BlocksAssumption
  <2>2. k + 1 \in 1 .. MaxItems + 1 /\ ~(k + 1 > n)
    BY <1>1, <2>1
  <2> QED BY <1>1, <2>2
<1> QED BY <1>1, <1>8, <1>9, <1>10, <1>11 DEF IInv

(* Out of the function.                                                     *)
LEMMA BetweenInv ==
  ASSUME NEW x, NEW n, NEW k, NEW b, NEW named2, NEW pend2,
         Here(x, n, k), Leaving(b, named2, pend2), x.source[k].op = "end", BetweenAt(x, k, b, named2, pend2)
  PROVE  IInv'
<1>1. /\ WholeSource' /\ Context' = x /\ Len(program') = n /\ SourceOK' /\ NotStarted' /\ n \in Nat /\ n <= MaxItems
      /\ result' \in BOOLEAN \cup {Absent} /\ k \in Nat /\ pc' = k + 1
  BY LeavingSource
<1>2. k = pc /\ Sourced(x, n, k) /\ phase = "codegen"
  BY DEF Here
<1>3. /\ blocks' = b.blocks /\ insert' = b.insert /\ broken' = b.broken /\ namedBlocks' = named2
      /\ pending' = pend2 /\ phase' = IF b.broken THEN "done" ELSE phase
  BY <1>2, LeavingFacts
<1>4. b.broken = FALSE
  BY DEF BetweenAt
<1>5. PICK t : t = FALSE
  OBVIOUS
<1>6. /\ GenAt(x, n, k + 1, b.blocks, b.insert, named2, pend2, t)
      /\ LightAt(n, b.blocks, b.insert, named2, pend2, t) /\ k + 1 \in 1 .. n + 1 /\ pend2 = <<>>
  <2>1. Sourced(x, n, k) /\ BetweenAt(x, k, b, named2, pend2) /\ x.source[k].op = "end" /\ t = FALSE
    BY <1>2, <1>5
  <2>2. GenAt(x, n, k + 1, b.blocks, b.insert, named2, pend2, t) /\ LightAt(n, b.blocks, b.insert, named2, pend2, t)
    BY <2>1, BetweenGen
  <2>3. k + 1 \in 1 .. n + 1
    BY <2>1, BetweenGen
  <2>4. pend2 = <<>>
    BY DEF BetweenAt
  <2> QED BY <2>2, <2>3, <2>4
<1>7. broken' = t
  BY <1>3, <1>4, <1>5
<1>8. Generating'
  BY <1>1, <1>3, <1>6, <1>7 DEF Generating
<1>9. Light'
  BY <1>1, <1>3, <1>6, <1>7 DEF Light
<1>10. phase' = "codegen" /\ broken' = FALSE /\ pending' = <<>>
  BY <1>2, <1>3, <1>4, <1>6
<1>11. pc' \in 1 .. MaxItems + 1
  <2>1. k + 1 \in 1 .. n + 1 /\ MaxItems \in Nat
    BY <1>6, BlocksAssumption
  <2>2. k + 1 \in 1 .. MaxItems + 1
    BY <1>1, <2>1
  <2> QED BY <1>1, <2>2
<1> QED BY <1>1, <1>8, <1>9, <1>10, <1>11 DEF IInv

(* The compiler ends.                                                       *)
LEMMA BreakingInv ==
  ASSUME NEW x, NEW n, NEW k, NEW c, NEW b, NEW named2, NEW pend2,
         Here(x, n, k), Leaving(b, named2, pend2), x.source[k].op \notin {"end", "function"},
         c = Builder, Breaking(x, k, c, b, named2, pend2)
  PROVE  IInv'
<1>1. /\ WholeSource' /\ Context' = x /\ Len(program') = n /\ SourceOK' /\ NotStarted' /\ n \in Nat /\ n <= MaxItems
      /\ WellLabelled' = WellLabelled /\ result' \in BOOLEAN \cup {Absent} /\ k \in Nat /\ pc' = k + 1
  BY LeavingSource
<1>2. k = pc /\ Sourced(x, n, k)
  BY DEF Here
<1>3. /\ blocks' = b.blocks /\ insert' = b.insert /\ broken' = b.broken /\ namedBlocks' = named2
      /\ pending' = pend2 /\ phase' = IF b.broken THEN "done" ELSE phase
  BY <1>2, LeavingFacts
<1>4. b.broken = TRUE
  BY DEF Breaking
<1>5. PICK t : t = TRUE
  OBVIOUS
<1>6. c \in Builders /\ \A d \in 1 .. Len(c.blocks) : Par(c.blocks, d) \in 0 .. n
  BY HereBuilder
<1>7. LightAt(n, b.blocks, b.insert, named2, pend2, t) /\ k + 1 \in 1 .. n /\ ~WellLabelled
  <2>1. x.source[k].op # "end"
    OBVIOUS
  <2> QED BY <2>1, <1>2, <1>5, <1>6, BreakingLight
<1>8. broken' = t
  BY <1>3, <1>4, <1>5
<1>9. Light'
  BY <1>1, <1>3, <1>7, <1>8 DEF Light
<1>10. phase' = "done"
  BY <1>3, <1>4
<1>11. pc' \in 1 .. MaxItems + 1 /\ ~(pc' > Len(program'))
  <2>1. k + 1 \in 1 .. n /\ MaxItems \in Nat
    BY <1>7, BlocksAssumption
  <2>2. k + 1 \in 1 .. MaxItems + 1 /\ ~(k + 1 > n)
    BY <1>1, <2>1
  <2> QED BY <1>1, <2>2
<1>12. ~WellLabelled'
  BY <1>1, <1>7
<1> QED BY <1>1, <1>9, <1>10, <1>11, <1>12 DEF IInv

LEMMA SteppedInv ==
  ASSUME NEW x, NEW n, NEW k, NEW c, NEW b, NEW named2, NEW pend2,
         Here(x, n, k), Leaving(b, named2, pend2), x.source[k].op \notin {"end", "function"},
         c = Builder, Stepped(x, k, c, b, named2, pend2)
  PROVE  IInv'
<1>1. x.source[k].op # "end"
  OBVIOUS
<1>2. CASE Leading(x, k, b, named2, pend2)
  BY <1>1, <1>2, LeadingInv
<1>3. CASE Breaking(x, k, c, b, named2, pend2)
  BY <1>3, BreakingInv
<1> QED BY <1>2, <1>3 DEF Stepped

LEMMA VisitFunctionInv ==
  ASSUME IInv, VisitFunction PROVE IInv'
<1>1. PICK x, n, k : Here(x, n, k) /\ x.source = program
  BY HereAt DEF VisitFunction, Visits
<1>2. k = pc /\ Sourced(x, n, k) /\ broken = FALSE /\ PendAt(x, k, pending) /\ Generating
  BY <1>1 DEF Here
<1>3. x.source[k].op = "function"
  BY <1>1, <1>2 DEF VisitFunction, Visits
<1>4. PICK b : b = Create(Builder, k)
  OBVIOUS
<1>5. PICK e : e = SetInsert(b, Len(b.blocks))
  OBVIOUS
<1>6. Leaves(e, namedBlocks) /\ pending' = pending
  BY <1>2, <1>4, <1>5 DEF VisitFunction
<1>7. FunctionMade(k, b, e)
  BY <1>4, <1>5 DEF FunctionMade
<1>8. GenAt(x, n, k, blocks, insert, namedBlocks, pending, broken)
  BY <1>2 DEF Generating, Sourced
<1>9. ~Inside(x, n, k)
  BY <1>3 DEF Inside
<1>10. PICK role : OutAt(x, k, blocks, namedBlocks, role)
  BY <1>8, <1>9 DEF GenAt
<1>11. Leading(x, k, e, namedBlocks, pending)
  BY <1>2, <1>3, <1>7, <1>10, FunctionStep
<1>12. Leaving(e, namedBlocks, pending)
  BY <1>6 DEF Leaving
<1>13. x.source[k].op # "end"
  BY <1>3
<1> QED BY <1>1, <1>11, <1>12, <1>13, LeadingInv

(* What a visit that begins with no label finds.                            *)
LEMMA HereBare ==
  ASSUME NEW x, NEW n, NEW k, Here(x, n, k), x.source = program, x.source[k].op \in {"else", "fi", "end"},
         NEW b, b = Builder
  PROVE  \E role, W, D, p : AtBare(x, n, k, b, role, W, D, p)
<1>1. x.source[k].op # "function"
  OBVIOUS
<1>2. Visiting(x, n, k) /\ \E role : InAt(x, k, blocks, insert, namedBlocks, pending, role)
  BY <1>1, HereInside
<1>3. PICK role : InAt(x, k, blocks, insert, namedBlocks, pending, role)
  BY <1>2
<1>4. PICK p : p = x.settle[k]
  OBVIOUS
<1>5. PICK W : W = Waiting(pending)
  OBVIOUS
<1>6. PICK D : D = k - 1
  OBVIOUS
<1>7. broken = FALSE /\ PendAt(x, k, pending)
  BY DEF Here
<1>8. program[k].op \in {"else", "fi", "end"}
  OBVIOUS
<1>9. Mid(x, b, role, Waiting(pending), k - 1, namedBlocks, p, k, pending)
  BY <1>2, <1>3, <1>4, <1>7, <1>8, BareMid
<1>10. b.broken = FALSE /\ Par(b.blocks, b.insert) = x.within[k]
  BY <1>3, <1>7 DEF InAt, Builder
<1> QED BY <1>2, <1>4, <1>5, <1>6, <1>7, <1>9, <1>10 DEF AtBare

LEMMA VisitEndInv ==
  ASSUME IInv, VisitEnd PROVE IInv'
<1>1. PICK x, n, k : Here(x, n, k) /\ x.source = program
  BY HereAt DEF VisitEnd, Visits
<1>2. k = pc
  BY <1>1 DEF Here
<1>3. x.source[k].op = "end"
  BY <1>1, <1>2 DEF VisitEnd, Visits
<1>4. PICK b : b = Builder
  OBVIOUS
<1>5. PICK e : e = Emit(b, EndOf)
  OBVIOUS
<1>6. Leaving(e, namedBlocks, pending)
  BY <1>4, <1>5 DEF VisitEnd, EndOf, Leaving
<1>7. \E role, W, D, p : AtBare(x, n, k, b, role, W, D, p)
  BY <1>1, <1>3, <1>4, HereBare
<1>8. BetweenAt(x, k, e, namedBlocks, pending)
  BY <1>3, <1>5, <1>7, EndStep
<1> QED BY <1>1, <1>3, <1>6, <1>8, BetweenInv

LEMMA VisitElseInv ==
  ASSUME IInv, VisitElse PROVE IInv'
<1>1. PICK x, n, k : Here(x, n, k) /\ x.source = program
  BY HereAt DEF VisitElse, Visits
<1>2. k = pc
  BY <1>1 DEF Here
<1>3. x.source[k].op = "else"
  BY <1>1, <1>2 DEF VisitElse, Visits
<1>4. PICK b : b = Builder
  OBVIOUS
<1>5. PICK open : open = Head(pending)
  OBVIOUS
<1>6. PICK s : s = Tail(pending)
  OBVIOUS
<1>7. PICK open2 : open2 = [open EXCEPT !.inElse = TRUE]
  OBVIOUS
<1>8. PICK pend2 : pend2 = <<open2>> \o s
  OBVIOUS
<1>9. PICK e : e = ElseOf(b, open)
  OBVIOUS
<1>10. Leaving(e, namedBlocks, pend2)
  BY <1>4, <1>5, <1>6, <1>7, <1>8, <1>9 DEF VisitElse, Leaving
<1>11. Elsing(pending, open, open2, s, pend2)
  BY <1>5, <1>6, <1>7, <1>8 DEF Elsing
<1>12. PICK role, W, D, p : AtBare(x, n, k, b, role, W, D, p)
  BY <1>1, <1>3, <1>4, HereBare
<1>13. Leading(x, k, e, namedBlocks, pend2)
  BY <1>3, <1>9, <1>11, <1>12, ElseStep
<1>14. x.source[k].op # "end"
  BY <1>3
<1> QED BY <1>1, <1>10, <1>13, <1>14, LeadingInv

LEMMA VisitFiInv ==
  ASSUME IInv, VisitFi PROVE IInv'
<1>1. PICK x, n, k : Here(x, n, k) /\ x.source = program
  BY HereAt DEF VisitFi, Visits
<1>2. k = pc
  BY <1>1 DEF Here
<1>3. x.source[k].op = "fi"
  BY <1>1, <1>2 DEF VisitFi, Visits
<1>4. PICK b : b = Builder
  OBVIOUS
<1>5. PICK open : open = Head(pending)
  OBVIOUS
<1>6. PICK s : s = Tail(pending)
  OBVIOUS
<1>7. PICK d : d = IF open.inElse THEN b ELSE ElseOf(b, open)
  OBVIOUS
<1>8. PICK e : e = MergeOf(d, open)
  OBVIOUS
<1>9. Leaving(e, namedBlocks, s)
  BY <1>4, <1>5, <1>6, <1>7, <1>8 DEF VisitFi, Leaving
<1>10. FiMade(b, pending, open, s, d, e)
  BY <1>5, <1>6, <1>7, <1>8 DEF FiMade, Fiing, FiFirst
<1>11. PICK role, W, D, p : AtBare(x, n, k, b, role, W, D, p)
  BY <1>1, <1>3, <1>4, HereBare
<1>12. Leading(x, k, e, namedBlocks, s)
  BY <1>3, <1>10, <1>11, FiStep
<1>13. x.source[k].op # "end"
  BY <1>3
<1> QED BY <1>1, <1>9, <1>12, <1>13, LeadingInv

-----------------------------------------------------------------------------
(* Statements, which may have a label *)

LEMMA HereBegins ==
  ASSUME NEW x, NEW n, NEW k, NEW l, Here(x, n, k), x.source = program, l = program[k].label,
         x.source[k].op \in {"assign", "return", "goto", "if"}
  PROVE  /\ \E b, e, named2, role : Beginning(x, n, k, b, l, e, named2, role) /\ b = Builder
                                    /\ e = Accepted(l) /\ named2 = Named(l, e) /\ b \in Builders
         /\ k = pc /\ x.source[k].op \notin {"end", "function"}
<1>1. PICK b : b = Builder
  OBVIOUS
<1>2. PICK e : e = Accepted(l)
  OBVIOUS
<1>3. PICK named2 : named2 = Named(l, e)
  OBVIOUS
<1>4. x.source[k].op # "function" /\ x.source[k].op \notin {"end", "function"}
  OBVIOUS
<1>5. Visiting(x, n, k) /\ \E role : InAt(x, k, blocks, insert, namedBlocks, pending, role)
  BY <1>4, HereInside
<1>6. PICK role : InAt(x, k, blocks, insert, namedBlocks, pending, role)
  BY <1>5
<1>7. broken = FALSE /\ PendAt(x, k, pending) /\ k = pc
  BY DEF Here
<1>8. Accepting(b, l, e, named2)
  BY <1>1, <1>2, <1>3 DEF Accepting
<1>9. program[k].op \in {"assign", "return", "goto", "if"}
  OBVIOUS
<1>10. Beginning(x, n, k, b, l, e, named2, role)
  BY <1>5, <1>6, <1>7, <1>8, <1>9 DEF Beginning
<1>11. b \in Builders
  BY <1>1, <1>4, HereBuilder
<1> QED BY <1>1, <1>2, <1>3, <1>4, <1>7, <1>10, <1>11

LEMMA VisitAssignInv ==
  ASSUME IInv, VisitAssign PROVE IInv'
<1>1. PICK x, n, k : Here(x, n, k) /\ x.source = program
  BY HereAt DEF VisitAssign, Visits
<1>2. k = pc
  BY <1>1 DEF Here
<1>3. x.source[k].op = "assign"
  BY <1>1, <1>2 DEF VisitAssign, Visits
<1>4. PICK l : l = program[k].label
  OBVIOUS
<1>5. x.source[k].op \in {"assign", "return", "goto", "if"}
  BY <1>3
<1>6. PICK b, e, named2, role :
        /\ Beginning(x, n, k, b, l, e, named2, role) /\ b = Builder /\ e = Accepted(l) /\ named2 = Named(l, e)
        /\ b \in Builders
  BY <1>1, <1>4, <1>5, HereBegins
<1>7. PICK d : d = Emit(e, StoreOf(x.source[k]))
  OBVIOUS
<1>8. Leaving(d, named2, pending)
  BY <1>1, <1>2, <1>4, <1>6, <1>7 DEF VisitAssign, Leaving, StoreOf, Item
<1>9. Stepped(x, k, b, d, named2, pending)
  BY <1>2, <1>3, <1>6, <1>7, AssignStep
<1>10. x.source[k].op \notin {"end", "function"}
  BY <1>3
<1> QED BY <1>1, <1>6, <1>8, <1>9, <1>10, SteppedInv

LEMMA VisitReturnInv ==
  ASSUME IInv, VisitReturn PROVE IInv'
<1>1. PICK x, n, k : Here(x, n, k) /\ x.source = program
  BY HereAt DEF VisitReturn, Visits
<1>2. k = pc
  BY <1>1 DEF Here
<1>3. x.source[k].op = "return"
  BY <1>1, <1>2 DEF VisitReturn, Visits
<1>4. PICK l : l = program[k].label
  OBVIOUS
<1>5. x.source[k].op \in {"assign", "return", "goto", "if"}
  BY <1>3
<1>6. PICK b, e, named2, role :
        /\ Beginning(x, n, k, b, l, e, named2, role) /\ b = Builder /\ e = Accepted(l) /\ named2 = Named(l, e)
        /\ b \in Builders
  BY <1>1, <1>4, <1>5, HereBegins
<1>7. PICK r : r = Visit(e, x.source[k].value)
  OBVIOUS
<1>8. PICK d : d = Emit(r, RetOf(r.last))
  OBVIOUS
<1>9. Leaving(d, named2, pending)
  BY <1>1, <1>2, <1>4, <1>6, <1>7, <1>8 DEF VisitReturn, Leaving, RetOf, Item
<1>10. Returning(x, k, e, r, d)
  BY <1>3, <1>7, <1>8 DEF Returning
<1>11. Stepped(x, k, b, d, named2, pending)
  BY <1>2, <1>6, <1>10, ReturnStep
<1>12. x.source[k].op \notin {"end", "function"}
  BY <1>3
<1> QED BY <1>1, <1>6, <1>9, <1>11, <1>12, SteppedInv

LEMMA VisitGotoInv ==
  ASSUME IInv, VisitGoto PROVE IInv'
<1>1. PICK x, n, k : Here(x, n, k) /\ x.source = program
  BY HereAt DEF VisitGoto, Visits
<1>2. k = pc
  BY <1>1 DEF Here
<1>3. x.source[k].op = "goto"
  BY <1>1, <1>2 DEF VisitGoto, Visits
<1>4. PICK l : l = program[k].label
  OBVIOUS
<1>5. x.source[k].op \in {"assign", "return", "goto", "if"}
  BY <1>3
<1>6. PICK b, e, named2, role :
        /\ Beginning(x, n, k, b, l, e, named2, role) /\ b = Builder /\ e = Accepted(l) /\ named2 = Named(l, e)
        /\ b \in Builders
  BY <1>1, <1>4, <1>5, HereBegins
<1>7. PICK c : c = IF named2[x.source[k].to] # NoBlock THEN e ELSE Create(e, Detached)
  OBVIOUS
<1>8. PICK block : block = IF named2[x.source[k].to] # NoBlock THEN named2[x.source[k].to] ELSE Len(c.blocks)
  OBVIOUS
<1>9. PICK d : d = Emit(c, Br(block))
  OBVIOUS
<1>10. PICK named3 : named3 = [named2 EXCEPT ![x.source[k].to] = block]
  OBVIOUS
<1>11. Leaving(d, named3, pending)
  BY <1>1, <1>2, <1>4, <1>6, <1>7, <1>8, <1>9, <1>10 DEF VisitGoto, Leaving, Item
<1>12. Going(x, k, e, named2, c, block, d, named3)
  BY <1>3, <1>7, <1>8, <1>9, <1>10 DEF Going
<1>13. Stepped(x, k, b, d, named3, pending)
  BY <1>2, <1>6, <1>12, GotoStep
<1>14. x.source[k].op \notin {"end", "function"}
  BY <1>3
<1> QED BY <1>1, <1>6, <1>11, <1>13, <1>14, SteppedInv

LEMMA VisitIfInv ==
  ASSUME IInv, VisitIf PROVE IInv'
<1>1. PICK x, n, k : Here(x, n, k) /\ x.source = program
  BY HereAt DEF VisitIf, Visits
<1>2. k = pc /\ PendAt(x, k, pending) /\ Sourced(x, n, k)
  BY <1>1 DEF Here
<1>3. x.source[k].op = "if"
  BY <1>1, <1>2 DEF VisitIf, Visits
<1>4. PICK l : l = program[k].label
  OBVIOUS
<1>5. x.source[k].op \in {"assign", "return", "goto", "if"}
  BY <1>3
<1>6. PICK b, e, named2, role :
        /\ Beginning(x, n, k, b, l, e, named2, role) /\ b = Builder /\ e = Accepted(l) /\ named2 = Named(l, e)
        /\ b \in Builders
  BY <1>1, <1>4, <1>5, HereBegins
<1>7. PICK r : r = Visit(e, x.source[k].condition)
  OBVIOUS
<1>8. PICK h : h = Len(r.blocks)
  OBVIOUS
<1>9. PICK y : y = CondBr(r.last, h + 1, h + 2)
  OBVIOUS
<1>10. PICK d : d = SetInsert(Emit(Create(Create(Create(r, Parent(r)), Detached), Detached), y), h + 1)
  OBVIOUS
<1>11. PICK open : open = [node |-> k, else |-> h + 2, merge |-> h + 3, inElse |-> FALSE]
  OBVIOUS
<1>12. PICK pend2 : pend2 = <<open>> \o pending
  OBVIOUS
<1>13. h \in Nat /\ k \in Nat
  <2>1. Visiting(x, n, k) /\ Accepting(b, l, e, named2)
    BY <1>6 DEF Beginning
  <2>2. k \in Nat /\ x.settle[k] = Settle[pc] /\ x.settle[k] \in Nat /\ ItemAt(x, n, k)
    BY <2>1, VisitingFacts
  <2>3. PICK p \in Nat : p = Settle[pc]
    BY <2>2
  <2>4. ItemOK(x.source[k])
    BY <2>2 DEF ItemAt
  <2>5. l \in Labels \cup {Absent} /\ x.source[k].condition \in Expressions
    BY <2>4, <1>1, <1>3, <1>4, BlocksAssumption DEF ItemOK
  <2>6. namedBlocks \in [Labels -> 0 .. Len(b.blocks)]
    <3>1. LightAt(Len(program), blocks, insert, namedBlocks, pending, broken)
      BY <1>1 DEF Here, Light
    <3>2. b.blocks = blocks
      BY <1>6 DEF Builder
    <3> QED BY <3>1, <3>2 DEF LightAt
  <2>7. Grown(b, e)
    BY <2>1, <2>3, <2>5, <2>6, <1>6, BlocksAssumption, AcceptGrown
  <2>8. e \in Builders
    BY <2>7 DEF Grown
  <2>9. r \in Builders
    BY <2>3, <2>5, <2>8, <1>7, VisitGrown
  <2>10. Len(r.blocks) \in Nat
    BY <2>9, BuilderFacts
  <2> QED BY <2>2, <2>10, <1>8
<1>14. Leaving(d, named2, pend2)
  <2>1. (h + 1) + 1 = h + 2 /\ ((h + 1) + 1) + 1 = h + 3
    BY <1>13
  <2>2. PICK j : j = h + 1
    OBVIOUS
  <2>3. PICK u : u = j + 1
    OBVIOUS
  <2>4. u = h + 2 /\ u + 1 = h + 3
    BY <2>1, <2>2, <2>3
  <2>5. y = CondBr(r.last, j, u) /\ open = [node |-> k, else |-> u, merge |-> u + 1, inElse |-> FALSE]
    BY <2>2, <2>4, <1>9, <1>11
  <2>6. /\ Leaves(SetInsert(Emit(Create(Create(Create(r, Parent(r)), Detached), Detached), CondBr(r.last, j, u)), j), named2)
        /\ pending' = <<[node |-> k, else |-> u, merge |-> u + 1, inElse |-> FALSE]>> \o pending
    BY <1>1, <1>2, <1>4, <1>6, <1>7, <1>8, <2>2, <2>3 DEF VisitIf, Item
  <2>7. d = SetInsert(Emit(Create(Create(Create(r, Parent(r)), Detached), Detached), CondBr(r.last, j, u)), j)
    BY <1>10, <2>2, <2>5
  <2>8. pend2 = <<[node |-> k, else |-> u, merge |-> u + 1, inElse |-> FALSE]>> \o pending
    BY <1>12, <2>5
  <2> QED BY <2>6, <2>7, <2>8 DEF Leaving
<1>15. OnTop(open, pending, pend2)
  <2>1. pending \in Seq(Ifs)
    BY <1>2 DEF PendAt
  <2>2. open \in Ifs
    BY <1>11, <1>13 DEF Ifs
  <2> QED BY <2>1, <2>2, <1>12 DEF OnTop
<1>16. Branching(x, k, e, r, h, y, d, open, pending, pend2)
  BY <1>3, <1>7, <1>8, <1>9, <1>10, <1>11, <1>15 DEF Branching
<1>17. Stepped(x, k, b, d, named2, pend2)
  BY <1>2, <1>6, <1>16, IfsStep
<1>18. x.source[k].op \notin {"end", "function"}
  BY <1>3
<1> QED BY <1>1, <1>6, <1>14, <1>17, <1>18, SteppedInv

LEMMA CodegenInv ==
  ASSUME IInv, Codegen PROVE IInv'
BY VisitFunctionInv, VisitEndInv, VisitAssignInv, VisitReturnInv, VisitGotoInv, VisitIfInv, VisitElseInv,
   VisitFiInv DEF Codegen

-----------------------------------------------------------------------------
(* Emission *)

(* The source and what was built for it.                                    *)
Finished(x, n, role) ==
  /\ WholeSource /\ n = Len(program) /\ x = Context
  /\ Built(x, n, blocks, namedBlocks, role)

LEMMA DoneFacts ==
  ASSUME NEW x, NEW n, NEW role, Finished(x, n, role)
  PROVE  /\ n \in Nat \ {0} /\ x.source = program /\ DOMAIN x.source = 1 .. n
         /\ \A i \in 1 .. n : ItemAt(x, n, i) /\ ItemOK(program[i])
         /\ \A i \in 1 .. n : x.within[i] = Function(i)
         /\ Core(x, blocks, role, 0, {}, n, namedBlocks) /\ NamedOK(x, blocks, role, {}, n, namedBlocks)
         /\ blocks \in Seq(Blocks)
<1>1. WholeSource /\ n = Len(program) /\ x = Context
  BY DEF Finished
<1>2. Core(x, blocks, role, 0, {}, n, namedBlocks) /\ NamedOK(x, blocks, role, {}, n, namedBlocks)
  BY DEF Finished, Built
<1>3. n \in Nat \ {0} /\ DOMAIN x.source = 1 .. n /\ \A i \in 1 .. n : ItemAt(x, n, i)
  BY <1>1, ContextFacts
<1>4. x.source = program /\ \A i \in 1 .. n : x.within[i] = Function(i)
  BY <1>1, ContextFields
<1>5. \A i \in 1 .. n : ItemOK(program[i])
  BY <1>1, WholeFacts
<1>6. blocks \in Seq(Blocks)
  BY <1>2 DEF Core
<1> QED BY <1>2, <1>3, <1>4, <1>5, <1>6

(* An instruction of what was built.                                        *)
LEMMA DoneInstr ==
  ASSUME NEW x, NEW n, NEW role, Finished(x, n, role), NEW c \in 1 .. Len(blocks), NEW k \in 1 .. Long(blocks, c)
  PROVE  /\ BlockOK(x, blocks, role, 0, n, c) /\ Par(blocks, c) # 0 /\ Par(blocks, c) \in 1 .. n
         /\ InstrOK(x, blocks, role, namedBlocks, c, k)
         /\ TargetOK(x, blocks, 0, {}, namedBlocks, c, k)
         /\ k \in 1 .. Long(blocks, c) - 1 => FlowOK(x, blocks, c, k)
         /\ Targets(Does(blocks, c, k)) \subseteq 1 .. Len(blocks)
         /\ Of(blocks, c, k) \in 1 .. n /\ x.within[Of(blocks, c, k)] = Par(blocks, c)
<1>1. Core(x, blocks, role, 0, {}, n, namedBlocks) /\ blocks \in Seq(Blocks) /\ DOMAIN x.source = 1 .. n
  BY DoneFacts
<1>2. /\ BlockOK(x, blocks, role, 0, n, c)
      /\ InstrOK(x, blocks, role, namedBlocks, c, k)
      /\ TargetOK(x, blocks, 0, {}, namedBlocks, c, k)
      /\ k \in 1 .. Long(blocks, c) - 1 => FlowOK(x, blocks, c, k)
  BY <1>1 DEF Core
<1>3. Long(blocks, c) \in Nat
  BY <1>1, BlocksFacts
<1>4. Par(blocks, c) # 0 /\ Par(blocks, c) \in 1 .. n
  BY <1>2, <1>3 DEF BlockOK
<1>5. Of(blocks, c, k) \in 1 .. n /\ x.within[Of(blocks, c, k)] = Par(blocks, c)
  BY <1>1, <1>2 DEF InstrOK
<1>6. Targets(Does(blocks, c, k)) \subseteq 1 .. Len(blocks)
  BY <1>2, TargetsOfInstr
<1> QED BY <1>2, <1>4, <1>5, <1>6

(* The block of a label that is on one item only is in that item's function. *)
LEMMA LabelThere ==
  ASSUME NEW x, NEW n, NEW role, Finished(x, n, role), WellLabelled,
         NEW p \in 1 .. n, program[p].op = "goto",
         NEW t, t \in 1 .. Len(blocks), NEW l, l = program[p].to, t = namedBlocks[l]
  PROVE  Par(blocks, t) = x.within[p] /\ Par(blocks, t) # 0
<1>1. l \in Labels /\ l # Absent
  BY DoneFacts, BlocksAssumption DEF ItemOK
<1>2. t # 0
  BY DoneFacts, BlocksFacts
<1>3. LabelOK(x, blocks, role, {}, n, t, l)
  BY <1>1, <1>2, DoneFacts DEF NamedOK
<1>4. n = Len(program) /\ DOMAIN program = 1 .. n /\ x.source = program
  BY DoneFacts DEF Finished
<1>5. Labelled(l, p) # {}
  BY <1>4 DEF WellLabelled
<1>6. PICK j \in 1 .. n : program[j].label = l /\ Function(j) = Function(p)
  BY <1>4, <1>5 DEF Labelled
<1>7. Par(blocks, t) # 0
  BY <1>3, <1>4, <1>6 DEF LabelOK
<1>8. PICK i \in 1 .. n : program[i].label = l /\ x.within[i] = Par(blocks, t)
  BY <1>3, <1>4, <1>7 DEF LabelOK
<1>9. i = j
  BY <1>1, <1>4, <1>6, <1>8 DEF WellLabelled
<1>10. x.within[i] = Function(i) /\ x.within[p] = Function(p)
  BY DoneFacts
<1> QED BY <1>6, <1>7, <1>8, <1>9, <1>10

LEMMA WellLabelledEmittable ==
  ASSUME NEW x, NEW n, NEW role, Finished(x, n, role), WellLabelled
  PROVE  Emittable
<1> SUFFICES ASSUME NEW b \in DOMAIN blocks, NEW k \in DOMAIN blocks[b].code,
                    NEW to \in Targets(blocks[b].code[k].does)
             PROVE  blocks[to].parent = blocks[b].parent /\ blocks[to].parent # Detached
  BY DEF Emittable
<1>1. blocks \in Seq(Blocks) /\ n \in Nat \ {0} /\ x.source = program
  BY DoneFacts
<1>2. b \in 1 .. Len(blocks)
  BY <1>1
<1>3. k \in 1 .. Long(blocks, b) /\ to \in Targets(Does(blocks, b, k))
  BY <1>1, <1>2, BlocksFacts DEF Does
<1>4. /\ Par(blocks, b) # 0 /\ TargetOK(x, blocks, 0, {}, namedBlocks, b, k)
      /\ Targets(Does(blocks, b, k)) \subseteq 1 .. Len(blocks)
      /\ Of(blocks, b, k) \in 1 .. n /\ x.within[Of(blocks, b, k)] = Par(blocks, b)
  BY <1>2, <1>3, DoneInstr
<1>5. CASE Par(blocks, to) = Par(blocks, b)
  BY <1>4, <1>5 DEF Par, Detached
<1>6. CASE x.source[Of(blocks, b, k)].op = "goto" /\ to = namedBlocks[x.source[Of(blocks, b, k)].to]
  <2>1. PICK p \in 1 .. n : p = Of(blocks, b, k)
    BY <1>4
  <2>2. PICK l : l = program[p].to
    OBVIOUS
  <2>3. program[p].op = "goto" /\ to = namedBlocks[l] /\ to \in 1 .. Len(blocks)
    BY <1>1, <1>3, <1>4, <1>6, <2>1, <2>2
  <2>4. Par(blocks, to) = x.within[p] /\ Par(blocks, to) # 0
    BY <2>2, <2>3, LabelThere
  <2>5. x.within[p] = Par(blocks, b)
    BY <1>4, <2>1
  <2> QED BY <2>4, <2>5 DEF Par, Detached
<1> QED BY <1>3, <1>4, <1>5, <1>6 DEF TargetOK

LEMMA EmittableNoCross ==
  ASSUME blocks \in Seq(Blocks), Emittable
  PROVE  ~Cross(blocks)
<1> SUFFICES ASSUME Cross(blocks) PROVE FALSE
  OBVIOUS
<1>1. PICK c \in 1 .. Len(blocks) : \E k \in 1 .. Long(blocks, c) : \E t \in Targets(Does(blocks, c, k)) :
        t \in 1 .. Len(blocks) /\ Par(blocks, t) # 0 /\ Par(blocks, t) # Par(blocks, c) /\ Par(blocks, c) # 0
  BY DEF Cross
<1>2. PICK k \in 1 .. Long(blocks, c) : \E t \in Targets(Does(blocks, c, k)) :
        t \in 1 .. Len(blocks) /\ Par(blocks, t) # 0 /\ Par(blocks, t) # Par(blocks, c) /\ Par(blocks, c) # 0
  BY <1>1
<1>3. PICK t \in Targets(Does(blocks, c, k)) : Par(blocks, t) # Par(blocks, c)
  BY <1>2
<1>4. c \in DOMAIN blocks /\ k \in DOMAIN blocks[c].code
  BY BlocksFacts
<1> QED BY <1>3, <1>4 DEF Emittable, Par, Does

(* Where a branch may go when the module can be emitted.                    *)
LEMMA EmittableTarget ==
  ASSUME blocks \in Seq(Blocks), Emittable, NEW c \in 1 .. Len(blocks), NEW k \in 1 .. Long(blocks, c),
         NEW t \in Targets(Does(blocks, c, k))
  PROVE  Par(blocks, t) = Par(blocks, c) /\ Par(blocks, t) # 0
<1>1. c \in DOMAIN blocks /\ k \in DOMAIN blocks[c].code
  BY BlocksFacts
<1> QED BY <1>1 DEF Emittable, Par, Does, Detached

LEMMA EmitObjectInv ==
  ASSUME IInv, EmitObject PROVE IInv'
<1>1. /\ phase = "codegen" /\ pc > Len(program) /\ program' = program /\ ifs' = ifs /\ pc' = pc /\ blocks' = blocks
      /\ insert' = insert /\ namedBlocks' = namedBlocks /\ pending' = pending
  BY DEF EmitObject
<1>2. at' = at /\ from' = from /\ registers' = registers /\ memory' = memory /\ result' = result
  BY DEF EmitObject, running
<1>3. WholeSource /\ Generating /\ NotStarted /\ Light /\ pending = <<>> /\ SourceOK
  BY <1>1 DEF IInv
<1>4. PICK x : x = Context
  OBVIOUS
<1>5. PICK n : n = Len(program)
  OBVIOUS
<1>6. n \in Nat
  BY <1>3, <1>5, WholeFacts
<1>7. GenAt(x, n, pc, blocks, insert, namedBlocks, pending, broken)
  BY <1>3, <1>4, <1>5 DEF Generating
<1>8. pc \in 1 .. n + 1 /\ broken = FALSE
  BY <1>7 DEF GenAt
<1>9. pc = n + 1 /\ pc - 1 = n /\ pc \notin 1 .. n
  BY <1>1, <1>5, <1>6, <1>8
<1>10. PICK role : OutAt(x, pc, blocks, namedBlocks, role)
  BY <1>7, <1>9 DEF GenAt, Inside
<1>11. Built(x, n, blocks, namedBlocks, role)
  BY <1>9, <1>10 DEF OutAt, Built
<1>12. WholeSource' /\ Context' = Context /\ SourceOK' /\ WellLabelled' = WellLabelled
  BY <1>1, <1>3, WholeStays, SourceStays, LabelledStays
<1>13. NotStarted'
  BY <1>2, <1>3 DEF NotStarted
<1>14. pc' \in 1 .. MaxItems + 1 /\ pending' = <<>> /\ result' \in BOOLEAN \cup {Absent}
  BY <1>1, <1>2, <1>3 DEF IInv
<1>15. broken' \in BOOLEAN
  BY <1>8 DEF EmitObject
<1>16. Light'
  BY <1>1, <1>3, <1>15 DEF Light, LightAt
<1>17. CASE Emittable
  <2>1. phase' = "emit" /\ broken' = FALSE
    BY <1>8, <1>17 DEF EmitObject
  <2>2. Emittable'
    BY <1>1, <1>17 DEF Emittable
  <2>3. GeneratedWith(role)'
    BY <2>1, <1>1, <1>4, <1>5, <1>11, <1>12 DEF GeneratedWith
  <2>4. Generated'
    BY <2>2, <2>3 DEF Generated
  <2> QED BY <2>1, <2>4, <1>12, <1>13, <1>14, <1>16 DEF IInv
<1>18. CASE ~Emittable
  <2>1. phase' = "done" /\ broken' = TRUE
    BY <1>18 DEF EmitObject
  <2>2. Finished(x, n, role)
    BY <1>3, <1>4, <1>5, <1>11 DEF Finished
  <2>3. ~WellLabelled
    BY <1>18, <2>2, WellLabelledEmittable
  <2> QED BY <2>1, <2>3, <1>12, <1>14, <1>16 DEF IInv
<1> QED BY <1>17, <1>18

-----------------------------------------------------------------------------
(* Execution *)

(* A module that can be emitted, and what was built for it.                 *)
LEMMA GeneratedHas ==
  ASSUME IInv, phase \in {"emit", "run"}
  PROVE  /\ WholeSource /\ Light /\ Emittable /\ broken = FALSE /\ blocks \in Seq(Blocks)
         /\ \E x, n, role : Finished(x, n, role) /\ GeneratedWith(role)
<1>1. WholeSource /\ Light /\ Generated
  BY DEF IInv
<1>2. PICK role : GeneratedWith(role)
  BY <1>1 DEF Generated
<1>3. PICK x : x = Context
  OBVIOUS
<1>4. PICK n : n = Len(program)
  OBVIOUS
<1>5. Finished(x, n, role)
  BY <1>1, <1>2, <1>3, <1>4 DEF Finished, GeneratedWith
<1>6. blocks \in Seq(Blocks) /\ broken \in BOOLEAN
  BY <1>1 DEF Light, LightAt
<1>7. broken = FALSE
  BY <1>6 DEF IInv
<1> QED BY <1>1, <1>2, <1>5, <1>6, <1>7 DEF Generated

(* What nothing changes any more.                                           *)
StaysBuilt == /\ program' = program /\ ifs' = ifs /\ pc' = pc /\ blocks' = blocks
              /\ insert' = insert /\ namedBlocks' = namedBlocks /\ pending' = pending /\ broken' = broken

LEMMA StaysInv ==
  ASSUME IInv, phase \in {"emit", "run"}, StaysBuilt, phase' \in {"run", "done"},
         result' \in BOOLEAN \cup {Absent}, phase' = "run" => \E role : GeneratedWith(role)'
  PROVE  IInv'
<1>1. WholeSource /\ Light /\ Emittable /\ broken = FALSE
  BY GeneratedHas
<1>2. WholeSource' /\ SourceOK'
  BY <1>1, WholeStays, SourceStays DEF StaysBuilt, WholeSource
<1>3. Light'
  BY <1>1 DEF Light, StaysBuilt
<1>4. Emittable'
  BY <1>1 DEF Emittable, StaysBuilt
<1>5. pc' \in 1 .. MaxItems + 1 /\ broken' = FALSE /\ (pc' > Len(program') => pending' = <<>>)
  BY <1>1 DEF IInv, StaysBuilt
<1>6. phase' = "run" => Generated'
  BY <1>4 DEF Generated
<1> QED BY <1>2, <1>3, <1>5, <1>6 DEF IInv

LEMMA StaysWith ==
  ASSUME NEW role, GeneratedWith(role), WholeSource, StaysBuilt, phase' = "run", NEW c, NEW k, at' = <<c, k>>,
         NEW origin, from' = origin, NEW regs, registers' = regs, NEW mem, memory' = mem,
         AtOK(blocks, role, c, k, origin, regs, mem)
  PROVE  GeneratedWith(role)'
<1>1. Built(Context, Len(program), blocks, namedBlocks, role)
  BY DEF GeneratedWith
<1>2. Context' = Context
  BY WholeStays DEF StaysBuilt
<1>3. Built(Context', Len(program'), blocks', namedBlocks', role)
  BY <1>1, <1>2 DEF StaysBuilt
<1>4. at'[1] = c /\ at'[2] = k
  OBVIOUS
<1>5. AtOK(blocks', role, at'[1], at'[2], from', registers', memory')
  BY <1>4 DEF StaysBuilt
<1> QED BY <1>3, <1>4, <1>5 DEF GeneratedWith

(* The first block of a function is where it is entered.                    *)
LEMMA FirstIsEntry ==
  ASSUME NEW x, NEW n, NEW role, Finished(x, n, role), Emittable, NEW f \in 1 .. n, program[f].op = "function",
         NEW b \in 1 .. Len(blocks), Par(blocks, b) = f, \A c \in 1 .. Len(blocks) : Par(blocks, c) = f => b <= c
  PROVE  EntryOK(x, blocks, role, 0, f, b)
<1>1. Core(x, blocks, role, 0, {}, n, namedBlocks) /\ blocks \in Seq(Blocks) /\ x.source = program
  BY DoneFacts
<1>2. PICK e \in 1 .. Len(blocks) : EntryOK(x, blocks, role, 0, f, e)
  BY <1>1 DEF Core
<1>3. ~Cross(blocks)
  BY <1>1, EmittableNoCross
<1>4. Par(blocks, e) = f /\ \A c \in 1 .. Len(blocks) : Par(blocks, c) = f => e <= c
  BY <1>2, <1>3 DEF EntryOK
<1>5. e <= b /\ b <= e /\ Len(blocks) \in Nat
  BY <1>1, <1>4, BlocksFacts
<1>6. e = b
  BY <1>5
<1> QED BY <1>2, <1>6

LEMMA BlockRuns ==
  ASSUME NEW x, NEW n, NEW role, Finished(x, n, role), NEW b \in 1 .. Len(blocks), Par(blocks, b) # 0
  PROVE  /\ Long(blocks, b) \in Nat \ {0} /\ 1 \in 1 .. Long(blocks, b)
         /\ Does(blocks, b, Long(blocks, b)).op \in Terminators
<1>1. Core(x, blocks, role, 0, {}, n, namedBlocks) /\ blocks \in Seq(Blocks)
  BY DoneFacts
<1>2. Long(blocks, b) \in Nat /\ b # 0
  BY <1>1, BlocksFacts
<1>3. BlockOK(x, blocks, role, 0, n, b)
  BY <1>1 DEF Core
<1> QED BY <1>2, <1>3 DEF BlockOK

LEMMA StartInv ==
  ASSUME IInv, Start PROVE IInv'
<1>1. phase = "emit" /\ phase' = "run" /\ memory' \in [Variables -> BOOLEAN]
  BY DEF Start
<1>2. StaysBuilt /\ from' = from /\ registers' = registers /\ result' = result
  BY DEF Start, StaysBuilt, module
<1>3. PICK f \in DOMAIN program :
       /\ program[f].op = "function"
       /\ \E b \in DOMAIN blocks :
            /\ blocks[b].parent = f
            /\ \A c \in DOMAIN blocks : blocks[c].parent = f => b <= c
            /\ at' = <<b, 1>>
  BY DEF Start
<1>4. PICK b \in DOMAIN blocks :
            /\ blocks[b].parent = f
            /\ \A c \in DOMAIN blocks : blocks[c].parent = f => b <= c
            /\ at' = <<b, 1>>
  BY <1>3
<1>5. PICK x, n, role : Finished(x, n, role) /\ GeneratedWith(role)
  BY <1>1, GeneratedHas
<1>6. WholeSource /\ Emittable /\ blocks \in Seq(Blocks) /\ NotStarted
  BY <1>1, GeneratedHas DEF IInv
<1>7. f \in 1 .. n /\ f # 0
  <2>1. DOMAIN x.source = 1 .. n /\ x.source = program
    BY <1>5, DoneFacts
  <2> QED BY <2>1
<1>8. b \in 1 .. Len(blocks) /\ Par(blocks, b) = f
      /\ \A c \in 1 .. Len(blocks) : Par(blocks, c) = f => b <= c
  BY <1>4, <1>6, BlocksFacts DEF Par
<1>9. EntryOK(x, blocks, role, 0, f, b)
  BY <1>3, <1>5, <1>6, <1>7, <1>8, FirstIsEntry
<1>10. 1 \in 1 .. Long(blocks, b)
  BY <1>5, <1>7, <1>8, BlockRuns
<1>11. PICK mem : mem = memory'
  OBVIOUS
<1>12. AtOK(blocks, role, b, 1, from, registers, mem)
  <2>1. role[b].claims = {}
    BY <1>9 DEF EntryOK
  <2>2. Claimed(role, b, from, registers, mem)
    BY <2>1 DEF Claimed
  <2>3. mem \in [Variables -> BOOLEAN] /\ Par(blocks, b) # 0
    BY <1>1, <1>7, <1>8, <1>11
  <2> QED BY <2>2, <2>3, <1>8, <1>10 DEF AtOK
<1>13. GeneratedWith(role)'
  BY <1>1, <1>2, <1>4, <1>5, <1>6, <1>11, <1>12, StaysWith
<1>14. result' \in BOOLEAN \cup {Absent}
  BY <1>2 DEF IInv
<1> QED BY <1>1, <1>2, <1>13, <1>14, StaysInv

(* Control is in front of instruction k of block c, having come from origin. *)
Running(x, n, role, c, k, origin, regs, mem) ==
  /\ Finished(x, n, role) /\ GeneratedWith(role) /\ Emittable /\ blocks \in Seq(Blocks) /\ WholeSource
  /\ at = <<c, k>> /\ from = origin /\ registers = regs /\ memory = mem
  /\ AtOK(blocks, role, c, k, origin, regs, mem)

LEMMA RunningHas ==
  ASSUME IInv, phase = "run"
  PROVE  \E x, n, role, c, k, origin, regs, mem : Running(x, n, role, c, k, origin, regs, mem)
<1>1. PICK x, n, role : Finished(x, n, role) /\ GeneratedWith(role)
  BY GeneratedHas
<1>2. WholeSource /\ Emittable /\ blocks \in Seq(Blocks)
  BY GeneratedHas
<1>3. PICK c : c = at[1]
  OBVIOUS
<1>4. PICK k : k = at[2]
  OBVIOUS
<1>5. at = <<c, k>> /\ AtOK(blocks, role, c, k, from, registers, memory)
  BY <1>1, <1>3, <1>4 DEF GeneratedWith
<1> QED BY <1>1, <1>2, <1>5 DEF Running

LEMMA RunningFacts ==
  ASSUME NEW x, NEW n, NEW role, NEW c, NEW k, NEW origin, NEW regs, NEW mem,
         Running(x, n, role, c, k, origin, regs, mem)
  PROVE  /\ Finished(x, n, role) /\ c \in 1 .. Len(blocks) /\ Par(blocks, c) # 0 /\ k \in 1 .. Long(blocks, c) /\ k \in Nat
         /\ Long(blocks, c) \in Nat
         /\ mem \in [Variables -> BOOLEAN] /\ Instruction = Does(blocks, c, k) /\ at[1] = c /\ at[2] = k
         /\ InstrOK(x, blocks, role, namedBlocks, c, k)
         /\ Of(blocks, c, k) \in 1 .. n /\ x.source = program
         /\ ItemOK(x.source[Of(blocks, c, k)]) /\ x.within[Of(blocks, c, k)] = Par(blocks, c)
<1>1. Finished(x, n, role) /\ at = <<c, k>> /\ AtOK(blocks, role, c, k, origin, regs, mem) /\ blocks \in Seq(Blocks)
  BY DEF Running
<1>2. c \in 1 .. Len(blocks) /\ Par(blocks, c) # 0 /\ k \in 1 .. Long(blocks, c) /\ mem \in [Variables -> BOOLEAN]
  BY <1>1 DEF AtOK
<1>3. at[1] = c /\ at[2] = k
  BY <1>1
<1>4. Instruction = Does(blocks, c, k)
  BY <1>3 DEF Instruction, Does
<1>5. /\ InstrOK(x, blocks, role, namedBlocks, c, k) /\ Of(blocks, c, k) \in 1 .. n
      /\ x.within[Of(blocks, c, k)] = Par(blocks, c)
  BY <1>1, <1>2, DoneInstr
<1>6. x.source = program /\ \A i \in 1 .. n : ItemOK(program[i])
  BY <1>1, DoneFacts
<1>7. Long(blocks, c) \in Nat
  BY <1>1, <1>2, BlocksFacts
<1> QED BY <1>1, <1>2, <1>3, <1>4, <1>5, <1>6, <1>7

(* What is known of an operand in front of an instruction holds.            *)
LEMMA KnowsMeans ==
  ASSUME NEW role, NEW c, NEW k, NEW origin, NEW regs, NEW mem, NEW o, NEW e \in Expressions,
         AtOK(blocks, role, c, k, origin, regs, mem), Knows(blocks, role, c, k, o, e)
  PROVE  Means(o, e, regs, mem)
<1>1. CASE e.op = "variable" /\ o = Load(e.name)
  <2>1. OperandOf(o, regs, mem) = mem[e.name] /\ e.name \in Variables
    BY <1>1, ExpressionFacts DEF OperandOf, Load
  <2>2. mem[e.name] \in BOOLEAN
    BY <2>1 DEF AtOK
  <2>3. \A val : Valued(val, mem) => val[e] = mem[e.name]
    BY <1>1 DEF Valued
  <2> QED BY <2>1, <2>2, <2>3 DEF Means
<1>2. CASE k = 2 /\ Does(blocks, c, 1).op = "phi" /\ o = PhiOf(c) /\ role[c].means = e
  BY <1>2 DEF AtOK
<1> QED BY <1>1, <1>2 DEF Knows

(* On to the next instruction of the block.                                 *)
LEMMA NextRuns ==
  ASSUME NEW x, NEW n, NEW role, NEW c, NEW k, NEW origin, NEW regs, NEW mem,
         Running(x, n, role, c, k, origin, regs, mem), Does(blocks, c, k).op \notin Terminators
  PROVE  k + 1 \in 1 .. Long(blocks, c) /\ k \in 1 .. Long(blocks, c) - 1
<1>1. /\ Finished(x, n, role) /\ c \in 1 .. Len(blocks) /\ Par(blocks, c) # 0 /\ k \in 1 .. Long(blocks, c)
      /\ Long(blocks, c) \in Nat
  BY RunningFacts
<1>2. Does(blocks, c, Long(blocks, c)).op \in Terminators
  BY <1>1, BlockRuns
<1>3. k # Long(blocks, c)
  BY <1>2
<1> QED BY <1>1, <1>3

LEMMA StoreAt ==
  ASSUME NEW x, NEW n, NEW role, NEW c, NEW k, NEW origin, NEW regs, NEW mem, NEW mem2, NEW y,
         Running(x, n, role, c, k, origin, regs, mem), y = Does(blocks, c, k), y.op = "store",
         mem2 = [mem EXCEPT ![y.name] = y.value]
  PROVE  AtOK(blocks, role, c, k + 1, origin, regs, mem2)
<1>1. /\ c \in 1 .. Len(blocks) /\ Par(blocks, c) # 0 /\ mem \in [Variables -> BOOLEAN] /\ k \in Nat /\ k # 0
      /\ InstrOK(x, blocks, role, namedBlocks, c, k) /\ ItemOK(x.source[Of(blocks, c, k)])
  BY RunningFacts
<1>2. k + 1 \in 1 .. Long(blocks, c)
  BY NextRuns DEF Terminators
<1>3. mem2 \in [Variables -> BOOLEAN]
  <2>1. PICK item : item = x.source[Of(blocks, c, k)]
    OBVIOUS
  <2>2. item.op = "assign" /\ y.name = item.name /\ y.value = item.value
    BY <1>1, <2>1 DEF InstrOK
  <2>3. y.value \in BOOLEAN
    BY <1>1, <2>1, <2>2, BlocksAssumption DEF ItemOK
  <2> QED BY <1>1, <2>3
<1>4. ~(k + 1 = 1)
  BY <1>1
<1>5. ~(k + 1 = 2 /\ Does(blocks, c, 1).op = "phi")
  <2> SUFFICES ASSUME k + 1 = 2, Does(blocks, c, 1).op = "phi" PROVE FALSE
    OBVIOUS
  <2>1. k = 1
    BY <1>1
  <2> QED BY <2>1
<1> QED BY <1>1, <1>2, <1>3, <1>4, <1>5 DEF AtOK

LEMMA StoreInv ==
  ASSUME IInv, Store, StaysBuilt PROVE IInv'
<1>1. phase = "run" /\ Instruction.op = "store" /\ at' = <<at[1], at[2] + 1>> /\ phase' = phase /\ from' = from
      /\ result' = result /\ registers' = registers
      /\ memory' = [memory EXCEPT ![Instruction.name] = Instruction.value]
  BY DEF Store, Executes, NextInstruction
<1>2. PICK x, n, role, c, k, origin, regs, mem : Running(x, n, role, c, k, origin, regs, mem)
  BY <1>1, RunningHas
<1>3. Instruction = Does(blocks, c, k) /\ at[1] = c /\ at[2] = k
  BY <1>2, RunningFacts
<1>4. from = origin /\ registers = regs /\ memory = mem /\ GeneratedWith(role) /\ WholeSource
  BY <1>2 DEF Running
<1>5. PICK mem2 : mem2 = memory'
  OBVIOUS
<1>6. PICK y : y = Does(blocks, c, k)
  OBVIOUS
<1>7. AtOK(blocks, role, c, k + 1, origin, regs, mem2)
  <2>1. y.op = "store" /\ mem2 = [mem EXCEPT ![y.name] = y.value]
    BY <1>1, <1>3, <1>4, <1>5, <1>6
  <2> QED BY <2>1, <1>2, <1>6, StoreAt
<1>8. PICK j : j = k + 1
  OBVIOUS
<1>9. at' = <<c, j>> /\ AtOK(blocks, role, c, j, origin, regs, mem2)
  BY <1>1, <1>3, <1>7, <1>8
<1>10. from' = origin /\ registers' = regs /\ memory' = mem2 /\ phase' = "run"
  BY <1>1, <1>4, <1>5
<1>11. GeneratedWith(role)'
  BY <1>4, <1>9, <1>10, StaysWith
<1>12. result' \in BOOLEAN \cup {Absent}
  BY <1>1 DEF IInv
<1> QED BY <1>1, <1>10, <1>11, <1>12, StaysInv

(* The value that a PHI node gets: that of the block control comes from.    *)
PhiValue(y, origin, regs, mem, value) ==
  \/ value \in BOOLEAN /\ \A w \in y.incoming : w[1] # origin
  \/ \E w \in y.incoming : w[1] = origin /\ value = OperandOf(w[2], regs, mem)

(* What the PHI nodes have then.                                            *)
WithPhi(regs, c, value, regs2) ==
  regs2 = [b \in DOMAIN regs \cup {c} |-> IF b = c THEN value ELSE regs[b]]

LEMMA PhiMeans ==
  ASSUME NEW role, NEW c, NEW k, NEW y, NEW origin, NEW regs, NEW mem, NEW value,
         PhiOK(role, c, k, y), Claimed(role, c, origin, regs, mem), PhiValue(y, origin, regs, mem, value)
  PROVE  /\ value \in BOOLEAN
         /\ RightsAreVariables => \A val : Valued(val, mem) => value = val[role[c].means]
<1>1. CASE \E w \in y.incoming : w[1] = origin /\ value = OperandOf(w[2], regs, mem)
  <2>1. PICK w \in y.incoming : w[1] = origin /\ value = OperandOf(w[2], regs, mem)
    BY <1>1
  <2>2. PICK f \in role[c].claims : f.from = w[1] /\ (f.never \/ f.on = w[2])
    BY DEF PhiOK
  <2>3. f.from \in {0, origin}
    BY <2>1, <2>2
  <2>4. ~f.never /\ Means(f.on, f.is, regs, mem)
    BY <2>3 DEF Claimed
  <2>5. f.on = w[2]
    BY <2>2, <2>4
  <2>6. f.is = role[c].means
    BY DEF PhiOK
  <2>7. Means(w[2], role[c].means, regs, mem)
    BY <2>4, <2>5, <2>6
  <2> QED BY <2>1, <2>7 DEF Means
<1>2. CASE value \in BOOLEAN /\ \A w \in y.incoming : w[1] # origin
  <2>1. ASSUME RightsAreVariables PROVE FALSE
    <3>1. PICK f \in role[c].claims : f.from \in {0, origin}
      BY <2>1 DEF Claimed, PhiOK
    <3>2. f.from # 0
      BY DEF PhiOK
    <3>3. f.from = origin
      BY <3>1, <3>2
    <3>4. ~f.never
      BY <3>1 DEF Claimed
    <3>5. \E w \in y.incoming : w[1] = f.from
      BY <3>4 DEF PhiOK
    <3> QED BY <3>3, <3>5, <1>2
  <2> QED BY <1>2, <2>1
<1> QED BY <1>1, <1>2 DEF PhiValue

LEMMA PhiAt ==
  ASSUME NEW x, NEW n, NEW role, NEW c, NEW k, NEW origin, NEW regs, NEW mem, NEW regs2, NEW y, NEW value,
         Running(x, n, role, c, k, origin, regs, mem), y = Does(blocks, c, k), y.op = "phi",
         PhiValue(y, origin, regs, mem, value), WithPhi(regs, c, value, regs2)
  PROVE  AtOK(blocks, role, c, k + 1, origin, regs2, mem)
<1>1. /\ c \in 1 .. Len(blocks) /\ Par(blocks, c) # 0 /\ mem \in [Variables -> BOOLEAN] /\ k \in Nat /\ k # 0
      /\ InstrOK(x, blocks, role, namedBlocks, c, k)
  BY RunningFacts
<1>2. k + 1 \in 1 .. Long(blocks, c)
  BY NextRuns DEF Terminators
<1>3. PhiOK(role, c, k, y)
  BY <1>1 DEF InstrOK
<1>4. k = 1
  BY <1>3 DEF PhiOK
<1>5. AtOK(blocks, role, c, k, origin, regs, mem)
  BY DEF Running
<1>6. Claimed(role, c, origin, regs, mem)
  BY <1>4, <1>5 DEF AtOK
<1>7. value \in BOOLEAN /\ (RightsAreVariables => \A val : Valued(val, mem) => value = val[role[c].means])
  BY <1>3, <1>6, PhiMeans
<1>8. OperandOf(PhiOf(c), regs2, mem) = value
  <2>1. regs2[c] = value
    BY DEF WithPhi
  <2> QED BY <2>1 DEF OperandOf, PhiOf
<1>9. Means(PhiOf(c), role[c].means, regs2, mem)
  BY <1>7, <1>8 DEF Means
<1>10. ~(k + 1 = 1)
  BY <1>1
<1> QED BY <1>1, <1>2, <1>9, <1>10 DEF AtOK

LEMMA PhiInv ==
  ASSUME IInv, Phi, StaysBuilt PROVE IInv'
<1>1. phase = "run" /\ Instruction.op = "phi" /\ at' = <<at[1], at[2] + 1>> /\ phase' = phase /\ from' = from
      /\ result' = result /\ memory' = memory
  BY DEF Phi, Executes, NextInstruction
<1>2. PICK x, n, role, c, k, origin, regs, mem : Running(x, n, role, c, k, origin, regs, mem)
  BY <1>1, RunningHas
<1>3. Instruction = Does(blocks, c, k) /\ at[1] = c /\ at[2] = k
  BY <1>2, RunningFacts
<1>4. from = origin /\ registers = regs /\ memory = mem /\ GeneratedWith(role) /\ WholeSource
  BY <1>2 DEF Running
<1>5. PICK regs2 : regs2 = registers'
  OBVIOUS
<1>6. PICK y : y = Does(blocks, c, k)
  OBVIOUS
<1>7. \E value : PhiValue(y, origin, regs, mem, value) /\ WithPhi(regs, c, value, regs2)
  <2>1. PICK values : values = {Operand(v[2]) : v \in {w \in Instruction.incoming : w[1] = from}}
    OBVIOUS
  <2>2. PICK value \in IF values = {} THEN BOOLEAN ELSE values :
          registers' = [b \in DOMAIN registers \cup {at[1]} |-> IF b = at[1] THEN value ELSE registers[b]]
    BY <2>1 DEF Phi
  <2>3. \A o : Operand(o) = OperandOf(o, regs, mem)
    BY <1>4 DEF Operand, OperandOf
  <2>4. values = {OperandOf(v[2], regs, mem) : v \in {w \in y.incoming : w[1] = origin}}
    BY <2>1, <2>3, <1>3, <1>4, <1>6
  <2>5. PhiValue(y, origin, regs, mem, value)
    BY <2>2, <2>4 DEF PhiValue
  <2>6. WithPhi(regs, c, value, regs2)
    BY <2>2, <1>3, <1>4, <1>5 DEF WithPhi
  <2> QED BY <2>5, <2>6
<1>8. AtOK(blocks, role, c, k + 1, origin, regs2, mem)
  <2>1. PICK value : PhiValue(y, origin, regs, mem, value) /\ WithPhi(regs, c, value, regs2)
    BY <1>7
  <2>2. y.op = "phi"
    BY <1>1, <1>3, <1>6
  <2> QED BY <2>1, <2>2, <1>2, <1>6, PhiAt
<1>9. PICK j : j = k + 1
  OBVIOUS
<1>10. at' = <<c, j>> /\ AtOK(blocks, role, c, j, origin, regs2, mem)
  BY <1>1, <1>3, <1>8, <1>9
<1>11. from' = origin /\ registers' = regs2 /\ memory' = mem /\ phase' = "run"
  BY <1>1, <1>4, <1>5
<1>12. GeneratedWith(role)'
  BY <1>4, <1>10, <1>11, StaysWith
<1>13. result' \in BOOLEAN \cup {Absent}
  BY <1>1 DEF IInv
<1> QED BY <1>1, <1>11, <1>12, <1>13, StaysInv

(* What block t begins with holds for who comes from c.                     *)
LEMMA CarriedHolds ==
  ASSUME NEW role, NEW c, NEW k, NEW t, NEW origin, NEW regs, NEW mem,
         AtOK(blocks, role, c, k, origin, regs, mem), Carries(role, c, k, t)
  PROVE  Claimed(role, t, c, regs, mem)
<1>1. ASSUME NEW f \in role[t].claims, f.from \in {0, c}
      PROVE  ~f.never /\ Means(f.on, f.is, regs, mem)
  <2>1. PICK g : g = [from |-> 0, never |-> FALSE, on |-> f.on, is |-> f.is]
    OBVIOUS
  <2>2. ~f.never /\ k = 1 /\ g \in role[c].claims
    BY <1>1, <2>1 DEF Carries
  <2>3. Claimed(role, c, origin, regs, mem)
    BY <2>2 DEF AtOK
  <2>4. g.from \in {0, origin} /\ g.on = f.on /\ g.is = f.is
    BY <2>1
  <2>5. Means(g.on, g.is, regs, mem)
    BY <2>2, <2>3, <2>4 DEF Claimed
  <2> QED BY <2>2, <2>4, <2>5
<1>2. RightsAreVariables => role[t].claims = {} \/ \E f \in role[t].claims : f.from \in {0, c}
  BY DEF Carries
<1> QED BY <1>1, <1>2 DEF Claimed

LEMMA NothingClaimed ==
  ASSUME NEW role, NEW t, role[t].claims = {}, NEW c, NEW regs, NEW mem
  PROVE  Claimed(role, t, c, regs, mem)
BY DEF Claimed

(* The value is known.                                                      *)
LEMMA ShortsHolds ==
  ASSUME NEW role, NEW t, NEW c, NEW o, NEW e \in Expressions, NEW regs, NEW mem,
         Shorts(role, t, o, e), Means(o, e, regs, mem)
  PROVE  Claimed(role, t, c, regs, mem)
<1>1. ASSUME NEW f \in role[t].claims
      PROVE  f.from = 0 /\ ~f.never /\ Means(f.on, f.is, regs, mem)
  BY <1>1 DEF Shorts
<1>2. role[t].claims = {} \/ \E f \in role[t].claims : f.from \in {0, c}
  BY <1>1
<1> QED BY <1>1, <1>2 DEF Claimed

LEMMA GoesOnHolds ==
  ASSUME NEW role, NEW t, NEW c, NEW e \in Expressions, NEW regs, NEW mem, GoesOn(role, t, e),
         e.right.op = "variable" => Means(Load(e.right.name), e, regs, mem)
  PROVE  Claimed(role, t, c, regs, mem)
<1>1. ASSUME NEW f \in role[t].claims
      PROVE  f.from = 0 /\ ~f.never /\ Means(f.on, f.is, regs, mem)
  BY <1>1 DEF GoesOn
<1>2. role[t].claims = {} \/ \E f \in role[t].claims : f.from \in {0, c}
  BY <1>1
<1> QED BY <1>1, <1>2 DEF Claimed

(* The value of the left operand.                                           *)
LEMMA LeftDecides ==
  ASSUME NEW o, NEW e \in Expressions, NEW regs, NEW mem, Means(o, e.left, regs, mem),
         mem \in [Variables -> BOOLEAN], e.op \in {"and", "or"},
         NEW v, v = OperandOf(o, regs, mem)
  PROVE  /\ v \in BOOLEAN
         /\ (e.op = "and" /\ ~v) \/ (e.op = "or" /\ v) => Means(o, e, regs, mem)
         /\ (e.op = "and" /\ v) \/ (e.op = "or" /\ ~v) =>
              (e.right.op = "variable" => Means(Load(e.right.name), e, regs, mem))
<1>1. v \in BOOLEAN /\ (RightsAreVariables => \A val : Valued(val, mem) => v = val[e.left])
  BY DEF Means
<1>2. e.left \in Expressions /\ e.right \in Expressions
  BY ExpressionFacts
<1>3. ASSUME NEW val, Valued(val, mem)
      PROVE  /\ val[e] \in BOOLEAN /\ val[e.left] \in BOOLEAN /\ val[e.right] \in BOOLEAN
             /\ e.op = "and" => val[e] = (val[e.left] /\ val[e.right])
             /\ e.op = "or" => val[e] = (val[e.left] \/ val[e.right])
             /\ e.right.op = "variable" => val[e.right] = mem[e.right.name]
  BY <1>2, <1>3 DEF Valued
<1>4. ASSUME (e.op = "and" /\ ~v) \/ (e.op = "or" /\ v) PROVE Means(o, e, regs, mem)
  <2>1. ASSUME RightsAreVariables, NEW val, Valued(val, mem) PROVE v = val[e]
    <3>1. v = val[e.left]
      BY <1>1, <2>1
    <3> QED BY <3>1, <1>1, <1>3, <1>4, <2>1
  <2> QED BY <2>1, <1>1 DEF Means
<1>5. ASSUME (e.op = "and" /\ v) \/ (e.op = "or" /\ ~v), e.right.op = "variable"
      PROVE  Means(Load(e.right.name), e, regs, mem)
  <2>1. OperandOf(Load(e.right.name), regs, mem) = mem[e.right.name]
    BY DEF OperandOf, Load
  <2>2. e.right.name \in Variables
    BY <1>2, <1>5, ExpressionFacts
  <2>3. mem[e.right.name] \in BOOLEAN
    BY <2>2
  <2>4. ASSUME RightsAreVariables, NEW val, Valued(val, mem) PROVE mem[e.right.name] = val[e]
    <3>1. v = val[e.left]
      BY <1>1, <2>4
    <3>2. val[e.right] = mem[e.right.name]
      BY <1>3, <1>5, <2>4
    <3> QED BY <3>1, <3>2, <1>1, <1>3, <1>5, <2>4
  <2> QED BY <2>1, <2>3, <2>4 DEF Means
<1> QED BY <1>1, <1>4, <1>5

(* Where the branch goes that is taken.                                     *)
Taken(y, regs, mem, t) ==
  \/ y.op = "br" /\ t = y.to
  \/ y.op = "condbr" /\ t = IF OperandOf(y.on, regs, mem) THEN y.yes ELSE y.no

LEMMA LazyHolds ==
  ASSUME NEW role, NEW c, NEW k, NEW y, NEW p, NEW origin, NEW regs, NEW mem, NEW t,
         AtOK(blocks, role, c, k, origin, regs, mem), ForksLazy(blocks, role, c, k, y, p),
         Taken(y, regs, mem, t), y.op = "condbr"
  PROVE  Claimed(role, t, c, regs, mem) /\ role[t].goal = p
<1>1. PICK e \in Expressions :
       /\ Knows(blocks, role, c, k, y.on, e.left)
       /\ \/ e.op = "and" /\ Shorts(role, y.no, y.on, e) /\ GoesOn(role, y.yes, e)
          \/ e.op = "or" /\ Shorts(role, y.yes, y.on, e) /\ GoesOn(role, y.no, e)
  BY DEF ForksLazy
<1>2. e.left \in Expressions
  <2>1. e.op # "variable"
    BY <1>1
  <2> QED BY <2>1, ExpressionFacts
<1>3. Means(y.on, e.left, regs, mem)
  BY <1>1, <1>2, KnowsMeans
<1>4. PICK v : v = OperandOf(y.on, regs, mem)
  OBVIOUS
<1>5. mem \in [Variables -> BOOLEAN] /\ e.op \in {"and", "or"}
  BY <1>1 DEF AtOK
<1>6. /\ v \in BOOLEAN
      /\ (e.op = "and" /\ ~v) \/ (e.op = "or" /\ v) => Means(y.on, e, regs, mem)
      /\ (e.op = "and" /\ v) \/ (e.op = "or" /\ ~v) =>
           (e.right.op = "variable" => Means(Load(e.right.name), e, regs, mem))
  BY <1>3, <1>4, <1>5, LeftDecides
<1>7. t = IF v THEN y.yes ELSE y.no
  BY <1>4 DEF Taken
<1>8. role[t].goal = p
  BY <1>7 DEF ForksLazy
<1>9. CASE e.op = "and" /\ Shorts(role, y.no, y.on, e) /\ GoesOn(role, y.yes, e)
  <2>1. CASE v
    <3>1. e.right.op = "variable" => Means(Load(e.right.name), e, regs, mem)
      BY <1>6, <1>9, <2>1
    <3>2. GoesOn(role, t, e)
      BY <1>7, <1>9, <2>1
    <3> QED BY <1>8, <3>1, <3>2, GoesOnHolds
  <2>2. CASE ~v
    <3>1. Means(y.on, e, regs, mem) /\ Shorts(role, t, y.on, e)
      BY <1>6, <1>7, <1>9, <2>2
    <3> QED BY <1>8, <3>1, ShortsHolds
  <2> QED BY <2>1, <2>2
<1>10. CASE e.op = "or" /\ Shorts(role, y.yes, y.on, e) /\ GoesOn(role, y.no, e)
  <2>1. CASE ~v
    <3>1. e.right.op = "variable" => Means(Load(e.right.name), e, regs, mem)
      BY <1>6, <1>10, <2>1
    <3>2. GoesOn(role, t, e)
      BY <1>7, <1>10, <2>1
    <3> QED BY <1>8, <3>1, <3>2, GoesOnHolds
  <2>2. CASE v
    <3>1. Means(y.on, e, regs, mem) /\ Shorts(role, t, y.on, e)
      BY <1>6, <1>7, <1>10, <2>2
    <3> QED BY <1>8, <3>1, ShortsHolds
  <2> QED BY <2>1, <2>2
<1> QED BY <1>1, <1>9, <1>10

(* The block of a label begins with nothing to hold.                        *)
LEMMA LabelClaims ==
  ASSUME NEW x, NEW n, NEW role, Finished(x, n, role), NEW l \in Labels, namedBlocks[l] # 0
  PROVE  role[namedBlocks[l]].claims = {}
<1>1. NamedOK(x, blocks, role, {}, n, namedBlocks)
  BY DoneFacts
<1>2. LabelOK(x, blocks, role, {}, n, namedBlocks[l], l)
  BY <1>1 DEF NamedOK
<1> QED BY <1>2 DEF LabelOK

LEMMA BranchAt ==
  ASSUME NEW x, NEW n, NEW role, NEW c, NEW k, NEW origin, NEW regs, NEW mem, NEW y, NEW t,
         Running(x, n, role, c, k, origin, regs, mem), y = Does(blocks, c, k), Taken(y, regs, mem, t)
  PROVE  AtOK(blocks, role, t, 1, c, regs, mem)
<1>1. /\ Finished(x, n, role) /\ c \in 1 .. Len(blocks) /\ k \in 1 .. Long(blocks, c)
      /\ mem \in [Variables -> BOOLEAN] /\ InstrOK(x, blocks, role, namedBlocks, c, k)
      /\ Of(blocks, c, k) \in 1 .. n /\ ItemOK(x.source[Of(blocks, c, k)])
  BY RunningFacts
<1>2. blocks \in Seq(Blocks) /\ Emittable /\ AtOK(blocks, role, c, k, origin, regs, mem)
  BY DEF Running
<1>3. t \in Targets(y)
  BY DEF Taken, Targets
<1>4. t \in 1 .. Len(blocks)
  BY <1>1, <1>3, DoneInstr
<1>5. Par(blocks, t) # 0
  BY <1>1, <1>2, <1>3, EmittableTarget
<1>6. 1 \in 1 .. Long(blocks, t)
  BY <1>1, <1>4, <1>5, BlockRuns
<1>7. Claimed(role, t, c, regs, mem)
  <2>1. CASE y.op = "br"
    <3>1. t = y.to
      BY <2>1 DEF Taken
    <3>2. PICK item : item = x.source[Of(blocks, c, k)]
      OBVIOUS
    <3>3. Carries(role, c, k, t) \/ (item.op = "goto" /\ t = namedBlocks[item.to])
      BY <1>1, <2>1, <3>1, <3>2 DEF InstrOK
    <3>4. CASE Carries(role, c, k, t)
      BY <1>2, <3>4, CarriedHolds
    <3>5. CASE item.op = "goto" /\ t = namedBlocks[item.to]
      <4>1. PICK l \in Labels : l = item.to
        BY <1>1, <3>2, <3>5 DEF ItemOK
      <4>2. t = namedBlocks[l] /\ namedBlocks[l] # 0
        BY <1>2, <1>4, <3>5, <4>1, BlocksFacts
      <4>3. role[t].claims = {}
        BY <1>1, <4>2, LabelClaims
      <4> QED BY <4>3, NothingClaimed
    <3> QED BY <3>3, <3>4, <3>5
  <2>2. CASE y.op = "condbr"
    <3>1. PICK p : p = Of(blocks, c, k)
      OBVIOUS
    <3>2. ForksIf(x, blocks, role, c, k, y, p) \/ ForksLazy(blocks, role, c, k, y, p)
      BY <1>1, <2>2, <3>1 DEF InstrOK
    <3>3. CASE ForksIf(x, blocks, role, c, k, y, p)
      <4>1. role[t].claims = {}
        BY <2>2, <3>3 DEF ForksIf, Taken
      <4> QED BY <4>1, NothingClaimed
    <3>4. CASE ForksLazy(blocks, role, c, k, y, p)
      BY <1>2, <2>2, <3>4, LazyHolds
    <3> QED BY <3>2, <3>3, <3>4
  <2> QED BY <2>1, <2>2 DEF Taken
<1>8. ~(1 = 2)
  OBVIOUS
<1> QED BY <1>1, <1>4, <1>5, <1>6, <1>7, <1>8 DEF AtOK

LEMMA BranchInv ==
  ASSUME IInv, Branch, StaysBuilt PROVE IInv'
<1>1. phase = "run" /\ registers' = registers /\ memory' = memory
  BY DEF Branch, Executes
<1>2. PICK x, n, role, c, k, origin, regs, mem : Running(x, n, role, c, k, origin, regs, mem)
  BY <1>1, RunningHas
<1>3. Instruction = Does(blocks, c, k) /\ at[1] = c /\ at[2] = k
  BY <1>2, RunningFacts
<1>4. from = origin /\ registers = regs /\ memory = mem /\ GeneratedWith(role) /\ WholeSource
  BY <1>2 DEF Running
<1>5. PICK y : y = Does(blocks, c, k)
  OBVIOUS
<1>6. \E t : Taken(y, regs, mem, t) /\ Jump(t)
  <2>1. CASE Executes("br") /\ Jump(Instruction.to)
    BY <2>1, <1>3, <1>5 DEF Executes, Taken
  <2>2. CASE Executes("condbr") /\ Jump(IF Operand(Instruction.on) THEN Instruction.yes ELSE Instruction.no)
    <3>1. Operand(y.on) = OperandOf(y.on, regs, mem)
      BY <1>4 DEF Operand, OperandOf
    <3>2. PICK t : t = IF Operand(y.on) THEN y.yes ELSE y.no
      OBVIOUS
    <3>3. y.op = "condbr" /\ Jump(t)
      BY <2>2, <3>2, <1>3, <1>5 DEF Executes
    <3> QED BY <3>1, <3>2, <3>3 DEF Taken
  <2> QED BY <2>1, <2>2 DEF Branch
<1>7. PICK t : Taken(y, regs, mem, t) /\ Jump(t)
  BY <1>6
<1>8. AtOK(blocks, role, t, 1, c, regs, mem)
  BY <1>2, <1>5, <1>7, BranchAt
<1>9. PICK j : j = 1
  OBVIOUS
<1>10. at' = <<t, j>> /\ from' = c /\ phase' = "run" /\ result' = result
  BY <1>1, <1>3, <1>7, <1>9 DEF Jump
<1>11. AtOK(blocks, role, t, j, c, regs, mem) /\ registers' = regs /\ memory' = mem
  BY <1>1, <1>4, <1>8, <1>9
<1>12. GeneratedWith(role)'
  BY <1>4, <1>10, <1>11, StaysWith
<1>13. result' \in BOOLEAN \cup {Absent}
  BY <1>10 DEF IInv
<1> QED BY <1>1, <1>10, <1>12, <1>13, StaysInv

LEMMA RetInv ==
  ASSUME IInv, Ret, StaysBuilt PROVE IInv'
<1>1. phase = "run"
  BY DEF Ret, Executes
<1>2. PICK x, n, role, c, k, origin, regs, mem : Running(x, n, role, c, k, origin, regs, mem)
  BY <1>1, RunningHas
<1>3. /\ Instruction = Does(blocks, c, k) /\ InstrOK(x, blocks, role, namedBlocks, c, k)
      /\ ItemOK(x.source[Of(blocks, c, k)])
  BY <1>2, RunningFacts
<1>4. registers = regs /\ memory = mem /\ AtOK(blocks, role, c, k, origin, regs, mem)
  BY <1>2 DEF Running
<1>5. \E value \in BOOLEAN : Finish(value)
  <2>1. CASE Executes("ret") /\ Finish(Operand(Instruction.value))
    <3>1. PICK y : y = Does(blocks, c, k)
      OBVIOUS
    <3>2. PICK item : item = x.source[Of(blocks, c, k)]
      OBVIOUS
    <3>3. y.op = "ret"
      BY <2>1, <1>3, <3>1 DEF Executes
    <3>4. item.op = "return" /\ Knows(blocks, role, c, k, y.value, item.value)
      BY <1>3, <3>1, <3>2, <3>3 DEF InstrOK
    <3>5. item.value \in Expressions
      BY <1>3, <3>2, <3>4, BlocksAssumption DEF ItemOK
    <3>6. Means(y.value, item.value, regs, mem)
      BY <1>4, <3>4, <3>5, KnowsMeans
    <3>7. OperandOf(y.value, regs, mem) \in BOOLEAN
      BY <3>6 DEF Means
    <3>8. Operand(y.value) = OperandOf(y.value, regs, mem)
      BY <1>4 DEF Operand, OperandOf
    <3> QED BY <2>1, <1>3, <3>1, <3>7, <3>8
  <2>2. CASE Executes("unreachable") /\ \E v \in BOOLEAN : Finish(v)
    BY <2>2
  <2> QED BY <2>1, <2>2 DEF Ret
<1>6. phase' = "done" /\ result' \in BOOLEAN
  BY <1>5 DEF Finish
<1> QED BY <1>1, <1>6, StaysInv

LEMMA ExecuteInv ==
  ASSUME IInv, Execute PROVE IInv'
<1>1. StaysBuilt
  BY DEF Execute, StaysBuilt, module
<1> QED BY <1>1, StoreInv, PhiInv, BranchInv, RetInv DEF Execute

LEMMA StutterInv ==
  ASSUME IInv, UNCHANGED vars PROVE IInv'
<1>1. /\ program' = program /\ ifs' = ifs /\ phase' = phase /\ pc' = pc /\ blocks' = blocks /\ insert' = insert
      /\ namedBlocks' = namedBlocks /\ pending' = pending /\ broken' = broken /\ at' = at /\ from' = from
      /\ registers' = registers /\ memory' = memory /\ result' = result
  BY DEF vars, module, running
<1>2. SourceOK' /\ Light' /\ WellLabelled' = WellLabelled /\ (WholeSource => WholeSource' /\ Context' = Context)
  BY <1>1, SourceStays, WholeStays, LabelledStays DEF IInv, Light
<1>3. (Fresh => Fresh') /\ (NotStarted => NotStarted')
  BY <1>1 DEF Fresh, NotStarted
<1>4. WholeSource /\ Generating => Generating'
  BY <1>1, <1>2 DEF Generating
<1>5. WholeSource /\ Generated => Generated'
  <2> SUFFICES ASSUME WholeSource, Generated PROVE Generated'
    OBVIOUS
  <2>1. PICK role : GeneratedWith(role)
    BY DEF Generated
  <2>2. Context' = Context
    BY <1>2
  <2>3. Emittable'
    BY <1>1 DEF Emittable, Generated
  <2>4. GeneratedWith(role)'
    BY <1>1, <2>1, <2>2 DEF GeneratedWith
  <2> QED BY <2>3, <2>4 DEF Generated
<1>6. IInv
  OBVIOUS
<1> QED BY <1>1, <1>2, <1>3, <1>4, <1>5, <1>6 DEF IInv

LEMMA NextInv ==
  ASSUME IInv, [Next]_vars PROVE IInv'
BY ParseInv, CodegenInv, EmitObjectInv, StartInv, ExecuteInv, StutterInv DEF Next, Done

(* Everything that the other theorems rest on holds at every step: the shape *)
(* of the source that the parser lets through, the roles of the blocks while *)
(* the visitor builds them (visitNodeGoto, visitNodeIf, visitLazyBinOperator, *)
(* visitNodeBlockModifier, visitNodeReturn), and what is known of the        *)
(* operands where control is in the code that was emitted.                  *)
THEOREM InvariantHolds == Spec => []IInv
<1>1. Init => IInv
  BY InitInv
<1>2. IInv /\ [Next]_vars => IInv'
  BY NextInv
<1> QED BY <1>1, <1>2, PTL DEF Spec

(* A source whose labels are all different, with every goto in the function *)
(* of its label, is compiled: no block is put into two places and no branch *)
(* leaves its function, however the gotos and labels lie (visitNodeGoto     *)
(* creates the block of a label that is still to come,                      *)
(* visitNodeBlockModifier gives it its function).                           *)
THEOREM WellLabelledSourcesCompile == Spec => []WellLabelledCompiles
<1>1. IInv => WellLabelledCompiles
  BY DEF IInv, WellLabelledCompiles
<1> QED BY <1>1, InvariantHolds, PTL

(* The numbers of blocks that the visitor keeps (the insert block, the       *)
(* blocks of labels and of pending ifs) are those of blocks there are, no   *)
(* if is pending behind the last function, and control stays within the     *)
(* code of the blocks: all that get code end in a terminator (visitNodeIf,  *)
(* visitNodeFunction, visitLazyBinOperator).                                *)
THEOREM TypesAreRight == Spec => []TypeOK
<1>1. ASSUME IInv PROVE TypeOK
  <2>1. LightAt(Len(program), blocks, insert, namedBlocks, pending, broken)
    BY <1>1 DEF IInv, Light
  <2>2. \A b \in DOMAIN blocks : blocks[b].parent \in 0 .. Len(program)
    BY <2>1 DEF LightAt, Par
  <2>3. phase = "run" => at[1] \in DOMAIN blocks /\ at[2] \in DOMAIN blocks[at[1]].code
    <3> SUFFICES ASSUME phase = "run"
                 PROVE  at[1] \in DOMAIN blocks /\ at[2] \in DOMAIN blocks[at[1]].code
      OBVIOUS
    <3>1. PICK x, n, role, c, k, origin, regs, mem : Running(x, n, role, c, k, origin, regs, mem)
      BY <1>1, RunningHas
    <3>2. /\ at[1] = c /\ at[2] = k /\ c \in 1 .. Len(blocks) /\ k \in 1 .. Long(blocks, c)
          /\ blocks \in Seq(Blocks)
      BY <3>1, RunningFacts DEF Running
    <3>3. c \in DOMAIN blocks /\ blocks[c] \in Blocks
      BY <3>2
    <3>4. blocks[c].code \in Seq([item : Nat, does : Instructions])
      BY <3>3 DEF Blocks
    <3> QED BY <3>2, <3>3, <3>4 DEF Long
  <2> QED BY <1>1, <2>1, <2>2, <2>3 DEF IInv, LightAt, TypeOK
<1> QED BY <1>1, InvariantHolds, PTL

-----------------------------------------------------------------------------
(* What is reached from a block *)

More(bs) == bs \cup UNION {Successors(b) : b \in bs}

LEMMA MoreFacts ==
  ASSUME \A b \in DOMAIN blocks : Successors(b) \subseteq DOMAIN blocks, NEW n \in Nat, DOMAIN blocks = 1 .. n,
         NEW bs \in SUBSET DOMAIN blocks
  PROVE  /\ More(bs) \in SUBSET DOMAIN blocks /\ bs \subseteq More(bs)
         /\ Cardinality(DOMAIN blocks \ bs) \in Nat
         /\ More(bs) # bs => Cardinality(DOMAIN blocks \ More(bs)) < Cardinality(DOMAIN blocks \ bs)
<1> DEFINE S == DOMAIN blocks
<1>1. More(bs) \in SUBSET S /\ bs \subseteq More(bs)
  BY DEF More
<1>2. IsFiniteSet(S)
  BY FS_Interval
<1>3. IsFiniteSet(S \ bs) /\ Cardinality(S \ bs) \in Nat
  BY <1>2, FS_Subset, FS_CardinalityType
<1>4. ASSUME More(bs) # bs PROVE Cardinality(S \ More(bs)) < Cardinality(S \ bs)
  <2>1. S \ More(bs) \in SUBSET (S \ bs) /\ S \ More(bs) # S \ bs
    BY <1>1, <1>4
  <2>2. IsFiniteSet(S \ More(bs)) /\ Cardinality(S \ More(bs)) \in Nat
    BY <1>2, FS_Subset, FS_CardinalityType
  <2>3. Cardinality(S \ More(bs)) <= Cardinality(S \ bs) /\ Cardinality(S \ More(bs)) # Cardinality(S \ bs)
    BY <1>3, <2>1, FS_Subset
  <2> QED BY <1>3, <2>2, <2>3
<1> QED BY <1>1, <1>3, <1>4

LEMMA ReachedUnfold ==
  ASSUME \A b \in DOMAIN blocks : Successors(b) \subseteq DOMAIN blocks, NEW n \in Nat, DOMAIN blocks = 1 .. n
  PROVE  \E r : /\ \A bs : Reached(bs) = r[bs]
                /\ \A bs \in SUBSET DOMAIN blocks : r[bs] = IF More(bs) = bs THEN bs ELSE r[More(bs)]
<1> DEFINE S == SUBSET DOMAIN blocks
           value(f, bs) == IF More(bs) = bs THEN bs ELSE f[More(bs)]
           step(f) == [bs \in S |-> value(f, bs)]
           F == [f \in [S -> S] |-> step(f)]
           height == [bs \in S |-> Cardinality(DOMAIN blocks \ bs)]
           reached == CHOOSE f : f = step(f)
<1>1. \A bs \in S : /\ More(bs) \in S /\ height[bs] \in Nat
                    /\ More(bs) # bs => height[More(bs)] < height[bs]
  <2> SUFFICES ASSUME NEW bs \in S PROVE More(bs) \in S /\ height[bs] \in Nat
                                         /\ (More(bs) # bs => height[More(bs)] < height[bs])
    OBVIOUS
  <2>1. /\ More(bs) \in SUBSET DOMAIN blocks
        /\ Cardinality(DOMAIN blocks \ bs) \in Nat
        /\ More(bs) # bs => Cardinality(DOMAIN blocks \ More(bs)) < Cardinality(DOMAIN blocks \ bs)
    BY MoreFacts
  <2> QED BY <2>1
<1>2. height \in [S -> Nat]
  <2> HIDE DEF S
  <2>1. height = [bs \in S |-> height[bs]]
    OBVIOUS
  <2> HIDE DEF height
  <2> QED BY <1>1, <2>1
<1>3. ASSUME NEW f \in [S -> S] PROVE step(f) \in [S -> S] /\ F[f] = step(f)
  <2>1. \A bs \in S : value(f, bs) \in S
    <3> HIDE DEF S
    <3> QED BY <1>1
  <2> HIDE DEF value, S
  <2> QED BY <2>1
<1>4. Recursive(S, S, height, F)
  <2>1. F \in [[S -> S] -> [S -> S]]
    <3> HIDE DEF step, S
    <3> QED BY <1>3
  <2>2. ASSUME NEW f \in [S -> S], NEW g \in [S -> S], NEW bs \in S,
               \A y \in S : height[y] < height[bs] => f[y] = g[y]
        PROVE  F[f][bs] = F[g][bs]
    <3>1. value(f, bs) = value(g, bs)
      <4> HIDE DEF S, height
      <4> QED BY <1>1, <2>2
    <3>2. F[f] = step(f) /\ F[g] = step(g)
      <4> HIDE DEF step, S
      <4> QED BY <1>3
    <3>3. step(f)[bs] = value(f, bs) /\ step(g)[bs] = value(g, bs)
      <4> HIDE DEF value
      <4> QED OBVIOUS
    <3> HIDE DEF F, S, step, value
    <3> QED BY <3>1, <3>2, <3>3
  <2> HIDE DEF F, S, height
  <2> QED BY <2>1, <2>2 DEF Recursive
<1>5. PICK f \in [S -> S] : f = F[f]
  <2>1. {} \in S
    OBVIOUS
  <2> HIDE DEF F, S, height
  <2> QED BY <2>1, <1>2, <1>4, RecursiveFunctionExists
<1>6. f = step(f)
  <2> HIDE DEF F, S, step
  <2> QED BY <1>5, <1>3
<1>7. reached = step(reached)
  <2> HIDE DEF step
  <2> QED BY <1>6
<1>8. \A bs : Reached(bs) = reached[bs]
  BY Zenon DEF Reached, More
<1>9. \A bs \in S : reached[bs] = value(reached, bs)
  <2> HIDE DEF reached
  <2>1. \A bs \in S : step(reached)[bs] = value(reached, bs)
    <3> HIDE DEF value
    <3> QED OBVIOUS
  <2> HIDE DEF value, step
  <2> QED BY <1>7, <2>1
<1> HIDE DEF reached
<1> QED BY <1>8, <1>9

LEMMA ReachedClosed ==
  ASSUME \A b \in DOMAIN blocks : Successors(b) \subseteq DOMAIN blocks, NEW n \in Nat, DOMAIN blocks = 1 .. n
  PROVE  \A bs \in SUBSET DOMAIN blocks :
           bs \subseteq Reached(bs) /\ \A b \in Reached(bs) : Successors(b) \subseteq Reached(bs)
<1> DEFINE S == SUBSET DOMAIN blocks
           height == [bs \in S |-> Cardinality(DOMAIN blocks \ bs)]
           closed(bs, R) == bs \subseteq R /\ \A b \in R : Successors(b) \subseteq R
           T == {bs \in S : closed(bs, Reached(bs))}
<1>1. PICK r : /\ \A bs : Reached(bs) = r[bs]
               /\ \A bs \in S : r[bs] = IF More(bs) = bs THEN bs ELSE r[More(bs)]
  BY ReachedUnfold
<1>2. \A bs \in S : /\ More(bs) \in S /\ height[bs] \in Nat /\ bs \subseteq More(bs)
                    /\ More(bs) # bs => height[More(bs)] < height[bs]
  <2> SUFFICES ASSUME NEW bs \in S PROVE More(bs) \in S /\ height[bs] \in Nat /\ bs \subseteq More(bs)
                                         /\ (More(bs) # bs => height[More(bs)] < height[bs])
    OBVIOUS
  <2>1. /\ More(bs) \in SUBSET DOMAIN blocks /\ bs \subseteq More(bs)
        /\ Cardinality(DOMAIN blocks \ bs) \in Nat
        /\ More(bs) # bs => Cardinality(DOMAIN blocks \ More(bs)) < Cardinality(DOMAIN blocks \ bs)
    BY MoreFacts
  <2> QED BY <2>1
<1>3. height \in [S -> Nat]
  <2> HIDE DEF S
  <2>1. height = [bs \in S |-> height[bs]]
    OBVIOUS
  <2> HIDE DEF height
  <2> QED BY <1>2, <2>1
<1>4. ASSUME NEW bs \in S, \A y \in S : height[y] < height[bs] => y \in T PROVE bs \in T
  <2>1. CASE More(bs) = bs
    <3>1. Reached(bs) = bs
      <4> HIDE DEF S
      <4> QED BY <1>1, <2>1
    <3>2. \A b \in bs : Successors(b) \subseteq bs
      BY <2>1 DEF More
    <3> HIDE DEF S
    <3> QED BY <3>1, <3>2
  <2>2. CASE More(bs) # bs
    <3>1. Reached(bs) = Reached(More(bs))
      <4> HIDE DEF S
      <4> QED BY <1>1, <2>2
    <3>2. More(bs) \in T
      <4> HIDE DEF S, T, height
      <4> QED BY <1>2, <1>4, <2>2
    <3>3. closed(More(bs), Reached(More(bs)))
      <4> HIDE DEF closed, S
      <4> QED BY <3>2
    <3>4. bs \subseteq More(bs)
      <4> HIDE DEF S
      <4> QED BY <1>2
    <3>5. closed(bs, Reached(bs))
      <4> HIDE DEF S
      <4> QED BY <3>1, <3>3, <3>4
    <3> HIDE DEF closed, S
    <3> QED BY <3>5
  <2> QED BY <2>1, <2>2
<1>5. S \subseteq T
  <2> HIDE DEF S, T, height
  <2> QED BY <1>3, <1>4, HeightInduction
<1> QED BY <1>5

LEMMA SuccessorsAre ==
  ASSUME NEW x, NEW n, NEW role, Finished(x, n, role)
  PROVE  \A c \in 1 .. Len(blocks) : Successors(c) = Ends(blocks, c) /\ Successors(c) \subseteq 1 .. Len(blocks)
<1>1. blocks \in Seq(Blocks)
  BY DoneFacts
<1> SUFFICES ASSUME NEW c \in 1 .. Len(blocks)
             PROVE  Successors(c) = Ends(blocks, c) /\ Successors(c) \subseteq 1 .. Len(blocks)
  OBVIOUS
<1>2. Long(blocks, c) \in Nat /\ (blocks[c].code = <<>> <=> Long(blocks, c) = 0)
  BY <1>1, BlocksFacts
<1>3. CASE Long(blocks, c) = 0
  BY <1>2, <1>3 DEF Successors, Ends
<1>4. CASE Long(blocks, c) # 0
  <2>1. Long(blocks, c) \in 1 .. Long(blocks, c)
    BY <1>2, <1>4
  <2>2. Targets(Does(blocks, c, Long(blocks, c))) \subseteq 1 .. Len(blocks)
    BY <2>1, DoneInstr
  <2>3. Successors(c) = Targets(Does(blocks, c, Long(blocks, c)))
    BY <1>2, <1>4 DEF Successors, Does, Long
  <2> QED BY <1>4, <2>2, <2>3 DEF Ends
<1> QED BY <1>3, <1>4

(* The first block of the function of block c.                              *)
LEMMA EntryIs ==
  ASSUME NEW x, NEW n, NEW role, Finished(x, n, role), Emittable,
         NEW c \in 1 .. Len(blocks), Par(blocks, c) # 0, NEW f, f = Par(blocks, c)
  PROVE  Entry(c) \in 1 .. Len(blocks) /\ EntryOK(x, blocks, role, 0, f, Entry(c))
<1>1. Core(x, blocks, role, 0, {}, n, namedBlocks) /\ blocks \in Seq(Blocks) /\ x.source = program
  BY DoneFacts
<1>2. f \in 1 .. n /\ x.source[f].op = "function"
  <2>1. BlockOK(x, blocks, role, 0, n, c)
    BY <1>1 DEF Core
  <2> QED BY <2>1 DEF BlockOK
<1>3. PICK e \in 1 .. Len(blocks) : EntryOK(x, blocks, role, 0, f, e)
  BY <1>1, <1>2 DEF Core
<1>4. ~Cross(blocks)
  BY <1>1, EmittableNoCross
<1>5. Par(blocks, e) = f /\ \A d \in 1 .. Len(blocks) : Par(blocks, d) = f => e <= d
  BY <1>3, <1>4 DEF EntryOK
<1>6. DOMAIN blocks = 1 .. Len(blocks)
  BY <1>1, BlocksFacts
<1> DEFINE First1(e0) ==
      blocks[e0].parent = blocks[c].parent /\ \A d \in DOMAIN blocks : blocks[d].parent = blocks[c].parent => e0 <= d
<1>7. First1(e)
  BY <1>5, <1>6 DEF Par
<1>8. Entry(c) = CHOOSE e0 \in DOMAIN blocks : First1(e0)
  BY DEF Entry
<1>9. Entry(c) \in DOMAIN blocks /\ First1(Entry(c))
  <2>1. e \in DOMAIN blocks
    BY <1>6
  <2> HIDE DEF First1
  <2> QED BY <1>7, <1>8, <2>1
<1>10. Entry(c) \in 1 .. Len(blocks) /\ Par(blocks, Entry(c)) = f
       /\ \A d \in 1 .. Len(blocks) : Par(blocks, d) = f => Entry(c) <= d
  BY <1>6, <1>9 DEF Par
<1>11. program[f].op = "function"
  BY <1>1, <1>2
<1> QED BY <1>2, <1>10, <1>11, FirstIsEntry

(* The block that runs is reached from the entry of its function.           *)
LEMMA RunningKept ==
  ASSUME IInv, phase = "run" PROVE at[1] \in Reached({Entry(at[1])})
<1>1. PICK x, n, role, c, k, origin, regs, mem : Running(x, n, role, c, k, origin, regs, mem)
  BY RunningHas
<1>2. Finished(x, n, role) /\ c \in 1 .. Len(blocks) /\ Par(blocks, c) # 0 /\ at[1] = c
  BY <1>1, RunningFacts
<1>3. Emittable /\ blocks \in Seq(Blocks)
  BY <1>1 DEF Running
<1>4. PICK f : f = Par(blocks, c)
  OBVIOUS
<1>5. PICK e : e = Entry(c)
  OBVIOUS
<1>6. e \in 1 .. Len(blocks) /\ EntryOK(x, blocks, role, 0, f, e)
  BY <1>2, <1>3, <1>4, <1>5, EntryIs
<1>7. DOMAIN blocks = 1 .. Len(blocks) /\ Len(blocks) \in Nat
  BY <1>3, BlocksFacts
<1>8. \A d \in DOMAIN blocks : Successors(d) \subseteq DOMAIN blocks
  BY <1>2, <1>7, SuccessorsAre
<1>9. {e} \in SUBSET DOMAIN blocks
  BY <1>6, <1>7
<1>10. PICK R : R = Reached({e})
  OBVIOUS
<1>11. {e} \subseteq R /\ \A b \in R : Successors(b) \subseteq R
  BY <1>7, <1>8, <1>9, <1>10, ReachedClosed
<1>12. ClosedFrom(blocks, 0, f, e, R)
  BY <1>2, <1>11, SuccessorsAre DEF ClosedFrom
<1>13. c \in R
  BY <1>2, <1>4, <1>6, <1>12 DEF EntryOK
<1> QED BY <1>2, <1>5, <1>10, <1>13

(* The block that is executed is always one that LLVM keeps when it follows *)
(* only the last instruction of each block from the entry of the function,  *)
(* although the visitor goes on inserting behind a terminator               *)
(* (visitNodeGoto, visitNodeReturn).                                        *)
THEOREM ExecutedBlocksStay == Spec => []ExecutedBlocksKept
<1>1. IInv => ExecutedBlocksKept
  BY RunningKept DEF ExecutedBlocksKept
<1> QED BY <1>1, InvariantHolds, PTL

-----------------------------------------------------------------------------
(* What the source means: the definitions of ControlFlow are those here *)

LEMMA MeaningOpened == \A k : Meaning!Opened(k) = Opened(k)
BY Zenon DEF Meaning!Opened, Opened, Meaning!Count, Count, Meaning!Cardinality, Cardinality

LEMMA MeaningClosing == \A i : Meaning!Closing(i) = Closing(i)
BY Zenon, MeaningOpened DEF Meaning!Closing, Closing

LEMMA MeaningElses == \A i : Meaning!Elses(i) = Elses(i)
BY Zenon, MeaningOpened, MeaningClosing DEF Meaning!Elses, Elses

LEMMA MeaningSettle == Meaning!Settle = Settle
BY Zenon, MeaningClosing DEF Meaning!Settle, Settle

LEMMA MeaningLabelled == \A l, i : Meaning!Labelled(l, i) = Labelled(l, i)
BY Zenon DEF Meaning!Labelled, Labelled, Meaning!Function, Function

(* The value of an expression, given those of the others.                   *)
Value(e, val, mem) ==
  CASE e.op = "variable" -> mem[e.name]
    [] e.op = "and"      -> val[e.left] /\ val[e.right]
    [] OTHER             -> val[e.left] \/ val[e.right]

LEMMA ValueFacts ==
  ASSUME NEW mem \in [Variables -> BOOLEAN], NEW val, NEW e \in Expressions
  PROVE  /\ Value(e, val, mem) \in BOOLEAN
         /\ e.op = "variable" => Value(e, val, mem) = mem[e.name]
         /\ e.op = "and" => Value(e, val, mem) = (val[e.left] /\ val[e.right])
         /\ e.op = "or" => Value(e, val, mem) = (val[e.left] \/ val[e.right])
<1>1. \/ e.op = "variable" /\ e.name \in Variables
      \/ e.op \in {"and", "or"} /\ e.left \in Expressions /\ e.right \in Expressions
  BY BlocksAssumption
<1>2. CASE e.op = "variable"
  <2>1. Value(e, val, mem) = mem[e.name] /\ e.op # "and" /\ e.op # "or"
    BY <1>2 DEF Value
  <2>2. mem[e.name] \in BOOLEAN
    BY <1>1, <1>2
  <2> QED BY <1>2, <2>1, <2>2
<1>3. CASE e.op = "and"
  <2>1. e.op # "variable" /\ e.op # "or"
    BY <1>3
  <2>2. Value(e, val, mem) = (val[e.left] /\ val[e.right])
    BY Zenon, <1>3, <2>1 DEF Value
  <2>3. (val[e.left] /\ val[e.right]) \in BOOLEAN
    OBVIOUS
  <2> QED BY Zenon, <2>1, <2>2, <2>3
<1>4. CASE e.op = "or"
  <2>1. e.op # "variable" /\ e.op # "and"
    BY <1>4
  <2>2. Value(e, val, mem) = (val[e.left] \/ val[e.right])
    BY Zenon, <1>4, <2>1 DEF Value
  <2>3. (val[e.left] \/ val[e.right]) \in BOOLEAN
    OBVIOUS
  <2> QED BY Zenon, <2>1, <2>2, <2>3
<1> QED BY Zenon, <1>1, <1>2, <1>3, <1>4

(* Values that are those of the subexpressions exist, and Eval has them.    *)
LEMMA MeaningValued ==
  ASSUME memory \in [Variables -> BOOLEAN]
  PROVE  \E val : Valued(val, memory) /\ \A e : Meaning!Eval(e) = val[e]
<1> DEFINE S == Expressions
           step(f) == [e \in S |-> Value(e, f, memory)]
           F == [f \in [S -> BOOLEAN] |-> step(f)]
           eval == CHOOSE f : f = step(f)
<1>1. ASSUME NEW f \in [S -> BOOLEAN] PROVE step(f) \in [S -> BOOLEAN] /\ F[f] = step(f)
  <2>1. \A e \in S : Value(e, f, memory) \in BOOLEAN
    BY ValueFacts
  <2> QED BY <2>1
<1>2. Recursive(S, BOOLEAN, Tall, F)
  <2>1. F \in [[S -> BOOLEAN] -> [S -> BOOLEAN]]
    <3> HIDE DEF step, S
    <3> QED BY <1>1
  <2>2. ASSUME NEW f \in [S -> BOOLEAN], NEW g \in [S -> BOOLEAN], NEW e \in S,
               \A y \in S : Tall[y] < Tall[e] => f[y] = g[y]
        PROVE  F[f][e] = F[g][e]
    <3>1. e.op = "variable" \/ (e.op \in {"and", "or"} /\ f[e.left] = g[e.left] /\ f[e.right] = g[e.right])
      BY <2>2, ExpressionFacts
    <3>2. Value(e, f, memory) = Value(e, g, memory)
      <4>1. CASE e.op = "variable"
        BY Zenon, <4>1, ValueFacts
      <4>2. CASE e.op = "and"
        BY Zenon, <3>1, <4>2, ValueFacts
      <4>3. CASE e.op = "or"
        <5>1. f[e.left] = g[e.left] /\ f[e.right] = g[e.right]
          BY <3>1, <4>3
        <5>2. Value(e, f, memory) = (f[e.left] \/ f[e.right]) /\ Value(e, g, memory) = (g[e.left] \/ g[e.right])
          BY Zenon, <4>3, ValueFacts
        <5> QED BY <5>1, <5>2
      <4> QED BY <3>1, <4>1, <4>2, <4>3
    <3>3. F[f] = step(f) /\ F[g] = step(g)
      BY <1>1
    <3>4. step(f)[e] = Value(e, f, memory) /\ step(g)[e] = Value(e, g, memory)
      OBVIOUS
    <3> HIDE DEF F, S, step
    <3> QED BY <3>2, <3>3, <3>4
  <2> HIDE DEF F, S
  <2> QED BY <2>1, <2>2 DEF Recursive
<1>3. PICK f \in [S -> BOOLEAN] : f = F[f]
  <2>1. Tall \in [S -> Nat]
    BY ExpressionFacts
  <2>2. PICK V : V = BOOLEAN
    OBVIOUS
  <2>3. PICK v \in V : TRUE
    BY <2>2
  <2>4. Recursive(S, V, Tall, F)
    <3> HIDE DEF F, S
    <3> QED BY <1>2, <2>2
  <2>5. \E f \in [S -> V] : f = F[f]
    <3> HIDE DEF F, S
    <3> QED BY <2>1, <2>3, <2>4, RecursiveFunctionExists
  <2> HIDE DEF F, S
  <2> QED BY <2>2, <2>5
<1>4. f = step(f)
  <2> HIDE DEF F, S, step
  <2> QED BY <1>3, <1>1
<1>5. eval = step(eval)
  <2> HIDE DEF step
  <2> QED BY <1>4
<1>6. \A e : Meaning!Eval(e) = eval[e]
  BY Zenon DEF Meaning!Eval, Value
<1> HIDE DEF eval
<1>7. eval \in [S -> BOOLEAN]
  <2>1. \A e \in S : Value(e, eval, memory) \in BOOLEAN
    BY ValueFacts
  <2>2. step(eval) \in [S -> BOOLEAN]
    <3> HIDE DEF Value
    <3> QED BY <2>1
  <2> HIDE DEF step
  <2> QED BY <1>5, <2>2
<1>8. \A e \in S : eval[e] = Value(e, eval, memory)
  <2>1. \A e \in S : step(eval)[e] = Value(e, eval, memory)
    OBVIOUS
  <2> HIDE DEF step
  <2> QED BY <1>5, <2>1
<1>9. ASSUME NEW e \in S
      PROVE  /\ e.op = "variable" => eval[e] = memory[e.name]
             /\ e.op = "and" => eval[e] = (eval[e.left] /\ eval[e.right])
             /\ e.op = "or" => eval[e] = (eval[e.left] \/ eval[e.right])
  <2>1. eval[e] = Value(e, eval, memory)
    BY <1>8
  <2> QED BY Zenon, <2>1, ValueFacts
<1>10. Valued(eval, memory)
  BY Zenon, <1>7, <1>9 DEF Valued
<1> HIDE DEF eval
<1> QED BY <1>6, <1>10

-----------------------------------------------------------------------------
(* Every step is one of the source, or none *)

(* The state of ControlFlow.                                                *)
meant == <<program, Position, memory, result>>

LEMMA MeaningInit ==
  ASSUME Init PROVE Meaning!Init
<1>1. Position = 0
  BY DEF Init, Position
<1> QED BY <1>1 DEF Init, Meaning!Init, Meaning!Nowhere

(* Reading writes the source.                                               *)
LEMMA ReadsWrites ==
  ASSUME NEW item, NEW ifs1, NEW closers, IInv, Reads(item, ifs1, closers)
  PROVE  Meaning!Write
<1>1. phase = "parse" /\ program' = Append(program, item) /\ phase' = phase /\ memory' = memory /\ result' = result
  BY DEF Reads, running
<1>2. Sequence(program) /\ result = Absent
  BY <1>1 DEF IInv, SourceOK, NotStarted
<1>3. Len(program) \in Nat /\ Len(program') = Len(program) + 1
  BY <1>1, <1>2, SequenceAppend, SequenceFacts
<1>4. program' # program
  BY <1>3
<1>5. Position = 0 /\ Position' = 0
  BY <1>1 DEF Position
<1> QED BY <1>1, <1>2, <1>4, <1>5 DEF Meaning!Write, Meaning!Nowhere

(* What leaves the source alone and does not run.                           *)
LEMMA AsideSteps ==
  ASSUME phase # "run", phase' # "run", program' = program, memory' = memory, result' = result
  PROVE  UNCHANGED meant
<1>1. Position = 0 /\ Position' = 0
  BY DEF Position
<1> QED BY <1>1 DEF meant

LEMMA ParseSteps ==
  ASSUME IInv, Parse PROVE Meaning!Write \/ UNCHANGED meant
<1>1. ASSUME EndOfSource PROVE UNCHANGED meant
  <2>1. phase # "run" /\ phase' # "run" /\ program' = program /\ memory' = memory /\ result' = result
    BY <1>1 DEF EndOfSource, running
  <2> QED BY <2>1, AsideSteps
<1>2. ASSUME ~EndOfSource PROVE \E item, ifs1, closers : Reads(item, ifs1, closers)
  BY <1>2 DEF Parse, ParseFunction, ParseStatement, ParseElse, ParseFi, ParseEnd
<1> QED BY <1>1, <1>2, ReadsWrites

LEMMA LeavesSteps ==
  ASSUME NEW b, NEW named, phase = "codegen", Leaves(b, named)
  PROVE  UNCHANGED meant
<1>1. phase' # "run" /\ program' = program /\ memory' = memory /\ result' = result
  BY DEF Leaves, running
<1> QED BY <1>1, AsideSteps

LEMMA CodegenSteps ==
  ASSUME Codegen \/ EmitObject PROVE UNCHANGED meant
<1>1. ASSUME EmitObject PROVE UNCHANGED meant
  <2>1. phase # "run" /\ phase' # "run" /\ program' = program /\ memory' = memory /\ result' = result
    BY <1>1 DEF EmitObject, running
  <2> QED BY <2>1, AsideSteps
<1>2. ASSUME Codegen PROVE phase = "codegen" /\ \E b, named : Leaves(b, named)
  <2>1. CASE VisitFunction
    BY <2>1 DEF VisitFunction, Visits
  <2>2. CASE VisitEnd
    BY <2>2 DEF VisitEnd, Visits
  <2>3. CASE VisitAssign
    BY <2>3 DEF VisitAssign, Visits
  <2>4. CASE VisitReturn
    BY <2>4 DEF VisitReturn, Visits
  <2>5. CASE VisitGoto
    BY <2>5 DEF VisitGoto, Visits
  <2>6. CASE VisitIf
    BY <2>6 DEF VisitIf, Visits
  <2>7. CASE VisitElse
    BY <2>7 DEF VisitElse, Visits
  <2>8. CASE VisitFi
    BY <2>8 DEF VisitFi, Visits
  <2> QED BY <1>2, <2>1, <2>2, <2>3, <2>4, <2>5, <2>6, <2>7, <2>8 DEF Codegen
<1> QED BY <1>1, <1>2, LeavesSteps

LEMMA FinishedSettle ==
  ASSUME NEW x, NEW n, NEW role, Finished(x, n, role)
  PROVE  x.settle = Settle /\ \A i \in 1 .. n : x.other[i] = Other(i) /\ x.within[i] = Function(i)
BY DEF Finished, Context

(* Where control is in front of instruction k of block c.                   *)
LEMMA PositionThen ==
  ASSUME NEW c, NEW k, phase' = "run", blocks' = blocks, at' = <<c, k>>
  PROVE  Position' = Of(blocks, c, k)
BY DEF Position, Of

LEMMA PositionNow ==
  ASSUME NEW x, NEW n, NEW role, NEW c, NEW k, NEW origin, NEW regs, NEW mem, NEW p,
         Running(x, n, role, c, k, origin, regs, mem), phase = "run", p = Of(blocks, c, k)
  PROVE  Position = p /\ p # 0 /\ p \in 1 .. n /\ x.source = program /\ ItemOK(program[p])
<1>1. at[1] = c /\ at[2] = k /\ p \in 1 .. n /\ x.source = program /\ ItemOK(program[p])
  BY RunningFacts
<1>2. Position = p
  BY <1>1 DEF Position, Of
<1> QED BY <1>1, <1>2

(* A block begins with the item that it leads to.                           *)
LEMMA GoalFirst ==
  ASSUME NEW x, NEW n, NEW role, Finished(x, n, role), NEW t \in 1 .. Len(blocks), Par(blocks, t) # 0
  PROVE  Of(blocks, t, 1) = role[t].goal
<1>1. 1 \in 1 .. Long(blocks, t) /\ Long(blocks, t) # 0
  BY BlockRuns
<1>2. BlockOK(x, blocks, role, 0, n, t)
  BY <1>1, DoneInstr
<1> QED BY <1>1, <1>2 DEF BlockOK

(* A function is called.                                                    *)
LEMMA StartCalls ==
  ASSUME IInv, Start PROVE Meaning!Call
<1>1. phase = "emit" /\ phase' = "run" /\ memory' \in [Variables -> BOOLEAN]
  BY DEF Start
<1>2. program' = program /\ result' = result /\ blocks' = blocks
  BY DEF Start, module
<1>3. PICK f \in DOMAIN program :
       /\ program[f].op = "function"
       /\ \E b \in DOMAIN blocks :
            /\ blocks[b].parent = f
            /\ \A c \in DOMAIN blocks : blocks[c].parent = f => b <= c
            /\ at' = <<b, 1>>
  BY DEF Start
<1>4. PICK b \in DOMAIN blocks :
            /\ blocks[b].parent = f
            /\ \A c \in DOMAIN blocks : blocks[c].parent = f => b <= c
            /\ at' = <<b, 1>>
  BY <1>3
<1>5. PICK x, n, role : Finished(x, n, role) /\ GeneratedWith(role)
  BY <1>1, GeneratedHas
<1>6. WholeSource /\ Emittable /\ blocks \in Seq(Blocks) /\ NotStarted /\ n = Len(program)
  BY <1>1, <1>5, GeneratedHas DEF IInv, Finished
<1>7. f \in 1 .. n /\ f # 0
  <2>1. DOMAIN x.source = 1 .. n /\ x.source = program
    BY <1>5, DoneFacts
  <2> QED BY <2>1
<1>8. b \in 1 .. Len(blocks) /\ Par(blocks, b) = f
      /\ \A c \in 1 .. Len(blocks) : Par(blocks, c) = f => b <= c
  BY <1>4, <1>6, BlocksFacts DEF Par
<1>9. EntryOK(x, blocks, role, 0, f, b)
  BY <1>3, <1>5, <1>6, <1>7, <1>8, FirstIsEntry
<1>10. Position' = Settle[f + 1]
  <2>1. Position' = Of(blocks, b, 1)
    <3>1. PICK j : j = 1
      OBVIOUS
    <3>2. Position' = Of(blocks, b, j)
      BY <1>1, <1>2, <1>4, <3>1, PositionThen
    <3> QED BY <3>1, <3>2
  <2>2. Of(blocks, b, 1) = role[b].goal
    BY <1>5, <1>7, <1>8, GoalFirst
  <2>3. role[b].goal = x.settle[f + 1]
    BY <1>9 DEF EntryOK
  <2> QED BY <2>1, <2>2, <2>3, <1>5, FinishedSettle
<1>11. Position = 0 /\ result = Absent
  BY <1>1, <1>6 DEF Position, NotStarted
<1>12. program # <<>> /\ program[n].op = "end"
  BY <1>6, WholeFacts DEF WholeSource
<1>13. \E g \in 1 .. Len(program) : program[g].op = "function" /\ Position' = Meaning!Settle[g + 1]
  BY <1>3, <1>6, <1>7, <1>10, MeaningSettle
<1> QED BY <1>1, <1>2, <1>6, <1>11, <1>12, <1>13 DEF Meaning!Call, Meaning!Nowhere

(* A value is assigned.                                                     *)
LEMMA StoreAssigns ==
  ASSUME IInv, Store, StaysBuilt
  PROVE  \E i \in {Position} \ {0} : Meaning!Assign(i)
<1>1. phase = "run" /\ Instruction.op = "store" /\ at' = <<at[1], at[2] + 1>> /\ phase' = phase
      /\ result' = result /\ memory' = [memory EXCEPT ![Instruction.name] = Instruction.value]
  BY DEF Store, Executes, NextInstruction
<1>2. program' = program /\ blocks' = blocks
  BY DEF StaysBuilt
<1>3. PICK x, n, role, c, k, origin, regs, mem : Running(x, n, role, c, k, origin, regs, mem)
  BY <1>1, RunningHas
<1>4. PICK y : y = Does(blocks, c, k)
  OBVIOUS
<1>5. PICK i : i = Of(blocks, c, k)
  OBVIOUS
<1>6. /\ Finished(x, n, role) /\ Instruction = y /\ at[1] = c /\ at[2] = k /\ InstrOK(x, blocks, role, namedBlocks, c, k)
      /\ c \in 1 .. Len(blocks)
  BY <1>3, <1>4, RunningFacts
<1>7. Position = i /\ i # 0 /\ x.source = program
  BY <1>1, <1>3, <1>5, PositionNow
<1>8. PICK item : item = program[i]
  OBVIOUS
<1>9. y.op = "store"
  BY <1>1, <1>6
<1>10. item.op = "assign" /\ y.name = item.name /\ y.value = item.value
  BY <1>4, <1>5, <1>6, <1>7, <1>8, <1>9 DEF InstrOK
<1>11. k \in 1 .. Long(blocks, c) - 1 /\ k \in 1 .. Long(blocks, c)
  <2>1. Does(blocks, c, k).op \notin Terminators
    BY <1>4, <1>9 DEF Terminators
  <2>2. k \in 1 .. Long(blocks, c) - 1
    BY <1>3, <2>1, NextRuns
  <2>3. k \in 1 .. Long(blocks, c)
    BY <1>3, RunningFacts
  <2> QED BY <2>2, <2>3
<1>12. Of(blocks, c, k + 1) = x.settle[i + 1]
  <2>1. FlowOK(x, blocks, c, k)
    BY <1>6, <1>11, DoneInstr
  <2> QED BY <2>1, <1>4, <1>5, <1>9 DEF FlowOK
<1>13. Position' = Settle[i + 1]
  <2>1. PICK j : j = k + 1
    OBVIOUS
  <2>2. Position' = Of(blocks, c, j)
    BY <1>1, <1>2, <1>6, <2>1, PositionThen
  <2> QED BY <2>1, <2>2, <1>6, <1>12, FinishedSettle
<1>14. memory' = [memory EXCEPT ![program[i].name] = program[i].value]
  BY <1>1, <1>6, <1>8, <1>10
<1>15. Meaning!GoTo(i + 1)
  BY <1>1, <1>2, <1>13, MeaningSettle DEF Meaning!GoTo
<1>16. Meaning!Assign(i)
  BY <1>8, <1>10, <1>14, <1>15 DEF Meaning!Assign
<1> QED BY <1>7, <1>16

(* The value of an operator is noted.                                       *)
LEMMA PhiSteps ==
  ASSUME IInv, Phi, StaysBuilt
  PROVE  UNCHANGED meant
<1>1. phase = "run" /\ Instruction.op = "phi" /\ at' = <<at[1], at[2] + 1>> /\ phase' = phase
      /\ result' = result /\ memory' = memory
  BY DEF Phi, Executes, NextInstruction
<1>2. program' = program /\ blocks' = blocks
  BY DEF StaysBuilt
<1>3. PICK x, n, role, c, k, origin, regs, mem : Running(x, n, role, c, k, origin, regs, mem)
  BY <1>1, RunningHas
<1>4. PICK y : y = Does(blocks, c, k)
  OBVIOUS
<1>5. PICK i : i = Of(blocks, c, k)
  OBVIOUS
<1>6. Finished(x, n, role) /\ Instruction = y /\ at[1] = c /\ at[2] = k /\ c \in 1 .. Len(blocks)
  BY <1>3, <1>4, RunningFacts
<1>7. Position = i
  BY <1>1, <1>3, <1>5, PositionNow
<1>8. y.op = "phi"
  BY <1>1, <1>6
<1>9. k \in 1 .. Long(blocks, c) - 1 /\ k \in 1 .. Long(blocks, c)
  <2>1. Does(blocks, c, k).op \notin Terminators
    BY <1>4, <1>8 DEF Terminators
  <2>2. k \in 1 .. Long(blocks, c) - 1
    BY <1>3, <2>1, NextRuns
  <2>3. k \in 1 .. Long(blocks, c)
    BY <1>3, RunningFacts
  <2> QED BY <2>2, <2>3
<1>10. Of(blocks, c, k + 1) = i
  <2>1. FlowOK(x, blocks, c, k)
    BY <1>6, <1>9, DoneInstr
  <2> QED BY <2>1, <1>4, <1>5, <1>8 DEF FlowOK
<1>11. Position' = i
  <2>1. PICK j : j = k + 1
    OBVIOUS
  <2>2. Position' = Of(blocks, c, j)
    BY <1>1, <1>2, <1>6, <2>1, PositionThen
  <2> QED BY <2>1, <2>2, <1>10
<1> QED BY <1>1, <1>2, <1>7, <1>11 DEF meant

(* Control goes from p to the block t, of which the first item is j.        *)
Moved(p, t, j) ==
  /\ Position = p /\ p # 0 /\ Position' = j /\ t \in 1 .. Len(blocks)
  /\ program' = program /\ memory' = memory /\ result' = result

(* A branch to a block that leads to the item it comes from.                *)
LEMMA StaysThere ==
  ASSUME NEW p, NEW t, Moved(p, t, p) PROVE UNCHANGED meant
BY DEF Moved, meant

LEMMA LabelMeans ==
  ASSUME NEW x, NEW n, NEW role, Finished(x, n, role), NEW p \in 1 .. n, program[p].op = "goto",
         NEW t \in 1 .. Len(blocks), Par(blocks, t) # 0, NEW l \in Labels, l = program[p].to, t = namedBlocks[l],
         x.within[p] = Par(blocks, t)
  PROVE  role[t].goal \in Labelled(l, p) /\ Settle[role[t].goal] = role[t].goal
<1>1. NamedOK(x, blocks, role, {}, n, namedBlocks) /\ x.source = program /\ n = Len(program) /\ WholeSource
  BY DoneFacts DEF Finished
<1>2. LabelOK(x, blocks, role, {}, n, t, l)
  <2>1. t # 0
    BY <1>1, DoneFacts, BlocksFacts
  <2> QED BY <1>1, <2>1 DEF NamedOK
<1>3. PICK j \in 1 .. n : x.source[j].label = l /\ role[t].goal = j /\ x.within[j] = Par(blocks, t)
  BY <1>2 DEF LabelOK
<1>4. Function(j) = Function(p)
  BY <1>3, FinishedSettle
<1>5. j \in Labelled(l, p)
  BY <1>1, <1>3, <1>4 DEF Labelled
<1>6. Settle[j] = j
  <2>1. ItemOK(program[j])
    BY DoneFacts
  <2>2. program[j].label = l /\ l # Absent
    BY <1>1, <1>3, BlocksAssumption
  <2>3. program[j].op \notin {"else", "fi"}
    BY <2>1, <2>2 DEF ItemOK
  <2> QED BY <1>1, <2>3, SettleFacts
<1> QED BY <1>3, <1>5, <1>6

(* A goto goes to an item with its label.                                   *)
LEMMA GotoGoes ==
  ASSUME NEW x, NEW n, NEW role, Finished(x, n, role), NEW p \in 1 .. n, program[p].op = "goto",
         NEW t \in 1 .. Len(blocks), Par(blocks, t) # 0, NEW l \in Labels, l = program[p].to, t = namedBlocks[l],
         x.within[p] = Par(blocks, t), NEW j, j = role[t].goal, Moved(p, t, j)
  PROVE  Meaning!Goto(p)
<1>1. j \in Labelled(l, p) /\ Settle[j] = j
  BY LabelMeans
<1>2. j \in Meaning!Labelled(program[p].to, p)
  BY <1>1, MeaningLabelled
<1>3. Meaning!GoTo(j)
  BY <1>1, MeaningSettle DEF Meaning!GoTo, Moved
<1>4. memory' = memory
  BY DEF Moved
<1> QED BY <1>2, <1>3, <1>4 DEF Meaning!Goto

(* Under the restriction the operand has the value of the expression.       *)
LEMMA MeansEval ==
  ASSUME NEW o, NEW e, NEW regs, RightsAreVariables, memory \in [Variables -> BOOLEAN], Means(o, e, regs, memory)
  PROVE  Meaning!Eval(e) = OperandOf(o, regs, memory) /\ Meaning!Eval(e) \in BOOLEAN
<1>1. PICK val : Valued(val, memory) /\ \A f : Meaning!Eval(f) = val[f]
  BY MeaningValued
<1>2. OperandOf(o, regs, memory) = val[e] /\ OperandOf(o, regs, memory) \in BOOLEAN
  BY <1>1 DEF Means
<1> QED BY <1>1, <1>2

(* A branch of an if is taken.                                              *)
LEMMA IfGoes ==
  ASSUME NEW x, NEW n, NEW role, NEW c, NEW k, NEW regs, NEW y, NEW p \in 1 .. n, NEW t, NEW j,
         Finished(x, n, role), ForksIf(x, blocks, role, c, k, y, p), y.op = "condbr", Taken(y, regs, memory, t),
         Means(y.on, program[p].condition, regs, memory), RightsAreVariables,
         memory \in [Variables -> BOOLEAN], j = role[t].goal, Moved(p, t, j)
  PROVE  Meaning!If(p)
<1>1. x.source = program /\ n = Len(program) /\ WholeSource /\ memory' = memory
  BY DoneFacts DEF Finished, Moved
<1>2. program[p].op = "if"
  BY <1>1 DEF ForksIf
<1>3. PICK v : v = OperandOf(y.on, regs, memory)
  OBVIOUS
<1>4. Meaning!Eval(program[p].condition) = v /\ v \in BOOLEAN
  BY <1>3, MeansEval
<1>5. t = IF v THEN y.yes ELSE y.no
  BY <1>3 DEF Taken
<1>6. CASE v
  <2>1. j = Settle[p + 1]
    BY <1>5, <1>6, FinishedSettle DEF ForksIf
  <2>2. Meaning!GoTo(p + 1)
    BY <2>1, MeaningSettle DEF Meaning!GoTo, Moved
  <2> QED BY <1>1, <1>2, <1>4, <1>6, <2>2 DEF Meaning!If
<1>7. CASE ~v
  <2>1. j = Other(p)
    BY <1>5, <1>7, FinishedSettle DEF ForksIf
  <2>2. CASE Elses(p) = {}
    <3>1. j = Settle[Closing(p) + 1]
      BY <2>1, <2>2 DEF Other, Behind
    <3>2. Meaning!GoTo(Closing(p) + 1)
      BY <3>1, MeaningSettle DEF Meaning!GoTo, Moved
    <3>3. \E i \in {Meaning!Closing(p)} : Meaning!GoTo(i + 1)
      BY <3>2, MeaningClosing
    <3>4. Meaning!Elses(p) = {}
      BY <2>2, MeaningElses
    <3> QED BY <1>1, <1>2, <1>4, <1>7, <3>3, <3>4 DEF Meaning!If
  <2>3. CASE Elses(p) # {}
    <3>1. PICK i : i = ElseAt(p)
      OBVIOUS
    <3>2. i \in Elses(p)
      BY <2>3, <3>1 DEF ElseAt
    <3>3. j = Settle[i + 1]
      BY <2>1, <2>3, <3>1 DEF Other
    <3>4. Meaning!GoTo(i + 1)
      BY <3>3, MeaningSettle DEF Meaning!GoTo, Moved
    <3>5. Meaning!Elses(p) # {} /\ \E h \in Meaning!Elses(p) : Meaning!GoTo(h + 1)
      BY <2>3, <3>2, <3>4, MeaningElses
    <3> QED BY <1>1, <1>2, <1>4, <1>7, <3>5 DEF Meaning!If
  <2> QED BY <2>2, <2>3
<1> QED BY <1>4, <1>6, <1>7

(* A branch stays at its item, or goes where an if or a goto goes.          *)
LEMMA BranchGoes ==
  ASSUME IInv, Branch, StaysBuilt, RightsAreVariables
  PROVE  \/ UNCHANGED meant
         \/ \E i \in {Position} \ {0} : Meaning!If(i) \/ Meaning!Goto(i)
<1>1. phase = "run" /\ registers' = registers /\ memory' = memory
  BY DEF Branch, Executes
<1>2. PICK x, n, role, c, k, origin, regs, mem : Running(x, n, role, c, k, origin, regs, mem)
  BY <1>1, RunningHas
<1>3. /\ Finished(x, n, role) /\ Instruction = Does(blocks, c, k) /\ at[1] = c /\ at[2] = k
      /\ c \in 1 .. Len(blocks) /\ k \in 1 .. Long(blocks, c) /\ mem \in [Variables -> BOOLEAN]
      /\ InstrOK(x, blocks, role, namedBlocks, c, k)
  BY <1>2, RunningFacts
<1>4. /\ registers = regs /\ memory = mem /\ AtOK(blocks, role, c, k, origin, regs, mem)
      /\ Emittable /\ blocks \in Seq(Blocks)
  BY <1>2 DEF Running
<1>5. PICK y : y = Does(blocks, c, k)
  OBVIOUS
<1>6. PICK p : p = Of(blocks, c, k)
  OBVIOUS
<1>7. \E t : Taken(y, regs, mem, t) /\ Jump(t)
  <2>1. CASE Executes("br") /\ Jump(Instruction.to)
    BY <2>1, <1>3, <1>5 DEF Executes, Taken
  <2>2. CASE Executes("condbr") /\ Jump(IF Operand(Instruction.on) THEN Instruction.yes ELSE Instruction.no)
    <3>1. Operand(y.on) = OperandOf(y.on, regs, mem)
      BY <1>4 DEF Operand, OperandOf
    <3>2. PICK t : t = IF Operand(y.on) THEN y.yes ELSE y.no
      OBVIOUS
    <3>3. y.op = "condbr" /\ Jump(t)
      BY <2>2, <3>2, <1>3, <1>5 DEF Executes
    <3> QED BY <3>1, <3>2, <3>3 DEF Taken
  <2> QED BY <2>1, <2>2 DEF Branch
<1>8. PICK t : Taken(y, regs, mem, t) /\ Jump(t)
  BY <1>7
<1>9. t \in Targets(y)
  BY <1>8 DEF Taken, Targets
<1>10. t \in 1 .. Len(blocks) /\ Par(blocks, c) # 0
  BY <1>3, <1>5, <1>9, DoneInstr
<1>11. Par(blocks, t) = Par(blocks, c) /\ Par(blocks, t) # 0
  BY <1>3, <1>4, <1>5, <1>9, EmittableTarget
<1>12. Position = p /\ p # 0 /\ p \in 1 .. n /\ x.source = program /\ ItemOK(program[p])
  BY <1>1, <1>2, <1>6, PositionNow
<1>13. PICK j : j = role[t].goal
  OBVIOUS
<1>14. Position' = j
  <2>1. PICK i : i = 1
    OBVIOUS
  <2>2. phase' = "run" /\ blocks' = blocks /\ at' = <<t, i>>
    BY <1>1, <1>8, <2>1 DEF Jump, StaysBuilt
  <2>3. Position' = Of(blocks, t, i)
    BY <2>2, PositionThen
  <2>4. Of(blocks, t, 1) = j
    BY <1>3, <1>10, <1>11, <1>13, GoalFirst
  <2> QED BY <2>1, <2>3, <2>4
<1>15. Moved(p, t, j)
  BY <1>1, <1>8, <1>10, <1>12, <1>14 DEF Moved, Jump, StaysBuilt
<1>16. PICK item : item = program[p]
  OBVIOUS
<1>17. ASSUME j = p PROVE UNCHANGED meant
  BY <1>15, <1>17, StaysThere
<1>18. CASE y.op = "br"
  <2>1. t = y.to
    BY <1>8, <1>18 DEF Taken
  <2>2. role[t].goal = p \/ (item.op = "goto" /\ t = namedBlocks[item.to])
    BY <1>3, <1>5, <1>6, <1>12, <1>16, <1>18, <2>1 DEF InstrOK
  <2>3. CASE item.op = "goto" /\ t = namedBlocks[item.to]
    <3>1. PICK l \in Labels : l = item.to
      BY <1>12, <1>16, <2>3 DEF ItemOK
    <3>2. x.within[p] = Par(blocks, t)
      BY <1>3, <1>6, <1>11, DoneInstr
    <3>3. program[p].op = "goto" /\ l = program[p].to /\ t = namedBlocks[l]
      BY <1>16, <2>3, <3>1
    <3>4. Meaning!Goto(p)
      BY <1>3, <1>10, <1>11, <1>12, <1>13, <1>15, <3>2, <3>3, GotoGoes
    <3> QED BY <1>12, <3>4
  <2> QED BY <1>13, <1>17, <2>2, <2>3
<1>19. CASE y.op = "condbr"
  <2>1. ForksIf(x, blocks, role, c, k, y, p) \/ ForksLazy(blocks, role, c, k, y, p)
    BY <1>3, <1>5, <1>6, <1>19 DEF InstrOK
  <2>2. CASE ForksLazy(blocks, role, c, k, y, p)
    <3>1. role[t].goal = p
      <4>1. AtOK(blocks, role, c, k, origin, regs, mem) /\ Taken(y, regs, mem, t)
        BY <1>4, <1>8
      <4> QED BY <1>19, <2>2, <4>1, LazyHolds
    <3> QED BY <1>13, <1>17, <3>1
  <2>3. CASE ForksIf(x, blocks, role, c, k, y, p)
    <3>1. item.op = "if" /\ Knows(blocks, role, c, k, y.on, item.condition)
      BY <1>12, <1>16, <2>3 DEF ForksIf
    <3>2. item.condition \in Expressions
      BY <1>12, <1>16, <3>1, BlocksAssumption DEF ItemOK
    <3>3. Means(y.on, item.condition, regs, mem)
      BY <1>4, <3>1, <3>2, KnowsMeans
    <3>4. Means(y.on, program[p].condition, regs, memory) /\ Taken(y, regs, memory, t) /\ memory \in [Variables -> BOOLEAN]
      BY <1>3, <1>4, <1>8, <1>16, <3>3
    <3>5. Meaning!If(p)
      BY <1>3, <1>12, <1>13, <1>15, <1>19, <2>3, <3>4, IfGoes
    <3> QED BY <1>12, <3>5
  <2> QED BY <2>1, <2>2, <2>3
<1> QED BY <1>8, <1>18, <1>19 DEF Taken

(* A return returns the value of its expression.                            *)
LEMMA RetReturns ==
  ASSUME IInv, Ret, StaysBuilt, RightsAreVariables
  PROVE  \E i \in {Position} \ {0} : Meaning!Return(i) \/ Meaning!End(i)
<1>1. phase = "run" /\ registers' = registers /\ memory' = memory /\ program' = program
  BY DEF Ret, Executes, StaysBuilt
<1>2. PICK x, n, role, c, k, origin, regs, mem : Running(x, n, role, c, k, origin, regs, mem)
  BY <1>1, RunningHas
<1>3. Instruction = Does(blocks, c, k) /\ InstrOK(x, blocks, role, namedBlocks, c, k) /\ mem \in [Variables -> BOOLEAN]
  BY <1>2, RunningFacts
<1>4. registers = regs /\ memory = mem /\ AtOK(blocks, role, c, k, origin, regs, mem)
  BY <1>2 DEF Running
<1>5. PICK y : y = Does(blocks, c, k)
  OBVIOUS
<1>6. PICK p : p = Of(blocks, c, k)
  OBVIOUS
<1>7. Position = p /\ p # 0 /\ x.source = program /\ ItemOK(program[p])
  BY <1>1, <1>2, <1>6, PositionNow
<1>8. PICK item : item = program[p]
  OBVIOUS
<1>9. ASSUME NEW value, Finish(value) PROVE Meaning!Finish(value)
  <2>1. phase' = "done" /\ result' = value
    BY <1>9 DEF Finish
  <2>2. Position' = 0
    BY <2>1 DEF Position
  <2> QED BY <1>1, <2>1, <2>2 DEF Meaning!Finish, Meaning!Nowhere
<1>10. CASE Executes("ret") /\ Finish(Operand(Instruction.value))
  <2>1. y.op = "ret"
    BY <1>3, <1>5, <1>10 DEF Executes
  <2>2. item.op = "return" /\ Knows(blocks, role, c, k, y.value, item.value)
    BY <1>3, <1>5, <1>6, <1>7, <1>8, <2>1 DEF InstrOK
  <2>3. item.value \in Expressions
    BY <1>7, <1>8, <2>2, BlocksAssumption DEF ItemOK
  <2>4. Means(y.value, item.value, regs, memory) /\ memory \in [Variables -> BOOLEAN]
    BY <1>3, <1>4, <2>2, <2>3, KnowsMeans
  <2>5. Meaning!Eval(item.value) = OperandOf(y.value, regs, memory)
    BY <2>4, MeansEval
  <2>6. Operand(y.value) = OperandOf(y.value, regs, memory)
    BY <1>4 DEF Operand, OperandOf
  <2>7. PICK v : v = Operand(y.value)
    OBVIOUS
  <2>8. Finish(v) /\ v = Meaning!Eval(program[p].value)
    BY <1>3, <1>5, <1>8, <1>10, <2>5, <2>6, <2>7
  <2>9. Meaning!Return(p)
    BY <1>8, <1>9, <2>2, <2>8 DEF Meaning!Return
  <2> QED BY <1>7, <2>9
<1>11. CASE Executes("unreachable") /\ \E v \in BOOLEAN : Finish(v)
  <2>1. y.op = "unreachable"
    BY <1>3, <1>5, <1>11 DEF Executes
  <2>2. item.op = "end"
    BY <1>3, <1>5, <1>6, <1>7, <1>8, <2>1 DEF InstrOK
  <2>3. PICK v \in BOOLEAN : Finish(v)
    BY <1>11
  <2>4. Meaning!Finish(v)
    BY <1>9, <2>3
  <2>5. Meaning!End(p)
    BY <1>8, <2>2, <2>4 DEF Meaning!End
  <2> QED BY <1>7, <2>5
<1> QED BY <1>10, <1>11 DEF Ret

LEMMA ExecuteMeans ==
  ASSUME IInv, Execute, RightsAreVariables
  PROVE  Meaning!Step \/ UNCHANGED meant
<1>1. StaysBuilt
  BY DEF Execute, StaysBuilt, module
<1>2. ASSUME NEW i \in {Position} \ {0},
             Meaning!Assign(i) \/ Meaning!If(i) \/ Meaning!Goto(i) \/ Meaning!Return(i) \/ Meaning!End(i)
      PROVE  Meaning!Step
  BY <1>2 DEF Meaning!Step, Meaning!Nowhere
<1>3. CASE Store
  BY <1>1, <1>2, <1>3, StoreAssigns
<1>4. CASE Phi
  BY <1>1, <1>4, PhiSteps
<1>5. CASE Branch
  BY <1>1, <1>2, <1>5, BranchGoes
<1>6. CASE Ret
  BY <1>1, <1>2, <1>6, RetReturns
<1> QED BY <1>3, <1>4, <1>5, <1>6 DEF Execute

LEMMA StutterMeans ==
  ASSUME UNCHANGED vars PROVE UNCHANGED meant
<1>1. /\ program' = program /\ phase' = phase /\ blocks' = blocks /\ at' = at /\ memory' = memory
      /\ result' = result
  BY DEF vars, module, running
<1>2. Position' = Position
  BY <1>1 DEF Position
<1> QED BY <1>1, <1>2 DEF meant

LEMMA NextMeans ==
  ASSUME IInv, [Next]_vars, RightsAreVariables PROVE [Meaning!Next]_meant
<1>1. CASE Parse
  BY <1>1, ParseSteps DEF Meaning!Next
<1>2. CASE Codegen \/ EmitObject
  BY <1>2, CodegenSteps
<1>3. CASE Start
  BY <1>3, StartCalls DEF Meaning!Next
<1>4. CASE Execute
  BY <1>4, ExecuteMeans DEF Meaning!Next
<1>5. CASE UNCHANGED vars
  BY <1>5, StutterMeans
<1> QED BY <1>1, <1>2, <1>3, <1>4, <1>5 DEF Next, Done

(* Every execution of the blocks is one of the source: statements in their  *)
(* order, branches, gotos and the returned value as written (visitNodeIf,   *)
(* visitNodeGoto, visitNodeReturn).  An operator whose right operand is one *)
(* itself is left out: visitLazyBinOperator gives its PHI node the block the *)
(* right operand was begun in, which need not be the one it ends in.        *)
THEOREM BlocksImplementControlFlow ==
  ASSUME RightsAreVariables PROVE Spec => ImplementsControlFlow
<1>1. Init => Meaning!Init
  BY MeaningInit
<1>2. IInv /\ [Next]_vars => [Meaning!Next]_meant
  BY NextMeans
<1>3. IInv /\ [Next]_vars => [Meaning!Next]_(Meaning!vars)
  BY <1>2 DEF meant, Meaning!vars
<1> QED BY <1>1, <1>3, InvariantHolds, PTL DEF Spec, ImplementsControlFlow, Meaning!Spec
=============================================================================
