------------------------ MODULE BlockBuildingProofs ------------------------
(***************************************************************************)
(* How the code generator builds basic blocks, for every set of names,     *)
(* labels and expressions and every bound on the source.                   *)
(*                                                                         *)
(* Every block is given a role: the item of the source that its code leads *)
(* to (goal), what holds where it begins (claims), and the expression that *)
(* its PHI node has the value of (means).  Core says that the instructions *)
(* of the blocks do what their items and these roles say; each visit keeps *)
(* it.  BasicBlocksProofs makes an invariant of it.                        *)
(***************************************************************************)
EXTENDS BasicBlocks, ItemsProofs

(***************************************************************************)
(* Blocks and their instructions.                                          *)
(***************************************************************************)
Par(bs, c) == bs[c].parent
Long(bs, c) == Len(bs[c].code)
Does(bs, c, k) == bs[c].code[k].does
Of(bs, c, k) == bs[c].code[k].item

Coded == [item : Nat, does : Instructions]

LEMMA BlocksFacts ==
  ASSUME NEW bs \in Seq(Blocks)
  PROVE  /\ Len(bs) \in Nat /\ DOMAIN bs = 1 .. Len(bs)
         /\ \A c \in 1 .. Len(bs) :
              /\ bs[c] \in Blocks /\ Par(bs, c) \in Nat /\ Long(bs, c) \in Nat
              /\ DOMAIN bs[c].code = 1 .. Long(bs, c)
              /\ bs[c].code = <<>> <=> Long(bs, c) = 0
              /\ \A k \in 1 .. Long(bs, c) : Does(bs, c, k) \in Instructions /\ Of(bs, c, k) \in Nat
<1>1. Len(bs) \in Nat /\ DOMAIN bs = 1 .. Len(bs) /\ \A c \in 1 .. Len(bs) : bs[c] \in Blocks
  BY LenProperties
<1>2. ASSUME NEW c \in 1 .. Len(bs)
      PROVE  /\ bs[c] \in Blocks /\ Par(bs, c) \in Nat /\ Long(bs, c) \in Nat
             /\ DOMAIN bs[c].code = 1 .. Long(bs, c)
             /\ bs[c].code = <<>> <=> Long(bs, c) = 0
             /\ \A k \in 1 .. Long(bs, c) : Does(bs, c, k) \in Instructions /\ Of(bs, c, k) \in Nat
  <2>1. bs[c].parent \in Nat /\ bs[c].code \in Seq(Coded)
    BY <1>1 DEF Blocks, Coded
  <2>2. /\ Len(bs[c].code) \in Nat /\ DOMAIN bs[c].code = 1 .. Len(bs[c].code)
        /\ \A k \in 1 .. Len(bs[c].code) : bs[c].code[k] \in Coded
    BY <2>1, LenProperties
  <2>3. bs[c].code = <<>> <=> Len(bs[c].code) = 0
    BY <2>1, EmptySeq
  <2> QED BY <1>1, <2>1, <2>2, <2>3 DEF Par, Long, Does, Of, Coded
<1> QED BY <1>1, <1>2

LEMMA BuilderFacts ==
  ASSUME NEW b \in Builders
  PROVE  /\ b.blocks \in Seq(Blocks) /\ b.insert \in 1 .. Len(b.blocks) /\ b.insert \in Nat
         /\ b.last \in Operands \cup {Absent} /\ b.broken \in BOOLEAN
         /\ DOMAIN b.blocks = 1 .. Len(b.blocks) /\ Len(b.blocks) \in Nat
         /\ b = [blocks |-> b.blocks, insert |-> b.insert, last |-> b.last, broken |-> b.broken]
         /\ Parent(b) = Par(b.blocks, b.insert) /\ Parent(b) \in Nat
<1>1. /\ b.blocks \in Seq(Blocks) /\ b.insert \in DOMAIN b.blocks /\ b.insert \in Nat
      /\ b.last \in Operands \cup {Absent} /\ b.broken \in BOOLEAN
      /\ b = [blocks |-> b.blocks, insert |-> b.insert, last |-> b.last, broken |-> b.broken]
  BY DEF Builders
<1>2. Len(b.blocks) \in Nat /\ DOMAIN b.blocks = 1 .. Len(b.blocks)
      /\ \A c \in 1 .. Len(b.blocks) : Par(b.blocks, c) \in Nat
  BY <1>1, BlocksFacts
<1> QED BY <1>1, <1>2 DEF Parent, Par

LEMMA BuilderType ==
  ASSUME NEW e, e = [blocks |-> e.blocks, insert |-> e.insert, last |-> e.last, broken |-> e.broken],
         e.blocks \in Seq(Blocks), e.insert \in 1 .. Len(e.blocks), e.last \in Operands \cup {Absent},
         e.broken \in BOOLEAN
  PROVE  e \in Builders
<1>1. Len(e.blocks) \in Nat /\ DOMAIN e.blocks = 1 .. Len(e.blocks)
  BY BlocksFacts
<1> QED BY <1>1 DEF Builders

LEMMA AppendCode ==
  ASSUME NEW s \in Seq(Coded), NEW z \in Coded
  PROVE  /\ Append(s, z) \in Seq(Coded) /\ Len(Append(s, z)) = Len(s) + 1
         /\ Append(s, z)[Len(s) + 1] = z
         /\ \A k \in 1 .. Len(s) : Append(s, z)[k] = s[k]
BY AppendProperties

LEMMA BlockExcept ==
  ASSUME NEW r \in Blocks, NEW x
  PROVE  /\ [r EXCEPT !.code = x] = [parent |-> r.parent, code |-> x]
         /\ [r EXCEPT !.parent = x] = [parent |-> x, code |-> r.code]
<1>1. r = [parent |-> r.parent, code |-> r.code]
  BY DEF Blocks
<1>2. ASSUME NEW p, NEW c
      PROVE  /\ [[parent |-> p, code |-> c] EXCEPT !.code = x] = [parent |-> p, code |-> x]
             /\ [[parent |-> p, code |-> c] EXCEPT !.parent = x] = [parent |-> x, code |-> c]
  OBVIOUS
<1> QED BY <1>1, <1>2

LEMMA BuilderExcept ==
  ASSUME NEW b \in Builders, NEW x
  PROVE  /\ [b EXCEPT !.blocks = x] = [blocks |-> x, insert |-> b.insert, last |-> b.last, broken |-> b.broken]
         /\ [b EXCEPT !.insert = x] = [blocks |-> b.blocks, insert |-> x, last |-> b.last, broken |-> b.broken]
         /\ [b EXCEPT !.last = x] = [blocks |-> b.blocks, insert |-> b.insert, last |-> x, broken |-> b.broken]
<1>1. b = [blocks |-> b.blocks, insert |-> b.insert, last |-> b.last, broken |-> b.broken]
  BY BuilderFacts
<1>2. ASSUME NEW bs, NEW i, NEW l, NEW y
      PROVE  [[blocks |-> bs, insert |-> i, last |-> l, broken |-> y] EXCEPT !.blocks = x]
               = [blocks |-> x, insert |-> i, last |-> l, broken |-> y]
  OBVIOUS
<1>3. ASSUME NEW bs, NEW i, NEW l, NEW y
      PROVE  [[blocks |-> bs, insert |-> i, last |-> l, broken |-> y] EXCEPT !.insert = x]
               = [blocks |-> bs, insert |-> x, last |-> l, broken |-> y]
  OBVIOUS
<1>4. ASSUME NEW bs, NEW i, NEW l, NEW y
      PROVE  [[blocks |-> bs, insert |-> i, last |-> l, broken |-> y] EXCEPT !.last = x]
               = [blocks |-> bs, insert |-> i, last |-> x, broken |-> y]
  OBVIOUS
<1> QED BY <1>1, <1>2, <1>3, <1>4

LEMMA BuilderBroken ==
  ASSUME NEW bs, NEW i, NEW l, NEW y, NEW x
  PROVE  [[blocks |-> bs, insert |-> i, last |-> l, broken |-> y] EXCEPT !.broken = x]
           = [blocks |-> bs, insert |-> i, last |-> l, broken |-> x]
OBVIOUS

(* What each of the four ways to change a builder changes.                  *)
(* Builder e is b with the instruction y of item p in place m + 1.          *)
EmittedIn(b, y, p, m, e) ==
  /\ e \in Builders /\ e.insert = b.insert /\ e.last = b.last /\ e.broken = b.broken
  /\ Len(e.blocks) = Len(b.blocks) /\ m \in Nat
  /\ \A c \in 1 .. Len(b.blocks) :
       /\ Par(e.blocks, c) = Par(b.blocks, c)
       /\ Long(e.blocks, c) = IF c = b.insert THEN m + 1 ELSE Long(b.blocks, c)
       /\ \A k \in 1 .. Long(b.blocks, c) :
            Does(e.blocks, c, k) = Does(b.blocks, c, k) /\ Of(e.blocks, c, k) = Of(b.blocks, c, k)
  /\ Does(e.blocks, b.insert, m + 1) = y /\ Of(e.blocks, b.insert, m + 1) = p

LEMMA EmitEmits ==
  ASSUME NEW b \in Builders, NEW y \in Instructions, NEW p \in Nat, p = Settle[pc],
         NEW m, m = Long(b.blocks, b.insert), NEW e, e = Emit(b, y)
  PROVE  EmittedIn(b, y, p, m, e)
<1> DEFINE bs == b.blocks
           i == b.insert
           z == [item |-> p, does |-> y]
           code == Append(bs[i].code, z)
           block == [parent |-> bs[i].parent, code |-> code]
<1>1. bs \in Seq(Blocks) /\ i \in 1 .. Len(bs) /\ Len(bs) \in Nat /\ DOMAIN bs = 1 .. Len(bs)
  BY BuilderFacts
<1>2. bs[i] \in Blocks /\ bs[i].code \in Seq(Coded) /\ bs[i].parent \in Nat
  <2>1. bs[i] \in Blocks
    BY <1>1, BlocksFacts
  <2> QED BY <2>1 DEF Blocks, Coded
<1>3. z \in Coded /\ z.item = p /\ z.does = y
  BY DEF Coded
<1>4. /\ code \in Seq(Coded) /\ Len(code) = m + 1 /\ code[m + 1] = z /\ m \in Nat
      /\ \A k \in 1 .. m : code[k] = bs[i].code[k]
  <2>1. m = Len(bs[i].code)
    BY DEF Long
  <2>2. Len(bs[i].code) \in Nat
    BY <1>2, LenProperties
  <2> HIDE DEF z
  <2>3. /\ code \in Seq(Coded) /\ Len(code) = Len(bs[i].code) + 1 /\ code[Len(bs[i].code) + 1] = z
        /\ \A k \in 1 .. Len(bs[i].code) : code[k] = bs[i].code[k]
    BY <1>2, <1>3, AppendCode
  <2> HIDE DEF code
  <2> QED BY <2>1, <2>2, <2>3
<1>5. block \in Blocks
  <2> HIDE DEF code
  <2> QED BY <1>2, <1>4 DEF Blocks, Coded
<1>6. e = [blocks |-> [bs EXCEPT ![i] = block], insert |-> i, last |-> b.last, broken |-> b.broken]
  <2>1. [bs[i] EXCEPT !.code = code] = block
    <3> HIDE DEF code
    <3> QED BY <1>2, BlockExcept
  <2>2. e = [b EXCEPT !.blocks = [bs EXCEPT ![i] = [bs[i] EXCEPT !.code = code]]]
    BY DEF Emit
  <2> HIDE DEF block, code
  <2> QED BY <2>1, <2>2, BuilderExcept
<1> HIDE DEF block
<1>7. e.blocks \in Seq(Blocks) /\ Len(e.blocks) = Len(bs)
      /\ \A c \in 1 .. Len(bs) : e.blocks[c] = IF c = i THEN block ELSE bs[c]
  BY <1>1, <1>5, <1>6, ExceptSeq
<1>8. e \in Builders /\ e.insert = i /\ e.last = b.last /\ e.broken = b.broken
  <2>1. e = [blocks |-> e.blocks, insert |-> i, last |-> b.last, broken |-> b.broken]
    BY <1>6
  <2>2. b.last \in Operands \cup {Absent} /\ b.broken \in BOOLEAN
    BY BuilderFacts
  <2> QED BY <1>1, <2>1, <2>2, <1>7, BuilderType
<1>9. block.parent = bs[i].parent /\ block.code = code
  BY DEF block
<1> HIDE DEF code, z
<1>10. m = Len(bs[i].code)
  BY DEF Long
<1>11. ASSUME NEW c \in 1 .. Len(bs)
       PROVE  /\ Par(e.blocks, c) = Par(bs, c)
              /\ Long(e.blocks, c) = IF c = i THEN m + 1 ELSE Long(bs, c)
              /\ \A k \in 1 .. Long(bs, c) : Does(e.blocks, c, k) = Does(bs, c, k) /\ Of(e.blocks, c, k) = Of(bs, c, k)
  <2>1. CASE c = i
    BY <2>1, <1>4, <1>7, <1>9, <1>10 DEF Par, Long, Does, Of
  <2>2. CASE c # i
    BY <2>2, <1>7 DEF Par, Long, Does, Of
  <2> QED BY <2>1, <2>2
<1>12. Does(e.blocks, i, m + 1) = y /\ Of(e.blocks, i, m + 1) = p
  BY <1>1, <1>3, <1>4, <1>7, <1>9 DEF Does, Of
<1> QED BY <1>4, <1>7, <1>8, <1>11, <1>12 DEF EmittedIn

LEMMA EmitFacts ==
  ASSUME NEW b \in Builders, NEW y \in Instructions, NEW p \in Nat, p = Settle[pc],
         NEW m, m = Long(b.blocks, b.insert), NEW e, e = Emit(b, y)
  PROVE  /\ e \in Builders /\ e.insert = b.insert /\ e.last = b.last /\ e.broken = b.broken
         /\ Len(e.blocks) = Len(b.blocks) /\ m \in Nat
         /\ \A c \in 1 .. Len(b.blocks) :
              /\ Par(e.blocks, c) = Par(b.blocks, c)
              /\ Long(e.blocks, c) = IF c = b.insert THEN m + 1 ELSE Long(b.blocks, c)
              /\ \A k \in 1 .. Long(b.blocks, c) :
                   Does(e.blocks, c, k) = Does(b.blocks, c, k) /\ Of(e.blocks, c, k) = Of(b.blocks, c, k)
         /\ Does(e.blocks, b.insert, m + 1) = y /\ Of(e.blocks, b.insert, m + 1) = p
<1>1. EmittedIn(b, y, p, m, e)
  BY EmitEmits
<1> QED BY <1>1 DEF EmittedIn

LEMMA CreateFacts ==
  ASSUME NEW b \in Builders, NEW parent \in Nat, NEW n, n = Len(b.blocks),
         NEW e, e = Create(b, parent)
  PROVE  /\ e \in Builders /\ e.insert = b.insert /\ e.last = b.last /\ e.broken = b.broken
         /\ Len(e.blocks) = n + 1 /\ n \in Nat
         /\ \A c \in 1 .. n :
              /\ Par(e.blocks, c) = Par(b.blocks, c)
              /\ Long(e.blocks, c) = Long(b.blocks, c)
              /\ \A k \in 1 .. Long(b.blocks, c) :
                   Does(e.blocks, c, k) = Does(b.blocks, c, k) /\ Of(e.blocks, c, k) = Of(b.blocks, c, k)
         /\ Par(e.blocks, n + 1) = parent /\ Long(e.blocks, n + 1) = 0
<1> DEFINE bs == b.blocks
           block == [parent |-> parent, code |-> <<>>]
<1>1. bs \in Seq(Blocks) /\ b.insert \in 1 .. Len(bs) /\ n \in Nat
  BY BuilderFacts
<1>2. block \in Blocks
  BY EmptySeq DEF Blocks
<1>3. e = [blocks |-> Append(bs, block), insert |-> b.insert, last |-> b.last, broken |-> b.broken]
  BY BuilderExcept DEF Create
<1>4. block.parent = parent /\ block.code = <<>>
  OBVIOUS
<1> HIDE DEF block
<1>5. e.blocks \in Seq(Blocks) /\ Len(e.blocks) = n + 1 /\ e.blocks[n + 1] = block
      /\ \A c \in 1 .. n : e.blocks[c] = bs[c]
  BY <1>1, <1>2, <1>3, AppendProperties
<1>6. e \in Builders /\ e.insert = b.insert /\ e.last = b.last /\ e.broken = b.broken
  <2>1. e = [blocks |-> e.blocks, insert |-> b.insert, last |-> b.last, broken |-> b.broken]
    BY <1>3
  <2>2. b.last \in Operands \cup {Absent} /\ b.broken \in BOOLEAN /\ b.insert \in 1 .. Len(e.blocks)
    BY BuilderFacts, <1>1, <1>5
  <2> QED BY <2>1, <2>2, <1>5, BuilderType
<1>7. Len(block.code) = 0
  BY <1>4, EmptySeq
<1> QED BY <1>1, <1>4, <1>5, <1>6, <1>7 DEF Par, Long, Does, Of

LEMMA PushFacts ==
  ASSUME NEW b \in Builders, NEW t \in 1 .. Len(b.blocks), NEW e, e = PushBack(b, t)
  PROVE  /\ e \in Builders /\ e.insert = b.insert /\ e.last = b.last
         /\ e.broken = (b.broken \/ Par(b.blocks, t) # Detached)
         /\ Len(e.blocks) = Len(b.blocks)
         /\ \A c \in 1 .. Len(b.blocks) :
              /\ Par(e.blocks, c) = IF c = t THEN Par(b.blocks, b.insert) ELSE Par(b.blocks, c)
              /\ Long(e.blocks, c) = Long(b.blocks, c)
              /\ \A k \in 1 .. Long(b.blocks, c) :
                   Does(e.blocks, c, k) = Does(b.blocks, c, k) /\ Of(e.blocks, c, k) = Of(b.blocks, c, k)
<1> DEFINE bs == b.blocks
           block == [parent |-> Parent(b), code |-> bs[t].code]
           x == b.broken \/ bs[t].parent # Detached
<1>1. bs \in Seq(Blocks) /\ b.insert \in 1 .. Len(bs) /\ Parent(b) \in Nat /\ Parent(b) = Par(bs, b.insert)
  BY BuilderFacts
<1>2. bs[t] \in Blocks
  BY <1>1, BlocksFacts
<1>3. block \in Blocks /\ block.parent = Parent(b) /\ block.code = bs[t].code
  BY <1>1, <1>2 DEF Blocks
<1>4. e = [blocks |-> [bs EXCEPT ![t] = block], insert |-> b.insert, last |-> b.last, broken |-> x]
  <2> DEFINE d == [b EXCEPT !.blocks = [bs EXCEPT ![t] = [bs[t] EXCEPT !.parent = Parent(b)]]]
  <2>1. e = [d EXCEPT !.broken = x]
    BY DEF PushBack
  <2>2. [bs[t] EXCEPT !.parent = Parent(b)] = block
    BY <1>2, BlockExcept
  <2>3. d = [blocks |-> [bs EXCEPT ![t] = block], insert |-> b.insert, last |-> b.last, broken |-> b.broken]
    <3> HIDE DEF block
    <3> QED BY <2>2, BuilderExcept
  <2> HIDE DEF d, x, block
  <2> QED BY <2>1, <2>3, BuilderBroken
<1> HIDE DEF block
<1>5. e.blocks \in Seq(Blocks) /\ Len(e.blocks) = Len(bs)
      /\ \A c \in 1 .. Len(bs) : e.blocks[c] = IF c = t THEN block ELSE bs[c]
  BY <1>1, <1>3, <1>4, ExceptSeq
<1>6. e \in Builders /\ e.insert = b.insert /\ e.last = b.last /\ e.broken = x
  <2>1. e = [blocks |-> e.blocks, insert |-> b.insert, last |-> b.last, broken |-> x]
    BY <1>4
  <2>2. x \in BOOLEAN
    OBVIOUS
  <2> HIDE DEF x
  <2> QED BY <1>1, <2>1, <2>2, <1>5, BuilderType, BuilderFacts
<1> QED BY <1>1, <1>3, <1>5, <1>6 DEF Par, Long, Does, Of

LEMMA SetInsertFacts ==
  ASSUME NEW b \in Builders, NEW t \in 1 .. Len(b.blocks), NEW e, e = SetInsert(b, t)
  PROVE  /\ e \in Builders /\ e.blocks = b.blocks /\ e.insert = t /\ e.last = b.last /\ e.broken = b.broken
<1>1. e = [blocks |-> b.blocks, insert |-> t, last |-> b.last, broken |-> b.broken]
  BY BuilderExcept DEF SetInsert
<1>2. b.last \in Operands \cup {Absent} /\ b.broken \in BOOLEAN /\ b.blocks \in Seq(Blocks)
  BY BuilderFacts
<1> QED BY <1>1, <1>2, BuilderType

-----------------------------------------------------------------------------
(* The source *)

Ops == {"function", "end", "if", "else", "fi", "assign", "goto", "return"}

(* What an item is.                                                         *)
ItemOK(item) ==
  /\ item.op \in Ops
  /\ item.label \in Labels \cup {Absent}
  /\ item.op \in {"function", "end", "else", "fi"} => item.label = Absent
  /\ item.op = "assign" => item.name \in Variables /\ item.value \in Values
  /\ item.op = "goto" => item.to \in Labels
  /\ item.op = "return" => item.value \in Returned
  /\ item.op = "if" => item.condition \in Conditions

(* Where an item may be.                                                    *)
PlaceOK(i) ==
  /\ program[i].op = "function" <=> (i = 1 \/ program[i - 1].op = "end")
  /\ Opened(i) \in Nat
  /\ program[i].op \in {"function", "end"} => Opened(i - 1) = 0
  /\ program[i].op = "else" => Opened(i - 1) # 0

(* Something closes more, from item j to item k, than was opened before j.  *)
Closed(j, k) == \E h \in j .. k : Opened(h) < Opened(j)

(* No branch has a second else.                                             *)
OneElse ==
  \A i, j \in 1 .. Len(program) :
    i < j /\ program[i].op = "else" /\ program[j].op = "else" /\ Opened(i) = Opened(j)
      => Closed(i, j)

(* An if that is in its then part has had no else.                          *)
IfsOK ==
  /\ ifs \in Seq({"then", "else"}) /\ Len(ifs) = Opened(Len(program))
  /\ \A l \in 1 .. Len(ifs) : \A j \in 1 .. Len(program) :
       ifs[l] = "then" /\ program[j].op = "else" /\ Opened(j) = Len(ifs) - l + 1
         => Closed(j, Len(program))

AtEnd == program = <<>> \/ program[Len(program)].op = "end"

SourceOK ==
  /\ Sequence(program) /\ Len(program) <= MaxItems
  /\ \A i \in 1 .. Len(program) : ItemOK(program[i]) /\ PlaceOK(i)
  /\ OneElse
  /\ IfsOK
  /\ AtEnd => ifs = <<>>
  /\ AtEnd \/ Open

LEMMA OpenedGrown ==
  ASSUME NEW item, NEW m,
         Sequence(program), program' = Append(program, item), m = Len(program)
  PROVE  /\ m \in Nat /\ Sequence(program') /\ Len(program') = m + 1 /\ program'[m + 1] = item
         /\ \A i \in 1 .. m : program'[i] = program[i]
         /\ \A k \in 0 .. m : Opened(k)' = Opened(k)
         /\ Opened(m + 1)' = Opened(m) + (IF item.op = "if" THEN 1 ELSE IF item.op = "fi" THEN -1 ELSE 0)
<1>1. /\ m \in Nat /\ Sequence(program') /\ Len(program') = m + 1 /\ program'[m + 1] = item
      /\ \A i \in 1 .. m : program'[i] = program[i]
  BY SequenceAppend, SequenceFacts
<1>2. ASSUME NEW op, NEW k \in 0 .. m PROVE Count(op, k)' = Count(op, k)
  <2>1. \A j \in 1 .. k : program'[j] = program[j]
    BY <1>1
  <2>2. {j \in 1 .. k : program'[j].op = op} = {j \in 1 .. k : program[j].op = op}
    BY <2>1
  <2> QED
    BY <2>2 DEF Count
<1>3. ASSUME NEW k \in 0 .. m PROVE Opened(k)' = Opened(k)
  BY <1>2 DEF Opened
<1>4. (\A k \in Nat :
        Opened(k + 1) = Opened(k) + (IF program[k + 1].op = "if" THEN 1
                                     ELSE IF program[k + 1].op = "fi" THEN -1
                                     ELSE 0))'
  BY OpenedStep, PTL
<1>5. Opened(m + 1)' = Opened(m)' + (IF item.op = "if" THEN 1 ELSE IF item.op = "fi" THEN -1 ELSE 0)
  BY <1>1, <1>4
<1>6. m \in 0 .. m
  BY <1>1
<1> QED
  BY <1>1, <1>3, <1>5, <1>6

(* The height behind an item and before it.                                 *)
LEMMA OpenedAt ==
  ASSUME NEW i,
         i \in Nat \ {0}
  PROVE  Opened(i) = Opened(i - 1) + (IF program[i].op = "if" THEN 1
                                      ELSE IF program[i].op = "fi" THEN -1
                                      ELSE 0)
         /\ Opened(i) \in Int /\ Opened(i - 1) \in Int
<1>1. i - 1 \in Nat /\ (i - 1) + 1 = i
  OBVIOUS
<1> QED BY <1>1, OpenedStep

-----------------------------------------------------------------------------
(* Reading keeps the shape of a source *)

LEMMA SourceGrown ==
  ASSUME NEW item, NEW m,
         SourceOK, ItemOK(item), m = Len(program), m + 1 <= MaxItems, program' = Append(program, item),
         item.op = "function" <=> AtEnd, item.op \in {"function", "end"} => ifs = <<>>,
         item.op \in {"else", "fi"} => ifs # <<>>, item.op = "else" => ifs[1] = "then",
         ifs' \in Seq({"then", "else"}),
         Len(ifs') = Len(ifs) + (IF item.op = "if" THEN 1 ELSE IF item.op = "fi" THEN -1 ELSE 0),
         \A l \in 1 .. Len(ifs') : ifs'[l] = "then" =>
           \/ item.op = "if" /\ l = 1
           \/ \E q \in 1 .. Len(ifs) :
                ifs[q] = "then" /\ Len(ifs) - q = Len(ifs') - l /\ (item.op = "else" => q # 1)
  PROVE  SourceOK'
<1>1. /\ m \in Nat /\ Sequence(program') /\ Len(program') = m + 1 /\ program'[m + 1] = item
      /\ \A i \in 1 .. m : program'[i] = program[i]
      /\ \A k \in 0 .. m : Opened(k)' = Opened(k)
      /\ Opened(m + 1)' = Opened(m) + (IF item.op = "if" THEN 1 ELSE IF item.op = "fi" THEN -1 ELSE 0)
  BY OpenedGrown DEF SourceOK
<1>0. m \in Nat
  BY <1>1
<1>2. /\ Len(ifs) \in Nat /\ Len(ifs) = Opened(m) /\ (ifs = <<>> <=> Len(ifs) = 0)
      /\ ifs \in Seq({"then", "else"})
      /\ \A l \in 1 .. Len(ifs) : \A j \in 1 .. m :
           ifs[l] = "then" /\ program[j].op = "else" /\ Opened(j) = Len(ifs) - l + 1
             => Closed(j, m)
  BY LenProperties, EmptySeq DEF SourceOK, IfsOK
<1>3. \A i \in 1 .. m : ItemOK(program[i]) /\ PlaceOK(i)
  BY DEF SourceOK
<1>4. (program = <<>> <=> m = 0) /\ program' # <<>>
  <2>1. (program = <<>> <=> Len(program) = 0)
    BY SequenceFacts DEF SourceOK
  <2>2. program' = <<>> <=> Len(program') = 0
    <3>1. \A s : Sequence(s) => (s = <<>> <=> Len(s) = 0)
      BY SequenceFacts
    <3> QED BY <3>1, <1>1
  <2> QED BY <2>1, <2>2, <1>1
<1>5. \A i \in 1 .. m + 1 : (ItemOK(program[i]))'
  <2> SUFFICES ASSUME NEW i \in 1 .. m + 1 PROVE (ItemOK(program[i]))'
    OBVIOUS
  <2>1. CASE i \in 1 .. m
    BY <2>1, <1>1, <1>3 DEF ItemOK
  <2>2. CASE i = m + 1
    BY <2>2, <1>1 DEF ItemOK
  <2> QED BY <2>1, <2>2, <1>1
<1>6. \A i \in 1 .. m + 1 : PlaceOK(i)'
  <2> SUFFICES ASSUME NEW i \in 1 .. m + 1 PROVE PlaceOK(i)'
    OBVIOUS
  <2>1. CASE i \in 1 .. m
    <3>1. i - 1 \in 0 .. m /\ i \in 0 .. m /\ (i = 1 \/ i - 1 \in 1 .. m)
      BY <2>1, <1>1
    <3> QED BY <2>1, <3>1, <1>1, <1>3 DEF PlaceOK
  <2>2. CASE i = m + 1
    <3>1. i - 1 = m /\ m \in 0 .. m /\ (i = 1 <=> m = 0) /\ (m # 0 => m \in 1 .. m)
      BY <2>2, <1>1
    <3>2. item.op = "function" <=> (i = 1 \/ program'[i - 1].op = "end")
      BY <3>1, <1>1, <1>4 DEF AtEnd
    <3>3. Opened(m) = 0 <=> ifs = <<>>
      BY <1>2
    <3>4. Opened(i)' \in Nat
      BY <2>2, <1>1, <1>2, <3>3
    <3> QED BY <2>2, <3>1, <3>2, <3>3, <3>4, <1>1 DEF PlaceOK
  <2> QED BY <2>1, <2>2, <1>1
<1>7. ASSUME NEW j \in 1 .. m, NEW k \in 1 .. m, Closed(j, k) PROVE Closed(j, k)'
  <2>1. PICK h \in j .. k : Opened(h) < Opened(j)
    BY <1>7 DEF Closed
  <2>2. h \in 0 .. m /\ j \in 0 .. m
    BY <1>1
  <2> QED BY <2>1, <2>2, <1>1 DEF Closed
<1>8. ASSUME NEW j \in 1 .. m, Closed(j, m) PROVE Closed(j, m + 1)'
  <2>1. PICK h \in j .. m : Opened(h) < Opened(j)
    BY <1>8 DEF Closed
  <2>2. h \in 0 .. m /\ j \in 0 .. m /\ h \in j .. m + 1
    BY <1>1
  <2> QED BY <2>1, <2>2, <1>1 DEF Closed
<1>9. OneElse'
  <2> SUFFICES ASSUME NEW i \in 1 .. m + 1, NEW j \in 1 .. m + 1,
                      i < j, program'[i].op = "else", program'[j].op = "else", Opened(i)' = Opened(j)'
               PROVE  Closed(i, j)'
    BY <1>1 DEF OneElse
  <2>1. i \in 1 .. m /\ i \in 0 .. m
    BY <1>1
  <2>2. CASE j \in 1 .. m
    <3>1. j \in 0 .. m
      BY <2>2, <1>1
    <3>2. Closed(i, j)
      BY <2>1, <2>2, <3>1, <1>1 DEF SourceOK, OneElse
    <3> QED BY <2>1, <2>2, <3>2, <1>7
  <2>3. CASE j = m + 1
    <3>1. item.op = "else" /\ Opened(j)' = Opened(m) /\ Opened(i) = Opened(m) /\ program[i].op = "else"
      <4>1. Opened(m) \in Int
        BY OpenedStep, <1>1
      <4> QED BY <2>1, <2>3, <4>1, <1>1
    <3>2. ifs[1] = "then" /\ 1 \in 1 .. Len(ifs) /\ Opened(i) = Len(ifs) - 1 + 1
      BY <3>1, <1>2
    <3>3. Closed(i, m)
      BY <2>1, <3>1, <3>2, <1>2
    <3> QED BY <3>3, <2>1, <2>3, <1>8
  <2>4. j \in 1 .. m \/ j = m + 1
    BY <1>0
  <2> QED BY <2>2, <2>3, <2>4
<1>10. IfsOK'
  <2>1. Len(ifs') = Opened(m + 1)' /\ Len(ifs') \in Nat
    BY <1>1, <1>2, LenProperties
  <2>2. ASSUME NEW l \in 1 .. Len(ifs'), NEW j \in 1 .. m + 1,
               ifs'[l] = "then", program'[j].op = "else", Opened(j)' = Len(ifs') - l + 1
        PROVE  Closed(j, m + 1)'
    <3>1. CASE item.op = "if" /\ l = 1
      <4>1. j \in 1 .. m /\ j \in 0 .. m /\ m \in 0 .. m
        BY <2>2, <3>1, <1>1
      <4>2. Opened(j) = Len(ifs) + 1 /\ Opened(m) < Opened(j)
        BY <2>2, <3>1, <4>1, <1>1, <1>2
      <4>3. Closed(j, m)
        BY <4>1, <4>2 DEF Closed
      <4> QED BY <4>1, <4>3, <1>8
    <3>2. CASE \E q \in 1 .. Len(ifs) :
                 ifs[q] = "then" /\ Len(ifs) - q = Len(ifs') - l /\ (item.op = "else" => q # 1)
      <4>1. PICK q \in 1 .. Len(ifs) :
                   ifs[q] = "then" /\ Len(ifs) - q = Len(ifs') - l /\ (item.op = "else" => q # 1)
        BY <3>2
      <4>2. CASE j \in 1 .. m
        <5>1. j \in 0 .. m /\ program[j].op = "else"
          BY <4>2, <2>2, <1>1
        <5>2. Opened(j) = Len(ifs) - q + 1
          BY <5>1, <4>1, <2>1, <2>2, <1>1, <1>2
        <5> QED BY <4>1, <4>2, <5>1, <5>2, <1>2, <1>8
      <4>3. CASE j = m + 1
        <5>1. item.op = "else"
          BY <4>3, <2>2, <1>1
        <5>2. Opened(j)' = Len(ifs)
          BY <4>3, <5>1, <1>1, <1>2
        <5>3. q \in Nat /\ Len(ifs) = Len(ifs) - q + 1
          BY <5>2, <4>1, <2>1, <2>2, <1>1, <1>2
        <5>4. q = 1
          BY <5>3, <1>2
        <5> QED BY <4>1, <5>1, <5>4
      <4> QED BY <4>2, <4>3, <1>1
    <3> QED BY <2>2, <3>1, <3>2
  <2> QED BY <1>1, <2>1, <2>2 DEF IfsOK
<1>11. (AtEnd => ifs = <<>>)' /\ (AtEnd \/ Open)'
  <2>1. AtEnd' <=> item.op = "end"
    BY <1>1, <1>4 DEF AtEnd
  <2>2. item.op = "end" => ifs' = <<>>
    <3> SUFFICES ASSUME item.op = "end" PROVE ifs' = <<>>
      OBVIOUS
    <3>1. Len(ifs') = 0
      BY <1>2
    <3> QED BY <3>1, EmptySeq
  <2>3. ASSUME item.op # "end" PROVE Open'
    <3>1. DOMAIN program = 1 .. m /\ DOMAIN program' = 1 .. m + 1
      <4>1. \A s : Sequence(s) => DOMAIN s = 1 .. Len(s)
        BY SequenceFacts
      <4> QED BY <4>1, <1>1 DEF SourceOK
    <3>2. CASE item.op = "function"
      <4>1. m + 1 \in 1 .. m + 1 /\ \A i \in m + 1 .. m + 1 : program'[i].op # "end"
        BY <1>1, <2>3
      <4> QED BY <4>1, <3>1, <3>2, <1>1 DEF Open
    <3>3. CASE item.op # "function"
      <4>1. PICK f \in 1 .. m : program[f].op = "function" /\ \A i \in f .. m : program[i].op # "end"
        BY <3>3, <3>1 DEF SourceOK, Open
      <4>2. \A i \in f .. m + 1 : program'[i].op # "end"
        <5> SUFFICES ASSUME NEW i \in f .. m + 1 PROVE program'[i].op # "end"
          OBVIOUS
        <5>1. f \in Nat /\ i \in Nat /\ f <= i /\ i <= m + 1
          BY <1>0
        <5>2. CASE i = m + 1
          BY <5>2, <1>1, <2>3
        <5>3. CASE i # m + 1
          <6>1. i \in f .. m /\ i \in 1 .. m
            BY <1>0, <5>1, <5>3
          <6> QED BY <6>1, <4>1, <1>1
        <5> QED BY <5>2, <5>3
      <4>3. f \in 1 .. m + 1 /\ program'[f].op = "function"
        BY <4>1, <1>1
      <4> QED BY <4>2, <4>3, <3>1, <1>1 DEF Open
    <3> QED BY <3>2, <3>3
  <2> QED BY <2>1, <2>2, <2>3
<1> QED
  BY <1>1, <1>5, <1>6, <1>9, <1>10, <1>11 DEF SourceOK

-----------------------------------------------------------------------------
(* A whole source *)

WholeSource == SourceOK /\ program # <<>> /\ AtEnd

LEMMA WholeFacts ==
  ASSUME WholeSource, NEW n, n = Len(program)
  PROVE  /\ n \in Nat \ {0} /\ DOMAIN program = 1 .. n /\ n <= MaxItems
         /\ program[n].op = "end" /\ Opened(n) = 0 /\ Opened(0) = 0
         /\ \A k \in 0 .. n : Opened(k) \in Nat
         /\ \A i \in 1 .. n : ItemOK(program[i]) /\ PlaceOK(i)
         /\ \A i \in 1 .. n :
              Opened(i) = Opened(i - 1) + (IF program[i].op = "if" THEN 1
                                           ELSE IF program[i].op = "fi" THEN -1
                                           ELSE 0)
<1>1. n \in Nat /\ DOMAIN program = 1 .. n /\ (program = <<>> <=> n = 0)
  BY SequenceFacts DEF WholeSource, SourceOK
<1>2. n # 0 /\ n <= MaxItems /\ program[n].op = "end"
  BY <1>1 DEF WholeSource, SourceOK, AtEnd
<1>3. Opened(n) = 0
  <2>1. ifs = <<>> /\ Len(ifs) = Opened(n)
    BY DEF WholeSource, SourceOK, IfsOK
  <2> QED BY <2>1, EmptySeq
<1>4. \A i \in 1 .. n : ItemOK(program[i]) /\ PlaceOK(i)
  BY DEF WholeSource, SourceOK
<1>5. Opened(0) = 0
  BY OpenedStep
<1>6. ASSUME NEW k \in 0 .. n PROVE Opened(k) \in Nat
  <2>1. CASE k = 0
    BY <2>1, <1>5
  <2>2. CASE k # 0
    BY <2>2, <1>1, <1>4 DEF PlaceOK
  <2> QED BY <2>1, <2>2
<1>7. \A i \in 1 .. n :
        Opened(i) = Opened(i - 1) + (IF program[i].op = "if" THEN 1
                                     ELSE IF program[i].op = "fi" THEN -1
                                     ELSE 0)
  <2> SUFFICES ASSUME NEW i \in 1 .. n
               PROVE  Opened(i) = Opened(i - 1) + (IF program[i].op = "if" THEN 1
                                                   ELSE IF program[i].op = "fi" THEN -1
                                                   ELSE 0)
    OBVIOUS
  <2>1. i \in Nat \ {0}
    BY <1>1
  <2> QED BY <2>1, OpenedAt
<1> QED BY <1>1, <1>2, <1>3, <1>4, <1>5, <1>6, <1>7

(* An item that ends another one is behind it and the only one.             *)
LEMMA ClosingIs ==
  ASSUME NEW i \in Nat, NEW k \in i + 1 .. Len(program), WholeSource,
         Opened(k) < Opened(i), \A j \in i + 1 .. k - 1 : Opened(j) >= Opened(i)
  PROVE  Closing(i) = k
<1> DEFINE P(c) == Opened(c) < Opened(i) /\ \A j \in i + 1 .. c - 1 : Opened(j) >= Opened(i)
<1>0. Len(program) \in Nat /\ \A c \in 0 .. Len(program) : Opened(c) \in Nat
  BY WholeFacts
<1>1. ASSUME NEW c \in i + 1 .. Len(program), P(c) PROVE c = k
  <2>1. ~ (c < k)
    <3> SUFFICES ASSUME c < k PROVE FALSE
      OBVIOUS
    <3>1. c \in i + 1 .. k - 1 /\ c \in 0 .. Len(program) /\ i \in 0 .. Len(program)
      BY <1>0
    <3>2. Opened(c) \in Nat /\ Opened(i) \in Nat
      BY <3>1, <1>0
    <3> QED BY <3>1, <3>2, <1>1
  <2>2. ~ (k < c)
    <3> SUFFICES ASSUME k < c PROVE FALSE
      OBVIOUS
    <3>1. k \in i + 1 .. c - 1 /\ k \in 0 .. Len(program) /\ i \in 0 .. Len(program)
      BY <1>0
    <3>2. Opened(k) \in Nat /\ Opened(i) \in Nat
      BY <3>1, <1>0
    <3> QED BY <3>1, <3>2, <1>1
  <2> QED BY <2>1, <2>2, <1>0
<1>2. P(k)
  OBVIOUS
<1>3. Closing(i) = CHOOSE c \in i + 1 .. Len(program) : P(c)
  BY DEF Closing
<1> HIDE DEF P
<1>4. \E c \in i + 1 .. Len(program) : P(c)
  BY <1>2
<1> QED BY <1>1, <1>3, <1>4

LEMMA ClosingFacts ==
  ASSUME WholeSource, NEW n, n = Len(program), NEW i \in 1 .. n, program[i].op \in {"if", "else"},
         NEW c, c = Closing(i)
  PROVE  /\ c \in i + 1 .. n - 1 /\ program[c].op = "fi" /\ Opened(c) = Opened(i) - 1
         /\ Opened(i) \in Nat \ {0}
         /\ \A j \in i + 1 .. c - 1 : Opened(j) >= Opened(i)
         /\ \A j \in i + 1 .. c + 1 : program[j].op # "function"
<1>0. /\ n \in Nat \ {0} /\ program[n].op = "end" /\ Opened(n) = 0
      /\ \A k \in 0 .. n : Opened(k) \in Nat
      /\ \A k \in 1 .. n : PlaceOK(k)
      /\ \A k \in 1 .. n :
              Opened(k) = Opened(k - 1) + (IF program[k].op = "if" THEN 1
                                           ELSE IF program[k].op = "fi" THEN -1
                                           ELSE 0)
  BY WholeFacts
<1>1. Opened(i) \in Nat \ {0} /\ i - 1 \in 0 .. n /\ i \in Nat
  <2>1. i - 1 \in 0 .. n /\ i \in 0 .. n
    BY <1>0
  <2>2. Opened(i) \in Nat /\ Opened(i - 1) \in Nat
    BY <2>1, <1>0
  <2>3. Opened(i) = Opened(i - 1) + (IF program[i].op = "if" THEN 1
                                     ELSE IF program[i].op = "fi" THEN -1
                                     ELSE 0)
    BY <1>0
  <2>4. program[i].op = "else" => Opened(i - 1) # 0
    <3>1. PlaceOK(i)
      BY <1>0
    <3> QED BY <3>1 DEF PlaceOK
  <2> QED BY <1>0, <2>1, <2>2, <2>3, <2>4
<1> DEFINE T == {k \in i + 1 .. n : Opened(k) < Opened(i)}
<1>2. n \in T /\ T \in SUBSET Nat
  <2>1. i # n
    BY <1>0, <1>1
  <2> QED BY <2>1, <1>0, <1>1
<1>3. PICK k \in T : \A h \in T : k <= h
  <2> HIDE DEF T
  <2> QED BY <1>2, LeastNumber
<1>4. \A j \in i + 1 .. k - 1 : Opened(j) >= Opened(i)
  <2> SUFFICES ASSUME NEW j \in i + 1 .. k - 1 PROVE Opened(j) >= Opened(i)
    OBVIOUS
  <2>1. j \in i + 1 .. n /\ j < k /\ j \in 0 .. n /\ k \in Nat
    BY <1>0, <1>3
  <2>2. Opened(j) \in Nat /\ Opened(i) \in Nat
    BY <2>1, <1>0, <1>1
  <2>3. j \notin T
    <3>1. j \in T => k <= j
      BY <1>3
    <3> HIDE DEF T
    <3> QED BY <2>1, <3>1
  <2> QED BY <2>1, <2>2, <2>3
<1>5. k \in i + 1 .. n /\ Opened(k) < Opened(i) /\ k \in Nat
  BY <1>3
<1>6. c = k
  BY <1>1, <1>4, <1>5, ClosingIs
<1>7. Opened(k - 1) >= Opened(i) /\ Opened(k - 1) \in Nat /\ k \in 1 .. n
  <2>1. k \in 1 .. n /\ k - 1 \in 0 .. n /\ (k - 1 = i \/ k - 1 \in i + 1 .. k - 1)
    BY <1>0, <1>1, <1>5
  <2> QED BY <2>1, <1>0, <1>1, <1>4
<1>8. program[k].op = "fi" /\ Opened(k) = Opened(i) - 1
  <2>1. Opened(k) = Opened(k - 1) + (IF program[k].op = "if" THEN 1
                                     ELSE IF program[k].op = "fi" THEN -1
                                     ELSE 0)
    BY <1>7, <1>0
  <2>2. Opened(k) \in Nat
    BY <1>0, <1>5, <1>1
  <2> QED BY <2>1, <2>2, <1>1, <1>5, <1>7
<1>9. k # n
  BY <1>0, <1>8
<1>10. \A j \in i + 1 .. k + 1 : program[j].op # "function"
  <2> SUFFICES ASSUME NEW j \in i + 1 .. k + 1, program[j].op = "function" PROVE FALSE
    OBVIOUS
  <2>1. j \in 1 .. n /\ j - 1 \in 0 .. n
    BY <1>0, <1>1, <1>5, <1>9
  <2>2. PlaceOK(j)
    BY <2>1, <1>0
  <2>3. Opened(j - 1) = 0
    BY <2>2 DEF PlaceOK
  <2>4. CASE j = k + 1
    <3>1. j # 1 /\ j - 1 = k
      BY <2>4, <1>1, <1>5
    <3>2. program[k].op = "end"
      BY <2>2, <3>1 DEF PlaceOK
    <3> QED BY <3>2, <1>8
  <2>5. CASE j # k + 1
    <3>1. j - 1 = i \/ j - 1 \in i + 1 .. k - 1
      BY <2>1, <2>5, <1>1, <1>5
    <3> QED BY <3>1, <2>3, <1>1, <1>4
  <2> QED BY <2>4, <2>5
<1> QED BY <1>0, <1>1, <1>4, <1>5, <1>6, <1>8, <1>9, <1>10

LEMMA FunctionIs ==
  ASSUME NEW i \in Nat, NEW f \in 1 .. i, program[f].op = "function",
         \A j \in f + 1 .. i : program[j].op # "function"
  PROVE  Function(i) = f
<1> DEFINE P(g) == program[g].op = "function" /\ \A j \in g + 1 .. i : program[j].op # "function"
<1>1. ASSUME NEW g \in 1 .. i, P(g) PROVE g = f
  <2>1. ~ (g < f)
    BY <1>1
  <2>2. ~ (f < g)
    BY <1>1
  <2> QED BY <2>1, <2>2
<1>2. P(f)
  OBVIOUS
<1>3. Function(i) = CHOOSE g \in 1 .. i : P(g)
  BY DEF Function
<1> HIDE DEF P
<1> QED BY <1>1, <1>2, <1>3

LEMMA FunctionFacts ==
  ASSUME WholeSource, NEW i \in 1 .. Len(program), NEW f, f = Function(i)
  PROVE  /\ f \in 1 .. i /\ program[f].op = "function"
         /\ \A j \in f + 1 .. i : program[j].op # "function"
<1> DEFINE S == {i - g : g \in {h \in 1 .. i : program[h].op = "function"}}
<1>0. Len(program) \in Nat \ {0} /\ PlaceOK(1) /\ i \in Nat
  BY WholeFacts
<1>1. i - 1 \in S /\ S \in SUBSET Nat
  <2>1. 1 \in 1 .. i /\ program[1].op = "function"
    BY <1>0 DEF PlaceOK
  <2> QED BY <2>1, <1>0
<1>2. PICK d \in S : \A h \in S : d <= h
  <2> HIDE DEF S
  <2> QED BY <1>1, LeastNumber
<1>3. PICK g \in 1 .. i : program[g].op = "function" /\ d = i - g
  BY <1>2
<1>4. ASSUME NEW j \in g + 1 .. i PROVE program[j].op # "function"
  <2> SUFFICES ASSUME program[j].op = "function" PROVE FALSE
    OBVIOUS
  <2>1. j \in 1 .. i /\ i - j \in S
    BY <1>0
  <2>2. d <= i - j
    BY <2>1, <1>2
  <2> QED BY <2>1, <2>2, <1>0, <1>3
<1>5. Function(i) = g
  BY <1>0, <1>3, <1>4, FunctionIs
<1> QED BY <1>3, <1>4, <1>5

(* Items with no function between them are in the same one.                 *)
LEMMA SameFunction ==
  ASSUME WholeSource, NEW i \in 1 .. Len(program), NEW k \in i .. Len(program),
         \A j \in i + 1 .. k : program[j].op # "function"
  PROVE  Function(k) = Function(i)
<1>0. Len(program) \in Nat /\ i \in Nat /\ k \in Nat /\ k \in 1 .. Len(program)
  BY WholeFacts
<1>1. PICK f : f = Function(i)
  OBVIOUS
<1>2. f \in 1 .. i /\ program[f].op = "function" /\ \A j \in f + 1 .. i : program[j].op # "function"
  BY <1>1, FunctionFacts
<1>3. ASSUME NEW j \in f + 1 .. k PROVE program[j].op # "function"
  <2>1. j \in f + 1 .. i \/ j \in i + 1 .. k
    BY <1>0, <1>2
  <2> QED BY <2>1, <1>2
<1>4. f \in 1 .. k
  BY <1>0, <1>2
<1> QED BY <1>0, <1>1, <1>2, <1>3, <1>4, FunctionIs

LEMMA ElsesFacts ==
  ASSUME WholeSource, NEW n, n = Len(program), NEW i \in 1 .. n, program[i].op = "if",
         NEW j \in Elses(i)
  PROVE  /\ j \in i + 1 .. n - 1 /\ j < Closing(i) /\ program[j].op = "else" /\ Opened(j) = Opened(i)
         /\ \A k \in Elses(i) : k = j
         /\ program[j + 1].op # "function" /\ Function(j + 1) = Function(i)
         /\ Closing(j) = Closing(i)
<1>1. PICK c : c = Closing(i)
  OBVIOUS
<1>2. /\ c \in i + 1 .. n - 1 /\ program[c].op = "fi" /\ Opened(c) = Opened(i) - 1
      /\ Opened(i) \in Nat \ {0}
      /\ \A h \in i + 1 .. c - 1 : Opened(h) >= Opened(i)
      /\ \A h \in i + 1 .. c + 1 : program[h].op # "function"
  BY <1>1, ClosingFacts
<1>3. Elses(i) = {k \in i + 1 .. c - 1 : program[k].op = "else" /\ Opened(k) = Opened(i)}
  BY <1>1 DEF Elses
<1>4. n \in Nat /\ i \in Nat /\ c \in Nat /\ \A k \in 0 .. n : Opened(k) \in Nat
  BY <1>2, WholeFacts
<1>5. ASSUME NEW k \in Elses(i), NEW h \in Elses(i), k < h PROVE FALSE
  <2>1. k \in i + 1 .. c - 1 /\ h \in i + 1 .. c - 1 /\ k \in 1 .. n /\ h \in 1 .. n
    BY <1>2, <1>3, <1>4
  <2>2. Closed(k, h)
    BY <2>1, <1>3, <1>5 DEF WholeSource, SourceOK, OneElse
  <2>3. PICK g \in k .. h : Opened(g) < Opened(k)
    BY <2>2 DEF Closed
  <2>4. g \in i + 1 .. c - 1 /\ g \in 0 .. n
    BY <2>1, <1>4, <1>2
  <2>5. Opened(g) >= Opened(i) /\ Opened(k) = Opened(i) /\ Opened(g) \in Nat
    BY <2>4, <1>2, <1>3, <1>4
  <2> QED BY <2>3, <2>5, <1>2
<1>6. j \in i + 1 .. c - 1 /\ program[j].op = "else" /\ Opened(j) = Opened(i) /\ j \in Nat
  BY <1>3, <1>4
<1>7. ASSUME NEW k \in Elses(i) PROVE k = j
  <2>1. k \in Nat
    BY <1>3, <1>4
  <2>2. ~ (k < j) /\ ~ (j < k)
    BY <1>5
  <2> QED BY <2>1, <2>2, <1>6
<1>8. program[j + 1].op # "function" /\ Function(j + 1) = Function(i)
  <2>1. j + 1 \in i .. n /\ \A h \in i + 1 .. j + 1 : h \in i + 1 .. c + 1
    BY <1>2, <1>4, <1>6
  <2>2. \A h \in i + 1 .. j + 1 : program[h].op # "function"
    BY <2>1, <1>2
  <2>3. j + 1 \in i + 1 .. c + 1
    BY <1>2, <1>4, <1>6
  <2> QED BY <2>1, <2>2, <2>3, <1>2, SameFunction
<1>9. Closing(j) = c
  <2>1. c \in j + 1 .. n /\ \A h \in j + 1 .. c - 1 : h \in i + 1 .. c - 1
    BY <1>2, <1>4, <1>6
  <2>2. Opened(c) < Opened(j) /\ \A h \in j + 1 .. c - 1 : Opened(h) >= Opened(j)
    BY <2>1, <1>2, <1>6
  <2> QED BY <2>1, <2>2, <1>6, ClosingIs
<1>10. j \in i + 1 .. n - 1 /\ j < c
  BY <1>2, <1>4, <1>6
<1> QED BY <1>1, <1>6, <1>7, <1>8, <1>9, <1>10

(* Where control goes from an item that nothing is to be done at.           *)
LEMMA SettleUnfold ==
  ASSUME WholeSource, NEW n, n = Len(program)
  PROVE  \A i \in 1 .. n :
           Settle[i] = CASE program[i].op = "else" -> Settle[Closing(i) + 1]
                         [] program[i].op = "fi"   -> Settle[i + 1]
                         [] OTHER                  -> i
<1> DEFINE S == 1 .. n
           value(f, i) == CASE program[i].op = "else" -> f[Closing(i) + 1]
                            [] program[i].op = "fi"   -> f[i + 1]
                            [] OTHER                  -> i
           step(f) == [i \in S |-> value(f, i)]
           F == [f \in [S -> Nat] |-> step(f)]
           height == [i \in S |-> n - i]
           settle == CHOOSE settle : settle = [i \in S |-> value(settle, i)]
<1>0. n \in Nat /\ program[n].op = "end"
  BY WholeFacts
<1>1. ASSUME NEW i \in S
      PROVE  /\ program[i].op = "else" => Closing(i) + 1 \in S /\ Closing(i) + 1 > i
             /\ program[i].op = "fi" => i + 1 \in S
  <2>1. ASSUME program[i].op = "else" PROVE Closing(i) + 1 \in S /\ Closing(i) + 1 > i
    <3>1. PICK c : c = Closing(i)
      OBVIOUS
    <3>2. c \in i + 1 .. n - 1
      BY <2>1, <3>1, ClosingFacts
    <3> QED BY <3>1, <3>2, <1>0
  <2>2. program[i].op = "fi" => i # n
    BY <1>0
  <2> QED BY <2>1, <2>2, <1>0
<1>2. ASSUME NEW f \in [S -> Nat] PROVE step(f) \in [S -> Nat] /\ F[f] = step(f)
  <2>1. ASSUME NEW i \in S PROVE value(f, i) \in Nat
    <3>1. CASE program[i].op = "else"
      <4>1. Closing(i) + 1 \in S
        BY <3>1, <1>1
      <4>2. value(f, i) = f[Closing(i) + 1]
        BY <3>1
      <4> HIDE DEF value, S
      <4> QED BY <4>1, <4>2
    <3>2. CASE program[i].op = "fi"
      <4>1. i + 1 \in S
        BY <3>2, <1>1
      <4>2. value(f, i) = f[i + 1]
        BY <3>2
      <4> HIDE DEF value, S
      <4> QED BY <4>1, <4>2
    <3>3. CASE program[i].op \notin {"else", "fi"}
      BY <3>3
    <3> QED BY <3>1, <3>2, <3>3
  <2> HIDE DEF value, S
  <2> QED BY <2>1
<1>3. height \in [S -> Nat] /\ \A i \in S : height[i] = n - i
  BY <1>0
<1>4. Recursive(S, Nat, height, F)
  <2>1. F \in [[S -> Nat] -> [S -> Nat]]
    <3> HIDE DEF step, S
    <3> QED BY <1>2
  <2>2. ASSUME NEW f \in [S -> Nat], NEW g \in [S -> Nat], NEW i \in S,
               \A y \in S : height[y] < height[i] => f[y] = g[y]
        PROVE  F[f][i] = F[g][i]
    <3>1. value(f, i) = value(g, i)
      <4>1. CASE program[i].op = "else"
        <5>1. Closing(i) + 1 \in S /\ Closing(i) + 1 > i
          BY <4>1, <1>1
        <5>2. height[Closing(i) + 1] < height[i]
          BY <5>1, <1>0, <1>3
        <5> QED BY <4>1, <5>1, <5>2, <2>2
      <4>2. CASE program[i].op = "fi"
        <5>1. i + 1 \in S
          BY <4>2, <1>1
        <5>2. height[i + 1] < height[i]
          BY <5>1, <1>0, <1>3
        <5> QED BY <4>2, <5>1, <5>2, <2>2
      <4>3. CASE program[i].op \notin {"else", "fi"}
        BY <4>3
      <4> QED BY <4>1, <4>2, <4>3
    <3>2. F[f] = step(f) /\ F[g] = step(g)
      <4> HIDE DEF F, S, step
      <4> QED BY <1>2
    <3> HIDE DEF F, S, value
    <3> QED BY <3>1, <3>2
  <2> HIDE DEF F, S, height
  <2> QED BY <2>1, <2>2 DEF Recursive
<1>5. PICK f \in [S -> Nat] : f = F[f]
  <2> HIDE DEF F, S, height
  <2> QED BY <1>3, <1>4, RecursiveFunctionExists
<1>6. f = step(f)
  <2> HIDE DEF F, S, step
  <2> QED BY <1>2, <1>5
<1>7. settle = [i \in S |-> value(settle, i)]
  <2>1. f = [i \in S |-> value(f, i)]
    BY <1>6
  <2>2. \E g : g = [i \in S |-> value(g, i)]
    <3> HIDE DEF value, S
    <3> QED BY <2>1
  <2> HIDE DEF value, S
  <2> QED BY <2>2
<1>8. Settle = settle
  BY DEF Settle
<1>9. \A i \in S : Settle[i] = value(Settle, i)
  <2> HIDE DEF settle, value, S
  <2> QED BY <1>7, <1>8
<1> HIDE DEF settle
<1> QED BY <1>9

LEMMA SettleFacts ==
  ASSUME WholeSource, NEW n, n = Len(program)
  PROVE  \A i \in 1 .. n :
           /\ Settle[i] \in i .. n /\ Function(Settle[i]) = Function(i)
           /\ program[Settle[i]].op \notin {"else", "fi"}
           /\ program[i].op \notin {"else", "fi"} => Settle[i] = i
           /\ program[i].op = "else" => Closing(i) + 1 \in 1 .. n /\ Settle[i] = Settle[Closing(i) + 1]
           /\ program[i].op = "fi" => i + 1 \in 1 .. n /\ Settle[i] = Settle[i + 1]
<1> DEFINE S == 1 .. n
           Good(i) == /\ Settle[i] \in i .. n /\ Function(Settle[i]) = Function(i)
                      /\ program[Settle[i]].op \notin {"else", "fi"}
                      /\ program[i].op \notin {"else", "fi"} => Settle[i] = i
                      /\ program[i].op = "else" => Closing(i) + 1 \in 1 .. n /\ Settle[i] = Settle[Closing(i) + 1]
                      /\ program[i].op = "fi" => i + 1 \in 1 .. n /\ Settle[i] = Settle[i + 1]
           T == {i \in S : Good(i)}
           height == [i \in S |-> n - i]
<1>0. n \in Nat /\ program[n].op = "end" /\ \A i \in 1 .. n : PlaceOK(i)
  BY WholeFacts
<1>1. \A i \in S : Settle[i] = CASE program[i].op = "else" -> Settle[Closing(i) + 1]
                                 [] program[i].op = "fi"   -> Settle[i + 1]
                                 [] OTHER                  -> i
  BY SettleUnfold
<1>2. height \in [S -> Nat] /\ \A i \in S : height[i] = n - i
  BY <1>0
<1>3. ASSUME NEW i \in S, \A y \in S : height[y] < height[i] => y \in T
      PROVE  Good(i)
  <2>0. \A y \in S : y > i => Good(y)
    <3> SUFFICES ASSUME NEW y \in S, y > i PROVE Good(y)
      OBVIOUS
    <3>1. height[y] < height[i]
      BY <1>0, <1>2
    <3>2. y \in T
      BY <3>1, <1>3
    <3> HIDE DEF Good
    <3> QED BY <3>2
  <2>1. CASE program[i].op = "else"
    <3>1. PICK c : c = Closing(i)
      OBVIOUS
    <3>2. c \in i + 1 .. n - 1 /\ \A j \in i + 1 .. c + 1 : program[j].op # "function"
      BY <2>1, <3>1, ClosingFacts
    <3>3. c + 1 \in S /\ c + 1 > i /\ c + 1 \in i .. n
      BY <3>2, <1>0
    <3>4. Function(c + 1) = Function(i)
      BY <3>2, <3>3, SameFunction
    <3>5. Good(c + 1)
      <4> HIDE DEF Good
      <4> QED BY <3>3, <2>0
    <3>6. Settle[i] = Settle[c + 1]
      BY <1>1, <2>1, <3>1
    <3>7. Settle[c + 1] \in c + 1 .. n /\ Function(Settle[c + 1]) = Function(c + 1)
          /\ program[Settle[c + 1]].op \notin {"else", "fi"}
      BY <3>5
    <3>8. Settle[c + 1] \in i .. n
      BY <3>7, <3>3, <1>0
    <3> QED BY <2>1, <3>1, <3>3, <3>4, <3>6, <3>7, <3>8
  <2>2. CASE program[i].op = "fi"
    <3>1. i # n /\ i + 1 \in S /\ i + 1 > i /\ i + 1 \in i .. n
      BY <1>0, <2>2
    <3>2. program[i + 1].op # "function"
      <4>1. PlaceOK(i + 1) /\ (i + 1) - 1 = i /\ i + 1 # 1
        BY <3>1, <1>0
      <4> QED BY <4>1, <2>2 DEF PlaceOK
    <3>3. Function(i + 1) = Function(i)
      <4>1. \A j \in i + 1 .. i + 1 : program[j].op # "function"
        BY <3>2
      <4> QED BY <3>1, <4>1, SameFunction
    <3>4. Good(i + 1)
      <4> HIDE DEF Good
      <4> QED BY <3>1, <2>0
    <3>5. Settle[i] = Settle[i + 1]
      BY <1>1, <2>2
    <3>6. Settle[i + 1] \in i + 1 .. n /\ Function(Settle[i + 1]) = Function(i + 1)
          /\ program[Settle[i + 1]].op \notin {"else", "fi"}
      BY <3>4
    <3>7. Settle[i + 1] \in i .. n
      BY <3>6, <3>1, <1>0
    <3> QED BY <2>2, <3>1, <3>3, <3>5, <3>6, <3>7
  <2>3. CASE program[i].op \notin {"else", "fi"}
    <3>1. Settle[i] = i
      BY <1>1, <2>3
    <3> QED BY <2>3, <3>1, <1>0
  <2> QED BY <2>1, <2>2, <2>3
<1>4. S \subseteq T
  <2>1. ASSUME NEW i \in S, \A y \in S : height[y] < height[i] => y \in T PROVE i \in T
    <3>1. Good(i)
      <4> HIDE DEF Good
      <4> QED BY <2>1, <1>3
    <3> HIDE DEF Good
    <3> QED BY <3>1
  <2> HIDE DEF S, T, height
  <2> QED BY <1>2, <2>1, HeightInduction
<1> QED BY <1>4

-----------------------------------------------------------------------------
(* What the blocks are meant to be *)

(* No operand on the right of `and' or `or' is one of those itself.         *)
RightsAreVariables == \A e \in Expressions : e.op # "variable" => e.right.op = "variable"

(* Where control goes that comes to a block of its kind: role[c] is the item *)
(* the block leads to, the facts that hold where it begins, and the          *)
(* expression that its PHI node has the value of.  A fact is that an operand *)
(* has the value of an expression if control came from a certain block, or   *)
(* from any (0), or that control never comes from there.                     *)
Plainly(goal) == [goal |-> goal, claims |-> {}, means |-> Absent]

(* In front of instruction k of block c the operand has the value of e.     *)
Knows(bs, role, c, k, o, e) ==
  \/ e.op = "variable" /\ o = Load(e.name)
  \/ k = 2 /\ Does(bs, c, 1).op = "phi" /\ o = PhiOf(c) /\ role[c].means = e

(* What block t begins with holds where instruction k of block c goes to t. *)
Carries(role, c, k, t) ==
  /\ \A f \in role[t].claims : f.from \in {0, c} =>
       ~f.never /\ k = 1 /\ [from |-> 0, never |-> FALSE, on |-> f.on, is |-> f.is] \in role[c].claims
  /\ RightsAreVariables => role[t].claims = {} \/ \E f \in role[t].claims : f.from \in {0, c}

(* Two branches of an if.                                                   *)
ForksIf(x, bs, role, c, k, y, p) ==
  /\ x.source[p].op = "if" /\ Knows(bs, role, c, k, y.on, x.source[p].condition)
  /\ role[y.yes].goal = x.settle[p + 1] /\ role[y.no].goal = x.other[p]
  /\ role[y.yes].claims = {} /\ role[y.no].claims = {}

(* The value is known already, or it is that of the operand on the right.   *)
Shorts(role, t, o, e) ==
  \A f \in role[t].claims : f.from = 0 /\ ~f.never /\ f.on = o /\ f.is = e
GoesOn(role, t, e) ==
  \A f \in role[t].claims :
    f.from = 0 /\ ~f.never /\ e.right.op = "variable" /\ f.on = Load(e.right.name) /\ f.is = e

ForksLazy(bs, role, c, k, y, p) ==
  /\ role[y.yes].goal = p /\ role[y.no].goal = p
  /\ \E e \in Expressions :
       /\ Knows(bs, role, c, k, y.on, e.left)
       /\ \/ e.op = "and" /\ Shorts(role, y.no, y.on, e) /\ GoesOn(role, y.yes, e)
          \/ e.op = "or" /\ Shorts(role, y.yes, y.on, e) /\ GoesOn(role, y.no, e)

PhiOK(role, c, k, y) ==
  /\ k = 1 /\ role[c].means \in Expressions /\ role[c].claims # {}
  /\ \A w \in y.incoming : \E f \in role[c].claims : f.from = w[1] /\ (f.never \/ f.on = w[2])
  /\ \A f \in role[c].claims :
       f.is = role[c].means /\ f.from # 0 /\ (~f.never => \E w \in y.incoming : w[1] = f.from)

(* An instruction does what the item that it is of means.                   *)
InstrOK(x, bs, role, named, c, k) ==
  LET y == Does(bs, c, k)
      p == Of(bs, c, k)
      item == x.source[p]
  IN  /\ p \in DOMAIN x.source /\ x.within[p] = Par(bs, c)
      /\ \/ y.op = "store" /\ item.op = "assign" /\ y.name = item.name /\ y.value = item.value
         \/ y.op = "phi" /\ PhiOK(role, c, k, y)
         \/ y.op = "ret" /\ item.op = "return" /\ Knows(bs, role, c, k, y.value, item.value)
         \/ y.op = "unreachable" /\ item.op = "end"
         \/ /\ y.op = "br" /\ y.to \in 1 .. Len(bs)
            /\ \/ role[y.to].goal = p /\ Carries(role, c, k, y.to)
               \/ item.op = "goto" /\ y.to = named[item.to]
         \/ /\ y.op = "condbr" /\ y.yes \in 1 .. Len(bs) /\ y.no \in 1 .. Len(bs)
            /\ ForksIf(x, bs, role, c, k, y, p) \/ ForksLazy(bs, role, c, k, y, p)

(* Where a block ends.                                                      *)
Ends(bs, c) == IF Long(bs, c) = 0 THEN {} ELSE Targets(Does(bs, c, Long(bs, c)))

(* A block has a function as soon as it has code, begins with the item that *)
(* it leads to, and has an end, unless the builder is in it (ins).          *)
BlockOK(x, bs, role, ins, D, c) ==
  /\ Par(bs, c) # 0 => Par(bs, c) \in 1 .. D /\ x.source[Par(bs, c)].op = "function"
  /\ Par(bs, c) = 0 => Long(bs, c) = 0
  /\ Long(bs, c) # 0 => Of(bs, c, 1) = role[c].goal
  /\ Par(bs, c) # 0 /\ c # ins => Long(bs, c) # 0 /\ Does(bs, c, Long(bs, c)).op \in Terminators

(* The next instruction is of the item that the program goes on with.       *)
FlowOK(x, bs, c, k) ==
  /\ Does(bs, c, k).op = "store" => Of(bs, c, k + 1) = x.settle[Of(bs, c, k) + 1]
  /\ Does(bs, c, k).op = "phi" => Of(bs, c, k + 1) = Of(bs, c, k)

(* Branches go to blocks of the same function, or to those that wait (W) for *)
(* the function under construction, or, from a goto, to the block of a label. *)
TargetOK(x, bs, ins, W, named, c, k) ==
  \A t \in Targets(Does(bs, c, k)) :
    \/ Par(bs, t) = Par(bs, c)
    \/ t \in W /\ Par(bs, c) = Par(bs, ins)
    \/ x.source[Of(bs, c, k)].op = "goto" /\ t = named[x.source[Of(bs, c, k)].to]

(* There is a branch from one function to another.                          *)
Cross(bs) ==
  \E c \in 1 .. Len(bs) : \E k \in 1 .. Long(bs, c) : \E t \in Targets(Does(bs, c, k)) :
    t \in 1 .. Len(bs) /\ Par(bs, t) # 0 /\ Par(bs, t) # Par(bs, c) /\ Par(bs, c) # 0

(* Blocks that hold, with e, all that the blocks of f end in.               *)
ClosedFrom(bs, ins, f, e, S) ==
  e \in S /\ \A c \in 1 .. Len(bs) : c \in S /\ Par(bs, c) = f /\ c # ins => Ends(bs, c) \subseteq S

(* Block e is where function f is entered, and from it the others of the    *)
(* function are reached.                                                    *)
EntryOK(x, bs, role, ins, f, e) ==
  /\ Par(bs, e) = f /\ role[e].goal = x.settle[f + 1] /\ role[e].claims = {}
  /\ Cross(bs) \/ \A c \in 1 .. Len(bs) : Par(bs, c) = f => e <= c
  /\ \A S : ClosedFrom(bs, ins, f, e, S) => \A c \in 1 .. Len(bs) : Par(bs, c) = f => c \in S

Core(x, bs, role, ins, W, D, named) ==
  /\ bs \in Seq(Blocks)
  /\ \A c \in 1 .. Len(bs) : BlockOK(x, bs, role, ins, D, c)
  /\ \A c \in 1 .. Len(bs) : \A k \in 1 .. Long(bs, c) : InstrOK(x, bs, role, named, c, k)
  /\ \A c \in 1 .. Len(bs) : \A k \in 1 .. Long(bs, c) - 1 : FlowOK(x, bs, c, k)
  /\ \A c \in 1 .. Len(bs) : \A k \in 1 .. Long(bs, c) : TargetOK(x, bs, ins, W, named, c, k)
  /\ \A t \in W : t \in 1 .. Len(bs) /\ Par(bs, t) = 0 /\ \E c \in 1 .. t - 1 : Par(bs, c) = Par(bs, ins)
  /\ \A f \in 1 .. D : x.source[f].op = "function" =>
       \E e \in 1 .. Len(bs) : EntryOK(x, bs, role, ins, f, e)

(* The next instruction in block ins may be of item p.                      *)
Ready(x, bs, role, ins, p) ==
  /\ Long(bs, ins) = 0 => role[ins].goal = p
  /\ Long(bs, ins) # 0 =>
       /\ Does(bs, ins, Long(bs, ins)).op = "store" => x.settle[Of(bs, ins, Long(bs, ins)) + 1] = p
       /\ Does(bs, ins, Long(bs, ins)).op = "phi" => Of(bs, ins, Long(bs, ins)) = p

(* Blocks are added and code is added, nothing else changes but that blocks *)
(* without a function get one.                                              *)
Kept(bs, role, named, bs2, role2, named2) ==
  /\ Len(bs) <= Len(bs2)
  /\ \A c \in 1 .. Len(bs) :
       /\ role2[c] = role[c]
       /\ Par(bs, c) # 0 => Par(bs2, c) = Par(bs, c)
       /\ Long(bs, c) <= Long(bs2, c)
       /\ \A k \in 1 .. Long(bs, c) : Does(bs2, c, k) = Does(bs, c, k) /\ Of(bs2, c, k) = Of(bs, c, k)
  /\ \A l \in DOMAIN named : named[l] # 0 => named2[l] = named[l]

LEMMA KeptSame ==
  ASSUME NEW bs, NEW role, NEW named,
         bs \in Seq(Blocks)
  PROVE  Kept(bs, role, named, bs, role, named)
<1>1. Len(bs) \in Nat /\ \A c \in 1 .. Len(bs) : Long(bs, c) \in Nat
  BY BlocksFacts
<1> QED BY <1>1 DEF Kept

LEMMA KeptTrans ==
  ASSUME NEW bs, NEW bs2, NEW bs3, NEW role, NEW role2, NEW role3, NEW named, NEW named2, NEW named3,
         bs \in Seq(Blocks), bs2 \in Seq(Blocks), bs3 \in Seq(Blocks), DOMAIN named2 = DOMAIN named,
         Kept(bs, role, named, bs2, role2, named2), Kept(bs2, role2, named2, bs3, role3, named3)
  PROVE  Kept(bs, role, named, bs3, role3, named3)
<1>1. /\ Len(bs) \in Nat /\ \A c \in 1 .. Len(bs) : Long(bs, c) \in Nat
      /\ Len(bs2) \in Nat /\ \A c \in 1 .. Len(bs2) : Long(bs2, c) \in Nat
      /\ Len(bs3) \in Nat /\ \A c \in 1 .. Len(bs3) : Long(bs3, c) \in Nat
  BY BlocksFacts
<1>2. Len(bs) <= Len(bs3)
  BY <1>1 DEF Kept
<1>3. ASSUME NEW c \in 1 .. Len(bs)
      PROVE  /\ role3[c] = role[c]
             /\ Par(bs, c) # 0 => Par(bs3, c) = Par(bs, c)
             /\ Long(bs, c) <= Long(bs3, c)
             /\ \A k \in 1 .. Long(bs, c) : Does(bs3, c, k) = Does(bs, c, k) /\ Of(bs3, c, k) = Of(bs, c, k)
  <2>1. c \in 1 .. Len(bs2) /\ c \in 1 .. Len(bs3)
    BY <1>1, <1>2 DEF Kept
  <2>2. Long(bs, c) <= Long(bs2, c) /\ Long(bs2, c) <= Long(bs3, c)
    BY <2>1 DEF Kept
  <2>3. \A k \in 1 .. Long(bs, c) : k \in 1 .. Long(bs2, c)
    BY <2>1, <2>2, <1>1
  <2>4. Long(bs, c) <= Long(bs3, c)
    BY <2>1, <2>2, <1>1
  <2> QED BY <2>1, <2>3, <2>4 DEF Kept
<1>4. \A l \in DOMAIN named : named[l] # 0 => named3[l] = named[l]
  BY DEF Kept
<1> QED BY <1>2, <1>3, <1>4 DEF Kept

LEMMA KnowsKept ==
  ASSUME NEW bs, NEW bs2, NEW role, NEW role2, NEW named, NEW named2, NEW c, NEW k, NEW o, NEW e,
         bs \in Seq(Blocks), bs2 \in Seq(Blocks), Kept(bs, role, named, bs2, role2, named2),
         c \in 1 .. Len(bs), k \in 1 .. Long(bs, c) + 1, Knows(bs, role, c, k, o, e)
  PROVE  Knows(bs2, role2, c, k, o, e)
<1>1. Long(bs, c) \in Nat
  BY BlocksFacts
<1>2. k = 2 => 1 \in 1 .. Long(bs, c)
  BY <1>1
<1>3. role2[c] = role[c] /\ (k = 2 => Does(bs2, c, 1) = Does(bs, c, 1))
  BY <1>2 DEF Kept
<1> QED BY <1>3 DEF Knows

LEMMA InstrKept ==
  ASSUME NEW bs, NEW bs2, NEW role, NEW role2, NEW named, NEW named2, NEW x, NEW c, NEW k,
         bs \in Seq(Blocks), bs2 \in Seq(Blocks), Kept(bs, role, named, bs2, role2, named2),
         c \in 1 .. Len(bs), k \in 1 .. Long(bs, c), Par(bs, c) # 0,
         \A i \in DOMAIN x.source : x.source[i].op = "goto" => x.source[i].to \in DOMAIN named,
         InstrOK(x, bs, role, named, c, k)
  PROVE  InstrOK(x, bs2, role2, named2, c, k)
<1> DEFINE y == Does(bs, c, k)
           p == Of(bs, c, k)
           item == x.source[p]
<1>0. /\ Len(bs) \in Nat /\ Len(bs2) \in Nat /\ Long(bs, c) \in Nat /\ Long(bs2, c) \in Nat
      /\ Len(bs) <= Len(bs2) /\ k \in 1 .. Long(bs, c) + 1
  <2>1. Len(bs) \in Nat /\ Len(bs2) \in Nat /\ Len(bs) <= Len(bs2)
    BY BlocksFacts DEF Kept
  <2>2. c \in 1 .. Len(bs2)
    BY <2>1
  <2> QED BY <2>1, <2>2, BlocksFacts
<1>1. /\ Does(bs2, c, k) = y /\ Of(bs2, c, k) = p /\ Par(bs2, c) = Par(bs, c)
      /\ role2[c] = role[c]
  BY DEF Kept
<1>2. \A t \in 1 .. Len(bs) : t \in 1 .. Len(bs2) /\ role2[t] = role[t]
  BY <1>0 DEF Kept
<1>3. p \in DOMAIN x.source /\ x.within[p] = Par(bs2, c)
  BY <1>1 DEF InstrOK
<1>4. \A o, e : Knows(bs, role, c, k, o, e) => Knows(bs2, role2, c, k, o, e)
  BY <1>0, KnowsKept
<1>5. \A t \in 1 .. Len(bs) : Carries(role, c, k, t) => Carries(role2, c, k, t)
  BY <1>1, <1>2 DEF Carries
<1>6. CASE y.op = "store" \/ y.op = "unreachable"
  BY <1>1, <1>3, <1>6 DEF InstrOK
<1>7. CASE y.op = "phi"
  <2>1. PhiOK(role2, c, k, y)
    BY <1>1, <1>7 DEF InstrOK, PhiOK
  <2> QED BY <1>1, <1>3, <1>7, <2>1 DEF InstrOK
<1>8. CASE y.op = "ret"
  BY <1>1, <1>3, <1>4, <1>8 DEF InstrOK
<1>9. CASE y.op = "br"
  <2>1. /\ y.to \in 1 .. Len(bs)
        /\ \/ role[y.to].goal = p /\ Carries(role, c, k, y.to)
           \/ item.op = "goto" /\ y.to = named[item.to]
    BY <1>9 DEF InstrOK
  <2>2. item.op = "goto" /\ y.to = named[item.to] => y.to = named2[item.to]
    <3>1. y.to # 0
      BY <2>1, <1>0
    <3> QED BY <3>1, <1>3 DEF Kept
  <2>3. \/ role2[y.to].goal = p /\ Carries(role2, c, k, y.to)
        \/ item.op = "goto" /\ y.to = named2[item.to]
    BY <2>1, <2>2, <1>2, <1>5
  <2> QED BY <1>1, <1>2, <1>3, <1>9, <2>1, <2>3 DEF InstrOK
<1>10. CASE y.op = "condbr"
  <2>1. /\ y.yes \in 1 .. Len(bs) /\ y.no \in 1 .. Len(bs)
        /\ ForksIf(x, bs, role, c, k, y, p) \/ ForksLazy(bs, role, c, k, y, p)
    BY <1>10 DEF InstrOK
  <2>2. role2[y.yes] = role[y.yes] /\ role2[y.no] = role[y.no]
        /\ y.yes \in 1 .. Len(bs2) /\ y.no \in 1 .. Len(bs2)
    BY <2>1, <1>2
  <2>3. ForksIf(x, bs, role, c, k, y, p) => ForksIf(x, bs2, role2, c, k, y, p)
    BY <2>2, <1>4 DEF ForksIf
  <2>4. ForksLazy(bs, role, c, k, y, p) => ForksLazy(bs2, role2, c, k, y, p)
    <3> SUFFICES ASSUME ForksLazy(bs, role, c, k, y, p) PROVE ForksLazy(bs2, role2, c, k, y, p)
      OBVIOUS
    <3>1. PICK e \in Expressions :
            /\ Knows(bs, role, c, k, y.on, e.left)
            /\ \/ e.op = "and" /\ Shorts(role, y.no, y.on, e) /\ GoesOn(role, y.yes, e)
               \/ e.op = "or" /\ Shorts(role, y.yes, y.on, e) /\ GoesOn(role, y.no, e)
      BY DEF ForksLazy
    <3>2. Knows(bs2, role2, c, k, y.on, e.left)
      BY <3>1, <1>4
    <3>3. \/ e.op = "and" /\ Shorts(role2, y.no, y.on, e) /\ GoesOn(role2, y.yes, e)
          \/ e.op = "or" /\ Shorts(role2, y.yes, y.on, e) /\ GoesOn(role2, y.no, e)
      BY <3>1, <2>2 DEF Shorts, GoesOn
    <3>4. role2[y.yes].goal = p /\ role2[y.no].goal = p
      BY <2>2 DEF ForksLazy
    <3> HIDE DEF y, p
    <3> QED BY <3>2, <3>3, <3>4 DEF ForksLazy
  <2> HIDE DEF y, p
  <2>5. /\ y.op = "condbr" /\ y.yes \in 1 .. Len(bs2) /\ y.no \in 1 .. Len(bs2)
        /\ ForksIf(x, bs2, role2, c, k, y, p) \/ ForksLazy(bs2, role2, c, k, y, p)
    BY <1>10, <2>1, <2>2, <2>3, <2>4
  <2> QED BY <1>1, <1>3, <2>5 DEF InstrOK
<1> QED BY <1>6, <1>7, <1>8, <1>9, <1>10 DEF InstrOK

-----------------------------------------------------------------------------
(* One instruction more *)

(* Block ins gets instruction y of item p; t is the block that follows,     *)
(* with the same function; further blocks are made without a function.      *)
Extended(bs, ins, t, y, p, bs2) ==
  /\ Len(bs) <= Len(bs2)
  /\ \A c \in 1 .. Len(bs2) :
       IF c <= Len(bs)
       THEN /\ Par(bs2, c) = IF c = t THEN Par(bs, ins) ELSE Par(bs, c)
            /\ Long(bs2, c) = IF c = ins THEN Long(bs, ins) + 1 ELSE Long(bs, c)
            /\ \A k \in 1 .. Long(bs, c) : Does(bs2, c, k) = Does(bs, c, k) /\ Of(bs2, c, k) = Of(bs, c, k)
       ELSE Long(bs2, c) = 0 /\ Par(bs2, c) = IF c = t THEN Par(bs, ins) ELSE 0
  /\ Does(bs2, ins, Long(bs, ins) + 1) = y /\ Of(bs2, ins, Long(bs, ins) + 1) = p

(* Control goes on in another block t, which the instruction y leads to or   *)
(* a finished block of the function, and which is new, waits or is the       *)
(* target of a block created before it.                                      *)
Moves(bs, ins, W, t, y) ==
  /\ y.op \in Terminators
  /\ t > Len(bs) \/ Par(bs, t) = 0
  /\ \/ t \in Targets(y)
     \/ \E c \in 1 .. Len(bs) : c # ins /\ Par(bs, c) = Par(bs, ins) /\ t \in Ends(bs, c)
  /\ \/ t > Len(bs)
     \/ t \in W
     \/ \E c \in 1 .. t - 1 : \E k \in 1 .. Long(bs, c) : t \in Targets(Does(bs, c, k))

(* What the instruction and the next block have to be.                      *)
Follows(x, bs, role, ins, W, t, y, p, bs2, role2, W2, named2) ==
  /\ Ready(x, bs, role, ins, p)
  /\ InstrOK(x, bs2, role2, named2, ins, Long(bs, ins) + 1)
  /\ TargetOK(x, bs2, t, W2, named2, ins, Long(bs, ins) + 1)
  /\ t = ins \/ Moves(bs, ins, W, t, y)
  /\ \A w \in W2 : (w \in W \/ w > Len(bs)) /\ w # t /\ w \in 1 .. Len(bs2)
  /\ \A w \in W : w = t \/ w \in W2

RolesKept(bs, role, role2) == \A c \in 1 .. Len(bs) : role2[c] = role[c]
NamesKept(named, named2) ==
  DOMAIN named2 = DOMAIN named /\ \A l \in DOMAIN named : named[l] # 0 => named2[l] = named[l]

LEMMA ExtendedKept ==
  ASSUME NEW bs, NEW bs2, NEW ins, NEW t, NEW y, NEW p, NEW role, NEW role2, NEW named, NEW named2,
         bs \in Seq(Blocks), bs2 \in Seq(Blocks), ins \in 1 .. Len(bs), t \in 1 .. Len(bs2),
         Extended(bs, ins, t, y, p, bs2), t = ins \/ t > Len(bs) \/ Par(bs, t) = 0,
         RolesKept(bs, role, role2), NamesKept(named, named2)
  PROVE  Kept(bs, role, named, bs2, role2, named2)
<1>1. /\ Len(bs) \in Nat /\ Len(bs2) \in Nat /\ Len(bs) <= Len(bs2)
      /\ \A c \in 1 .. Len(bs) : Long(bs, c) \in Nat /\ c \in 1 .. Len(bs2)
  <2>1. Len(bs) \in Nat /\ Len(bs2) \in Nat /\ Len(bs) <= Len(bs2)
    BY BlocksFacts DEF Extended
  <2> QED BY <2>1, BlocksFacts
<1>2. ASSUME NEW c \in 1 .. Len(bs)
      PROVE  /\ role2[c] = role[c]
             /\ Par(bs, c) # 0 => Par(bs2, c) = Par(bs, c)
             /\ Long(bs, c) <= Long(bs2, c)
             /\ \A k \in 1 .. Long(bs, c) : Does(bs2, c, k) = Does(bs, c, k) /\ Of(bs2, c, k) = Of(bs, c, k)
  <2>1. c \in 1 .. Len(bs2) /\ c <= Len(bs) /\ Long(bs, c) \in Nat
    BY <1>1
  <2>2. /\ Par(bs2, c) = IF c = t THEN Par(bs, ins) ELSE Par(bs, c)
        /\ Long(bs2, c) = IF c = ins THEN Long(bs, ins) + 1 ELSE Long(bs, c)
        /\ \A k \in 1 .. Long(bs, c) : Does(bs2, c, k) = Does(bs, c, k) /\ Of(bs2, c, k) = Of(bs, c, k)
    BY <2>1 DEF Extended
  <2>3. Long(bs, c) <= Long(bs2, c)
    BY <2>1, <2>2
  <2>4. Par(bs, c) # 0 => Par(bs2, c) = Par(bs, c)
    BY <2>1, <2>2
  <2> QED BY <2>2, <2>3, <2>4 DEF RolesKept
<1> QED BY <1>1, <1>2 DEF Kept, NamesKept

(* The parts of Core one by one.                                            *)
LEMMA TargetsOfInstr ==
  ASSUME NEW x, NEW bs, NEW role, NEW named, NEW c, NEW k,
         InstrOK(x, bs, role, named, c, k)
  PROVE  Targets(Does(bs, c, k)) \subseteq 1 .. Len(bs)
<1> DEFINE y == Does(bs, c, k)
<1>1. CASE y.op \in {"store", "phi", "ret", "unreachable"}
  BY <1>1 DEF Targets
<1>2. CASE y.op = "br"
  BY <1>2 DEF Targets, InstrOK
<1>3. CASE y.op = "condbr"
  BY <1>3 DEF Targets, InstrOK
<1>4. y.op \in {"store", "phi", "ret", "unreachable", "br", "condbr"}
  BY DEF InstrOK
<1> QED BY <1>1, <1>2, <1>3, <1>4

LEMMA ExtendBlocks ==
  ASSUME NEW bs, NEW bs2, NEW ins, NEW t, NEW y, NEW p, NEW x, NEW role, NEW role2, NEW W, NEW W2, NEW D,
         NEW named, NEW named2,
         bs \in Seq(Blocks), bs2 \in Seq(Blocks), ins \in 1 .. Len(bs), t \in 1 .. Len(bs2),
         Extended(bs, ins, t, y, p, bs2), D \in Nat, RolesKept(bs, role, role2),
         Core(x, bs, role, ins, W, D, named), Par(bs, ins) # 0,
         Follows(x, bs, role, ins, W, t, y, p, bs2, role2, W2, named2)
  PROVE  \A c \in 1 .. Len(bs2) : BlockOK(x, bs2, role2, t, D, c)
<1> SUFFICES ASSUME NEW c \in 1 .. Len(bs2) PROVE BlockOK(x, bs2, role2, t, D, c)
  OBVIOUS
<1>0. /\ Len(bs) \in Nat /\ Len(bs2) \in Nat /\ Len(bs) <= Len(bs2) /\ Long(bs, ins) \in Nat
      /\ c \in Nat /\ t \in Nat /\ ins \in Nat
  BY BlocksFacts DEF Extended
<1>1. /\ Par(bs, ins) \in 1 .. D /\ x.source[Par(bs, ins)].op = "function"
  BY DEF Core, BlockOK
<1>2. t = ins \/ (y.op \in Terminators /\ (t > Len(bs) \/ Par(bs, t) = 0))
  BY DEF Follows, Moves
<1>3. CASE c <= Len(bs)
  <2>0. c \in 1 .. Len(bs) /\ Long(bs, c) \in Nat
    <3>1. c \in 1 .. Len(bs)
      BY <1>0, <1>3
    <3> QED BY <3>1, BlocksFacts
  <2>1. /\ Par(bs2, c) = IF c = t THEN Par(bs, ins) ELSE Par(bs, c)
        /\ Long(bs2, c) = IF c = ins THEN Long(bs, ins) + 1 ELSE Long(bs, c)
        /\ \A k \in 1 .. Long(bs, c) : Does(bs2, c, k) = Does(bs, c, k) /\ Of(bs2, c, k) = Of(bs, c, k)
    BY <1>3 DEF Extended
  <2>2. BlockOK(x, bs, role, ins, D, c) /\ role2[c] = role[c]
    BY <2>0 DEF Core, RolesKept
  <2>3. CASE c = ins
    <3>1. Par(bs2, c) = Par(bs, ins) /\ Long(bs2, c) = Long(bs, ins) + 1
      BY <2>1, <2>3
    <3>2. Of(bs2, c, 1) = role[c].goal
      <4>1. CASE Long(bs, ins) = 0
        <5>1. Of(bs2, ins, 0 + 1) = p /\ role[ins].goal = p
          BY <4>1 DEF Extended, Follows, Ready
        <5> QED BY <5>1, <2>3
      <4>2. CASE Long(bs, ins) # 0
        <5>1. 1 \in 1 .. Long(bs, c)
          BY <1>0, <4>2, <2>3
        <5> QED BY <5>1, <2>1, <2>2, <2>3, <4>2 DEF BlockOK
      <4> QED BY <4>1, <4>2
    <3>3. c # t => Does(bs2, c, Long(bs, ins) + 1) = y /\ y.op \in Terminators
      BY <1>2, <2>3 DEF Extended
    <3>4. Long(bs, ins) + 1 # 0
      BY <1>0
    <3> QED BY <1>1, <2>2, <3>1, <3>2, <3>3, <3>4 DEF BlockOK
  <2>4. CASE c # ins /\ c = t
    <3>1. Par(bs, c) = 0 /\ Long(bs, c) = 0
      BY <1>2, <1>3, <1>0, <2>4, <2>2 DEF BlockOK
    <3>2. Long(bs2, c) = 0 /\ Par(bs2, c) = Par(bs, ins)
      BY <2>1, <2>4, <3>1
    <3> QED BY <1>1, <2>4, <3>2 DEF BlockOK
  <2>5. CASE c # ins /\ c # t
    <3>1. Par(bs2, c) = Par(bs, c) /\ Long(bs2, c) = Long(bs, c)
      BY <2>1, <2>5
    <3>2. Long(bs, c) # 0 => 1 \in 1 .. Long(bs, c) /\ Long(bs, c) \in 1 .. Long(bs, c)
      BY <2>0
    <3> QED BY <2>1, <2>2, <2>5, <3>1, <3>2 DEF BlockOK
  <2> QED BY <2>3, <2>4, <2>5
<1>4. CASE ~ (c <= Len(bs))
  <2>1. Long(bs2, c) = 0 /\ Par(bs2, c) = IF c = t THEN Par(bs, ins) ELSE 0
    BY <1>4 DEF Extended
  <2> QED BY <1>1, <2>1 DEF BlockOK
<1> QED BY <1>3, <1>4

LEMMA ExtendInstrs ==
  ASSUME NEW bs, NEW bs2, NEW ins, NEW t, NEW y, NEW p, NEW x, NEW role, NEW role2, NEW W, NEW W2, NEW D,
         NEW named, NEW named2,
         bs \in Seq(Blocks), bs2 \in Seq(Blocks), ins \in 1 .. Len(bs), t \in 1 .. Len(bs2),
         Extended(bs, ins, t, y, p, bs2), D \in Nat, Core(x, bs, role, ins, W, D, named),
         Kept(bs, role, named, bs2, role2, named2),
         \A i \in DOMAIN x.source : x.source[i].op = "goto" => x.source[i].to \in DOMAIN named,
         Par(bs, ins) # 0, Follows(x, bs, role, ins, W, t, y, p, bs2, role2, W2, named2)
  PROVE  /\ \A c \in 1 .. Len(bs2) : \A k \in 1 .. Long(bs2, c) : InstrOK(x, bs2, role2, named2, c, k)
         /\ \A c \in 1 .. Len(bs2) : \A k \in 1 .. Long(bs2, c) - 1 : FlowOK(x, bs2, c, k)
         /\ \A c \in 1 .. Len(bs2) : \A k \in 1 .. Long(bs2, c) : TargetOK(x, bs2, t, W2, named2, c, k)
<1>0. /\ Len(bs) \in Nat /\ Len(bs2) \in Nat /\ Len(bs) <= Len(bs2) /\ Long(bs, ins) \in Nat
      /\ t \in Nat /\ ins \in Nat
  BY BlocksFacts DEF Extended
<1>1. ASSUME NEW c \in 1 .. Len(bs2)
      PROVE  /\ c > Len(bs) => Long(bs2, c) = 0
             /\ c <= Len(bs) =>
                  /\ c \in 1 .. Len(bs) /\ Long(bs, c) \in Nat
                  /\ Par(bs2, c) = IF c = t THEN Par(bs, ins) ELSE Par(bs, c)
                  /\ Long(bs2, c) = IF c = ins THEN Long(bs, ins) + 1 ELSE Long(bs, c)
                  /\ \A k \in 1 .. Long(bs, c) : Does(bs2, c, k) = Does(bs, c, k) /\ Of(bs2, c, k) = Of(bs, c, k)
  <2>1. c \in Nat
    OBVIOUS
  <2>2. c <= Len(bs) => c \in 1 .. Len(bs)
    BY <1>0
  <2>3. c <= Len(bs) => Long(bs, c) \in Nat
    BY <2>2, BlocksFacts
  <2>4. c > Len(bs) => ~ (c <= Len(bs))
    BY <2>1, <1>0
  <2> QED BY <2>2, <2>3, <2>4 DEF Extended
<1>2. ASSUME NEW c \in 1 .. Len(bs2), NEW k \in 1 .. Long(bs2, c)
      PROVE  /\ c \in 1 .. Len(bs) /\ k \in Nat /\ Long(bs, c) \in Nat
             /\ k \in 1 .. Long(bs, c) \/ (c = ins /\ k = Long(bs, ins) + 1)
  <2>0. c \in Nat
    OBVIOUS
  <2>1. c <= Len(bs)
    <3>1. CASE c > Len(bs)
      BY <3>1, <1>1
    <3> QED BY <3>1, <1>0, <2>0
  <2>2. c \in 1 .. Len(bs) /\ Long(bs, c) \in Nat
        /\ Long(bs2, c) = IF c = ins THEN Long(bs, ins) + 1 ELSE Long(bs, c)
    BY <1>1, <2>1
  <2>3. CASE c = ins
    BY <2>2, <2>3
  <2>4. CASE c # ins
    BY <2>2, <2>4
  <2> QED BY <2>2, <2>3, <2>4
<1>3. ASSUME NEW c \in 1 .. Len(bs), NEW k \in 1 .. Long(bs, c)
      PROVE  /\ Par(bs, c) # 0 /\ Par(bs2, c) = Par(bs, c)
             /\ Does(bs2, c, k) = Does(bs, c, k) /\ Of(bs2, c, k) = Of(bs, c, k)
  <2>1. Long(bs, c) \in Nat
    BY BlocksFacts
  <2>2. Long(bs, c) # 0
    BY <2>1
  <2>3. Par(bs, c) # 0
    BY <2>2 DEF Core, BlockOK
  <2> QED BY <2>3 DEF Kept
<1>4. ASSUME NEW c \in 1 .. Len(bs2), NEW k \in 1 .. Long(bs2, c)
      PROVE  InstrOK(x, bs2, role2, named2, c, k)
  <2>1. CASE c = ins /\ k = Long(bs, ins) + 1
    BY <2>1 DEF Follows
  <2>2. CASE k \in 1 .. Long(bs, c)
    <3>1. c \in 1 .. Len(bs)
      BY <1>2
    <3>2. InstrOK(x, bs, role, named, c, k) /\ Par(bs, c) # 0
      BY <2>2, <3>1, <1>3 DEF Core
    <3> QED BY <2>2, <3>1, <3>2, InstrKept
  <2> QED BY <2>1, <2>2, <1>2
<1>5. ASSUME NEW c \in 1 .. Len(bs2), NEW k \in 1 .. Long(bs2, c) - 1
      PROVE  FlowOK(x, bs2, c, k)
  <2>0. Long(bs2, c) \in Nat
    BY BlocksFacts
  <2>1. k \in 1 .. Long(bs2, c) /\ k + 1 \in 1 .. Long(bs2, c) /\ k \in Nat
    BY <2>0
  <2>2. /\ c \in 1 .. Len(bs) /\ Long(bs, c) \in Nat
        /\ k \in 1 .. Long(bs, c) \/ (c = ins /\ k = Long(bs, ins) + 1)
        /\ k + 1 \in 1 .. Long(bs, c) \/ (c = ins /\ k + 1 = Long(bs, ins) + 1)
    BY <2>1, <1>2
  <2>3. CASE k + 1 \in 1 .. Long(bs, c)
    <3>0. Long(bs, c) \in Nat /\ k \in Nat /\ k # 0
      BY <2>1, <2>2
    <3>1. k \in 1 .. Long(bs, c) - 1 /\ k \in 1 .. Long(bs, c)
      BY <3>0, <2>3
    <3>2. FlowOK(x, bs, c, k)
      BY <2>2, <3>1 DEF Core
    <3> QED BY <2>2, <2>3, <3>1, <3>2, <1>3 DEF FlowOK
  <2>4. CASE c = ins /\ k + 1 = Long(bs, ins) + 1
    <3>1. k = Long(bs, ins) /\ k # 0 /\ k \in 1 .. Long(bs, c)
      BY <2>1, <2>4, <1>0
    <3>2. Does(bs2, c, k) = Does(bs, c, k) /\ Of(bs2, c, k) = Of(bs, c, k) /\ Of(bs2, c, k + 1) = p
      BY <2>2, <2>4, <3>1, <1>3 DEF Extended
    <3> QED BY <3>1, <3>2, <2>4 DEF FlowOK, Follows, Ready
  <2> QED BY <2>2, <2>3, <2>4
<1>6. ASSUME NEW c \in 1 .. Len(bs2), NEW k \in 1 .. Long(bs2, c)
      PROVE  TargetOK(x, bs2, t, W2, named2, c, k)
  <2>1. CASE c = ins /\ k = Long(bs, ins) + 1
    BY <2>1 DEF Follows
  <2>2. CASE k \in 1 .. Long(bs, c)
    <3>1. c \in 1 .. Len(bs)
      BY <1>2
    <3>2. /\ TargetOK(x, bs, ins, W, named, c, k) /\ InstrOK(x, bs, role, named, c, k)
          /\ Par(bs, c) # 0 /\ Par(bs2, c) = Par(bs, c)
          /\ Does(bs2, c, k) = Does(bs, c, k) /\ Of(bs2, c, k) = Of(bs, c, k)
      BY <2>2, <3>1, <1>3 DEF Core
    <3>3. Targets(Does(bs, c, k)) \subseteq 1 .. Len(bs)
      BY <3>2, TargetsOfInstr
    <3>4. Par(bs2, t) = Par(bs, ins)
      <4>1. CASE t <= Len(bs)
        BY <4>1, <1>1
      <4>2. CASE ~ (t <= Len(bs))
        BY <4>2 DEF Extended
      <4> QED BY <4>1, <4>2
    <3>5. ASSUME NEW s \in Targets(Does(bs, c, k))
          PROVE  \/ Par(bs2, s) = Par(bs2, c)
                 \/ s \in W2 /\ Par(bs2, c) = Par(bs2, t)
                 \/ x.source[Of(bs2, c, k)].op = "goto" /\ s = named2[x.source[Of(bs2, c, k)].to]
      <4>1. s \in 1 .. Len(bs)
        BY <3>3
      <4>2. CASE Par(bs, s) = Par(bs, c)
        BY <4>1, <4>2, <3>2 DEF Kept
      <4>3. CASE s \in W /\ Par(bs, c) = Par(bs, ins)
        <5>1. s = t \/ s \in W2
          BY <4>3 DEF Follows
        <5> QED BY <5>1, <4>3, <3>2, <3>4
      <4>4. CASE x.source[Of(bs, c, k)].op = "goto" /\ s = named[x.source[Of(bs, c, k)].to]
        <5>1. Of(bs, c, k) \in DOMAIN x.source
          BY <3>2 DEF InstrOK
        <5>2. x.source[Of(bs, c, k)].to \in DOMAIN named
          BY <5>1, <4>4
        <5>3. s # 0
          BY <4>1, <1>0
        <5>4. s = named2[x.source[Of(bs, c, k)].to]
          BY <5>2, <5>3, <4>4 DEF Kept
        <5> QED BY <5>4, <4>4, <3>2
      <4> QED BY <4>2, <4>3, <4>4, <3>2 DEF TargetOK
    <3> QED BY <3>2, <3>5 DEF TargetOK
  <2> QED BY <2>1, <2>2, <1>2
<1> QED BY <1>4, <1>5, <1>6

LEMMA CrossKept ==
  ASSUME NEW bs, NEW bs2, NEW role, NEW role2, NEW named, NEW named2,
         bs \in Seq(Blocks), bs2 \in Seq(Blocks), Kept(bs, role, named, bs2, role2, named2), Cross(bs)
  PROVE  Cross(bs2)
<1>a. PICK c \in 1 .. Len(bs) : \E k \in 1 .. Long(bs, c) : \E s \in Targets(Does(bs, c, k)) :
        s \in 1 .. Len(bs) /\ Par(bs, s) # 0 /\ Par(bs, s) # Par(bs, c) /\ Par(bs, c) # 0
  BY DEF Cross
<1>b. PICK k \in 1 .. Long(bs, c) : \E s \in Targets(Does(bs, c, k)) :
        s \in 1 .. Len(bs) /\ Par(bs, s) # 0 /\ Par(bs, s) # Par(bs, c) /\ Par(bs, c) # 0
  BY <1>a
<1>1. PICK s \in Targets(Does(bs, c, k)) :
        s \in 1 .. Len(bs) /\ Par(bs, s) # 0 /\ Par(bs, s) # Par(bs, c) /\ Par(bs, c) # 0
  BY <1>b
<1>2. /\ Len(bs) \in Nat /\ Len(bs2) \in Nat /\ Len(bs) <= Len(bs2)
      /\ \A d \in 1 .. Len(bs) : d \in 1 .. Len(bs2)
  BY BlocksFacts DEF Kept
<1>3. Long(bs, c) \in Nat /\ Long(bs2, c) \in Nat /\ Long(bs, c) <= Long(bs2, c)
  BY <1>2, BlocksFacts DEF Kept
<1>4. k \in 1 .. Long(bs2, c)
  BY <1>3
<1>5. Does(bs2, c, k) = Does(bs, c, k) /\ Par(bs2, c) = Par(bs, c) /\ Par(bs2, s) = Par(bs, s)
  BY <1>1 DEF Kept
<1> QED BY <1>1, <1>2, <1>4, <1>5 DEF Cross

(* What is reached stays so.                                                *)
LEMMA ExtendClosed ==
  ASSUME NEW bs, NEW bs2, NEW ins, NEW t, NEW y, NEW p, NEW W, NEW f, NEW e, NEW S,
         bs \in Seq(Blocks), bs2 \in Seq(Blocks), ins \in 1 .. Len(bs), t \in 1 .. Len(bs2),
         Extended(bs, ins, t, y, p, bs2), Par(bs, ins) # 0, t = ins \/ Moves(bs, ins, W, t, y),
         f \in Nat \ {0}, e \in 1 .. Len(bs),
         \A R : ClosedFrom(bs, ins, f, e, R) => \A c \in 1 .. Len(bs) : Par(bs, c) = f => c \in R,
         ClosedFrom(bs2, t, f, e, S)
  PROVE  \A c \in 1 .. Len(bs2) : Par(bs2, c) = f => c \in S
<1>0. /\ Len(bs) \in Nat /\ Len(bs2) \in Nat /\ Len(bs) <= Len(bs2) /\ Long(bs, ins) \in Nat
      /\ t \in Nat /\ ins \in Nat /\ ins \in 1 .. Len(bs2)
  BY BlocksFacts DEF Extended
<1>1. ASSUME NEW c \in 1 .. Len(bs)
      PROVE  /\ c \in 1 .. Len(bs2) /\ c <= Len(bs)
             /\ Par(bs2, c) = IF c = t THEN Par(bs, ins) ELSE Par(bs, c)
             /\ c # ins => Ends(bs2, c) = Ends(bs, c)
  <2>1. c \in 1 .. Len(bs2) /\ c <= Len(bs) /\ Long(bs, c) \in Nat
    BY <1>0, BlocksFacts
  <2>2. /\ Par(bs2, c) = IF c = t THEN Par(bs, ins) ELSE Par(bs, c)
        /\ c # ins => Long(bs2, c) = Long(bs, c)
        /\ \A k \in 1 .. Long(bs, c) : Does(bs2, c, k) = Does(bs, c, k)
    BY <2>1 DEF Extended
  <2>3. c # ins => Ends(bs2, c) = Ends(bs, c)
    <3>1. Long(bs, c) # 0 => Long(bs, c) \in 1 .. Long(bs, c)
      BY <2>1
    <3> QED BY <2>2, <3>1 DEF Ends
  <2> QED BY <2>1, <2>2, <2>3
<1>2. t # ins => \A c \in 1 .. Len(bs) : Par(bs, c) # 0 => c # t
  <2>1. t # ins => t > Len(bs) \/ Par(bs, t) = 0
    BY DEF Moves
  <2> QED BY <2>1, <1>0
<1>3. ClosedFrom(bs, ins, f, e, S)
  <2>1. e \in S
    BY DEF ClosedFrom
  <2>2. ASSUME NEW c \in 1 .. Len(bs), c \in S, Par(bs, c) = f, c # ins
        PROVE  Ends(bs, c) \subseteq S
    <3>1. c # t
      BY <2>2, <1>2
    <3>2. Par(bs2, c) = f /\ Ends(bs2, c) = Ends(bs, c) /\ c \in 1 .. Len(bs2)
      BY <1>1, <2>2, <3>1
    <3> QED BY <2>2, <3>1, <3>2 DEF ClosedFrom
  <2> QED BY <2>1, <2>2 DEF ClosedFrom
<1>4. \A c \in 1 .. Len(bs) : Par(bs, c) = f => c \in S
  BY <1>3
<1>5. ASSUME f = Par(bs, ins), t # ins
      PROVE  t \in S
  <2>1. Moves(bs, ins, W, t, y)
    BY <1>5
  <2>2. CASE t \in Targets(y)
    <3>1. ins \in S
      BY <1>4, <1>5
    <3>2. Par(bs2, ins) = f
      BY <1>1, <1>5
    <3>3. Long(bs2, ins) = Long(bs, ins) + 1 /\ Does(bs2, ins, Long(bs, ins) + 1) = y
      <4>1. ins <= Len(bs)
        BY <1>0
      <4> QED BY <4>1, <1>0 DEF Extended
    <3>4. t \in Ends(bs2, ins)
      <4>1. Long(bs2, ins) # 0
        BY <3>3, <1>0
      <4> QED BY <3>3, <4>1, <2>2 DEF Ends
    <3> QED BY <1>0, <1>5, <3>1, <3>2, <3>4 DEF ClosedFrom
  <2>3. CASE \E c \in 1 .. Len(bs) : c # ins /\ Par(bs, c) = Par(bs, ins) /\ t \in Ends(bs, c)
    <3>1. PICK c \in 1 .. Len(bs) : c # ins /\ Par(bs, c) = Par(bs, ins) /\ t \in Ends(bs, c)
      BY <2>3
    <3> QED BY <3>1, <1>3, <1>4, <1>5 DEF ClosedFrom
  <2> QED BY <2>1, <2>2, <2>3 DEF Moves
<1>6. ASSUME NEW c \in 1 .. Len(bs2), Par(bs2, c) = f
      PROVE  c \in S
  <2>0. c \in Nat
    OBVIOUS
  <2>1. CASE c <= Len(bs)
    <3>1. c \in 1 .. Len(bs)
      BY <2>0, <2>1, <1>0
    <3>2. CASE c = t /\ t # ins
      BY <1>1, <1>5, <1>6, <3>1, <3>2
    <3>3. CASE c # t \/ t = ins
      BY <1>1, <1>4, <1>6, <3>1, <3>3
    <3> QED BY <3>2, <3>3
  <2>2. CASE ~ (c <= Len(bs))
    <3>1. Par(bs2, c) = IF c = t THEN Par(bs, ins) ELSE 0
      BY <2>2 DEF Extended
    <3>2. c = t /\ f = Par(bs, ins) /\ t # ins
      BY <3>1, <1>6, <2>2, <1>0
    <3> QED BY <3>2, <1>5
  <2> QED BY <2>1, <2>2
<1> QED BY <1>6

LEMMA ExtendEntry ==
  ASSUME NEW bs, NEW bs2, NEW ins, NEW t, NEW y, NEW p, NEW W, NEW x, NEW D, NEW role, NEW role2,
         NEW named, NEW named2, NEW f, NEW e,
         bs \in Seq(Blocks), bs2 \in Seq(Blocks), ins \in 1 .. Len(bs), t \in 1 .. Len(bs2),
         Extended(bs, ins, t, y, p, bs2), Par(bs, ins) # 0, t = ins \/ Moves(bs, ins, W, t, y),
         D \in Nat, Core(x, bs, role, ins, W, D, named), Kept(bs, role, named, bs2, role2, named2),
         f \in 1 .. D, e \in 1 .. Len(bs), EntryOK(x, bs, role, ins, f, e)
  PROVE  EntryOK(x, bs2, role2, t, f, e)
<1>0. /\ Len(bs) \in Nat /\ Len(bs2) \in Nat /\ Len(bs) <= Len(bs2) /\ Long(bs, ins) \in Nat
      /\ t \in Nat /\ ins \in Nat /\ e \in Nat /\ f \in Nat \ {0}
  BY BlocksFacts DEF Extended
<1>1. Par(bs2, e) = f /\ role2[e] = role[e]
  BY <1>0 DEF EntryOK, Kept
<1>2. \A S : ClosedFrom(bs2, t, f, e, S) => \A c \in 1 .. Len(bs2) : Par(bs2, c) = f => c \in S
  <2>1. \A S : ClosedFrom(bs, ins, f, e, S) => \A c \in 1 .. Len(bs) : Par(bs, c) = f => c \in S
    BY DEF EntryOK
  <2> QED BY <1>0, <2>1, ExtendClosed
<1>3. CASE Cross(bs)
  <2>1. Cross(bs2)
    BY <1>3, CrossKept
  <2> QED BY <2>1, <1>1, <1>2 DEF EntryOK
<1>4. CASE ~Cross(bs)
  <2>1. \A c \in 1 .. Len(bs) : Par(bs, c) = f => e <= c
    BY <1>4 DEF EntryOK
  <2>2. CASE Cross(bs2)
    BY <2>2, <1>1, <1>2 DEF EntryOK
  <2>3. ASSUME ~Cross(bs2), NEW c \in 1 .. Len(bs2), Par(bs2, c) = f
        PROVE  e <= c
    <3>0. c \in Nat
      OBVIOUS
    <3>1. CASE c > Len(bs)
      BY <3>0, <3>1, <1>0
    <3>2. CASE c <= Len(bs) /\ (c # t \/ t = ins)
      <4>1. Par(bs2, c) = Par(bs, c)
        BY <3>0, <3>2, <1>0 DEF Extended
      <4>2. c \in 1 .. Len(bs)
        BY <3>0, <3>2, <1>0
      <4> QED BY <2>1, <2>3, <4>1, <4>2
    <3>3. CASE c <= Len(bs) /\ c = t /\ t # ins
      <4>0. Par(bs2, c) = Par(bs, ins) /\ f = Par(bs, ins) /\ c \in 1 .. Len(bs)
        BY <2>3, <3>0, <3>3, <1>0 DEF Extended
      <4>1. t \in W \/ \E d \in 1 .. t - 1 : \E k \in 1 .. Long(bs, d) : t \in Targets(Does(bs, d, k))
        <5>1. Moves(bs, ins, W, t, y) /\ ~ (t > Len(bs))
          BY <3>3, <1>0
        <5> QED BY <5>1 DEF Moves
      <4>2. CASE t \in W
        <5>1. PICK d \in 1 .. t - 1 : Par(bs, d) = Par(bs, ins)
          BY <4>2 DEF Core
        <5>2. d \in 1 .. Len(bs) /\ d \in Nat /\ d < t
          BY <5>1, <4>0, <3>3, <1>0
        <5>3. e <= d
          BY <5>1, <5>2, <4>0, <2>1
        <5> QED BY <5>2, <5>3, <3>3, <1>0
      <4>3. CASE \E d \in 1 .. t - 1 : \E k \in 1 .. Long(bs, d) : t \in Targets(Does(bs, d, k))
        <5>0. PICK d \in 1 .. t - 1 : \E k \in 1 .. Long(bs, d) : t \in Targets(Does(bs, d, k))
          BY <4>3
        <5>1. PICK k \in 1 .. Long(bs, d) : t \in Targets(Does(bs, d, k))
          BY <5>0
        <5>2. d \in 1 .. Len(bs) /\ d \in Nat /\ d < t /\ d \in 1 .. Len(bs2)
          BY <5>0, <4>0, <3>3, <1>0
        <5>3. Long(bs, d) \in Nat /\ Long(bs2, d) \in Nat /\ Long(bs, d) <= Long(bs2, d)
          BY <5>2, BlocksFacts DEF Kept
        <5>4. k \in 1 .. Long(bs2, d) /\ Does(bs2, d, k) = Does(bs, d, k)
          BY <5>2, <5>3 DEF Kept
        <5>5. Par(bs, d) # 0
          <6>1. BlockOK(x, bs, role, ins, D, d)
            BY <5>2 DEF Core
          <6>2. Long(bs, d) # 0
            BY <5>3
          <6> QED BY <6>1, <6>2 DEF BlockOK
        <5>6. Par(bs2, d) = Par(bs, d)
          BY <5>2, <5>5 DEF Kept
        <5>7. CASE Par(bs, d) = f
          <6>1. e <= d
            BY <5>2, <5>7, <2>1
          <6> QED BY <6>1, <5>2, <3>3, <1>0
        <5>8. CASE Par(bs, d) # f
          <6>1. Par(bs2, t) = f /\ f # 0 /\ Par(bs2, t) # Par(bs2, d) /\ Par(bs2, d) # 0
            BY <5>5, <5>6, <5>8, <2>3, <3>3, <1>0
          <6>2. t \in Targets(Does(bs2, d, k))
            BY <5>1, <5>4
          <6>3. Cross(bs2)
            BY <5>2, <5>4, <6>1, <6>2 DEF Cross
          <6> QED BY <6>3, <2>3
        <5> QED BY <5>7, <5>8
      <4> QED BY <4>1, <4>2, <4>3
    <3> QED BY <3>0, <3>1, <3>2, <3>3, <1>0
  <2>4. CASE ~Cross(bs2)
    <3>1. \A c \in 1 .. Len(bs2) : Par(bs2, c) = f => e <= c
      BY <2>3, <2>4
    <3> QED BY <3>1, <1>1, <1>2 DEF EntryOK
  <2> QED BY <2>2, <2>4
<1> QED BY <1>3, <1>4

(* One instruction more keeps the blocks what they are meant to be.         *)
LEMMA ExtendCore ==
  ASSUME NEW bs, NEW bs2, NEW ins, NEW t, NEW y, NEW p, NEW x, NEW role, NEW role2, NEW W, NEW W2, NEW D,
         NEW named, NEW named2,
         bs \in Seq(Blocks), bs2 \in Seq(Blocks), ins \in 1 .. Len(bs), t \in 1 .. Len(bs2),
         Extended(bs, ins, t, y, p, bs2), Par(bs, ins) # 0, D \in Nat, RolesKept(bs, role, role2),
         NamesKept(named, named2), Core(x, bs, role, ins, W, D, named),
         \A i \in DOMAIN x.source : x.source[i].op = "goto" => x.source[i].to \in DOMAIN named,
         Follows(x, bs, role, ins, W, t, y, p, bs2, role2, W2, named2)
  PROVE  Core(x, bs2, role2, t, W2, D, named2) /\ Kept(bs, role, named, bs2, role2, named2)
<1>0. /\ Len(bs) \in Nat /\ Len(bs2) \in Nat /\ Len(bs) <= Len(bs2) /\ Long(bs, ins) \in Nat
      /\ t \in Nat /\ ins \in Nat
  BY BlocksFacts DEF Extended
<1>1. t = ins \/ Moves(bs, ins, W, t, y)
  BY DEF Follows
<1>2. Kept(bs, role, named, bs2, role2, named2)
  <2>1. t = ins \/ t > Len(bs) \/ Par(bs, t) = 0
    BY <1>1 DEF Moves
  <2> QED BY <2>1, ExtendedKept
<1>3. \A c \in 1 .. Len(bs2) : BlockOK(x, bs2, role2, t, D, c)
  BY ExtendBlocks
<1>4. /\ \A c \in 1 .. Len(bs2) : \A k \in 1 .. Long(bs2, c) : InstrOK(x, bs2, role2, named2, c, k)
      /\ \A c \in 1 .. Len(bs2) : \A k \in 1 .. Long(bs2, c) - 1 : FlowOK(x, bs2, c, k)
      /\ \A c \in 1 .. Len(bs2) : \A k \in 1 .. Long(bs2, c) : TargetOK(x, bs2, t, W2, named2, c, k)
  BY <1>2, ExtendInstrs
<1>5. ASSUME NEW w \in W2
      PROVE  w \in 1 .. Len(bs2) /\ Par(bs2, w) = 0 /\ \E c \in 1 .. w - 1 : Par(bs2, c) = Par(bs2, t)
  <2>0. w \in 1 .. Len(bs2) /\ w # t /\ (w \in W \/ w > Len(bs)) /\ w \in Nat
    BY DEF Follows
  <2>1. Par(bs2, t) = Par(bs, ins)
    <3>1. CASE t <= Len(bs)
      BY <3>1, <1>0 DEF Extended
    <3>2. CASE ~ (t <= Len(bs))
      BY <3>2 DEF Extended
    <3> QED BY <3>1, <3>2
  <2>2. CASE w > Len(bs)
    <3>1. Par(bs2, w) = 0
      <4>1. ~ (w <= Len(bs))
        BY <2>0, <2>2, <1>0
      <4> QED BY <4>1, <2>0 DEF Extended
    <3>2. ins \in 1 .. w - 1
      BY <2>0, <2>2, <1>0
    <3>3. Par(bs2, ins) = Par(bs, ins)
      BY <1>2 DEF Kept
    <3> QED BY <2>0, <2>1, <3>1, <3>2, <3>3
  <2>3. CASE w \in W
    <3>1. w \in 1 .. Len(bs) /\ Par(bs, w) = 0 /\ \E c \in 1 .. w - 1 : Par(bs, c) = Par(bs, ins)
      BY <2>3 DEF Core
    <3>2. PICK c \in 1 .. w - 1 : Par(bs, c) = Par(bs, ins)
      BY <3>1
    <3>3. c \in 1 .. Len(bs)
      BY <3>1, <3>2, <1>0, <2>0
    <3>4. Par(bs2, c) = Par(bs, ins)
      BY <3>2, <3>3, <1>2 DEF Kept
    <3>5. Par(bs2, w) = 0
      <4>1. w <= Len(bs)
        BY <3>1, <1>0
      <4> QED BY <4>1, <2>0, <3>1 DEF Extended
    <3> QED BY <2>0, <2>1, <3>2, <3>4, <3>5
  <2> QED BY <2>0, <2>2, <2>3
<1>6. ASSUME NEW f \in 1 .. D, x.source[f].op = "function"
      PROVE  \E e \in 1 .. Len(bs2) : EntryOK(x, bs2, role2, t, f, e)
  <2>1. PICK e \in 1 .. Len(bs) : EntryOK(x, bs, role, ins, f, e)
    BY <1>6 DEF Core
  <2>2. EntryOK(x, bs2, role2, t, f, e)
    BY <1>1, <1>2, <2>1, ExtendEntry
  <2>3. e \in 1 .. Len(bs2)
    BY <2>1, <1>0
  <2> QED BY <2>2, <2>3
<1>7. \A w \in W2 : w \in 1 .. Len(bs2) /\ Par(bs2, w) = 0 /\ \E c \in 1 .. w - 1 : Par(bs2, c) = Par(bs2, t)
  BY <1>5
<1>8. \A f \in 1 .. D : x.source[f].op = "function" => \E e \in 1 .. Len(bs2) : EntryOK(x, bs2, role2, t, f, e)
  BY <1>6
<1> QED BY <1>2, <1>3, <1>4, <1>7, <1>8 DEF Core

-----------------------------------------------------------------------------
(* The ways in which the visitor adds an instruction *)

LEMMA EmitExtends ==
  ASSUME NEW b \in Builders, NEW y \in Instructions, NEW p \in Nat, p = Settle[pc],
         NEW e, e = Emit(b, y)
  PROVE  /\ e \in Builders /\ e.insert = b.insert /\ e.broken = b.broken /\ e.last = b.last
         /\ Len(e.blocks) = Len(b.blocks)
         /\ Extended(b.blocks, b.insert, b.insert, y, p, e.blocks)
<1>0. Len(b.blocks) \in Nat /\ b.insert \in 1 .. Len(b.blocks) /\ \A c \in 1 .. Len(b.blocks) : c <= Len(b.blocks)
  BY BuilderFacts
<1>1. PICK m : m = Long(b.blocks, b.insert)
  OBVIOUS
<1>2. /\ e \in Builders /\ e.insert = b.insert /\ e.last = b.last /\ e.broken = b.broken
      /\ Len(e.blocks) = Len(b.blocks) /\ m \in Nat
      /\ \A c \in 1 .. Len(b.blocks) :
           /\ Par(e.blocks, c) = Par(b.blocks, c)
           /\ Long(e.blocks, c) = IF c = b.insert THEN m + 1 ELSE Long(b.blocks, c)
           /\ \A k \in 1 .. Long(b.blocks, c) :
                Does(e.blocks, c, k) = Does(b.blocks, c, k) /\ Of(e.blocks, c, k) = Of(b.blocks, c, k)
      /\ Does(e.blocks, b.insert, m + 1) = y /\ Of(e.blocks, b.insert, m + 1) = p
  <2>1. EmittedIn(b, y, p, m, e)
    BY <1>1, EmitEmits
  <2> QED BY <2>1 DEF EmittedIn
<1>3. ASSUME NEW c \in 1 .. Len(b.blocks)
      PROVE  /\ Par(e.blocks, c) = IF c = b.insert THEN Par(b.blocks, b.insert) ELSE Par(b.blocks, c)
             /\ Long(e.blocks, c) = IF c = b.insert THEN Long(b.blocks, b.insert) + 1 ELSE Long(b.blocks, c)
             /\ \A k \in 1 .. Long(b.blocks, c) :
                  Does(e.blocks, c, k) = Does(b.blocks, c, k) /\ Of(e.blocks, c, k) = Of(b.blocks, c, k)
  <2>1. Long(e.blocks, c) = IF c = b.insert THEN m + 1 ELSE Long(b.blocks, c)
    BY <1>2
  <2>2. Par(e.blocks, c) = Par(b.blocks, c)
    BY <1>2
  <2>3. Par(b.blocks, c) = IF c = b.insert THEN Par(b.blocks, b.insert) ELSE Par(b.blocks, c)
    OBVIOUS
  <2> QED BY <1>1, <1>2, <2>1, <2>2, <2>3
<1>4. Len(b.blocks) <= Len(b.blocks)
  BY <1>0
<1>5. Extended(b.blocks, b.insert, b.insert, y, p, e.blocks)
  BY <1>0, <1>1, <1>2, <1>3, <1>4 DEF Extended
<1> QED BY <1>2, <1>5

(* A goto to a label that was not seen makes the block of the label.        *)
LEMMA EmitNewExtends ==
  ASSUME NEW b \in Builders, NEW y \in Instructions, NEW p \in Nat, p = Settle[pc],
         NEW n, n = Len(b.blocks), NEW e, e = Emit(Create(b, Detached), y)
  PROVE  /\ e \in Builders /\ e.insert = b.insert /\ e.broken = b.broken /\ e.last = b.last
         /\ n \in Nat /\ Len(e.blocks) = n + 1 /\ Par(e.blocks, n + 1) = 0 /\ Long(e.blocks, n + 1) = 0
         /\ Extended(b.blocks, b.insert, b.insert, y, p, e.blocks)
<1>0. n \in Nat /\ b.insert \in 1 .. n /\ \A c \in 1 .. n : c <= n
  BY BuilderFacts
<1>1. PICK d : d = Create(b, Detached)
  OBVIOUS
<1>2. /\ d \in Builders /\ d.insert = b.insert /\ d.last = b.last /\ d.broken = b.broken
      /\ Len(d.blocks) = n + 1
      /\ \A c \in 1 .. n :
           /\ Par(d.blocks, c) = Par(b.blocks, c)
           /\ Long(d.blocks, c) = Long(b.blocks, c)
           /\ \A k \in 1 .. Long(b.blocks, c) :
                Does(d.blocks, c, k) = Does(b.blocks, c, k) /\ Of(d.blocks, c, k) = Of(b.blocks, c, k)
      /\ Par(d.blocks, n + 1) = 0 /\ Long(d.blocks, n + 1) = 0
  BY <1>1, CreateFacts DEF Detached
<1>3. /\ e \in Builders /\ e.insert = d.insert /\ e.broken = d.broken /\ e.last = d.last
      /\ Len(e.blocks) = n + 1
      /\ Extended(d.blocks, d.insert, d.insert, y, p, e.blocks)
  BY <1>1, <1>2, EmitExtends
<1>4. n + 1 \in 1 .. n + 1 /\ n + 1 <= n + 1 /\ ~ (n + 1 <= n) /\ n + 1 # b.insert
  BY <1>0
<1>5. \A c \in 1 .. n + 1 : c <= n + 1 /\ (c <= n => c \in 1 .. n) /\ (~ (c <= n) => c = n + 1)
  BY <1>0
<1>6. Par(e.blocks, n + 1) = 0 /\ Long(e.blocks, n + 1) = 0
  BY <1>2, <1>3, <1>4 DEF Extended
<1>7. ASSUME NEW c \in 1 .. n
      PROVE  /\ Par(e.blocks, c) = Par(b.blocks, c)
             /\ Long(e.blocks, c) = IF c = b.insert THEN Long(b.blocks, b.insert) + 1 ELSE Long(b.blocks, c)
             /\ \A k \in 1 .. Long(b.blocks, c) :
                  Does(e.blocks, c, k) = Does(b.blocks, c, k) /\ Of(e.blocks, c, k) = Of(b.blocks, c, k)
  <2>1. c \in 1 .. n + 1 /\ c <= n + 1
    BY <1>0, <1>5
  <2> QED BY <1>0, <1>2, <1>3, <2>1 DEF Extended
<1>8. Does(e.blocks, b.insert, Long(b.blocks, b.insert) + 1) = y
      /\ Of(e.blocks, b.insert, Long(b.blocks, b.insert) + 1) = p
  BY <1>0, <1>2, <1>3 DEF Extended
<1>9. Extended(b.blocks, b.insert, b.insert, y, p, e.blocks)
  <2>1. n <= n + 1
    BY <1>0
  <2>2. \A c \in 1 .. n + 1 : c <= n => c # n + 1
    BY <1>4
  <2> QED BY <1>0, <1>3, <1>4, <1>5, <1>6, <1>7, <1>8, <2>1, <2>2 DEF Extended
<1> QED BY <1>0, <1>2, <1>3, <1>6, <1>9

LEMMA TurnBuilder ==
  ASSUME NEW d \in Builders, NEW t \in 1 .. Len(d.blocks), Par(d.blocks, t) = 0,
         NEW e, e = SetInsert(PushBack(d, t), t)
  PROVE  /\ e \in Builders /\ e.insert = t /\ e.broken = d.broken /\ e.last = d.last
         /\ Len(e.blocks) = Len(d.blocks)
<1>1. PICK g : g = PushBack(d, t)
  OBVIOUS
<1>2. /\ g \in Builders /\ g.last = d.last /\ Len(g.blocks) = Len(d.blocks)
      /\ g.broken = (d.broken \/ Par(d.blocks, t) # Detached)
  BY <1>1, PushFacts
<1>3. e \in Builders /\ e.blocks = g.blocks /\ e.insert = t /\ e.last = g.last /\ e.broken = g.broken
  BY <1>1, <1>2, SetInsertFacts
<1>4. (d.broken \/ Par(d.blocks, t) # Detached) <=> d.broken
  BY DEF Detached
<1>5. d.broken \in BOOLEAN
  BY BuilderFacts
<1> QED BY <1>2, <1>3, <1>4, <1>5

(* A block is put behind the one that gets the instruction.                 *)
LEMMA TurnExtends ==
  ASSUME NEW b \in Builders, NEW y, NEW p,
         NEW d \in Builders, d.insert = b.insert, Extended(b.blocks, b.insert, b.insert, y, p, d.blocks),
         NEW t \in 1 .. Len(d.blocks), t # b.insert, Par(d.blocks, t) = 0,
         NEW e, e = SetInsert(PushBack(d, t), t)
  PROVE  /\ e \in Builders /\ e.insert = t /\ e.broken = d.broken /\ e.last = d.last
         /\ Len(e.blocks) = Len(d.blocks)
         /\ Extended(b.blocks, b.insert, t, y, p, e.blocks)
<1> DEFINE bs == b.blocks
           ins == b.insert
<1>. bs \in Seq(Blocks) /\ ins \in 1 .. Len(bs)
  BY BuilderFacts
<1>0. Len(bs) \in Nat /\ Len(d.blocks) \in Nat /\ ins \in 1 .. Len(d.blocks) /\ ins <= Len(bs) /\ d.broken \in BOOLEAN
  BY BlocksFacts, BuilderFacts
<1>1. PICK g : g = PushBack(d, t)
  OBVIOUS
<1>2. /\ g \in Builders /\ g.insert = ins /\ g.last = d.last
      /\ g.broken = (d.broken \/ Par(d.blocks, t) # Detached)
      /\ Len(g.blocks) = Len(d.blocks)
      /\ \A c \in 1 .. Len(d.blocks) :
           /\ Par(g.blocks, c) = IF c = t THEN Par(d.blocks, ins) ELSE Par(d.blocks, c)
           /\ Long(g.blocks, c) = Long(d.blocks, c)
           /\ \A k \in 1 .. Long(d.blocks, c) :
                Does(g.blocks, c, k) = Does(d.blocks, c, k) /\ Of(g.blocks, c, k) = Of(d.blocks, c, k)
  BY <1>1, PushFacts
<1>3. e \in Builders /\ e.blocks = g.blocks /\ e.insert = t /\ e.last = g.last /\ e.broken = g.broken
  BY <1>1, <1>2, SetInsertFacts
<1>4. Par(d.blocks, ins) = Par(bs, ins)
  BY <1>0 DEF Extended
<1>5. ASSUME NEW c \in 1 .. Len(d.blocks)
      PROVE  IF c <= Len(bs)
             THEN /\ Par(e.blocks, c) = IF c = t THEN Par(bs, ins) ELSE Par(bs, c)
                  /\ Long(e.blocks, c) = IF c = ins THEN Long(bs, ins) + 1 ELSE Long(bs, c)
                  /\ \A k \in 1 .. Long(bs, c) : Does(e.blocks, c, k) = Does(bs, c, k) /\ Of(e.blocks, c, k) = Of(bs, c, k)
             ELSE Long(e.blocks, c) = 0 /\ Par(e.blocks, c) = IF c = t THEN Par(bs, ins) ELSE 0
  <2>1. CASE c <= Len(bs)
    <3>1. /\ Par(d.blocks, c) = IF c = ins THEN Par(bs, ins) ELSE Par(bs, c)
          /\ Long(d.blocks, c) = IF c = ins THEN Long(bs, ins) + 1 ELSE Long(bs, c)
          /\ \A k \in 1 .. Long(bs, c) : Does(d.blocks, c, k) = Does(bs, c, k) /\ Of(d.blocks, c, k) = Of(bs, c, k)
      BY <2>1 DEF Extended
    <3>2. c \in 1 .. Len(bs) /\ Long(bs, c) \in Nat
      <4>1. c \in 1 .. Len(bs)
        BY <2>1, <1>0
      <4> QED BY <4>1, BlocksFacts
    <3>3. \A k \in 1 .. Long(bs, c) : k \in 1 .. Long(d.blocks, c)
      BY <3>1, <3>2
    <3>4. Par(e.blocks, c) = IF c = t THEN Par(bs, ins) ELSE Par(bs, c)
      BY <1>2, <1>3, <1>4, <3>1
    <3>5. Long(e.blocks, c) = IF c = ins THEN Long(bs, ins) + 1 ELSE Long(bs, c)
      BY <1>2, <1>3, <3>1
    <3>6. \A k \in 1 .. Long(bs, c) : Does(e.blocks, c, k) = Does(bs, c, k) /\ Of(e.blocks, c, k) = Of(bs, c, k)
      BY <1>2, <1>3, <3>1, <3>3
    <3> QED BY <2>1, <3>4, <3>5, <3>6
  <2>2. CASE ~ (c <= Len(bs))
    <3>1. Long(d.blocks, c) = 0 /\ Par(d.blocks, c) = 0
      <4>1. c # ins
        BY <2>2, <1>0
      <4> QED BY <4>1, <2>2 DEF Extended
    <3>2. Long(e.blocks, c) = 0 /\ Par(e.blocks, c) = IF c = t THEN Par(bs, ins) ELSE 0
      BY <1>2, <1>3, <1>4, <3>1
    <3> QED BY <2>2, <3>2
  <2> QED BY <2>1, <2>2
<1>6. Does(e.blocks, ins, Long(bs, ins) + 1) = y /\ Of(e.blocks, ins, Long(bs, ins) + 1) = p
  <2>1. Long(d.blocks, ins) = Long(bs, ins) + 1
    BY <1>0 DEF Extended
  <2>2. Long(bs, ins) \in Nat
    BY BlocksFacts
  <2>3. Long(bs, ins) + 1 \in 1 .. Long(d.blocks, ins)
    BY <2>1, <2>2
  <2> QED BY <2>3, <1>0, <1>2, <1>3 DEF Extended
<1>7. Len(e.blocks) = Len(d.blocks) /\ Len(bs) <= Len(e.blocks)
  BY <1>2, <1>3 DEF Extended
<1>8. Extended(bs, ins, t, y, p, e.blocks)
  BY <1>5, <1>6, <1>7 DEF Extended
<1>9. d.broken \/ Par(d.blocks, t) # Detached <=> d.broken
  BY DEF Detached
<1>10. e.broken = d.broken /\ e.last = d.last
  BY <1>2, <1>3, <1>9, <1>0
<1> QED BY <1>3, <1>7, <1>8, <1>10

(* Three blocks are made, the first of which follows.                       *)
LEMMA ForkExtends ==
  ASSUME NEW b \in Builders, NEW y \in Instructions, NEW p \in Nat, p = Settle[pc],
         NEW n, n = Len(b.blocks),
         NEW e, e = SetInsert(Emit(Create(Create(Create(b, Parent(b)), Detached), Detached), y), n + 1)
  PROVE  /\ e \in Builders /\ e.insert = n + 1 /\ e.broken = b.broken /\ e.last = b.last
         /\ n \in Nat /\ Len(e.blocks) = n + 3
         /\ Extended(b.blocks, b.insert, n + 1, y, p, e.blocks)
<1>0. /\ n \in Nat /\ b.insert \in 1 .. n /\ Parent(b) \in Nat /\ Parent(b) = Par(b.blocks, b.insert)
      /\ b.blocks \in Seq(Blocks)
  BY BuilderFacts
<1>1. PICK d : d = Create(b, Parent(b))
  OBVIOUS
<1>2. /\ d \in Builders /\ d.insert = b.insert /\ d.last = b.last /\ d.broken = b.broken
      /\ Len(d.blocks) = n + 1
      /\ \A c \in 1 .. n :
           /\ Par(d.blocks, c) = Par(b.blocks, c)
           /\ Long(d.blocks, c) = Long(b.blocks, c)
           /\ \A k \in 1 .. Long(b.blocks, c) :
                Does(d.blocks, c, k) = Does(b.blocks, c, k) /\ Of(d.blocks, c, k) = Of(b.blocks, c, k)
      /\ Par(d.blocks, n + 1) = Parent(b) /\ Long(d.blocks, n + 1) = 0
  BY <1>0, <1>1, CreateFacts
<1>3. PICK g : g = Create(d, Detached)
  OBVIOUS
<1>4. /\ g \in Builders /\ g.insert = d.insert /\ g.last = d.last /\ g.broken = d.broken
      /\ Len(g.blocks) = n + 2
      /\ \A c \in 1 .. n + 1 :
           /\ Par(g.blocks, c) = Par(d.blocks, c)
           /\ Long(g.blocks, c) = Long(d.blocks, c)
           /\ \A k \in 1 .. Long(d.blocks, c) :
                Does(g.blocks, c, k) = Does(d.blocks, c, k) /\ Of(g.blocks, c, k) = Of(d.blocks, c, k)
      /\ Par(g.blocks, n + 2) = 0 /\ Long(g.blocks, n + 2) = 0
  <2>0. PICK q : q = n + 1
    OBVIOUS
  <2>1. q + 1 = n + 2
    BY <1>0, <2>0
  <2>2. /\ g \in Builders /\ g.insert = d.insert /\ g.last = d.last /\ g.broken = d.broken
        /\ Len(g.blocks) = q + 1
        /\ \A c \in 1 .. q :
             /\ Par(g.blocks, c) = Par(d.blocks, c)
             /\ Long(g.blocks, c) = Long(d.blocks, c)
             /\ \A k \in 1 .. Long(d.blocks, c) :
                  Does(g.blocks, c, k) = Does(d.blocks, c, k) /\ Of(g.blocks, c, k) = Of(d.blocks, c, k)
        /\ Par(g.blocks, q + 1) = 0 /\ Long(g.blocks, q + 1) = 0
    BY <2>0, <1>2, <1>3, CreateFacts DEF Detached
  <2> QED BY <2>0, <2>1, <2>2
<1>5. /\ e = SetInsert(Emit(Create(g, Detached), y), n + 1)
      /\ n + 2 + 1 = n + 3
  BY <1>0, <1>1, <1>3
<1>6. PICK h : h = Emit(Create(g, Detached), y)
  OBVIOUS
<1>7. /\ h \in Builders /\ h.insert = g.insert /\ h.broken = g.broken /\ h.last = g.last
      /\ Len(h.blocks) = n + 3 /\ Par(h.blocks, n + 3) = 0 /\ Long(h.blocks, n + 3) = 0
      /\ Extended(g.blocks, g.insert, g.insert, y, p, h.blocks)
  BY <1>4, <1>5, <1>6, EmitNewExtends
<1>8. e \in Builders /\ e.blocks = h.blocks /\ e.insert = n + 1 /\ e.last = h.last /\ e.broken = h.broken
  <2>1. n + 1 \in 1 .. n + 3
    BY <1>0
  <2> QED BY <1>5, <1>6, <1>7, <2>1, SetInsertFacts
<1>9. ASSUME NEW c \in 1 .. n
      PROVE  /\ c # n + 1
             /\ Par(e.blocks, c) = Par(b.blocks, c)
             /\ Long(e.blocks, c) = IF c = b.insert THEN Long(b.blocks, b.insert) + 1 ELSE Long(b.blocks, c)
             /\ \A k \in 1 .. Long(b.blocks, c) :
                  Does(e.blocks, c, k) = Does(b.blocks, c, k) /\ Of(e.blocks, c, k) = Of(b.blocks, c, k)
  <2>1. c \in 1 .. n + 1 /\ c \in 1 .. n + 3 /\ c <= n + 2 /\ c # n + 1
    BY <1>0
  <2>2. /\ Par(g.blocks, c) = Par(b.blocks, c) /\ Long(g.blocks, c) = Long(b.blocks, c)
        /\ \A k \in 1 .. Long(b.blocks, c) :
             Does(g.blocks, c, k) = Does(b.blocks, c, k) /\ Of(g.blocks, c, k) = Of(b.blocks, c, k)
    BY <1>2, <1>4, <2>1
  <2>3. g.insert = b.insert /\ Long(g.blocks, g.insert) = Long(b.blocks, b.insert)
    <3>1. b.insert \in 1 .. n + 1
      BY <1>0
    <3> QED BY <3>1, <1>0, <1>2, <1>4
  <2>4. /\ Par(h.blocks, c) = IF c = g.insert THEN Par(g.blocks, g.insert) ELSE Par(g.blocks, c)
        /\ Long(h.blocks, c) = IF c = g.insert THEN Long(g.blocks, g.insert) + 1 ELSE Long(g.blocks, c)
        /\ \A k \in 1 .. Long(g.blocks, c) : Does(h.blocks, c, k) = Does(g.blocks, c, k) /\ Of(h.blocks, c, k) = Of(g.blocks, c, k)
    BY <1>4, <1>7, <2>1 DEF Extended
  <2> QED BY <1>8, <2>1, <2>2, <2>3, <2>4
<1>10. Par(e.blocks, n + 1) = Par(b.blocks, b.insert) /\ Long(e.blocks, n + 1) = 0
  <2>1. n + 1 \in 1 .. n + 1 /\ n + 1 \in 1 .. n + 3 /\ n + 1 <= n + 2 /\ n + 1 # b.insert
    BY <1>0
  <2> QED BY <1>0, <1>2, <1>4, <1>7, <1>8, <2>1 DEF Extended
<1>11. Par(e.blocks, n + 2) = 0 /\ Long(e.blocks, n + 2) = 0
  <2>1. n + 2 \in 1 .. n + 3 /\ n + 2 <= n + 2 /\ n + 2 # b.insert
    BY <1>0
  <2> QED BY <1>2, <1>4, <1>7, <1>8, <2>1 DEF Extended
<1>12. Par(e.blocks, n + 3) = 0 /\ Long(e.blocks, n + 3) = 0
  BY <1>7, <1>8
<1>13. Does(e.blocks, b.insert, Long(b.blocks, b.insert) + 1) = y
       /\ Of(e.blocks, b.insert, Long(b.blocks, b.insert) + 1) = p
  <2>1. b.insert \in 1 .. n + 1
    BY <1>0
  <2> QED BY <2>1, <1>0, <1>2, <1>4, <1>7, <1>8 DEF Extended
<1>14. /\ n <= n + 3
       /\ \A c \in 1 .. n + 3 : /\ c <= n => c \in 1 .. n
                                /\ ~ (c <= n) => c = n + 1 \/ c = n + 2 \/ c = n + 3
       /\ n + 2 # n + 1 /\ n + 3 # n + 1
       /\ ~ (n + 1 <= n) /\ ~ (n + 2 <= n) /\ ~ (n + 3 <= n)
  <2>1. n \in Nat
    BY <1>0
  <2> QED BY <2>1
<1>15. Extended(b.blocks, b.insert, n + 1, y, p, e.blocks)
  <2>1. Len(e.blocks) = n + 3
    BY <1>7, <1>8
  <2> QED BY <2>1, <1>9, <1>10, <1>11, <1>12, <1>13, <1>14 DEF Extended
<1> QED BY <1>0, <1>2, <1>4, <1>7, <1>8, <1>15

(* The builder b may go on with an instruction of item p.                   *)
Building(x, b, role, W, D, named, p) ==
  /\ b \in Builders /\ Core(x, b.blocks, role, b.insert, W, D, named)
  /\ Par(b.blocks, b.insert) # 0 /\ p \in DOMAIN x.source /\ x.within[p] = Par(b.blocks, b.insert)
  /\ Ready(x, b.blocks, role, b.insert, p)
  /\ p = Settle[pc] /\ p \in Nat /\ D \in Nat
  /\ \A i \in DOMAIN x.source : x.source[i].op = "goto" => x.source[i].to \in DOMAIN named

(* What was built stays, but for the function of t.                         *)
Beside(b, t, e) ==
  /\ Len(b.blocks) <= Len(e.blocks)
  /\ \A c \in 1 .. Len(b.blocks) :
       /\ c # t => Par(e.blocks, c) = Par(b.blocks, c)
       /\ c # b.insert => Long(e.blocks, c) = Long(b.blocks, c)

LEMMA BuildingFacts ==
  ASSUME NEW x, NEW b, NEW role, NEW W, NEW D, NEW named, NEW p,
         Building(x, b, role, W, D, named, p)
  PROVE  /\ b \in Builders /\ b.blocks \in Seq(Blocks) /\ Len(b.blocks) \in Nat
         /\ b.insert \in 1 .. Len(b.blocks) /\ b.insert \in Nat /\ D \in Nat
         /\ Long(b.blocks, b.insert) \in Nat /\ p \in Nat /\ p = Settle[pc]
         /\ p \in DOMAIN x.source /\ x.within[p] = Par(b.blocks, b.insert) /\ Par(b.blocks, b.insert) # 0
         /\ Core(x, b.blocks, role, b.insert, W, D, named)
         /\ \A w \in W : w \in 1 .. Len(b.blocks) /\ Par(b.blocks, w) = 0 /\ w # b.insert
<1>1. b \in Builders /\ Core(x, b.blocks, role, b.insert, W, D, named) /\ Par(b.blocks, b.insert) # 0
  BY DEF Building
<1>2. b.blocks \in Seq(Blocks) /\ b.insert \in 1 .. Len(b.blocks) /\ b.insert \in Nat /\ Len(b.blocks) \in Nat
  BY <1>1, BuilderFacts
<1>3. Long(b.blocks, b.insert) \in Nat
  BY <1>2, BlocksFacts
<1>4. \A w \in W : w \in 1 .. Len(b.blocks) /\ Par(b.blocks, w) = 0 /\ w # b.insert
  BY <1>1 DEF Core
<1> QED BY <1>1, <1>2, <1>3, <1>4 DEF Building

LEMMA ExtendedFacts ==
  ASSUME NEW b, NEW e, NEW t, NEW y, NEW p,
         b \in Builders, e \in Builders, t \in 1 .. Len(e.blocks),
         Extended(b.blocks, b.insert, t, y, p, e.blocks)
  PROVE  /\ Par(e.blocks, t) = Par(b.blocks, b.insert)
         /\ Beside(b, t, e) /\ Len(b.blocks) <= Len(e.blocks)
         /\ \A c \in 1 .. Len(b.blocks) : \A k \in 1 .. Long(b.blocks, c) :
              Does(e.blocks, c, k) = Does(b.blocks, c, k) /\ Of(e.blocks, c, k) = Of(b.blocks, c, k)
         /\ Long(e.blocks, b.insert) = Long(b.blocks, b.insert) + 1
         /\ \A c \in 1 .. Len(e.blocks) : c > Len(b.blocks) => Long(e.blocks, c) = 0
<1>0. /\ Len(b.blocks) \in Nat /\ Len(e.blocks) \in Nat /\ Len(b.blocks) <= Len(e.blocks)
      /\ b.insert \in 1 .. Len(b.blocks)
  BY BuilderFacts DEF Extended
<1>1. \A c \in 1 .. Len(b.blocks) : c \in 1 .. Len(e.blocks) /\ c <= Len(b.blocks)
  BY <1>0
<1>2. ASSUME NEW c \in 1 .. Len(b.blocks)
      PROVE  /\ Par(e.blocks, c) = IF c = t THEN Par(b.blocks, b.insert) ELSE Par(b.blocks, c)
             /\ Long(e.blocks, c) = IF c = b.insert THEN Long(b.blocks, b.insert) + 1 ELSE Long(b.blocks, c)
             /\ \A k \in 1 .. Long(b.blocks, c) :
                  Does(e.blocks, c, k) = Does(b.blocks, c, k) /\ Of(e.blocks, c, k) = Of(b.blocks, c, k)
  BY <1>1 DEF Extended
<1>3. \A c \in 1 .. Len(e.blocks) : c > Len(b.blocks) => ~ (c <= Len(b.blocks))
  BY <1>0
<1>4. \A c \in 1 .. Len(e.blocks) : c > Len(b.blocks) => Long(e.blocks, c) = 0
  BY <1>3 DEF Extended
<1>5. Par(e.blocks, t) = Par(b.blocks, b.insert)
  <2>1. CASE t <= Len(b.blocks)
    BY <2>1, <1>0, <1>2
  <2>2. CASE ~ (t <= Len(b.blocks))
    BY <2>2 DEF Extended
  <2> QED BY <2>1, <2>2
<1>6. Beside(b, t, e)
  BY <1>0, <1>2 DEF Beside
<1>7. Long(e.blocks, b.insert) = Long(b.blocks, b.insert) + 1
  BY <1>0, <1>2
<1>9. \A c \in 1 .. Len(b.blocks) : \A k \in 1 .. Long(b.blocks, c) :
        Does(e.blocks, c, k) = Does(b.blocks, c, k) /\ Of(e.blocks, c, k) = Of(b.blocks, c, k)
  BY <1>2
<1> QED BY <1>0, <1>4, <1>5, <1>6, <1>7, <1>9

LEMMA ExtendedCode ==
  ASSUME NEW b, NEW e, NEW t, NEW y, NEW p,
         b \in Builders, e \in Builders, t \in 1 .. Len(e.blocks),
         Extended(b.blocks, b.insert, t, y, p, e.blocks)
  PROVE  /\ \A c \in 1 .. Len(b.blocks) : \A k \in 1 .. Long(b.blocks, c) : Does(e.blocks, c, k) = Does(b.blocks, c, k)
         /\ \A c \in 1 .. Len(e.blocks) : c > Len(b.blocks) => Long(e.blocks, c) = 0
BY ExtendedFacts

(* An instruction that the same block goes on after: what is built, what is *)
(* so at once, and what then holds.                                         *)
Staying(b, y, m, e) ==
  y \in Instructions /\ m = Long(b.blocks, b.insert) /\ e = Emit(b, y)

Emitted(b, p, y, m, e) ==
  /\ e \in Builders /\ e.insert = b.insert /\ Len(e.blocks) = Len(b.blocks)
  /\ m \in Nat /\ b.insert \in 1 .. Len(e.blocks)
  /\ Par(e.blocks, b.insert) = Par(b.blocks, b.insert)
  /\ Does(e.blocks, b.insert, m + 1) = y /\ Of(e.blocks, b.insert, m + 1) = p
  /\ \A k \in 1 .. m : Does(e.blocks, b.insert, k) = Does(b.blocks, b.insert, k)
  /\ \A c \in 1 .. Len(b.blocks) : Par(e.blocks, c) = Par(b.blocks, c)

Stayed(x, b, role, W, D, named, p, y, m, e) ==
  /\ e \in Builders /\ e.insert = b.insert /\ e.broken = b.broken /\ e.last = b.last
  /\ Core(x, e.blocks, role, e.insert, W, D, named)
  /\ Kept(b.blocks, role, named, e.blocks, role, named)
  /\ Beside(b, e.insert, e) /\ Par(e.blocks, e.insert) = Par(b.blocks, b.insert)
  /\ Len(e.blocks) = Len(b.blocks) /\ Long(e.blocks, e.insert) = m + 1
  /\ Does(e.blocks, e.insert, m + 1) = y /\ Of(e.blocks, e.insert, m + 1) = p

LEMMA StayEmits ==
  ASSUME NEW x, NEW b, NEW role, NEW W, NEW D, NEW named, NEW p, NEW y, NEW m, NEW e,
         Building(x, b, role, W, D, named, p), Staying(b, y, m, e)
  PROVE  Emitted(b, p, y, m, e)
<1>0. /\ b \in Builders /\ b.insert \in 1 .. Len(b.blocks) /\ p \in Nat /\ p = Settle[pc]
  BY BuildingFacts
<1>1. y \in Instructions /\ m = Long(b.blocks, b.insert) /\ e = Emit(b, y)
  BY DEF Staying
<1>2. /\ e \in Builders /\ e.insert = b.insert /\ Len(e.blocks) = Len(b.blocks) /\ m \in Nat
      /\ Does(e.blocks, b.insert, m + 1) = y /\ Of(e.blocks, b.insert, m + 1) = p
  BY <1>0, <1>1, EmitFacts
<1>3. \A c \in 1 .. Len(b.blocks) :
        /\ Par(e.blocks, c) = Par(b.blocks, c)
        /\ \A k \in 1 .. Long(b.blocks, c) : Does(e.blocks, c, k) = Does(b.blocks, c, k)
  BY <1>0, <1>1, EmitFacts
<1> QED BY <1>0, <1>1, <1>2, <1>3 DEF Emitted

LEMMA StayCore ==
  ASSUME NEW x, NEW b, NEW role, NEW W, NEW D, NEW named, NEW p, NEW y, NEW m, NEW e,
         Building(x, b, role, W, D, named, p), Staying(b, y, m, e),
         InstrOK(x, e.blocks, role, named, b.insert, m + 1),
         TargetOK(x, e.blocks, b.insert, W, named, b.insert, m + 1)
  PROVE  Stayed(x, b, role, W, D, named, p, y, m, e)
<1> USE DEF Staying
<1>0. /\ b \in Builders /\ b.blocks \in Seq(Blocks) /\ Len(b.blocks) \in Nat
      /\ b.insert \in 1 .. Len(b.blocks) /\ b.insert \in Nat /\ D \in Nat
      /\ p \in Nat /\ p = Settle[pc] /\ Par(b.blocks, b.insert) # 0
      /\ Core(x, b.blocks, role, b.insert, W, D, named)
      /\ \A w \in W : w \in 1 .. Len(b.blocks) /\ Par(b.blocks, w) = 0 /\ w # b.insert
  BY BuildingFacts
<1>1. /\ e \in Builders /\ e.insert = b.insert /\ e.broken = b.broken /\ e.last = b.last
      /\ Len(e.blocks) = Len(b.blocks)
      /\ Extended(b.blocks, b.insert, b.insert, y, p, e.blocks)
  BY <1>0, EmitExtends
<1>2. Follows(x, b.blocks, role, b.insert, W, b.insert, y, p, e.blocks, role, W, named)
  BY <1>0, <1>1 DEF Building, Follows
<1>3. RolesKept(b.blocks, role, role) /\ NamesKept(named, named)
  BY DEF RolesKept, NamesKept
<1>4. \A i \in DOMAIN x.source : x.source[i].op = "goto" => x.source[i].to \in DOMAIN named
  BY DEF Building
<1>5. e.blocks \in Seq(Blocks) /\ b.insert \in 1 .. Len(e.blocks)
  BY <1>0, <1>1, BuilderFacts
<1>6. Core(x, e.blocks, role, b.insert, W, D, named) /\ Kept(b.blocks, role, named, e.blocks, role, named)
  BY <1>0, <1>1, <1>2, <1>3, <1>4, <1>5, ExtendCore
<1>7. /\ Par(e.blocks, b.insert) = Par(b.blocks, b.insert) /\ Beside(b, b.insert, e)
      /\ Long(e.blocks, b.insert) = Long(b.blocks, b.insert) + 1
      /\ Does(e.blocks, b.insert, Long(b.blocks, b.insert) + 1) = y
      /\ Of(e.blocks, b.insert, Long(b.blocks, b.insert) + 1) = p
  <2>1. b \in Builders /\ e \in Builders /\ b.insert \in 1 .. Len(e.blocks)
    BY <1>0, <1>1, <1>5
  <2>2. Extended(b.blocks, b.insert, b.insert, y, p, e.blocks)
    BY <1>1
  <2>3. /\ Par(e.blocks, b.insert) = Par(b.blocks, b.insert) /\ Beside(b, b.insert, e)
        /\ Long(e.blocks, b.insert) = Long(b.blocks, b.insert) + 1
    BY <2>1, <2>2, ExtendedFacts
  <2> QED BY <2>2, <2>3 DEF Extended
<1> QED BY <1>1, <1>6, <1>7 DEF Stayed

(* Who waits after block t was put somewhere, and after a fork.             *)
Without(W2, W, t) == W2 = W \ {t}
WithTwo(W2, W, n) == W2 = W \cup {n + 2, n + 3}

(* A branch may go to `to' and t may follow.                                *)
MayTurn(b, W, t, to) ==
  /\ Par(b.blocks, t) = 0
  /\ to = t \/ to \in W
  /\ \/ t = to
     \/ \E c \in 1 .. Len(b.blocks) :
          c # b.insert /\ Par(b.blocks, c) = Par(b.blocks, b.insert) /\ t \in Ends(b.blocks, c)
  /\ \/ t \in W
     \/ \E c \in 1 .. t - 1 : \E k \in 1 .. Long(b.blocks, c) : t \in Targets(Does(b.blocks, c, k))

(* A branch to a block that waits, and that block or another one follows.   *)
Turning(b, t, to, m, e) ==
  /\ t \in 1 .. Len(b.blocks) /\ to \in 1 .. Len(b.blocks) /\ m = Long(b.blocks, b.insert)
  /\ e = SetInsert(PushBack(Emit(b, Br(to)), t), t)

Turned(x, b, role, D, named, t, to, m, e, W2) ==
  /\ e \in Builders /\ e.insert = t /\ e.broken = b.broken /\ e.last = b.last
  /\ Core(x, e.blocks, role, t, W2, D, named)
  /\ Kept(b.blocks, role, named, e.blocks, role, named)
  /\ Beside(b, t, e) /\ Par(e.blocks, t) = Par(b.blocks, b.insert)
  /\ Len(e.blocks) = Len(b.blocks) /\ Long(e.blocks, t) = 0 /\ t # b.insert
  /\ Long(e.blocks, b.insert) = m + 1 /\ Does(e.blocks, b.insert, m + 1) = Br(to)

LEMMA TurnCore ==
  ASSUME NEW x, NEW b, NEW role, NEW W, NEW D, NEW named, NEW p, NEW t, NEW to, NEW m, NEW e, NEW W2,
         Building(x, b, role, W, D, named, p), Turning(b, t, to, m, e),
         MayTurn(b, W, t, to), Without(W2, W, t), role[to].goal = p, Carries(role, b.insert, m + 1, to)
  PROVE  Turned(x, b, role, D, named, t, to, m, e, W2)
<1> USE DEF Turning
<1> DEFINE y == Br(to)
           bs == b.blocks
           ins == b.insert
<1>0. /\ b \in Builders /\ bs \in Seq(Blocks) /\ Len(bs) \in Nat
      /\ ins \in 1 .. Len(bs) /\ ins \in Nat /\ D \in Nat /\ m \in Nat
      /\ p \in Nat /\ p = Settle[pc] /\ Par(bs, ins) # 0
      /\ p \in DOMAIN x.source /\ x.within[p] = Par(bs, ins)
      /\ Core(x, bs, role, ins, W, D, named)
      /\ \A w \in W : w \in 1 .. Len(bs) /\ Par(bs, w) = 0 /\ w # ins
  BY BuildingFacts
<1>w. W2 = W \ {t}
  BY DEF Without
<1>m. /\ Par(bs, t) = 0
      /\ to = t \/ to \in W
      /\ \/ t = to
         \/ \E c \in 1 .. Len(bs) : c # ins /\ Par(bs, c) = Par(bs, ins) /\ t \in Ends(bs, c)
      /\ \/ t \in W
         \/ \E c \in 1 .. t - 1 : \E k \in 1 .. Long(bs, c) : t \in Targets(Does(bs, c, k))
  BY DEF MayTurn
<1>1. y \in Instructions /\ y.op = "br" /\ y.to = to /\ Targets(y) = {to} /\ y.op \in Terminators
  BY DEF Br, Instructions, Targets, Terminators
<1>2. PICK d : d = Emit(b, y)
  OBVIOUS
<1> HIDE DEF y
<1>3. /\ d \in Builders /\ d.insert = ins /\ d.broken = b.broken /\ d.last = b.last
      /\ Len(d.blocks) = Len(bs)
      /\ Extended(bs, ins, ins, y, p, d.blocks)
  BY <1>0, <1>1, <1>2, EmitExtends
<1>4. t # ins /\ t \in 1 .. Len(d.blocks) /\ t \in Nat
  BY <1>m, <1>0, <1>3
<1>5. Par(d.blocks, t) = 0
  <2>1. t <= Len(bs)
    BY <1>0
  <2> QED BY <1>m, <1>3, <1>4, <2>1 DEF Extended
<1>6. /\ e \in Builders /\ e.insert = t /\ e.broken = d.broken /\ e.last = d.last
      /\ Len(e.blocks) = Len(d.blocks)
      /\ Extended(bs, ins, t, y, p, e.blocks)
  <2>1. e = SetInsert(PushBack(d, t), t)
    BY <1>2 DEF y
  <2>2. b \in Builders /\ d \in Builders /\ d.insert = ins
        /\ t \in 1 .. Len(d.blocks) /\ t # ins /\ Par(d.blocks, t) = 0
    BY <1>0, <1>3, <1>4, <1>5
  <2>3. Extended(bs, ins, ins, y, p, d.blocks)
    BY <1>3
  <2>4. e \in Builders /\ e.insert = t /\ e.broken = d.broken /\ e.last = d.last /\ Len(e.blocks) = Len(d.blocks)
    BY <2>1, <2>2, TurnBuilder
  <2>5. Extended(bs, ins, t, y, p, e.blocks)
    BY <2>1, <2>2, <2>3, TurnExtends
  <2> QED BY <2>4, <2>5
<1>7. e.blocks \in Seq(Blocks) /\ t \in 1 .. Len(e.blocks) /\ Len(e.blocks) = Len(bs)
  BY <1>3, <1>4, <1>6, BuilderFacts
<1>8. /\ Par(e.blocks, t) = Par(bs, ins) /\ Beside(b, t, e)
      /\ Long(e.blocks, ins) = m + 1
      /\ Does(e.blocks, ins, m + 1) = y /\ Of(e.blocks, ins, m + 1) = p
  <2>1. b \in Builders /\ e \in Builders /\ t \in 1 .. Len(e.blocks)
    BY <1>0, <1>6, <1>7
  <2>2. Extended(b.blocks, b.insert, t, y, p, e.blocks)
    BY <1>6
  <2>3. /\ Par(e.blocks, t) = Par(b.blocks, b.insert) /\ Beside(b, t, e)
        /\ Long(e.blocks, b.insert) = Long(b.blocks, b.insert) + 1
    BY <2>1, <2>2, ExtendedFacts
  <2> QED BY <2>2, <2>3 DEF Extended
<1>9. Moves(bs, ins, W, t, y)
  BY <1>m, <1>1 DEF Moves
<1>10. /\ Par(e.blocks, ins) = Par(bs, ins)
       /\ \A w \in W2 : Par(e.blocks, w) = 0
       /\ Long(e.blocks, t) = 0
  <2>1. Par(e.blocks, ins) = Par(bs, ins)
    BY <1>0, <1>4, <1>8 DEF Beside
  <2>2. \A w \in W2 : Par(e.blocks, w) = 0
    BY <1>w, <1>0, <1>8 DEF Beside
  <2>3. Long(bs, t) = 0
    BY <1>m, <1>0 DEF Core, BlockOK
  <2> QED BY <2>1, <2>2, <2>3, <1>4, <1>8 DEF Beside
<1>11. InstrOK(x, e.blocks, role, named, ins, m + 1)
  BY <1>0, <1>1, <1>7, <1>8, <1>10 DEF InstrOK
<1>12. TargetOK(x, e.blocks, t, W2, named, ins, m + 1)
  <2>1. CASE to = t
    BY <2>1, <1>1, <1>8, <1>10 DEF TargetOK
  <2>2. CASE to # t
    <3>1. to \in W2
      BY <1>m, <2>2, <1>w
    <3> QED BY <3>1, <1>1, <1>8, <1>10 DEF TargetOK
  <2> QED BY <2>1, <2>2
<1>13. Follows(x, bs, role, ins, W, t, y, p, e.blocks, role, W2, named)
  <2>1. Ready(x, bs, role, ins, p)
    BY DEF Building
  <2>2. \A w \in W2 : w \in W /\ w # t /\ w \in 1 .. Len(e.blocks)
    BY <1>w, <1>0, <1>7
  <2>3. \A w \in W : w = t \/ w \in W2
    BY <1>w
  <2> QED BY <2>1, <2>2, <2>3, <1>9, <1>11, <1>12 DEF Follows
<1>14. RolesKept(bs, role, role) /\ NamesKept(named, named)
  BY DEF RolesKept, NamesKept
<1>15. \A i \in DOMAIN x.source : x.source[i].op = "goto" => x.source[i].to \in DOMAIN named
  BY DEF Building
<1>16. Core(x, e.blocks, role, t, W2, D, named) /\ Kept(bs, role, named, e.blocks, role, named)
  BY <1>0, <1>6, <1>7, <1>13, <1>14, <1>15, ExtendCore
<1> QED BY <1>3, <1>4, <1>6, <1>7, <1>8, <1>10, <1>16 DEF y, Turned

(* Three new blocks with the roles r1, r2 and r3.                            *)
NewRoles(role, n, r1, r2, r3) ==
  [c \in 1 .. n + 3 |-> IF c <= n THEN role[c] ELSE IF c = n + 1 THEN r1 ELSE IF c = n + 2 THEN r2 ELSE r3]

LEMMA NewRolesFacts ==
  ASSUME NEW role, NEW n, NEW r1, NEW r2, NEW r3,
         n \in Nat
  PROVE  /\ \A c \in 1 .. n : NewRoles(role, n, r1, r2, r3)[c] = role[c]
         /\ NewRoles(role, n, r1, r2, r3)[n + 1] = r1 /\ NewRoles(role, n, r1, r2, r3)[n + 2] = r2
         /\ NewRoles(role, n, r1, r2, r3)[n + 3] = r3
<1> DEFINE role2 == NewRoles(role, n, r1, r2, r3)
<1>1. /\ n + 1 \in 1 .. n + 3 /\ n + 2 \in 1 .. n + 3 /\ n + 3 \in 1 .. n + 3
      /\ ~ (n + 1 <= n) /\ ~ (n + 2 <= n) /\ ~ (n + 3 <= n) /\ n + 2 # n + 1 /\ n + 3 # n + 1 /\ n + 3 # n + 2
      /\ \A c \in 1 .. n : c \in 1 .. n + 3 /\ c <= n
  OBVIOUS
<1>2. \A c \in 1 .. n : role2[c] = role[c]
  BY <1>1 DEF NewRoles
<1>3. role2[n + 1] = r1
  BY <1>1 DEF NewRoles
<1>4. role2[n + 2] = r2
  BY <1>1 DEF NewRoles
<1>5. role2[n + 3] = r3
  BY <1>1 DEF NewRoles
<1> QED BY <1>2, <1>3, <1>4, <1>5

(* Control forks: what is built, and what then holds.                       *)
Forking(x, b, p, n, m, role2, on, yes, no, y, e) ==
  /\ n = Len(b.blocks) /\ m = Long(b.blocks, b.insert) /\ on \in Operands
  /\ (yes = n + 1 /\ no = n + 2) \/ (yes = n + 2 /\ no = n + 1)
  /\ y = CondBr(on, yes, no)
  /\ \/ ForksIf(x, b.blocks, role2, b.insert, m + 1, y, p)
     \/ ForksLazy(b.blocks, role2, b.insert, m + 1, y, p)
  /\ e = SetInsert(Emit(Create(Create(Create(b, Parent(b)), Detached), Detached), y), n + 1)

Forked(x, b, role, D, named, n, role2, e, W2) ==
  /\ e \in Builders /\ e.insert = n + 1 /\ e.broken = b.broken /\ e.last = b.last
  /\ n \in Nat /\ Len(e.blocks) = n + 3
  /\ Core(x, e.blocks, role2, n + 1, W2, D, named)
  /\ Kept(b.blocks, role, named, e.blocks, role2, named)
  /\ Beside(b, n + 1, e) /\ Par(e.blocks, n + 1) = Par(b.blocks, b.insert)
  /\ Long(e.blocks, n + 1) = 0 /\ Long(e.blocks, n + 2) = 0 /\ Long(e.blocks, n + 3) = 0
  /\ Ends(e.blocks, b.insert) = {n + 1, n + 2}

(* The first of the new blocks follows.                                     *)
LEMMA ForkCore ==
  ASSUME NEW x, NEW b, NEW role, NEW W, NEW D, NEW named, NEW p, NEW n, NEW m, NEW role2, NEW on,
         NEW yes, NEW no, NEW y, NEW e, NEW W2,
         Building(x, b, role, W, D, named, p), RolesKept(b.blocks, role, role2),
         Forking(x, b, p, n, m, role2, on, yes, no, y, e), WithTwo(W2, W, n)
  PROVE  Forked(x, b, role, D, named, n, role2, e, W2)
<1> USE DEF Forking
<1> DEFINE bs == b.blocks
           ins == b.insert
<1>0. /\ b \in Builders /\ bs \in Seq(Blocks) /\ Len(bs) \in Nat /\ n \in Nat
      /\ ins \in 1 .. Len(bs) /\ ins \in Nat /\ D \in Nat /\ m \in Nat
      /\ p \in Nat /\ p = Settle[pc] /\ Par(bs, ins) # 0
      /\ p \in DOMAIN x.source /\ x.within[p] = Par(bs, ins)
      /\ Core(x, bs, role, ins, W, D, named)
      /\ \A w \in W : w \in 1 .. Len(bs) /\ Par(bs, w) = 0 /\ w # ins
  BY BuildingFacts
<1>w. W2 = W \cup {n + 2, n + 3}
  BY DEF WithTwo
<1>1. /\ y \in Instructions /\ y.op = "condbr" /\ y.yes = yes /\ y.no = no /\ y.on = on
      /\ Targets(y) = {n + 1, n + 2} /\ y.op \in Terminators
  <2>0. n \in Nat
    BY <1>0
  <2>1. yes \in Nat /\ no \in Nat
    BY <2>0
  <2>2. y \in Instructions /\ y.op = "condbr" /\ y.yes = yes /\ y.no = no /\ y.on = on
    BY <2>1 DEF CondBr, Instructions
  <2>3. Targets(y) = {yes, no}
    BY <2>2 DEF Targets
  <2> QED BY <2>2, <2>3 DEF Terminators
<1>3. /\ e \in Builders /\ e.insert = n + 1 /\ e.broken = b.broken /\ e.last = b.last
      /\ Len(e.blocks) = n + 3
      /\ Extended(bs, ins, n + 1, y, p, e.blocks)
  <2>1. b \in Builders /\ y \in Instructions /\ p \in Nat /\ p = Settle[pc]
    BY <1>0, <1>1
  <2>2. /\ e \in Builders /\ e.insert = n + 1 /\ e.broken = b.broken /\ e.last = b.last
        /\ Len(e.blocks) = n + 3
    BY <2>1, ForkExtends
  <2>3. Extended(b.blocks, b.insert, n + 1, y, p, e.blocks)
    BY <2>1, ForkExtends
  <2> QED BY <2>2, <2>3
<1>4. e.blocks \in Seq(Blocks) /\ n + 1 \in 1 .. Len(e.blocks)
  <2>1. n \in Nat
    BY <1>0
  <2>2. n + 1 \in 1 .. n + 3
    BY <2>1
  <2> QED BY <2>2, <1>3, BuilderFacts
<1>5. /\ Par(e.blocks, n + 1) = Par(bs, ins) /\ Beside(b, n + 1, e)
      /\ Long(e.blocks, ins) = m + 1
      /\ \A c \in 1 .. Len(bs) : \A k \in 1 .. Long(bs, c) : Does(e.blocks, c, k) = Does(bs, c, k)
      /\ \A c \in 1 .. Len(e.blocks) : c > Len(bs) => Long(e.blocks, c) = 0
  <2>1. b \in Builders /\ e \in Builders /\ n + 1 \in 1 .. Len(e.blocks)
    BY <1>0, <1>3, <1>4
  <2>2. Extended(b.blocks, b.insert, n + 1, y, p, e.blocks)
    BY <1>3
  <2>3. /\ Par(e.blocks, n + 1) = Par(b.blocks, b.insert) /\ Beside(b, n + 1, e)
        /\ Long(e.blocks, b.insert) = Long(b.blocks, b.insert) + 1
    BY <2>1, <2>2, ExtendedFacts
  <2>4. \A c \in 1 .. Len(bs) : \A k \in 1 .. Long(bs, c) : Does(e.blocks, c, k) = Does(bs, c, k)
    BY <2>1, <2>2, ExtendedCode
  <2>5. \A c \in 1 .. Len(e.blocks) : c > Len(bs) => Long(e.blocks, c) = 0
    BY <2>1, <2>2, ExtendedCode
  <2> QED BY <2>3, <2>4, <2>5
<1>6. Does(e.blocks, ins, m + 1) = y /\ Of(e.blocks, ins, m + 1) = p
  BY <1>3 DEF Extended
<1>7. /\ n + 1 > n /\ n + 2 > n /\ n + 3 > n /\ n + 2 # n + 1 /\ n + 3 # n + 1 /\ ins # n + 1
      /\ n + 1 \in 1 .. n + 3 /\ n + 2 \in 1 .. n + 3 /\ n + 3 \in 1 .. n + 3
      /\ ~ (n + 2 <= n) /\ ~ (n + 3 <= n) /\ n <= n + 3
  <2>1. n \in Nat /\ ins \in 1 .. n
    BY <1>0
  <2> QED BY <2>1
<1>8. Par(e.blocks, n + 2) = 0 /\ Par(e.blocks, n + 3) = 0 /\ Par(e.blocks, ins) = Par(bs, ins)
  <2>1. Par(e.blocks, n + 2) = 0
    BY <1>3, <1>7 DEF Extended
  <2>2. Par(e.blocks, n + 3) = 0
    BY <1>3, <1>7 DEF Extended
  <2>3. Par(e.blocks, ins) = Par(bs, ins)
    BY <1>0, <1>5, <1>7 DEF Beside
  <2> QED BY <2>1, <2>2, <2>3
<1>9. \A o, c : Knows(bs, role2, ins, m + 1, o, c) => Knows(e.blocks, role2, ins, m + 1, o, c)
  <2>1. ASSUME m + 1 = 2 PROVE Does(e.blocks, ins, 1) = Does(bs, ins, 1)
    <3>1. 1 \in 1 .. m
      BY <1>0, <2>1
    <3> QED BY <3>1, <1>0, <1>5
  <2> QED BY <2>1 DEF Knows
<1>10. \/ ForksIf(x, e.blocks, role2, ins, m + 1, y, p)
       \/ ForksLazy(e.blocks, role2, ins, m + 1, y, p)
  <2>1. CASE ForksIf(x, bs, role2, ins, m + 1, y, p)
    BY <2>1, <1>9 DEF ForksIf
  <2>2. CASE ForksLazy(bs, role2, ins, m + 1, y, p)
    BY <2>2, <1>9 DEF ForksLazy
  <2> QED BY <2>1, <2>2
<1>11. InstrOK(x, e.blocks, role2, named, ins, m + 1)
  <2>1. yes \in 1 .. Len(e.blocks) /\ no \in 1 .. Len(e.blocks)
    BY <1>3, <1>7
  <2> QED BY <2>1, <1>0, <1>1, <1>6, <1>8, <1>10 DEF InstrOK
<1>12. TargetOK(x, e.blocks, n + 1, W2, named, ins, m + 1)
  BY <1>w, <1>1, <1>5, <1>6, <1>8 DEF TargetOK
<1>13. Moves(bs, ins, W, n + 1, y)
  BY <1>1, <1>7 DEF Moves
<1>14. Follows(x, bs, role, ins, W, n + 1, y, p, e.blocks, role2, W2, named)
  <2>1. Ready(x, bs, role, ins, p)
    BY DEF Building
  <2>2. \A w \in W2 : (w \in W \/ w > Len(bs)) /\ w # n + 1 /\ w \in 1 .. Len(e.blocks)
    <3>1. \A w \in W : w # n + 1 /\ w \in 1 .. n + 3
      <4>1. n \in Nat
        BY <1>0
      <4>2. \A w \in 1 .. n : w # n + 1 /\ w \in 1 .. n + 3
        BY <4>1
      <4> QED BY <4>2, <1>0
    <3> QED BY <3>1, <1>w, <1>3, <1>7
  <2>3. \A w \in W : w = n + 1 \/ w \in W2
    BY <1>w
  <2> QED BY <2>1, <2>2, <2>3, <1>11, <1>12, <1>13 DEF Follows
<1>15. RolesKept(bs, role, role2) /\ NamesKept(named, named)
  BY DEF NamesKept
<1>16. \A i \in DOMAIN x.source : x.source[i].op = "goto" => x.source[i].to \in DOMAIN named
  BY DEF Building
<1>17. Core(x, e.blocks, role2, n + 1, W2, D, named) /\ Kept(bs, role, named, e.blocks, role2, named)
  <2>1. Extended(bs, ins, n + 1, y, p, e.blocks)
    BY <1>3
  <2> QED BY <1>0, <1>4, <1>14, <1>15, <1>16, <2>1, ExtendCore
<1>18. Ends(e.blocks, ins) = {n + 1, n + 2}
  <2>1. m + 1 # 0
    BY <1>0
  <2> QED BY <2>1, <1>1, <1>5, <1>6 DEF Ends
<1> QED BY <1>0, <1>3, <1>5, <1>7, <1>17, <1>18 DEF Forked

-----------------------------------------------------------------------------
(* The visit of an expression *)

VisitedAs(x, b, role, W, D, named, p, e, r, role2) ==
  /\ Core(x, r.blocks, role2, r.insert, W, D, named)
  /\ Kept(b.blocks, role, named, r.blocks, role2, named)
  /\ Ready(x, r.blocks, role2, r.insert, p)
  /\ Knows(r.blocks, role2, r.insert, Long(r.blocks, r.insert) + 1, r.last, e)

Visited(x, b, role, W, D, named, p, e, r) ==
  /\ r \in Builders /\ r.broken = b.broken /\ r.last \in Operands
  /\ Par(r.blocks, r.insert) = Par(b.blocks, b.insert)
  /\ Beside(b, 0, r)
  /\ IF e.op = "variable" THEN r.blocks = b.blocks /\ r.insert = b.insert /\ r.last = Load(e.name)
                          ELSE r.insert > Len(b.blocks)
  /\ \E role2 : VisitedAs(x, b, role, W, D, named, p, e, r, role2)

LEMMA BuildingOn ==
  ASSUME NEW x, NEW b, NEW role, NEW W, NEW D, NEW named, NEW p, NEW r, NEW role2, NEW W2,
         Building(x, b, role, W, D, named, p), r \in Builders,
         Core(x, r.blocks, role2, r.insert, W2, D, named),
         Par(r.blocks, r.insert) = Par(b.blocks, b.insert), Ready(x, r.blocks, role2, r.insert, p)
  PROVE  Building(x, r, role2, W2, D, named, p)
BY DEF Building

LEMMA VariableVisited ==
  ASSUME NEW x, NEW b, NEW role, NEW W, NEW D, NEW named, NEW p, NEW e, NEW r,
         Building(x, b, role, W, D, named, p), e \in Expressions, e.op = "variable",
         r = [b EXCEPT !.last = Load(e.name)]
  PROVE  Visited(x, b, role, W, D, named, p, e, r)
<1>1. /\ b \in Builders /\ b.blocks \in Seq(Blocks) /\ b.insert \in 1 .. Len(b.blocks)
      /\ Core(x, b.blocks, role, b.insert, W, D, named)
  BY BuildingFacts
<1>2. b.broken \in BOOLEAN /\ Len(b.blocks) \in Nat
  BY <1>1, BuilderFacts
<1>3. r = [blocks |-> b.blocks, insert |-> b.insert, last |-> Load(e.name), broken |-> b.broken]
  BY <1>1, BuilderExcept
<1>4. Load(e.name) \in Operands
  <2>1. e.name \in Variables
    BY BlocksAssumption
  <2> QED BY <2>1 DEF Load, Operands
<1>5. r \in Builders
  BY <1>1, <1>2, <1>3, <1>4, BuilderType
<1>6. r.blocks = b.blocks /\ r.insert = b.insert /\ r.last = Load(e.name) /\ r.broken = b.broken
  BY <1>3
<1>7. Kept(b.blocks, role, named, r.blocks, role, named)
  BY <1>1, <1>6, KeptSame
<1>8. Beside(b, 0, r)
  BY <1>2, <1>6 DEF Beside
<1>9. VisitedAs(x, b, role, W, D, named, p, e, r, role)
  <2>1. Ready(x, r.blocks, role, r.insert, p)
    BY <1>6 DEF Building
  <2> QED BY <2>1, <1>1, <1>6, <1>7 DEF VisitedAs, Knows
<1> QED BY <1>4, <1>5, <1>6, <1>8, <1>9 DEF Visited

(* The roles of the three blocks of a lazy operator.                        *)
Fact(origin, never, on, e) == [from |-> origin, never |-> never, on |-> on, is |-> e]
LeftRole(p, on, e) == [goal |-> p, claims |-> {Fact(0, FALSE, on, e)}, means |-> Absent]
RightRole(p, e) ==
  [goal |-> p, means |-> Absent,
   claims |-> IF e.right.op = "variable" THEN {Fact(0, FALSE, Load(e.right.name), e)} ELSE {}]
MergeRole(p, n, on, e) ==
  [goal |-> p, means |-> e,
   claims |-> {Fact(n + 1, FALSE, on, e), Fact(n + 2, e.right.op # "variable", Load(e.right.name), e)}]

(* Behind the operand on the left.                                          *)
LeftMade(b, role, n, m, e, y, f, g) ==
  /\ n = Len(b.blocks) /\ m = Long(b.blocks, b.insert)
  /\ e \in Expressions /\ e.op # "variable" /\ b.last \in Operands
  /\ Knows(b.blocks, role, b.insert, m + 1, b.last, e.left)
  /\ y = IF e.op = "and" THEN CondBr(b.last, n + 2, n + 1) ELSE CondBr(b.last, n + 1, n + 2)
  /\ f = SetInsert(Emit(Create(Create(Create(b, Parent(b)), Detached), Detached), y), n + 1)
  /\ g = SetInsert(PushBack(Emit(f, Br(n + 3)), n + 2), n + 2)

LeftRoles(x, b, role, W, D, named, p, n, e, g, role2) ==
  /\ Building(x, g, role2, W \cup {n + 3}, D, named, p)
  /\ Kept(b.blocks, role, named, g.blocks, role2, named)
  /\ role2[n + 2] = RightRole(p, e)
  /\ role2[n + 3] = MergeRole(p, n, b.last, e)

LeftDone(b, n, g) ==
  /\ g \in Builders /\ g.insert = n + 2 /\ g.broken = b.broken
  /\ n \in Nat /\ n = Len(b.blocks) /\ Len(g.blocks) = n + 3 /\ Long(g.blocks, n + 2) = 0
  /\ Par(g.blocks, g.insert) = Par(b.blocks, b.insert)
  /\ Beside(b, 0, g)

LEMMA LazyLeft ==
  ASSUME NEW x, NEW b, NEW role, NEW W, NEW D, NEW named, NEW p, NEW n, NEW m, NEW e, NEW y, NEW f,
         NEW g,
         Building(x, b, role, W, D, named, p), LeftMade(b, role, n, m, e, y, f, g)
  PROVE  LeftDone(b, n, g) /\ \E role2 : LeftRoles(x, b, role, W, D, named, p, n, e, g, role2)
<1> USE DEF LeftMade
<1> DEFINE bs == b.blocks
           ins == b.insert
           on == b.last
<1>0. /\ b \in Builders /\ bs \in Seq(Blocks) /\ Len(bs) \in Nat /\ n \in Nat
      /\ ins \in 1 .. Len(bs) /\ ins \in Nat /\ m \in Nat
      /\ Par(bs, ins) # 0
      /\ Core(x, bs, role, ins, W, D, named)
      /\ \A w \in W : w \in 1 .. Len(bs) /\ Par(bs, w) = 0 /\ w # ins
  BY BuildingFacts
<1>n. n \in Nat
  BY <1>0
<1>r. PICK role2 : role2 = NewRoles(role, n, LeftRole(p, on, e), RightRole(p, e), MergeRole(p, n, on, e))
  OBVIOUS
<1>w. PICK W2 : WithTwo(W2, W, n)
  BY DEF WithTwo
<1>1. /\ \A c \in 1 .. n : role2[c] = role[c]
      /\ role2[n + 1] = LeftRole(p, on, e) /\ role2[n + 2] = RightRole(p, e)
      /\ role2[n + 3] = MergeRole(p, n, on, e)
  BY <1>n, <1>r, NewRolesFacts
<1>2. /\ n + 1 # n + 2 /\ n + 1 # n + 3 /\ n + 2 # n + 3 /\ n + 1 # 0 /\ n + 2 # 0 /\ n + 3 # 0
      /\ n + 1 \in 1 .. n + 3 /\ n + 2 \in 1 .. n + 3 /\ n + 3 \in 1 .. n + 3
      /\ \A c \in 1 .. n : c # n + 1 /\ c # n + 2 /\ c # n + 3 /\ c \in 1 .. n + 3 /\ c # 0
  BY <1>n
<1>3. /\ role2[n + 1].goal = p /\ role2[n + 1].claims = {Fact(0, FALSE, on, e)}
      /\ role2[n + 2].goal = p
      /\ role2[n + 2].claims = IF e.right.op = "variable" THEN {Fact(0, FALSE, Load(e.right.name), e)} ELSE {}
      /\ role2[n + 3].goal = p
      /\ role2[n + 3].claims =
           {Fact(n + 1, FALSE, on, e), Fact(n + 2, e.right.op # "variable", Load(e.right.name), e)}
  BY <1>1 DEF LeftRole, RightRole, MergeRole
<1>4. Shorts(role2, n + 1, on, e) /\ GoesOn(role2, n + 2, e)
  <2>1. Shorts(role2, n + 1, on, e)
    BY <1>3 DEF Shorts, Fact
  <2>2. GoesOn(role2, n + 2, e)
    <3>1. CASE e.right.op = "variable"
      <4>1. role2[n + 2].claims = {Fact(0, FALSE, Load(e.right.name), e)}
        BY <1>3, <3>1
      <4> QED BY <4>1, <3>1 DEF GoesOn, Fact
    <3>2. CASE e.right.op # "variable"
      <4>1. role2[n + 2].claims = {}
        BY <1>3, <3>2
      <4> QED BY <4>1 DEF GoesOn
    <3> QED BY <3>1, <3>2
  <2> QED BY <2>1, <2>2
<1>5. ForksLazy(bs, role2, ins, m + 1, y, p)
  <2>1. e.op \in {"and", "or"}
    BY BlocksAssumption
  <2>2. Knows(bs, role2, ins, m + 1, on, e.left)
    <3>1. role2[ins] = role[ins]
      BY <1>0, <1>1
    <3> QED BY <3>1 DEF Knows
  <2>3. CASE e.op = "and"
    <3>1. y.on = on /\ y.yes = n + 2 /\ y.no = n + 1
      BY <2>3 DEF CondBr
    <3> QED BY <2>2, <2>3, <3>1, <1>3, <1>4 DEF ForksLazy
  <2>4. CASE e.op = "or"
    <3>1. y.on = on /\ y.yes = n + 1 /\ y.no = n + 2
      BY <2>4 DEF CondBr
    <3> QED BY <2>2, <2>4, <3>1, <1>3, <1>4 DEF ForksLazy
  <2> QED BY <2>1, <2>3, <2>4
<1>6. RolesKept(bs, role, role2)
  BY <1>1 DEF RolesKept
<1>7. /\ f \in Builders /\ f.insert = n + 1 /\ f.broken = b.broken
      /\ Len(f.blocks) = n + 3
      /\ Core(x, f.blocks, role2, n + 1, W2, D, named)
      /\ Kept(bs, role, named, f.blocks, role2, named)
      /\ Beside(b, n + 1, f) /\ Par(f.blocks, n + 1) = Par(bs, ins)
      /\ Long(f.blocks, n + 1) = 0 /\ Long(f.blocks, n + 2) = 0 /\ Long(f.blocks, n + 3) = 0
      /\ Ends(f.blocks, ins) = {n + 1, n + 2}
  <2>1. PICK yes, no : Forking(x, b, p, n, m, role2, on, yes, no, y, f)
    <3>1. CASE e.op = "and"
      <4>1. y = CondBr(on, n + 2, n + 1)
        BY <3>1
      <4>2. Forking(x, b, p, n, m, role2, on, n + 2, n + 1, y, f)
        BY <4>1, <1>5 DEF Forking
      <4> QED BY <4>2
    <3>2. CASE e.op # "and"
      <4>1. y = CondBr(on, n + 1, n + 2)
        BY <3>2
      <4>2. Forking(x, b, p, n, m, role2, on, n + 1, n + 2, y, f)
        BY <4>1, <1>5 DEF Forking
      <4> QED BY <4>2
    <3> QED BY <3>1, <3>2
  <2>2. Forked(x, b, role, D, named, n, role2, f, W2)
    BY <2>1, <1>6, <1>w, ForkCore
  <2> QED BY <2>2 DEF Forked
<1>8. Building(x, f, role2, W2, D, named, p)
  <2>1. Ready(x, f.blocks, role2, f.insert, p)
    BY <1>3, <1>7 DEF Ready
  <2> QED BY <2>1, <1>7, BuildingOn
<1>9. \A w \in W2 : Par(f.blocks, w) = 0
  BY <1>8, BuildingFacts
<1>10. Carries(role2, n + 1, 1, n + 3)
  <2>1. ASSUME NEW h \in role2[n + 3].claims, h.from \in {0, n + 1}
        PROVE  h = Fact(n + 1, FALSE, on, e)
    BY <2>1, <1>2, <1>3 DEF Fact
  <2>2. /\ ~Fact(n + 1, FALSE, on, e).never
        /\ [from |-> 0, never |-> FALSE, on |-> Fact(n + 1, FALSE, on, e).on, is |-> Fact(n + 1, FALSE, on, e).is]
             \in role2[n + 1].claims
    BY <1>3 DEF Fact
  <2>3. Fact(n + 1, FALSE, on, e) \in role2[n + 3].claims /\ Fact(n + 1, FALSE, on, e).from = n + 1
    BY <1>3 DEF Fact
  <2> QED BY <2>1, <2>2, <2>3 DEF Carries
<1>v. PICK W3 : Without(W3, W2, n + 2)
  BY DEF Without
<1>11. /\ g \in Builders /\ g.insert = n + 2 /\ g.broken = f.broken
       /\ Core(x, g.blocks, role2, n + 2, W3, D, named)
       /\ Kept(f.blocks, role2, named, g.blocks, role2, named)
       /\ Beside(f, n + 2, g) /\ Par(g.blocks, n + 2) = Par(f.blocks, n + 1)
       /\ Len(g.blocks) = Len(f.blocks) /\ Long(g.blocks, n + 2) = 0
  <2>1. n + 2 \in 1 .. Len(f.blocks) /\ n + 3 \in 1 .. Len(f.blocks)
    BY <1>2, <1>7
  <2>2. n + 2 \in W2 /\ n + 3 \in W2
    BY <1>w DEF WithTwo
  <2>3. 0 + 1 = 1
    OBVIOUS
  <2>4. ins \in 1 .. Len(f.blocks) /\ ins # f.insert /\ Par(f.blocks, ins) = Par(f.blocks, f.insert)
        /\ n + 2 \in Ends(f.blocks, ins)
    <3>1. Par(f.blocks, ins) = Par(bs, ins)
      BY <1>0, <1>2, <1>7 DEF Beside
    <3> QED BY <3>1, <1>0, <1>2, <1>7
  <2>5. Long(f.blocks, f.insert) = 0 /\ f.insert = n + 1
    BY <1>7
  <2>6. Par(f.blocks, n + 2) = 0
    BY <2>2, <1>9
  <2>7. MayTurn(f, W2, n + 2, n + 3)
    BY <2>1, <2>2, <2>4, <2>6 DEF MayTurn
  <2>8. Turning(f, n + 2, n + 3, 0, g)
    BY <2>1, <2>5 DEF Turning
  <2>9. Carries(role2, f.insert, 0 + 1, n + 3)
    BY <2>3, <2>5, <1>10
  <2>10. role2[n + 3].goal = p
    BY <1>3
  <2>11. Turned(x, f, role2, D, named, n + 2, n + 3, 0, g, W3)
    BY <2>7, <2>8, <2>9, <2>10, <1>8, <1>v, TurnCore
  <2> QED BY <2>5, <2>11 DEF Turned
<1>12. W3 = W \cup {n + 3}
  BY <1>v, <1>0, <1>2, <1>w DEF WithTwo, Without
<1>13. Building(x, g, role2, W \cup {n + 3}, D, named, p)
  <2>1. Ready(x, g.blocks, role2, g.insert, p)
    BY <1>3, <1>11 DEF Ready
  <2>2. Core(x, g.blocks, role2, g.insert, W3, D, named) /\ g \in Builders
    BY <1>11
  <2>3. Par(g.blocks, g.insert) = Par(b.blocks, b.insert)
    BY <1>7, <1>11
  <2>4. Building(x, g, role2, W3, D, named, p)
    BY <2>1, <2>2, <2>3, BuildingOn
  <2> QED BY <2>4, <1>12
<1>14. Kept(bs, role, named, g.blocks, role2, named)
  <2>1. f.blocks \in Seq(Blocks) /\ g.blocks \in Seq(Blocks)
    BY <1>7, <1>11, BuilderFacts
  <2> QED BY <2>1, <1>0, <1>7, <1>11, KeptTrans
<1>15. Beside(b, 0, g)
  <2>1. ASSUME NEW c \in 1 .. Len(bs)
        PROVE  /\ c # 0 => Par(g.blocks, c) = Par(bs, c)
               /\ c # ins => Long(g.blocks, c) = Long(bs, c)
    <3>1. c # n + 1 /\ c # n + 2 /\ c \in 1 .. Len(f.blocks)
      BY <1>2, <1>7
    <3>2. (c # 0 => Par(f.blocks, c) = Par(bs, c)) /\ (c # ins => Long(f.blocks, c) = Long(bs, c))
      BY <3>1, <1>7 DEF Beside
    <3>3. Par(g.blocks, c) = Par(f.blocks, c) /\ Long(g.blocks, c) = Long(f.blocks, c)
      BY <3>1, <1>7, <1>11 DEF Beside
    <3> QED BY <3>2, <3>3
  <2>2. Len(bs) <= Len(g.blocks)
    BY <1>n, <1>7, <1>11
  <2> QED BY <2>1, <2>2 DEF Beside
<1>16. LeftRoles(x, b, role, W, D, named, p, n, e, g, role2)
  BY <1>1, <1>13, <1>14 DEF LeftRoles
<1> QED BY <1>7, <1>11, <1>15, <1>16, <1>n DEF LeftDone

(* Behind the operand on the right r: h is at the block that both come to,   *)
(* where d has the PHI node.                                                *)
RightMade(b, n, r, h, y, d, z) ==
  /\ h = SetInsert(PushBack(Emit(r, Br(n + 3)), n + 3), n + 3)
  /\ y = [op |-> "phi", incoming |-> {<<n + 1, b.last>>, <<n + 2, r.last>>}]
  /\ d = Emit(h, y)
  /\ z = [d EXCEPT !.last = PhiOf(n + 3)]

LEMMA RightCarries ==
  ASSUME NEW role, NEW p, NEW n, NEW on, NEW e, NEW c, NEW k,
         role[n + 3] = MergeRole(p, n, on, e), n \in Nat, c \in Nat,
         IF e.right.op = "variable" THEN c = n + 2 /\ k = 1 /\ role[c] = RightRole(p, e)
                                    ELSE c > n + 3 /\ e.op # "variable" /\ e \in Expressions
  PROVE  Carries(role, c, k, n + 3)
<1>1. role[n + 3].claims =
        {Fact(n + 1, FALSE, on, e), Fact(n + 2, e.right.op # "variable", Load(e.right.name), e)}
  BY DEF MergeRole
<1>2. c # n + 1 /\ n + 1 # 0 /\ n + 2 # 0
  OBVIOUS
<1>3. CASE e.right.op = "variable"
  <2>1. c = n + 2 /\ k = 1 /\ role[c].claims = {[from |-> 0, never |-> FALSE, on |-> Load(e.right.name), is |-> e]}
    <3>1. c = n + 2 /\ k = 1 /\ role[c] = RightRole(p, e)
      BY <1>3
    <3> QED BY <3>1, <1>3 DEF RightRole, Fact
  <2> DEFINE g == Fact(n + 2, e.right.op # "variable", Load(e.right.name), e)
  <2>2. g.from = n + 2 /\ g.never = FALSE /\ g.on = Load(e.right.name) /\ g.is = e
    BY <1>3 DEF Fact
  <2>3. [from |-> 0, never |-> FALSE, on |-> g.on, is |-> g.is] \in role[c].claims
    <3>1. g.on = Load(e.right.name) /\ g.is = e
      BY <2>2
    <3>2. [from |-> 0, never |-> FALSE, on |-> Load(e.right.name), is |-> e] \in role[c].claims
      BY <2>1
    <3> HIDE DEF g
    <3> QED BY <3>1, <3>2
  <2>4. ASSUME NEW f \in role[n + 3].claims, f.from \in {0, c}
        PROVE  f = g
    BY <1>1, <1>2, <2>1, <2>4 DEF Fact
  <2>5. g \in role[n + 3].claims
    BY <1>1
  <2> HIDE DEF g
  <2>6. \A f \in role[n + 3].claims : f.from \in {0, c} =>
          ~f.never /\ k = 1 /\ [from |-> 0, never |-> FALSE, on |-> f.on, is |-> f.is] \in role[c].claims
    BY <2>1, <2>2, <2>3, <2>4
  <2> QED BY <2>1, <2>2, <2>5, <2>6 DEF Carries
<1>4. CASE e.right.op # "variable"
  <2>1. c # n + 2
    BY <1>4
  <2>2. \A f \in role[n + 3].claims : ~(f.from \in {0, c})
    BY <1>1, <1>2, <2>1 DEF Fact
  <2>3. ~RightsAreVariables
    BY <1>4 DEF RightsAreVariables
  <2> QED BY <2>2, <2>3 DEF Carries
<1> QED BY <1>3, <1>4

LEMMA MergePhi ==
  ASSUME NEW role, NEW p, NEW n, NEW on, NEW e, NEW y, NEW o,
         role[n + 3] = MergeRole(p, n, on, e), n \in Nat, e \in Expressions,
         y = [op |-> "phi", incoming |-> {<<n + 1, on>>, <<n + 2, o>>}],
         e.right.op = "variable" => o = Load(e.right.name)
  PROVE  PhiOK(role, n + 3, 1, y)
<1>1. /\ role[n + 3].claims =
           {Fact(n + 1, FALSE, on, e), Fact(n + 2, e.right.op # "variable", Load(e.right.name), e)}
      /\ role[n + 3].means = e
  BY DEF MergeRole
<1>2. y.incoming = {<<n + 1, on>>, <<n + 2, o>>}
  OBVIOUS
<1>3. \A w \in y.incoming : \E f \in role[n + 3].claims : f.from = w[1] /\ (f.never \/ f.on = w[2])
  <2>1. \E f \in role[n + 3].claims : f.from = n + 1 /\ (f.never \/ f.on = on)
    BY <1>1 DEF Fact
  <2>2. \E f \in role[n + 3].claims : f.from = n + 2 /\ (f.never \/ f.on = o)
    <3> DEFINE g == Fact(n + 2, e.right.op # "variable", Load(e.right.name), e)
    <3>1. g \in role[n + 3].claims
      BY <1>1
    <3>2. g.from = n + 2 /\ g.on = Load(e.right.name)
      BY DEF Fact
    <3>3. g.never = (e.right.op # "variable")
      BY Zenon DEF Fact
    <3> HIDE DEF g
    <3> QED BY <3>1, <3>2, <3>3
  <2> QED BY <1>2, <2>1, <2>2
<1>4. \A f \in role[n + 3].claims : f.is = e
  BY <1>1 DEF Fact
<1>5. \A f \in role[n + 3].claims : f.from = n + 1 \/ f.from = n + 2
  BY <1>1 DEF Fact
<1>6. \A f \in role[n + 3].claims : \E w \in y.incoming : w[1] = f.from
  BY <1>2, <1>5
<1>7. \A f \in role[n + 3].claims : f.from # 0
  BY <1>5
<1>8. role[n + 3].claims # {}
  BY <1>1
<1> QED BY <1>1, <1>3, <1>4, <1>6, <1>7, <1>8 DEF PhiOK

LEMMA LazyRight ==
  ASSUME NEW x, NEW b, NEW role, NEW W, NEW D, NEW named, NEW p, NEW n, NEW e, NEW g, NEW role2,
         NEW r, NEW h, NEW y, NEW d, NEW z,
         Building(x, b, role, W, D, named, p), e \in Expressions, e.op # "variable", b.last \in Operands,
         LeftDone(b, n, g), LeftRoles(x, b, role, W, D, named, p, n, e, g, role2),
         Visited(x, g, role2, W \cup {n + 3}, D, named, p, e.right, r), RightMade(b, n, r, h, y, d, z)
  PROVE  Visited(x, b, role, W, D, named, p, e, z)
<1> DEFINE on == b.last
           bs == b.blocks
           W3 == W \cup {n + 3}
<1>0. /\ b \in Builders /\ bs \in Seq(Blocks) /\ Len(bs) \in Nat
      /\ b.insert \in 1 .. Len(bs)
      /\ \A w \in W : w \in 1 .. Len(bs) /\ Par(bs, w) = 0 /\ w # b.insert
  BY BuildingFacts
<1>1. /\ g \in Builders /\ g.insert = n + 2 /\ g.broken = b.broken
      /\ n \in Nat /\ n = Len(bs) /\ Len(g.blocks) = n + 3 /\ Long(g.blocks, n + 2) = 0
      /\ Par(g.blocks, g.insert) = Par(bs, b.insert) /\ Beside(b, 0, g)
  BY DEF LeftDone
<1>n. n \in Nat
  BY <1>1
<1>2. /\ Building(x, g, role2, W3, D, named, p) /\ Kept(bs, role, named, g.blocks, role2, named)
      /\ role2[n + 2] = RightRole(p, e) /\ role2[n + 3] = MergeRole(p, n, on, e)
  BY DEF LeftRoles
<1>3. /\ r \in Builders /\ r.broken = g.broken /\ r.last \in Operands
      /\ Par(r.blocks, r.insert) = Par(g.blocks, g.insert) /\ Beside(g, 0, r)
      /\ IF e.right.op = "variable" THEN r.blocks = g.blocks /\ r.insert = g.insert /\ r.last = Load(e.right.name)
                                    ELSE r.insert > Len(g.blocks)
  BY DEF Visited
<1>4. PICK role3 : VisitedAs(x, g, role2, W3, D, named, p, e.right, r, role3)
  BY DEF Visited
<1>5. /\ Core(x, r.blocks, role3, r.insert, W3, D, named)
      /\ Kept(g.blocks, role2, named, r.blocks, role3, named)
      /\ Ready(x, r.blocks, role3, r.insert, p)
  BY <1>4 DEF VisitedAs
<1>6. Building(x, r, role3, W3, D, named, p)
  BY <1>2, <1>3, <1>5, BuildingOn
<1>7. /\ r.blocks \in Seq(Blocks) /\ r.insert \in 1 .. Len(r.blocks) /\ Len(r.blocks) \in Nat
      /\ Long(r.blocks, r.insert) \in Nat /\ r.insert \in Nat
      /\ \A w \in W3 : w \in 1 .. Len(r.blocks) /\ Par(r.blocks, w) = 0
  BY <1>6, BuildingFacts
<1>8. n + 2 \in 1 .. n + 3 /\ n + 3 \in 1 .. n + 3 /\ n + 3 \notin 1 .. n /\ n + 3 # 0 /\ n + 3 > n
  BY <1>n
<1>9. role3[n + 2] = RightRole(p, e) /\ role3[n + 3] = MergeRole(p, n, on, e)
  BY <1>1, <1>2, <1>5, <1>8 DEF Kept
<1>10. Turning(r, n + 3, n + 3, Long(r.blocks, r.insert), h)
  <2>1. n + 3 \in 1 .. Len(r.blocks)
    BY <1>7
  <2> QED BY <2>1 DEF Turning, RightMade
<1>11. MayTurn(r, W3, n + 3, n + 3)
  BY <1>7 DEF MayTurn
<1>w. PICK W4 : Without(W4, W3, n + 3)
  BY DEF Without
<1>12. W4 = W
  BY <1>w, <1>0, <1>1, <1>8 DEF Without
<1>13. Carries(role3, r.insert, Long(r.blocks, r.insert) + 1, n + 3)
  <2>1. CASE e.right.op = "variable"
    <3>1. r.insert = n + 2 /\ Long(r.blocks, r.insert) + 1 = 1
      BY <2>1, <1>1, <1>3
    <3> QED BY <3>1, <2>1, <1>9, <1>7, <1>n, RightCarries
  <2>2. CASE e.right.op # "variable"
    <3>1. r.insert > n + 3
      BY <2>2, <1>1, <1>3
    <3> QED BY <3>1, <2>2, <1>9, <1>7, <1>n, RightCarries
  <2> QED BY <2>1, <2>2
<1>14. role3[n + 3].goal = p
  BY <1>9 DEF MergeRole
<1>15. Turned(x, r, role3, D, named, n + 3, n + 3, Long(r.blocks, r.insert), h, W)
  <2>1. Turned(x, r, role3, D, named, n + 3, n + 3, Long(r.blocks, r.insert), h, W4)
    BY <1>6, <1>10, <1>11, <1>13, <1>14, <1>w, TurnCore
  <2> QED BY <2>1, <1>12
<1>16. /\ h \in Builders /\ h.insert = n + 3 /\ h.broken = r.broken
       /\ Core(x, h.blocks, role3, n + 3, W, D, named)
       /\ Kept(r.blocks, role3, named, h.blocks, role3, named)
       /\ Beside(r, n + 3, h) /\ Par(h.blocks, n + 3) = Par(r.blocks, r.insert)
       /\ Len(h.blocks) = Len(r.blocks) /\ Long(h.blocks, n + 3) = 0
  BY <1>15 DEF Turned
<1>17. Building(x, h, role3, W, D, named, p)
  <2>1. Ready(x, h.blocks, role3, h.insert, p)
    BY <1>14, <1>16 DEF Ready
  <2>2. Core(x, h.blocks, role3, h.insert, W, D, named) /\ Par(h.blocks, h.insert) = Par(r.blocks, r.insert)
    BY <1>16
  <2> QED BY <2>1, <2>2, <1>6, <1>16, BuildingOn
<1>18. y \in Instructions /\ y.op = "phi" /\ Targets(y) = {}
  <2>1. /\ n + 1 \in Nat /\ n + 2 \in Nat /\ on \in Operands /\ r.last \in Operands
        /\ y = [op |-> "phi", incoming |-> {<<n + 1, on>>, <<n + 2, r.last>>}]
    BY <1>n, <1>3 DEF RightMade
  <2>2. {<<n + 1, on>>, <<n + 2, r.last>>} \in SUBSET (Nat \X Operands)
    BY <2>1
  <2>3. y \in Instructions
    BY <2>1, <2>2 DEF Instructions
  <2> QED BY <2>1, <2>3 DEF Targets
<1>19. Staying(h, y, 0, d)
  BY <1>16, <1>18 DEF Staying, RightMade
<1>20. Emitted(h, p, y, 0, d)
  BY <1>17, <1>19, StayEmits
<1>21. Does(d.blocks, n + 3, 1) = y /\ Of(d.blocks, n + 3, 1) = p /\ Par(d.blocks, n + 3) = Par(h.blocks, n + 3)
  BY <1>16, <1>20 DEF Emitted
<1>22. PhiOK(role3, n + 3, 1, y)
  <2>1. y = [op |-> "phi", incoming |-> {<<n + 1, on>>, <<n + 2, r.last>>}]
    BY DEF RightMade
  <2> QED BY <2>1, <1>9, <1>n, <1>3, MergePhi
<1>23. InstrOK(x, d.blocks, role3, named, n + 3, 1)
  BY <1>16, <1>17, <1>18, <1>21, <1>22 DEF Building, InstrOK
<1>24. TargetOK(x, d.blocks, n + 3, W, named, n + 3, 1)
  BY <1>18, <1>21 DEF TargetOK
<1>25. Stayed(x, h, role3, W, D, named, p, y, 0, d)
  <2>1. h.insert = n + 3 /\ 0 + 1 = 1
    BY <1>16
  <2>2. InstrOK(x, d.blocks, role3, named, h.insert, 0 + 1) /\ TargetOK(x, d.blocks, h.insert, W, named, h.insert, 0 + 1)
    BY <2>1, <1>23, <1>24
  <2> QED BY <2>2, <1>17, <1>19, StayCore
<1>26. /\ d \in Builders /\ d.insert = n + 3 /\ d.broken = h.broken
       /\ Core(x, d.blocks, role3, n + 3, W, D, named)
       /\ Kept(h.blocks, role3, named, d.blocks, role3, named)
       /\ Beside(h, n + 3, d) /\ Par(d.blocks, n + 3) = Par(h.blocks, n + 3)
       /\ Len(d.blocks) = Len(h.blocks) /\ Long(d.blocks, n + 3) = 1
  BY <1>16, <1>25 DEF Stayed
<1>27. z = [blocks |-> d.blocks, insert |-> d.insert, last |-> PhiOf(n + 3), broken |-> d.broken]
  BY <1>26, BuilderExcept DEF RightMade
<1>28. /\ z.blocks = d.blocks /\ z.insert = n + 3 /\ z.last = PhiOf(n + 3) /\ z.broken = b.broken
       /\ z.last \in Operands /\ z \in Builders
  <2>1. z.blocks = d.blocks /\ z.insert = n + 3 /\ z.last = PhiOf(n + 3) /\ z.broken = b.broken
    BY <1>1, <1>3, <1>16, <1>26, <1>27
  <2>2. PhiOf(n + 3) \in Operands
    BY <1>n DEF PhiOf, Operands
  <2>3. /\ d.blocks \in Seq(Blocks) /\ d.insert \in 1 .. Len(d.blocks) /\ d.broken \in BOOLEAN
    BY <1>26, BuilderFacts
  <2>4. z \in Builders
    BY <2>2, <2>3, <1>27, BuilderType
  <2> QED BY <2>1, <2>2, <2>4
<1>29. Kept(bs, role, named, d.blocks, role3, named)
  <2>1. /\ g.blocks \in Seq(Blocks) /\ r.blocks \in Seq(Blocks) /\ h.blocks \in Seq(Blocks)
        /\ d.blocks \in Seq(Blocks)
    BY <1>1, <1>3, <1>16, <1>26, BuilderFacts
  <2>2. Kept(bs, role, named, r.blocks, role3, named)
    BY <2>1, <1>0, <1>2, <1>5, KeptTrans
  <2>3. Kept(bs, role, named, h.blocks, role3, named)
    BY <2>1, <2>2, <1>0, <1>16, KeptTrans
  <2> QED BY <2>1, <2>3, <1>0, <1>26, KeptTrans
<1>30. VisitedAs(x, b, role, W, D, named, p, e, z, role3)
  <2>1. Ready(x, d.blocks, role3, n + 3, p)
    BY <1>18, <1>21, <1>26 DEF Ready
  <2>2. Knows(d.blocks, role3, n + 3, 2, PhiOf(n + 3), e)
    BY <1>9, <1>18, <1>21 DEF Knows, MergeRole
  <2>3. Long(d.blocks, n + 3) + 1 = 2
    BY <1>26
  <2>4. /\ Core(x, z.blocks, role3, z.insert, W, D, named) /\ Kept(bs, role, named, z.blocks, role3, named)
        /\ Ready(x, z.blocks, role3, z.insert, p)
    BY <2>1, <1>26, <1>28, <1>29
  <2>5. Knows(z.blocks, role3, z.insert, Long(z.blocks, z.insert) + 1, z.last, e)
    BY <2>2, <2>3, <1>28
  <2> QED BY <2>4, <2>5 DEF VisitedAs
<1>31. Beside(b, 0, z)
  <2>1. ASSUME NEW c \in 1 .. n
        PROVE  /\ Par(d.blocks, c) = Par(bs, c)
               /\ c # b.insert => Long(d.blocks, c) = Long(bs, c)
    <3>1. c \in 1 .. Len(g.blocks) /\ c \in 1 .. Len(r.blocks) /\ c \in 1 .. Len(h.blocks)
      <4>1. Len(g.blocks) <= Len(r.blocks) /\ Len(g.blocks) = n + 3
        BY <1>1, <1>3 DEF Beside
      <4>2. Len(r.blocks) \in Nat
        BY <1>7
      <4> QED BY <4>1, <4>2, <1>16, <1>n
    <3>2. c # 0 /\ c # n + 2 /\ c # n + 3
      BY <1>n
    <3>3. Par(g.blocks, c) = Par(bs, c) /\ (c # b.insert => Long(g.blocks, c) = Long(bs, c))
      BY <3>2, <1>1 DEF Beside
    <3>4. Par(r.blocks, c) = Par(g.blocks, c) /\ Long(r.blocks, c) = Long(g.blocks, c)
      BY <3>1, <3>2, <1>1, <1>3 DEF Beside
    <3>5. c # r.insert
      BY <1>1, <1>3, <1>n, <1>7
    <3>6. Par(h.blocks, c) = Par(r.blocks, c) /\ Long(h.blocks, c) = Long(r.blocks, c)
      BY <3>1, <3>2, <3>5, <1>16 DEF Beside
    <3>7. Par(d.blocks, c) = Par(h.blocks, c) /\ Long(d.blocks, c) = Long(h.blocks, c)
      BY <3>1, <3>2, <1>16, <1>26 DEF Beside
    <3> QED BY <3>3, <3>4, <3>6, <3>7
  <2>2. Len(bs) <= Len(z.blocks)
    <3>1. n + 3 <= Len(r.blocks) /\ Len(r.blocks) \in Nat
      BY <1>1, <1>3, <1>7 DEF Beside
    <3>2. Len(z.blocks) = Len(r.blocks)
      BY <1>16, <1>26, <1>28
    <3> QED BY <3>1, <3>2, <1>1, <1>n
  <2> QED BY <2>1, <2>2, <1>1, <1>28 DEF Beside
<1>32. Par(z.blocks, z.insert) = Par(bs, b.insert)
  BY <1>1, <1>3, <1>16, <1>26, <1>28
<1>33. z.insert > Len(bs)
  BY <1>1, <1>8, <1>28
<1> QED BY <1>28, <1>30, <1>31, <1>32, <1>33 DEF Visited

-----------------------------------------------------------------------------
(* What is so of every builder, even of a broken one *)

Parents(b) == {Par(b.blocks, c) : c \in 1 .. Len(b.blocks)} \cup {0}

(* Blocks are added, for functions that have blocks, and nothing is mended. *)
Grown(b, r) ==
  /\ r \in Builders /\ Len(b.blocks) <= Len(r.blocks) /\ Parents(r) \subseteq Parents(b)
  /\ b.broken => r.broken

LEMMA GrownSame ==
  ASSUME NEW b \in Builders
  PROVE  Grown(b, b)
BY BuilderFacts DEF Grown

LEMMA GrownTrans ==
  ASSUME NEW b, NEW c, NEW d,
         b \in Builders, Grown(b, c), Grown(c, d)
  PROVE  Grown(b, d)
<1>1. Len(b.blocks) \in Nat /\ Len(c.blocks) \in Nat /\ Len(d.blocks) \in Nat
  BY BuilderFacts DEF Grown
<1> QED BY <1>1 DEF Grown

LEMMA ParentAmong ==
  ASSUME NEW b, b \in Builders
  PROVE  Parent(b) \in Parents(b) /\ Parent(b) \in Nat
BY BuilderFacts DEF Parents

LEMMA GrownCreate ==
  ASSUME NEW b, NEW parent, NEW e,
         b \in Builders, parent \in Nat, parent \in Parents(b), e = Create(b, parent)
  PROVE  Grown(b, e) /\ Len(e.blocks) = Len(b.blocks) + 1
<1>n. PICK n : n = Len(b.blocks)
  OBVIOUS
<1>1. /\ e \in Builders /\ Len(e.blocks) = n + 1 /\ n \in Nat
      /\ Par(e.blocks, n + 1) = parent
  BY <1>n, CreateFacts
<1>2. \A c \in 1 .. n : Par(e.blocks, c) = Par(b.blocks, c)
  BY <1>n, CreateFacts
<1>3. n \in Nat
  BY <1>1
<1>4. \A c \in 1 .. n + 1 : c \in 1 .. n \/ c = n + 1
  BY <1>3
<1>5. Parents(e) \subseteq Parents(b)
  <2>1. \A c \in 1 .. n : Par(e.blocks, c) \in Parents(b)
    <3>1. \A c \in 1 .. Len(b.blocks) : Par(b.blocks, c) \in Parents(b)
      BY DEF Parents
    <3> QED BY <3>1, <1>n, <1>2
  <2>2. \A c \in 1 .. Len(e.blocks) : Par(e.blocks, c) \in Parents(b)
    BY <2>1, <1>1, <1>4
  <2>3. 0 \in Parents(b)
    BY DEF Parents
  <2>4. \A P : (0 \in P /\ \A c \in 1 .. Len(e.blocks) : Par(e.blocks, c) \in P) => Parents(e) \subseteq P
    BY DEF Parents
  <2> QED BY <2>2, <2>3, <2>4
<1>6. n <= n + 1
  BY <1>3
<1>7. e.broken = b.broken
  BY <1>n, CreateFacts
<1> QED BY <1>n, <1>1, <1>5, <1>6, <1>7 DEF Grown

LEMMA GrownEmit ==
  ASSUME NEW b, NEW y, NEW p, NEW e,
         b \in Builders, y \in Instructions, p \in Nat, p = Settle[pc], e = Emit(b, y)
  PROVE  Grown(b, e) /\ Len(e.blocks) = Len(b.blocks)
<1>1. e \in Builders /\ Len(e.blocks) = Len(b.blocks)
  BY EmitFacts
<1>2. \A c \in 1 .. Len(b.blocks) : Par(e.blocks, c) = Par(b.blocks, c)
  BY EmitFacts
<1>3. Parents(e) \subseteq Parents(b)
  BY <1>1, <1>2 DEF Parents
<1>4. Len(b.blocks) \in Nat
  BY BuilderFacts
<1>5. e.broken = b.broken
  BY EmitFacts
<1> QED BY <1>1, <1>3, <1>4, <1>5 DEF Grown

LEMMA GrownTurn ==
  ASSUME NEW b, NEW t, NEW e,
         b \in Builders, t \in 1 .. Len(b.blocks), e = SetInsert(PushBack(b, t), t)
  PROVE  Grown(b, e) /\ Len(e.blocks) = Len(b.blocks)
<1> DEFINE d == PushBack(b, t)
<1>1. d \in Builders /\ Len(d.blocks) = Len(b.blocks)
  BY PushFacts
<1>2. \A c \in 1 .. Len(b.blocks) : Par(d.blocks, c) = IF c = t THEN Par(b.blocks, b.insert) ELSE Par(b.blocks, c)
  BY PushFacts
<1> HIDE DEF d
<1>3. e = SetInsert(d, t)
  BY DEF d
<1>4. e \in Builders /\ e.blocks = d.blocks
  BY <1>1, <1>3, SetInsertFacts
<1>5. b.insert \in 1 .. Len(b.blocks) /\ Len(b.blocks) \in Nat
  BY BuilderFacts
<1>6. Parents(e) \subseteq Parents(b)
  BY <1>1, <1>2, <1>4, <1>5 DEF Parents
<1>7. b.broken => e.broken
  <2>1. d.broken = (b.broken \/ Par(b.blocks, t) # Detached)
    BY PushFacts DEF d
  <2>2. e.broken = d.broken
    BY <1>1, <1>3, SetInsertFacts
  <2> QED BY <2>1, <2>2
<1> QED BY <1>1, <1>4, <1>5, <1>6, <1>7 DEF Grown

LEMMA GrownInsert ==
  ASSUME NEW b, NEW t, NEW e,
         b \in Builders, t \in 1 .. Len(b.blocks), e = SetInsert(b, t)
  PROVE  Grown(b, e) /\ Len(e.blocks) = Len(b.blocks)
<1>1. e \in Builders /\ e.blocks = b.blocks /\ e.broken = b.broken
  BY SetInsertFacts
<1>2. Len(b.blocks) \in Nat
  BY BuilderFacts
<1> QED BY <1>1, <1>2 DEF Grown, Parents

LEMMA BranchType ==
  ASSUME NEW to, to \in Nat
  PROVE  Br(to) \in Instructions
BY DEF Br, Instructions

(* The three blocks of a fork.                                              *)
ForkMade(b, y, n, e) ==
  /\ n = Len(b.blocks)
  /\ e = SetInsert(Emit(Create(Create(Create(b, Parent(b)), Detached), Detached), y), n + 1)

LEMMA GrownFork ==
  ASSUME NEW b, NEW y, NEW p, NEW n, NEW e,
         b \in Builders, y \in Instructions, p \in Nat, p = Settle[pc], ForkMade(b, y, n, e)
  PROVE  Grown(b, e) /\ Len(e.blocks) = n + 3
<1> USE DEF ForkMade
<1> DEFINE c1 == Create(b, Parent(b))
           c2 == Create(c1, Detached)
           c3 == Create(c2, Detached)
           c4 == Emit(c3, y)
<1>0. n \in Nat
  BY BuilderFacts
<1>1. Grown(b, c1) /\ Len(c1.blocks) = n + 1
  BY ParentAmong, GrownCreate
<1>2. Grown(c1, c2) /\ Len(c2.blocks) = n + 2
  <2>1. c1 \in Builders
    BY <1>1 DEF Grown
  <2>2. Detached \in Nat /\ Detached \in Parents(c1)
    BY DEF Detached, Parents
  <2> HIDE DEF c1
  <2>3. Grown(c1, c2) /\ Len(c2.blocks) = Len(c1.blocks) + 1
    BY <2>1, <2>2, GrownCreate
  <2>4. n + 1 + 1 = n + 2
    BY <1>0
  <2> QED BY <2>3, <2>4, <1>1
<1>3. Grown(c2, c3) /\ Len(c3.blocks) = n + 3
  <2>1. c2 \in Builders
    BY <1>2 DEF Grown
  <2>2. Detached \in Nat /\ Detached \in Parents(c2)
    BY DEF Detached, Parents
  <2> HIDE DEF c2
  <2>3. Grown(c2, c3) /\ Len(c3.blocks) = Len(c2.blocks) + 1
    BY <2>1, <2>2, GrownCreate
  <2>4. n + 2 + 1 = n + 3
    BY <1>0
  <2> QED BY <2>3, <2>4, <1>2
<1>4. Grown(c3, c4) /\ Len(c4.blocks) = n + 3
  <2>1. c3 \in Builders
    BY <1>3 DEF Grown
  <2> HIDE DEF c3
  <2> QED BY <2>1, <1>3, GrownEmit
<1>5. Grown(c4, e) /\ Len(e.blocks) = n + 3
  <2>1. c4 \in Builders /\ e = SetInsert(c4, n + 1)
    BY <1>4 DEF Grown
  <2>2. n + 1 \in 1 .. Len(c4.blocks)
    <3>1. n + 1 \in 1 .. n + 3
      BY <1>0
    <3> QED BY <3>1, <1>4
  <2> HIDE DEF c4
  <2> QED BY <2>1, <2>2, <1>4, GrownInsert
<1> HIDE DEF c1, c2, c3, c4
<1> QED BY <1>1, <1>2, <1>3, <1>4, <1>5, GrownTrans

(* What is built for a lazy operator, from the visits of its operands.      *)
LazyMade(b, e, visit, l, n, y, f, g, r, h, w, d, z) ==
  /\ l = visit[e.left][b] /\ n = Len(l.blocks)
  /\ y = IF e.op = "and" THEN CondBr(l.last, n + 2, n + 1) ELSE CondBr(l.last, n + 1, n + 2)
  /\ f = SetInsert(Emit(Create(Create(Create(l, Parent(l)), Detached), Detached), y), n + 1)
  /\ g = SetInsert(PushBack(Emit(f, Br(n + 3)), n + 2), n + 2)
  /\ r = visit[e.right][g]
  /\ RightMade(l, n, r, h, w, d, z)

LEMMA LazyIsMade ==
  ASSUME NEW b, NEW e, NEW visit
  PROVE  \E l, n, y, f, g, r, h, w, d, z : LazyMade(b, e, visit, l, n, y, f, g, r, h, w, d, z)
<1>1. PICK l, n : l = visit[e.left][b] /\ n = Len(l.blocks)
  OBVIOUS
<1>2. PICK y : y = IF e.op = "and" THEN CondBr(l.last, n + 2, n + 1) ELSE CondBr(l.last, n + 1, n + 2)
  OBVIOUS
<1>3. PICK f : f = SetInsert(Emit(Create(Create(Create(l, Parent(l)), Detached), Detached), y), n + 1)
  OBVIOUS
<1>4. PICK g : g = SetInsert(PushBack(Emit(f, Br(n + 3)), n + 2), n + 2)
  OBVIOUS
<1>5. PICK r : r = visit[e.right][g]
  OBVIOUS
<1>6. PICK h, w : /\ h = SetInsert(PushBack(Emit(r, Br(n + 3)), n + 3), n + 3)
                  /\ w = [op |-> "phi", incoming |-> {<<n + 1, l.last>>, <<n + 2, r.last>>}]
  OBVIOUS
<1>7. PICK d : d = Emit(h, w)
  OBVIOUS
<1>8. PICK z : z = [d EXCEPT !.last = PhiOf(n + 3)]
  OBVIOUS
<1>9. RightMade(l, n, r, h, w, d, z)
  BY <1>6, <1>7, <1>8 DEF RightMade
<1>10. LazyMade(b, e, visit, l, n, y, f, g, r, h, w, d, z)
  BY <1>1, <1>2, <1>3, <1>4, <1>5, <1>9, Zenon DEF LazyMade
<1> QED BY <1>10, Zenon

LEMMA LazyMadeIs ==
  ASSUME NEW b, NEW e, NEW visit, NEW l, NEW n, NEW y, NEW f, NEW g, NEW r, NEW h, NEW w, NEW d, NEW z,
         LazyMade(b, e, visit, l, n, y, f, g, r, h, w, d, z), n \in Nat
  PROVE  VisitLazy(b, e, visit) = z
<1>1. n + 1 + 1 = n + 2 /\ n + 1 + 2 = n + 3
  OBVIOUS
<1>2. VisitLazy(b, e, visit) =
        LET left    == visit[e.left][b]
            leftB   == n + 1
            rightB  == n + 2
            mergeB  == n + 3
            created == Create(Create(Create(left, Parent(left)), Detached), Detached)
            split   == Emit(created, IF e.op = "and" THEN CondBr(left.last, rightB, leftB)
                                                     ELSE CondBr(left.last, leftB, rightB))
            leftEnd == Emit(SetInsert(split, leftB), Br(mergeB))
            right   == visit[e.right][SetInsert(PushBack(leftEnd, rightB), rightB)]
            merged  == SetInsert(PushBack(Emit(right, Br(mergeB)), mergeB), mergeB)
            phi     == [op |-> "phi", incoming |-> {<<leftB, left.last>>, <<rightB, right.last>>}]
        IN  [Emit(merged, phi) EXCEPT !.last = PhiOf(mergeB)]
  <2>1. Len(visit[e.left][b].blocks) = n
    BY DEF LazyMade
  <2> QED BY <2>1, <1>1, Zenon DEF VisitLazy
<1> HIDE <1>1
<1> QED BY <1>2, Zenon DEF LazyMade, RightMade

(* What every visit of an expression leaves.                                *)
Sound(b, r) == Grown(b, r) /\ r.last \in Operands

LEMMA GrownLast ==
  ASSUME NEW b, NEW o, NEW z,
         b \in Builders, o \in Operands, z = [b EXCEPT !.last = o]
  PROVE  Grown(b, z) /\ z.last = o
<1>1. z = [blocks |-> b.blocks, insert |-> b.insert, last |-> o, broken |-> b.broken]
  BY BuilderExcept
<1>2. b.blocks \in Seq(Blocks) /\ b.insert \in 1 .. Len(b.blocks) /\ b.broken \in BOOLEAN /\ Len(b.blocks) \in Nat
  BY BuilderFacts
<1>3. z.blocks = b.blocks /\ z.insert = b.insert /\ z.last = o /\ z.broken = b.broken
  BY <1>1
<1>4. z \in Builders
  BY <1>1, <1>2, <1>3, BuilderType
<1> QED BY <1>2, <1>3, <1>4 DEF Grown, Parents

LEMMA GrownBranch ==
  ASSUME NEW b, NEW to, NEW t, NEW p, NEW e,
         b \in Builders, to \in Nat, t \in 1 .. Len(b.blocks), p \in Nat, p = Settle[pc],
         e = SetInsert(PushBack(Emit(b, Br(to)), t), t)
  PROVE  Grown(b, e) /\ Len(e.blocks) = Len(b.blocks)
<1>1. PICK d : d = Emit(b, Br(to))
  OBVIOUS
<1>2. Grown(b, d) /\ Len(d.blocks) = Len(b.blocks)
  BY <1>1, BranchType, GrownEmit
<1>3. d \in Builders /\ t \in 1 .. Len(d.blocks) /\ e = SetInsert(PushBack(d, t), t)
  BY <1>1, <1>2 DEF Grown
<1>4. Grown(d, e) /\ Len(e.blocks) = Len(d.blocks)
  BY <1>3, GrownTurn
<1> QED BY <1>2, <1>4, GrownTrans

LEMMA GrownLazy ==
  ASSUME NEW b, NEW e, NEW visit, NEW l, NEW n, NEW y, NEW f, NEW g, NEW r, NEW h, NEW w, NEW d, NEW z,
         NEW p,
         b \in Builders, LazyMade(b, e, visit, l, n, y, f, g, r, h, w, d, z), p = Settle[pc], p \in Nat,
         Sound(b, l), g \in Builders => Sound(g, r)
  PROVE  Sound(b, z) /\ n \in Nat /\ g \in Builders
<1>0. n = Len(l.blocks) /\ l \in Builders /\ Grown(b, l) /\ l.last \in Operands
  BY DEF LazyMade, Sound, Grown
<1>n. n \in Nat
  BY <1>0, BuilderFacts
<1>1. n + 1 \in Nat /\ n + 2 \in Nat /\ n + 3 \in Nat /\ n + 2 \in 1 .. n + 3 /\ n + 3 \in 1 .. n + 3
  BY <1>n
<1>2. y \in Instructions
  <2>1. \A i, j \in Nat : CondBr(l.last, i, j) \in Instructions
    BY <1>0 DEF CondBr, Instructions
  <2>2. y = CondBr(l.last, n + 2, n + 1) \/ y = CondBr(l.last, n + 1, n + 2)
    BY DEF LazyMade
  <2> QED BY <2>1, <2>2, <1>1
<1>3. Grown(l, f) /\ Len(f.blocks) = n + 3
  <2>1. ForkMade(l, y, n, f)
    BY DEF LazyMade, ForkMade
  <2> QED BY <2>1, <1>0, <1>2, GrownFork
<1>4. Grown(f, g) /\ Len(g.blocks) = n + 3
  <2>1. f \in Builders /\ n + 2 \in 1 .. Len(f.blocks) /\ g = SetInsert(PushBack(Emit(f, Br(n + 3)), n + 2), n + 2)
    BY <1>1, <1>3 DEF LazyMade, Grown
  <2> QED BY <2>1, <1>1, <1>3, GrownBranch
<1>5. g \in Builders /\ Grown(g, r) /\ r.last \in Operands /\ r \in Builders
  BY <1>4 DEF Sound, Grown
<1>6. n + 3 \in 1 .. Len(r.blocks)
  <2>1. n + 3 <= Len(r.blocks) /\ Len(r.blocks) \in Nat
    <3>1. Len(g.blocks) <= Len(r.blocks)
      BY <1>5 DEF Grown
    <3>2. Len(r.blocks) \in Nat
      BY <1>5, BuilderFacts
    <3> QED BY <3>1, <3>2, <1>4
  <2> QED BY <2>1, <1>n
<1>7. Grown(r, h)
  <2>1. h = SetInsert(PushBack(Emit(r, Br(n + 3)), n + 3), n + 3)
    BY DEF LazyMade, RightMade
  <2> QED BY <2>1, <1>1, <1>5, <1>6, GrownBranch
<1>8. w \in Instructions
  <2>1. w = [op |-> "phi", incoming |-> {<<n + 1, l.last>>, <<n + 2, r.last>>}]
    BY DEF LazyMade, RightMade
  <2>2. {<<n + 1, l.last>>, <<n + 2, r.last>>} \in SUBSET (Nat \X Operands)
    BY <1>0, <1>1, <1>5
  <2> QED BY <2>1, <2>2 DEF Instructions
<1>9. Grown(h, d)
  <2>1. h \in Builders /\ d = Emit(h, w)
    BY <1>7 DEF Grown, LazyMade, RightMade
  <2> QED BY <2>1, <1>8, GrownEmit
<1>10. Grown(d, z) /\ z.last \in Operands
  <2>1. PhiOf(n + 3) \in Operands
    BY <1>1 DEF PhiOf, Operands
  <2>2. d \in Builders /\ z = [d EXCEPT !.last = PhiOf(n + 3)]
    BY <1>9 DEF Grown, LazyMade, RightMade
  <2> QED BY <2>1, <2>2, GrownLast
<1>11. Grown(b, z)
  <2>1. Grown(b, g)
    BY <1>0, <1>3, <1>4, GrownTrans
  <2>2. Grown(b, h)
    BY <2>1, <1>5, <1>7, GrownTrans
  <2> QED BY <2>2, <1>9, <1>10, GrownTrans
<1> QED BY <1>n, <1>5, <1>10, <1>11 DEF Sound

-----------------------------------------------------------------------------
(* The visits of the expressions *)

Rows(e, visit) ==
  [b \in Builders |-> IF e.op = "variable" THEN [b EXCEPT !.last = Load(e.name)]
                                           ELSE VisitLazy(b, e, visit)]

Tall == [e \in Expressions |-> Height(e)]

LEMMA ExpressionFacts ==
  /\ Tall \in [Expressions -> Nat]
  /\ \A e \in Expressions :
       /\ e.op = "variable" => e.name \in Variables
       /\ e.op # "variable" =>
            /\ e.op \in {"and", "or"} /\ e.left \in Expressions /\ e.right \in Expressions
            /\ Tall[e.left] < Tall[e] /\ Tall[e.right] < Tall[e]
BY BlocksAssumption DEF Tall

(* One step of the definition.                                              *)
LEMMA RowSound ==
  ASSUME NEW e, NEW visit, NEW p,
         e \in Expressions, p = Settle[pc], p \in Nat,
         \A o \in Expressions : Tall[o] < Tall[e] => \A b \in Builders : Sound(b, visit[o][b])
  PROVE  \A b \in Builders : Sound(b, Rows(e, visit)[b])
<1> SUFFICES ASSUME NEW b \in Builders PROVE Sound(b, Rows(e, visit)[b])
  OBVIOUS
<1>1. CASE e.op = "variable"
  <2>1. Rows(e, visit)[b] = [b EXCEPT !.last = Load(e.name)]
    BY <1>1 DEF Rows
  <2>2. Load(e.name) \in Operands
    BY <1>1, ExpressionFacts DEF Load, Operands
  <2> QED BY <2>1, <2>2, GrownLast DEF Sound
<1>2. CASE e.op # "variable"
  <2>1. Rows(e, visit)[b] = VisitLazy(b, e, visit)
    BY <1>2 DEF Rows
  <2>2. PICK l, n, y, f, g, r, h, w, d, z : LazyMade(b, e, visit, l, n, y, f, g, r, h, w, d, z)
    BY LazyIsMade
  <2>3. l = visit[e.left][b] /\ r = visit[e.right][g]
    BY <2>2 DEF LazyMade
  <2>4. Sound(b, l) /\ (g \in Builders => Sound(g, r))
    BY <2>3, <1>2, ExpressionFacts
  <2>5. Sound(b, z) /\ n \in Nat
    BY <2>2, <2>4, GrownLazy
  <2>6. VisitLazy(b, e, visit) = z
    BY <2>2, <2>5, LazyMadeIs
  <2> QED BY <2>1, <2>5, <2>6
<1> QED BY <1>1, <1>2

(* A visit depends on the visits of the operands only.                      *)
LEMMA RowLocal ==
  ASSUME NEW e, NEW visit, NEW other,
         e \in Expressions,
         \A o \in Expressions : Tall[o] < Tall[e] => visit[o] = other[o]
  PROVE  Rows(e, visit) = Rows(e, other)
<1>1. CASE e.op = "variable"
  BY <1>1 DEF Rows
<1>2. CASE e.op # "variable"
  <2>1. visit[e.left] = other[e.left] /\ visit[e.right] = other[e.right]
    BY <1>2, ExpressionFacts
  <2>2. \A b : VisitLazy(b, e, visit) = VisitLazy(b, e, other)
    BY <2>1, Zenon DEF VisitLazy
  <2> QED BY <2>2 DEF Rows
<1> QED BY <1>1, <1>2

VisitsAreRows(visit) == \A e \in Expressions : visit[e] = Rows(e, visit)

LEMMA VisitsSound ==
  ASSUME NEW visit, NEW p,
         VisitsAreRows(visit), p = Settle[pc], p \in Nat
  PROVE  \A e \in Expressions : \A b \in Builders : Sound(b, visit[e][b])
<1> DEFINE T == {e \in Expressions : \A b \in Builders : Sound(b, visit[e][b])}
<1>1. ASSUME NEW e \in Expressions, \A o \in Expressions : Tall[o] < Tall[e] => o \in T
      PROVE  e \in T
  <2>1. \A o \in Expressions : Tall[o] < Tall[e] => \A b \in Builders : Sound(b, visit[o][b])
    BY <1>1
  <2>2. \A b \in Builders : Sound(b, Rows(e, visit)[b])
    <3> HIDE DEF T
    <3> QED BY <2>1, RowSound
  <2>3. visit[e] = Rows(e, visit)
    BY DEF VisitsAreRows
  <2> QED BY <2>2, <2>3
<1>2. Expressions \subseteq T
  <2> HIDE DEF T
  <2> QED BY <1>1, ExpressionFacts, HeightInduction
<1> QED BY <1>2

LEMMA VisitUnfold ==
  ASSUME NEW p, p = Settle[pc], p \in Nat
  PROVE  \E visit : VisitsAreRows(visit) /\ \A e \in Expressions : \A b : Visit(b, e) = visit[e][b]
<1> DEFINE X == [Builders -> Builders]
           same == [b \in Builders |-> b]
           pick(e, f) == IF Rows(e, f) \in X THEN Rows(e, f) ELSE same
           step(f) == [e \in Expressions |-> pick(e, f)]
           F == [f \in [Expressions -> X] |-> step(f)]
<1>1. same \in X
  OBVIOUS
<1>2. \A e, f : pick(e, f) \in X
  <2> HIDE DEF X, same
  <2> QED BY <1>1
<1>3. \A f \in [Expressions -> X] : step(f) \in [Expressions -> X] /\ F[f] = step(f)
  <2> HIDE DEF X, pick
  <2> QED BY <1>2
<1>4. ASSUME NEW f \in [Expressions -> X], NEW h \in [Expressions -> X], NEW e \in Expressions,
             \A o \in Expressions : Tall[o] < Tall[e] => f[o] = h[o]
      PROVE  F[f][e] = F[h][e]
  <2>1. Rows(e, f) = Rows(e, h)
    <3> HIDE DEF X
    <3> QED BY <1>4, RowLocal
  <2>2. pick(e, f) = pick(e, h)
    <3> HIDE DEF X, same
    <3> QED BY <2>1
  <2>3. F[f] = step(f) /\ F[h] = step(h)
    <3> HIDE DEF F, X, step
    <3> QED BY <1>3
  <2>4. step(f)[e] = pick(e, f) /\ step(h)[e] = pick(e, h)
    <3> HIDE DEF pick
    <3> QED OBVIOUS
  <2> HIDE DEF F, X, step, pick
  <2> QED BY <2>2, <2>3, <2>4
<1>5. Recursive(Expressions, X, Tall, F)
  <2>1. F \in [[Expressions -> X] -> [Expressions -> X]]
    <3> HIDE DEF X, step
    <3> QED BY <1>3
  <2> HIDE DEF F, X
  <2> QED BY <2>1, <1>4 DEF Recursive
<1>6. PICK f \in [Expressions -> X] : f = F[f]
  <2> HIDE DEF F, X
  <2>1. Tall \in [Expressions -> Nat]
    BY ExpressionFacts
  <2> QED BY <1>1, <1>5, <2>1, RecursiveFunctionExists
<1>7. f = step(f)
  <2> HIDE DEF F, X, step
  <2> QED BY <1>6, <1>3
<1>8. \A e \in Expressions : f[e] = pick(e, f)
  <2> HIDE DEF pick
  <2> QED BY <1>7
<1>9. \A e \in Expressions : Rows(e, f) \in X /\ \A b \in Builders : Sound(b, f[e][b])
  <2> DEFINE T == {e \in Expressions : Rows(e, f) \in X /\ \A b \in Builders : Sound(b, f[e][b])}
  <2>1. ASSUME NEW e \in Expressions, \A o \in Expressions : Tall[o] < Tall[e] => o \in T
        PROVE  e \in T
    <3>1. \A o \in Expressions : Tall[o] < Tall[e] => \A b \in Builders : Sound(b, f[o][b])
      <4> HIDE DEF X
      <4> QED BY <2>1
    <3>2. \A b \in Builders : Sound(b, Rows(e, f)[b])
      <4> HIDE DEF T, X
      <4> QED BY <3>1, RowSound
    <3>3. \A b \in Builders : Rows(e, f)[b] \in Builders
      BY <3>2 DEF Sound, Grown
    <3>4. Rows(e, f) = [b \in Builders |-> Rows(e, f)[b]]
      BY Zenon DEF Rows
    <3>5. Rows(e, f) \in X
      BY <3>3, <3>4
    <3>6. f[e] = Rows(e, f)
      <4> HIDE DEF X
      <4> QED BY <1>8, <3>5
    <3> HIDE DEF X
    <3> QED BY <3>2, <3>5, <3>6
  <2>2. Expressions \subseteq T
    <3> HIDE DEF T
    <3> QED BY <2>1, ExpressionFacts, HeightInduction
  <2> HIDE DEF X
  <2> QED BY <2>2
<1> DEFINE rows(g) == [e \in Expressions |-> Rows(e, g)]
<1>10. f = rows(f)
  <2>1. \A e \in Expressions : f[e] = Rows(e, f)
    <3> HIDE DEF X
    <3> QED BY <1>8, <1>9
  <2>2. f = [e \in Expressions |-> f[e]]
    <3> HIDE DEF X
    <3> QED BY <1>6
  <2> HIDE DEF X, step, pick, F
  <2> QED BY <2>1, <2>2
<1> DEFINE visit == CHOOSE g : g = rows(g)
<1>11. visit = rows(visit)
  <2> HIDE DEF rows
  <2> QED BY <1>10
<1>12. \A e \in Expressions : \A b : Visit(b, e) = visit[e][b]
  BY Zenon DEF Visit, Rows
<1> HIDE DEF visit
<1>13. VisitsAreRows(visit)
  <2>1. ASSUME NEW e \in Expressions PROVE rows(visit)[e] = Rows(e, visit)
    OBVIOUS
  <2> HIDE DEF rows
  <2> QED BY <1>11, <2>1 DEF VisitsAreRows
<1> QED BY <1>12, <1>13

(* The builder is fit for a visit of e, which leaves what it has to.        *)
VisitsWell(x, D, named, p, e, visit) ==
  \A b, role, W : Building(x, b, role, W, D, named, p) => Visited(x, b, role, W, D, named, p, e, visit[e][b])

LEMMA VisitedFacts ==
  ASSUME NEW x, NEW b, NEW role, NEW W, NEW D, NEW named, NEW p, NEW e, NEW r,
         Building(x, b, role, W, D, named, p), Visited(x, b, role, W, D, named, p, e, r)
  PROVE  /\ r \in Builders /\ r.last \in Operands /\ r.broken = b.broken
         /\ Par(r.blocks, r.insert) = Par(b.blocks, b.insert) /\ Beside(b, 0, r)
         /\ \E role2 :
              /\ Building(x, r, role2, W, D, named, p)
              /\ Kept(b.blocks, role, named, r.blocks, role2, named)
              /\ Knows(r.blocks, role2, r.insert, Long(r.blocks, r.insert) + 1, r.last, e)
<1>1. /\ r \in Builders /\ r.last \in Operands /\ r.broken = b.broken
      /\ Par(r.blocks, r.insert) = Par(b.blocks, b.insert) /\ Beside(b, 0, r)
  BY DEF Visited
<1>2. PICK role2 : VisitedAs(x, b, role, W, D, named, p, e, r, role2)
  BY DEF Visited
<1>3. /\ Core(x, r.blocks, role2, r.insert, W, D, named) /\ Ready(x, r.blocks, role2, r.insert, p)
      /\ Kept(b.blocks, role, named, r.blocks, role2, named)
      /\ Knows(r.blocks, role2, r.insert, Long(r.blocks, r.insert) + 1, r.last, e)
  BY <1>2 DEF VisitedAs
<1>4. Building(x, r, role2, W, D, named, p)
  BY <1>1, <1>3, BuildingOn
<1> QED BY <1>1, <1>3, <1>4

LEMMA LazyVisited ==
  ASSUME NEW x, NEW b, NEW role, NEW W, NEW D, NEW named, NEW p, NEW e, NEW visit,
         Building(x, b, role, W, D, named, p), e \in Expressions, e.op # "variable",
         VisitsWell(x, D, named, p, e.left, visit), VisitsWell(x, D, named, p, e.right, visit)
  PROVE  Visited(x, b, role, W, D, named, p, e, VisitLazy(b, e, visit))
<1>1. PICK l, n, y, f, g, r, h, w, d, z : LazyMade(b, e, visit, l, n, y, f, g, r, h, w, d, z)
  BY LazyIsMade
<1>2. l = visit[e.left][b] /\ n = Len(l.blocks) /\ r = visit[e.right][g] /\ RightMade(l, n, r, h, w, d, z)
  BY <1>1 DEF LazyMade
<1>3. Visited(x, b, role, W, D, named, p, e.left, l)
  BY <1>2 DEF VisitsWell
<1>4. /\ l \in Builders /\ l.last \in Operands /\ l.broken = b.broken
      /\ Par(l.blocks, l.insert) = Par(b.blocks, b.insert) /\ Beside(b, 0, l)
  BY <1>3, VisitedFacts
<1>5. PICK role1 :
              /\ Building(x, l, role1, W, D, named, p)
              /\ Kept(b.blocks, role, named, l.blocks, role1, named)
              /\ Knows(l.blocks, role1, l.insert, Long(l.blocks, l.insert) + 1, l.last, e.left)
  BY <1>3, VisitedFacts
<1>n. n \in Nat
  BY <1>2, <1>4, BuilderFacts
<1>6. PICK m : m = Long(l.blocks, l.insert)
  OBVIOUS
<1>7. LeftMade(l, role1, n, m, e, y, f, g)
  <2>1. /\ y = IF e.op = "and" THEN CondBr(l.last, n + 2, n + 1) ELSE CondBr(l.last, n + 1, n + 2)
        /\ f = SetInsert(Emit(Create(Create(Create(l, Parent(l)), Detached), Detached), y), n + 1)
        /\ g = SetInsert(PushBack(Emit(f, Br(n + 3)), n + 2), n + 2)
    BY <1>1 DEF LazyMade
  <2>2. Knows(l.blocks, role1, l.insert, m + 1, l.last, e.left)
    BY <1>5, <1>6
  <2> QED BY <2>1, <2>2, <1>2, <1>4, <1>6 DEF LeftMade
<1>8. LeftDone(l, n, g) /\ \E role2 : LeftRoles(x, l, role1, W, D, named, p, n, e, g, role2)
  BY <1>5, <1>7, LazyLeft
<1>9. PICK role2 : LeftRoles(x, l, role1, W, D, named, p, n, e, g, role2)
  BY <1>8
<1>10. Building(x, g, role2, W \cup {n + 3}, D, named, p)
  BY <1>9 DEF LeftRoles
<1>11. Visited(x, g, role2, W \cup {n + 3}, D, named, p, e.right, r)
  BY <1>2, <1>10 DEF VisitsWell
<1>12. Visited(x, l, role1, W, D, named, p, e, z)
  BY <1>2, <1>4, <1>5, <1>8, <1>9, <1>11, LazyRight
<1>13. VisitLazy(b, e, visit) = z
  BY <1>1, <1>n, LazyMadeIs
<1>14. /\ z \in Builders /\ z.broken = b.broken /\ z.last \in Operands
       /\ Par(z.blocks, z.insert) = Par(b.blocks, b.insert)
       /\ z.insert > Len(l.blocks)
  BY <1>4, <1>12 DEF Visited
<1>15. Len(b.blocks) \in Nat /\ Len(l.blocks) \in Nat /\ z.insert \in Nat /\ Len(b.blocks) <= Len(l.blocks)
  <2>1. b \in Builders
    BY BuildingFacts
  <2>2. Len(b.blocks) <= Len(l.blocks)
    BY <1>4 DEF Beside
  <2> QED BY <2>1, <2>2, <1>4, <1>14, BuilderFacts
<1>16. z.insert > Len(b.blocks)
  BY <1>14, <1>15
<1>17. Beside(b, 0, z)
  <2>1. Beside(l, 0, z)
    BY <1>12 DEF Visited
  <2>2. Len(b.blocks) <= Len(z.blocks)
    <3>1. Len(l.blocks) <= Len(z.blocks) /\ Len(z.blocks) \in Nat
      BY <2>1, <1>14, BuilderFacts DEF Beside
    <3> QED BY <3>1, <1>15
  <2>3. ASSUME NEW c \in 1 .. Len(b.blocks)
        PROVE  /\ c # 0 => Par(z.blocks, c) = Par(b.blocks, c)
               /\ c # b.insert => Long(z.blocks, c) = Long(b.blocks, c)
    <3>1. c \in 1 .. Len(l.blocks) /\ c # 0
      BY <1>15
    <3>2. Par(z.blocks, c) = Par(b.blocks, c)
      BY <3>1, <2>1, <1>4 DEF Beside
    <3>3. l.insert = b.insert \/ l.insert > Len(b.blocks)
      BY <1>3 DEF Visited
    <3>4. c # b.insert => c # l.insert
      <4>1. l.insert \in Nat
        BY <1>4, BuilderFacts
      <4> QED BY <3>3, <4>1, <1>15
    <3>5. c # b.insert => Long(z.blocks, c) = Long(b.blocks, c)
      BY <3>1, <3>4, <2>1, <1>4 DEF Beside
    <3> QED BY <3>2, <3>5
  <2> QED BY <2>2, <2>3 DEF Beside
<1>18. PICK role3 : VisitedAs(x, l, role1, W, D, named, p, e, z, role3)
  BY <1>12 DEF Visited
<1>19. VisitedAs(x, b, role, W, D, named, p, e, z, role3)
  <2>1. /\ Core(x, z.blocks, role3, z.insert, W, D, named) /\ Ready(x, z.blocks, role3, z.insert, p)
        /\ Kept(l.blocks, role1, named, z.blocks, role3, named)
        /\ Knows(z.blocks, role3, z.insert, Long(z.blocks, z.insert) + 1, z.last, e)
    BY <1>18 DEF VisitedAs
  <2>2. b.blocks \in Seq(Blocks) /\ l.blocks \in Seq(Blocks) /\ z.blocks \in Seq(Blocks)
    BY <1>4, <1>14, BuilderFacts, BuildingFacts
  <2>3. Kept(b.blocks, role, named, z.blocks, role3, named)
    BY <2>1, <2>2, <1>5, KeptTrans
  <2> QED BY <2>1, <2>3 DEF VisitedAs
<1> QED BY <1>13, <1>14, <1>16, <1>17, <1>19 DEF Visited

LEMMA VisitCore ==
  ASSUME NEW x, NEW b, NEW role, NEW W, NEW D, NEW named, NEW p, NEW e,
         Building(x, b, role, W, D, named, p), e \in Expressions
  PROVE  Visited(x, b, role, W, D, named, p, e, Visit(b, e))
<1>0. b \in Builders /\ p = Settle[pc] /\ p \in Nat
  BY BuildingFacts
<1>1. PICK visit : VisitsAreRows(visit) /\ \A o \in Expressions : \A c : Visit(c, o) = visit[o][c]
  BY <1>0, VisitUnfold
<1> DEFINE T == {o \in Expressions : VisitsWell(x, D, named, p, o, visit)}
<1>2. ASSUME NEW o \in Expressions, \A q \in Expressions : Tall[q] < Tall[o] => q \in T
      PROVE  o \in T
  <2> SUFFICES ASSUME NEW c, NEW role1, NEW W1, Building(x, c, role1, W1, D, named, p)
               PROVE  Visited(x, c, role1, W1, D, named, p, o, visit[o][c])
    BY DEF VisitsWell
  <2>1. c \in Builders
    BY BuildingFacts
  <2>2. visit[o][c] = IF o.op = "variable" THEN [c EXCEPT !.last = Load(o.name)] ELSE VisitLazy(c, o, visit)
    <3>1. visit[o] = Rows(o, visit)
      BY <1>1 DEF VisitsAreRows
    <3>2. Rows(o, visit)[c] = IF o.op = "variable" THEN [c EXCEPT !.last = Load(o.name)] ELSE VisitLazy(c, o, visit)
      BY <2>1, Zenon DEF Rows
    <3> QED BY <3>1, <3>2
  <2>3. CASE o.op = "variable"
    BY <2>2, <2>3, VariableVisited
  <2>4. CASE o.op # "variable"
    <3>1. /\ o.left \in Expressions /\ o.right \in Expressions
          /\ Tall[o.left] < Tall[o] /\ Tall[o.right] < Tall[o]
      BY <2>4, ExpressionFacts
    <3>2. VisitsWell(x, D, named, p, o.left, visit) /\ VisitsWell(x, D, named, p, o.right, visit)
      BY <3>1, <1>2
    <3>3. Visited(x, c, role1, W1, D, named, p, o, VisitLazy(c, o, visit))
      <4> HIDE DEF T
      <4> QED BY <3>2, <2>4, LazyVisited
    <3> QED BY <3>3, <2>2, <2>4
  <2> QED BY <2>3, <2>4
<1>3. Expressions \subseteq T
  <2> HIDE DEF T
  <2> QED BY <1>2, ExpressionFacts, HeightInduction
<1>4. VisitsWell(x, D, named, p, e, visit)
  BY <1>3
<1>5. Visited(x, b, role, W, D, named, p, e, visit[e][b])
  BY <1>4 DEF VisitsWell
<1> QED BY <1>1, <1>5

-----------------------------------------------------------------------------
(* What the visitor knows of the source *)

(* The first item with the label.                                           *)
First(l) == CHOOSE i \in 1 .. Len(program) :
  program[i].label = l /\ \A j \in 1 .. i - 1 : program[j].label # l

(* Where control goes behind the fi of the if at i, and where it goes when  *)
(* its condition does not hold.                                             *)
Behind(i) == Settle[Closing(i) + 1]
ElseAt(i) == CHOOSE j \in Elses(i) : TRUE
Other(i) == IF Elses(i) = {} THEN Behind(i) ELSE Settle[ElseAt(i) + 1]

Context ==
  [source |-> program, settle |-> Settle,
   opened |-> [i \in 0 .. Len(program) |-> Opened(i)],
   within |-> [i \in 1 .. Len(program) |-> Function(i)],
   other  |-> [i \in 1 .. Len(program) |-> Other(i)],
   behind |-> [i \in 1 .. Len(program) |-> Behind(i)],
   first  |-> [l \in Labels |-> First(l)]]

LEMMA ContextStays ==
  ASSUME program' = program
  PROVE  Context' = Context
<1>1. \A k : Opened(k)' = Opened(k)
  BY DEF Opened, Count
<1>2. \A i : Closing(i)' = Closing(i)
  BY <1>1 DEF Closing
<1>3. \A i : Elses(i)' = Elses(i)
  BY <1>1, <1>2 DEF Elses
<1>4. Settle' = Settle
  BY DEF Settle, Closing, Opened, Count
<1>5. \A i : Function(i)' = Function(i)
  BY DEF Function
<1>6. \A l : First(l)' = First(l)
  BY DEF First
<1>7. \A i : Behind(i)' = Behind(i) /\ Other(i)' = Other(i)
  <2> TAKE i
  <2>1. Behind(i)' = Behind(i)
    BY <1>2, <1>4 DEF Behind
  <2>2. ElseAt(i)' = ElseAt(i)
    BY DEF ElseAt, Elses, Closing, Opened, Count
  <2>3. Other(i)' = Other(i)
    BY <2>1, <2>2, <1>3, <1>4 DEF Other
  <2> QED BY <2>1, <2>3
<1> QED BY <1>1, <1>4, <1>5, <1>6, <1>7 DEF Context

(* What there is to know about an item.                                     *)
ItemAt(x, n, i) ==
  /\ x.source[i].op \in Ops
  /\ x.settle[i] \in i .. n /\ x.within[x.settle[i]] = x.within[i]
  /\ x.within[i] \in 1 .. i /\ x.source[x.within[i]].op = "function"
  /\ x.source[i].op \notin {"else", "fi"} => x.settle[i] = i
  /\ x.source[i].op = "fi" => x.settle[i] = x.settle[i + 1]
  /\ x.source[i].op = "function" => x.within[i] = i
  /\ x.source[i].op # "end" =>
       i + 1 \in 1 .. n /\ x.source[i + 1].op # "function" /\ x.within[i + 1] = x.within[i]
  /\ x.source[i].op = "end" => i = n \/ (i + 1 \in 1 .. n /\ x.source[i + 1].op = "function")
  /\ ItemOK(x.source[i])

LEMMA ContextFields ==
  ASSUME WholeSource, NEW n, n = Len(program), NEW x, x = Context
  PROVE  /\ x.source = program /\ x.settle = Settle
         /\ \A i \in 1 .. n :
              x.within[i] = Function(i) /\ x.other[i] = Other(i) /\ x.behind[i] = Behind(i)
         /\ \A l \in Labels : x.first[l] = First(l)
         /\ \A i \in 0 .. n : x.opened[i] = Opened(i)
BY DEF Context

LEMMA ContextFacts ==
  ASSUME WholeSource, NEW n, n = Len(program), NEW x, x = Context
  PROVE  /\ n \in Nat \ {0} /\ n <= MaxItems /\ DOMAIN x.source = 1 .. n /\ x.source[1].op = "function"
         /\ \A i \in 1 .. n : ItemAt(x, n, i)
<1>0. /\ n \in Nat \ {0} /\ DOMAIN program = 1 .. n /\ n <= MaxItems /\ program[n].op = "end"
      /\ \A i \in 1 .. n : ItemOK(program[i]) /\ PlaceOK(i)
  BY WholeFacts
<1>1. /\ x.source = program /\ x.settle = Settle
      /\ \A i \in 1 .. n : x.within[i] = Function(i)
  BY ContextFields
<1>2. 1 \in 1 .. n
  BY <1>0
<1>3. program[1].op = "function"
  BY <1>0, <1>2 DEF PlaceOK
<1>4. ASSUME NEW i \in 1 .. n PROVE ItemAt(x, n, i)
  <2>1. ItemOK(program[i]) /\ program[i].op \in Ops /\ i \in Nat
    BY <1>0 DEF ItemOK
  <2>2. /\ Settle[i] \in i .. n /\ Function(Settle[i]) = Function(i)
        /\ program[i].op \notin {"else", "fi"} => Settle[i] = i
        /\ program[i].op = "fi" => Settle[i] = Settle[i + 1]
    BY SettleFacts
  <2>3. Settle[i] \in 1 .. n
    BY <2>2, <1>0
  <2>4. Function(i) \in 1 .. i /\ program[Function(i)].op = "function"
    BY FunctionFacts
  <2>5. ASSUME program[i].op = "function" PROVE Function(i) = i
    <3>1. i \in 1 .. i /\ \A j \in i + 1 .. i : program[j].op # "function"
      BY <2>1
    <3> QED BY <3>1, <2>1, <2>5, FunctionIs
  <2>6. ASSUME program[i].op # "end"
        PROVE  i + 1 \in 1 .. n /\ program[i + 1].op # "function" /\ Function(i + 1) = Function(i)
    <3>1. i + 1 \in 1 .. n /\ i + 1 # 1 /\ i + 1 - 1 = i
      BY <2>6, <1>0
    <3>2. program[i + 1].op # "function"
      BY <3>1, <2>6, <1>0 DEF PlaceOK
    <3>3. i + 1 \in i .. n /\ \A j \in i + 1 .. i + 1 : j = i + 1
      BY <3>1
    <3>4. Function(i + 1) = Function(i)
      BY <3>2, <3>3, SameFunction
    <3> QED BY <3>1, <3>2, <3>4
  <2>7. ASSUME program[i].op = "end", i # n
        PROVE  i + 1 \in 1 .. n /\ program[i + 1].op = "function"
    <3>1. i + 1 \in 1 .. n /\ i + 1 - 1 = i
      BY <2>7, <1>0
    <3> QED BY <3>1, <2>7, <1>0 DEF PlaceOK
  <2>8. /\ x.within[i] = Function(i) /\ x.within[Settle[i]] = Function(Settle[i])
        /\ i + 1 \in 1 .. n => x.within[i + 1] = Function(i + 1)
    BY <1>1, <2>3
  <2> QED BY <1>1, <2>1, <2>2, <2>4, <2>5, <2>6, <2>7, <2>8 DEF ItemAt
<1> QED BY <1>0, <1>1, <1>3, <1>4

(* Where control goes from an if.                                           *)
LEMMA IfFacts ==
  ASSUME WholeSource, NEW n, n = Len(program), NEW x, x = Context,
         NEW i, i \in 1 .. n, program[i].op = "if"
  PROVE  /\ Closing(i) \in i + 1 .. n - 1 /\ program[Closing(i)].op = "fi" /\ Closing(i) + 1 \in 1 .. n
         /\ x.behind[i] = Settle[Closing(i) + 1]
         /\ Elses(i) = {} => x.other[i] = x.behind[i]
         /\ \A j : Elses(i) = {j} => x.other[i] = Settle[j + 1]
         /\ Settle[Closing(i)] = x.behind[i]
<1>1. n \in Nat /\ i \in Nat
  BY WholeFacts
<1>2. /\ Closing(i) \in i + 1 .. n - 1 /\ program[Closing(i)].op = "fi"
  BY ClosingFacts
<1>3. Closing(i) + 1 \in 1 .. n /\ Closing(i) \in 1 .. n
  BY <1>1, <1>2
<1>4. x.other[i] = Other(i) /\ x.behind[i] = Behind(i)
  BY ContextFields
<1>5. \A j : Elses(i) = {j} => ElseAt(i) = j
  BY DEF ElseAt
<1>6. \A j : Elses(i) = {j} => Elses(i) # {}
  OBVIOUS
<1>7. Settle[Closing(i)] = Settle[Closing(i) + 1]
  BY <1>2, <1>3, SettleFacts
<1> QED BY <1>2, <1>3, <1>4, <1>5, <1>6, <1>7 DEF Other, Behind

LEMMA FirstIs ==
  ASSUME NEW l, NEW i, i \in 1 .. Len(program), program[i].label = l,
         Len(program) \in Nat, \A j \in 1 .. i - 1 : program[j].label # l
  PROVE  First(l) = i
<1>1. \A j \in 1 .. Len(program) :
        (program[j].label = l /\ \A h \in 1 .. j - 1 : program[h].label # l) => j = i
  <2> SUFFICES ASSUME NEW j \in 1 .. Len(program), program[j].label = l,
                      \A h \in 1 .. j - 1 : program[h].label # l
               PROVE  j = i
    OBVIOUS
  <2>1. ~(j < i)
    <3>1. j < i => j \in 1 .. i - 1
      OBVIOUS
    <3> QED BY <3>1
  <2>2. ~(i < j)
    <3>1. i < j => i \in 1 .. j - 1
      OBVIOUS
    <3> QED BY <3>1
  <2> QED BY <2>1, <2>2
<1> QED BY <1>1 DEF First

-----------------------------------------------------------------------------
(* Labels and ifs under way *)

(* Block t is that of label l, of which the items up to k were visited: it   *)
(* waits for the first item with the label, or is in the function of one.   *)
LabelOK(x, bs, role, W, k, t, l) ==
  /\ role[t].claims = {} /\ t \notin W
  /\ Par(bs, t) = 0 =>
       /\ role[t].goal = x.first[l] /\ \A j \in 1 .. k : x.source[j].label # l
       /\ \E c \in 1 .. t - 1 : \E i \in 1 .. Long(bs, c) : t \in Targets(Does(bs, c, i))
  /\ Par(bs, t) # 0 =>
       \E j \in 1 .. k : x.source[j].label = l /\ role[t].goal = j /\ x.within[j] = Par(bs, t)

NamedOK(x, bs, role, W, k, named) ==
  /\ named \in [Labels -> 0 .. Len(bs)]
  /\ \A l \in Labels : named[l] # 0 => LabelOK(x, bs, role, W, k, named[l], l)
  /\ \A l, m \in Labels : l # m /\ named[l] # 0 => named[l] # named[m]
  /\ \A l \in Labels : named[l] = 0 => \A j \in 1 .. k : x.source[j].label # l

(* The blocks of an if under way, of which the else block waits to be put   *)
(* behind a block that ends in a branch to it.                              *)
OpenOK(x, bs, role, ins, open) ==
  /\ open.else \in 1 .. Len(bs) /\ open.merge \in 1 .. Len(bs) /\ open.else < open.merge
  /\ role[open.merge].goal = x.behind[open.node] /\ role[open.merge].claims = {}
  /\ ~open.inElse =>
       /\ role[open.else].goal = x.other[open.node] /\ role[open.else].claims = {}
       /\ \E c \in 1 .. Len(bs) : c # ins /\ Par(bs, c) = Par(bs, ins) /\ open.else \in Ends(bs, c)

PendOK(x, bs, role, ins, pend) ==
  /\ \A q \in 1 .. Len(pend) : OpenOK(x, bs, role, ins, pend[q])
  /\ \A q, r \in 1 .. Len(pend) : q < r => pend[r].merge < pend[q].else

Waiting(pend) ==
  {pend[q].merge : q \in 1 .. Len(pend)}
    \cup {pend[q].else : q \in {r \in 1 .. Len(pend) : ~pend[r].inElse}}

(* The builder goes on from b to e, which has put block t somewhere.        *)
Onward(b, role, named, t, e, role2, named2) ==
  /\ b \in Builders /\ e \in Builders
  /\ Kept(b.blocks, role, named, e.blocks, role2, named2) /\ Beside(b, t, e)
  /\ Par(e.blocks, e.insert) = Par(b.blocks, b.insert)
  /\ e.insert = b.insert \/ e.insert > Len(b.blocks) \/ Par(b.blocks, e.insert) = 0

(* Those that wait were waiting or are new.                                 *)
Waited(b, W, W2) == \A w \in W2 : w \in W \/ w > Len(b.blocks)

LEMMA LabelOnward ==
  ASSUME NEW x, NEW b, NEW role, NEW named, NEW t, NEW e, NEW role2, NEW named2, NEW W, NEW W2, NEW k,
         NEW s, NEW l,
         Onward(b, role, named, t, e, role2, named2), Waited(b, W, W2), s \in 1 .. Len(b.blocks), s # t,
         LabelOK(x, b.blocks, role, W, k, s, l)
  PROVE  LabelOK(x, e.blocks, role2, W2, k, s, l)
<1>0. /\ b.blocks \in Seq(Blocks) /\ e.blocks \in Seq(Blocks) /\ Len(b.blocks) \in Nat /\ Len(e.blocks) \in Nat
  BY BuilderFacts DEF Onward
<1>1. Kept(b.blocks, role, named, e.blocks, role2, named2) /\ Beside(b, t, e)
  BY DEF Onward
<1>2. role2[s] = role[s]
  BY <1>1 DEF Kept
<1>3. Par(e.blocks, s) = Par(b.blocks, s)
  BY <1>1 DEF Beside
<1>4. s \notin W2
  <2>1. ~(s > Len(b.blocks))
    BY <1>0
  <2> QED BY <2>1 DEF Waited, LabelOK
<1>5. ASSUME NEW c \in 1 .. s - 1, NEW i \in 1 .. Long(b.blocks, c), s \in Targets(Does(b.blocks, c, i))
      PROVE  i \in 1 .. Long(e.blocks, c) /\ s \in Targets(Does(e.blocks, c, i))
  <2>1. c \in 1 .. Len(b.blocks)
    BY <1>0
  <2>2. c \in 1 .. Len(e.blocks)
    BY <2>1, <1>0, <1>1 DEF Kept
  <2>3. Long(b.blocks, c) <= Long(e.blocks, c) /\ Does(e.blocks, c, i) = Does(b.blocks, c, i)
    BY <2>1, <1>1 DEF Kept
  <2>4. Long(b.blocks, c) \in Nat /\ Long(e.blocks, c) \in Nat
    BY <2>1, <2>2, <1>0, BlocksFacts
  <2> QED BY <2>3, <2>4, <1>5
<1> QED BY <1>2, <1>3, <1>4, <1>5 DEF LabelOK

LEMMA NamedOnward ==
  ASSUME NEW x, NEW b, NEW role, NEW named, NEW t, NEW e, NEW role2, NEW W, NEW W2, NEW k,
         Onward(b, role, named, t, e, role2, named), Waited(b, W, W2),
         t \in W \/ t = 0 \/ t > Len(b.blocks), NamedOK(x, b.blocks, role, W, k, named)
  PROVE  NamedOK(x, e.blocks, role2, W2, k, named)
<1>0. Len(b.blocks) \in Nat /\ Len(e.blocks) \in Nat /\ Len(b.blocks) <= Len(e.blocks)
  BY BuilderFacts DEF Onward, Kept
<1>1. ASSUME NEW l \in Labels, named[l] # 0
      PROVE  LabelOK(x, e.blocks, role2, W2, k, named[l], l)
  <2>1. LabelOK(x, b.blocks, role, W, k, named[l], l) /\ named[l] \in 0 .. Len(b.blocks)
    BY <1>1 DEF NamedOK
  <2>2. named[l] \in 1 .. Len(b.blocks) /\ ~(named[l] > Len(b.blocks))
    BY <2>1, <1>0, <1>1
  <2>3. named[l] # t
    BY <2>1, <2>2 DEF LabelOK
  <2> QED BY <2>1, <2>2, <2>3, LabelOnward
<1>2. named \in [Labels -> 0 .. Len(e.blocks)]
  <2>1. 0 .. Len(b.blocks) \subseteq 0 .. Len(e.blocks)
    BY <1>0
  <2>2. named \in [Labels -> 0 .. Len(b.blocks)]
    BY DEF NamedOK
  <2> QED BY <2>1, <2>2
<1> QED BY <1>1, <1>2 DEF NamedOK

(* One more item that has no label.                                         *)
LEMMA NamedNext ==
  ASSUME NEW x, NEW bs, NEW role, NEW W, NEW k, NEW named,
         k \in Nat, x.source[k + 1].label \notin Labels, NamedOK(x, bs, role, W, k, named)
  PROVE  NamedOK(x, bs, role, W, k + 1, named)
<1>1. \A j \in 1 .. k + 1 : j \in 1 .. k \/ j = k + 1
  OBVIOUS
<1>2. \A j \in 1 .. k : j \in 1 .. k + 1
  OBVIOUS
<1>3. ASSUME NEW l \in Labels, \A j \in 1 .. k : x.source[j].label # l
      PROVE  \A j \in 1 .. k + 1 : x.source[j].label # l
  BY <1>1, <1>3
<1>4. ASSUME NEW l \in Labels, named[l] # 0 PROVE LabelOK(x, bs, role, W, k + 1, named[l], l)
  <2>1. LabelOK(x, bs, role, W, k, named[l], l)
    BY <1>4 DEF NamedOK
  <2> QED BY <2>1, <1>2, <1>3 DEF LabelOK
<1> QED BY <1>3, <1>4 DEF NamedOK

LEMMA OpenOnward ==
  ASSUME NEW x, NEW b, NEW role, NEW named, NEW t, NEW e, NEW role2, NEW named2, NEW open,
         Onward(b, role, named, t, e, role2, named2), Par(b.blocks, b.insert) # 0,
         t = 0 \/ t > Len(b.blocks) \/ Par(b.blocks, t) = 0,
         OpenOK(x, b.blocks, role, b.insert, open)
  PROVE  OpenOK(x, e.blocks, role2, e.insert, open)
<1>0. /\ b.blocks \in Seq(Blocks) /\ e.blocks \in Seq(Blocks) /\ Len(b.blocks) \in Nat /\ Len(e.blocks) \in Nat
  BY BuilderFacts DEF Onward
<1>1. Kept(b.blocks, role, named, e.blocks, role2, named2) /\ Beside(b, t, e)
  BY DEF Onward
<1>2. \A c \in 1 .. Len(b.blocks) : c \in 1 .. Len(e.blocks) /\ role2[c] = role[c]
  BY <1>0, <1>1 DEF Kept
<1>3. ASSUME NEW c \in 1 .. Len(b.blocks), c # b.insert, Par(b.blocks, c) = Par(b.blocks, b.insert),
             open.else \in Ends(b.blocks, c)
      PROVE  c # e.insert /\ Par(e.blocks, c) = Par(e.blocks, e.insert) /\ open.else \in Ends(e.blocks, c)
  <2>1. c # e.insert
    <3>1. ~(c > Len(b.blocks))
      BY <1>0
    <3> QED BY <3>1, <1>3 DEF Onward
  <2>2. Par(e.blocks, c) = Par(e.blocks, e.insert)
    <3>1. Par(e.blocks, c) = Par(b.blocks, c)
      BY <1>1, <1>3 DEF Kept
    <3> QED BY <3>1, <1>3 DEF Onward
  <2>3. Long(e.blocks, c) = Long(b.blocks, c)
    BY <1>1, <1>3 DEF Beside
  <2>4. Long(b.blocks, c) # 0 => Does(e.blocks, c, Long(b.blocks, c)) = Does(b.blocks, c, Long(b.blocks, c))
    <3>1. Long(b.blocks, c) \in Nat
      BY <1>0, BlocksFacts
    <3>2. Long(b.blocks, c) # 0 => Long(b.blocks, c) \in 1 .. Long(b.blocks, c)
      BY <3>1
    <3> QED BY <3>2, <1>1 DEF Kept
  <2>5. Ends(e.blocks, c) = Ends(b.blocks, c)
    BY <2>3, <2>4 DEF Ends
  <2> QED BY <2>1, <2>2, <2>5, <1>3
<1> QED BY <1>2, <1>3 DEF OpenOK

LEMMA PendOnward ==
  ASSUME NEW x, NEW b, NEW role, NEW named, NEW t, NEW e, NEW role2, NEW named2, NEW pend,
         Onward(b, role, named, t, e, role2, named2), Par(b.blocks, b.insert) # 0,
         t = 0 \/ t > Len(b.blocks) \/ Par(b.blocks, t) = 0,
         PendOK(x, b.blocks, role, b.insert, pend)
  PROVE  PendOK(x, e.blocks, role2, e.insert, pend)
<1>1. \A q \in 1 .. Len(pend) : OpenOK(x, b.blocks, role, b.insert, pend[q])
  BY DEF PendOK
<1>2. \A q \in 1 .. Len(pend) : OpenOK(x, e.blocks, role2, e.insert, pend[q])
  BY <1>1, OpenOnward
<1> QED BY <1>2 DEF PendOK

(* Within the visit of an item, and behind an instruction.                  *)
Mid(x, b, role, W, D, named, p, k, pend) ==
  /\ Building(x, b, role, W, D, named, p)
  /\ NamedOK(x, b.blocks, role, W, k, named)
  /\ PendOK(x, b.blocks, role, b.insert, pend)

After(x, b, e, role, W, D, named, k, pend) ==
  /\ e \in Builders /\ e.broken = b.broken
  /\ Core(x, e.blocks, role, e.insert, W, D, named)
  /\ Par(e.blocks, e.insert) = Par(b.blocks, b.insert)
  /\ NamedOK(x, e.blocks, role, W, k, named)
  /\ PendOK(x, e.blocks, role, e.insert, pend)

LEMMA MidAfter ==
  ASSUME NEW x, NEW b, NEW role, NEW W, NEW W2, NEW D, NEW named, NEW p, NEW k, NEW pend, NEW t, NEW e, NEW role2,
         Mid(x, b, role, W, D, named, p, k, pend), Onward(b, role, named, t, e, role2, named),
         e.broken = b.broken, Core(x, e.blocks, role2, e.insert, W2, D, named), Waited(b, W, W2),
         t \in W \/ t = 0 \/ t > Len(b.blocks)
  PROVE  After(x, b, e, role2, W2, D, named, k, pend)
<1>1. /\ Building(x, b, role, W, D, named, p) /\ NamedOK(x, b.blocks, role, W, k, named)
      /\ PendOK(x, b.blocks, role, b.insert, pend)
  BY DEF Mid
<1>2. Par(b.blocks, b.insert) # 0 /\ \A w \in W : Par(b.blocks, w) = 0
  BY <1>1, BuildingFacts
<1>3. t = 0 \/ t > Len(b.blocks) \/ Par(b.blocks, t) = 0
  BY <1>2
<1>4. NamedOK(x, e.blocks, role2, W2, k, named)
  BY <1>1, NamedOnward
<1>5. PendOK(x, e.blocks, role2, e.insert, pend)
  BY <1>1, <1>2, <1>3, PendOnward
<1> QED BY <1>4, <1>5 DEF After, Onward

LEMMA StayAfter ==
  ASSUME NEW x, NEW b, NEW role, NEW W, NEW D, NEW named, NEW p, NEW k, NEW pend, NEW y, NEW m, NEW e,
         Mid(x, b, role, W, D, named, p, k, pend), Staying(b, y, m, e),
         InstrOK(x, e.blocks, role, named, b.insert, m + 1),
         TargetOK(x, e.blocks, b.insert, W, named, b.insert, m + 1)
  PROVE  /\ After(x, b, e, role, W, D, named, k, pend)
         /\ Stayed(x, b, role, W, D, named, p, y, m, e)
<1>1. Building(x, b, role, W, D, named, p)
  BY DEF Mid
<1>2. Stayed(x, b, role, W, D, named, p, y, m, e)
  BY <1>1, StayCore
<1>3. /\ e \in Builders /\ e.insert = b.insert /\ e.broken = b.broken
      /\ Core(x, e.blocks, role, e.insert, W, D, named)
      /\ Kept(b.blocks, role, named, e.blocks, role, named)
      /\ Beside(b, e.insert, e) /\ Par(e.blocks, e.insert) = Par(b.blocks, b.insert)
  BY <1>2 DEF Stayed
<1>4. Beside(b, 0, e)
  BY <1>3 DEF Beside
<1>5. b \in Builders
  BY <1>1, BuildingFacts
<1>6. Onward(b, role, named, 0, e, role, named)
  BY <1>3, <1>4, <1>5 DEF Onward
<1>7. Waited(b, W, W)
  BY DEF Waited
<1>8. After(x, b, e, role, W, D, named, k, pend)
  BY <1>3, <1>6, <1>7, MidAfter
<1> QED BY <1>2, <1>8

LEMMA VisitMid ==
  ASSUME NEW x, NEW b, NEW role, NEW W, NEW D, NEW named, NEW p, NEW k, NEW pend, NEW e, NEW r,
         Mid(x, b, role, W, D, named, p, k, pend), e \in Expressions, r = Visit(b, e)
  PROVE  /\ r.last \in Operands /\ r.broken = b.broken /\ Par(r.blocks, r.insert) = Par(b.blocks, b.insert)
         /\ \E role2 :
              /\ Mid(x, r, role2, W, D, named, p, k, pend)
              /\ Knows(r.blocks, role2, r.insert, Long(r.blocks, r.insert) + 1, r.last, e)
<1>1. Building(x, b, role, W, D, named, p)
  BY DEF Mid
<1>2. Visited(x, b, role, W, D, named, p, e, r)
  BY <1>1, VisitCore
<1>3. /\ r \in Builders /\ r.last \in Operands /\ r.broken = b.broken
      /\ Par(r.blocks, r.insert) = Par(b.blocks, b.insert) /\ Beside(b, 0, r)
  BY <1>1, <1>2, VisitedFacts
<1>4. PICK role2 :
        /\ Building(x, r, role2, W, D, named, p)
        /\ Kept(b.blocks, role, named, r.blocks, role2, named)
        /\ Knows(r.blocks, role2, r.insert, Long(r.blocks, r.insert) + 1, r.last, e)
  BY <1>1, <1>2, VisitedFacts
<1>5. b \in Builders
  BY <1>1, BuildingFacts
<1>6. r.insert = b.insert \/ r.insert > Len(b.blocks)
  BY <1>2 DEF Visited
<1>7. Onward(b, role, named, 0, r, role2, named)
  BY <1>3, <1>4, <1>5, <1>6 DEF Onward
<1>8. Waited(b, W, W)
  BY DEF Waited
<1>9. Core(x, r.blocks, role2, r.insert, W, D, named)
  BY <1>4, BuildingFacts
<1>10. After(x, b, r, role2, W, D, named, k, pend)
  BY <1>3, <1>7, <1>8, <1>9, MidAfter
<1>11. Mid(x, r, role2, W, D, named, p, k, pend)
  BY <1>4, <1>10 DEF After, Mid
<1> QED BY <1>3, <1>4, <1>11

LEMMA TurnAfter ==
  ASSUME NEW x, NEW b, NEW role, NEW W, NEW D, NEW named, NEW p, NEW k, NEW pend, NEW t, NEW to, NEW m, NEW e, NEW W2,
         Mid(x, b, role, W, D, named, p, k, pend), Turning(b, t, to, m, e), t \in W,
         MayTurn(b, W, t, to), Without(W2, W, t), role[to].goal = p, Carries(role, b.insert, m + 1, to)
  PROVE  /\ After(x, b, e, role, W2, D, named, k, pend)
         /\ e.insert = t /\ Len(e.blocks) = Len(b.blocks) /\ Long(e.blocks, t) = 0
         /\ Onward(b, role, named, t, e, role, named)
<1>1. Building(x, b, role, W, D, named, p)
  BY DEF Mid
<1>2. Turned(x, b, role, D, named, t, to, m, e, W2)
  BY <1>1, TurnCore
<1>3. /\ e \in Builders /\ e.insert = t /\ e.broken = b.broken
      /\ Core(x, e.blocks, role, t, W2, D, named)
      /\ Kept(b.blocks, role, named, e.blocks, role, named)
      /\ Beside(b, t, e) /\ Par(e.blocks, t) = Par(b.blocks, b.insert)
      /\ Len(e.blocks) = Len(b.blocks) /\ Long(e.blocks, t) = 0
  BY <1>2 DEF Turned
<1>4. b \in Builders /\ Par(b.blocks, t) = 0
  BY <1>1, BuildingFacts
<1>5. Onward(b, role, named, t, e, role, named)
  BY <1>3, <1>4 DEF Onward
<1>6. Waited(b, W, W2)
  BY DEF Waited, Without
<1>7. After(x, b, e, role, W2, D, named, k, pend)
  BY <1>3, <1>5, <1>6, MidAfter
<1> QED BY <1>3, <1>5, <1>7

LEMMA ForkAfter ==
  ASSUME NEW x, NEW b, NEW role, NEW W, NEW D, NEW named, NEW p, NEW k, NEW pend, NEW n, NEW m, NEW role2, NEW on,
         NEW yes, NEW no, NEW y, NEW e, NEW W2,
         Mid(x, b, role, W, D, named, p, k, pend), RolesKept(b.blocks, role, role2),
         Forking(x, b, p, n, m, role2, on, yes, no, y, e), WithTwo(W2, W, n)
  PROVE  /\ After(x, b, e, role2, W2, D, named, k, pend)
         /\ Forked(x, b, role, D, named, n, role2, e, W2)
<1>1. Building(x, b, role, W, D, named, p)
  BY DEF Mid
<1>2. Forked(x, b, role, D, named, n, role2, e, W2)
  BY <1>1, ForkCore
<1>3. /\ e \in Builders /\ e.insert = n + 1 /\ e.broken = b.broken /\ n \in Nat
      /\ Core(x, e.blocks, role2, n + 1, W2, D, named)
      /\ Kept(b.blocks, role, named, e.blocks, role2, named)
      /\ Beside(b, n + 1, e) /\ Par(e.blocks, n + 1) = Par(b.blocks, b.insert)
  BY <1>2 DEF Forked
<1>4. b \in Builders
  BY <1>1, BuildingFacts
<1>5. n = Len(b.blocks)
  BY DEF Forking
<1>6. n + 1 > Len(b.blocks) /\ n + 2 > Len(b.blocks) /\ n + 3 > Len(b.blocks)
  <2>1. n \in Nat
    BY <1>3
  <2>2. n + 1 > n /\ n + 2 > n /\ n + 3 > n
    BY <2>1
  <2> QED BY <2>2, <1>5
<1>7. Onward(b, role, named, n + 1, e, role2, named)
  BY <1>3, <1>4, <1>6 DEF Onward
<1>8. Waited(b, W, W2)
  BY <1>6 DEF Waited, WithTwo
<1>9. After(x, b, e, role2, W2, D, named, k, pend)
  BY <1>3, <1>6, <1>7, <1>8, MidAfter
<1> QED BY <1>2, <1>9

-----------------------------------------------------------------------------
(* The blocks of labels *)

(* Block t becomes that of label l; item k2 may be the first that has it.   *)
Names(b, named, named2, l, t) ==
  /\ l \in Labels /\ named2 = [named EXCEPT ![l] = t]
  /\ (named[l] = 0 /\ t > Len(b.blocks)) \/ (named[l] = t /\ t # 0)

LEMMA NamedMarked ==
  ASSUME NEW x, NEW b, NEW role, NEW named, NEW t, NEW s, NEW e, NEW role2, NEW named2, NEW W, NEW k, NEW k2, NEW l,
         NamedOK(x, b.blocks, role, W, k, named), Onward(b, role, named, s, e, role2, named2),
         Waited(b, W, W), Names(b, named, named2, l, t), s \in {0, t}, t \in 1 .. Len(e.blocks),
         LabelOK(x, e.blocks, role2, W, k2, t, l), k2 \in {k, k + 1}, k \in Nat,
         k2 = k + 1 => x.source[k2].label = l
  PROVE  NamedOK(x, e.blocks, role2, W, k2, named2) /\ NamesKept(named, named2)
<1>0. Len(b.blocks) \in Nat /\ Len(e.blocks) \in Nat /\ Len(b.blocks) <= Len(e.blocks)
  BY BuilderFacts DEF Onward, Kept
<1>1. named \in [Labels -> 0 .. Len(b.blocks)]
  BY DEF NamedOK
<1>2. named2 \in [Labels -> 0 .. Len(e.blocks)]
  <2>1. 0 .. Len(b.blocks) \subseteq 0 .. Len(e.blocks) /\ t \in 0 .. Len(e.blocks)
    BY <1>0
  <2> QED BY <2>1, <1>1 DEF Names
<1>3. named2[l] = t /\ \A m \in Labels : m # l => named2[m] = named[m]
  BY <1>1 DEF Names
<1>4. t # 0
  BY <1>0 DEF Names
<1>5. \A m \in Labels : m # l /\ named[m] # 0 => named[m] # t
  <2> SUFFICES ASSUME NEW m \in Labels, m # l, named[m] # 0 PROVE named[m] # t
    OBVIOUS
  <2>1. CASE named[l] = t
    BY <2>1, <1>4 DEF NamedOK, Names
  <2>2. CASE t > Len(b.blocks)
    <3>1. named[m] \in 0 .. Len(b.blocks)
      BY <1>1
    <3> QED BY <3>1, <2>2, <1>0
  <2> QED BY <2>1, <2>2 DEF Names
<1>6. \A j \in 1 .. k2 : j \in 1 .. k \/ x.source[j].label = l
  <2>1. \A j \in 1 .. k + 1 : j \in 1 .. k \/ j = k + 1
    OBVIOUS
  <2> QED BY <2>1
<1>7. \A j \in 1 .. k : j \in 1 .. k2
  OBVIOUS
<1>8. ASSUME NEW m \in Labels, m # l, named[m] # 0
      PROVE  LabelOK(x, e.blocks, role2, W, k2, named[m], m)
  <2>1. LabelOK(x, b.blocks, role, W, k, named[m], m) /\ named[m] \in 0 .. Len(b.blocks)
    BY <1>8 DEF NamedOK
  <2>2. named[m] \in 1 .. Len(b.blocks)
    BY <2>1, <1>0, <1>8
  <2>3. named[m] # s
    BY <2>2, <1>0, <1>5, <1>8
  <2>4. LabelOK(x, e.blocks, role2, W, k, named[m], m)
    BY <2>1, <2>2, <2>3, LabelOnward
  <2>5. (\A j \in 1 .. k : x.source[j].label # m) => \A j \in 1 .. k2 : x.source[j].label # m
    BY <1>6, <1>8
  <2> QED BY <2>4, <2>5, <1>7 DEF LabelOK
<1>9. ASSUME NEW m \in Labels, named2[m] # 0 PROVE LabelOK(x, e.blocks, role2, W, k2, named2[m], m)
  <2>1. CASE m = l
    BY <2>1, <1>3
  <2>2. CASE m # l
    BY <2>2, <1>3, <1>8, <1>9
  <2> QED BY <2>1, <2>2
<1>10. ASSUME NEW m \in Labels, NEW h \in Labels, m # h, named2[m] # 0
       PROVE  named2[m] # named2[h]
  <2>1. CASE m = l
    BY <2>1, <1>3, <1>4, <1>5, <1>10
  <2>2. CASE m # l
    <3>1. named2[m] = named[m] /\ named[m] # 0
      BY <2>2, <1>3, <1>10
    <3>2. CASE h = l
      BY <3>1, <3>2, <2>2, <1>3, <1>5
    <3>3. CASE h # l
      BY <3>1, <3>3, <1>3, <1>10 DEF NamedOK
    <3> QED BY <3>2, <3>3
  <2> QED BY <2>1, <2>2
<1>11. ASSUME NEW m \in Labels, named2[m] = 0 PROVE \A j \in 1 .. k2 : x.source[j].label # m
  <2>1. m # l /\ named[m] = 0
    BY <1>3, <1>4, <1>11
  <2>2. \A j \in 1 .. k : x.source[j].label # m
    BY <2>1 DEF NamedOK
  <2> QED BY <2>1, <2>2, <1>6
<1>12. NamedOK(x, e.blocks, role2, W, k2, named2)
  BY <1>2, <1>9, <1>10, <1>11 DEF NamedOK
<1>13. NamesKept(named, named2)
  <2>1. DOMAIN named2 = DOMAIN named /\ DOMAIN named = Labels
    BY <1>1, <1>2
  <2>2. \A m \in Labels : named[m] # 0 => named2[m] = named[m]
    BY <1>3, <1>4 DEF Names
  <2> QED BY <2>1, <2>2 DEF NamesKept
<1> QED BY <1>12, <1>13

(* Item p comes behind the first k and has label l.                          *)
Comes(x, p, k, l) == k \in Nat /\ p = k + 1 /\ x.source[p].label = l

(* The block of the label of the item that is visited exists.               *)
LEMMA MarkOld ==
  ASSUME NEW x, NEW b, NEW role, NEW W, NEW D, NEW named, NEW p, NEW k, NEW pend, NEW t, NEW l, NEW m, NEW e,
         Mid(x, b, role, W, D, named, p, k, pend), Turning(b, t, t, m, e), Par(b.blocks, t) = 0,
         Names(b, named, named, l, t), Comes(x, p, k, l),
         (\A j \in 1 .. k : x.source[j].label # l) => x.first[l] = p
  PROVE  Mid(x, e, role, W, D, named, p, k + 1, pend) /\ e.broken = b.broken /\ e.insert = t
<1> USE DEF Comes
<1>1. /\ Building(x, b, role, W, D, named, p) /\ NamedOK(x, b.blocks, role, W, k, named)
      /\ PendOK(x, b.blocks, role, b.insert, pend)
  BY DEF Mid
<1>n. named[l] = t /\ t # 0 /\ l \in Labels
  <2>1. t \in 1 .. Len(b.blocks) /\ Len(b.blocks) \in Nat
    BY <1>1, BuildingFacts DEF Turning
  <2>2. ~(t > Len(b.blocks))
    BY <2>1
  <2> QED BY <2>2 DEF Names
<1>2. LabelOK(x, b.blocks, role, W, k, t, l)
  BY <1>1, <1>n DEF NamedOK
<1>3. /\ role[t].claims = {} /\ t \notin W /\ role[t].goal = p
      /\ \E c \in 1 .. t - 1 : \E i \in 1 .. Long(b.blocks, c) : t \in Targets(Does(b.blocks, c, i))
  BY <1>2 DEF LabelOK
<1>4. MayTurn(b, W, t, t)
  BY <1>3 DEF MayTurn
<1>5. Without(W, W, t)
  BY <1>3 DEF Without
<1>6. Carries(role, b.insert, m + 1, t)
  BY <1>3 DEF Carries
<1>7. Turned(x, b, role, D, named, t, t, m, e, W)
  BY <1>1, <1>3, <1>4, <1>5, <1>6, TurnCore
<1>8. /\ e \in Builders /\ e.insert = t /\ e.broken = b.broken
      /\ Core(x, e.blocks, role, t, W, D, named)
      /\ Kept(b.blocks, role, named, e.blocks, role, named)
      /\ Beside(b, t, e) /\ Par(e.blocks, t) = Par(b.blocks, b.insert)
      /\ Len(e.blocks) = Len(b.blocks) /\ Long(e.blocks, t) = 0
  BY <1>7 DEF Turned
<1>9. b \in Builders /\ Par(b.blocks, b.insert) # 0 /\ x.within[p] = Par(b.blocks, b.insert)
  BY <1>1, BuildingFacts
<1>10. Onward(b, role, named, t, e, role, named)
  BY <1>8, <1>9 DEF Onward
<1>11. t \in 1 .. Len(e.blocks)
  BY <1>8, BuilderFacts
<1>12. LabelOK(x, e.blocks, role, W, k + 1, t, l)
  <2>1. Par(e.blocks, t) # 0 /\ x.within[p] = Par(e.blocks, t) /\ p \in 1 .. k + 1
    BY <1>8, <1>9
  <2> QED BY <2>1, <1>3 DEF LabelOK
<1>13. NamedOK(x, e.blocks, role, W, k + 1, named)
  <2>1. Waited(b, W, W)
    BY DEF Waited
  <2> QED BY <2>1, <1>1, <1>10, <1>11, <1>12, NamedMarked
<1>14. PendOK(x, e.blocks, role, e.insert, pend)
  BY <1>1, <1>9, <1>10, PendOnward
<1>15. Building(x, e, role, W, D, named, p)
  <2>1. Ready(x, e.blocks, role, e.insert, p)
    BY <1>3, <1>8 DEF Ready
  <2>2. Core(x, e.blocks, role, e.insert, W, D, named) /\ Par(e.blocks, e.insert) = Par(b.blocks, b.insert)
    BY <1>8
  <2> QED BY <2>1, <2>2, <1>1, <1>8, BuildingOn
<1> QED BY <1>8, <1>13, <1>14, <1>15 DEF Mid

(* One new block with the role r.                                           *)
NewRole(role, n, r) == [c \in 1 .. n + 1 |-> IF c <= n THEN role[c] ELSE r]

LEMMA NewRoleFacts ==
  ASSUME NEW role, NEW n, NEW r, NEW b, NEW role2,
         n = Len(b.blocks), n \in Nat, role2 = NewRole(role, n, r)
  PROVE  RolesKept(b.blocks, role, role2) /\ role2[n + 1] = r
<1>1. n + 1 \in 1 .. n + 1 /\ ~(n + 1 <= n)
  OBVIOUS
<1>2. \A c \in 1 .. n : c \in 1 .. n + 1 /\ c <= n
  OBVIOUS
<1>3. \A c \in 1 .. n : NewRole(role, n, r)[c] = role[c]
  BY <1>2 DEF NewRole
<1>4. NewRole(role, n, r)[n + 1] = r
  BY <1>1 DEF NewRole
<1> QED BY <1>3, <1>4 DEF RolesKept

(* A branch to a block that is made for a label.                            *)
NewLabel(b, n, y, d) == n = Len(b.blocks) /\ y = Br(n + 1) /\ d = Emit(Create(b, Detached), y)

LEMMA NewLabelFacts ==
  ASSUME NEW x, NEW b, NEW role, NEW W, NEW D, NEW named, NEW p, NEW n, NEW y, NEW d,
         Building(x, b, role, W, D, named, p), NewLabel(b, n, y, d)
  PROVE  /\ b \in Builders /\ n = Len(b.blocks) /\ n \in Nat /\ y = Br(n + 1) /\ y \in Instructions
         /\ b.insert \in 1 .. n /\ b.insert # n + 1 /\ n + 1 > Len(b.blocks)
         /\ d \in Builders /\ d.insert = b.insert /\ d.broken = b.broken
         /\ Len(d.blocks) = n + 1 /\ Par(d.blocks, n + 1) = 0 /\ Long(d.blocks, n + 1) = 0
         /\ n + 1 \in 1 .. Len(d.blocks)
         /\ Extended(b.blocks, b.insert, b.insert, y, p, d.blocks)
         /\ p \in Nat
<1>1. /\ b \in Builders /\ n = Len(b.blocks) /\ n \in Nat /\ b.insert \in 1 .. n /\ p \in Nat /\ p = Settle[pc]
      /\ y = Br(n + 1) /\ d = Emit(Create(b, Detached), y)
  BY BuildingFacts DEF NewLabel
<1>n. n \in Nat /\ b.insert \in 1 .. n
  BY <1>1
<1>2. n + 1 \in Nat /\ n + 1 \in 1 .. n + 1 /\ b.insert # n + 1 /\ n + 1 > n
  BY <1>n
<1>3. y \in Instructions
  BY <1>1, <1>2, BranchType
<1>4. /\ d \in Builders /\ d.insert = b.insert /\ d.broken = b.broken
      /\ Len(d.blocks) = n + 1 /\ Par(d.blocks, n + 1) = 0 /\ Long(d.blocks, n + 1) = 0
  BY <1>1, <1>3, EmitNewExtends
<1>5. Extended(b.blocks, b.insert, b.insert, y, p, d.blocks)
  BY <1>1, <1>3, EmitNewExtends
<1> QED BY <1>1, <1>2, <1>3, <1>4, <1>5

LEMMA BranchFacts ==
  ASSUME NEW to, NEW y, y = Br(to)
  PROVE  y.op = "br" /\ y.to = to /\ Targets(y) = {to} /\ y.op \in Terminators
<1>1. y.op = "br" /\ y.to = to
  BY DEF Br
<1> QED BY <1>1 DEF Targets, Terminators

(* A goto to a label that nothing was known of.                             *)
LEMMA GotoNew ==
  ASSUME NEW x, NEW b, NEW role, NEW W, NEW D, NEW named, NEW named2, NEW p, NEW k, NEW pend, NEW n, NEW y, NEW d, NEW l,
         Mid(x, b, role, W, D, named, p, k, pend), NewLabel(b, n, y, d), Names(b, named, named2, l, n + 1),
         named[l] = 0, k \in Nat, x.source[p].op = "goto", x.source[p].to = l
  PROVE  /\ \E role2 : After(x, b, d, role2, W, D, named2, k, pend)
         /\ Does(d.blocks, d.insert, Long(d.blocks, d.insert)).op = "br" /\ Long(d.blocks, d.insert) # 0
<1>0. /\ Building(x, b, role, W, D, named, p) /\ NamedOK(x, b.blocks, role, W, k, named)
      /\ PendOK(x, b.blocks, role, b.insert, pend)
  BY DEF Mid
<1>1. /\ b \in Builders /\ n = Len(b.blocks) /\ n \in Nat /\ y = Br(n + 1) /\ y \in Instructions
      /\ b.insert \in 1 .. n /\ b.insert # n + 1 /\ n + 1 > Len(b.blocks)
      /\ d \in Builders /\ d.insert = b.insert /\ d.broken = b.broken
      /\ Len(d.blocks) = n + 1 /\ Par(d.blocks, n + 1) = 0 /\ Long(d.blocks, n + 1) = 0
      /\ n + 1 \in 1 .. Len(d.blocks)
      /\ Extended(b.blocks, b.insert, b.insert, y, p, d.blocks) /\ p \in Nat
  BY <1>0, NewLabelFacts
<1>2. /\ b.blocks \in Seq(Blocks) /\ d.blocks \in Seq(Blocks) /\ D \in Nat
      /\ Par(b.blocks, b.insert) # 0 /\ p \in DOMAIN x.source /\ x.within[p] = Par(b.blocks, b.insert)
      /\ Core(x, b.blocks, role, b.insert, W, D, named)
      /\ \A w \in W : w \in 1 .. Len(b.blocks) /\ w # b.insert
  BY <1>0, <1>1, BuildingFacts, BuilderFacts
<1>i. b.insert \in 1 .. Len(b.blocks) /\ b.insert \in 1 .. Len(d.blocks)
  <2>1. b.insert \in 1 .. n + 1
    BY <1>1
  <2> QED BY <2>1, <1>1
<1>3. PICK role2 : role2 = NewRole(role, n, Plainly(x.first[l]))
  OBVIOUS
<1>4. RolesKept(b.blocks, role, role2) /\ role2[n + 1] = Plainly(x.first[l])
  BY <1>1, <1>3, NewRoleFacts
<1>5. /\ Par(d.blocks, b.insert) = Par(b.blocks, b.insert) /\ Beside(b, b.insert, d)
      /\ Long(d.blocks, b.insert) = Long(b.blocks, b.insert) + 1
  <2>1. b \in Builders /\ d \in Builders /\ b.insert \in 1 .. Len(d.blocks)
    BY <1>1, <1>i
  <2>2. Extended(b.blocks, b.insert, b.insert, y, p, d.blocks)
    BY <1>1
  <2>3. Par(d.blocks, b.insert) = Par(b.blocks, b.insert)
    BY <2>1, <2>2, ExtendedFacts
  <2>4. Beside(b, b.insert, d)
    BY <2>1, <2>2, ExtendedFacts
  <2>5. Long(d.blocks, b.insert) = Long(b.blocks, b.insert) + 1
    BY <2>1, <2>2, ExtendedFacts
  <2> QED BY <2>3, <2>4, <2>5
<1>6. /\ Does(d.blocks, b.insert, Long(b.blocks, b.insert) + 1) = y
      /\ Of(d.blocks, b.insert, Long(b.blocks, b.insert) + 1) = p
  BY <1>1 DEF Extended
<1>7. named2[l] = n + 1 /\ NamesKept(named, named2)
  <2>1. named \in [Labels -> 0 .. Len(b.blocks)]
    BY <1>0 DEF NamedOK
  <2>2. \A m \in Labels : named[m] # 0 => named2[m] = named[m]
    BY <2>1 DEF Names
  <2>3. DOMAIN named2 = DOMAIN named /\ DOMAIN named = Labels
    BY <2>1 DEF Names
  <2> QED BY <2>1, <2>2, <2>3 DEF Names, NamesKept
<1>8. y.op = "br" /\ y.to = n + 1 /\ Targets(y) = {n + 1}
  BY <1>1, BranchFacts
<1>9. InstrOK(x, d.blocks, role2, named2, b.insert, Long(b.blocks, b.insert) + 1)
  <2>1. y.to \in 1 .. Len(d.blocks) /\ y.to = named2[x.source[p].to]
    BY <1>1, <1>7, <1>8
  <2>2. x.within[p] = Par(d.blocks, b.insert)
    BY <1>2, <1>5
  <2> QED BY <2>1, <2>2, <1>2, <1>6, <1>8 DEF InstrOK
<1>10. TargetOK(x, d.blocks, b.insert, W, named2, b.insert, Long(b.blocks, b.insert) + 1)
  BY <1>6, <1>7, <1>8 DEF TargetOK
<1>11. Follows(x, b.blocks, role, b.insert, W, b.insert, y, p, d.blocks, role2, W, named2)
  <2>1. Ready(x, b.blocks, role, b.insert, p)
    BY <1>0 DEF Building
  <2>2. \A w \in W : w # b.insert /\ w \in 1 .. Len(d.blocks)
    <3>1. \A w \in 1 .. n : w \in 1 .. n + 1
      BY <1>1
    <3> QED BY <3>1, <1>1, <1>2
  <2> QED BY <2>1, <2>2, <1>9, <1>10 DEF Follows
<1>12. Core(x, d.blocks, role2, b.insert, W, D, named2) /\ Kept(b.blocks, role, named, d.blocks, role2, named2)
  <2>1. \A i \in DOMAIN x.source : x.source[i].op = "goto" => x.source[i].to \in DOMAIN named
    BY <1>0 DEF Building
  <2> QED BY <2>1, <1>1, <1>2, <1>i, <1>4, <1>7, <1>11, ExtendCore
<1>13. Onward(b, role, named, 0, d, role2, named2)
  <2>1. Beside(b, 0, d)
    BY <1>5 DEF Beside
  <2> QED BY <2>1, <1>1, <1>5, <1>12 DEF Onward
<1>14. LabelOK(x, d.blocks, role2, W, k, n + 1, l)
  <2>1. role2[n + 1].claims = {} /\ role2[n + 1].goal = x.first[l]
    BY <1>4 DEF Plainly
  <2>2. n + 1 \notin W
    <3>1. ~(n + 1 \in 1 .. n)
      BY <1>1
    <3> QED BY <3>1, <1>1, <1>2
  <2>3. \A j \in 1 .. k : x.source[j].label # l
    BY <1>0 DEF NamedOK, Names
  <2>4. b.insert \in 1 .. n + 1 - 1
    BY <1>1
  <2>5. Long(b.blocks, b.insert) + 1 \in 1 .. Long(d.blocks, b.insert)
    <3>1. Long(b.blocks, b.insert) \in Nat
      BY <1>0, BuildingFacts
    <3>2. Long(b.blocks, b.insert) + 1 \in 1 .. Long(b.blocks, b.insert) + 1
      BY <3>1
    <3> QED BY <3>2, <1>5
  <2>6. n + 1 \in Targets(Does(d.blocks, b.insert, Long(b.blocks, b.insert) + 1))
    BY <1>6, <1>8
  <2> QED BY <2>1, <2>2, <2>3, <2>4, <2>5, <2>6, <1>1 DEF LabelOK
<1>15. NamedOK(x, d.blocks, role2, W, k, named2)
  <2>1. Waited(b, W, W)
    BY DEF Waited
  <2>2. k \in {k, k + 1} /\ 0 \in {0, n + 1} /\ k # k + 1
    OBVIOUS
  <2> QED BY <2>1, <2>2, <1>0, <1>1, <1>13, <1>14, NamedMarked
<1>16. PendOK(x, d.blocks, role2, d.insert, pend)
  BY <1>0, <1>2, <1>13, PendOnward
<1>17. After(x, b, d, role2, W, D, named2, k, pend)
  BY <1>1, <1>5, <1>12, <1>15, <1>16 DEF After
<1>18. Long(d.blocks, d.insert) # 0
  <2>1. Long(b.blocks, b.insert) \in Nat
    BY <1>0, BuildingFacts
  <2>2. Long(b.blocks, b.insert) + 1 # 0
    BY <2>1
  <2> QED BY <2>2, <1>1, <1>5
<1> QED BY <1>1, <1>5, <1>6, <1>8, <1>17, <1>18

MarkMade(d, n, e) == e = SetInsert(PushBack(d, n + 1), n + 1)

(* The item that is visited is the first with its label that was heard of.  *)
LEMMA MarkNew ==
  ASSUME NEW x, NEW b, NEW role, NEW W, NEW D, NEW named, NEW named2, NEW p, NEW k, NEW pend, NEW n, NEW y, NEW d, NEW l, NEW e,
         Mid(x, b, role, W, D, named, p, k, pend), NewLabel(b, n, y, d), Names(b, named, named2, l, n + 1),
         named[l] = 0, Comes(x, p, k, l),
         MarkMade(d, n, e)
  PROVE  /\ e.broken = b.broken /\ e.insert = n + 1
         /\ \E role2 : Mid(x, e, role2, W, D, named2, p, k + 1, pend)
<1> USE DEF Comes
<1>0. /\ Building(x, b, role, W, D, named, p) /\ NamedOK(x, b.blocks, role, W, k, named)
      /\ PendOK(x, b.blocks, role, b.insert, pend)
  BY DEF Mid
<1>1. /\ b \in Builders /\ n = Len(b.blocks) /\ n \in Nat /\ y = Br(n + 1) /\ y \in Instructions
      /\ b.insert \in 1 .. n /\ b.insert # n + 1 /\ n + 1 > Len(b.blocks)
      /\ d \in Builders /\ d.insert = b.insert /\ d.broken = b.broken
      /\ Len(d.blocks) = n + 1 /\ Par(d.blocks, n + 1) = 0 /\ Long(d.blocks, n + 1) = 0
      /\ n + 1 \in 1 .. Len(d.blocks)
      /\ Extended(b.blocks, b.insert, b.insert, y, p, d.blocks) /\ p \in Nat
  BY <1>0, NewLabelFacts
<1>e. /\ e \in Builders /\ e.insert = n + 1 /\ e.broken = b.broken /\ Len(e.blocks) = n + 1
      /\ Extended(b.blocks, b.insert, n + 1, y, p, e.blocks)
  <2>1. e \in Builders /\ e.insert = n + 1 /\ e.broken = d.broken /\ Len(e.blocks) = Len(d.blocks)
    BY <1>1, TurnBuilder DEF MarkMade
  <2>2. Extended(b.blocks, b.insert, n + 1, y, p, e.blocks)
    BY <1>1, TurnExtends DEF MarkMade
  <2> QED BY <2>1, <2>2, <1>1
<1>2. /\ b.blocks \in Seq(Blocks) /\ e.blocks \in Seq(Blocks) /\ D \in Nat
      /\ Par(b.blocks, b.insert) # 0 /\ p \in DOMAIN x.source /\ x.within[p] = Par(b.blocks, b.insert)
      /\ Core(x, b.blocks, role, b.insert, W, D, named)
      /\ \A w \in W : w \in 1 .. Len(b.blocks) /\ w # b.insert
  BY <1>0, <1>e, BuildingFacts, BuilderFacts
<1>i. b.insert \in 1 .. Len(b.blocks) /\ b.insert \in 1 .. Len(e.blocks) /\ n + 1 \in 1 .. Len(e.blocks)
  <2>1. b.insert \in 1 .. n + 1 /\ n + 1 \in 1 .. n + 1
    BY <1>1
  <2> QED BY <2>1, <1>1, <1>e
<1>3. PICK role2 : role2 = NewRole(role, n, Plainly(p))
  OBVIOUS
<1>4. RolesKept(b.blocks, role, role2) /\ role2[n + 1] = Plainly(p)
  BY <1>1, <1>3, NewRoleFacts
<1>c. role2[n + 1].claims = {} /\ role2[n + 1].goal = p
  BY <1>4 DEF Plainly
<1>5. /\ Par(e.blocks, n + 1) = Par(b.blocks, b.insert) /\ Beside(b, n + 1, e)
      /\ Long(e.blocks, n + 1) = 0
  <2>1. b \in Builders /\ e \in Builders /\ n + 1 \in 1 .. Len(e.blocks)
    BY <1>1, <1>e, <1>i
  <2>2. Extended(b.blocks, b.insert, n + 1, y, p, e.blocks)
    BY <1>e
  <2>3. PICK t : t = n + 1
    OBVIOUS
  <2>4. t \in 1 .. Len(e.blocks) /\ Extended(b.blocks, b.insert, t, y, p, e.blocks)
    BY <2>1, <2>2, <2>3
  <2>5. Par(e.blocks, t) = Par(b.blocks, b.insert) /\ Beside(b, t, e)
    <3>1. Par(e.blocks, t) = Par(b.blocks, b.insert)
      BY <2>1, <2>4, ExtendedFacts
    <3>2. Beside(b, t, e)
      BY <2>1, <2>4, ExtendedFacts
    <3> QED BY <3>1, <3>2
  <2>6. \A c \in 1 .. Len(e.blocks) : c > Len(b.blocks) => Long(e.blocks, c) = 0
    BY <2>1, <2>4, ExtendedCode
  <2>7. Long(e.blocks, t) = 0
    BY <2>6, <2>4, <2>3, <1>1
  <2> QED BY <2>3, <2>5, <2>7
<1>6. /\ Does(e.blocks, b.insert, Long(b.blocks, b.insert) + 1) = y
      /\ Of(e.blocks, b.insert, Long(b.blocks, b.insert) + 1) = p
  BY <1>e DEF Extended
<1>7. named \in [Labels -> 0 .. Len(b.blocks)] /\ NamesKept(named, named2)
  <2>1. named \in [Labels -> 0 .. Len(b.blocks)]
    BY <1>0 DEF NamedOK
  <2>2. \A m \in Labels : named[m] # 0 => named2[m] = named[m]
    BY <2>1 DEF Names
  <2>3. DOMAIN named2 = DOMAIN named /\ DOMAIN named = Labels
    BY <2>1 DEF Names
  <2> QED BY <2>1, <2>2, <2>3 DEF NamesKept
<1>8. y.op = "br" /\ y.to = n + 1 /\ Targets(y) = {n + 1} /\ y.op \in Terminators
  BY <1>1, BranchFacts
<1>p. Par(e.blocks, b.insert) = Par(b.blocks, b.insert)
  BY <1>1, <1>i, <1>5 DEF Beside
<1>9. InstrOK(x, e.blocks, role2, named2, b.insert, Long(b.blocks, b.insert) + 1)
  <2>1. y.to \in 1 .. Len(e.blocks) /\ role2[y.to].goal = p
    BY <1>c, <1>i, <1>8
  <2>2. Carries(role2, b.insert, Long(b.blocks, b.insert) + 1, y.to)
    BY <1>c, <1>8 DEF Carries
  <2> QED BY <2>1, <2>2, <1>2, <1>p, <1>6, <1>8 DEF InstrOK
<1>10. TargetOK(x, e.blocks, n + 1, W, named2, b.insert, Long(b.blocks, b.insert) + 1)
  BY <1>5, <1>p, <1>6, <1>8 DEF TargetOK
<1>w. \A w \in W : w # n + 1 /\ w \in 1 .. Len(e.blocks)
  <2>1. \A w \in 1 .. n : w \in 1 .. n + 1 /\ w # n + 1
    BY <1>1
  <2> QED BY <2>1, <1>1, <1>e, <1>2
<1>11. Follows(x, b.blocks, role, b.insert, W, n + 1, y, p, e.blocks, role2, W, named2)
  <2>1. Ready(x, b.blocks, role, b.insert, p)
    BY <1>0 DEF Building
  <2>2. Moves(b.blocks, b.insert, W, n + 1, y)
    BY <1>1, <1>8 DEF Moves
  <2> QED BY <2>1, <2>2, <1>w, <1>9, <1>10 DEF Follows
<1>g. \A i \in DOMAIN x.source : x.source[i].op = "goto" => x.source[i].to \in DOMAIN named
  BY <1>0 DEF Building
<1>12. Core(x, e.blocks, role2, n + 1, W, D, named2) /\ Kept(b.blocks, role, named, e.blocks, role2, named2)
  BY <1>g, <1>e, <1>2, <1>i, <1>4, <1>7, <1>11, ExtendCore
<1>13. Onward(b, role, named, n + 1, e, role2, named2)
  BY <1>1, <1>e, <1>5, <1>12 DEF Onward
<1>14. LabelOK(x, e.blocks, role2, W, k + 1, n + 1, l)
  <2>1. n + 1 \notin W
    BY <1>w
  <2>2. Par(e.blocks, n + 1) # 0 /\ x.within[p] = Par(e.blocks, n + 1) /\ p \in 1 .. k + 1
    BY <1>2, <1>5
  <2> QED BY <2>1, <2>2, <1>c DEF LabelOK
<1>15. NamedOK(x, e.blocks, role2, W, k + 1, named2)
  <2>1. Waited(b, W, W)
    BY DEF Waited
  <2>2. PICK t : t = n + 1
    OBVIOUS
  <2>3. /\ Names(b, named, named2, l, t) /\ t \in 1 .. Len(e.blocks)
        /\ Onward(b, role, named, t, e, role2, named2) /\ LabelOK(x, e.blocks, role2, W, k + 1, t, l)
    BY <2>2, <1>i, <1>13, <1>14
  <2>4. k + 1 \in {k, k + 1} /\ t \in {0, t} /\ x.source[k + 1].label = l
    OBVIOUS
  <2>5. NamedOK(x, b.blocks, role, W, k, named)
    BY <1>0
  <2> QED BY <2>1, <2>3, <2>4, <2>5, NamedMarked
<1>16. PendOK(x, e.blocks, role2, e.insert, pend)
  <2>1. PICK t : t = n + 1
    OBVIOUS
  <2>2. Onward(b, role, named, t, e, role2, named2) /\ t > Len(b.blocks)
    BY <2>1, <1>1, <1>13
  <2>3. Par(b.blocks, b.insert) # 0 /\ PendOK(x, b.blocks, role, b.insert, pend)
    BY <1>0, <1>2
  <2> QED BY <2>2, <2>3, PendOnward
<1>17. Building(x, e, role2, W, D, named2, p)
  <2>1. Ready(x, e.blocks, role2, e.insert, p)
    BY <1>c, <1>e, <1>5 DEF Ready
  <2>2. Building(x, e, role2, W, D, named2, p) <=>
          /\ Core(x, e.blocks, role2, e.insert, W, D, named2)
          /\ \A i \in DOMAIN x.source : x.source[i].op = "goto" => x.source[i].to \in DOMAIN named2
    BY <2>1, <1>0, <1>e, <1>5 DEF Building
  <2>3. DOMAIN named2 = DOMAIN named
    BY <1>7 DEF NamesKept
  <2> QED BY <2>2, <2>3, <1>e, <1>12, <1>g
<1> QED BY <1>e, <1>15, <1>16, <1>17 DEF Mid

-----------------------------------------------------------------------------
(* Between two items *)

Inside(x, n, k) == k \in 1 .. n /\ x.source[k].op # "function"

(* In front of item k of a function.                                        *)
InAt(x, k, bs, ins, named, pend, role) ==
  /\ ins \in 1 .. Len(bs) /\ Par(bs, ins) = x.within[k]
  /\ Core(x, bs, role, ins, Waiting(pend), k - 1, named)
  /\ Ready(x, bs, role, ins, x.settle[k])
  /\ NamedOK(x, bs, role, Waiting(pend), k - 1, named)
  /\ PendOK(x, bs, role, ins, pend)

(* Between functions.                                                       *)
OutAt(x, k, bs, named, role) ==
  /\ Core(x, bs, role, 0, {}, k - 1, named)
  /\ NamedOK(x, bs, role, {}, k - 1, named)

(* The visit of the item at k is under way in a whole source.               *)
Visiting(x, n, k) ==
  /\ WholeSource /\ n = Len(program) /\ x = Context /\ k = pc
  /\ k \in 1 .. n /\ program[k].op # "function"

LEMMA VisitingFacts ==
  ASSUME NEW x, NEW n, NEW k,
         Visiting(x, n, k)
  PROVE  /\ n \in Nat \ {0} /\ k \in Nat /\ k \in 1 .. n /\ DOMAIN x.source = 1 .. n
         /\ x.source = program /\ x.settle = Settle /\ ItemAt(x, n, k) /\ x.settle[k] = Settle[pc]
         /\ x.settle[k] \in 1 .. n /\ x.settle[k] \in Nat /\ x.within[x.settle[k]] = x.within[k]
         /\ x.within[k] \in 1 .. k /\ x.within[k] # 0
         /\ \A i \in DOMAIN x.source : x.source[i].op = "goto" => x.source[i].to \in Labels
<1>0. WholeSource /\ n = Len(program) /\ x = Context /\ k = pc /\ k \in 1 .. n
  BY DEF Visiting
<1>1. /\ n \in Nat \ {0} /\ DOMAIN x.source = 1 .. n
      /\ \A i \in 1 .. n : ItemAt(x, n, i)
  BY <1>0, ContextFacts
<1>2. x.source = program /\ x.settle = Settle
  BY <1>0, ContextFields
<1>3. k \in Nat
  BY <1>0, <1>1
<1>4. /\ x.settle[k] \in k .. n /\ x.within[x.settle[k]] = x.within[k] /\ x.within[k] \in 1 .. k
  BY <1>0, <1>1 DEF ItemAt
<1>5. x.settle[k] \in 1 .. n /\ x.settle[k] \in Nat
  BY <1>4, <1>0, <1>1
<1>6. x.within[k] # 0
  BY <1>4
<1>7. \A i \in DOMAIN x.source : x.source[i].op = "goto" => x.source[i].to \in Labels
  BY <1>1 DEF ItemAt, ItemOK
<1> QED BY <1>0, <1>1, <1>2, <1>3, <1>4, <1>5, <1>6, <1>7

LEMMA BuilderHere ==
  ASSUME blocks \in Seq(Blocks), insert \in 1 .. Len(blocks), broken \in BOOLEAN, NEW b, b = Builder
  PROVE  b \in Builders /\ b.blocks = blocks /\ b.insert = insert /\ b.broken = broken
<1>1. b = [blocks |-> blocks, insert |-> insert, last |-> Absent, broken |-> broken]
  BY DEF Builder
<1>2. /\ b.blocks = blocks /\ b.insert = insert /\ b.last = Absent /\ b.broken = broken
      /\ b = [blocks |-> b.blocks, insert |-> b.insert, last |-> b.last, broken |-> b.broken]
  BY <1>1
<1> QED BY <1>2, BuilderType

LEMMA InMid ==
  ASSUME NEW x, NEW n, NEW k, NEW role, NEW b, NEW p,
         Visiting(x, n, k), b = Builder, p = x.settle[k], broken = FALSE,
         InAt(x, k, blocks, insert, namedBlocks, pending, role)
  PROVE  Mid(x, b, role, Waiting(pending), k - 1, namedBlocks, p, k - 1, pending)
<1>1. /\ k \in Nat /\ k \in 1 .. n /\ DOMAIN x.source = 1 .. n /\ p = Settle[pc]
      /\ p \in 1 .. n /\ p \in Nat /\ x.within[p] = x.within[k] /\ x.within[k] # 0
      /\ \A i \in DOMAIN x.source : x.source[i].op = "goto" => x.source[i].to \in Labels
  BY VisitingFacts
<1>2. /\ insert \in 1 .. Len(blocks) /\ Par(blocks, insert) = x.within[k]
      /\ Core(x, blocks, role, insert, Waiting(pending), k - 1, namedBlocks)
      /\ Ready(x, blocks, role, insert, p)
      /\ NamedOK(x, blocks, role, Waiting(pending), k - 1, namedBlocks)
      /\ PendOK(x, blocks, role, insert, pending)
  BY DEF InAt
<1>3. blocks \in Seq(Blocks)
  BY <1>2 DEF Core
<1>4. b \in Builders /\ b.blocks = blocks /\ b.insert = insert /\ b.broken = FALSE
  BY <1>2, <1>3, BuilderHere
<1>5. DOMAIN namedBlocks = Labels
  BY <1>2 DEF NamedOK
<1>6. k - 1 \in Nat
  BY <1>1
<1> HIDE DEF Waiting
<1>7. Building(x, b, role, Waiting(pending), k - 1, namedBlocks, p)
  BY <1>1, <1>2, <1>4, <1>5, <1>6 DEF Building
<1> QED BY <1>7, <1>2, <1>4 DEF Mid

-----------------------------------------------------------------------------
(* The label of an item *)

(* What every visit of a labelled item begins with.                         *)
Accepting(b, l, e, named2) ==
  b = Builder /\ e = Accepted(l) /\ named2 = Named(l, e)

LEMMA MarkedIs ==
  ASSUME NEW b, NEW l, NEW e, NEW named2, NEW t,
         Accepting(b, l, e, named2), l \in Labels, Absent \notin Labels, t = namedBlocks[l]
  PROVE  /\ t # 0 => e = SetInsert(PushBack(Emit(b, Br(t)), t), t)
         /\ t = 0 => \E n : n = Len(Create(b, Detached).blocks)
                         /\ e = SetInsert(PushBack(Emit(Create(b, Detached), Br(n)), n), n)
         /\ named2 = [namedBlocks EXCEPT ![l] = e.insert]
<1>1. l # Absent
  OBVIOUS
<1>2. e = Marked(b, l) /\ named2 = [namedBlocks EXCEPT ![l] = e.insert]
  BY <1>1 DEF Accepting, Accepted, Named
<1>3. t # 0 => e = SetInsert(PushBack(Emit(b, Br(t)), t), t)
  BY <1>2 DEF Marked, NoBlock
<1>4. t = 0 => \E n : n = Len(Create(b, Detached).blocks)
                         /\ e = SetInsert(PushBack(Emit(Create(b, Detached), Br(n)), n), n)
  BY <1>2 DEF Marked, NoBlock
<1> QED BY <1>2, <1>3, <1>4


(* Whatever happens, the builder stays one.                                 *)
LEMMA AcceptGrown ==
  ASSUME NEW b, NEW l, NEW e, NEW named2, NEW p,
         Accepting(b, l, e, named2), l \in Labels \cup {Absent}, Absent \notin Labels, b \in Builders,
         namedBlocks \in [Labels -> 0 .. Len(b.blocks)], p = Settle[pc], p \in Nat
  PROVE  Grown(b, e) /\ named2 \in [Labels -> 0 .. Len(e.blocks)]
<1>1. CASE l = Absent
  <2>1. e = b /\ named2 = namedBlocks
    BY <1>1 DEF Accepting, Accepted, Named
  <2> QED BY <2>1, GrownSame
<1>2. CASE l \in Labels
  <2>0. PICK t : t = namedBlocks[l]
    OBVIOUS
  <2>1. t \in 0 .. Len(b.blocks) /\ Len(b.blocks) \in Nat
    BY <1>2, <2>0, BuilderFacts
  <2>2. Grown(b, e) /\ e.insert \in 1 .. Len(e.blocks)
    <3>1. CASE t # 0
      <4>1. e = SetInsert(PushBack(Emit(b, Br(t)), t), t)
        BY <1>2, <2>0, <3>1, MarkedIs
      <4>2. t \in 1 .. Len(b.blocks) /\ t \in Nat
        BY <2>1, <3>1
      <4>3. Grown(b, e)
        BY <4>1, <4>2, GrownBranch
      <4> QED BY <4>3, BuilderFacts DEF Grown
    <3>2. CASE t = 0
      <4>0. PICK c : c = Create(b, Detached)
        OBVIOUS
      <4>1. PICK n : n = Len(c.blocks) /\ e = SetInsert(PushBack(Emit(c, Br(n)), n), n)
        <5>1. \E n : n = Len(Create(b, Detached).blocks)
                   /\ e = SetInsert(PushBack(Emit(Create(b, Detached), Br(n)), n), n)
          BY <1>2, <2>0, <3>2, MarkedIs
        <5> QED BY <5>1, <4>0, Zenon
      <4>2. Grown(b, c) /\ Len(c.blocks) = Len(b.blocks) + 1
        <5>1. Detached \in Nat /\ Detached \in Parents(b)
          BY DEF Detached, Parents
        <5> QED BY <5>1, <4>0, GrownCreate
      <4>3. n \in 1 .. Len(c.blocks) /\ n \in Nat
        BY <4>1, <4>2, <2>1
      <4>4. c \in Builders
        BY <4>2 DEF Grown
      <4>5. Grown(c, e)
        BY <4>1, <4>3, <4>4, GrownBranch
      <4>6. Grown(b, e)
        BY <4>2, <4>5, GrownTrans
      <4> QED BY <4>6, BuilderFacts DEF Grown
    <3> QED BY <3>1, <3>2
  <2>3. named2 = [namedBlocks EXCEPT ![l] = e.insert]
    BY <1>2, <2>0, MarkedIs
  <2>4. Len(e.blocks) \in Nat /\ Len(b.blocks) <= Len(e.blocks)
    BY <2>2, BuilderFacts DEF Grown
  <2>5. \A c \in 0 .. Len(b.blocks) : c \in 0 .. Len(e.blocks)
    BY <2>1, <2>4
  <2>6. e.insert \in 0 .. Len(e.blocks)
    BY <2>2, <2>4
  <2>7. named2 \in [Labels -> 0 .. Len(e.blocks)]
    BY <2>3, <2>5, <2>6
  <2> QED BY <2>2, <2>7
<1> QED BY <1>1, <1>2

(* The block of a label that is on one item only is not in use when the item *)
(* is visited.                                                              *)
LEMMA LabelFree ==
  ASSUME NEW x, NEW n, NEW k, NEW bs, NEW role, NEW W, NEW j, NEW t, NEW l,
         Visiting(x, n, k), j \in Nat, k = j + 1, l \in Labels, program[k].label = l, Absent \notin Labels,
         LabelOK(x, bs, role, W, j, t, l), Par(bs, t) # 0
  PROVE  ~WellLabelled
<1>1. x.source = program /\ k \in 1 .. n /\ n \in Nat /\ DOMAIN x.source = 1 .. n
  BY VisitingFacts
<1>2. PICK i \in 1 .. j : program[i].label = l
  BY <1>1 DEF LabelOK
<1>3. i \in 1 .. n /\ i # k
  BY <1>1
<1>4. i \in DOMAIN program /\ k \in DOMAIN program /\ program[i].label = program[k].label
  BY <1>1, <1>2, <1>3
<1>5. program[i].label # Absent
  BY <1>2
<1> QED BY <1>3, <1>4, <1>5 DEF WellLabelled

(* A labelled item is the first with its label if the others are not behind  *)
(* it in the source.                                                        *)
LEMMA FirstHere ==
  ASSUME NEW x, NEW n, NEW k, NEW j, NEW l,
         Visiting(x, n, k), j \in Nat, k = j + 1, l \in Labels, program[k].label = l,
         \A i \in 1 .. j : x.source[i].label # l
  PROVE  x.first[l] = k
<1>1. /\ WholeSource /\ n = Len(program) /\ x = Context /\ k \in 1 .. n /\ n \in Nat /\ x.source = program
  BY VisitingFacts DEF Visiting
<1>2. x.first[l] = First(l)
  BY <1>1, ContextFields
<1>3. k - 1 = j
  BY <1>1
<1>4. \A i \in 1 .. k - 1 : program[i].label # l
  BY <1>3, <1>1
<1>5. k \in 1 .. Len(program) /\ Len(program) \in Nat
  BY <1>1
<1>6. First(l) = k
  BY <1>4, <1>5, FirstIs
<1> QED BY <1>2, <1>6

LEMMA AcceptMid ==
  ASSUME NEW x, NEW n, NEW k, NEW b, NEW l, NEW e, NEW named2, NEW role,
         Visiting(x, n, k), Accepting(b, l, e, named2), l = program[k].label, broken = FALSE,
         InAt(x, k, blocks, insert, namedBlocks, pending, role), x.settle[k] = k, Absent \notin Labels
  PROVE  \/ e.broken = FALSE /\ \E role2 : Mid(x, e, role2, Waiting(pending), k - 1, named2, k, k, pending)
         \/ e.broken = TRUE /\ ~WellLabelled
<1>0. /\ n \in Nat \ {0} /\ k \in Nat /\ k \in 1 .. n /\ DOMAIN x.source = 1 .. n
      /\ x.source = program /\ ItemAt(x, n, k)
  BY VisitingFacts
<1>l. l \in Labels \cup {Absent}
  BY <1>0 DEF ItemAt, ItemOK
<1>w. PICK W : W = Waiting(pending)
  OBVIOUS
<1>j. PICK j : j = k - 1
  OBVIOUS
<1>1. j \in Nat /\ k = j + 1
  BY <1>0, <1>j
<1>b. b = Builder
  BY DEF Accepting
<1>2. Mid(x, b, role, W, j, namedBlocks, k, j, pending)
  BY <1>w, <1>j, <1>b, InMid
<1>3. b \in Builders /\ b.blocks = blocks /\ b.insert = insert /\ b.broken = FALSE
  <2>1. insert \in 1 .. Len(blocks) /\ blocks \in Seq(Blocks)
    BY DEF InAt, Core
  <2> QED BY <2>1, <1>b, BuilderHere
<1>4. /\ Building(x, b, role, W, j, namedBlocks, k)
      /\ NamedOK(x, b.blocks, role, W, j, namedBlocks)
      /\ PendOK(x, b.blocks, role, b.insert, pending)
  BY <1>2 DEF Mid
<1>5. namedBlocks \in [Labels -> 0 .. Len(b.blocks)]
  BY <1>4 DEF NamedOK
<1>6. CASE l = Absent
  <2>1. e = b /\ named2 = namedBlocks
    BY <1>6 DEF Accepting, Accepted, Named
  <2>2. x.source[j + 1].label \notin Labels
    BY <1>0, <1>1, <1>6
  <2>3. NamedOK(x, b.blocks, role, W, j + 1, namedBlocks)
    BY <2>2, <1>1, <1>4, NamedNext
  <2>4. NamedOK(x, b.blocks, role, W, k, namedBlocks)
    BY <2>3, <1>1
  <2>5. Mid(x, b, role, W, j, namedBlocks, k, k, pending)
    BY <2>4, <1>4 DEF Mid
  <2> QED BY <2>1, <2>5, <1>3, <1>w, <1>j
<1>7. CASE l \in Labels
  <2>0. PICK t : t = namedBlocks[l]
    OBVIOUS
  <2>1. t \in 0 .. Len(b.blocks) /\ Len(b.blocks) \in Nat /\ k = j + 1
    BY <1>5, <1>7, <2>0, <1>3, BuilderFacts, <1>1
  <2>2. named2 = [namedBlocks EXCEPT ![l] = e.insert]
    BY <1>7, <2>0, MarkedIs
  <2>l. x.source[k].label = l
    BY <1>0
  <2>c. Comes(x, k, j, l)
    BY <1>1, <2>l DEF Comes
  <2>3. CASE t = 0
    <3>0. PICK c : c = Create(b, Detached)
      OBVIOUS
    <3>1. \E q : q = Len(Create(b, Detached).blocks)
               /\ e = SetInsert(PushBack(Emit(Create(b, Detached), Br(q)), q), q)
      BY <1>7, <2>0, <2>3, MarkedIs
    <3>m. PICK m : m = Len(b.blocks)
      OBVIOUS
    <3>2. Len(c.blocks) = m + 1
      <4>1. Detached \in Nat
        BY DEF Detached
      <4> QED BY <4>1, <3>0, <3>m, <1>3, CreateFacts
    <3>3. e = SetInsert(PushBack(Emit(c, Br(m + 1)), m + 1), m + 1)
      BY <3>1, <3>0, <3>2, Zenon
    <3>y. PICK y, d : y = Br(m + 1) /\ d = Emit(c, y)
      OBVIOUS
    <3>4. NewLabel(b, m, y, d)
      BY <3>0, <3>m, <3>y, Zenon DEF NewLabel
    <3>5. MarkMade(d, m, e)
      BY <3>3, <3>y, Zenon DEF MarkMade
    <3>6. e.insert = m + 1
      <4>1. e.insert = m + 1
        BY <3>5 DEF MarkMade, SetInsert, PushBack
      <4> QED BY <4>1
    <3>7. Names(b, namedBlocks, named2, l, m + 1)
      <4>1. m + 1 > Len(b.blocks)
        BY <3>m, <2>1
      <4>2. named2 = [namedBlocks EXCEPT ![l] = m + 1]
        BY <2>2, <3>6
      <4>3. namedBlocks[l] = 0
        BY <2>0, <2>3
      <4> QED BY <4>1, <4>2, <4>3, <1>7 DEF Names
    <3>8. namedBlocks[l] = 0
      BY <2>0, <2>3
    <3>9. e.broken = b.broken /\ \E role2 : Mid(x, e, role2, W, j, named2, k, j + 1, pending)
      BY <1>2, <2>c, <3>4, <3>5, <3>7, <3>8, MarkNew
    <3>10. PICK role2 : Mid(x, e, role2, W, j, named2, k, j + 1, pending)
      BY <3>9
    <3>11. Mid(x, e, role2, Waiting(pending), k - 1, named2, k, k, pending)
      BY <3>10, <1>w, <1>j, <1>1
    <3> QED BY <3>9, <3>11, <1>3
  <2>4. CASE t # 0
    <3>1. e = SetInsert(PushBack(Emit(b, Br(t)), t), t)
      BY <1>7, <2>0, <2>4, MarkedIs
    <3>2. t \in 1 .. Len(b.blocks)
      BY <2>1, <2>4
    <3>3. LabelOK(x, b.blocks, role, W, j, t, l)
      BY <1>4, <1>7, <2>0, <2>4 DEF NamedOK
    <3>4. CASE Par(b.blocks, t) = 0
      <4>m. PICK m : m = Long(b.blocks, b.insert)
        OBVIOUS
      <4>1. Turning(b, t, t, m, e)
        BY <4>m, <3>1, <3>2 DEF Turning
      <4>2. Names(b, namedBlocks, namedBlocks, l, t)
        <5>1. namedBlocks = [namedBlocks EXCEPT ![l] = t]
          BY <1>5, <1>7, <2>0
        <5> QED BY <5>1, <1>7, <2>0, <2>4 DEF Names
      <4>3. (\A i \in 1 .. j : x.source[i].label # l) => x.first[l] = k
        BY <1>1, <1>7, FirstHere
      <4>4. Mid(x, e, role, W, j, namedBlocks, k, j + 1, pending) /\ e.broken = b.broken /\ e.insert = t
        BY <1>2, <2>c, <3>4, <4>1, <4>2, <4>3, MarkOld
      <4>5. named2 = namedBlocks
        BY <1>5, <1>7, <2>0, <2>2, <4>4
      <4>6. Mid(x, e, role, Waiting(pending), k - 1, named2, k, k, pending)
        BY <4>4, <4>5, <1>w, <1>j, <1>1
      <4> QED BY <4>4, <4>6, <1>3
    <3>5. CASE Par(b.blocks, t) # 0
      <4>1. ~WellLabelled
        BY <1>1, <1>7, <3>3, <3>5, LabelFree
      <4>d. PICK y, d : y = Br(t) /\ d = Emit(b, y)
        OBVIOUS
      <4>2. d \in Builders /\ Len(d.blocks) = Len(b.blocks) /\ Par(d.blocks, t) # 0
        <5>1. y \in Instructions
          BY <4>d, <3>2, BranchType
        <5>2. Settle[pc] \in Nat
          BY VisitingFacts
        <5>3. d \in Builders /\ Len(d.blocks) = Len(b.blocks)
          BY <5>1, <5>2, <4>d, <1>3, EmitFacts
        <5>4. \A c \in 1 .. Len(b.blocks) : Par(d.blocks, c) = Par(b.blocks, c)
          BY <5>1, <5>2, <4>d, <1>3, EmitFacts
        <5> QED BY <5>3, <5>4, <3>2, <3>5
      <4>3. e = SetInsert(PushBack(d, t), t)
        BY <3>1, <4>d, Zenon
      <4>h. PICK h : h = PushBack(d, t)
        OBVIOUS
      <4>t. t \in 1 .. Len(d.blocks)
        BY <4>2, <3>2
      <4>4. h \in Builders /\ h.broken = (d.broken \/ Par(d.blocks, t) # Detached) /\ Len(h.blocks) = Len(d.blocks)
        BY <4>2, <4>t, <4>h, PushFacts
      <4>5. h.broken
        BY <4>2, <4>4 DEF Detached
      <4>6. e = SetInsert(h, t)
        BY <4>3, <4>h, Zenon
      <4>7. e.broken = h.broken
        BY <4>4, <4>6, <4>t, SetInsertFacts
      <4>8. h.broken \in BOOLEAN
        BY <4>4, BuilderFacts
      <4> QED BY <4>1, <4>5, <4>7, <4>8
    <3> QED BY <3>4, <3>5
  <2> QED BY <2>3, <2>4
<1> QED BY <1>l, <1>6, <1>7

-----------------------------------------------------------------------------
(* The ifs under way *)

Ifs == [node : Nat, else : Nat, merge : Nat, inElse : BOOLEAN]

(* The if at i is under way in front of item k, at depth l.                 *)
IfAt(x, k, i, l, inElse) ==
  /\ i \in 1 .. k - 1 /\ x.source[i].op = "if" /\ x.opened[i] = l
  /\ \A j \in i .. k - 1 : x.opened[j] >= l
  /\ inElse <=> \E j \in i + 1 .. k - 1 : x.source[j].op = "else" /\ x.opened[j] = l

PendAt(x, k, pend) ==
  /\ pend \in Seq(Ifs) /\ Len(pend) = x.opened[k - 1]
  /\ \A q \in 1 .. Len(pend) : IfAt(x, k, pend[q].node, Len(pend) - q + 1, pend[q].inElse)

(* An item of a whole source.                                               *)
Sourced(x, n, k) == WholeSource /\ n = Len(program) /\ x = Context /\ k \in 1 .. n

LEMMA OpenedFacts ==
  ASSUME NEW x, NEW n, NEW k,
         Sourced(x, n, k)
  PROVE  /\ n \in Nat \ {0} /\ k \in Nat \ {0} /\ k \in 1 .. n /\ k - 1 \in 0 .. n /\ k \in 0 .. n
         /\ x.source = program /\ x.settle = Settle
         /\ \A i \in 0 .. n : x.opened[i] \in Nat /\ x.opened[i] = Opened(i)
         /\ x.opened[k] = x.opened[k - 1] + (IF x.source[k].op = "if" THEN 1
                                             ELSE IF x.source[k].op = "fi" THEN -1
                                             ELSE 0)
<1>0. WholeSource /\ n = Len(program) /\ x = Context /\ k \in 1 .. n
  BY DEF Sourced
<1>1. /\ n \in Nat \ {0} /\ \A i \in 0 .. n : Opened(i) \in Nat
      /\ \A i \in 1 .. n :
           Opened(i) = Opened(i - 1) + (IF program[i].op = "if" THEN 1
                                        ELSE IF program[i].op = "fi" THEN -1
                                        ELSE 0)
  BY <1>0, WholeFacts
<1>2. /\ x.source = program /\ x.settle = Settle
      /\ \A i \in 0 .. n : x.opened[i] = Opened(i)
  BY <1>0, ContextFields
<1>3. k \in Nat \ {0} /\ k - 1 \in 0 .. n /\ k \in 0 .. n
  BY <1>0, <1>1
<1> QED BY <1>0, <1>1, <1>2, <1>3

(* One item further that closes nothing at the depth.                       *)
LEMMA IfAtNext ==
  ASSUME NEW x, NEW n, NEW k, NEW i, NEW l, NEW inElse,
         Sourced(x, n, k), IfAt(x, k, i, l, inElse), x.opened[k] >= l,
         x.source[k].op = "else" => x.opened[k] # l
  PROVE  IfAt(x, k + 1, i, l, inElse)
<1>1. k \in Nat \ {0}
  BY OpenedFacts
<1>2. i \in 1 .. k - 1 /\ i \in Nat
  BY <1>1 DEF IfAt
<1>3. i \in 1 .. (k + 1) - 1
  BY <1>1, <1>2
<1>4. \A j \in i .. (k + 1) - 1 : j = k \/ j \in i .. k - 1
  BY <1>1, <1>2
<1>5. \A j \in i + 1 .. (k + 1) - 1 : j = k \/ j \in i + 1 .. k - 1
  BY <1>1, <1>2
<1>6. \A j \in i + 1 .. k - 1 : j \in i + 1 .. (k + 1) - 1
  BY <1>1, <1>2
<1>7. /\ x.source[i].op = "if" /\ x.opened[i] = l
      /\ \A j \in i .. k - 1 : x.opened[j] >= l
      /\ inElse <=> \E j \in i + 1 .. k - 1 : x.source[j].op = "else" /\ x.opened[j] = l
  BY DEF IfAt
<1>8. \A j \in i .. (k + 1) - 1 : x.opened[j] >= l
  BY <1>4, <1>7
<1>9. inElse <=> \E j \in i + 1 .. (k + 1) - 1 : x.source[j].op = "else" /\ x.opened[j] = l
  BY <1>5, <1>6, <1>7
<1> QED BY <1>3, <1>7, <1>8, <1>9 DEF IfAt

LEMMA IfAtElse ==
  ASSUME NEW x, NEW n, NEW k, NEW i, NEW l, NEW inElse, NEW turned,
         Sourced(x, n, k), IfAt(x, k, i, l, inElse), turned = TRUE, x.opened[k] = l, x.opened[k] >= l, x.source[k].op = "else"
  PROVE  IfAt(x, k + 1, i, l, turned)
<1>1. k \in Nat \ {0}
  BY OpenedFacts
<1>2. i \in 1 .. k - 1 /\ i \in Nat
  BY <1>1 DEF IfAt
<1>3. i \in 1 .. (k + 1) - 1 /\ k \in i + 1 .. (k + 1) - 1
  BY <1>1, <1>2
<1>4. \A j \in i .. (k + 1) - 1 : j = k \/ j \in i .. k - 1
  BY <1>1, <1>2
<1>5. x.source[i].op = "if" /\ x.opened[i] = l /\ \A j \in i .. k - 1 : x.opened[j] >= l
  BY DEF IfAt
<1>6. \A j \in i .. (k + 1) - 1 : x.opened[j] >= l
  BY <1>4, <1>5
<1>7. \E j \in i + 1 .. (k + 1) - 1 : x.source[j].op = "else" /\ x.opened[j] = l
  BY <1>3
<1> QED BY <1>3, <1>5, <1>6, <1>7 DEF IfAt

LEMMA IfAtNew ==
  ASSUME NEW x, NEW n, NEW k, NEW l, NEW turned,
         Sourced(x, n, k), turned = FALSE, x.source[k].op = "if", x.opened[k] = l
  PROVE  IfAt(x, k + 1, k, l, turned)
<1>1. k \in Nat \ {0} /\ k \in 0 .. n /\ x.opened[k] \in Nat
  BY OpenedFacts
<1>2. (k + 1) - 1 = k /\ k \in 1 .. k /\ (\A j \in k .. k : j = k) /\ \A j \in k + 1 .. k : FALSE
  BY <1>1
<1>3. l >= l
  BY <1>1
<1>4. \A j \in k .. (k + 1) - 1 : x.opened[j] >= l
  BY <1>2, <1>3
<1>5. ~ \E j \in k + 1 .. (k + 1) - 1 : x.source[j].op = "else" /\ x.opened[j] = l
  BY <1>2
<1>6. k \in 1 .. (k + 1) - 1
  BY <1>2
<1> QED BY <1>4, <1>5, <1>6 DEF IfAt

(* An item that neither opens, turns nor closes an if.                      *)
LEMMA PendPlain ==
  ASSUME NEW x, NEW n, NEW k, NEW pend,
         Sourced(x, n, k), PendAt(x, k, pend), x.source[k].op \notin {"if", "else", "fi"}
  PROVE  PendAt(x, k + 1, pend)
<1>1. k \in Nat \ {0} /\ k - 1 \in 0 .. n /\ x.opened[k - 1] \in Nat /\ x.opened[k] = x.opened[k - 1] + 0
  BY OpenedFacts
<1>2. pend \in Seq(Ifs) /\ Len(pend) = x.opened[k - 1] /\ Len(pend) = x.opened[k] /\ Len(pend) \in Nat
  BY <1>1 DEF PendAt
<1>3. (k + 1) - 1 = k
  BY <1>1
<1>4. ASSUME NEW q \in 1 .. Len(pend)
      PROVE  IfAt(x, k + 1, pend[q].node, Len(pend) - q + 1, pend[q].inElse)
  <2>1. IfAt(x, k, pend[q].node, Len(pend) - q + 1, pend[q].inElse)
    BY DEF PendAt
  <2>2. x.opened[k] >= Len(pend) - q + 1
    BY <1>2
  <2> QED BY <2>1, <2>2, IfAtNext
<1>5. Len(pend) = x.opened[(k + 1) - 1]
  BY <1>2, <1>3
<1> QED BY <1>2, <1>4, <1>5, Zenon DEF PendAt

LEMMA PendIf ==
  ASSUME NEW x, NEW n, NEW k, NEW pend, NEW open, NEW pend2,
         Sourced(x, n, k), PendAt(x, k, pend), x.source[k].op = "if",
         open \in Ifs, open.node = k, open.inElse = FALSE, pend2 = <<open>> \o pend
  PROVE  PendAt(x, k + 1, pend2)
<1>1. k \in Nat \ {0} /\ k - 1 \in 0 .. n /\ x.opened[k - 1] \in Nat /\ x.opened[k] = x.opened[k - 1] + 1
  BY OpenedFacts
<1>2. pend \in Seq(Ifs) /\ Len(pend) = x.opened[k - 1] /\ Len(pend) \in Nat
  BY <1>1 DEF PendAt
<1>3. (k + 1) - 1 = k
  BY <1>1
<1>4. /\ pend2 \in Seq(Ifs) /\ Len(pend2) = Len(pend) + 1 /\ pend2[1] = open
      /\ \A q \in 1 .. Len(pend) : pend2[q + 1] = pend[q]
  BY <1>2
<1>l. Len(pend2) = x.opened[k]
  BY <1>1, <1>2, <1>4
<1>5. ASSUME NEW q \in 1 .. Len(pend2)
      PROVE  IfAt(x, k + 1, pend2[q].node, Len(pend2) - q + 1, pend2[q].inElse)
  <2>1. CASE q = 1
    <3>1. Len(pend2) - q + 1 = x.opened[k]
      BY <2>1, <1>l, <1>2, <1>4
    <3>2. IfAt(x, k + 1, k, x.opened[k], open.inElse)
      BY IfAtNew
    <3> QED BY <3>1, <3>2, <2>1, <1>4
  <2>2. CASE q # 1
    <3>1. PICK r \in 1 .. Len(pend) : q = r + 1
      <4>1. q - 1 \in 1 .. Len(pend) /\ q = q - 1 + 1
        BY <2>2, <1>2, <1>4
      <4> QED BY <4>1
    <3>2. IfAt(x, k, pend[r].node, Len(pend) - r + 1, pend[r].inElse)
      BY DEF PendAt
    <3>3. x.opened[k] >= Len(pend) - r + 1 /\ Len(pend2) - q + 1 = Len(pend) - r + 1
      BY <1>1, <1>2, <1>4, <3>1
    <3>4. IfAt(x, k + 1, pend[r].node, Len(pend) - r + 1, pend[r].inElse)
      BY <3>2, <3>3, IfAtNext
    <3> QED BY <3>1, <3>3, <3>4, <1>4
  <2> QED BY <2>1, <2>2
<1>6. Len(pend2) = x.opened[(k + 1) - 1]
  BY <1>3, <1>l
<1>7. pend2 \in Seq(Ifs)
  BY <1>4
<1> QED BY <1>5, <1>6, <1>7, Zenon DEF PendAt

LEMMA IfSettles ==
  ASSUME NEW x, NEW n, NEW i,
         Sourced(x, n, i), program[i].op = "if"
  PROVE  /\ x.behind[i] = Settle[Closing(i) + 1] /\ Settle[Closing(i)] = x.behind[i]
         /\ Elses(i) = {} => x.other[i] = x.behind[i]
         /\ \A j : Elses(i) = {j} => x.other[i] = Settle[j + 1]
BY IfFacts DEF Sourced

LEMMA PendSequence ==
  ASSUME NEW pend, NEW m, pend \in Seq(Ifs), m = Len(pend)
  PROVE  /\ m \in Nat
         /\ \A q \in 1 .. m : pend[q] \in Ifs
         /\ m # 0 => /\ Head(pend) = pend[1] /\ Tail(pend) \in Seq(Ifs) /\ Len(Tail(pend)) = m - 1
                     /\ \A q \in 1 .. m - 1 : Tail(pend)[q] = pend[q + 1]
OBVIOUS

Replaced(pend, h, pend2) == h \in Ifs /\ pend2 = <<h>> \o Tail(pend)

LEMMA PendReplaced ==
  ASSUME NEW pend, NEW m, NEW h, NEW pend2,
         pend \in Seq(Ifs), m = Len(pend), m # 0, Replaced(pend, h, pend2)
  PROVE  /\ pend2 \in Seq(Ifs) /\ Len(pend2) = m /\ pend2[1] = h
         /\ \A q \in 2 .. m : pend2[q] = pend[q]
<1> USE DEF Replaced
<1>1. /\ m \in Nat /\ Tail(pend) \in Seq(Ifs) /\ Len(Tail(pend)) = m - 1
      /\ \A q \in 1 .. m - 1 : Tail(pend)[q] = pend[q + 1]
  BY PendSequence
<1>2. PICK s : s = Tail(pend)
  OBVIOUS
<1>3. /\ s \in Seq(Ifs) /\ Len(s) = m - 1 /\ \A q \in 1 .. m - 1 : s[q] = pend[q + 1]
  BY <1>1, <1>2
<1>4. pend2 = <<h>> \o s
  BY <1>2
<1>5. /\ pend2 \in Seq(Ifs) /\ Len(pend2) = 1 + (m - 1) /\ pend2[1] = h
      /\ \A q \in 1 .. m - 1 : pend2[q + 1] = s[q]
  BY <1>1, <1>3, <1>4
<1>6. ASSUME NEW q \in 2 .. m PROVE pend2[q] = pend[q]
  <2>1. q - 1 \in 1 .. m - 1 /\ (q - 1) + 1 = q
    BY <1>1
  <2>2. pend2[(q - 1) + 1] = s[q - 1] /\ s[q - 1] = pend[(q - 1) + 1]
    BY <2>1, <1>3, <1>5
  <2> QED BY <2>1, <2>2
<1>7. Len(pend2) = m
  BY <1>1, <1>5
<1> QED BY <1>5, <1>6, <1>7

ElseHead(x, k, open, pend2) ==
  /\ ~open.inElse /\ x.other[open.node] = x.settle[k + 1] /\ x.behind[open.node] = x.settle[k]
  /\ PendAt(x, k + 1, pend2)

Turns(pend, open, pend2) ==
  Replaced(pend, open, pend2) /\ open.node = Head(pend).node /\ open.inElse = TRUE

(* The if that the else at k is of has had none.                            *)
LEMMA PendElse ==
  ASSUME NEW x, NEW n, NEW k, NEW pend, NEW open, NEW pend2,
         Sourced(x, n, k), PendAt(x, k, pend), x.source[k].op = "else",
         Turns(pend, open, pend2)
  PROVE  ElseHead(x, k, Head(pend), pend2)
<1>a. Replaced(pend, open, pend2) /\ open.node = Head(pend).node /\ open.inElse = TRUE
  BY DEF Turns
<1>0. /\ k \in Nat \ {0} /\ k - 1 \in 0 .. n /\ x.opened[k - 1] \in Nat /\ x.opened[k] = x.opened[k - 1]
      /\ k \in 0 .. n /\ n \in Nat \ {0}
  <2>1. /\ k \in Nat \ {0} /\ k - 1 \in 0 .. n /\ x.opened[k - 1] \in Nat /\ k \in 0 .. n /\ n \in Nat \ {0}
        /\ x.opened[k] = x.opened[k - 1] + 0
    BY OpenedFacts
  <2> QED BY <2>1
<1>s. /\ WholeSource /\ n = Len(program) /\ x = Context /\ k \in 1 .. n
      /\ x.source = program /\ x.settle = Settle
      /\ \A i \in 0 .. n : x.opened[i] \in Nat /\ x.opened[i] = Opened(i)
  BY OpenedFacts DEF Sourced
<1>1. PICK m : m = Len(pend)
  OBVIOUS
<1>2. pend \in Seq(Ifs) /\ m = x.opened[k - 1] /\ m = x.opened[k] /\ m \in Nat
  BY <1>0, <1>1 DEF PendAt
<1>3. m # 0
  <2>1. Opened(k - 1) # 0
    BY <1>s DEF WholeSource, SourceOK, PlaceOK
  <2> QED BY <2>1, <1>0, <1>s, <1>2
<1>4. PICK i, t : i = Head(pend).node /\ t = Head(pend).inElse
  OBVIOUS
<1>5. Head(pend) = pend[1] /\ 1 \in 1 .. m
  BY <1>1, <1>2, <1>3, PendSequence
<1>6. IfAt(x, k, i, m, t)
  <2>1. IfAt(x, k, pend[1].node, Len(pend) - 1 + 1, pend[1].inElse)
    BY <1>1, <1>5 DEF PendAt
  <2>2. Len(pend) - 1 + 1 = m
    BY <1>1, <1>2
  <2> QED BY <2>1, <2>2, <1>4, <1>5
<1>7. /\ i \in 1 .. k - 1 /\ program[i].op = "if" /\ Opened(i) = m
      /\ \A j \in i .. k - 1 : Opened(j) >= m
      /\ t <=> \E j \in i + 1 .. k - 1 : program[j].op = "else" /\ Opened(j) = m
  <2>1. i \in 1 .. k - 1 /\ i \in 0 .. n
    BY <1>6, <1>0, <1>s DEF IfAt
  <2>2. \A j \in i .. k - 1 : j \in 0 .. n
    BY <2>1, <1>0, <1>s
  <2>3. \A j \in i + 1 .. k - 1 : j \in 0 .. n
    BY <2>1, <1>0, <1>s
  <2>4. /\ x.source[i].op = "if" /\ x.opened[i] = m
        /\ \A j \in i .. k - 1 : x.opened[j] >= m
        /\ t <=> \E j \in i + 1 .. k - 1 : x.source[j].op = "else" /\ x.opened[j] = m
    BY <1>6 DEF IfAt
  <2>5. \A j \in i .. k - 1 : Opened(j) >= m
    BY <2>2, <2>4, <1>s
  <2>6. t <=> \E j \in i + 1 .. k - 1 : program[j].op = "else" /\ Opened(j) = m
    BY <2>3, <2>4, <1>s
  <2> QED BY <2>1, <2>4, <2>5, <2>6, <1>s
<1>8. i \in 1 .. n /\ i \in Nat
  BY <1>7, <1>0, <1>s
<1>9. PICK c : c = Closing(i)
  OBVIOUS
<1>10. /\ c \in i + 1 .. n - 1 /\ Opened(c) = m - 1
  BY <1>s, <1>7, <1>8, <1>9, ClosingFacts
<1>11. k < c
  <2>1. Opened(k) = m
    BY <1>0, <1>s, <1>2
  <2>2. \A j \in i .. k - 1 : Opened(j) >= m
    BY <1>7
  <2>3. ~(c < k)
    <3>1. c < k => c \in i .. k - 1
      BY <1>10, <1>8, <1>0
    <3>2. ~(m - 1 >= m)
      BY <1>2
    <3> QED BY <3>1, <3>2, <2>2, <1>10
  <2>4. c # k
    <3>1. m - 1 # m
      BY <1>2
    <3> QED BY <3>1, <2>1, <1>10
  <2>5. c \in Int /\ k \in Int
    BY <1>10, <1>0
  <2> QED BY <2>3, <2>4, <2>5
<1>12. k \in Elses(i)
  <2>1. k \in i + 1 .. c - 1
    BY <1>7, <1>8, <1>10, <1>11, <1>0
  <2>2. Opened(k) = Opened(i) /\ program[k].op = "else"
    BY <1>7, <1>0, <1>s, <1>2
  <2> QED BY <2>1, <2>2, <1>9 DEF Elses
<1>13. Elses(i) = {k} /\ Closing(k) = Closing(i)
  <2>1. (\A j \in Elses(i) : j = k) /\ Closing(k) = Closing(i)
    BY <1>s, <1>7, <1>8, <1>12, ElsesFacts
  <2> QED BY <2>1, <1>12
<1>14. ~t
  <2> SUFFICES ASSUME t PROVE FALSE
    OBVIOUS
  <2>1. PICK j \in i + 1 .. k - 1 : program[j].op = "else" /\ Opened(j) = m
    BY <1>7
  <2>2. j \in i + 1 .. c - 1
    BY <2>1, <1>8, <1>10, <1>11, <1>0
  <2>3. j \in Elses(i)
    BY <2>1, <2>2, <1>7, <1>9 DEF Elses
  <2>4. j # k
    BY <1>0, <1>8
  <2> QED BY <2>3, <2>4, <1>13
<1>15. x.other[i] = x.settle[k + 1] /\ x.behind[i] = x.settle[k]
  <2>1. x.other[i] = Settle[k + 1] /\ x.behind[i] = Settle[Closing(i) + 1]
    <3>1. Sourced(x, n, i)
      BY <1>s, <1>8 DEF Sourced
    <3>2. program[i].op = "if" /\ Elses(i) = {k}
      BY <1>7, <1>13
    <3> QED BY <3>1, <3>2, IfSettles
  <2>2. Settle[k] = Settle[Closing(k) + 1]
    BY <1>s, SettleFacts
  <2>3. x.settle = Settle /\ Closing(k) = Closing(i)
    BY <1>13, <1>s
  <2>4. x.settle[k + 1] = Settle[k + 1] /\ x.settle[k] = Settle[k]
    BY <2>3
  <2>5. Settle[Closing(k) + 1] = Settle[Closing(i) + 1]
    BY <2>3
  <2>6. x.other[i] = x.settle[k + 1]
    BY <2>1, <2>4
  <2>7. x.behind[i] = x.settle[k]
    BY <2>1, <2>2, <2>4, <2>5
  <2> QED BY <2>6, <2>7
<1>16. /\ pend2 \in Seq(Ifs) /\ Len(pend2) = m /\ pend2[1] = open
       /\ \A q \in 2 .. m : pend2[q] = pend[q]
  <2>1. pend \in Seq(Ifs)
    BY <1>2
  <2> QED BY <1>1, <2>1, <1>3, <1>a, PendReplaced
<1>17. ASSUME NEW q \in 1 .. Len(pend2)
       PROVE  IfAt(x, k + 1, pend2[q].node, Len(pend2) - q + 1, pend2[q].inElse)
  <2>1. CASE q = 1
    <3>1. Len(pend2) - q + 1 = m
      BY <2>1, <1>16, <1>2
    <3>2. x.opened[k] = m /\ x.opened[k] >= m
      BY <1>2
    <3>3. IfAt(x, k + 1, i, m, open.inElse)
      BY <3>2, <1>6, <1>a, IfAtElse
    <3> QED BY <3>1, <3>3, <2>1, <1>4, <1>16, <1>a
  <2>2. CASE q # 1
    <3>1. q \in 1 .. Len(pend) /\ q \in 2 .. m
      BY <2>2, <1>1, <1>2, <1>16
    <3>2. IfAt(x, k, pend[q].node, Len(pend) - q + 1, pend[q].inElse)
      BY <3>1 DEF PendAt
    <3>3. x.opened[k] >= Len(pend) - q + 1 /\ x.opened[k] # Len(pend) - q + 1
      BY <3>1, <1>1, <1>2
    <3>4. IfAt(x, k + 1, pend[q].node, Len(pend) - q + 1, pend[q].inElse)
      BY <3>2, <3>3, IfAtNext
    <3> QED BY <3>1, <3>4, <1>1, <1>16
  <2> QED BY <2>1, <2>2
<1>18. PendAt(x, k + 1, pend2)
  <2>1. (k + 1) - 1 = k
    BY <1>0
  <2>2. Len(pend2) = x.opened[(k + 1) - 1]
    BY <2>1, <1>2, <1>16
  <2>3. pend2 \in Seq(Ifs)
    BY <1>16
  <2> QED BY <2>2, <2>3, <1>17, Zenon DEF PendAt
<1> QED BY <1>4, <1>14, <1>15, <1>18 DEF ElseHead

HeadIs(pend, m, i, t) == m = Len(pend) /\ i = Head(pend).node /\ t = Head(pend).inElse

HeadOK(x, n, k, m, i, t) ==
  /\ IfAt(x, k, i, m, t) /\ i \in 1 .. k - 1 /\ i \in 1 .. n /\ i \in Nat
  /\ program[i].op = "if" /\ Opened(i) = m /\ m \in Nat /\ m = x.opened[k - 1]
  /\ \A j \in i .. k - 1 : Opened(j) >= m
  /\ t <=> \E j \in i + 1 .. k - 1 : program[j].op = "else" /\ Opened(j) = m

LEMMA PendHead ==
  ASSUME NEW x, NEW n, NEW k, NEW pend, NEW m, NEW i, NEW t,
         Sourced(x, n, k), PendAt(x, k, pend), HeadIs(pend, m, i, t), m # 0
  PROVE  HeadOK(x, n, k, m, i, t)
<1>0. k \in Nat \ {0} /\ k - 1 \in 0 .. n /\ x.opened[k - 1] \in Nat /\ k \in 0 .. n /\ n \in Nat \ {0}
  BY OpenedFacts
<1>s. /\ k \in 1 .. n /\ x.source = program
      /\ \A j \in 0 .. n : x.opened[j] \in Nat /\ x.opened[j] = Opened(j)
  BY OpenedFacts
<1>1. pend \in Seq(Ifs) /\ Len(pend) = x.opened[k - 1]
  BY DEF PendAt
<1>2. m \in Nat /\ m = x.opened[k - 1] /\ m = Len(pend)
  BY <1>0, <1>1 DEF HeadIs
<1>5. Head(pend) = pend[1] /\ 1 \in 1 .. Len(pend)
  <2>1. Len(pend) # 0 /\ Len(pend) \in Nat
    BY <1>2
  <2>2. Head(pend) = pend[1]
    BY <2>1, <1>1, PendSequence
  <2> QED BY <2>1, <2>2
<1>6. IfAt(x, k, i, m, t)
  <2>1. IfAt(x, k, pend[1].node, Len(pend) - 1 + 1, pend[1].inElse)
    BY <1>5 DEF PendAt
  <2>2. Len(pend) - 1 + 1 = m
    BY <1>2
  <2>3. i = pend[1].node /\ t = pend[1].inElse
    BY <1>5 DEF HeadIs
  <2> QED BY <2>1, <2>2, <2>3
<1>7. i \in 1 .. k - 1 /\ i \in 0 .. n /\ i \in 1 .. n /\ i \in Nat
  BY <1>6, <1>0, <1>s DEF IfAt
<1>8. \A j \in i .. k - 1 : j \in 0 .. n
  BY <1>7, <1>0, <1>s
<1>9. \A j \in i + 1 .. k - 1 : j \in 0 .. n
  BY <1>7, <1>0, <1>s
<1>10. /\ x.source[i].op = "if" /\ x.opened[i] = m
       /\ \A j \in i .. k - 1 : x.opened[j] >= m
       /\ t <=> \E j \in i + 1 .. k - 1 : x.source[j].op = "else" /\ x.opened[j] = m
  BY <1>6 DEF IfAt
<1>11. \A j \in i .. k - 1 : Opened(j) >= m
  BY <1>8, <1>10, <1>s
<1>12. t <=> \E j \in i + 1 .. k - 1 : program[j].op = "else" /\ Opened(j) = m
  BY <1>9, <1>10, <1>s
<1>13. program[i].op = "if" /\ Opened(i) = m
  BY <1>7, <1>10, <1>s
<1> QED BY <1>2, <1>6, <1>7, <1>11, <1>12, <1>13 DEF HeadOK

FiHead(x, k, open, pend, pend2) ==
  /\ pend \in Seq(Ifs) /\ Len(pend) # 0
  /\ x.behind[open.node] = x.settle[k] /\ (~open.inElse => x.other[open.node] = x.settle[k])
  /\ PendAt(x, k + 1, pend2)

Fiing(pend, open, s) == open = Head(pend) /\ s = Tail(pend)

(* The fi at k is that of the if last opened.                               *)
LEMMA PendFi ==
  ASSUME NEW x, NEW n, NEW k, NEW pend, NEW open, NEW pend2,
         Sourced(x, n, k), PendAt(x, k, pend), x.source[k].op = "fi", Fiing(pend, open, pend2)
  PROVE  FiHead(x, k, open, pend, pend2)
<1>t. pend2 = Tail(pend) /\ open = Head(pend)
  BY DEF Fiing
<1>0. /\ k \in Nat \ {0} /\ k - 1 \in 0 .. n /\ x.opened[k - 1] \in Nat /\ x.opened[k] = x.opened[k - 1] - 1
      /\ k \in 0 .. n /\ n \in Nat \ {0} /\ x.opened[k] \in Nat
  <2>1. /\ k \in Nat \ {0} /\ k - 1 \in 0 .. n /\ x.opened[k - 1] \in Nat /\ k \in 0 .. n /\ n \in Nat \ {0}
        /\ x.opened[k] = x.opened[k - 1] + (-1) /\ x.opened[k] \in Nat
    BY OpenedFacts
  <2> QED BY <2>1
<1>s. /\ WholeSource /\ n = Len(program) /\ k \in 1 .. n
      /\ x.source = program /\ x.settle = Settle
      /\ \A i \in 0 .. n : x.opened[i] \in Nat /\ x.opened[i] = Opened(i)
  BY OpenedFacts DEF Sourced
<1>1. PICK m, i, t : HeadIs(pend, m, i, t)
  BY DEF HeadIs
<1>2. pend \in Seq(Ifs) /\ Len(pend) = x.opened[k - 1] /\ Len(pend) \in Nat /\ Len(pend) # 0
  <2>1. pend \in Seq(Ifs) /\ Len(pend) = x.opened[k - 1]
    BY DEF PendAt
  <2>2. x.opened[k - 1] # 0
    BY <1>0
  <2> QED BY <2>1, <2>2, <1>0
<1>3. m # 0 /\ m = Len(pend)
  BY <1>1, <1>2 DEF HeadIs
<1>m. m # 0
  BY <1>3
<1>4. /\ i \in 1 .. k - 1 /\ i \in 1 .. n /\ i \in Nat
      /\ program[i].op = "if" /\ Opened(i) = m /\ m \in Nat /\ m = x.opened[k - 1]
      /\ \A j \in i .. k - 1 : Opened(j) >= m
      /\ t <=> \E j \in i + 1 .. k - 1 : program[j].op = "else" /\ Opened(j) = m
  <2>1. HeadOK(x, n, k, m, i, t)
    BY <1>1, <1>m, PendHead
  <2> QED BY <2>1 DEF HeadOK
<1>5. Closing(i) = k
  <2>1. k \in i + 1 .. Len(program)
    BY <1>4, <1>s, <1>0
  <2>2. Opened(k) < Opened(i)
    <3>1. Opened(k) = m - 1
      BY <1>4, <1>s, <1>0
    <3> QED BY <3>1, <1>4
  <2>3. \A j \in i + 1 .. k - 1 : Opened(j) >= Opened(i)
    <3>1. \A j \in i + 1 .. k - 1 : j \in i .. k - 1
      BY <1>4, <1>0
    <3> QED BY <3>1, <1>4
  <2> QED BY <2>1, <2>2, <2>3, <1>4, <1>s, ClosingIs
<1>6. ~t => Elses(i) = {}
  <2> SUFFICES ASSUME ~t, NEW j \in Elses(i) PROVE FALSE
    OBVIOUS
  <2>1. j \in i + 1 .. k - 1 /\ program[j].op = "else" /\ Opened(j) = m
    BY <1>4, <1>5 DEF Elses
  <2> QED BY <2>1, <1>4
<1>7. x.behind[i] = Settle[k] /\ (~t => x.other[i] = Settle[k])
  <2>1. Sourced(x, n, i)
    BY <1>4 DEF Sourced
  <2>2. Settle[Closing(i)] = x.behind[i] /\ (Elses(i) = {} => x.other[i] = x.behind[i])
    BY <2>1, <1>4, IfSettles
  <2> QED BY <2>2, <1>5, <1>6
<1>8. x.settle[k] = Settle[k]
  BY <1>s
<1>9. /\ pend2 \in Seq(Ifs) /\ Len(pend2) = m - 1
      /\ \A q \in 1 .. m - 1 : pend2[q] = pend[q + 1]
  <2>1. /\ Tail(pend) \in Seq(Ifs) /\ Len(Tail(pend)) = Len(pend) - 1
        /\ \A q \in 1 .. Len(pend) - 1 : Tail(pend)[q] = pend[q + 1]
    BY <1>2, PendSequence
  <2> QED BY <2>1, <1>3, <1>t
<1>10. ASSUME NEW q \in 1 .. Len(pend2)
       PROVE  IfAt(x, k + 1, pend2[q].node, Len(pend2) - q + 1, pend2[q].inElse)
  <2>1. q \in 1 .. m - 1 /\ q + 1 \in 1 .. Len(pend) /\ m \in Nat
    BY <1>3, <1>4, <1>9
  <2>2. IfAt(x, k, pend[q + 1].node, Len(pend) - (q + 1) + 1, pend[q + 1].inElse)
    BY <2>1 DEF PendAt
  <2>3. Len(pend) - (q + 1) + 1 = Len(pend2) - q + 1
    BY <2>1, <1>3, <1>9
  <2>4. x.opened[k] >= Len(pend2) - q + 1
    <3>1. x.opened[k] = m - 1
      BY <1>0, <1>4
    <3> QED BY <3>1, <2>1, <1>9
  <2>5. IfAt(x, k, pend2[q].node, Len(pend2) - q + 1, pend2[q].inElse)
    BY <2>1, <2>2, <2>3, <1>9
  <2>6. x.source[k].op # "else"
    OBVIOUS
  <2> QED BY <2>4, <2>5, <2>6, IfAtNext
<1>11. PendAt(x, k + 1, pend2)
  <2>1. (k + 1) - 1 = k
    BY <1>0
  <2>2. Len(pend2) = x.opened[(k + 1) - 1]
    BY <2>1, <1>0, <1>4, <1>9
  <2>3. pend2 \in Seq(Ifs)
    BY <1>9
  <2> QED BY <2>2, <2>3, <1>10, Zenon DEF PendAt
<1>12. i = open.node /\ t = open.inElse
  BY <1>1, <1>t DEF HeadIs
<1> QED BY <1>2, <1>7, <1>8, <1>11, <1>12 DEF FiHead

(* At the ends of functions and between them no if is under way.            *)
LEMMA PendEnd ==
  ASSUME NEW x, NEW n, NEW k, NEW pend,
         Sourced(x, n, k), PendAt(x, k, pend), x.source[k].op \in {"function", "end"}
  PROVE  pend = <<>> /\ PendAt(x, k + 1, pend)
<1>1. /\ WholeSource /\ n = Len(program) /\ k \in 1 .. n /\ k - 1 \in 0 .. n
      /\ x.source = program /\ \A i \in 0 .. n : x.opened[i] = Opened(i)
  BY OpenedFacts DEF Sourced
<1>2. Opened(k - 1) = 0
  BY <1>1 DEF WholeSource, SourceOK, PlaceOK
<1>3. pend \in Seq(Ifs) /\ Len(pend) = 0
  BY <1>1, <1>2 DEF PendAt
<1>4. x.source[k].op \notin {"if", "else", "fi"}
  OBVIOUS
<1> QED BY <1>3, <1>4, PendPlain

LEMMA OpenedBound == \A k \in Nat : Opened(k) <= k
<1> DEFINE T == {k \in Nat : Opened(k) <= k}
<1>1. 0 \in T
  BY OpenedStep
<1>2. ASSUME NEW k \in Nat, k \in T PROVE k + 1 \in T
  <2>1. Opened(k) \in Int /\ Opened(k) <= k
    BY <1>2, OpenedStep
  <2>2. Opened(k + 1) = Opened(k) + (IF program[k + 1].op = "if" THEN 1
                                     ELSE IF program[k + 1].op = "fi" THEN -1
                                     ELSE 0)
    BY OpenedStep
  <2>3. Opened(k + 1) <= k + 1
    BY <2>1, <2>2
  <2> QED BY <2>3
<1> HIDE DEF T
<1>3. Nat \subseteq T
  BY <1>1, <1>2, NaturalInduction
<1> QED BY <1>3 DEF T

LEMMA PendBounded ==
  ASSUME NEW x, NEW n, NEW k, NEW pend,
         Sourced(x, n, k), PendAt(x, k, pend)
  PROVE  Len(pend) < k
<1>1. k \in Nat \ {0} /\ k - 1 \in 0 .. n /\ x.opened[k - 1] = Opened(k - 1) /\ x.opened[k - 1] \in Nat
  BY OpenedFacts
<1>2. Opened(k - 1) <= k - 1
  <2>1. k - 1 \in Nat
    BY <1>1
  <2> QED BY <2>1, OpenedBound
<1>3. Len(pend) = x.opened[k - 1]
  BY DEF PendAt
<1> QED BY <1>1, <1>2, <1>3

-----------------------------------------------------------------------------
(* The blocks that wait *)

WaitsFor(open) == IF open.inElse THEN {open.merge} ELSE {open.merge, open.else}

(* pend2 is the if `open' on top of pend.                                   *)
OnTop(open, pend, pend2) == open \in Ifs /\ pend \in Seq(Ifs) /\ pend2 = <<open>> \o pend

LEMMA OnTopFacts ==
  ASSUME NEW open, NEW pend, NEW pend2,
         OnTop(open, pend, pend2)
  PROVE  /\ pend2 \in Seq(Ifs) /\ Len(pend2) = Len(pend) + 1 /\ Len(pend) \in Nat /\ pend2[1] = open
         /\ \A q \in 1 .. Len(pend) : pend2[q + 1] = pend[q]
         /\ \A q \in 1 .. Len(pend2) : q = 1 \/ (q # 1 /\ q - 1 \in 1 .. Len(pend) /\ pend2[q] = pend[q - 1])
<1>1. /\ pend2 \in Seq(Ifs) /\ Len(pend2) = Len(pend) + 1 /\ Len(pend) \in Nat /\ pend2[1] = open
      /\ \A q \in 1 .. Len(pend) : pend2[q + 1] = pend[q]
  BY DEF OnTop
<1>2. ASSUME NEW q \in 1 .. Len(pend2), q # 1
      PROVE  q - 1 \in 1 .. Len(pend) /\ pend2[q] = pend[q - 1]
  <2>1. q - 1 \in 1 .. Len(pend) /\ (q - 1) + 1 = q
    BY <1>1, <1>2
  <2>2. pend2[(q - 1) + 1] = pend[q - 1]
    BY <2>1, <1>1
  <2> QED BY <2>1, <2>2
<1> QED BY <1>1, <1>2

LEMMA WaitingOnTop ==
  ASSUME NEW open, NEW pend, NEW pend2,
         OnTop(open, pend, pend2)
  PROVE  Waiting(pend2) = WaitsFor(open) \cup Waiting(pend)
<1>1. /\ Len(pend2) = Len(pend) + 1 /\ Len(pend) \in Nat /\ pend2[1] = open
      /\ \A q \in 1 .. Len(pend) : pend2[q + 1] = pend[q]
      /\ \A q \in 1 .. Len(pend2) : q = 1 \/ (q # 1 /\ q - 1 \in 1 .. Len(pend) /\ pend2[q] = pend[q - 1])
  BY OnTopFacts
<1>2. 1 \in 1 .. Len(pend2) /\ \A q \in 1 .. Len(pend) : q + 1 \in 1 .. Len(pend2)
  BY <1>1
<1>3. ASSUME NEW w \in Waiting(pend2) PROVE w \in WaitsFor(open) \cup Waiting(pend)
  <2>1. CASE \E q \in 1 .. Len(pend2) : w = pend2[q].merge
    BY <2>1, <1>1 DEF WaitsFor, Waiting
  <2>2. CASE \E q \in 1 .. Len(pend2) : ~pend2[q].inElse /\ w = pend2[q].else
    BY <2>2, <1>1 DEF WaitsFor, Waiting
  <2> QED BY <2>1, <2>2 DEF Waiting
<1>4. ASSUME NEW w \in WaitsFor(open) PROVE w \in Waiting(pend2)
  <2>1. w = open.merge \/ (~open.inElse /\ w = open.else)
    BY DEF WaitsFor
  <2> QED BY <2>1, <1>1, <1>2 DEF Waiting
<1>5. ASSUME NEW w \in Waiting(pend) PROVE w \in Waiting(pend2)
  <2>1. PICK q \in 1 .. Len(pend) : w = pend[q].merge \/ (~pend[q].inElse /\ w = pend[q].else)
    BY DEF Waiting
  <2>2. q + 1 \in 1 .. Len(pend2) /\ (w = pend2[q + 1].merge \/ (~pend2[q + 1].inElse /\ w = pend2[q + 1].else))
    BY <2>1, <1>1, <1>2
  <2> QED BY <2>2 DEF Waiting
<1> QED BY <1>3, <1>4, <1>5

LEMMA OnTopOK ==
  ASSUME NEW x, NEW bs, NEW role, NEW ins, NEW open, NEW pend, NEW pend2,
         OnTop(open, pend, pend2), PendOK(x, bs, role, ins, pend), OpenOK(x, bs, role, ins, open),
         \A q \in 1 .. Len(pend) : pend[q].merge < open.else
  PROVE  PendOK(x, bs, role, ins, pend2)
<1>1. /\ Len(pend2) = Len(pend) + 1 /\ Len(pend) \in Nat /\ pend2[1] = open
      /\ \A q \in 1 .. Len(pend2) : q = 1 \/ (q # 1 /\ q - 1 \in 1 .. Len(pend) /\ pend2[q] = pend[q - 1])
  BY OnTopFacts
<1>2. ASSUME NEW q \in 1 .. Len(pend2) PROVE OpenOK(x, bs, role, ins, pend2[q])
  BY <1>1 DEF PendOK
<1>3. ASSUME NEW q \in 1 .. Len(pend2), NEW r \in 1 .. Len(pend2), q < r
      PROVE  pend2[r].merge < pend2[q].else
  <2>1. r # 1 /\ r - 1 \in 1 .. Len(pend) /\ pend2[r] = pend[r - 1]
    <3>1. r # 1
      BY <1>3, <1>1
    <3> QED BY <3>1, <1>1
  <2>2. CASE q = 1
    BY <2>1, <2>2, <1>1
  <2>3. CASE q # 1
    <3>1. q - 1 \in 1 .. Len(pend) /\ pend2[q] = pend[q - 1]
      BY <2>3, <1>1
    <3>2. q - 1 < r - 1
      BY <1>3, <1>1
    <3> QED BY <2>1, <3>1, <3>2 DEF PendOK
  <2> QED BY <2>2, <2>3
<1> QED BY <1>2, <1>3 DEF PendOK

(* The other way round.                                                     *)
LEMMA OnTopWas ==
  ASSUME NEW x, NEW bs, NEW role, NEW ins, NEW open, NEW pend, NEW pend2,
         OnTop(open, pend, pend2), PendOK(x, bs, role, ins, pend2), Len(bs) \in Nat
  PROVE  /\ PendOK(x, bs, role, ins, pend) /\ OpenOK(x, bs, role, ins, open)
         /\ \A q \in 1 .. Len(pend) : pend[q].merge < open.else
         /\ \A w \in Waiting(pend) : w < open.else /\ w # open.else /\ w # open.merge
<1>1. /\ Len(pend2) = Len(pend) + 1 /\ Len(pend) \in Nat /\ pend2[1] = open
      /\ \A q \in 1 .. Len(pend) : pend2[q + 1] = pend[q]
  BY OnTopFacts
<1>2. 1 \in 1 .. Len(pend2) /\ \A q \in 1 .. Len(pend) : q + 1 \in 1 .. Len(pend2) /\ 1 < q + 1
  BY <1>1
<1>3. \A q \in 1 .. Len(pend) : OpenOK(x, bs, role, ins, pend[q])
  BY <1>1, <1>2 DEF PendOK
<1>4. ASSUME NEW q \in 1 .. Len(pend), NEW r \in 1 .. Len(pend), q < r
      PROVE  pend[r].merge < pend[q].else
  <2>1. q + 1 < r + 1
    BY <1>4, <1>1
  <2>2. pend2[r + 1].merge < pend2[q + 1].else
    BY <2>1, <1>2 DEF PendOK
  <2> QED BY <2>2, <1>1
<1>5. OpenOK(x, bs, role, ins, open)
  BY <1>1, <1>2 DEF PendOK
<1>6. \A q \in 1 .. Len(pend) : pend[q].merge < open.else
  BY <1>1, <1>2 DEF PendOK
<1>7. ASSUME NEW w \in Waiting(pend) PROVE w < open.else /\ w # open.else /\ w # open.merge
  <2>1. PICK q \in 1 .. Len(pend) : w = pend[q].merge \/ w = pend[q].else
    BY DEF Waiting
  <2>2. pend[q].merge \in Nat /\ pend[q].else \in Nat /\ pend[q].else < pend[q].merge
    <3>1. pend[q].else \in 1 .. Len(bs) /\ pend[q].merge \in 1 .. Len(bs) /\ pend[q].else < pend[q].merge
      BY <1>3 DEF OpenOK
    <3> QED BY <3>1
  <2>3. open.merge \in Nat /\ open.else \in Nat /\ open.else < open.merge
    <3>1. open.else \in 1 .. Len(bs) /\ open.merge \in 1 .. Len(bs) /\ open.else < open.merge
      BY <1>5 DEF OpenOK
    <3> QED BY <3>1
  <2>4. pend[q].merge < open.else
    BY <1>6
  <2> QED BY <2>1, <2>2, <2>3, <2>4
<1>8. PendOK(x, bs, role, ins, pend)
  BY <1>3, <1>4 DEF PendOK
<1> QED BY <1>5, <1>6, <1>7, <1>8

(* Who waits when a branch is put somewhere.                                *)
LEMMA WaitingElse ==
  ASSUME NEW open, NEW open2, NEW s, NEW pend, NEW pend2, NEW W2,
         OnTop(open, s, pend), OnTop(open2, s, pend2), ~open.inElse, open2.inElse,
         open2.merge = open.merge, \A w \in Waiting(s) : w # open.else, open.merge # open.else,
         W2 = Waiting(pend2)
  PROVE  /\ Without(W2, Waiting(pend), open.else)
         /\ open.else \in Waiting(pend) /\ open.merge \in Waiting(pend)
<1>1. Waiting(pend) = WaitsFor(open) \cup Waiting(s) /\ Waiting(pend2) = WaitsFor(open2) \cup Waiting(s)
  BY WaitingOnTop
<1>2. WaitsFor(open) = {open.merge, open.else} /\ WaitsFor(open2) = {open.merge}
  BY DEF WaitsFor
<1> QED BY <1>1, <1>2 DEF Without

LEMMA WaitingFi ==
  ASSUME NEW open, NEW s, NEW pend, NEW W1,
         OnTop(open, s, pend), \A w \in Waiting(s) : w # open.else /\ w # open.merge, open.merge # open.else
  PROVE  /\ open.merge \in Waiting(pend)
         /\ open.inElse => Without(Waiting(s), Waiting(pend), open.merge)
         /\ ~open.inElse => /\ open.else \in Waiting(pend)
                            /\ Without(W1, Waiting(pend), open.else) =>
                                 open.merge \in W1 /\ Without(Waiting(s), W1, open.merge)
<1>1. Waiting(pend) = WaitsFor(open) \cup Waiting(s)
  BY WaitingOnTop
<1>2. WaitsFor(open) = IF open.inElse THEN {open.merge} ELSE {open.merge, open.else}
  BY DEF WaitsFor
<1> QED BY <1>1, <1>2 DEF Without

LEMMA WaitingIf ==
  ASSUME NEW open, NEW s, NEW pend, NEW n,
         OnTop(open, s, pend), ~open.inElse, open.else = n + 2, open.merge = n + 3
  PROVE  WithTwo(Waiting(pend), Waiting(s), n)
<1>1. Waiting(pend) = WaitsFor(open) \cup Waiting(s)
  BY WaitingOnTop
<1>2. WaitsFor(open) = {open.merge, open.else}
  BY DEF WaitsFor
<1> QED BY <1>1, <1>2 DEF WithTwo

LEMMA NothingWaits == Waiting(<<>>) = {}
BY DEF Waiting

(* A list of ifs by its first.                                              *)
LEMMA HeadOnTop ==
  ASSUME NEW pend, pend \in Seq(Ifs), Len(pend) # 0
  PROVE  OnTop(Head(pend), Tail(pend), pend)
<1>1. Head(pend) = pend[1] /\ Tail(pend) \in Seq(Ifs) /\ pend[1] \in Ifs
  BY PendSequence
<1>2. pend = <<Head(pend)>> \o Tail(pend)
  OBVIOUS
<1> QED BY <1>1, <1>2 DEF OnTop

-----------------------------------------------------------------------------
(* The visits of statements *)

LEMMA CoreBump ==
  ASSUME NEW x, NEW bs, NEW role, NEW ins, NEW W, NEW j, NEW named,
         Core(x, bs, role, ins, W, j, named), j \in Nat, x.source[j + 1].op # "function"
  PROVE  Core(x, bs, role, ins, W, j + 1, named)
<1>1. \A f \in 1 .. j + 1 : f \in 1 .. j \/ f = j + 1
  OBVIOUS
<1>2. \A f \in 1 .. j : f \in 1 .. j + 1
  OBVIOUS
<1>3. \A c \in 1 .. Len(bs) : BlockOK(x, bs, role, ins, j + 1, c)
  <2> SUFFICES ASSUME NEW c \in 1 .. Len(bs) PROVE BlockOK(x, bs, role, ins, j + 1, c)
    OBVIOUS
  <2>1. BlockOK(x, bs, role, ins, j, c)
    BY DEF Core
  <2> QED BY <2>1, <1>2 DEF BlockOK
<1>4. \A f \in 1 .. j + 1 : x.source[f].op = "function" => \E e \in 1 .. Len(bs) : EntryOK(x, bs, role, ins, f, e)
  <2>1. \A f \in 1 .. j : x.source[f].op = "function" => \E e \in 1 .. Len(bs) : EntryOK(x, bs, role, ins, f, e)
    BY DEF Core
  <2> QED BY <2>1, <1>1
<1> QED BY <1>3, <1>4 DEF Core

(* The visit of the item at k builds with b, once its label is dealt with.  *)
AtItem(x, n, k, b, role, named2) ==
  /\ Visiting(x, n, k) /\ x.settle[k] = k /\ b.broken = FALSE
  /\ Mid(x, b, role, Waiting(pending), k - 1, named2, k, k, pending) /\ PendAt(x, k, pending)

(* It leaves e, with which the visit of the next item begins.               *)
Leading(x, k, e, named2, pend2) ==
  /\ e.broken = FALSE /\ PendAt(x, k + 1, pend2)
  /\ \E role : InAt(x, k + 1, e.blocks, e.insert, named2, pend2, role)

AfterWith(x, k, b, e, role, named2, pend2) ==
  /\ After(x, b, e, role, Waiting(pend2), k - 1, named2, k, pend2)
  /\ Par(b.blocks, b.insert) = x.within[k]
  /\ Ready(x, e.blocks, role, e.insert, x.settle[k + 1])

LEMMA AfterIn ==
  ASSUME NEW x, NEW n, NEW k, NEW b, NEW e, NEW role, NEW named2, NEW pend2,
         Visiting(x, n, k), AfterWith(x, k, b, e, role, named2, pend2), x.source[k].op # "end"
  PROVE  InAt(x, k + 1, e.blocks, e.insert, named2, pend2, role)
<1>1. k \in Nat /\ k \in 1 .. n /\ ItemAt(x, n, k) /\ x.source[k].op # "function"
  BY VisitingFacts DEF Visiting
<1>2. PICK j \in Nat : k = j + 1
  <2>1. k - 1 \in Nat /\ k = (k - 1) + 1
    BY <1>1
  <2> QED BY <2>1
<1>3. k - 1 = j /\ (k + 1) - 1 = k
  BY <1>2
<1>w. PICK W : W = Waiting(pend2)
  OBVIOUS
<1>4. After(x, b, e, role, W, j, named2, k, pend2)
  BY <1>3, <1>w DEF AfterWith
<1>5. /\ e \in Builders /\ Core(x, e.blocks, role, e.insert, W, j, named2)
      /\ Par(e.blocks, e.insert) = Par(b.blocks, b.insert)
      /\ NamedOK(x, e.blocks, role, W, k, named2) /\ PendOK(x, e.blocks, role, e.insert, pend2)
  BY <1>4 DEF After
<1>6. Core(x, e.blocks, role, e.insert, W, j + 1, named2)
  <2>1. x.source[j + 1].op # "function"
    BY <1>1, <1>2
  <2> QED BY <2>1, <1>5, CoreBump
<1>7. x.within[k + 1] = x.within[k]
  BY <1>1 DEF ItemAt
<1>8. e.insert \in 1 .. Len(e.blocks) /\ Par(e.blocks, e.insert) = x.within[k + 1]
  <2>1. e.insert \in 1 .. Len(e.blocks)
    BY <1>5, BuilderFacts
  <2> QED BY <2>1, <1>5, <1>7 DEF AfterWith
<1>9. Ready(x, e.blocks, role, e.insert, x.settle[k + 1])
  BY DEF AfterWith
<1>10. Core(x, e.blocks, role, e.insert, Waiting(pend2), (k + 1) - 1, named2)
  BY <1>2, <1>3, <1>6, <1>w
<1>11. NamedOK(x, e.blocks, role, Waiting(pend2), (k + 1) - 1, named2)
  BY <1>3, <1>5, <1>w
<1> QED BY <1>5, <1>8, <1>9, <1>10, <1>11 DEF InAt

LEMMA AtItemFacts ==
  ASSUME NEW x, NEW n, NEW k, NEW b, NEW role, NEW named2, NEW W, NEW D,
         AtItem(x, n, k, b, role, named2), W = Waiting(pending), D = k - 1
  PROVE  /\ Visiting(x, n, k) /\ b.broken = FALSE /\ PendAt(x, k, pending)
         /\ Mid(x, b, role, W, D, named2, k, k, pending)
         /\ Building(x, b, role, W, D, named2, k) /\ NamedOK(x, b.blocks, role, W, k, named2)
         /\ b \in Builders /\ b.insert \in 1 .. Len(b.blocks) /\ Par(b.blocks, b.insert) = x.within[k]
         /\ k \in DOMAIN x.source /\ x.source = program /\ ItemOK(x.source[k]) /\ k \in Nat /\ k \in 1 .. n
         /\ Sourced(x, n, k) /\ D \in Nat
<1>1. Visiting(x, n, k) /\ b.broken = FALSE /\ PendAt(x, k, pending) /\ Mid(x, b, role, W, D, named2, k, k, pending)
  BY DEF AtItem
<1>2. Building(x, b, role, W, D, named2, k) /\ NamedOK(x, b.blocks, role, W, k, named2)
  BY <1>1 DEF Mid
<1>3. b \in Builders /\ b.insert \in 1 .. Len(b.blocks) /\ Par(b.blocks, b.insert) = x.within[k] /\ k \in DOMAIN x.source
      /\ D \in Nat
  BY <1>2, BuildingFacts
<1>4. x.source = program /\ ItemOK(x.source[k]) /\ k \in Nat /\ k \in 1 .. n
  BY <1>1, VisitingFacts DEF ItemAt
<1>5. Sourced(x, n, k)
  BY <1>1 DEF Visiting, Sourced
<1> QED BY <1>1, <1>2, <1>3, <1>4, <1>5

StoreOf(item) == [op |-> "store", name |-> item.name, value |-> item.value]

LEMMA StoreStep ==
  ASSUME NEW x, NEW n, NEW k, NEW b, NEW role, NEW named2, NEW e,
         AtItem(x, n, k, b, role, named2), x.source[k].op = "assign", e = Emit(b, StoreOf(x.source[k]))
  PROVE  Leading(x, k, e, named2, pending)
<1>w. PICK W, D : W = Waiting(pending) /\ D = k - 1
  OBVIOUS
<1>1. /\ Visiting(x, n, k) /\ b.broken = FALSE /\ PendAt(x, k, pending)
      /\ Mid(x, b, role, W, D, named2, k, k, pending)
      /\ Building(x, b, role, W, D, named2, k)
      /\ b \in Builders /\ b.insert \in 1 .. Len(b.blocks) /\ Par(b.blocks, b.insert) = x.within[k]
      /\ k \in DOMAIN x.source /\ ItemOK(x.source[k]) /\ Sourced(x, n, k)
  BY <1>w, AtItemFacts
<1>2. PICK y, m : y = StoreOf(x.source[k]) /\ m = Long(b.blocks, b.insert)
  OBVIOUS
<1>3. y.op = "store" /\ y.name = x.source[k].name /\ y.value = x.source[k].value /\ y \in Instructions
  BY <1>1, <1>2 DEF StoreOf, ItemOK, Instructions
<1>4. Staying(b, y, m, e)
  BY <1>2, <1>3 DEF Staying
<1>5. Emitted(b, k, y, m, e)
  BY <1>1, <1>4, StayEmits
<1>6. InstrOK(x, e.blocks, role, named2, b.insert, m + 1)
  BY <1>1, <1>3, <1>5 DEF InstrOK, Emitted
<1>7. TargetOK(x, e.blocks, b.insert, W, named2, b.insert, m + 1)
  <2>1. Targets(Does(e.blocks, b.insert, m + 1)) = {}
    BY <1>3, <1>5 DEF Emitted, Targets
  <2> QED BY <2>1 DEF TargetOK
<1>8. After(x, b, e, role, W, D, named2, k, pending) /\ Stayed(x, b, role, W, D, named2, k, y, m, e)
  BY <1>1, <1>4, <1>6, <1>7, StayAfter
<1>9. Ready(x, e.blocks, role, e.insert, x.settle[k + 1])
  <2>1. Long(e.blocks, e.insert) = m + 1 /\ Does(e.blocks, e.insert, m + 1) = y /\ Of(e.blocks, e.insert, m + 1) = k
    BY <1>8 DEF Stayed
  <2>2. m + 1 # 0
    BY <1>5 DEF Emitted
  <2> QED BY <2>1, <2>2, <1>3 DEF Ready
<1>10. AfterWith(x, k, b, e, role, named2, pending)
  BY <1>1, <1>8, <1>9, <1>w DEF AfterWith
<1>11. InAt(x, k + 1, e.blocks, e.insert, named2, pending, role)
  BY <1>1, <1>10, AfterIn
<1>12. PendAt(x, k + 1, pending)
  BY <1>1, PendPlain
<1>13. e.broken = FALSE
  BY <1>1, <1>8 DEF After
<1> QED BY <1>11, <1>12, <1>13 DEF Leading

LEMMA EmitKept ==
  ASSUME NEW x, NEW b, NEW role, NEW W, NEW D, NEW named, NEW p, NEW y, NEW m, NEW e,
         Building(x, b, role, W, D, named, p), Staying(b, y, m, e)
  PROVE  /\ Kept(b.blocks, role, named, e.blocks, role, named)
         /\ b.blocks \in Seq(Blocks) /\ e.blocks \in Seq(Blocks)
<1>1. b \in Builders /\ p \in Nat /\ p = Settle[pc]
  BY DEF Building
<1>2. y \in Instructions /\ e = Emit(b, y)
  BY DEF Staying
<1>3. e \in Builders /\ Len(e.blocks) = Len(b.blocks) /\ Extended(b.blocks, b.insert, b.insert, y, p, e.blocks)
  BY <1>1, <1>2, EmitExtends
<1>4. b.blocks \in Seq(Blocks) /\ e.blocks \in Seq(Blocks) /\ b.insert \in 1 .. Len(b.blocks)
      /\ b.insert \in 1 .. Len(e.blocks)
  BY <1>1, <1>3, BuilderFacts
<1>5. RolesKept(b.blocks, role, role) /\ NamesKept(named, named)
  BY DEF RolesKept, NamesKept
<1> QED BY <1>3, <1>4, <1>5, ExtendedKept

ItemFacts(x, n, k, b, role, named2, W, D) ==
  /\ W = Waiting(pending) /\ D = k - 1
  /\ Visiting(x, n, k) /\ b.broken = FALSE /\ PendAt(x, k, pending)
  /\ Mid(x, b, role, W, D, named2, k, k, pending)
  /\ Building(x, b, role, W, D, named2, k) /\ NamedOK(x, b.blocks, role, W, k, named2)
  /\ b \in Builders /\ b.insert \in 1 .. Len(b.blocks) /\ Par(b.blocks, b.insert) = x.within[k]
  /\ k \in DOMAIN x.source /\ x.source = program /\ ItemOK(x.source[k]) /\ k \in Nat /\ k \in 1 .. n
  /\ Sourced(x, n, k) /\ D \in Nat

LEMMA AtItemHas ==
  ASSUME NEW x, NEW n, NEW k, NEW b, NEW role, NEW named2,
         AtItem(x, n, k, b, role, named2)
  PROVE  \E W, D : ItemFacts(x, n, k, b, role, named2, W, D)
<1>1. PICK W, D : W = Waiting(pending) /\ D = k - 1
  OBVIOUS
<1>2. Visiting(x, n, k) /\ b.broken = FALSE /\ PendAt(x, k, pending) /\ Mid(x, b, role, W, D, named2, k, k, pending)
  BY <1>1 DEF AtItem
<1>3. Building(x, b, role, W, D, named2, k) /\ NamedOK(x, b.blocks, role, W, k, named2)
  BY <1>2 DEF Mid
<1>4. b \in Builders /\ b.insert \in 1 .. Len(b.blocks) /\ Par(b.blocks, b.insert) = x.within[k] /\ k \in DOMAIN x.source
      /\ D \in Nat
  BY <1>3, BuildingFacts
<1>5. x.source = program /\ ItemOK(x.source[k]) /\ k \in Nat /\ k \in 1 .. n
  BY <1>2, VisitingFacts DEF ItemAt
<1>6. Sourced(x, n, k)
  BY <1>2 DEF Visiting, Sourced
<1> QED BY <1>1, <1>2, <1>3, <1>4, <1>5, <1>6 DEF ItemFacts

RetOf(on) == [op |-> "ret", value |-> on]

Returning(x, k, b, r, e) ==
  x.source[k].op = "return" /\ r = Visit(b, x.source[k].value) /\ e = Emit(r, RetOf(r.last))

LEMMA RetStep ==
  ASSUME NEW x, NEW n, NEW k, NEW b, NEW role, NEW named2, NEW r, NEW e,
         AtItem(x, n, k, b, role, named2), Returning(x, k, b, r, e)
  PROVE  Leading(x, k, e, named2, pending)
<1>w. PICK W, D : ItemFacts(x, n, k, b, role, named2, W, D)
  BY AtItemHas
<1>1. /\ Visiting(x, n, k) /\ b.broken = FALSE /\ PendAt(x, k, pending)
      /\ Mid(x, b, role, W, D, named2, k, k, pending)
      /\ Par(b.blocks, b.insert) = x.within[k]
      /\ ItemOK(x.source[k]) /\ Sourced(x, n, k)
  BY <1>w DEF ItemFacts
<1>v. PICK v : v = x.source[k].value
  OBVIOUS
<1>o. x.source[k].op = "return"
  BY DEF Returning
<1>2. v \in Expressions /\ r = Visit(b, v)
  <2>1. v \in Expressions
    BY <1>1, <1>v, <1>o, BlocksAssumption DEF ItemOK
  <2> QED BY <2>1, <1>v DEF Returning
<1>3. PICK role2 : /\ Mid(x, r, role2, W, D, named2, k, k, pending)
                   /\ Knows(r.blocks, role2, r.insert, Long(r.blocks, r.insert) + 1, r.last, v)
  BY <1>1, <1>2, VisitMid
<1>4. r.last \in Operands /\ r.broken = b.broken /\ Par(r.blocks, r.insert) = Par(b.blocks, b.insert)
  BY <1>1, <1>2, VisitMid
<1>5. Building(x, r, role2, W, D, named2, k)
  BY <1>3 DEF Mid
<1>6. PICK y, m : y = RetOf(r.last) /\ m = Long(r.blocks, r.insert)
  OBVIOUS
<1>7. y.op = "ret" /\ y.value = r.last /\ y \in Instructions
  BY <1>4, <1>6 DEF RetOf, Instructions
<1>8. Staying(r, y, m, e)
  BY <1>6, <1>7 DEF Staying, Returning
<1>9. Emitted(r, k, y, m, e)
  BY <1>5, <1>8, StayEmits
<1>k. Knows(e.blocks, role2, r.insert, m + 1, r.last, v)
  <2>1. Kept(r.blocks, role2, named2, e.blocks, role2, named2) /\ r.blocks \in Seq(Blocks) /\ e.blocks \in Seq(Blocks)
    BY <1>5, <1>8, EmitKept
  <2>2. r.insert \in 1 .. Len(r.blocks) /\ m \in Nat
    BY <1>5, <1>6, BuildingFacts
  <2>3. m + 1 \in 1 .. Long(r.blocks, r.insert) + 1
    BY <1>6, <2>2
  <2>4. Knows(r.blocks, role2, r.insert, m + 1, r.last, v)
    BY <1>3, <1>6
  <2> QED BY <2>1, <2>2, <2>3, <2>4, KnowsKept
<1>10. InstrOK(x, e.blocks, role2, named2, r.insert, m + 1)
  <2>1. k \in DOMAIN x.source /\ x.within[k] = Par(r.blocks, r.insert)
    BY <1>5, BuildingFacts
  <2>2. Does(e.blocks, r.insert, m + 1) = y /\ Of(e.blocks, r.insert, m + 1) = k /\ Par(e.blocks, r.insert) = Par(r.blocks, r.insert)
    BY <1>9 DEF Emitted
  <2>3. Knows(e.blocks, role2, r.insert, m + 1, y.value, x.source[k].value)
    BY <1>k, <1>7, <1>v
  <2> QED BY <2>1, <2>2, <2>3, <1>7, <1>o DEF InstrOK
<1>11. TargetOK(x, e.blocks, r.insert, W, named2, r.insert, m + 1)
  <2>1. Targets(Does(e.blocks, r.insert, m + 1)) = {}
    BY <1>7, <1>9 DEF Emitted, Targets
  <2> QED BY <2>1 DEF TargetOK
<1>12. After(x, r, e, role2, W, D, named2, k, pending) /\ Stayed(x, r, role2, W, D, named2, k, y, m, e)
  BY <1>3, <1>8, <1>10, <1>11, StayAfter
<1>13. Ready(x, e.blocks, role2, e.insert, x.settle[k + 1])
  <2>1. Long(e.blocks, e.insert) = m + 1 /\ Does(e.blocks, e.insert, m + 1) = y
    BY <1>12 DEF Stayed
  <2>2. m + 1 # 0
    BY <1>9 DEF Emitted
  <2> QED BY <2>1, <2>2, <1>7 DEF Ready
<1>14. AfterWith(x, k, r, e, role2, named2, pending)
  BY <1>1, <1>4, <1>12, <1>13, <1>w DEF AfterWith, ItemFacts
<1>15. InAt(x, k + 1, e.blocks, e.insert, named2, pending, role2)
  BY <1>1, <1>o, <1>14, AfterIn
<1>16. PendAt(x, k + 1, pending)
  BY <1>1, <1>o, PendPlain
<1>17. e.broken = FALSE
  BY <1>1, <1>4, <1>12 DEF After
<1> QED BY <1>15, <1>16, <1>17 DEF Leading

(* A goto to a label whose block exists.                                    *)
Known(x, k, b, named2, t, e) ==
  x.source[k].op = "goto" /\ t = named2[x.source[k].to] /\ t # 0 /\ e = Emit(b, Br(t))

LEMMA GotoKnown ==
  ASSUME NEW x, NEW n, NEW k, NEW b, NEW role, NEW named2, NEW t, NEW e,
         AtItem(x, n, k, b, role, named2), Known(x, k, b, named2, t, e)
  PROVE  Leading(x, k, e, named2, pending)
<1>w. PICK W, D : ItemFacts(x, n, k, b, role, named2, W, D)
  BY AtItemHas
<1>1. /\ Visiting(x, n, k) /\ b.broken = FALSE /\ PendAt(x, k, pending)
      /\ Mid(x, b, role, W, D, named2, k, k, pending)
      /\ Building(x, b, role, W, D, named2, k) /\ NamedOK(x, b.blocks, role, W, k, named2)
      /\ b \in Builders /\ b.insert \in 1 .. Len(b.blocks) /\ Par(b.blocks, b.insert) = x.within[k]
      /\ k \in DOMAIN x.source /\ ItemOK(x.source[k]) /\ Sourced(x, n, k)
  BY <1>w DEF ItemFacts
<1>2. PICK y, m : y = Br(t) /\ m = Long(b.blocks, b.insert)
  OBVIOUS
<1>o. x.source[k].op = "goto"
  BY DEF Known
<1>t. t \in 1 .. Len(b.blocks) /\ t \in Nat
  <2>1. Len(b.blocks) \in Nat
    BY <1>1, BuilderFacts
  <2>2. t \in 0 .. Len(b.blocks)
    BY <1>1 DEF NamedOK, ItemOK, Known
  <2>3. t # 0
    BY DEF Known
  <2> QED BY <2>1, <2>2, <2>3
<1>3. y.op = "br" /\ y.to = t /\ Targets(y) = {t} /\ y \in Instructions
  BY <1>2, <1>t, BranchFacts, BranchType
<1>4. Staying(b, y, m, e)
  BY <1>2, <1>3 DEF Staying, Known
<1>5. Emitted(b, k, y, m, e)
  BY <1>1, <1>4, StayEmits
<1>e. /\ Does(e.blocks, b.insert, m + 1) = y /\ Of(e.blocks, b.insert, m + 1) = k
      /\ Par(e.blocks, b.insert) = Par(b.blocks, b.insert) /\ Len(e.blocks) = Len(b.blocks)
  BY <1>5 DEF Emitted
<1>6. InstrOK(x, e.blocks, role, named2, b.insert, m + 1)
  <2>1. y.to \in 1 .. Len(e.blocks) /\ y.to = named2[x.source[k].to]
    BY <1>3, <1>t, <1>e DEF Known
  <2> QED BY <1>1, <1>3, <1>e, <1>o, <2>1 DEF InstrOK
<1>7. TargetOK(x, e.blocks, b.insert, W, named2, b.insert, m + 1)
  BY <1>3, <1>e DEF TargetOK, Known
<1>8. After(x, b, e, role, W, D, named2, k, pending) /\ Stayed(x, b, role, W, D, named2, k, y, m, e)
  BY <1>1, <1>4, <1>6, <1>7, StayAfter
<1>9. Ready(x, e.blocks, role, e.insert, x.settle[k + 1])
  <2>1. Long(e.blocks, e.insert) = m + 1 /\ Does(e.blocks, e.insert, m + 1) = y
    BY <1>8 DEF Stayed
  <2>2. m + 1 # 0
    BY <1>5 DEF Emitted
  <2> QED BY <2>1, <2>2, <1>3 DEF Ready
<1>10. AfterWith(x, k, b, e, role, named2, pending)
  BY <1>1, <1>8, <1>9, <1>w DEF AfterWith, ItemFacts
<1>11. InAt(x, k + 1, e.blocks, e.insert, named2, pending, role)
  BY <1>1, <1>o, <1>10, AfterIn
<1>12. PendAt(x, k + 1, pending)
  BY <1>1, <1>o, PendPlain
<1>13. e.broken = FALSE
  BY <1>1, <1>8 DEF After
<1> QED BY <1>11, <1>12, <1>13 DEF Leading

(* A goto to a label that was not seen.                                     *)
Unknown(x, k, b, named2, named3, l, h, y, e) ==
  /\ x.source[k].op = "goto" /\ l = x.source[k].to /\ named2[l] = 0
  /\ NewLabel(b, h, y, e) /\ named3 = [named2 EXCEPT ![l] = h + 1]

LEMMA GotoUnknown ==
  ASSUME NEW x, NEW n, NEW k, NEW b, NEW role, NEW named2, NEW named3, NEW l, NEW h, NEW y, NEW e,
         AtItem(x, n, k, b, role, named2), Unknown(x, k, b, named2, named3, l, h, y, e)
  PROVE  Leading(x, k, e, named3, pending)
<1>w. PICK W, D : ItemFacts(x, n, k, b, role, named2, W, D)
  BY AtItemHas
<1>1. /\ Visiting(x, n, k) /\ b.broken = FALSE /\ PendAt(x, k, pending)
      /\ Mid(x, b, role, W, D, named2, k, k, pending)
      /\ Building(x, b, role, W, D, named2, k)
      /\ Par(b.blocks, b.insert) = x.within[k] /\ k \in Nat
      /\ ItemOK(x.source[k]) /\ Sourced(x, n, k)
  BY <1>w DEF ItemFacts
<1>o. x.source[k].op = "goto" /\ x.source[k].to = l /\ named2[l] = 0 /\ NewLabel(b, h, y, e)
  BY DEF Unknown
<1>2. Names(b, named2, named3, l, h + 1)
  <2>1. h + 1 > Len(b.blocks)
    BY <1>1, <1>o, NewLabelFacts
  <2>2. l \in Labels
    BY <1>1, <1>o DEF ItemOK
  <2> QED BY <2>1, <2>2 DEF Names, Unknown
<1>3. /\ \E role2 : After(x, b, e, role2, W, D, named3, k, pending)
      /\ Does(e.blocks, e.insert, Long(e.blocks, e.insert)).op = "br" /\ Long(e.blocks, e.insert) # 0
  BY <1>1, <1>2, <1>o, GotoNew
<1>4. PICK role2 : After(x, b, e, role2, W, D, named3, k, pending)
  BY <1>3
<1>9. Ready(x, e.blocks, role2, e.insert, x.settle[k + 1])
  BY <1>3 DEF Ready
<1>10. AfterWith(x, k, b, e, role2, named3, pending)
  BY <1>1, <1>4, <1>9, <1>w DEF AfterWith, ItemFacts
<1>11. InAt(x, k + 1, e.blocks, e.insert, named3, pending, role2)
  BY <1>1, <1>o, <1>10, AfterIn
<1>12. PendAt(x, k + 1, pending)
  BY <1>1, <1>o, PendPlain
<1>13. e.broken = FALSE
  BY <1>1, <1>4 DEF After
<1> QED BY <1>11, <1>12, <1>13 DEF Leading

(* The head of an if: its three blocks are made.                            *)
Branching(x, k, b, r, n, y, e, open, pend, pend2) ==
  /\ x.source[k].op = "if" /\ r = Visit(b, x.source[k].condition) /\ n = Len(r.blocks)
  /\ y = CondBr(r.last, n + 1, n + 2)
  /\ e = SetInsert(Emit(Create(Create(Create(r, Parent(r)), Detached), Detached), y), n + 1)
  /\ open.node = k /\ open.else = n + 2 /\ open.merge = n + 3 /\ open.inElse = FALSE
  /\ OnTop(open, pend, pend2)

IfRoles(x, k, role, n, role2) ==
  role2 = NewRoles(role, n, Plainly(x.settle[k + 1]), Plainly(x.other[k]), Plainly(x.behind[k]))

Sized(r, n) == n = Len(r.blocks)

LEMMA IfRolesFacts ==
  ASSUME NEW x, NEW k, NEW role, NEW n, NEW role2, NEW r,
         n \in Nat, Sized(r, n), IfRoles(x, k, role, n, role2)
  PROVE  /\ RolesKept(r.blocks, role, role2)
         /\ role2[n + 1].goal = x.settle[k + 1] /\ role2[n + 1].claims = {}
         /\ role2[n + 2].goal = x.other[k] /\ role2[n + 2].claims = {}
         /\ role2[n + 3].goal = x.behind[k] /\ role2[n + 3].claims = {}
<1>1. PICK s : s = NewRoles(role, n, Plainly(x.settle[k + 1]), Plainly(x.other[k]), Plainly(x.behind[k]))
  OBVIOUS
<1>2. /\ \A c \in 1 .. n : s[c] = role[c]
      /\ s[n + 1] = Plainly(x.settle[k + 1]) /\ s[n + 2] = Plainly(x.other[k]) /\ s[n + 3] = Plainly(x.behind[k])
  BY <1>1, NewRolesFacts
<1>3. role2 = s
  BY <1>1 DEF IfRoles
<1>4. \A g : Plainly(g).goal = g /\ Plainly(g).claims = {}
  BY DEF Plainly
<1>5. \A c \in 1 .. n : role2[c] = role[c]
  BY <1>2, <1>3
<1>6. RolesKept(r.blocks, role, role2)
  BY <1>5 DEF RolesKept, Sized
<1> QED BY <1>2, <1>3, <1>4, <1>6

IfRolesAre(x, k, r, role, n, role2) ==
  RolesKept(r.blocks, role, role2) /\ role2[n + 1].goal = x.settle[k + 1]

LEMMA IfRolesHave ==
  ASSUME NEW x, NEW k, NEW b, NEW r, NEW n, NEW y, NEW e, NEW open, NEW pend, NEW pend2, NEW role, NEW role2,
         Branching(x, k, b, r, n, y, e, open, pend, pend2), IfRoles(x, k, role, n, role2), n \in Nat
  PROVE  IfRolesAre(x, k, r, role, n, role2)
<1>1. Sized(r, n)
  BY DEF Branching, Sized
<1>2. RolesKept(r.blocks, role, role2) /\ role2[n + 1].goal = x.settle[k + 1]
  BY <1>1, IfRolesFacts
<1> QED BY <1>2 DEF IfRolesAre

LEMMA IfForks ==
  ASSUME NEW x, NEW k, NEW b, NEW r, NEW n, NEW y, NEW e, NEW open, NEW pend, NEW pend2, NEW role, NEW role2, NEW m,
         Branching(x, k, b, r, n, y, e, open, pend, pend2), IfRoles(x, k, role, n, role2), n \in Nat,
         r.last \in Operands, r \in Builders, m = Long(r.blocks, r.insert),
         Knows(r.blocks, role, r.insert, m + 1, r.last, x.source[k].condition)
  PROVE  Forking(x, r, k, n, m, role2, r.last, n + 1, n + 2, y, e)
<1>s. Sized(r, n)
  BY DEF Branching, Sized
<1>1. n = Len(r.blocks) /\ x.source[k].op = "if" /\ y = CondBr(r.last, n + 1, n + 2)
  BY DEF Branching
<1>2. /\ RolesKept(r.blocks, role, role2)
      /\ role2[n + 1].goal = x.settle[k + 1] /\ role2[n + 1].claims = {}
      /\ role2[n + 2].goal = x.other[k] /\ role2[n + 2].claims = {}
  BY <1>s, IfRolesFacts
<1>3. y.on = r.last /\ y.yes = n + 1 /\ y.no = n + 2
  BY <1>1 DEF CondBr
<1>4. r.insert \in 1 .. Len(r.blocks)
  BY BuilderFacts
<1>5. role2[r.insert] = role[r.insert]
  BY <1>2, <1>4 DEF RolesKept
<1>6. Knows(r.blocks, role2, r.insert, m + 1, r.last, x.source[k].condition)
  BY <1>5 DEF Knows
<1>7. Knows(r.blocks, role2, r.insert, m + 1, y.on, x.source[k].condition)
  BY <1>6, <1>3
<1>8. ForksIf(x, r.blocks, role2, r.insert, m + 1, y, k)
  BY <1>1, <1>2, <1>3, <1>7 DEF ForksIf
<1>9. e = SetInsert(Emit(Create(Create(Create(r, Parent(r)), Detached), Detached), y), n + 1)
  BY DEF Branching
<1> QED BY <1>1, <1>8, <1>9 DEF Forking

LEMMA IfOpens ==
  ASSUME NEW x, NEW k, NEW b, NEW r, NEW n, NEW y, NEW e, NEW open, NEW pend, NEW pend2, NEW role, NEW role2,
         NEW role3, NEW W2, NEW D, NEW named, NEW W, NEW p,
         Branching(x, k, b, r, n, y, e, open, pend, pend2), IfRoles(x, k, role, n, role2), n \in Nat,
         Mid(x, r, role, W, D, named, p, k, pend),
         PendOK(x, e.blocks, role2, e.insert, pend), Forked(x, r, role, D, named, n, role2, e, W2)
  PROVE  PendOK(x, e.blocks, role2, e.insert, pend2)
<1>s. Sized(r, n)
  BY DEF Branching, Sized
<1>1. /\ n = Len(r.blocks) /\ open.node = k /\ open.else = n + 2 /\ open.merge = n + 3 /\ open.inElse = FALSE
      /\ OnTop(open, pend, pend2)
  BY DEF Branching
<1>2. /\ role2[n + 2].goal = x.other[k] /\ role2[n + 2].claims = {}
      /\ role2[n + 3].goal = x.behind[k] /\ role2[n + 3].claims = {}
  BY <1>s, IfRolesFacts
<1>3. /\ e.insert = n + 1 /\ Len(e.blocks) = n + 3
      /\ Beside(r, n + 1, e) /\ Par(e.blocks, n + 1) = Par(r.blocks, r.insert)
      /\ Ends(e.blocks, r.insert) = {n + 1, n + 2}
  BY DEF Forked
<1>4. r \in Builders /\ PendOK(x, r.blocks, role, r.insert, pend)
  BY DEF Mid, Building
<1>5. r.insert \in 1 .. Len(r.blocks)
  BY <1>4, BuilderFacts
<1>6. r.insert # n + 1 /\ r.insert \in 1 .. n + 3
  BY <1>1, <1>5
<1>7. Par(e.blocks, r.insert) = Par(r.blocks, r.insert)
  BY <1>3, <1>5, <1>6 DEF Beside
<1>8. \E c \in 1 .. Len(e.blocks) : c # e.insert /\ Par(e.blocks, c) = Par(e.blocks, e.insert) /\ open.else \in Ends(e.blocks, c)
  <2>1. r.insert \in 1 .. Len(e.blocks) /\ r.insert # e.insert
    BY <1>3, <1>6
  <2>2. Par(e.blocks, r.insert) = Par(e.blocks, e.insert)
    BY <1>3, <1>7
  <2>3. open.else \in Ends(e.blocks, r.insert)
    BY <1>1, <1>3
  <2> QED BY <2>1, <2>2, <2>3
<1>9. n + 2 \in 1 .. n + 3 /\ n + 3 \in 1 .. n + 3 /\ n + 2 < n + 3
  OBVIOUS
<1>10. OpenOK(x, e.blocks, role2, e.insert, open)
  <2>1. open.else \in 1 .. Len(e.blocks) /\ open.merge \in 1 .. Len(e.blocks) /\ open.else < open.merge
    BY <1>1, <1>3, <1>9
  <2>2. /\ role2[open.merge].goal = x.behind[open.node] /\ role2[open.merge].claims = {}
        /\ role2[open.else].goal = x.other[open.node] /\ role2[open.else].claims = {}
    BY <1>1, <1>2
  <2> QED BY <2>1, <2>2, <1>8 DEF OpenOK
<1>11. \A q \in 1 .. Len(pend) : pend[q].merge < open.else
  <2> SUFFICES ASSUME NEW q \in 1 .. Len(pend) PROVE pend[q].merge < open.else
    OBVIOUS
  <2>1. pend[q].merge \in 1 .. Len(r.blocks)
    BY <1>4 DEF PendOK, OpenOK
  <2>2. pend[q].merge \in 1 .. n
    BY <2>1, <1>1
  <2>3. pend[q].merge < n + 2
    BY <2>2
  <2> QED BY <2>3, <1>1
<1> QED BY <1>1, <1>10, <1>11, OnTopOK

LEMMA IfStep ==
  ASSUME NEW x, NEW n, NEW k, NEW b, NEW role, NEW named2, NEW r, NEW h, NEW y, NEW e, NEW open, NEW pend2,
         AtItem(x, n, k, b, role, named2), Branching(x, k, b, r, h, y, e, open, pending, pend2)
  PROVE  Leading(x, k, e, named2, pend2)
<1>w. PICK W, D : ItemFacts(x, n, k, b, role, named2, W, D)
  BY AtItemHas
<1>1. /\ Visiting(x, n, k) /\ b.broken = FALSE /\ PendAt(x, k, pending)
      /\ Mid(x, b, role, W, D, named2, k, k, pending)
      /\ Par(b.blocks, b.insert) = x.within[k]
      /\ ItemOK(x.source[k]) /\ Sourced(x, n, k)
  BY <1>w DEF ItemFacts
<1>v. PICK v : v = x.source[k].condition
  OBVIOUS
<1>o. x.source[k].op = "if" /\ OnTop(open, pending, pend2) /\ open.node = k /\ open.inElse = FALSE
  BY DEF Branching
<1>2. v \in Expressions /\ r = Visit(b, v)
  <2>1. v \in Expressions
    BY <1>1, <1>v, <1>o, BlocksAssumption DEF ItemOK
  <2> QED BY <2>1, <1>v DEF Branching
<1>3. PICK role1 : /\ Mid(x, r, role1, W, D, named2, k, k, pending)
                   /\ Knows(r.blocks, role1, r.insert, Long(r.blocks, r.insert) + 1, r.last, v)
  BY <1>1, <1>2, VisitMid
<1>4. r.last \in Operands /\ r.broken = b.broken /\ Par(r.blocks, r.insert) = Par(b.blocks, b.insert)
  BY <1>1, <1>2, VisitMid
<1>5. Building(x, r, role1, W, D, named2, k) /\ r \in Builders
  BY <1>3 DEF Mid, Building
<1>6. h \in Nat /\ h = Len(r.blocks)
  <2>1. Len(r.blocks) \in Nat
    BY <1>5, BuilderFacts
  <2>2. h = Len(r.blocks)
    BY DEF Branching
  <2> QED BY <2>1, <2>2
<1>7. PICK m, role2 : m = Long(r.blocks, r.insert) /\ IfRoles(x, k, role1, h, role2)
  BY DEF IfRoles
<1>8. Forking(x, r, k, h, m, role2, r.last, h + 1, h + 2, y, e)
  <2>1. Knows(r.blocks, role1, r.insert, m + 1, r.last, x.source[k].condition)
    BY <1>3, <1>v, <1>7
  <2> QED BY <2>1, <1>4, <1>5, <1>6, <1>7, IfForks
<1>9. RolesKept(r.blocks, role1, role2) /\ role2[h + 1].goal = x.settle[k + 1]
  <2>1. IfRoles(x, k, role1, h, role2)
    BY <1>7
  <2>2. IfRolesAre(x, k, r, role1, h, role2)
    BY <2>1, <1>6, IfRolesHave
  <2> QED BY <2>2 DEF IfRolesAre
<1>10. PICK W2 : W2 = Waiting(pend2)
  OBVIOUS
<1>11. WithTwo(W2, W, h)
  <2>1. open.else = h + 2 /\ open.merge = h + 3
    BY DEF Branching
  <2>2. WithTwo(Waiting(pend2), Waiting(pending), h)
    BY <2>1, <1>o, WaitingIf
  <2>3. W = Waiting(pending)
    BY <1>w DEF ItemFacts
  <2> QED BY <2>2, <2>3, <1>10
<1>12. After(x, r, e, role2, W2, D, named2, k, pending) /\ Forked(x, r, role1, D, named2, h, role2, e, W2)
  BY <1>3, <1>8, <1>9, <1>11, ForkAfter
<1>13. PendOK(x, e.blocks, role2, e.insert, pend2)
  <2>1. PendOK(x, e.blocks, role2, e.insert, pending)
    BY <1>12 DEF After
  <2> QED BY <2>1, <1>3, <1>6, <1>7, <1>12, IfOpens
<1>14. After(x, r, e, role2, W2, D, named2, k, pend2)
  BY <1>12, <1>13 DEF After
<1>15. Ready(x, e.blocks, role2, e.insert, x.settle[k + 1])
  <2>1. e.insert = h + 1 /\ Long(e.blocks, h + 1) = 0
    BY <1>12 DEF Forked
  <2> QED BY <2>1, <1>9 DEF Ready
<1>16. AfterWith(x, k, r, e, role2, named2, pend2)
  <2>1. Par(r.blocks, r.insert) = x.within[k]
    BY <1>1, <1>4
  <2>2. D = k - 1
    BY <1>w DEF ItemFacts
  <2>3. After(x, r, e, role2, Waiting(pend2), k - 1, named2, k, pend2)
    BY <1>14, <1>10, <2>2
  <2> QED BY <2>1, <2>3, <1>15 DEF AfterWith
<1>17. InAt(x, k + 1, e.blocks, e.insert, named2, pend2, role2)
  BY <1>1, <1>o, <1>16, AfterIn
<1>18. PendAt(x, k + 1, pend2)
  BY <1>1, <1>o, PendIf DEF OnTop
<1>19. e.broken = FALSE
  BY <1>1, <1>4, <1>12 DEF After
<1> QED BY <1>17, <1>18, <1>19 DEF Leading

-----------------------------------------------------------------------------
(* The visits of what has no label *)

LEMMA BareMid ==
  ASSUME NEW x, NEW n, NEW k, NEW role, NEW b, NEW p,
         Visiting(x, n, k), b = Builder, p = x.settle[k], broken = FALSE,
         program[k].op \in {"else", "fi", "end"},
         InAt(x, k, blocks, insert, namedBlocks, pending, role)
  PROVE  Mid(x, b, role, Waiting(pending), k - 1, namedBlocks, p, k, pending)
<1>1. Mid(x, b, role, Waiting(pending), k - 1, namedBlocks, p, k - 1, pending)
  BY InMid
<1>2. k \in Nat /\ k \in 1 .. n /\ ItemAt(x, n, k) /\ x.source = program
  BY VisitingFacts
<1>3. x.source[k].label \notin Labels
  BY <1>2, BlocksAssumption DEF ItemAt, ItemOK
<1>4. PICK j \in Nat : k = j + 1
  <2>1. k - 1 \in Nat /\ k = (k - 1) + 1
    BY <1>2
  <2> QED BY <2>1
<1>5. k - 1 = j
  BY <1>4
<1>w. PICK W : W = Waiting(pending)
  OBVIOUS
<1>6. Mid(x, b, role, W, j, namedBlocks, p, j, pending)
  BY <1>1, <1>5, <1>w
<1>7. x.source[j + 1].label \notin Labels
  BY <1>3, <1>4
<1>8. NamedOK(x, b.blocks, role, W, j, namedBlocks)
  BY <1>6 DEF Mid
<1>9. NamedOK(x, b.blocks, role, W, j + 1, namedBlocks)
  BY <1>7, <1>8, NamedNext
<1>10. Mid(x, b, role, W, j, namedBlocks, p, j + 1, pending)
  BY <1>6, <1>9 DEF Mid
<1> QED BY <1>10, <1>4, <1>5, <1>w

LEMMA AfterMid ==
  ASSUME NEW x, NEW b, NEW role, NEW W, NEW D, NEW named, NEW p, NEW k, NEW pend, NEW e, NEW role2, NEW W2, NEW pend2,
         Mid(x, b, role, W, D, named, p, k, pend), After(x, b, e, role2, W2, D, named, k, pend2),
         Ready(x, e.blocks, role2, e.insert, p)
  PROVE  Mid(x, e, role2, W2, D, named, p, k, pend2)
<1>1. Building(x, b, role, W, D, named, p)
  BY DEF Mid
<1>2. /\ e \in Builders /\ Core(x, e.blocks, role2, e.insert, W2, D, named)
      /\ Par(e.blocks, e.insert) = Par(b.blocks, b.insert)
      /\ NamedOK(x, e.blocks, role2, W2, k, named) /\ PendOK(x, e.blocks, role2, e.insert, pend2)
  BY DEF After
<1>3. Building(x, e, role2, W2, D, named, p)
  BY <1>1, <1>2, BuildingOn
<1> QED BY <1>2, <1>3 DEF Mid

(* A branch to the merge block, after which the else block follows.         *)
TurnedAt(x, b, e, role, W2, D, named, k, pend, t) ==
  After(x, b, e, role, W2, D, named, k, pend) /\ e.insert = t /\ Long(e.blocks, t) = 0

ElseMade(x, b, W, W2, open, p, e) ==
  x.behind[open.node] = p /\ e = ElseOf(b, open) /\ open.else \in W /\ open.merge \in W /\ Without(W2, W, open.else)

LEMMA ElseTurn ==
  ASSUME NEW x, NEW b, NEW role, NEW W, NEW D, NEW named, NEW p, NEW k, NEW pend, NEW open, NEW e, NEW W2,
         Mid(x, b, role, W, D, named, p, k, pend), OpenOK(x, b.blocks, role, b.insert, open), ~open.inElse,
         ElseMade(x, b, W, W2, open, p, e)
  PROVE  TurnedAt(x, b, e, role, W2, D, named, k, pend, open.else)
<1>1. Building(x, b, role, W, D, named, p)
  BY DEF Mid
<1>2. \A w \in W : w \in 1 .. Len(b.blocks) /\ Par(b.blocks, w) = 0 /\ w # b.insert
  BY <1>1, BuildingFacts
<1>3. PICK t, to, m : t = open.else /\ to = open.merge /\ m = Long(b.blocks, b.insert)
  OBVIOUS
<1>4. t \in W /\ to \in W /\ Without(W2, W, t)
  BY <1>3 DEF ElseMade
<1>5. e = SetInsert(PushBack(Emit(b, Br(to)), t), t)
  BY <1>3 DEF ElseMade, ElseOf
<1>6. Turning(b, t, to, m, e)
  BY <1>2, <1>3, <1>4, <1>5 DEF Turning
<1>7. \E c \in 1 .. Len(b.blocks) : c # b.insert /\ Par(b.blocks, c) = Par(b.blocks, b.insert) /\ t \in Ends(b.blocks, c)
  BY <1>3 DEF OpenOK
<1>8. MayTurn(b, W, t, to)
  BY <1>2, <1>4, <1>7 DEF MayTurn
<1>9. role[to].goal = p /\ role[to].claims = {}
  BY <1>3 DEF OpenOK, ElseMade
<1>10. Carries(role, b.insert, m + 1, to)
  BY <1>9 DEF Carries
<1>11. After(x, b, e, role, W2, D, named, k, pend) /\ e.insert = t /\ Long(e.blocks, t) = 0
  BY <1>4, <1>6, <1>8, <1>9, <1>10, TurnAfter
<1> QED BY <1>3, <1>11 DEF TurnedAt

(* A branch to the merge block, which follows.                              *)
MergeMade(b, W, W2, t, e) ==
  e = SetInsert(PushBack(Emit(b, Br(t)), t), t) /\ t \in W /\ Without(W2, W, t)

LEMMA MergeTurn ==
  ASSUME NEW x, NEW b, NEW role, NEW W, NEW D, NEW named, NEW p, NEW k, NEW pend, NEW t, NEW e, NEW W2,
         Mid(x, b, role, W, D, named, p, k, pend), MergeMade(b, W, W2, t, e),
         role[t].goal = p, role[t].claims = {}
  PROVE  TurnedAt(x, b, e, role, W2, D, named, k, pend, t)
<1>1. Building(x, b, role, W, D, named, p)
  BY DEF Mid
<1>2. \A w \in W : w \in 1 .. Len(b.blocks) /\ Par(b.blocks, w) = 0 /\ w # b.insert
  BY <1>1, BuildingFacts
<1>3. PICK m : m = Long(b.blocks, b.insert)
  OBVIOUS
<1>4. t \in W /\ Without(W2, W, t) /\ e = SetInsert(PushBack(Emit(b, Br(t)), t), t)
  BY DEF MergeMade
<1>6. Turning(b, t, t, m, e)
  BY <1>2, <1>3, <1>4 DEF Turning
<1>8. MayTurn(b, W, t, t)
  BY <1>2, <1>4 DEF MayTurn
<1>10. Carries(role, b.insert, m + 1, t)
  BY DEF Carries
<1>11. After(x, b, e, role, W2, D, named, k, pend) /\ e.insert = t /\ Long(e.blocks, t) = 0
  BY <1>4, <1>6, <1>8, <1>10, TurnAfter
<1> QED BY <1>11 DEF TurnedAt

AtBare(x, n, k, b, role, W, D, p) ==
  /\ Visiting(x, n, k) /\ b.broken = FALSE /\ W = Waiting(pending) /\ D = k - 1 /\ p = x.settle[k]
  /\ Mid(x, b, role, W, D, namedBlocks, p, k, pending) /\ PendAt(x, k, pending)
  /\ Par(b.blocks, b.insert) = x.within[k]

LEMMA AtBareFacts ==
  ASSUME NEW x, NEW n, NEW k, NEW b, NEW role, NEW W, NEW D, NEW p,
         AtBare(x, n, k, b, role, W, D, p)
  PROVE  /\ Visiting(x, n, k) /\ b.broken = FALSE /\ PendAt(x, k, pending) /\ Sourced(x, n, k)
         /\ Mid(x, b, role, W, D, namedBlocks, p, k, pending) /\ Building(x, b, role, W, D, namedBlocks, p)
         /\ PendOK(x, b.blocks, role, b.insert, pending) /\ Len(b.blocks) \in Nat
<1>1. /\ Visiting(x, n, k) /\ b.broken = FALSE /\ PendAt(x, k, pending)
      /\ Mid(x, b, role, W, D, namedBlocks, p, k, pending)
  BY DEF AtBare
<1>2. Building(x, b, role, W, D, namedBlocks, p) /\ PendOK(x, b.blocks, role, b.insert, pending)
  BY <1>1 DEF Mid
<1>3. Sourced(x, n, k)
  BY <1>1 DEF Visiting, Sourced
<1>4. Len(b.blocks) \in Nat
  BY <1>2, BuildingFacts
<1> QED BY <1>1, <1>2, <1>3, <1>4

LEMMA ElseOpened ==
  ASSUME NEW x, NEW n, NEW k, NEW pend,
         Sourced(x, n, k), PendAt(x, k, pend), x.source[k].op = "else"
  PROVE  Len(pend) # 0 /\ pend \in Seq(Ifs)
<1>1. WholeSource /\ n = Len(program) /\ k \in 1 .. n
  BY DEF Sourced
<1>2. PlaceOK(k)
  BY <1>1, WholeFacts
<1>3. x.source = program /\ k - 1 \in 0 .. n /\ \A i \in 0 .. n : x.opened[i] = Opened(i)
  BY OpenedFacts
<1>4. Opened(k - 1) # 0
  BY <1>2, <1>3 DEF PlaceOK
<1> QED BY <1>3, <1>4 DEF PendAt

Elsing(pend, open, open2, s, pend2) ==
  /\ open = Head(pend) /\ s = Tail(pend) /\ open2 = [open EXCEPT !.inElse = TRUE]
  /\ pend2 = <<open2>> \o s

LEMMA ElsingFacts ==
  ASSUME NEW pend, NEW open, NEW open2, NEW s, NEW pend2,
         pend \in Seq(Ifs), Len(pend) # 0, Elsing(pend, open, open2, s, pend2)
  PROVE  /\ OnTop(open, s, pend) /\ OnTop(open2, s, pend2) /\ Replaced(pend, open2, pend2)
         /\ open2.node = open.node /\ open2.else = open.else /\ open2.merge = open.merge /\ open2.inElse = TRUE
<1>1. open = Head(pend) /\ s = Tail(pend) /\ open2 = [open EXCEPT !.inElse = TRUE] /\ pend2 = <<open2>> \o s
  BY DEF Elsing
<1>2. OnTop(open, s, pend)
  BY <1>1, HeadOnTop
<1>3. open \in Ifs /\ s \in Seq(Ifs)
  BY <1>2 DEF OnTop
<1>4. open2.node = open.node /\ open2.else = open.else /\ open2.merge = open.merge /\ open2.inElse = TRUE /\ open2 \in Ifs
  BY <1>1, <1>3 DEF Ifs
<1>5. OnTop(open2, s, pend2)
  BY <1>1, <1>3, <1>4 DEF OnTop
<1>6. Replaced(pend, open2, pend2)
  BY <1>1, <1>4 DEF Replaced
<1> QED BY <1>2, <1>4, <1>5, <1>6

LEMMA ElseHeads ==
  ASSUME NEW x, NEW n, NEW k, NEW pend, NEW open, NEW open2, NEW s, NEW pend2,
         Sourced(x, n, k), PendAt(x, k, pend), x.source[k].op = "else", Elsing(pend, open, open2, s, pend2)
  PROVE  ElseHead(x, k, open, pend2)
<1>1. Len(pend) # 0 /\ pend \in Seq(Ifs)
  BY ElseOpened
<1>2. Replaced(pend, open2, pend2) /\ open2.node = open.node /\ open2.inElse = TRUE
  BY <1>1, ElsingFacts
<1>3. open = Head(pend)
  BY DEF Elsing
<1>4. open2.node = Head(pend).node
  BY <1>2, <1>3
<1>5. ElseHead(x, k, Head(pend), pend2)
  BY <1>2, <1>4, PendElse DEF Turns
<1> QED BY <1>3, <1>5

LEMMA ElseStep ==
  ASSUME NEW x, NEW n, NEW k, NEW b, NEW role, NEW W, NEW D, NEW p, NEW open, NEW open2, NEW s, NEW pend2, NEW e,
         AtBare(x, n, k, b, role, W, D, p), x.source[k].op = "else",
         Elsing(pending, open, open2, s, pend2), e = ElseOf(b, open)
  PROVE  Leading(x, k, e, namedBlocks, pend2)
<1>1. /\ Visiting(x, n, k) /\ b.broken = FALSE /\ PendAt(x, k, pending) /\ Sourced(x, n, k)
      /\ Mid(x, b, role, W, D, namedBlocks, p, k, pending)
      /\ PendOK(x, b.blocks, role, b.insert, pending) /\ Len(b.blocks) \in Nat
  BY AtBareFacts
<1>2. Len(pending) # 0 /\ pending \in Seq(Ifs)
  BY <1>1, ElseOpened
<1>3. /\ OnTop(open, s, pending) /\ OnTop(open2, s, pend2) /\ Replaced(pending, open2, pend2)
      /\ open2.node = open.node /\ open2.else = open.else /\ open2.merge = open.merge /\ open2.inElse = TRUE
  BY <1>2, ElsingFacts
<1>4. /\ ~open.inElse
      /\ x.other[open.node] = x.settle[k + 1] /\ x.behind[open.node] = x.settle[k]
      /\ PendAt(x, k + 1, pend2)
  <2>1. ElseHead(x, k, open, pend2)
    BY <1>1, ElseHeads
  <2> QED BY <2>1 DEF ElseHead
<1>5. /\ PendOK(x, b.blocks, role, b.insert, s) /\ OpenOK(x, b.blocks, role, b.insert, open)
      /\ \A q \in 1 .. Len(s) : s[q].merge < open.else
      /\ \A w \in Waiting(s) : w < open.else /\ w # open.else /\ w # open.merge
  BY <1>1, <1>3, OnTopWas
<1>6. open.merge # open.else
  <2>1. open.else < open.merge /\ open.else \in Nat
    BY <1>5, <1>3 DEF OpenOK, OnTop, Ifs
  <2> QED BY <2>1
<1>7. PICK W2 : W2 = Waiting(pend2)
  OBVIOUS
<1>8. Without(W2, W, open.else) /\ open.else \in W /\ open.merge \in W
  <2>1. Without(W2, Waiting(pending), open.else) /\ open.else \in Waiting(pending) /\ open.merge \in Waiting(pending)
    BY <1>3, <1>4, <1>5, <1>6, <1>7, WaitingElse
  <2> QED BY <2>1 DEF AtBare
<1>9. ElseMade(x, b, W, W2, open, p, e)
  <2>1. x.behind[open.node] = p
    BY <1>4 DEF AtBare
  <2> QED BY <2>1, <1>8 DEF ElseMade
<1>10. TurnedAt(x, b, e, role, W2, D, namedBlocks, k, pending, open.else)
  BY <1>1, <1>4, <1>5, <1>9, ElseTurn
<1>11. After(x, b, e, role, W2, D, namedBlocks, k, pending) /\ e.insert = open.else /\ Long(e.blocks, open.else) = 0
  BY <1>10 DEF TurnedAt
<1>12. e.broken = FALSE /\ PendOK(x, e.blocks, role, e.insert, pending) /\ Len(e.blocks) \in Nat
  <2>1. e \in Builders /\ e.broken = b.broken /\ PendOK(x, e.blocks, role, e.insert, pending)
    BY <1>11 DEF After
  <2> QED BY <2>1, <1>1, BuilderFacts
<1>13. /\ PendOK(x, e.blocks, role, e.insert, s) /\ OpenOK(x, e.blocks, role, e.insert, open)
  BY <1>12, <1>3, OnTopWas
<1>14. OpenOK(x, e.blocks, role, e.insert, open2)
  BY <1>13, <1>3 DEF OpenOK
<1>15. PendOK(x, e.blocks, role, e.insert, pend2)
  <2>1. \A q \in 1 .. Len(s) : s[q].merge < open2.else
    BY <1>5, <1>3
  <2> QED BY <2>1, <1>3, <1>13, <1>14, OnTopOK
<1>16. After(x, b, e, role, W2, D, namedBlocks, k, pend2)
  BY <1>11, <1>15 DEF After
<1>17. Ready(x, e.blocks, role, e.insert, x.settle[k + 1])
  <2>1. role[open.else].goal = x.other[open.node]
    BY <1>5, <1>4 DEF OpenOK
  <2> QED BY <2>1, <1>4, <1>11 DEF Ready
<1>18. AfterWith(x, k, b, e, role, namedBlocks, pend2)
  <2>1. After(x, b, e, role, Waiting(pend2), k - 1, namedBlocks, k, pend2)
    BY <1>16, <1>7 DEF AtBare
  <2>2. Par(b.blocks, b.insert) = x.within[k]
    BY DEF AtBare
  <2> QED BY <2>1, <2>2, <1>17 DEF AfterWith
<1>19. InAt(x, k + 1, e.blocks, e.insert, namedBlocks, pend2, role)
  BY <1>1, <1>18, AfterIn
<1> QED BY <1>4, <1>12, <1>19 DEF Leading

(* The end of a then part without an else: control goes on in the else      *)
(* block, which is empty.                                                   *)
Between(x, b, e, role, W, D, named, p, k, open, s) ==
  /\ Mid(x, e, role, W, D, named, p, k, s) /\ e.broken = b.broken
  /\ Par(e.blocks, e.insert) = Par(b.blocks, b.insert)
  /\ open.merge \in W /\ Without(Waiting(s), W, open.merge)
  /\ role[open.merge].goal = p /\ role[open.merge].claims = {}

FiFirst(b, open, e) == e = IF open.inElse THEN b ELSE ElseOf(b, open)

LEMMA FiBetween ==
  ASSUME NEW x, NEW b, NEW role, NEW W, NEW D, NEW named, NEW p, NEW k, NEW pend, NEW open, NEW s, NEW e, NEW pend2,
         Mid(x, b, role, W, D, named, p, k, pend), OnTop(open, s, pend), W = Waiting(pend),
         p = x.settle[k], FiHead(x, k, open, pend, pend2), FiFirst(b, open, e)
  PROVE  \E W1 : Between(x, b, e, role, W1, D, named, p, k, open, s)
<1>1. Building(x, b, role, W, D, named, p) /\ PendOK(x, b.blocks, role, b.insert, pend)
  BY DEF Mid
<1>2. Len(b.blocks) \in Nat
  BY <1>1, BuildingFacts
<1>3. /\ PendOK(x, b.blocks, role, b.insert, s) /\ OpenOK(x, b.blocks, role, b.insert, open)
      /\ \A w \in Waiting(s) : w < open.else /\ w # open.else /\ w # open.merge
  BY <1>1, <1>2, OnTopWas
<1>4. open.merge # open.else
  <2>1. open.else < open.merge /\ open.else \in Nat
    BY <1>3 DEF OpenOK, OnTop, Ifs
  <2> QED BY <2>1
<1>5. x.behind[open.node] = p /\ (~open.inElse => x.other[open.node] = p)
  BY DEF FiHead
<1>6. role[open.merge].goal = p /\ role[open.merge].claims = {}
  BY <1>3, <1>5 DEF OpenOK
<1>7. \A w \in Waiting(s) : w # open.else /\ w # open.merge
  BY <1>3
<1>c1. CASE open.inElse
  <2>1. e = b
    BY <1>c1 DEF FiFirst
  <2>2. open.merge \in Waiting(pend) /\ Without(Waiting(s), Waiting(pend), open.merge)
    BY <1>c1, <1>4, <1>7, WaitingFi
  <2>3. Mid(x, b, role, W, D, named, p, k, s)
    BY <1>3 DEF Mid
  <2>4. Between(x, b, b, role, W, D, named, p, k, open, s)
    BY <1>6, <2>2, <2>3 DEF Between
  <2> QED BY <2>1, <2>4
<1>c2. CASE ~open.inElse
  <2>1. e = ElseOf(b, open)
    BY <1>c2 DEF FiFirst
  <2>2. PICK W1 : Without(W1, Waiting(pend), open.else)
    BY DEF Without
  <2>3. /\ open.merge \in Waiting(pend) /\ open.else \in Waiting(pend)
        /\ open.merge \in W1 /\ Without(Waiting(s), W1, open.merge)
    BY <1>c2, <1>4, <1>7, <2>2, WaitingFi
  <2>4. ElseMade(x, b, W, W1, open, p, e)
    BY <1>5, <2>1, <2>2, <2>3 DEF ElseMade
  <2>5. TurnedAt(x, b, e, role, W1, D, named, k, pend, open.else)
    BY <1>3, <1>c2, <2>4, ElseTurn
  <2>6. After(x, b, e, role, W1, D, named, k, pend) /\ e.insert = open.else /\ Long(e.blocks, open.else) = 0
    BY <2>5 DEF TurnedAt
  <2>7. /\ e \in Builders /\ e.broken = b.broken /\ Par(e.blocks, e.insert) = Par(b.blocks, b.insert)
        /\ PendOK(x, e.blocks, role, e.insert, pend)
    BY <2>6 DEF After
  <2>8. PendOK(x, e.blocks, role, e.insert, s)
    <3>1. Len(e.blocks) \in Nat
      BY <2>7, BuilderFacts
    <3> QED BY <3>1, <2>7, OnTopWas
  <2>9. After(x, b, e, role, W1, D, named, k, s)
    BY <2>6, <2>8 DEF After
  <2>10. Ready(x, e.blocks, role, e.insert, p)
    <3>1. role[open.else].goal = p
      BY <1>3, <1>5, <1>c2 DEF OpenOK
    <3> QED BY <3>1, <2>6 DEF Ready
  <2>11. Mid(x, e, role, W1, D, named, p, k, s)
    BY <2>9, <2>10, AfterMid
  <2>12. Between(x, b, e, role, W1, D, named, p, k, open, s)
    BY <1>6, <2>3, <2>7, <2>11 DEF Between
  <2> QED BY <2>12
<1> QED BY <1>c1, <1>c2

FiMade(b, pend, open, s, d, e) ==
  Fiing(pend, open, s) /\ FiFirst(b, open, d) /\ e = MergeOf(d, open)

LEMMA FiStep ==
  ASSUME NEW x, NEW n, NEW k, NEW b, NEW role, NEW W, NEW D, NEW p, NEW open, NEW s, NEW d, NEW e,
         AtBare(x, n, k, b, role, W, D, p), x.source[k].op = "fi", FiMade(b, pending, open, s, d, e)
  PROVE  Leading(x, k, e, namedBlocks, s)
<1>1. /\ Visiting(x, n, k) /\ b.broken = FALSE /\ PendAt(x, k, pending) /\ Sourced(x, n, k)
      /\ Mid(x, b, role, W, D, namedBlocks, p, k, pending)
  BY AtBareFacts
<1>2. Fiing(pending, open, s) /\ FiFirst(b, open, d)
  BY DEF FiMade
<1>3. FiHead(x, k, open, pending, s)
  BY <1>1, <1>2, PendFi
<1>4. OnTop(open, s, pending)
  BY <1>2, <1>3, HeadOnTop DEF FiHead, Fiing
<1>5. PICK W1 : Between(x, b, d, role, W1, D, namedBlocks, p, k, open, s)
  <2>1. W = Waiting(pending) /\ p = x.settle[k]
    BY DEF AtBare
  <2> QED BY <2>1, <1>1, <1>2, <1>3, <1>4, FiBetween
<1>6. PICK t, W2 : t = open.merge /\ W2 = Waiting(s)
  OBVIOUS
<1>7. MergeMade(d, W1, W2, t, e)
  <2>1. e = SetInsert(PushBack(Emit(d, Br(t)), t), t)
    BY <1>6 DEF FiMade, MergeOf
  <2> QED BY <2>1, <1>5, <1>6 DEF MergeMade, Between
<1>8. Mid(x, d, role, W1, D, namedBlocks, p, k, s) /\ role[t].goal = p /\ role[t].claims = {}
      /\ d.broken = b.broken /\ Par(d.blocks, d.insert) = Par(b.blocks, b.insert)
  BY <1>5, <1>6 DEF Between
<1>9. TurnedAt(x, d, e, role, W2, D, namedBlocks, k, s, t)
  BY <1>7, <1>8, MergeTurn
<1>10. After(x, d, e, role, W2, D, namedBlocks, k, s) /\ e.insert = t /\ Long(e.blocks, t) = 0
  BY <1>9 DEF TurnedAt
<1>11. x.settle[k] = x.settle[k + 1]
  <2>1. ItemAt(x, n, k)
    BY <1>1, VisitingFacts
  <2> QED BY <2>1 DEF ItemAt
<1>12. Ready(x, e.blocks, role, e.insert, x.settle[k + 1])
  <2>1. p = x.settle[k]
    BY DEF AtBare
  <2> QED BY <2>1, <1>8, <1>10, <1>11 DEF Ready
<1>13. AfterWith(x, k, d, e, role, namedBlocks, s)
  <2>1. After(x, d, e, role, Waiting(s), k - 1, namedBlocks, k, s)
    BY <1>10, <1>6 DEF AtBare
  <2>2. Par(d.blocks, d.insert) = x.within[k]
    BY <1>8 DEF AtBare
  <2> QED BY <2>1, <2>2, <1>12 DEF AfterWith
<1>14. InAt(x, k + 1, e.blocks, e.insert, namedBlocks, s, role)
  BY <1>1, <1>13, AfterIn
<1>15. e.broken = FALSE
  BY <1>1, <1>8, <1>10 DEF After
<1>16. PendAt(x, k + 1, s)
  BY <1>3 DEF FiHead
<1> QED BY <1>14, <1>15, <1>16 DEF Leading

(* The end of a function leaves its last block.                             *)
LEMMA LeaveCore ==
  ASSUME NEW x, NEW bs, NEW role, NEW ins, NEW D, NEW named,
         Core(x, bs, role, ins, {}, D, named), ins \in 1 .. Len(bs), Long(bs, ins) # 0,
         Does(bs, ins, Long(bs, ins)).op \in Terminators
  PROVE  Core(x, bs, role, 0, {}, D, named)
<1>1. \A c \in 1 .. Len(bs) : BlockOK(x, bs, role, 0, D, c)
  <2> SUFFICES ASSUME NEW c \in 1 .. Len(bs) PROVE BlockOK(x, bs, role, 0, D, c)
    OBVIOUS
  <2>1. BlockOK(x, bs, role, ins, D, c)
    BY DEF Core
  <2> QED BY <2>1 DEF BlockOK
<1>2. \A c \in 1 .. Len(bs) : \A k \in 1 .. Long(bs, c) : TargetOK(x, bs, 0, {}, named, c, k)
  <2> SUFFICES ASSUME NEW c \in 1 .. Len(bs), NEW k \in 1 .. Long(bs, c) PROVE TargetOK(x, bs, 0, {}, named, c, k)
    OBVIOUS
  <2>1. TargetOK(x, bs, ins, {}, named, c, k)
    BY DEF Core
  <2> QED BY <2>1 DEF TargetOK
<1>3. \A f \in 1 .. D : x.source[f].op = "function" => \E e \in 1 .. Len(bs) : EntryOK(x, bs, role, 0, f, e)
  <2> SUFFICES ASSUME NEW f \in 1 .. D, x.source[f].op = "function"
               PROVE  \E e \in 1 .. Len(bs) : EntryOK(x, bs, role, 0, f, e)
    OBVIOUS
  <2>1. PICK e \in 1 .. Len(bs) : EntryOK(x, bs, role, ins, f, e)
    BY DEF Core
  <2>2. \A S : ClosedFrom(bs, 0, f, e, S) => ClosedFrom(bs, ins, f, e, S)
    <3>1. \A c \in 1 .. Len(bs) : c # 0
      <4> SUFFICES ASSUME NEW c \in 1 .. Len(bs) PROVE c # 0
        OBVIOUS
      <4> QED OBVIOUS
    <3> QED BY <3>1 DEF ClosedFrom
  <2>3. EntryOK(x, bs, role, 0, f, e)
    BY <2>1, <2>2 DEF EntryOK
  <2> QED BY <2>3
<1> QED BY <1>1, <1>2, <1>3 DEF Core

EndOf == [op |-> "unreachable"]

(* It leaves e, between functions.                                          *)
BetweenAt(x, k, e, named, pend) ==
  /\ e.broken = FALSE /\ PendAt(x, k + 1, pend) /\ pend = <<>> /\ e.insert \in 1 .. Len(e.blocks)
  /\ \E role : OutAt(x, k + 1, e.blocks, named, role)

LEMMA EndStep ==
  ASSUME NEW x, NEW n, NEW k, NEW b, NEW role, NEW W, NEW D, NEW p, NEW e,
         AtBare(x, n, k, b, role, W, D, p), x.source[k].op = "end", e = Emit(b, EndOf)
  PROVE  BetweenAt(x, k, e, namedBlocks, pending)
<1>1. /\ Visiting(x, n, k) /\ b.broken = FALSE /\ PendAt(x, k, pending) /\ Sourced(x, n, k)
      /\ Mid(x, b, role, W, D, namedBlocks, p, k, pending) /\ Building(x, b, role, W, D, namedBlocks, p)
  BY AtBareFacts
<1>2. pending = <<>> /\ PendAt(x, k + 1, pending)
  BY <1>1, PendEnd
<1>3. W = {}
  BY <1>2, NothingWaits DEF AtBare
<1>4. PICK y, m : y = EndOf /\ m = Long(b.blocks, b.insert)
  OBVIOUS
<1>5. y.op = "unreachable" /\ y \in Instructions
  BY <1>4 DEF EndOf, Instructions
<1>6. Staying(b, y, m, e)
  BY <1>4, <1>5 DEF Staying
<1>7. Emitted(b, p, y, m, e)
  BY <1>1, <1>6, StayEmits
<1>8. /\ p \in DOMAIN x.source /\ x.within[p] = Par(b.blocks, b.insert) /\ p = k
      /\ k \in Nat /\ x.source[k].op = "end"
  <2>1. p \in DOMAIN x.source /\ x.within[p] = Par(b.blocks, b.insert)
    BY <1>1, BuildingFacts
  <2>2. ItemAt(x, n, k) /\ k \in Nat
    BY <1>1, VisitingFacts
  <2>3. p = k
    BY <2>2 DEF ItemAt, AtBare
  <2> QED BY <2>1, <2>2, <2>3
<1>9. InstrOK(x, e.blocks, role, namedBlocks, b.insert, m + 1)
  BY <1>5, <1>7, <1>8 DEF InstrOK, Emitted
<1>10. TargetOK(x, e.blocks, b.insert, W, namedBlocks, b.insert, m + 1)
  <2>1. Targets(Does(e.blocks, b.insert, m + 1)) = {}
    BY <1>5, <1>7 DEF Emitted, Targets
  <2> QED BY <2>1 DEF TargetOK
<1>11. After(x, b, e, role, W, D, namedBlocks, k, pending) /\ Stayed(x, b, role, W, D, namedBlocks, p, y, m, e)
  BY <1>1, <1>6, <1>9, <1>10, StayAfter
<1>12. /\ e \in Builders /\ e.broken = b.broken /\ Core(x, e.blocks, role, e.insert, W, D, namedBlocks)
       /\ NamedOK(x, e.blocks, role, W, k, namedBlocks)
  BY <1>11 DEF After
<1>13. /\ Long(e.blocks, e.insert) # 0 /\ Does(e.blocks, e.insert, Long(e.blocks, e.insert)).op \in Terminators
       /\ e.insert \in 1 .. Len(e.blocks)
  <2>1. Long(e.blocks, e.insert) = m + 1 /\ Does(e.blocks, e.insert, m + 1) = y
    BY <1>11 DEF Stayed
  <2>2. m + 1 # 0
    BY <1>7 DEF Emitted
  <2>3. e.insert \in 1 .. Len(e.blocks)
    BY <1>12, BuilderFacts
  <2> QED BY <2>1, <2>2, <2>3, <1>5 DEF Terminators
<1>14. Core(x, e.blocks, role, 0, {}, D, namedBlocks)
  BY <1>3, <1>12, <1>13, LeaveCore
<1>15. PICK j \in Nat : k = j + 1
  <2>1. k \in Nat \ {0}
    BY <1>1, OpenedFacts
  <2>2. k - 1 \in Nat /\ k = (k - 1) + 1
    BY <2>1
  <2> QED BY <2>2
<1>16. D = j /\ (k + 1) - 1 = k
  <2>1. D = k - 1
    BY DEF AtBare
  <2> QED BY <2>1, <1>15
<1>17. Core(x, e.blocks, role, 0, {}, j + 1, namedBlocks)
  <2>1. x.source[j + 1].op # "function"
    BY <1>8, <1>15
  <2>2. Core(x, e.blocks, role, 0, {}, j, namedBlocks)
    BY <1>14, <1>16
  <2> QED BY <2>1, <2>2, CoreBump
<1>18. OutAt(x, k + 1, e.blocks, namedBlocks, role)
  <2>1. Core(x, e.blocks, role, 0, {}, (k + 1) - 1, namedBlocks)
    BY <1>15, <1>16, <1>17
  <2>2. NamedOK(x, e.blocks, role, {}, (k + 1) - 1, namedBlocks)
    BY <1>3, <1>12, <1>16
  <2> QED BY <2>1, <2>2 DEF OutAt
<1>19. e.broken = FALSE
  BY <1>1, <1>12
<1> QED BY <1>2, <1>13, <1>18, <1>19 DEF BetweenAt

(* The first block of a function is made.                                   *)
Entered(bs, n, k, bs2) == n = Len(bs) /\ bs2 = Append(bs, [parent |-> k, code |-> <<>>])

LEMMA EnterFacts ==
  ASSUME NEW bs, NEW n, NEW k, NEW bs2,
         bs \in Seq(Blocks), k \in Nat, Entered(bs, n, k, bs2)
  PROVE  /\ bs2 \in Seq(Blocks) /\ n \in Nat /\ n = Len(bs) /\ Len(bs2) = n + 1
         /\ \A c \in 1 .. n : bs2[c] = bs[c]
         /\ Par(bs2, n + 1) = k /\ Long(bs2, n + 1) = 0
<1>1. PICK r : r = [parent |-> k, code |-> <<>>]
  OBVIOUS
<1>2. r \in Blocks /\ r.parent = k /\ r.code = <<>> /\ Len(r.code) = 0
  BY <1>1 DEF Blocks
<1>3. n = Len(bs) /\ bs2 = Append(bs, r)
  BY <1>1 DEF Entered
<1>4. n \in Nat
  BY <1>3, BlocksFacts
<1>5. bs2 \in Seq(Blocks) /\ Len(bs2) = n + 1 /\ bs2[n + 1] = r
  BY <1>2, <1>3, <1>4
<1>6. \A c \in 1 .. n : bs2[c] = bs[c]
  BY <1>2, <1>3, <1>4
<1> QED BY <1>2, <1>3, <1>4, <1>5, <1>6 DEF Par, Long

Enters(bs, n, bs2, role, role2) ==
  /\ n \in Nat /\ n = Len(bs) /\ Len(bs2) = n + 1 /\ \A c \in 1 .. n : bs2[c] = bs[c]
  /\ \A c \in 1 .. n : role2[c] = role[c]

Alike(bs, n, bs2) ==
  \A c \in 1 .. n : /\ Par(bs2, c) = Par(bs, c) /\ Long(bs2, c) = Long(bs, c) /\ Ends(bs2, c) = Ends(bs, c)
                    /\ \A k : Does(bs2, c, k) = Does(bs, c, k) /\ Of(bs2, c, k) = Of(bs, c, k)

LEMMA EnterKept ==
  ASSUME NEW bs, NEW n, NEW bs2, NEW role, NEW role2, NEW named,
         Enters(bs, n, bs2, role, role2), bs \in Seq(Blocks)
  PROVE  Kept(bs, role, named, bs2, role2, named) /\ Alike(bs, n, bs2)
<1>a. /\ n \in Nat /\ n = Len(bs) /\ Len(bs2) = n + 1 /\ \A c \in 1 .. n : bs2[c] = bs[c]
      /\ \A c \in 1 .. n : role2[c] = role[c]
  BY DEF Enters
<1>1. \A c \in 1 .. n : /\ Par(bs2, c) = Par(bs, c) /\ Long(bs2, c) = Long(bs, c)
                        /\ \A k : Does(bs2, c, k) = Does(bs, c, k) /\ Of(bs2, c, k) = Of(bs, c, k)
  BY <1>a DEF Par, Long, Does, Of
<1>2. \A c \in 1 .. n : Ends(bs2, c) = Ends(bs, c)
  BY <1>1 DEF Ends
<1>3. \A c \in 1 .. n : Long(bs, c) <= Long(bs2, c)
  <2> SUFFICES ASSUME NEW c \in 1 .. n PROVE Long(bs, c) <= Long(bs2, c)
    OBVIOUS
  <2>1. Long(bs, c) \in Nat
    BY <1>a, BlocksFacts
  <2> QED BY <2>1, <1>1
<1>4. Alike(bs, n, bs2)
  BY <1>1, <1>2 DEF Alike
<1>5. Len(bs) <= Len(bs2)
  BY <1>a
<1> QED BY <1>a, <1>1, <1>3, <1>4, <1>5 DEF Kept

LEMMA EnterCore ==
  ASSUME NEW x, NEW bs, NEW n, NEW bs2, NEW role, NEW role2, NEW named, NEW k, NEW j,
         Core(x, bs, role, 0, {}, j, named), j \in Nat, k = j + 1, Entered(bs, n, k, bs2),
         \A c \in 1 .. n : role2[c] = role[c], role2[n + 1] = Plainly(x.settle[k + 1]),
         x.source[k].op = "function",
         \A i \in DOMAIN x.source : x.source[i].op = "goto" => x.source[i].to \in DOMAIN named
  PROVE  Core(x, bs2, role2, n + 1, {}, k, named)
<1>0. bs \in Seq(Blocks) /\ k \in Nat
  BY DEF Core
<1>1. /\ bs2 \in Seq(Blocks) /\ n \in Nat /\ n = Len(bs) /\ Len(bs2) = n + 1
      /\ \A c \in 1 .. n : bs2[c] = bs[c]
      /\ Par(bs2, n + 1) = k /\ Long(bs2, n + 1) = 0
  BY <1>0, EnterFacts
<1>2. /\ Kept(bs, role, named, bs2, role2, named)
      /\ \A c \in 1 .. n : /\ Par(bs2, c) = Par(bs, c) /\ Long(bs2, c) = Long(bs, c) /\ Ends(bs2, c) = Ends(bs, c)
                           /\ \A i : Does(bs2, c, i) = Does(bs, c, i) /\ Of(bs2, c, i) = Of(bs, c, i)
  <2>1. Enters(bs, n, bs2, role, role2)
    BY <1>1 DEF Enters
  <2>2. Kept(bs, role, named, bs2, role2, named) /\ Alike(bs, n, bs2)
    BY <1>0, <2>1, EnterKept
  <2> QED BY <2>2 DEF Alike
<1>3. \A c \in 1 .. n + 1 : c \in 1 .. n \/ c = n + 1
  BY <1>1
<1>4. /\ role2[n + 1].goal = x.settle[k + 1] /\ role2[n + 1].claims = {}
  BY DEF Plainly
<1>5. \A c \in 1 .. n : BlockOK(x, bs, role, 0, j, c)
  BY <1>1 DEF Core
<1>6. \A c \in 1 .. n : Par(bs, c) \in 0 .. j /\ Par(bs, c) # k /\ (Long(bs, c) # 0 => Par(bs, c) # 0)
  <2> SUFFICES ASSUME NEW c \in 1 .. n PROVE Par(bs, c) \in 0 .. j /\ Par(bs, c) # k /\ (Long(bs, c) # 0 => Par(bs, c) # 0)
    OBVIOUS
  <2>1. Par(bs, c) = 0 \/ Par(bs, c) \in 1 .. j
    BY <1>5 DEF BlockOK
  <2>2. Par(bs, c) \in 0 .. j /\ Par(bs, c) # k
    BY <2>1
  <2> QED BY <2>2, <1>5 DEF BlockOK
<1>7. \A c \in 1 .. Len(bs2) : BlockOK(x, bs2, role2, n + 1, k, c)
  <2> SUFFICES ASSUME NEW c \in 1 .. n + 1 PROVE BlockOK(x, bs2, role2, n + 1, k, c)
    BY <1>1
  <2>1. CASE c = n + 1
    <3>1. k \in 1 .. k /\ k # 0
      BY <1>0
    <3> QED BY <2>1, <3>1, <1>1 DEF BlockOK
  <2>2. CASE c \in 1 .. n
    <3>1. BlockOK(x, bs, role, 0, j, c)
      BY <2>2, <1>5
    <3>2. \A f \in 1 .. j : f \in 1 .. k
      OBVIOUS
    <3>3. c # 0
      BY <2>2
    <3> QED BY <2>2, <3>1, <3>2, <3>3, <1>2 DEF BlockOK
  <2> QED BY <2>1, <2>2, <1>3
<1>8. \A c \in 1 .. Len(bs2) : \A i \in 1 .. Long(bs2, c) : c \in 1 .. n /\ i \in 1 .. Long(bs, c)
  BY <1>1, <1>2, <1>3
<1>9. \A c \in 1 .. Len(bs2) : \A i \in 1 .. Long(bs2, c) : InstrOK(x, bs2, role2, named, c, i)
  <2> SUFFICES ASSUME NEW c \in 1 .. Len(bs2), NEW i \in 1 .. Long(bs2, c)
               PROVE  InstrOK(x, bs2, role2, named, c, i)
    OBVIOUS
  <2>1. c \in 1 .. Len(bs) /\ i \in 1 .. Long(bs, c)
    BY <1>1, <1>8
  <2>2. Par(bs, c) # 0
    <3>1. Long(bs, c) # 0
      BY <2>1
    <3> QED BY <3>1, <2>1, <1>1, <1>6
  <2>3. InstrOK(x, bs, role, named, c, i)
    BY <2>1 DEF Core
  <2> QED BY <2>1, <2>2, <2>3, <1>0, <1>1, <1>2, InstrKept
<1>10. \A c \in 1 .. Len(bs2) : \A i \in 1 .. Long(bs2, c) - 1 : FlowOK(x, bs2, c, i)
  <2> SUFFICES ASSUME NEW c \in 1 .. Len(bs2), NEW i \in 1 .. Long(bs2, c) - 1
               PROVE  FlowOK(x, bs2, c, i)
    OBVIOUS
  <2>0. Long(bs2, c) \in Nat
    BY <1>1, BlocksFacts
  <2>1. i \in 1 .. Long(bs2, c)
    BY <2>0
  <2>2. c \in 1 .. n /\ Long(bs2, c) = Long(bs, c)
    BY <2>1, <1>8, <1>2
  <2>3. FlowOK(x, bs, c, i)
    BY <2>2, <1>1 DEF Core
  <2> QED BY <2>2, <2>3, <1>2 DEF FlowOK
<1>11. \A c \in 1 .. Len(bs2) : \A i \in 1 .. Long(bs2, c) : TargetOK(x, bs2, n + 1, {}, named, c, i)
  <2> SUFFICES ASSUME NEW c \in 1 .. Len(bs2), NEW i \in 1 .. Long(bs2, c)
               PROVE  TargetOK(x, bs2, n + 1, {}, named, c, i)
    OBVIOUS
  <2>1. c \in 1 .. Len(bs) /\ c \in 1 .. n /\ i \in 1 .. Long(bs, c)
    BY <1>1, <1>8
  <2>2. TargetOK(x, bs, 0, {}, named, c, i) /\ InstrOK(x, bs, role, named, c, i)
    BY <2>1 DEF Core
  <2>3. Targets(Does(bs, c, i)) \subseteq 1 .. n
    BY <2>2, <1>1, TargetsOfInstr
  <2> QED BY <2>1, <2>2, <2>3, <1>2 DEF TargetOK
<1>12. ASSUME NEW f \in 1 .. k, x.source[f].op = "function"
       PROVE  \E e \in 1 .. Len(bs2) : EntryOK(x, bs2, role2, n + 1, f, e)
  <2>1. CASE f = k
    <3>1. n + 1 \in 1 .. Len(bs2) /\ n + 1 <= n + 1
      BY <1>1
    <3>2. \A c \in 1 .. Len(bs2) : Par(bs2, c) = k => c = n + 1
      BY <1>1, <1>2, <1>3, <1>6
    <3>3. \A c \in 1 .. Len(bs2) : Par(bs2, c) = k => n + 1 <= c
      BY <3>1, <3>2
    <3>4. \A S : ClosedFrom(bs2, n + 1, k, n + 1, S) => \A c \in 1 .. Len(bs2) : Par(bs2, c) = k => c \in S
      BY <3>2 DEF ClosedFrom
    <3>5. EntryOK(x, bs2, role2, n + 1, k, n + 1)
      BY <3>3, <3>4, <1>1, <1>4 DEF EntryOK
    <3> QED BY <3>1, <3>5, <2>1
  <2>2. CASE f # k
    <3>1. f \in 1 .. j
      BY <2>2
    <3>2. PICK e \in 1 .. Len(bs) : EntryOK(x, bs, role, 0, f, e)
      BY <3>1, <1>12 DEF Core
    <3>3. e \in 1 .. n /\ e \in 1 .. Len(bs2)
      BY <3>2, <1>1
    <3>4. \A c \in 1 .. Len(bs2) : Par(bs2, c) = f => c \in 1 .. n /\ Par(bs, c) = f
      BY <2>2, <1>1, <1>2, <1>3
    <3>5. Cross(bs2) \/ \A c \in 1 .. Len(bs2) : Par(bs2, c) = f => e <= c
      <4>1. CASE Cross(bs)
        BY <4>1, <1>0, <1>1, <1>2, CrossKept
      <4>2. CASE \A c \in 1 .. Len(bs) : Par(bs, c) = f => e <= c
        BY <4>2, <3>4, <1>1
      <4> QED BY <4>1, <4>2, <3>2 DEF EntryOK
    <3>6. ASSUME NEW S, ClosedFrom(bs2, n + 1, f, e, S)
          PROVE  \A c \in 1 .. Len(bs2) : Par(bs2, c) = f => c \in S
      <4>1. e \in S /\ \A c \in 1 .. Len(bs2) : c \in S /\ Par(bs2, c) = f /\ c # n + 1 => Ends(bs2, c) \subseteq S
        BY <3>6 DEF ClosedFrom
      <4>2. \A c \in 1 .. n : c \in 1 .. Len(bs2) /\ c # n + 1
        BY <1>1
      <4>3. \A c \in 1 .. n : c \in S /\ Par(bs, c) = f => Ends(bs, c) \subseteq S
        BY <4>1, <4>2, <1>2
      <4>4. ClosedFrom(bs, 0, f, e, S)
        BY <4>1, <4>3, <1>1 DEF ClosedFrom
      <4>5. \A c \in 1 .. Len(bs) : Par(bs, c) = f => c \in S
        BY <4>4, <3>2 DEF EntryOK
      <4> QED BY <4>5, <3>4, <1>1
    <3>7. Par(bs2, e) = f /\ role2[e].goal = x.settle[f + 1] /\ role2[e].claims = {}
      BY <3>2, <3>3, <1>2 DEF EntryOK
    <3>8. EntryOK(x, bs2, role2, n + 1, f, e)
      BY <3>5, <3>6, <3>7 DEF EntryOK
    <3> QED BY <3>3, <3>8
  <2> QED BY <2>1, <2>2
<1> QED BY <1>1, <1>7, <1>9, <1>10, <1>11, <1>12 DEF Core

LEMMA EnterNamed ==
  ASSUME NEW x, NEW bs, NEW n, NEW bs2, NEW role, NEW role2, NEW named, NEW j,
         NamedOK(x, bs, role, {}, j, named), Enters(bs, n, bs2, role, role2), bs \in Seq(Blocks),
         j \in Nat, x.source[j + 1].label \notin Labels
  PROVE  NamedOK(x, bs2, role2, {}, j + 1, named)
<1>1. /\ n \in Nat /\ n = Len(bs) /\ Len(bs2) = n + 1
      /\ \A c \in 1 .. n : role2[c] = role[c]
  BY DEF Enters
<1>2. \A c \in 1 .. n : /\ Par(bs2, c) = Par(bs, c) /\ Long(bs2, c) = Long(bs, c)
                        /\ \A i : Does(bs2, c, i) = Does(bs, c, i)
  <2>1. Alike(bs, n, bs2)
    BY EnterKept
  <2> QED BY <2>1 DEF Alike
<1>3. named \in [Labels -> 0 .. n]
  BY <1>1 DEF NamedOK
<1>4. named \in [Labels -> 0 .. Len(bs2)]
  <2>1. \A t \in 0 .. n : t \in 0 .. n + 1
    BY <1>1
  <2> QED BY <2>1, <1>1, <1>3
<1>5. ASSUME NEW l \in Labels, named[l] # 0 PROVE LabelOK(x, bs2, role2, {}, j, named[l], l)
  <2>1. PICK t : t = named[l]
    OBVIOUS
  <2>2. t \in 1 .. n
    BY <2>1, <1>1, <1>3, <1>5
  <2>3. LabelOK(x, bs, role, {}, j, t, l)
    BY <2>1, <1>5 DEF NamedOK
  <2>4. \A c \in 1 .. t - 1 : c \in 1 .. n
    BY <2>2, <1>1
  <2>5. role2[t] = role[t] /\ Par(bs2, t) = Par(bs, t)
    BY <2>2, <1>1, <1>2
  <2>6. ASSUME Par(bs, t) = 0
        PROVE  /\ role[t].goal = x.first[l] /\ \A h \in 1 .. j : x.source[h].label # l
               /\ \E c \in 1 .. t - 1 : \E i \in 1 .. Long(bs2, c) : t \in Targets(Does(bs2, c, i))
    <3>1. /\ role[t].goal = x.first[l] /\ \A h \in 1 .. j : x.source[h].label # l
          /\ \E c \in 1 .. t - 1 : \E i \in 1 .. Long(bs, c) : t \in Targets(Does(bs, c, i))
      BY <2>3, <2>6 DEF LabelOK
    <3>2. PICK c \in 1 .. t - 1 : \E i \in 1 .. Long(bs, c) : t \in Targets(Does(bs, c, i))
      BY <3>1
    <3>3. \E i \in 1 .. Long(bs2, c) : t \in Targets(Does(bs2, c, i))
      BY <3>2, <2>4, <1>2
    <3> QED BY <3>1, <3>3
  <2>7. Par(bs, t) # 0 => \E h \in 1 .. j : x.source[h].label = l /\ role[t].goal = h /\ x.within[h] = Par(bs, t)
    BY <2>3 DEF LabelOK
  <2>8. role[t].claims = {} /\ t \notin {}
    BY <2>3 DEF LabelOK
  <2>9. LabelOK(x, bs2, role2, {}, j, t, l)
    BY <2>5, <2>6, <2>7, <2>8 DEF LabelOK
  <2> QED BY <2>1, <2>9
<1>6. NamedOK(x, bs2, role2, {}, j, named)
  BY <1>4, <1>5 DEF NamedOK
<1> QED BY <1>6, NamedNext

LEMMA CreateHere ==
  ASSUME NEW k, NEW b, NEW e, NEW n,
         blocks \in Seq(Blocks), k \in Nat, b = Create(Builder, k), e = SetInsert(b, Len(b.blocks)), n = Len(blocks)
  PROVE  /\ Entered(blocks, n, k, e.blocks) /\ e.insert = n + 1 /\ e.broken = broken
         /\ e = [blocks |-> e.blocks, insert |-> e.insert, last |-> Absent, broken |-> broken]
<1>1. PICK bs2 : bs2 = Append(blocks, [parent |-> k, code |-> <<>>])
  OBVIOUS
<1>2. Entered(blocks, n, k, bs2)
  BY <1>1 DEF Entered
<1>3. Len(bs2) = n + 1
  BY <1>2, EnterFacts
<1>4. b = [blocks |-> bs2, insert |-> insert, last |-> Absent, broken |-> broken]
  BY <1>1 DEF Create, Builder
<1>5. b.blocks = bs2
  BY <1>4
<1>6. e = [b EXCEPT !.insert = n + 1]
  BY <1>3, <1>5 DEF SetInsert
<1>7. e = [blocks |-> bs2, insert |-> n + 1, last |-> Absent, broken |-> broken]
  BY <1>4, <1>6
<1>8. e.blocks = bs2 /\ e.insert = n + 1 /\ e.broken = broken
  BY <1>7
<1> QED BY <1>2, <1>7, <1>8

FunctionMade(k, b, e) == b = Create(Builder, k) /\ e = SetInsert(b, Len(b.blocks))

LEMMA FunctionStep ==
  ASSUME NEW x, NEW n, NEW k, NEW role, NEW b, NEW e,
         Sourced(x, n, k), x.source[k].op = "function", PendAt(x, k, pending), broken = FALSE,
         OutAt(x, k, blocks, namedBlocks, role), FunctionMade(k, b, e)
  PROVE  Leading(x, k, e, namedBlocks, pending)
<1>1. k \in Nat \ {0} /\ k \in 1 .. n /\ x.source = program /\ n = Len(program) /\ WholeSource /\ x = Context
  BY OpenedFacts DEF Sourced
<1>2. PICK j \in Nat : k = j + 1
  <2>1. k - 1 \in Nat /\ k = (k - 1) + 1
    BY <1>1
  <2> QED BY <2>1
<1>3. k - 1 = j /\ (k + 1) - 1 = k
  BY <1>2
<1>4. Core(x, blocks, role, 0, {}, j, namedBlocks) /\ NamedOK(x, blocks, role, {}, j, namedBlocks)
  BY <1>3 DEF OutAt
<1>5. blocks \in Seq(Blocks)
  BY <1>4 DEF Core
<1>6. PICK h : h = Len(blocks)
  OBVIOUS
<1>7. Entered(blocks, h, k, e.blocks) /\ e.insert = h + 1 /\ e.broken = FALSE
  <2>1. Entered(blocks, h, k, e.blocks) /\ e.insert = h + 1 /\ e.broken = broken
    BY <1>1, <1>5, <1>6, CreateHere DEF FunctionMade
  <2> QED BY <2>1
<1>8. PICK bs2 : bs2 = e.blocks
  OBVIOUS
<1>9. /\ bs2 \in Seq(Blocks) /\ h \in Nat /\ h = Len(blocks) /\ Len(bs2) = h + 1
      /\ \A c \in 1 .. h : bs2[c] = blocks[c]
      /\ Par(bs2, h + 1) = k /\ Long(bs2, h + 1) = 0
  BY <1>1, <1>5, <1>7, <1>8, EnterFacts
<1>10. PICK role2 : role2 = NewRole(role, h, Plainly(x.settle[k + 1]))
  OBVIOUS
<1>11. (\A c \in 1 .. h : role2[c] = role[c]) /\ role2[h + 1] = Plainly(x.settle[k + 1])
  BY <1>9, <1>10 DEF NewRole
<1>12. \A i \in 1 .. n : ItemAt(x, n, i)
  BY <1>1, ContextFacts
<1>13. \A i \in DOMAIN x.source : x.source[i].op = "goto" => x.source[i].to \in DOMAIN namedBlocks
  <2>1. DOMAIN x.source = 1 .. n
    BY <1>1, ContextFacts
  <2>2. DOMAIN namedBlocks = Labels
    BY <1>4 DEF NamedOK
  <2> QED BY <2>1, <2>2, <1>12 DEF ItemAt, ItemOK
<1>14. Core(x, bs2, role2, h + 1, {}, k, namedBlocks)
  BY <1>2, <1>4, <1>7, <1>8, <1>11, <1>13, EnterCore
<1>15. ItemAt(x, n, k)
  BY <1>1, <1>12
<1>16. NamedOK(x, bs2, role2, {}, k, namedBlocks)
  <2>1. x.source[j + 1].label \notin Labels
    BY <1>2, <1>15, BlocksAssumption DEF ItemAt, ItemOK
  <2>2. Enters(blocks, h, bs2, role, role2)
    BY <1>9, <1>11 DEF Enters
  <2>3. NamedOK(x, bs2, role2, {}, j + 1, namedBlocks)
    BY <1>4, <1>5, <2>1, <2>2, EnterNamed
  <2> QED BY <2>3, <1>2
<1>17. x.within[k + 1] = k
  BY <1>15 DEF ItemAt
<1>18. pending = <<>> /\ PendAt(x, k + 1, pending)
  BY PendEnd
<1>19. PendOK(x, bs2, role2, h + 1, pending)
  <2>1. \A q : q \notin 1 .. Len(<<>>)
    OBVIOUS
  <2> QED BY <2>1, <1>18 DEF PendOK
<1>20. Ready(x, bs2, role2, h + 1, x.settle[k + 1])
  BY <1>9, <1>11 DEF Ready, Plainly
<1>21. Waiting(pending) = {}
  BY <1>18, NothingWaits
<1>22. InAt(x, k + 1, bs2, h + 1, namedBlocks, pending, role2)
  <2>1. h + 1 \in 1 .. Len(bs2) /\ Par(bs2, h + 1) = x.within[k + 1]
    BY <1>9, <1>17
  <2>2. Core(x, bs2, role2, h + 1, Waiting(pending), (k + 1) - 1, namedBlocks)
    BY <1>14, <1>21, <1>3
  <2>3. NamedOK(x, bs2, role2, Waiting(pending), (k + 1) - 1, namedBlocks)
    BY <1>16, <1>21, <1>3
  <2> QED BY <2>1, <2>2, <2>3, <1>19, <1>20 DEF InAt
<1>23. InAt(x, k + 1, e.blocks, e.insert, namedBlocks, pending, role2)
  BY <1>22, <1>7, <1>8
<1> QED BY <1>7, <1>18, <1>23 DEF Leading

-----------------------------------------------------------------------------
(* Items with a label *)

(* A block that a label is put on a second time.                            *)
Breaking(x, k, b, e, named2, pend2) ==
  /\ e.broken = TRUE /\ ~WellLabelled /\ Grown(b, e)
  /\ named2 \in [Labels -> 0 .. Len(e.blocks)] /\ PendAt(x, k + 1, pend2)

Stepped(x, k, b, e, named2, pend2) ==
  Leading(x, k, e, named2, pend2) \/ Breaking(x, k, b, e, named2, pend2)

(* The visit of a statement begins.                                         *)
Beginning(x, n, k, b, l, e, named2, role) ==
  /\ Visiting(x, n, k) /\ Accepting(b, l, e, named2) /\ l = program[k].label /\ broken = FALSE
  /\ InAt(x, k, blocks, insert, namedBlocks, pending, role) /\ PendAt(x, k, pending)
  /\ program[k].op \in {"assign", "return", "goto", "if"}

(* The label was on an item before.                                         *)
Again(x, n, k, b, e, named2) ==
  /\ e.broken = TRUE /\ ~WellLabelled /\ Grown(b, e) /\ named2 \in [Labels -> 0 .. Len(e.blocks)]
  /\ PendAt(x, k, pending) /\ Sourced(x, n, k) /\ ItemOK(x.source[k]) /\ x.source = program

LEMMA Begin ==
  ASSUME NEW x, NEW n, NEW k, NEW b, NEW l, NEW e, NEW named2, NEW role,
         Beginning(x, n, k, b, l, e, named2, role)
  PROVE  \/ \E role2 : AtItem(x, n, k, e, role2, named2)
         \/ Again(x, n, k, b, e, named2)
<1>1. /\ Visiting(x, n, k) /\ Accepting(b, l, e, named2) /\ l = program[k].label /\ broken = FALSE
      /\ InAt(x, k, blocks, insert, namedBlocks, pending, role) /\ PendAt(x, k, pending)
      /\ program[k].op \in {"assign", "return", "goto", "if"}
  BY DEF Beginning
<1>2. /\ ItemAt(x, n, k) /\ x.source = program /\ k \in Nat
      /\ x.settle[k] = Settle[pc] /\ x.settle[k] \in Nat
  BY <1>1, VisitingFacts
<1>3. x.settle[k] = k
  BY <1>1, <1>2 DEF ItemAt
<1>4. \/ e.broken = FALSE /\ \E role2 : Mid(x, e, role2, Waiting(pending), k - 1, named2, k, k, pending)
      \/ e.broken = TRUE /\ ~WellLabelled
  BY <1>1, <1>3, BlocksAssumption, AcceptMid
<1>5. CASE e.broken = FALSE /\ \E role2 : Mid(x, e, role2, Waiting(pending), k - 1, named2, k, k, pending)
  BY <1>1, <1>3, <1>5 DEF AtItem
<1>6. CASE e.broken = TRUE /\ ~WellLabelled
  <2>1. b \in Builders /\ b.blocks = blocks
    <3>1. blocks \in Seq(Blocks) /\ insert \in 1 .. Len(blocks)
      BY <1>1 DEF InAt, Core
    <3>2. b = Builder /\ broken \in BOOLEAN
      BY <1>1 DEF Accepting
    <3> QED BY <3>1, <3>2, BuilderHere
  <2>2. namedBlocks \in [Labels -> 0 .. Len(b.blocks)]
    <3>1. NamedOK(x, blocks, role, Waiting(pending), k - 1, namedBlocks)
      BY <1>1 DEF InAt
    <3> QED BY <3>1, <2>1 DEF NamedOK
  <2>3. l \in Labels \cup {Absent}
    BY <1>1, <1>2 DEF ItemAt, ItemOK
  <2>4. Grown(b, e) /\ named2 \in [Labels -> 0 .. Len(e.blocks)]
    BY <1>1, <1>2, <2>1, <2>2, <2>3, BlocksAssumption, AcceptGrown
  <2>5. Sourced(x, n, k) /\ ItemOK(x.source[k]) /\ x.source = program
    BY <1>1, <1>2 DEF Visiting, Sourced, ItemAt
  <2> QED BY <1>1, <1>6, <2>4, <2>5 DEF Again
<1> QED BY <1>4, <1>5, <1>6

(* Whatever else is made then.                                              *)
LEMMA BreakOn ==
  ASSUME NEW x, NEW n, NEW k, NEW b, NEW e, NEW named2, NEW d, NEW named3, NEW pend2,
         Again(x, n, k, b, e, named2), b \in Builders, Grown(e, d), PendAt(x, k + 1, pend2),
         named3 \in [Labels -> 0 .. Len(d.blocks)]
  PROVE  Breaking(x, k, b, d, named3, pend2)
<1>1. Grown(b, e) /\ e.broken = TRUE /\ ~WellLabelled
  BY DEF Again
<1>2. Grown(b, d)
  BY <1>1, GrownTrans
<1>3. d.broken = TRUE
  <2>1. e.broken => d.broken
    BY DEF Grown
  <2>2. d \in Builders
    BY DEF Grown
  <2>3. d.broken \in BOOLEAN
    BY <2>2, BuilderFacts
  <2> QED BY <1>1, <2>1, <2>3
<1> QED BY <1>1, <1>2, <1>3 DEF Breaking

LEMMA NamedGrown ==
  ASSUME NEW named2, NEW e, NEW d, named2 \in [Labels -> 0 .. Len(e.blocks)], e \in Builders, Grown(e, d)
  PROVE  named2 \in [Labels -> 0 .. Len(d.blocks)]
<1>1. Len(e.blocks) \in Nat /\ Len(d.blocks) \in Nat /\ Len(e.blocks) <= Len(d.blocks)
  BY BuilderFacts DEF Grown
<1>2. \A t \in 0 .. Len(e.blocks) : t \in 0 .. Len(d.blocks)
  BY <1>1
<1> QED BY <1>2

LEMMA AgainFacts ==
  ASSUME NEW x, NEW n, NEW k, NEW b, NEW e, NEW named2, k = pc,
         Again(x, n, k, b, e, named2)
  PROVE  /\ Grown(b, e) /\ e \in Builders /\ named2 \in [Labels -> 0 .. Len(e.blocks)]
         /\ PendAt(x, k, pending) /\ Sourced(x, n, k) /\ ItemOK(x.source[k]) /\ x.source = program
         /\ \E p \in Nat : p = Settle[pc]
<1>1. /\ Grown(b, e) /\ named2 \in [Labels -> 0 .. Len(e.blocks)]
      /\ PendAt(x, k, pending) /\ Sourced(x, n, k) /\ ItemOK(x.source[k]) /\ x.source = program
  BY DEF Again
<1>2. e \in Builders
  BY <1>1 DEF Grown
<1>3. \E p \in Nat : p = Settle[pc]
  <2>1. WholeSource /\ k \in 1 .. Len(program)
    BY <1>1 DEF Sourced
  <2>2. Settle[k] \in k .. Len(program)
    BY <2>1, SettleFacts
  <2>3. k \in Nat
    BY <2>1
  <2>4. Settle[k] \in Nat
    BY <2>2, <2>3
  <2> QED BY <2>4
<1> QED BY <1>1, <1>2, <1>3

LEMMA AssignStep ==
  ASSUME NEW x, NEW n, NEW k, NEW b, NEW l, NEW e, NEW named2, NEW role, NEW d,
         Beginning(x, n, k, b, l, e, named2, role), x.source[k].op = "assign",
         d = Emit(e, StoreOf(x.source[k])), b \in Builders, k = pc
  PROVE  Stepped(x, k, b, d, named2, pending)
<1>1. CASE \E role2 : AtItem(x, n, k, e, role2, named2)
  <2>1. PICK role2 : AtItem(x, n, k, e, role2, named2)
    BY <1>1
  <2>2. Leading(x, k, d, named2, pending)
    BY <2>1, StoreStep
  <2> QED BY <2>2 DEF Stepped
<1>2. CASE Again(x, n, k, b, e, named2)
  <2>1. /\ e \in Builders /\ named2 \in [Labels -> 0 .. Len(e.blocks)]
        /\ PendAt(x, k, pending) /\ Sourced(x, n, k) /\ ItemOK(x.source[k])
        /\ \E p \in Nat : p = Settle[pc]
    BY <1>2, AgainFacts
  <2>2. StoreOf(x.source[k]) \in Instructions
    BY <2>1 DEF StoreOf, ItemOK, Instructions
  <2>3. Grown(e, d)
    BY <2>1, <2>2, GrownEmit
  <2>4. PendAt(x, k + 1, pending)
    BY <2>1, PendPlain
  <2>5. named2 \in [Labels -> 0 .. Len(d.blocks)]
    BY <2>1, <2>3, NamedGrown
  <2>6. Breaking(x, k, b, d, named2, pending)
    BY <1>2, <2>3, <2>4, <2>5, BreakOn
  <2> QED BY <2>6 DEF Stepped
<1> QED BY <1>1, <1>2, Begin

(* Any visit of an expression.                                              *)
LEMMA VisitGrown ==
  ASSUME NEW b, NEW v, NEW r, NEW p \in Nat,
         b \in Builders, v \in Expressions, r = Visit(b, v), p = Settle[pc]
  PROVE  Grown(b, r) /\ r.last \in Operands /\ r \in Builders
<1>1. PICK visit : VisitsAreRows(visit) /\ \A e \in Expressions : \A c : Visit(c, e) = visit[e][c]
  BY VisitUnfold
<1>2. Sound(b, visit[v][b])
  BY <1>1, VisitsSound
<1>3. r = visit[v][b]
  BY <1>1
<1>4. Sound(b, r)
  BY <1>2, <1>3
<1> QED BY <1>4 DEF Sound, Grown

LEMMA ReturnStep ==
  ASSUME NEW x, NEW n, NEW k, NEW b, NEW l, NEW e, NEW named2, NEW role, NEW r, NEW d,
         Beginning(x, n, k, b, l, e, named2, role), Returning(x, k, e, r, d), b \in Builders, k = pc
  PROVE  Stepped(x, k, b, d, named2, pending)
<1>1. CASE \E role2 : AtItem(x, n, k, e, role2, named2)
  <2>1. PICK role2 : AtItem(x, n, k, e, role2, named2)
    BY <1>1
  <2>2. Leading(x, k, d, named2, pending)
    BY <2>1, RetStep
  <2> QED BY <2>2 DEF Stepped
<1>2. CASE Again(x, n, k, b, e, named2)
  <2>1. /\ e \in Builders /\ named2 \in [Labels -> 0 .. Len(e.blocks)]
        /\ PendAt(x, k, pending) /\ Sourced(x, n, k) /\ ItemOK(x.source[k])
        /\ \E p \in Nat : p = Settle[pc]
    BY <1>2, AgainFacts
  <2>2. x.source[k].op = "return"
    BY DEF Returning
  <2>v. PICK v : v = x.source[k].value
    OBVIOUS
  <2>3. v \in Expressions
    BY <2>1, <2>2, <2>v, BlocksAssumption DEF ItemOK
  <2>4. r = Visit(e, v) /\ d = Emit(r, RetOf(r.last))
    BY <2>v DEF Returning
  <2>5. Grown(e, r) /\ r.last \in Operands /\ r \in Builders
    BY <2>1, <2>3, <2>4, VisitGrown
  <2>6. RetOf(r.last) \in Instructions
    BY <2>5 DEF RetOf, Instructions
  <2>7. Grown(r, d)
    BY <2>1, <2>4, <2>5, <2>6, GrownEmit
  <2>8. Grown(e, d)
    BY <2>1, <2>5, <2>7, GrownTrans
  <2>9. PendAt(x, k + 1, pending)
    BY <2>1, <2>2, PendPlain
  <2>10. named2 \in [Labels -> 0 .. Len(d.blocks)]
    BY <2>1, <2>8, NamedGrown
  <2>11. Breaking(x, k, b, d, named2, pending)
    BY <1>2, <2>8, <2>9, <2>10, BreakOn
  <2> QED BY <2>11 DEF Stepped
<1> QED BY <1>1, <1>2, Begin

(* What a goto makes: d is the builder and block the one it goes to.        *)
Going(x, k, e, named2, c, block, d, named3) ==
  /\ x.source[k].op = "goto"
  /\ c = IF named2[x.source[k].to] # NoBlock THEN e ELSE Create(e, Detached)
  /\ block = IF named2[x.source[k].to] # NoBlock THEN named2[x.source[k].to] ELSE Len(c.blocks)
  /\ d = Emit(c, Br(block))
  /\ named3 = [named2 EXCEPT ![x.source[k].to] = block]

LEMMA GoingKnown ==
  ASSUME NEW x, NEW k, NEW e, NEW named2, NEW c, NEW block, NEW d, NEW named3, NEW R,
         Going(x, k, e, named2, c, block, d, named3), named2[x.source[k].to] # 0,
         named2 \in [Labels -> R]
  PROVE  Known(x, k, e, named2, block, d) /\ named3 = named2
<1>1. /\ x.source[k].op = "goto" /\ c = e /\ block = named2[x.source[k].to] /\ d = Emit(e, Br(block))
      /\ named3 = [named2 EXCEPT ![x.source[k].to] = block]
  BY DEF Going, NoBlock
<1>2. named3 = named2
  BY <1>1
<1> QED BY <1>1, <1>2 DEF Known

LEMMA GoingUnknown ==
  ASSUME NEW x, NEW k, NEW e, NEW named2, NEW c, NEW block, NEW d, NEW named3,
         Going(x, k, e, named2, c, block, d, named3), named2[x.source[k].to] = 0, e \in Builders
  PROVE  \E l, h, y : Unknown(x, k, e, named2, named3, l, h, y, d) /\ block = h + 1 /\ h \in Nat
<1>1. PICK l, h : l = x.source[k].to /\ h = Len(e.blocks)
  OBVIOUS
<1>2. /\ x.source[k].op = "goto" /\ c = Create(e, Detached) /\ block = Len(c.blocks) /\ d = Emit(c, Br(block))
      /\ named3 = [named2 EXCEPT ![l] = block]
  BY <1>1 DEF Going, NoBlock
<1>3. Len(c.blocks) = h + 1 /\ h \in Nat
  BY <1>1, <1>2, CreateFacts DEF Detached
<1>4. block = h + 1
  BY <1>2, <1>3
<1>5. d = Emit(Create(e, Detached), Br(h + 1)) /\ named3 = [named2 EXCEPT ![l] = h + 1]
  BY <1>2, <1>4
<1>6. NewLabel(e, h, Br(h + 1), d)
  BY <1>1, <1>5 DEF NewLabel
<1>7. named2[l] = 0
  BY <1>1
<1>8. Unknown(x, k, e, named2, named3, l, h, Br(h + 1), d)
  BY <1>1, <1>2, <1>5, <1>6, <1>7 DEF Unknown
<1> QED BY <1>3, <1>4, <1>8

LEMMA GoingGrown ==
  ASSUME NEW x, NEW k, NEW e, NEW named2, NEW c, NEW block, NEW d, NEW named3, NEW p \in Nat,
         Going(x, k, e, named2, c, block, d, named3), e \in Builders, ItemOK(x.source[k]),
         named2 \in [Labels -> 0 .. Len(e.blocks)], p = Settle[pc]
  PROVE  Grown(e, d) /\ named3 \in [Labels -> 0 .. Len(d.blocks)]
<1>1. PICK l : l = x.source[k].to
  OBVIOUS
<1>2. l \in Labels
  BY <1>1 DEF ItemOK, Going
<1>3. /\ c = IF named2[l] # 0 THEN e ELSE Create(e, Detached)
      /\ block = IF named2[l] # 0 THEN named2[l] ELSE Len(c.blocks)
      /\ d = Emit(c, Br(block)) /\ named3 = [named2 EXCEPT ![l] = block]
  BY <1>1 DEF Going, NoBlock
<1>4. Grown(e, c)
  <2>1. CASE named2[l] # 0
    BY <2>1, <1>3, GrownSame
  <2>2. CASE named2[l] = 0
    <3>1. 0 \in Nat /\ 0 \in Parents(e)
      BY DEF Parents
    <3> QED BY <2>2, <3>1, <1>3, GrownCreate DEF Detached
  <2> QED BY <2>1, <2>2
<1>5. c \in Builders /\ Len(c.blocks) \in Nat /\ Len(e.blocks) \in Nat /\ Len(e.blocks) <= Len(c.blocks)
  BY <1>4, BuilderFacts DEF Grown
<1>6. block \in 0 .. Len(c.blocks)
  <2>1. CASE named2[l] # 0
    BY <2>1, <1>2, <1>3, <1>5
  <2>2. CASE named2[l] = 0
    BY <2>2, <1>3, <1>5
  <2> QED BY <2>1, <2>2
<1>7. Grown(c, d) /\ Len(d.blocks) = Len(c.blocks)
  <2>1. Br(block) \in Instructions
    BY <1>5, <1>6, BranchType
  <2> QED BY <2>1, <1>3, <1>5, GrownEmit
<1>8. named3 \in [Labels -> 0 .. Len(d.blocks)]
  <2>1. named2 \in [Labels -> 0 .. Len(c.blocks)]
    BY <1>4, NamedGrown
  <2> QED BY <2>1, <1>3, <1>6, <1>7
<1> QED BY <1>4, <1>7, <1>8, GrownTrans

LEMMA GotoStep ==
  ASSUME NEW x, NEW n, NEW k, NEW b, NEW l, NEW e, NEW named2, NEW role, NEW c, NEW block, NEW d, NEW named3,
         Beginning(x, n, k, b, l, e, named2, role), Going(x, k, e, named2, c, block, d, named3), b \in Builders, k = pc
  PROVE  Stepped(x, k, b, d, named3, pending)
<1>1. CASE \E role2 : AtItem(x, n, k, e, role2, named2)
  <2>1. PICK role2 : AtItem(x, n, k, e, role2, named2)
    BY <1>1
  <2>2. PICK W, D : ItemFacts(x, n, k, e, role2, named2, W, D)
    BY <2>1, AtItemHas
  <2>3. e \in Builders /\ named2 \in [Labels -> 0 .. Len(e.blocks)]
    BY <2>2 DEF ItemFacts, NamedOK
  <2>4. CASE named2[x.source[k].to] # 0
    <3>0. PICK R : named2 \in [Labels -> R]
      BY <2>3
    <3>1. Known(x, k, e, named2, block, d) /\ named3 = named2
      BY <3>0, <2>4, GoingKnown
    <3>2. Leading(x, k, d, named2, pending)
      BY <2>1, <3>1, GotoKnown
    <3> QED BY <3>1, <3>2 DEF Stepped
  <2>5. CASE named2[x.source[k].to] = 0
    <3>1. PICK m, h, y : Unknown(x, k, e, named2, named3, m, h, y, d)
      BY <2>3, <2>5, GoingUnknown
    <3>2. Leading(x, k, d, named3, pending)
      BY <2>1, <3>1, GotoUnknown
    <3> QED BY <3>2 DEF Stepped
  <2> QED BY <2>4, <2>5
<1>2. CASE Again(x, n, k, b, e, named2)
  <2>1. /\ e \in Builders /\ named2 \in [Labels -> 0 .. Len(e.blocks)]
        /\ PendAt(x, k, pending) /\ Sourced(x, n, k) /\ ItemOK(x.source[k])
        /\ \E p \in Nat : p = Settle[pc]
    BY <1>2, AgainFacts
  <2>2. Grown(e, d) /\ named3 \in [Labels -> 0 .. Len(d.blocks)]
    BY <2>1, GoingGrown
  <2>3. x.source[k].op = "goto"
    BY DEF Going
  <2>4. PendAt(x, k + 1, pending)
    BY <2>1, <2>3, PendPlain
  <2>5. Breaking(x, k, b, d, named3, pending)
    BY <1>2, <2>2, <2>4, BreakOn
  <2> QED BY <2>5 DEF Stepped
<1> QED BY <1>1, <1>2, Begin

LEMMA IfsStep ==
  ASSUME NEW x, NEW n, NEW k, NEW b, NEW l, NEW e, NEW named2, NEW role, NEW r, NEW h, NEW y, NEW d, NEW open, NEW pend2,
         Beginning(x, n, k, b, l, e, named2, role), Branching(x, k, e, r, h, y, d, open, pending, pend2),
         b \in Builders, k = pc
  PROVE  Stepped(x, k, b, d, named2, pend2)
<1>1. CASE \E role2 : AtItem(x, n, k, e, role2, named2)
  <2>1. PICK role2 : AtItem(x, n, k, e, role2, named2)
    BY <1>1
  <2>2. Leading(x, k, d, named2, pend2)
    BY <2>1, IfStep
  <2> QED BY <2>2 DEF Stepped
<1>2. CASE Again(x, n, k, b, e, named2)
  <2>1. /\ e \in Builders /\ named2 \in [Labels -> 0 .. Len(e.blocks)]
        /\ PendAt(x, k, pending) /\ Sourced(x, n, k) /\ ItemOK(x.source[k])
        /\ \E p \in Nat : p = Settle[pc]
    BY <1>2, AgainFacts
  <2>2. x.source[k].op = "if" /\ OnTop(open, pending, pend2) /\ open.node = k /\ open.inElse = FALSE
    BY DEF Branching
  <2>v. PICK v : v = x.source[k].condition
    OBVIOUS
  <2>3. v \in Expressions
    BY <2>1, <2>2, <2>v, BlocksAssumption DEF ItemOK
  <2>4. r = Visit(e, v)
    BY <2>v DEF Branching
  <2>5. Grown(e, r) /\ r.last \in Operands /\ r \in Builders
    BY <2>1, <2>3, <2>4, VisitGrown
  <2>6. h \in Nat /\ ForkMade(r, y, h, d)
    <3>1. Len(r.blocks) \in Nat
      BY <2>5, BuilderFacts
    <3> QED BY <3>1 DEF Branching, ForkMade
  <2>7. y \in Instructions
    <3>1. y = CondBr(r.last, h + 1, h + 2)
      BY DEF Branching
    <3>2. h + 1 \in Nat /\ h + 2 \in Nat
      BY <2>6
    <3> QED BY <3>1, <3>2, <2>5 DEF CondBr, Instructions
  <2>8. Grown(r, d)
    BY <2>1, <2>5, <2>6, <2>7, GrownFork
  <2>9. Grown(e, d)
    BY <2>1, <2>5, <2>8, GrownTrans
  <2>10. PendAt(x, k + 1, pend2)
    BY <2>1, <2>2, PendIf DEF OnTop
  <2>11. named2 \in [Labels -> 0 .. Len(d.blocks)]
    BY <2>1, <2>9, NamedGrown
  <2>12. Breaking(x, k, b, d, named2, pend2)
    BY <1>2, <2>9, <2>10, <2>11, BreakOn
  <2> QED BY <2>12 DEF Stepped
<1> QED BY <1>1, <1>2, Begin

-----------------------------------------------------------------------------
(* The invariant of the generation *)

(* What is so in front of item k, of n, while blocks are made.              *)
GenAt(x, n, k, bs, ins, named, pend, brk) ==
  /\ brk = FALSE /\ k \in 1 .. n + 1 /\ PendAt(x, k, pend)
  /\ \E role : IF Inside(x, n, k) THEN InAt(x, k, bs, ins, named, pend, role)
                                  ELSE OutAt(x, k, bs, named, role)

Generating == GenAt(Context, Len(program), pc, blocks, insert, namedBlocks, pending, broken)

(* What is so of every module, even of one that cannot be used.             *)
LightAt(n, bs, ins, named, pend, brk) ==
  /\ bs \in Seq(Blocks) /\ ins \in 0 .. Len(bs) /\ brk \in BOOLEAN
  /\ \A c \in 1 .. Len(bs) : Par(bs, c) \in 0 .. n
  /\ named \in [Labels -> 0 .. Len(bs)]
  /\ Len(pend) <= MaxItems

Light == LightAt(Len(program), blocks, insert, namedBlocks, pending, broken)

Fresh ==
  /\ pc = 1 /\ blocks = <<>> /\ insert = NoBlock /\ pending = <<>> /\ broken = FALSE
  /\ namedBlocks = [l \in Labels |-> NoBlock]

NotStarted ==
  /\ at = NotRunning /\ from = NoBlock /\ registers = <<>>
  /\ memory = [v \in Variables |-> FALSE] /\ result = Absent

LEMMA SourceStays ==
  ASSUME SourceOK, program' = program, ifs' = ifs
  PROVE  SourceOK' /\ AtEnd' = AtEnd
<1>1. \A k : Opened(k)' = Opened(k)
  BY DEF Opened, Count
<1>2. \A i : PlaceOK(i)' = PlaceOK(i)
  BY <1>1 DEF PlaceOK
<1>3. OneElse' = OneElse
  BY <1>1 DEF OneElse, Closed
<1>4. IfsOK' = IfsOK
  BY <1>1 DEF IfsOK, Closed
<1>5. AtEnd' = AtEnd
  BY DEF AtEnd
<1>6. Open' = Open
  BY DEF Open
<1>7. \A i : ItemOK(program'[i]) = ItemOK(program[i])
  OBVIOUS
<1> QED BY <1>2, <1>3, <1>4, <1>5, <1>6, <1>7 DEF SourceOK

LEMMA WholeStays ==
  ASSUME WholeSource, program' = program, ifs' = ifs
  PROVE  WholeSource' /\ Context' = Context
BY SourceStays, ContextStays DEF WholeSource

LEMMA LabelledStays ==
  ASSUME program' = program
  PROVE  WellLabelled' = WellLabelled
BY DEF WellLabelled, Labelled, Function

LEMMA CoreParents ==
  ASSUME NEW x, NEW bs, NEW role, NEW ins, NEW W, NEW D, NEW named, NEW n,
         Core(x, bs, role, ins, W, D, named), n \in Nat, D \in Nat, D <= n
  PROVE  bs \in Seq(Blocks) /\ \A c \in 1 .. Len(bs) : Par(bs, c) \in 0 .. n
<1>1. bs \in Seq(Blocks)
  BY DEF Core
<1>2. ASSUME NEW c \in 1 .. Len(bs) PROVE Par(bs, c) \in 0 .. n
  <2>1. BlockOK(x, bs, role, ins, D, c)
    BY DEF Core
  <2>2. Par(bs, c) = 0 \/ Par(bs, c) \in 1 .. D
    BY <2>1 DEF BlockOK
  <2> QED BY <2>2
<1> QED BY <1>1, <1>2

(* The visit of an item leads to the next one.                              *)
LEMMA LeadingGen ==
  ASSUME NEW x, NEW n, NEW k, NEW e, NEW named2, NEW pend2, NEW t,
         Sourced(x, n, k), x.source[k].op # "end", Leading(x, k, e, named2, pend2), t = FALSE
  PROVE  /\ GenAt(x, n, k + 1, e.blocks, e.insert, named2, pend2, t)
         /\ LightAt(n, e.blocks, e.insert, named2, pend2, t) /\ k + 1 \in 1 .. n
<1>1. /\ n \in Nat \ {0} /\ k \in Nat \ {0} /\ k \in 1 .. n /\ WholeSource /\ n = Len(program) /\ x = Context
  BY OpenedFacts DEF Sourced
<1>2. ItemAt(x, n, k) /\ n <= MaxItems
  BY <1>1, ContextFacts
<1>3. k + 1 \in 1 .. n /\ x.source[k + 1].op # "function"
  BY <1>2 DEF ItemAt
<1>4. PICK role : InAt(x, k + 1, e.blocks, e.insert, named2, pend2, role)
  BY DEF Leading
<1>5. PendAt(x, k + 1, pend2)
  BY DEF Leading
<1>6. Inside(x, n, k + 1) /\ k + 1 \in 1 .. n + 1
  BY <1>1, <1>3 DEF Inside
<1>7. GenAt(x, n, k + 1, e.blocks, e.insert, named2, pend2, t)
  BY <1>4, <1>5, <1>6 DEF GenAt
<1>8. Len(pend2) <= MaxItems
  <2>1. Sourced(x, n, k + 1)
    BY <1>1, <1>3 DEF Sourced
  <2>2. Len(pend2) < k + 1
    BY <2>1, <1>5, PendBounded
  <2>3. Len(pend2) \in Nat /\ MaxItems \in Nat
    BY <1>5, BlocksAssumption DEF PendAt
  <2>4. k + 1 <= n
    BY <1>3
  <2> QED BY <2>2, <2>3, <2>4, <1>1, <1>2
<1>9. (k + 1) - 1 = k /\ k <= n /\ k \in Nat /\ n \in Nat
  BY <1>1
<1>10. /\ e.insert \in 1 .. Len(e.blocks) /\ Core(x, e.blocks, role, e.insert, Waiting(pend2), k, named2)
       /\ NamedOK(x, e.blocks, role, Waiting(pend2), k, named2)
  BY <1>4, <1>9 DEF InAt
<1>11. e.blocks \in Seq(Blocks) /\ \A c \in 1 .. Len(e.blocks) : Par(e.blocks, c) \in 0 .. n
  BY <1>9, <1>10, CoreParents
<1>12. e.insert \in 0 .. Len(e.blocks)
  BY <1>10, <1>11, BlocksFacts
<1>13. named2 \in [Labels -> 0 .. Len(e.blocks)]
  BY <1>10 DEF NamedOK
<1>14. t \in BOOLEAN
  OBVIOUS
<1>15. LightAt(n, e.blocks, e.insert, named2, pend2, t)
  BY <1>8, <1>11, <1>12, <1>13, <1>14 DEF LightAt
<1> QED BY <1>3, <1>7, <1>15

LEMMA BetweenGen ==
  ASSUME NEW x, NEW n, NEW k, NEW e, NEW named2, NEW pend2, NEW t,
         Sourced(x, n, k), x.source[k].op = "end", BetweenAt(x, k, e, named2, pend2), t = FALSE
  PROVE  /\ GenAt(x, n, k + 1, e.blocks, e.insert, named2, pend2, t)
         /\ LightAt(n, e.blocks, e.insert, named2, pend2, t) /\ k + 1 \in 1 .. n + 1 /\ pend2 = <<>>
<1>1. /\ n \in Nat \ {0} /\ k \in Nat \ {0} /\ k \in 1 .. n /\ WholeSource /\ n = Len(program) /\ x = Context
  BY OpenedFacts DEF Sourced
<1>2. ItemAt(x, n, k) /\ n <= MaxItems
  BY <1>1, ContextFacts
<1>3. k = n \/ x.source[k + 1].op = "function"
  BY <1>2 DEF ItemAt
<1>4. PICK role : OutAt(x, k + 1, e.blocks, named2, role)
  BY DEF BetweenAt
<1>5. PendAt(x, k + 1, pend2) /\ pend2 = <<>> /\ e.insert \in 1 .. Len(e.blocks)
  BY DEF BetweenAt
<1>6. ~Inside(x, n, k + 1) /\ k + 1 \in 1 .. n + 1
  <2>1. k = n => k + 1 \notin 1 .. n
    BY <1>1
  <2> QED BY <2>1, <1>1, <1>3 DEF Inside
<1>7. GenAt(x, n, k + 1, e.blocks, e.insert, named2, pend2, t)
  BY <1>4, <1>5, <1>6 DEF GenAt
<1>8. Len(pend2) <= MaxItems
  <2>1. Len(pend2) = 0 /\ MaxItems \in Nat
    BY <1>5, BlocksAssumption
  <2> QED BY <2>1
<1>9. (k + 1) - 1 = k /\ k <= n /\ k \in Nat /\ n \in Nat
  BY <1>1
<1>10. Core(x, e.blocks, role, 0, {}, k, named2) /\ NamedOK(x, e.blocks, role, {}, k, named2)
  BY <1>4, <1>9 DEF OutAt
<1>11. e.blocks \in Seq(Blocks) /\ \A c \in 1 .. Len(e.blocks) : Par(e.blocks, c) \in 0 .. n
  BY <1>9, <1>10, CoreParents
<1>12. e.insert \in 0 .. Len(e.blocks)
  BY <1>5, <1>11, BlocksFacts
<1>13. named2 \in [Labels -> 0 .. Len(e.blocks)]
  BY <1>10 DEF NamedOK
<1>14. t \in BOOLEAN
  OBVIOUS
<1>15. LightAt(n, e.blocks, e.insert, named2, pend2, t)
  BY <1>8, <1>11, <1>12, <1>13, <1>14 DEF LightAt
<1> QED BY <1>5, <1>6, <1>7, <1>15

LEMMA BreakingLight ==
  ASSUME NEW x, NEW n, NEW k, NEW b, NEW e, NEW named2, NEW pend2, NEW t,
         Sourced(x, n, k), x.source[k].op # "end", Breaking(x, k, b, e, named2, pend2), t = TRUE,
         b \in Builders, \A c \in 1 .. Len(b.blocks) : Par(b.blocks, c) \in 0 .. n
  PROVE  /\ LightAt(n, e.blocks, e.insert, named2, pend2, t) /\ k + 1 \in 1 .. n /\ ~WellLabelled
<1>1. /\ n \in Nat \ {0} /\ k \in Nat \ {0} /\ k \in 1 .. n /\ WholeSource /\ n = Len(program) /\ x = Context
  BY OpenedFacts DEF Sourced
<1>2. ItemAt(x, n, k) /\ n <= MaxItems
  BY <1>1, ContextFacts
<1>3. k + 1 \in 1 .. n
  BY <1>2 DEF ItemAt
<1>5. /\ PendAt(x, k + 1, pend2) /\ ~WellLabelled /\ Grown(b, e)
      /\ named2 \in [Labels -> 0 .. Len(e.blocks)]
  BY DEF Breaking
<1>8. Len(pend2) <= MaxItems
  <2>1. Sourced(x, n, k + 1)
    BY <1>1, <1>3 DEF Sourced
  <2>2. Len(pend2) < k + 1
    BY <2>1, <1>5, PendBounded
  <2>3. Len(pend2) \in Nat /\ MaxItems \in Nat
    BY <1>5, BlocksAssumption DEF PendAt
  <2>4. k + 1 <= n
    BY <1>3
  <2> QED BY <2>2, <2>3, <2>4, <1>1, <1>2
<1>9. e \in Builders /\ Parents(e) \subseteq Parents(b)
  BY <1>5 DEF Grown
<1>10. e.blocks \in Seq(Blocks) /\ e.insert \in 0 .. Len(e.blocks)
  <2>1. e.blocks \in Seq(Blocks) /\ e.insert \in 1 .. Len(e.blocks) /\ Len(e.blocks) \in Nat
    BY <1>9, BuilderFacts
  <2> QED BY <2>1
<1>11. \A c \in 1 .. Len(e.blocks) : Par(e.blocks, c) \in 0 .. n
  <2>1. \A q \in Parents(b) : q \in 0 .. n
    <3>1. 0 \in 0 .. n
      BY <1>1
    <3> QED BY <3>1 DEF Parents
  <2>2. \A c \in 1 .. Len(e.blocks) : Par(e.blocks, c) \in Parents(e)
    BY DEF Parents
  <2> QED BY <2>1, <2>2, <1>9
<1>14. t \in BOOLEAN
  OBVIOUS
<1>15. LightAt(n, e.blocks, e.insert, named2, pend2, t)
  BY <1>5, <1>8, <1>10, <1>11, <1>14 DEF LightAt
<1> QED BY <1>3, <1>5, <1>15
=============================================================================
