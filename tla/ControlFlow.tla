---------------------------- MODULE ControlFlow ----------------------------
(***************************************************************************)
(* What a function body means: statements run in order, an `if' runs one   *)
(* of its branches, a goto continues at the statement its label is on, a   *)
(* return ends the function with the value of its expression, and `and'    *)
(* and `or' are the logical operators (specification.md, Logical operators *)
(* and Control flow).  This is what a program means to its author; what    *)
(* the code generator makes of it is in BasicBlocks, which is shown to     *)
(* implement this module.                                                  *)
(***************************************************************************)
EXTENDS Items

CONSTANTS
  Variables,    \* variables of type bool
  Expressions,  \* variables, `and', `or', the operands of each among them
  Absent        \* an optional without a value

VARIABLES
  position,   \* the item about to be executed, Nowhere when none is
  memory,     \* the values of the variables
  result      \* what the function has returned, Absent before that

vars == <<program, position, memory, result>>

Nowhere == 0

-----------------------------------------------------------------------------
Eval(expression) ==
  LET eval[e \in Expressions] ==
        CASE e.op = "variable" -> memory[e.name]
          [] e.op = "and"      -> eval[e.left] /\ eval[e.right]
          [] OTHER             -> eval[e.left] \/ eval[e.right]
  IN  eval[expression]

-----------------------------------------------------------------------------
Init ==
  /\ program = <<>> /\ position = Nowhere /\ result = Absent
  /\ memory = [v \in Variables |-> FALSE]

(* The source is written before anything runs.                              *)
Write ==
  /\ position = Nowhere /\ result = Absent
  /\ program' # program
  /\ UNCHANGED <<position, memory, result>>

(* A function of a whole source is run, on whatever the variables hold.     *)
Call ==
  /\ position = Nowhere /\ result = Absent
  /\ program # <<>> /\ program[Len(program)].op = "end"
  /\ \E f \in 1 .. Len(program) :
       program[f].op = "function" /\ position' = Settle[f + 1]
  /\ memory' \in [Variables -> BOOLEAN]
  /\ UNCHANGED <<program, result>>

GoTo(i) == position' = Settle[i] /\ UNCHANGED <<program, result>>

Assign(i) ==
  /\ program[i].op = "assign"
  /\ memory' = [memory EXCEPT ![program[i].name] = program[i].value]
  /\ GoTo(i + 1)

If(i) ==
  /\ program[i].op = "if"
  /\ UNCHANGED memory
  /\ IF Eval(program[i].condition) THEN GoTo(i + 1)
     ELSE IF Elses(i) = {} THEN \E k \in {Closing(i)} : GoTo(k + 1)
     ELSE \E j \in Elses(i) : GoTo(j + 1)

Goto(i) ==
  /\ program[i].op = "goto"
  /\ UNCHANGED memory
  /\ \E j \in Labelled(program[i].to, i) : GoTo(j)

Finish(value) ==
  result' = value /\ position' = Nowhere /\ UNCHANGED <<program, memory>>

Return(i) == program[i].op = "return" /\ Finish(Eval(program[i].value))

(* Nothing says what a function returns that has no return at its end.      *)
End(i) == program[i].op = "end" /\ \E value \in BOOLEAN : Finish(value)

Step ==
  \E i \in {position} \ {Nowhere} :
    Assign(i) \/ If(i) \/ Goto(i) \/ Return(i) \/ End(i)

Next == Write \/ Call \/ Step

Spec == Init /\ [][Next]_vars
=============================================================================
