------------------------------- MODULE Items -------------------------------
(***************************************************************************)
(* A source as a sequence of items, and its shape: "function" and "end"    *)
(* around a body, "if", "else" and "fi" around statements, and the         *)
(* statements "assign", "goto" and "return".  The item a block starts with *)
(* may carry a label.                                                      *)
(***************************************************************************)
EXTENDS Integers, Sequences, FiniteSets

VARIABLE
  program

Count(op, k) == Cardinality({i \in 1 .. k : program[i].op = op})

(* The branches that are open behind item k.                                *)
Opened(k) == Count("if", k) - Count("fi", k)

(* The fi of the if, or of the else, at i: the first item behind it that    *)
(* closes more than was opened since.                                       *)
Closing(i) ==
  CHOOSE k \in i + 1 .. Len(program) :
    Opened(k) < Opened(i) /\ \A j \in i + 1 .. k - 1 : Opened(j) >= Opened(i)

(* The else of the if at i, none or one.                                    *)
Elses(i) ==
  {j \in i + 1 .. Closing(i) - 1 : program[j].op = "else" /\ Opened(j) = Opened(i)}

(* Where control is that comes to item i: a branch goes on behind its fi.   *)
Settle[i \in 1 .. Len(program)] ==
  CASE program[i].op = "else" -> Settle[Closing(i) + 1]
    [] program[i].op = "fi"   -> Settle[i + 1]
    [] OTHER                  -> i

(* The function that item i is in.                                          *)
Function(i) ==
  CHOOSE f \in 1 .. i :
    program[f].op = "function" /\ \A j \in f + 1 .. i : program[j].op # "function"

(* The items of the function of item i that have the label.                 *)
Labelled(label, i) ==
  {j \in 1 .. Len(program) : program[j].label = label /\ Function(j) = Function(i)}
=============================================================================
