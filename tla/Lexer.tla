------------------------------- MODULE Lexer -------------------------------
(***************************************************************************)
(* The characters under TokenStream: how Lexer::TokenStream cuts its input *)
(* into the texts of tokens, keeps the lines it has seen and the place of  *)
(* each token, and marks tokens in an error message                        *)
(* (src/lexer.cpp, src/visitor/rangeVisitor.cpp).                          *)
(*                                                                         *)
(* One token is read at a time, up to the empty one that stands for the    *)
(* end of the file; TokenStream has the buffer in front of this, and the   *)
(* types.  A character stands for its class: "a" for letters and digits,   *)
(* ";" for what operators are made of.                                     *)
(***************************************************************************)
EXTENDS Integers, SequencesExt

CONSTANTS
  Characters,  \* those the input is made of
  MaxLength    \* bound on the length of the input

EndOfFile == "EOF"
HighByte == "0xFF"
Quote == "\""
Newline == "\n"
Return == "\r"

(* The end of the file is no character.                                     *)
ASSUME LexerAssumption == MaxLength \in Nat /\ EndOfFile \notin Characters

VARIABLES
  source,  \* the input
  at,      \* the character that input.peek() sees
  lines,   \* TokenStream::lines
  line,    \* TokenStream::line
  column,  \* TokenStream::column
  tokens   \* what get() has returned

vars == <<source, at, lines, line, column, tokens>>

-----------------------------------------------------------------------------
(* input.peek(), and the same in a char: the byte 0xFF is then EOF too.     *)
Peek(i) == IF i <= Len(source) THEN source[i] ELSE EndOfFile
PeekChar(i) == IF Peek(i) = HighByte THEN EndOfFile ELSE Peek(i)

(* The characters that a loop of moveHead or getNextToken goes on over.     *)
Blank == {" ", "\t", Newline, Return}
InIdentifier == {"a", "_"}
(* escape is computed from the very character it is or-ed with.             *)
InString == {c \in Characters : c = "\\" \/ c # Quote}
InOperatorListed == {";"}
(* A tab does not end an operator, though moveHead skips it.                *)
InOperator == Characters \ {"a", " ", Return, Newline}

(* The end of a loop that reads characters as long as they are in the run.  *)
EndOfRun(i, run) ==
  CHOOSE j \in i .. Len(source) + 1 :
    /\ PeekChar(j) \notin run
    /\ \A k \in i .. j - 1 : PeekChar(k) \in run

(* The n-th of a set of positions, in their order.                          *)
Nth(S, n) == CHOOSE k \in S : Cardinality({l \in S : l <= k}) = n

(* What is left of s without the elements in out.                           *)
Without(s, out) ==
  LET kept == {k \in DOMAIN s : s[k] \notin out}
  IN  [n \in 1 .. Cardinality(kept) |-> s[Nth(kept, n)]]

(* The newlines from i on, before j.                                        *)
Newlines(i, j) == {k \in i .. j - 1 : source[k] = Newline}

(* getCurrentLine: up to the next newline, without carriage returns.        *)
LineFrom(i) ==
  LET end == Min(Newlines(i, Len(source) + 1) \cup {Len(source) + 1})
  IN  Without(SubSeq(source, i, end - 1), {Return})

MoveHeadUncounted(seen, i, col) ==
  LET end      == EndOfRun(i, Blank)
      newlines == Newlines(i, end)
  IN  [at     |-> end,
       lines  |-> seen \o [n \in 1 .. Cardinality(newlines) |-> LineFrom(Nth(newlines, n) + 1)],
       newer  |-> IF newlines = {} THEN 0 ELSE 1,
       column |-> IF newlines = {} THEN col + end - i ELSE end - Max(newlines)]

MoveHeadFromZero(seen, i, col) ==
  LET end      == EndOfRun(i, Blank)
      newlines == Newlines(i, end)
  IN  [at     |-> end,
       lines  |-> seen \o [n \in 1 .. Cardinality(newlines) |-> LineFrom(Nth(newlines, n) + 1)],
       newer  |-> Cardinality(newlines),
       column |-> IF newlines = {} THEN col + end - i ELSE end - Max(newlines) - 1]

MoveHeadPairs(seen, i, col) ==
  LET end      == EndOfRun(i, Blank)
      newlines == Newlines(i, end)
  IN  [at     |-> IF newlines = {} \/ end > Len(source) THEN end ELSE end + 1,
       lines  |-> seen \o [n \in 1 .. Cardinality(newlines) |-> LineFrom(Nth(newlines, n) + 1)],
       newer  |-> Cardinality(newlines),
       column |-> IF newlines = {} THEN col + end - i ELSE end - Max(newlines)]

(* moveHead at character i, in column col, with the lines seen so far.      *)
MoveHead(seen, i, col) ==
  LET end      == EndOfRun(i, Blank)
      newlines == Newlines(i, end)
  IN  [at     |-> end,
       lines  |-> seen \o [n \in 1 .. Cardinality(newlines) |-> LineFrom(Nth(newlines, n) + 1)],
       newer  |-> Cardinality(newlines),
       column |-> IF newlines = {} THEN col + end - i ELSE end - Max(newlines)]

(* Where the text ends that getNextToken starts to read at i.               *)
EndOfText(i) ==
  CASE PeekChar(i) = Quote ->
         LET j == EndOfRun(i + 1, InString) IN IF PeekChar(j) = Quote THEN j + 1 ELSE j
    [] PeekChar(i) \in InIdentifier -> EndOfRun(i, InIdentifier)
    [] PeekChar(i) \in {"(", ")"}   -> i + 1
    [] OTHER                        -> EndOfRun(i, InOperator)

AtEnd == tokens # <<>> /\ Last(tokens).value = <<>>

(* TokenStream::get; a caller stops at the first empty token.               *)
Get ==
  /\ ~AtEnd
  /\ \E end \in {EndOfText(at)} :
       /\ tokens' = Append(tokens, [value |-> SubSeq(source, at, end - 1),
                                    line |-> line, column |-> column])
       /\ \E moved \in {MoveHead(lines, end, column + end - at)} :
            /\ at' = moved.at /\ lines' = moved.lines /\ column' = moved.column
            /\ line' = line + moved.newer
  /\ UNCHANGED source

(* The constructor of TokenStream.                                          *)
Init ==
  /\ source \in UNION {[1 .. n -> Characters] : n \in 0 .. MaxLength}
  /\ \E moved \in {MoveHead(<<LineFrom(1)>>, 1, 1)} :
       /\ at = moved.at /\ lines = moved.lines /\ column = moved.column
       /\ line = 1 + moved.newer
  /\ tokens = <<>>

Done == AtEnd /\ UNCHANGED vars

Next == Get \/ Done

(* The caller asks until it has the end of the file.                        *)
Spec == Init /\ [][Next]_vars /\ WF_vars(Get)

-----------------------------------------------------------------------------
(* Marking tokens in messages *)

GetLine(l) == IF l - 1 < Len(lines) THEN lines[l] ELSE <<>>

(* rangeVisitor::setMin and setMax, over the tokens in the order of a visit. *)
SetMin(first, token) ==
  IF first.line = token.line
  THEN IF first.column > token.column THEN token ELSE first
  ELSE IF first.line > token.line THEN token ELSE first
SetMax(last, token) ==
  IF last.line = token.line
  THEN IF last.column < token.column THEN token ELSE last
  ELSE IF last.line < token.line THEN token ELSE last
RangeOf(visit) ==
  <<FoldLeft(SetMin, visit[1], Tail(visit)), FoldLeft(SetMax, visit[1], Tail(visit))>>

(* getWave: how many marks a range gets.                                    *)
Wave(range) ==
  IF range[1] = range[2] THEN Len(range[1].value)
  ELSE range[2].column - range[1].column + Len(range[2].value)

(* highlightMultiplesTokens, for two ranges on one line: the blanks and the *)
(* marks under the line, behind the margin with its number.                 *)
Margin == 4 + 5
FirstOffset == -(4 + 5 + 3 - 3)
Padding(range, offset) == range[1].column - 1 - offset
NextOffsetAdded(range, offset) == offset + Wave(range)
NextOffset(range, offset) == offset + Wave(range) + range[1].column - 1 - offset

Highlight(ranges) ==
  LET sorted == IF ranges[2][1].column < ranges[1][1].column THEN Reverse(ranges) ELSE ranges
  IN  <<Padding(sorted[1], FirstOffset), Wave(sorted[1]),
        Padding(sorted[2], NextOffset(sorted[1], FirstOffset)), Wave(sorted[2])>>

-----------------------------------------------------------------------------
(* Properties *)

(* Every line that was begun is kept, and nothing is out of the input.      *)
TypeOK ==
  /\ at \in 1 .. Len(source) + 1
  /\ line = Len(lines) /\ column >= 1
  /\ Len(tokens) <= Len(source) + 1

(* Nothing but blanks is lost, doubled or put out of order between tokens   *)
(* (getNextToken and moveHead share one stream and one column).             *)
OnlyBlanksLost ==
  Without(FlattenSeq([k \in DOMAIN tokens |-> tokens[k].value]), Blank)
    = Without(SubSeq(source, 1, at - 1), Blank)

(* No token goes over a line.                                               *)
OneLiners ==
  \A k \in DOMAIN tokens : ~Contains(tokens[k].value, Newline) /\ ~Contains(tokens[k].value, Return)

(* Carriage returns end lines and nothing else.                             *)
PlainLines == \A k \in DOMAIN source : source[k] = Return => Peek(k + 1) = Newline

(* unexpectedToken marks the token that it reports: the line kept for it is *)
(* the line of the input, and has the token's text at its column, as long   *)
(* as no string goes over a line (getNextToken counts no line in a string)  *)
(* and no carriage return is left out in the middle of a line.              *)
TokensInPlace ==
  AtEnd /\ OneLiners /\ PlainLines =>
    \A k \in DOMAIN tokens :
      LET t == tokens[k]
          start == IF t.line = 1 THEN 1 ELSE Nth(Newlines(1, at), t.line - 1) + 1
      IN  /\ t.column >= 1 /\ t.column + Len(t.value) - 1 <= Len(GetLine(t.line))
          /\ SubSeq(GetLine(t.line), t.column, t.column + Len(t.value) - 1) = t.value
          /\ GetLine(t.line) = LineFrom(start)

(* The marks of a binary operator's two operands are under their tokens,    *)
(* and no count of blanks or marks is negative, which would be a huge size: *)
(* whatever order rangeVisitor meets the tokens in, for operands on one     *)
(* line.                                                                    *)
HighlightFits ==
  AtEnd => \A l \in DOMAIN tokens : \A k \in 2 .. l : \A j \in 1 .. k - 1 : \A i \in 1 .. j :
    tokens[i].line = tokens[l].line =>
      LET left  == RangeOf(<<tokens[j], tokens[i]>>)
          right == RangeOf(<<tokens[k], tokens[l]>>)
          marks == Highlight(<<right, left>>)
          place(from, to, begin, size) ==
            /\ begin = Margin + tokens[from].column - 1
            /\ size = tokens[to].column + Len(tokens[to].value) - tokens[from].column
      IN  /\ \A n \in 1 .. 3 : marks[n] >= 0
          /\ place(i, j, marks[1], marks[2])
          /\ place(k, l, marks[1] + marks[2] + marks[3], marks[4])

(* The end of the file is reached, whatever is in the input: getNextToken   *)
(* never stands still in front of a character, but for the byte 0xFF, which *)
(* it takes for the end of the file while isEmpty does not.                 *)
ReadsToEnd == <>(Peek(at) \in {EndOfFile, HighByte} /\ AtEnd)
=============================================================================
