----------------------------- MODULE ScopeStack -----------------------------
(***************************************************************************)
(* Stacks of scopes.  Four components of the compiler keep one: the lexer  *)
(* (LexerContext::contextStack), the pragma and type visitors (a           *)
(* genericContext each) and the code generator (ContextProvider).  A scope *)
(* is a std::map, modelled by a function with a finite domain; a stack is  *)
(* a sequence whose last element is the innermost scope.                   *)
(***************************************************************************)
EXTENDS Integers, Sequences

(* What a lookup that finds nothing returns (std::nullopt, a null pointer). *)
Absent == "absent"

(* A freshly constructed std::map. *)
EmptyScope == [k \in {} |-> Absent]

(* map[key] = value: inserts the key, or overwrites what it was bound to.   *)
Bind(scope, key, value) ==
  [k \in DOMAIN scope \cup {key} |-> IF k = key THEN value ELSE scope[k]]

(* contextStack.push_back(map()) *)
EnterScope(stack) == Append(stack, EmptyScope)

(* contextStack.pop_back() *)
ExitScope(stack) == SubSeq(stack, 1, Len(stack) - 1)

(* contextStack.back()[key] = value: only the innermost scope changes.      *)
AddToScope(stack, key, value) ==
  [stack EXCEPT ![Len(stack)] = Bind(@, key, value)]

(* The positions of the scopes that bind key. *)
Binders(stack, key) == {i \in 1 .. Len(stack) : key \in DOMAIN stack[i]}

(* The reverse iteration of every lookup: the innermost scope that binds    *)
(* key decides, and Absent is returned when none does.                      *)
Resolve(stack, key) ==
  LET binders == Binders(stack, key)
  IN  IF binders = {}
      THEN Absent
      ELSE stack[CHOOSE i \in binders : \A j \in binders : j <= i][key]
=============================================================================
