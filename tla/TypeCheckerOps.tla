--------------------------- MODULE TypeCheckerOps ---------------------------
(***************************************************************************)
(* wabt::TypeChecker (src/type-checker.cc): the type stack and the label   *)
(* stack every consumer of a module runs its instructions through: the     *)
(* validator, and the interpreter's code generator, which reads operand    *)
(* counts off the same two stacks.                                         *)
(*                                                                         *)
(* A TypeChecker is a record tc; a method is an operator from tc to tc.    *)
(* ok is the conjunction of the Results so far: callers that want the text *)
(* of every error carry on after a failed method, so each operator says    *)
(* what the stacks are afterwards, failed or not.  Label depths count from *)
(* the innermost label, 0, as in the code; label_stack[1] is the function. *)
(***************************************************************************)
EXTENDS Integers, Sequences

AnyType == "any"
RefType == {"funcref", "externref", "ref0", "ref1"}

IsRef(type) == type \in RefType
IsReferenceWithIndex(type) == type \in {"ref0", "ref1"}

NewLabel(type, params, results, limit) ==
  [label_type |-> type, param_types |-> params, result_types |-> results,
   type_stack_limit |-> limit, unreachable |-> FALSE]

br_types(label) == IF label.label_type = "loop" THEN label.param_types
                                                ELSE label.result_types

-----------------------------------------------------------------------------
\* Results: a failed check is remembered, and nothing else changes.
Check(tc, cond) == [tc EXCEPT !.ok = @ /\ cond]
Error(tc) == Check(tc, FALSE)

HasLabel(tc, depth) == depth < Len(tc.label_stack)
GetLabel(tc, depth) == tc.label_stack[Len(tc.label_stack) - depth]
TopLabel(tc) == GetLabel(tc, 0)
ThisFunctionLabel(tc) == tc.label_stack[1]

IsRethrowLabel(tc, depth) == HasLabel(tc, depth) /\ GetLabel(tc, depth).label_type = "catch"

\* How many catch blocks a branch of this depth leaves.
CatchCount(tc, depth) ==
  Len(SelectSeq(SubSeq(tc.label_stack, Len(tc.label_stack) - depth, Len(tc.label_stack)),
                LAMBDA l : l.label_type = "catch"))

\* vector::resize: shorter or, were the limit above the stack, longer.
Resize(s, n) == [i \in 1 .. n |-> IF i <= Len(s) THEN s[i] ELSE AnyType]

ResetTypeStackToLabel(tc) ==
  [tc EXCEPT !.type_stack = Resize(@, TopLabel(tc).type_stack_limit)]

SetTopLabel(tc, type, unreachable) ==
  [tc EXCEPT !.label_stack[Len(tc.label_stack)].label_type = type,
             !.label_stack[Len(tc.label_stack)].unreachable = unreachable]

SetUnreachable(tc) ==
  ResetTypeStackToLabel(SetTopLabel(tc, TopLabel(tc).label_type, TRUE))

PushLabel(tc, type, params, results) ==
  [tc EXCEPT !.label_stack = Append(@, NewLabel(type, params, results, Len(tc.type_stack)))]

PopLabel(tc) == [tc EXCEPT !.label_stack = SubSeq(@, 1, Len(@) - 1)]

-----------------------------------------------------------------------------
\* The operand depth places below the top: below the label's limit there is
\* none, which unreachable code may read as a value of any type.
PeekType(tc, depth) ==
  IF TopLabel(tc).type_stack_limit + depth >= Len(tc.type_stack)
  THEN [type |-> AnyType, ok |-> TopLabel(tc).unreachable]
  ELSE [type |-> tc.type_stack[Len(tc.type_stack) - depth], ok |-> TRUE]

CheckType(actual, expected) == expected = AnyType \/ actual = AnyType \/ actual = expected

CheckTypes(actual, expected) ==
  Len(actual) = Len(expected) /\ \A i \in DOMAIN actual : CheckType(actual[i], expected[i])

\* Mutated form: an operand may be taken from below the enclosing label.
DropTypes_NoLimit(tc, n) ==
  IF n > Len(tc.type_stack)
  THEN Check(ResetTypeStackToLabel(tc), TopLabel(tc).unreachable)
  ELSE [tc EXCEPT !.type_stack = SubSeq(@, 1, Len(@) - n)]

DropTypes(tc, n) ==
  IF TopLabel(tc).type_stack_limit + n > Len(tc.type_stack)
  THEN Check(ResetTypeStackToLabel(tc), TopLabel(tc).unreachable)
  ELSE [tc EXCEPT !.type_stack = SubSeq(@, 1, Len(@) - n)]

PushTypes(tc, types) == [tc EXCEPT !.type_stack = @ \o types]

CheckTypeStackEnd(tc) == Check(tc, Len(tc.type_stack) = TopLabel(tc).type_stack_limit)

CheckSignature(tc, sig) ==
  Check(tc, \A i \in DOMAIN sig : LET operand == PeekType(tc, Len(sig) - i)
                                  IN  operand.ok /\ CheckType(operand.type, sig[i]))

PopAndCheckSignature(tc, sig) == DropTypes(CheckSignature(tc, sig), Len(sig))

PopAndCheckCall(tc, params, results) == PushTypes(PopAndCheckSignature(tc, params), results)

\* CheckOpcode1, 2 and 3: the operands of a plain instruction, and its result.
CheckOpcode(tc, params, result) == PopAndCheckCall(tc, params, result)

-----------------------------------------------------------------------------
\* Functions and initializer expressions.
BeginFunction(results) ==
  [type_stack |-> <<>>, label_stack |-> <<NewLabel("func", <<>>, results, 0)>>,
   ok |-> TRUE]

BeginInitExpr(type) ==
  [type_stack |-> <<>>, label_stack |-> <<NewLabel("init", <<>>, <<type>>, 0)>>,
   ok |-> TRUE]

\* OnEnd(Label*, ...): the results are all there is above the label's limit.
EndLabel(tc) ==
  LET results == TopLabel(tc).result_types
      popped  == CheckTypeStackEnd(PopAndCheckSignature(tc, results))
  IN  PopLabel(PushTypes(ResetTypeStackToLabel(popped), results))

EndFunction(tc) == EndLabel(Check(tc, TopLabel(tc).label_type = "func"))

EndInitExpr(tc) == EndLabel(Check(tc, TopLabel(tc).label_type = "init"))

-----------------------------------------------------------------------------
\* Blocks.
OpenLabel(tc, type, params, results) ==
  PushTypes(PushLabel(PopAndCheckSignature(tc, params), type, params, results), params)

OnBlock(tc, params, results) == OpenLabel(tc, "block", params, results)

OnLoop(tc, params, results) == OpenLabel(tc, "loop", params, results)

OnTry(tc, params, results) == OpenLabel(tc, "try", params, results)

OnIf(tc, params, results) ==
  OpenLabel(PopAndCheckSignature(tc, <<"i32">>), "if", params, results)

\* Mutated form: the label is not turned into an else.
OnElse_StaysIf(tc) ==
  LET label  == TopLabel(tc)
      popped == CheckTypeStackEnd(PopAndCheckSignature(tc, label.result_types))
      reset  == ResetTypeStackToLabel(Check(popped, label.label_type = "if"))
  IN  SetTopLabel(PushTypes(reset, label.param_types), "if", FALSE)

OnElse(tc) ==
  LET label  == TopLabel(tc)
      popped == CheckTypeStackEnd(PopAndCheckSignature(tc, label.result_types))
      reset  == ResetTypeStackToLabel(Check(popped, label.label_type = "if"))
  IN  SetTopLabel(PushTypes(reset, label.param_types), "else", FALSE)

OnCatch(tc, sig) ==
  LET label  == TopLabel(tc)
      popped == CheckTypeStackEnd(PopAndCheckSignature(tc, label.result_types))
      reset  == ResetTypeStackToLabel(Check(popped, label.label_type \in {"try", "catch"}))
  IN  PushTypes(SetTopLabel(reset, "catch", FALSE), sig)

\* An if without an else goes through OnElse first; when that fails, the label
\* is left on the stack (CHECK_RESULT).
OnEnd(tc) ==
  LET branch == OnElse([tc EXCEPT !.ok = TRUE])
  IN  IF TopLabel(tc).label_type # "if" THEN EndLabel(tc)
      ELSE IF ~branch.ok THEN branch
      ELSE EndLabel([branch EXCEPT !.ok = tc.ok])

\* Depths count from outside the try; a bad one leaves the label where it is.
OnDelegate(tc, depth) ==
  IF ~HasLabel(tc, depth + 1) THEN Error(tc)
  ELSE EndLabel(Check(tc, TopLabel(tc).label_type = "try"))

-----------------------------------------------------------------------------
\* Branches and other transfers of control.
OnBr(tc, depth) ==
  IF ~HasLabel(tc, depth) THEN Error(tc)
  ELSE SetUnreachable(CheckSignature(tc, br_types(GetLabel(tc, depth))))

\* Mutated form: a branch to a loop is checked like one to a block.
OnBrIf_Results(tc, depth) ==
  LET popped == PopAndCheckSignature(tc, <<"i32">>)
      types  == GetLabel(tc, depth).result_types
  IN  IF ~HasLabel(tc, depth) THEN Error(popped)
      ELSE PushTypes(PopAndCheckSignature(popped, types), types)

OnBrIf(tc, depth) ==
  LET popped == PopAndCheckSignature(tc, <<"i32">>)
      types  == br_types(GetLabel(tc, depth))
  IN  IF ~HasLabel(tc, depth) THEN Error(popped)
      ELSE PushTypes(PopAndCheckSignature(popped, types), types)

BeginBrTable(tc) == PopAndCheckSignature(tc, <<"i32">>)

\* sig is br_table_sig_, the label types of the first target; first stands for
\* the null pointer before there was one.
OnBrTableTarget(tc, depth, first, sig) ==
  IF ~HasLabel(tc, depth) THEN Error(tc)
  ELSE LET types == br_types(GetLabel(tc, depth))
       IN  Check(CheckSignature(tc, types), first \/ Len(sig) = Len(types))

EndBrTable(tc) == SetUnreachable(tc)

OnReturn(tc) ==
  SetUnreachable(PopAndCheckSignature(tc, ThisFunctionLabel(tc).result_types))

OnCall(tc, params, results) == PopAndCheckCall(tc, params, results)

OnCallIndirect(tc, params, results, index) ==
  PopAndCheckCall(PopAndCheckSignature(tc, <<index>>), params, results)

OnReturnCall(tc, params, results) ==
  SetUnreachable(Check(PopAndCheckSignature(tc, params),
                       CheckTypes(results, ThisFunctionLabel(tc).result_types)))

\* The index operand is an i32, whatever the table's index type.
OnReturnCallIndirect(tc, params, results) ==
  OnReturnCall(PopAndCheckSignature(tc, <<"i32">>), params, results)

OnThrow(tc, sig) == SetUnreachable(PopAndCheckSignature(tc, sig))

OnRethrow(tc, depth) ==
  IF IsRethrowLabel(tc, depth) THEN SetUnreachable(tc) ELSE Error(tc)

OnUnreachable(tc) == SetUnreachable(tc)

-----------------------------------------------------------------------------
\* Instructions whose types depend on their operands or on a limits.is_64.
OnDrop(tc) == DropTypes(tc, 1)

\* expected is empty, or the one type a select may be annotated with; the
\* annotation is checked, and a value of type Any is pushed.
OnSelect(tc, expected) ==
  LET type1   == PeekType(tc, 1)
      type2   == PeekType(tc, 2)
      cond    == PeekType(tc, 0)
      present == /\ cond.ok /\ type1.ok /\ type2.ok
                 /\ CheckType(cond.type, "i32")
      untyped == ~IsRef(type1.type) /\ ~IsRef(type2.type)
      match   == IF expected = <<>>
                 THEN untyped /\ present /\ CheckType(type1.type, type2.type)
                 ELSE /\ present
                      /\ CheckType(type1.type, expected[1])
                      /\ CheckType(type2.type, expected[1])
      result  == IF expected = <<>> /\ untyped THEN type1.type ELSE AnyType
  IN  PushTypes(DropTypes(Check(tc, match), 3), <<result>>)

OnRefIsNull(tc) ==
  LET operand == PeekType(tc, 0)
      isRef   == operand.type = AnyType \/ IsRef(operand.type)
  IN  PushTypes(DropTypes(Check(tc, operand.ok /\ isRef), 1), <<"i32">>)

\* GetReferenceIndex, which reads the index the caller then looks up, asserts
\* that the type is a reference; Any is let through to it and, in a build
\* without asserts, yields kInvalidIndex.
OnIndexedFuncRef(tc) ==
  LET operand == PeekType(tc, 0)
      isRef   == operand.type = AnyType \/ IsReferenceWithIndex(operand.type)
  IN  IF ~operand.ok THEN Error(tc)
      ELSE DropTypes(Check(tc, isRef), 1)

IndexType(is_64) == IF is_64 THEN "i64" ELSE "i32"

\* memory.copy and table.copy: the size has the smaller of the index types.
OnCopy(tc, dst64, src64) ==
  CheckOpcode(tc, <<IndexType(dst64), IndexType(src64), IndexType(src64 /\ dst64)>>, <<>>)

OnFill(tc, value, is_64) == CheckOpcode(tc, <<IndexType(is_64), value, IndexType(is_64)>>, <<>>)

OnSize(tc, is_64) == PushTypes(tc, <<IndexType(is_64)>>)

OnTableGet(tc, elem, is_64) == CheckOpcode(tc, <<IndexType(is_64)>>, <<elem>>)

OnTableSet(tc, elem, is_64) == CheckOpcode(tc, <<IndexType(is_64), elem>>, <<>>)

OnTableGrow(tc, elem, is_64) ==
  CheckOpcode(tc, <<elem, IndexType(is_64)>>, <<IndexType(is_64)>>)
=============================================================================
