------------------------- MODULE MCSharedValidator -------------------------
(***************************************************************************)
(* Index spaces for the runs of SharedValidator: two value types that must *)
(* not be mixed up, block types with parameters and results, and tables of *)
(* both index types.                                                       *)
(***************************************************************************)
EXTENDS SharedValidator

Sig(params, results) == [params |-> params, results |-> results]

BlockTypes == <<Sig(<<>>, <<>>), Sig(<<>>, <<"i32">>), Sig(<<"f32">>, <<"i32">>)>>
CallTypes  == <<Sig(<<>>, <<"i32">>), Sig(<<"i32">>, <<"f32">>)>>
OneResult  == <<Sig(<<>>, <<"i32">>)>>
Func(sig, index) == [params |-> sig.params, results |-> sig.results, type_index |-> index]
OneFunc    == <<Func(OneResult[1], 0)>>
TwoFuncs   == <<Func(Sig(<<>>, <<"i32">>), 0), Func(Sig(<<"i32">>, <<"f32">>), 1)>>
OneTag     == <<<<"f32">>>>

OneGlobal == <<[type |-> "i32", mutable |-> TRUE, imported |-> TRUE],
               [type |-> "f32", mutable |-> FALSE, imported |-> TRUE]>>
BothTables == <<[elem |-> "funcref", is_64 |-> FALSE], [elem |-> "funcref", is_64 |-> TRUE]>>

Table32    == <<[elem |-> "funcref", is_64 |-> FALSE]>>

Op(params, result, init) == [params |-> params, result |-> result, init |-> init]

\* i32.const, f32.const, i32.trunc_f32_s
PlainOps == {Op(<<>>, <<"i32">>, TRUE), Op(<<>>, <<"f32">>, TRUE), Op(<<"f32">>, <<"i32">>, FALSE)}
\* i32.const, i64.const, ref.null func
IndexOps == {Op(<<>>, <<"i32">>, TRUE), Op(<<>>, <<"i64">>, TRUE), Op(<<>>, <<"funcref">>, TRUE)}

\* Nested blocks and branches, by a caller that goes on after errors.
Blocks ==
  [funcs |-> OneFunc, tags |-> OneTag, types |-> BlockTypes, globals |-> <<>>, tables |-> Table32,
   opcodes |-> PlainOps, selects |-> {<<>>},
   instrs |-> {"block", "loop", "if", "try", "br", "br_if", "br_table", "return_call_indirect"},
   function_references |-> FALSE, stop_at_error |-> FALSE, max_stack |-> 2, max_nest |-> 3]

\* Everything that takes operands, by a caller that stops at an error.
Operands ==
  [funcs |-> TwoFuncs, tags |-> <<>>, types |-> CallTypes, globals |-> OneGlobal,
   tables |-> BothTables, opcodes |-> IndexOps, selects |-> {<<>>},
   instrs |-> {"br", "select", "drop", "global", "ref", "table", "init", "call", "call_ref",
               "return_call"},
   function_references |-> TRUE, stop_at_error |-> TRUE, max_stack |-> 3, max_nest |-> 1]

AllProfiles == [blocks |-> Blocks, operands |-> Operands]

\* What the theorem about Sound asks of a module, these give.
ASSUME ExactProfiles == \A name \in DOMAIN AllProfiles : Exact(AllProfiles[name])
=============================================================================
