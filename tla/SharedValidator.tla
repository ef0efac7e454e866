--------------------------- MODULE SharedValidator ---------------------------
(***************************************************************************)
(* wabt::SharedValidator (src/shared-validator.cc) over a TypeChecker: the *)
(* validation of function bodies and initializer expressions, instruction  *)
(* by instruction, next to the abstract machine that would run the code.   *)
(*                                                                         *)
(* The caller is the IR Validator (src/validator.cc), whose visitor opens  *)
(* and closes blocks in pairs and goes on after an error, or a reader that *)
(* stops at the first one (binary-reader-interp.cc, CHECK_RESULT).         *)
(*                                                                         *)
(* m is a history variable: while no error was reported, the operand types *)
(* a WebAssembly machine has at this point of the body on some path that   *)
(* leads here.  It never looks at the checker's stacks.                    *)
(***************************************************************************)
EXTENDS TypeCheckerOps

CONSTANTS Profiles     \* the modules and callers of a run, by name

\* The types a module can name.  Type::Any is none of them: the readers accept
\* no such type, and only the type checker makes one up.
ValueType == {"i32", "i64", "f32", "f64", "v128"} \cup RefType
ResultType == Seq(ValueType)

IsProfile(p) ==
  /\ p.funcs \in Seq([params : ResultType, results : ResultType, type_index : Nat])
  /\ p.types \in Seq([params : ResultType, results : ResultType])
  /\ p.tags \in Seq(ResultType)
  /\ p.globals \in Seq([type : ValueType, mutable : BOOLEAN, imported : BOOLEAN])
  /\ p.tables \in Seq([elem : ValueType, is_64 : BOOLEAN])
  /\ \A op \in p.opcodes : op \in [params : ResultType, result : ResultType, init : BOOLEAN]
  /\ \A expected \in p.selects : expected = <<>> \/ \E v \in ValueType : expected = <<v>>
  /\ p.function_references \in BOOLEAN /\ p.stop_at_error \in BOOLEAN
  /\ p.max_stack \in Nat /\ p.max_nest \in Nat

ASSUME ProfilesAssumption == \A name \in DOMAIN Profiles : IsProfile(Profiles[name])

VARIABLES profile,         \* the name of the module validated
          tc,              \* typechecker_
          in_init_expr,    \* in_init_expr_
          br_table,        \* br_table_sig_ while a br_table is read
          declared,        \* declared_funcs_
          to_declare,      \* check_declared_funcs_
          open,            \* the caller's open blocks, innermost last
          m,               \* history: the machine
          used             \* history: functions ref.func was accepted for

vars == <<profile, tc, in_init_expr, br_table, declared, to_declare, open, m, used>>

P == Profiles[profile]
Funcs == P.funcs               \* funcs_ : sequence of [params, results, type_index]
Tags == P.tags                 \* tags_ : sequence of parameter types
Types == P.types               \* func_types_, as CheckBlockSignature reads them
Globals == P.globals           \* globals_ : sequence of [type, mutable, imported]
Tables == P.tables             \* tables_ : sequence of [elem, is_64]
Opcodes == P.opcodes           \* plain instructions: [params, result, init]
Selects == P.selects           \* annotations of select: <<>> or <<type>>
FunctionReferences == P.function_references  \* features.function_references_enabled()
StopAtError == P.stop_at_error \* whether the caller stops at the first error
MaxStack == P.max_stack        \* bound on the operands a body keeps
MaxNest == P.max_nest          \* bound on labels, the function's included

\* The index spaces are numbered from 0; one index past the end is tried too.
Vars(table) == 0 .. Len(table)
InRange(var, table) == var < Len(table)

\* CheckIndexWithValue: a default value comes back with the error.
Lookup(var, table, default) == IF InRange(var, table) THEN table[var + 1] ELSE default

NoSig == [params |-> <<>>, results |-> <<>>]
NoBrTable == [active |-> FALSE, first |-> TRUE, sig |-> <<>>]

-----------------------------------------------------------------------------
\* The machine.  A control frame keeps the operands below the block's own, the
\* types a branch to it must carry, whether it was ever entered, and the
\* stacks with which control leaves it by a branch.

Dead == [live |-> FALSE, stuck |-> FALSE, stack |-> <<>>, ctl |-> <<>>]

Below(s, n) == SubSeq(s, 1, Len(s) - n)
TopN(s, n) == IF n > Len(s) THEN <<>> ELSE SubSeq(s, Len(s) - n + 1, Len(s))

\* The machine needs operands of exactly these types.
Needs(mm, types) ==
  [mm EXCEPT !.stuck = @ \/ (mm.live /\ TopN(mm.stack, Len(types)) # types)]

Exec(mm, params, results) ==
  IF mm.live
  THEN [Needs(mm, params) EXCEPT !.stack = Below(@, Len(params)) \o results]
  ELSE mm

Frame(mm, loop, params, results) ==
  [base |-> Below(mm.stack, Len(params)), loop |-> loop, params |-> params,
   results |-> results, entered |-> mm.live, hits |-> {}]

Enter(mm, loop, params, results) ==
  [Needs(mm, params) EXCEPT !.ctl = Append(@, Frame(mm, loop, params, results))]

Kill(mm) == [mm EXCEPT !.live = FALSE, !.stack = <<>>]

\* A branch: the operands between the block's own and the carried ones go.
Jump(mm, k) ==
  LET frame   == mm.ctl[k]
      types   == IF frame.loop THEN frame.params ELSE frame.results
      carried == TopN(mm.stack, Len(types))
  IN  IF ~mm.live THEN mm
      ELSE IF frame.loop THEN Needs(mm, types)
      ELSE [Needs(mm, types) EXCEPT !.ctl[k].hits = @ \cup {frame.base \o carried}]

\* Ways for control to arrive behind the innermost block.
Arrivals(mm) ==
  mm.ctl[Len(mm.ctl)].hits \cup (IF mm.live THEN {mm.stack} ELSE {})

Outcomes(mm) ==
  LET left == [mm EXCEPT !.ctl = Below(@, 1)]
  IN  IF Arrivals(mm) = {} THEN {Kill(left)}
      ELSE {[left EXCEPT !.live = TRUE, !.stack = s] : s \in Arrivals(mm)}

\* The next part of a block (else, catch) starts from its base and these.
NextPart(mm, types) ==
  LET top == Len(mm.ctl)
  IN  [mm EXCEPT !.ctl[top].hits = Arrivals(mm),
                 !.live = mm.ctl[top].entered,
                 !.stack = IF mm.ctl[top].entered THEN mm.ctl[top].base \o types ELSE <<>>]

\* After an error the machine has nothing more to say.
Follow(t, machines) == m' \in IF t.ok THEN machines ELSE {Dead}

Depths == 0 .. Len(open)       \* branch depths, one too many included
Target(depth) == Len(m.ctl) - depth

rest == <<profile, in_init_expr, br_table, declared, to_declare, used>>

-----------------------------------------------------------------------------
Idle == open = <<>>
Going == ~Idle /\ (StopAtError => tc.ok)
InBody == Going /\ ~br_table.active
Room == Len(tc.type_stack) < MaxStack

\* CheckInstr: what is not a constant instruction fails in an initializer.
Instr(t, valid_init_opcode) == Check(t, in_init_expr => valid_init_opcode)

Init ==
  /\ profile \in DOMAIN Profiles
  /\ tc = [BeginFunction(<<>>) EXCEPT !.label_stack = <<>>]
  /\ in_init_expr = FALSE
  /\ br_table = NoBrTable
  /\ declared = {} /\ to_declare = {} /\ used = {}
  /\ open = <<>>
  /\ m = Dead

Start(t, results) ==
  /\ tc' = [t EXCEPT !.ok = TRUE]
  /\ m' = [live |-> TRUE, stuck |-> FALSE, stack |-> <<>>,
           ctl |-> <<[base |-> <<>>, loop |-> FALSE, params |-> <<>>, results |-> results,
                      entered |-> TRUE, hits |-> {}]>>]

\* A result is kept per body, so that every body is checked from its start.
BeginFunctionBody(func) ==
  /\ Idle
  /\ Start(BeginFunction(Lookup(func, Funcs, NoSig).results), Lookup(func, Funcs, NoSig).results)
  /\ open' = <<"func">>
  /\ UNCHANGED <<profile, in_init_expr, br_table, declared, to_declare, used>>

BeginInit(type) ==
  /\ Idle
  /\ Start(BeginInitExpr(type), <<type>>)
  /\ open' = <<"init">>
  /\ in_init_expr' = TRUE
  /\ UNCHANGED <<profile, br_table, declared, to_declare, used>>

\* The machine hands the results to the caller.
Finish(t) ==
  /\ tc' = t
  /\ LET results == m.ctl[1].results
     IN  m' = IF ~t.ok THEN Dead
              ELSE [Dead EXCEPT !.stuck = m.stuck \/ \E s \in Arrivals(m) : s # results]
  /\ open' = <<>>

EndFunctionBody ==
  /\ InBody /\ open = <<"func">>
  /\ Finish(EndFunction(tc))
  /\ UNCHANGED rest

EndInit ==
  /\ InBody /\ open = <<"init">>
  /\ Finish(EndInitExpr(tc))
  /\ in_init_expr' = FALSE
  /\ UNCHANGED <<profile, br_table, declared, to_declare, used>>

-----------------------------------------------------------------------------
\* Blocks.  The checker's step and the machine's, side by side.

Step(t, mm) ==
  /\ tc' = t
  /\ Follow(t, {mm})
  /\ UNCHANGED <<open, rest>>

Opened(t, kind, mm) ==
  /\ Room /\ Len(tc.label_stack) < MaxNest
  /\ tc' = t
  /\ Follow(t, {mm})
  /\ open' = Append(open, kind)
  /\ UNCHANGED rest

\* CheckBlockSignature, then the checker.
OnBlockInstr(kind, sig_var) ==
  LET sig == Lookup(sig_var, Types, NoSig)
      t   == Check(Instr(tc, FALSE), InRange(sig_var, Types))
  IN  \/ /\ kind = "block"
         /\ Opened(OnBlock(t, sig.params, sig.results), kind,
                   Enter(m, FALSE, sig.params, sig.results))
      \/ /\ kind = "loop"
         /\ Opened(OnLoop(t, sig.params, sig.results), kind,
                   Enter(m, TRUE, sig.params, sig.results))
      \/ /\ kind = "try"
         /\ Opened(OnTry(t, sig.params, sig.results), kind,
                   Enter(m, FALSE, sig.params, sig.results))
      \/ /\ kind = "if"
         /\ Opened(OnIf(t, sig.params, sig.results), kind,
                   Enter(Exec(m, <<"i32">>, <<>>), FALSE, sig.params, sig.results))

SetOpen(kind) == open' = [open EXCEPT ![Len(open)] = kind]

OnElseInstr ==
  /\ open[Len(open)] = "if"
  /\ tc' = OnElse(tc)
  /\ Follow(tc', {NextPart(m, m.ctl[Len(m.ctl)].params)})
  /\ SetOpen("else")
  /\ UNCHANGED rest

\* catch_all is a catch whose tag carries nothing.
OnCatchInstr(tag_var, is_catch_all) ==
  LET sig == IF is_catch_all THEN <<>> ELSE Lookup(tag_var, Tags, <<>>)
  IN  /\ open[Len(open)] \in {"try", "catch"}
      /\ tc' = OnCatch(Check(Instr(tc, FALSE), is_catch_all \/ InRange(tag_var, Tags)), sig)
      /\ Follow(tc', {NextPart(m, sig)})
      /\ SetOpen("catch")
      /\ UNCHANGED rest

\* The machine runs an if without an else as if its else were empty.
OnEndInstr ==
  /\ open[Len(open)] \notin {"func", "init"}
  /\ tc' = OnEnd(Instr(tc, FALSE))
  /\ Follow(tc', Outcomes(IF open[Len(open)] = "if"
                          THEN NextPart(m, m.ctl[Len(m.ctl)].params) ELSE m))
  /\ open' = Below(open, 1)
  /\ UNCHANGED rest

\* The IR visitor does not call OnEnd for a try with a delegate.
OnDelegateInstr(depth) ==
  /\ open[Len(open)] = "try"
  /\ tc' = OnDelegate(Instr(tc, FALSE), depth)
  /\ Follow(tc', Outcomes(m))
  /\ open' = Below(open, 1)
  /\ UNCHANGED rest

-----------------------------------------------------------------------------
\* Branches.
OnBrInstr(depth) ==
  Step(OnBr(Instr(tc, FALSE), depth), Kill(Jump(m, Target(depth))))

OnBrIfInstr(depth) ==
  Step(OnBrIf(Instr(tc, FALSE), depth), Jump(Exec(m, <<"i32">>, <<>>), Target(depth)))

BeginBrTableInstr ==
  /\ br_table' = [active |-> TRUE, first |-> TRUE, sig |-> <<>>]
  /\ tc' = BeginBrTable(Instr(tc, FALSE))
  /\ Follow(tc', {Exec(m, <<"i32">>, <<>>)})
  /\ UNCHANGED <<profile, open, in_init_expr, declared, to_declare, used>>

\* br_table_sig_ is the first target's, and stays that one.
OnBrTableTargetInstr(depth) ==
  LET t == OnBrTableTarget(tc, depth, br_table.first, br_table.sig)
  IN  /\ Going /\ br_table.active
      /\ tc' = t
      /\ br_table' = IF HasLabel(tc, depth) /\ br_table.first
                     THEN [active |-> TRUE, first |-> FALSE, sig |-> br_types(GetLabel(tc, depth))]
                     ELSE br_table
      /\ Follow(t, {Jump(m, Target(depth))})
      /\ UNCHANGED <<profile, open, in_init_expr, declared, to_declare, used>>

\* Every br_table has a default target.
EndBrTableInstr ==
  /\ Going /\ br_table.active
  /\ ~br_table.first \/ ~tc.ok
  /\ br_table' = NoBrTable
  /\ tc' = EndBrTable(Instr(tc, FALSE))
  /\ Follow(tc', {Kill(m)})
  /\ UNCHANGED <<profile, open, in_init_expr, declared, to_declare, used>>

OnReturnInstr ==
  Step(OnReturn(Instr(tc, FALSE)),
       Kill(Needs(m, m.ctl[1].results)))

-----------------------------------------------------------------------------
\* Calls and exceptions.
OnCallInstr(func_var) ==
  LET sig == Lookup(func_var, Funcs, NoSig)
  IN  Step(OnCall(Check(Instr(tc, FALSE), InRange(func_var, Funcs)), sig.params, sig.results),
           Exec(m, sig.params, sig.results))

OnCallIndirectInstr(sig_var, table_var) ==
  LET sig   == Lookup(sig_var, Types, NoSig)
      index == IndexType(Lookup(table_var, Tables, [is_64 |-> FALSE]).is_64)
      t     == Check(Instr(tc, FALSE), InRange(sig_var, Types) /\ InRange(table_var, Tables))
  IN  Step(OnCallIndirect(t, sig.params, sig.results, index),
           Exec(m, Append(sig.params, index), sig.results))

\* Type::Reference with an index into func_types_.
RefTo(type_index) == IF type_index = 0 THEN "ref0" ELSE "ref1"
TypeIndexOf(type) == IF type = "ref0" THEN 0 ELSE IF type = "ref1" THEN 1 ELSE Len(Types)

\* call_ref gives up when the operand is no reference, and calls a function of
\* the type its index names.
OnCallRefInstr ==
  LET index == TypeIndexOf(PeekType(tc, 0).type)
      sig   == Lookup(index, Types, NoSig)
      t     == OnIndexedFuncRef(Instr([tc EXCEPT !.ok = TRUE], FALSE))
  IN  Step(IF ~t.ok THEN t
           ELSE OnCall(Check(t, tc.ok /\ InRange(index, Types)), sig.params, sig.results),
           Exec(m, Append(sig.params, RefTo(index)), sig.results))

\* A tail call: the callee's results are this function's.
TailCall(mm, params, results) ==
  Kill(Needs(Exec(mm, params, results), mm.ctl[1].results))

OnReturnCallInstr(func_var) ==
  LET sig == Lookup(func_var, Funcs, NoSig)
  IN  Step(OnReturnCall(Check(Instr(tc, FALSE), InRange(func_var, Funcs)), sig.params, sig.results),
           TailCall(m, sig.params, sig.results))

OnReturnCallIndirectInstr(sig_var, table_var) ==
  LET sig   == Lookup(sig_var, Types, NoSig)
      index == IndexType(Lookup(table_var, Tables, [is_64 |-> FALSE]).is_64)
      t     == Check(Instr(tc, FALSE), InRange(sig_var, Types) /\ InRange(table_var, Tables))
  IN  Step(OnReturnCallIndirect(t, sig.params, sig.results),
           TailCall(m, Append(sig.params, index), sig.results))

OnThrowInstr(tag_var) ==
  LET sig == Lookup(tag_var, Tags, <<>>)
  IN  Step(OnThrow(Check(Instr(tc, FALSE), InRange(tag_var, Tags)), sig), Kill(Needs(m, sig)))

OnRethrowInstr(depth) == Step(OnRethrow(Instr(tc, FALSE), depth), Kill(m))

OnUnreachableInstr == Step(OnUnreachable(Instr(tc, FALSE)), Kill(m))

-----------------------------------------------------------------------------
\* Everything else.

\* Const, unary, binary, ternary, compare, convert, loads, stores, atomics and
\* SIMD instructions: fixed operands and at most one result.
OnOpcodeInstr(op) ==
  Step(CheckOpcode(Instr(tc, op.init), op.params, op.result), Exec(m, op.params, op.result))

OnDropInstr ==
  Step(OnDrop(Instr(tc, FALSE)), Exec(m, TopN(m.stack, 1), <<>>))

\* The machine takes two operands of one type, and picks one.
OnSelectInstr(expected) ==
  LET type == IF expected # <<>> THEN expected ELSE TopN(Below(m.stack, 1), 1)
  IN  Step(OnSelect(Instr(tc, FALSE), expected), Exec(m, type \o type \o <<"i32">>, type))

OnGlobalGetInstr(global_var) ==
  LET global   == Lookup(global_var, Globals, [type |-> AnyType, mutable |-> FALSE, imported |-> TRUE])
      t        == Check(Instr(tc, TRUE), InRange(global_var, Globals))
      constant == in_init_expr => global.imported /\ ~global.mutable
  IN  Step(Check(PushTypes(t, <<global.type>>), constant), Exec(m, <<>>, <<global.type>>))

OnGlobalSetInstr(global_var) ==
  LET global == Lookup(global_var, Globals, [type |-> AnyType, mutable |-> FALSE])
      t      == Check(Instr(tc, FALSE), InRange(global_var, Globals) /\ global.mutable)
  IN  Step(CheckOpcode(t, <<global.type>>, <<>>), Exec(m, <<global.type>>, <<>>))

\* A ref.func in an initializer has the generic type.
RefFuncType(func_var) ==
  IF FunctionReferences /\ ~in_init_expr THEN RefTo(Funcs[func_var + 1].type_index)
                                         ELSE "funcref"

\* Mutated form: a use in a body is not checked at the end.
OnRefFuncInstr_NotChecked(func_var) ==
  LET valid == InRange(func_var, Funcs)
      t     == Check(Instr(tc, TRUE), valid)
  IN  /\ tc' = IF valid THEN PushTypes(t, <<RefFuncType(func_var)>>) ELSE t
      /\ Follow(tc', {Exec(m, <<>>, <<RefFuncType(func_var)>>)})
      /\ declared' = IF valid /\ in_init_expr THEN declared \cup {func_var} ELSE declared
      /\ used' = IF tc'.ok THEN used \cup {func_var} ELSE used
      /\ UNCHANGED <<profile, open, in_init_expr, br_table, to_declare>>

\* ref.func: a declaration in an initializer, a use in a body.
OnRefFuncInstr(func_var) ==
  LET valid == InRange(func_var, Funcs)
      t     == Check(Instr(tc, TRUE), valid)
  IN  /\ tc' = IF valid THEN PushTypes(t, <<RefFuncType(func_var)>>) ELSE t
      /\ Follow(tc', {Exec(m, <<>>, <<RefFuncType(func_var)>>)})
      /\ declared' = IF valid /\ in_init_expr THEN declared \cup {func_var} ELSE declared
      /\ to_declare' = IF valid /\ ~in_init_expr THEN to_declare \cup {func_var} ELSE to_declare
      /\ used' = IF tc'.ok THEN used \cup {func_var} ELSE used
      /\ UNCHANGED <<profile, open, in_init_expr, br_table>>

OnRefIsNullInstr ==
  Step(OnRefIsNull(Instr(tc, FALSE)), Exec(m, TopN(m.stack, 1), <<"i32">>))

OnTableInstr(kind, table_var) ==
  LET table == Lookup(table_var, Tables, [elem |-> AnyType, is_64 |-> FALSE])
      index == IndexType(table.is_64)
      t     == Check(Instr(tc, FALSE), InRange(table_var, Tables))
  IN  \/ /\ kind = "get"
         /\ Step(OnTableGet(t, table.elem, table.is_64), Exec(m, <<index>>, <<table.elem>>))
      \/ /\ kind = "set"
         /\ Step(OnTableSet(t, table.elem, table.is_64), Exec(m, <<index, table.elem>>, <<>>))
      \/ /\ kind = "grow"
         /\ Step(OnTableGrow(t, table.elem, table.is_64),
                 Exec(m, <<table.elem, index>>, <<index>>))
      \/ /\ kind = "size"
         /\ Step(OnSize(t, table.is_64), Exec(m, <<>>, <<index>>))
      \/ /\ kind = "fill"
         /\ Step(OnFill(t, table.elem, table.is_64),
                 Exec(m, <<index, table.elem, index>>, <<>>))

\* table.copy and memory.copy between tables of both index types; the element
\* types must agree.
OnTableCopyInstr(dst_var, src_var) ==
  LET dst == Lookup(dst_var, Tables, [elem |-> AnyType, is_64 |-> FALSE])
      src == Lookup(src_var, Tables, [elem |-> AnyType, is_64 |-> FALSE])
      t   == Check(Instr(tc, FALSE), InRange(dst_var, Tables) /\ InRange(src_var, Tables))
      sz  == IF dst.is_64 /\ src.is_64 THEN "i64" ELSE "i32"
  IN  Step(Check(OnCopy(t, dst.is_64, src.is_64), CheckType(src.elem, dst.elem)),
           Exec(m, <<IndexType(dst.is_64), IndexType(src.is_64), sz>>, <<>>))

\* An export declares its function, whether or not the index is valid.
OnExport(func_var) ==
  /\ Idle
  /\ declared' = declared \cup {func_var}
  /\ UNCHANGED <<profile, tc, in_init_expr, br_table, to_declare, open, m, used>>

\* EndModule succeeds.
EndModule == Idle /\ to_declare \subseteq declared

-----------------------------------------------------------------------------
\* One instruction of the body; has(i) keeps a run to the ones it is about.
has(instr) == instr \in P.instrs

Body ==
  /\ InBody
  /\ \/ has("block") /\ \E v \in Vars(Types) : OnBlockInstr("block", v)
     \/ has("loop") /\ \E v \in Vars(Types) : OnBlockInstr("loop", v)
     \/ has("if") /\ \E v \in Vars(Types) : OnBlockInstr("if", v)
     \/ has("if") /\ OnElseInstr
     \/ has("try") /\ \E v \in Vars(Types) : OnBlockInstr("try", v)
     \/ has("try") /\ \E v \in Vars(Tags), all \in BOOLEAN : OnCatchInstr(v, all)
     \/ has("try") /\ \E d \in Depths : OnDelegateInstr(d)
     \/ has("try") /\ \E d \in Depths : OnRethrowInstr(d)
     \/ has("try") /\ \E v \in Vars(Tags) : OnThrowInstr(v)
     \/ OnEndInstr
     \/ has("br") /\ \E d \in Depths : OnBrInstr(d)
     \/ has("br_if") /\ \E d \in Depths : OnBrIfInstr(d)
     \/ has("br_table") /\ BeginBrTableInstr
     \/ has("br") /\ OnReturnInstr
     \/ has("br") /\ OnUnreachableInstr
     \/ has("call") /\ Room /\ \E v \in Vars(Funcs) : OnCallInstr(v)
     \/ has("call") /\ Room /\ \E v \in Vars(Types), w \in Vars(Tables) : OnCallIndirectInstr(v, w)
     \/ has("call_ref") /\ Room /\ OnCallRefInstr
     \/ has("return_call") /\ \E v \in Vars(Funcs) : OnReturnCallInstr(v)
     \/ has("return_call_indirect") /\ \E v \in Vars(Types), w \in Vars(Tables) :
                                         OnReturnCallIndirectInstr(v, w)
     \/ Room /\ \E op \in Opcodes : OnOpcodeInstr(op)
     \/ has("drop") /\ OnDropInstr
     \/ has("select") /\ \E expected \in Selects : OnSelectInstr(expected)
     \/ has("global") /\ Room /\ \E v \in Vars(Globals) : OnGlobalGetInstr(v)
     \/ has("global") /\ \E v \in Vars(Globals) : OnGlobalSetInstr(v)
     \/ has("ref") /\ Room /\ \E v \in Vars(Funcs) : OnRefFuncInstr(v)
     \/ has("ref") /\ OnRefIsNullInstr
     \/ has("table") /\ Room /\ \E v \in Vars(Tables), k \in {"get", "set", "grow", "size", "fill"} :
                                  OnTableInstr(k, v)
     \/ has("table") /\ \E v, w \in Vars(Tables) : OnTableCopyInstr(v, w)

Next ==
  \/ \E v \in Vars(Funcs) : BeginFunctionBody(v)
  \/ has("init") /\ \E type \in {"i32", "funcref"} : BeginInit(type)
  \/ EndFunctionBody
  \/ EndInit
  \/ Body
  \/ \E d \in Depths : OnBrTableTargetInstr(d)
  \/ EndBrTableInstr
  \/ has("init") /\ \E v \in Vars(Funcs) : OnExport(v)

Spec == Init /\ [][Next]_vars

-----------------------------------------------------------------------------

\* The labels' limits are nested and lie within the type stack, also after
\* errors: ResetTypeStackToLabel, which calls vector::resize, never invents
\* operands, and the difference the interpreter's drop counts are computed
\* from (the assert of BinaryReaderInterp::GetBrDropKeepCount) is never
\* negative.
LimitsOK ==
  /\ \A k \in DOMAIN tc.label_stack : tc.label_stack[k].type_stack_limit <= Len(tc.type_stack)
  /\ \A k, l \in DOMAIN tc.label_stack :
       k < l => tc.label_stack[k].type_stack_limit <= tc.label_stack[l].type_stack_limit

\* A label is on the stack for every block the caller has open, whatever
\* failed in between, so that TopLabel never meets an empty stack; and while
\* nothing failed there are no others.
NestingCovered ==
  /\ ~Idle => Len(tc.label_stack) >= Len(open)
  /\ ~Idle /\ tc.ok => /\ Len(tc.label_stack) = Len(open)
                       /\ \A k \in DOMAIN open : tc.label_stack[k].label_type = open[k]

\* The modules Sound is proved for.  A select annotated with a type leaves a value
\* of type Any, which stands for every type, and return_call_indirect takes an
\* i32 whatever the index type of its table; the checker's answers for the
\* two are not exact.
Exact(p) ==
  /\ p.selects \subseteq {<<>>}
  /\ "return_call_indirect" \in p.instrs => \A i \in DOMAIN p.tables : ~p.tables[i].is_64

\* Validation is sound, and exact: no instruction of accepted code ever meets an
\* operand of a type it does not take, a body that returns hands exactly its
\* results to the caller, on every path to a point of an accepted body the
\* operands have the very types on the type stack, below each open block there
\* are as many as its label's limit (so that the counts the interpreter and
\* wasm2c bake into branches are right), and code the checker calls unreachable
\* is never reached.
Sound ==
  tc.ok =>
    /\ ~m.stuck
    /\ ~Idle =>
         /\ m.live => m.stack = tc.type_stack /\ ~TopLabel(tc).unreachable
         /\ \A k \in DOMAIN m.ctl :
              m.ctl[k].entered => Len(m.ctl[k].base) = tc.label_stack[k].type_stack_limit

\* A module that passes EndModule takes references only to functions it
\* declares outside function bodies, whatever the order of bodies, exports
\* and initializers.
RefFuncsDeclared == EndModule => used \subseteq declared
=============================================================================
