----------------------------- MODULE InterpCode -----------------------------
(***************************************************************************)
(* wabt::interp::BinaryReaderInterp (src/interp/binary-reader-interp.cc):  *)
(* the code generator of the interpreter.  For every instruction it reads  *)
(* it asks the validator and appends code to an Istream                    *)
(* (src/interp/istream.cc), with operand counts read off the validator's   *)
(* stacks, forward branches patched later, and a table of exception        *)
(* handlers that cover ranges of offsets.                                  *)
(*                                                                         *)
(* A reader is a record r; a callback is an operator from reader to        *)
(* reader.  r.tc is the validator's checker; a caller keeps the reader     *)
(* only when r.tc.ok (CHECK_RESULT).  The stream is a sequence of cells,   *)
(* one per opcode and one per immediate, and offsets count cells from 0.   *)
(***************************************************************************)
EXTENDS TypeCheckerOps

kInvalidOffset == 9999      \* above every offset, like 2^32 - 1
NoFunc == -1

\* r.mod: the parts of the module that come before its code: funcs (imports
\* first), imports (their number), tags, locals (declared ones per function).
FuncType(r, f) == r.mod.funcs[f + 1]
Locals(r, f) == r.mod.locals[f + 1]
num_func_imports(r) == r.mod.imports
Defined(r, f) == f - num_func_imports(r) + 1
GetLocalCount(r) == Len(FuncType(r, r.fn).params) + Len(Locals(r, r.fn))

BeginModule(mod) ==
  [mod |-> [funcs |-> mod.funcs, imports |-> mod.imports, tags |-> mod.tags,
            locals |-> mod.locals],
   fn |-> NoFunc, code |-> <<>>, labels |-> <<>>, tc |-> BeginFunction(<<>>),
   depth_fixups |-> {}, func_fixups |-> {},
   desc |-> [d \in 1 .. Len(mod.funcs) - mod.imports |->
               [code_offset |-> kInvalidOffset, handlers |-> <<>>]]]

-----------------------------------------------------------------------------
\* Istream.
end(r) == Len(r.code)
Emit(r, cells) == [r EXCEPT !.code = @ \o cells]

\* Cells that hold a forward reference are given the current end.
Patch(r, offsets) ==
  [r EXCEPT !.code = [i \in DOMAIN r.code |-> IF i - 1 \in offsets THEN end(r) ELSE r.code[i]]]

ResolveFixupU32(r, offset) == Patch(r, {offset})

EmitDropKeep(r, drop, keep) ==
  IF drop = 0 THEN r
  ELSE IF drop = 1 /\ keep = 0 THEN Emit(r, <<"drop">>)
  ELSE Emit(r, <<"drop_keep", drop, keep>>)

EmitCatchDrop(r, drop) == IF drop = 0 THEN r ELSE Emit(r, <<"catch_drop", drop>>)

\* A branch over an entry of a br_table: drop_keep, catch_drop and br.
kBrTableEntrySize == 7

\* FixupMap, a set of pairs of an index and an offset.
Append1(map, index, offset) == map \cup {<<index, offset>>}
Offsets(map, index) == {e[2] : e \in {x \in map : x[1] = index}}
Erase(map, index) == {x \in map : x[1] # index}

-----------------------------------------------------------------------------
\* Labels.
PushLabelR(r, kind, offset, fixup, handler) ==
  [r EXCEPT !.labels = Append(@, [kind |-> kind, offset |-> offset, fixup_offset |-> fixup,
                                  handler |-> handler])]
PopLabelR(r) == [r EXCEPT !.labels = SubSeq(@, 1, Len(@) - 1)]
LabelAt(r, depth) == r.labels[Len(r.labels) - depth]

Max0(S) == CHOOSE x \in S : \A y \in S : y <= x

\* The innermost try label from depth outwards; the function is one.
GetNearestTryLabel(r, depth) ==
  r.labels[Max0({k \in 1 .. Len(r.labels) - depth : r.labels[k].kind = "try"})]

\* Mutated form: fixups are looked up one label too far in.
FixupTopLabel_Inner(r) ==
  [Patch(r, Offsets(r.depth_fixups, Len(r.labels)))
     EXCEPT !.depth_fixups = Erase(@, Len(r.labels))]

\* Fixups are kept per label, counted from the function's, 0.
FixupTopLabel(r) ==
  LET index == Len(r.labels) - 1
  IN  [Patch(r, Offsets(r.depth_fixups, index)) EXCEPT !.depth_fixups = Erase(@, index)]

\* br to the end of the top label.
EmitBrToEnd(r) ==
  [Emit(r, <<"br", kInvalidOffset>>)
     EXCEPT !.depth_fixups = Append1(@, Len(r.labels) - 1, end(r) + 1)]

SetTop(r, kind, fixup) ==
  [r EXCEPT !.labels[Len(r.labels)].kind = kind, !.labels[Len(r.labels)].fixup_offset = fixup]

-----------------------------------------------------------------------------
\* Operand counts.
GetDropCount(r, keep, limit) ==
  LET count == Len(r.tc.type_stack) - limit
  IN  IF count >= keep THEN count - keep ELSE 0

GetBrDropKeepCount(r, depth) ==
  LET label == GetLabel(r.tc, depth)
      keep  == Len(br_types(label))
  IN  [drop |-> GetDropCount(r, keep, label.type_stack_limit), keep |-> keep]

GetReturnDropKeepCount(r) ==
  LET count == GetBrDropKeepCount(r, Len(r.labels) - 1)
  IN  [count EXCEPT !.drop = @ + GetLocalCount(r)]

GetReturnCallDropKeepCount(r, params, extra) ==
  LET keep == Len(params) + extra
  IN  [drop |-> GetDropCount(r, keep, 0) + GetLocalCount(r), keep |-> keep]

EmitBr(r, depth, count, catches) ==
  LET q      == EmitCatchDrop(EmitDropKeep(r, count.drop, count.keep), catches)
      target == LabelAt(r, depth).offset
      index  == Len(r.labels) - 1 - depth
      jump   == Emit(q, <<"br", target>>)
  IN  IF target # kInvalidOffset THEN jump
      ELSE [jump EXCEPT !.depth_fixups = Append1(@, index, end(q) + 1)]

-----------------------------------------------------------------------------
\* Function bodies.  The function's label is a try without catches, so that a
\* delegate can name it.
BeginFunctionBody(r, f) ==
  LET d        == Defined(r, f)
      resolved == Patch(r, Offsets(r.func_fixups, d - 1))
      begun    == [resolved EXCEPT !.fn = f, !.labels = <<>>, !.depth_fixups = {},
                     !.func_fixups = Erase(@, d - 1),
                     !.tc = BeginFunction(FuncType(r, f).results),
                     !.desc[d] = [code_offset |-> end(r), handlers |-> <<>>]]
      labelled == PushLabelR(begun, "try", kInvalidOffset, kInvalidOffset, 0)
  IN  [labelled EXCEPT !.desc[d].handlers =
         <<[kind |-> "catch", try_start |-> end(r), try_end |-> kInvalidOffset, catches |-> <<>>,
            catch_all |-> kInvalidOffset, delegate |-> 0, values |-> 0, exceptions |-> 0]>>]

\* InterpAlloca is emitted with the last local declaration.
OnLocalDecl(r) ==
  IF Locals(r, r.fn) = <<>> THEN r ELSE Emit(r, <<"alloca", Len(Locals(r, r.fn))>>)

EndFunctionBody(r) ==
  LET fixed == FixupTopLabel(r)
      count == GetReturnDropKeepCount(fixed)
      ended == [fixed EXCEPT !.tc = EndFunction(@)]
      last  == Emit(EmitDropKeep(ended, count.drop, count.keep), <<"return">>)
  IN  [PopLabelR(last) EXCEPT !.fn = NoFunc]

\* What follows edits the handlers of the current function.
Handlers(r) == r.desc[Defined(r, r.fn)].handlers
SetHandlers(r, handlers) == [r EXCEPT !.desc[Defined(r, r.fn)].handlers = handlers]
TopHandler(r) == LabelAt(r, 0).handler + 1

-----------------------------------------------------------------------------
\* Blocks.
OnBlockExpr(r, sig) ==
  PushLabelR([r EXCEPT !.tc = OnBlock(@, sig.params, sig.results)],
             "block", kInvalidOffset, kInvalidOffset, 0)

OnLoopExpr(r, sig) ==
  PushLabelR([r EXCEPT !.tc = OnLoop(@, sig.params, sig.results)],
             "block", end(r), kInvalidOffset, 0)

OnIfExpr(r, sig) ==
  LET q == Emit([r EXCEPT !.tc = OnIf(@, sig.params, sig.results)],
                <<"br_unless", kInvalidOffset>>)
  IN  PushLabelR(q, "block", kInvalidOffset, end(r) + 1, 0)

OnElseExpr(r) ==
  LET cond == LabelAt(r, 0).fixup_offset
      q    == Emit([r EXCEPT !.tc = OnElse(@)], <<"br", kInvalidOffset>>)
  IN  ResolveFixupU32(SetTop(q, LabelAt(r, 0).kind, end(r) + 1), cond)

OnTryExpr(r, sig) ==
  LET handler == [kind |-> "catch", try_start |-> end(r), try_end |-> kInvalidOffset,
                  catches |-> <<>>, catch_all |-> kInvalidOffset, delegate |-> 0,
                  values |-> Len(r.tc.type_stack),
                  exceptions |-> CatchCount(r.tc, Len(r.labels) - 1)]
      q == PushLabelR([r EXCEPT !.tc = OnTry(@, sig.params, sig.results)],
                      "try", kInvalidOffset, kInvalidOffset, Len(Handlers(r)))
  IN  SetHandlers(q, Append(Handlers(r), handler))

\* Mutated form: every catch ends the range, which then covers the catch blocks.
BeginCatch_Extends(r) ==
  LET dropped == EmitCatchDrop(r, IF LabelAt(r, 0).kind = "block" THEN 1 ELSE 0)
      jump    == SetTop(EmitBrToEnd(dropped), "block", LabelAt(r, 0).fixup_offset)
  IN  SetHandlers(jump, [Handlers(r) EXCEPT ![TopHandler(r)].try_end = end(jump)])

\* The first catch ends the range of the try; the label is no try from here on.
BeginCatch(r) ==
  LET dropped == EmitCatchDrop(r, IF LabelAt(r, 0).kind = "block" THEN 1 ELSE 0)
      jump    == SetTop(EmitBrToEnd(dropped), "block", LabelAt(r, 0).fixup_offset)
      first   == Handlers(r)[TopHandler(r)].try_end = kInvalidOffset
  IN  IF first THEN SetHandlers(jump, [Handlers(r) EXCEPT ![TopHandler(r)].try_end = end(jump)])
      ELSE jump

OnCatchExpr(r, tag) ==
  LET q == BeginCatch([r EXCEPT !.tc = OnCatch(@, r.mod.tags[tag + 1])])
  IN  SetHandlers(q, [Handlers(q) EXCEPT ![TopHandler(q)].catches =
                        Append(@, [tag |-> tag, offset |-> end(q)])])

OnCatchAllExpr(r) ==
  LET q == BeginCatch([r EXCEPT !.tc = OnCatch(@, <<>>)])
  IN  SetHandlers(q, [Handlers(q) EXCEPT ![TopHandler(q)].catch_all = end(q)])

OnDelegateExpr(r, depth) ==
  LET q      == EmitBrToEnd([r EXCEPT !.tc = OnDelegate(@, depth)])
      target == GetNearestTryLabel(r, depth + 1).handler
      h      == TopHandler(r)
  IN  PopLabelR(FixupTopLabel(SetHandlers(q,
        [Handlers(r) EXCEPT ![h].kind = "delegate", ![h].try_end = end(q), ![h].delegate = target])))

\* Branches to a catch's end arrive behind its catch_drop.
OnEndExpr(r) ==
  LET type  == TopLabel(r.tc).label_type
      q     == [r EXCEPT !.tc = OnEnd(@)]
      ended == IF type \in {"if", "else"} THEN ResolveFixupU32(q, LabelAt(r, 0).fixup_offset)
               ELSE IF type = "try"
                    THEN SetHandlers(q, [Handlers(r) EXCEPT ![TopHandler(r)].try_end = end(r)])
               ELSE IF type = "catch" THEN EmitCatchDrop(q, 1)
               ELSE q
  IN  PopLabelR(FixupTopLabel(ended))

-----------------------------------------------------------------------------
\* Branches.  br counts before the validator makes the stack polymorphic,
\* br_if after the condition is popped.
OnBrExpr(r, depth) ==
  EmitBr([r EXCEPT !.tc = OnBr(@, depth)], depth, GetBrDropKeepCount(r, depth),
         CatchCount(r.tc, depth))

\* Mutated form: the counts are taken with the condition still there.
OnBrIfExpr_CountFirst(r, depth) ==
  LET q     == [r EXCEPT !.tc = OnBrIf(@, depth)]
      cond  == Emit(q, <<"br_unless", kInvalidOffset>>)
      taken == EmitBr(cond, depth, GetBrDropKeepCount(r, depth), CatchCount(q.tc, depth))
  IN  ResolveFixupU32(taken, end(r) + 1)

OnBrIfExpr(r, depth) ==
  LET q     == [r EXCEPT !.tc = OnBrIf(@, depth)]
      cond  == Emit(q, <<"br_unless", kInvalidOffset>>)
      taken == EmitBr(cond, depth, GetBrDropKeepCount(q, depth), CatchCount(q.tc, depth))
  IN  ResolveFixupU32(taken, end(r) + 1)

NoCount == [drop |-> 0, keep |-> 0]

\* One entry of fixed size per target, then the default.
BrTableEntry(r, depth, fixed) ==
  LET count == GetBrDropKeepCount(r, depth)
      drop  == IF fixed THEN Emit(r, <<"drop_keep", count.drop, count.keep>>)
                        ELSE EmitDropKeep(r, count.drop, count.keep)
      catch == Emit(drop, <<"catch_drop", CatchCount(r.tc, depth)>>)
  IN  EmitBr(catch, depth, NoCount, 0)

OnBrTableExpr(r, target, default) ==
  LET q   == Emit([r EXCEPT !.tc = BeginBrTable(@)], <<"br_table", 1>>)
      one == BrTableEntry([q EXCEPT !.tc = OnBrTableTarget(@, target, TRUE, <<>>)], target, TRUE)
      sig == br_types(GetLabel(q.tc, target))
      two == BrTableEntry([one EXCEPT !.tc = OnBrTableTarget(@, default, FALSE, sig)],
                          default, FALSE)
  IN  [two EXCEPT !.tc = EndBrTable(@)]

OnReturnExpr(r) ==
  LET count == GetReturnDropKeepCount(r)
      q     == EmitDropKeep([r EXCEPT !.tc = OnReturn(@)], count.drop, count.keep)
  IN  Emit(EmitCatchDrop(q, CatchCount(r.tc, Len(r.labels) - 1)), <<"return">>)

-----------------------------------------------------------------------------
\* Calls.
OnCallExpr(r, f) ==
  Emit([r EXCEPT !.tc = OnCall(@, FuncType(r, f).params, FuncType(r, f).results)],
       <<IF f >= num_func_imports(r) THEN "call" ELSE "call_import", f>>)

OnCallIndirectExpr(r, f) ==
  Emit([r EXCEPT !.tc = OnCallIndirect(@, FuncType(r, f).params, FuncType(r, f).results, "i32")],
       <<"call_indirect", 0, f>>)

\* GetFuncOffset: the branch to a function whose body was not read yet is
\* patched when it is.
EmitFuncOffset(r, f) ==
  LET offset == r.desc[Defined(r, f)].code_offset
  IN  IF offset # kInvalidOffset THEN Emit(r, <<offset>>)
      ELSE [Emit(r, <<offset>>) EXCEPT !.func_fixups = Append1(@, f, end(r))]

\* The validator runs twice, and the counts are taken in between: from the
\* stack that the first call has made polymorphic.
OnReturnCallExpr(r, f) ==
  LET type  == FuncType(r, f)
      q     == [r EXCEPT !.tc = OnReturnCall(@, type.params, type.results)]
      count == GetReturnCallDropKeepCount(q, type.params, 0)
      again == [q EXCEPT !.tc = OnReturnCall(@, type.params, type.results)]
      kept  == EmitCatchDrop(EmitDropKeep(again, count.drop, count.keep),
                             CatchCount(q.tc, Len(r.labels) - 1))
  IN  IF f >= num_func_imports(r)
      THEN EmitFuncOffset(Emit(kept, <<"adjust_frame", f, "br">>), f)
      ELSE Emit(kept, <<"call_import", f, "return">>)

OnReturnCallIndirectExpr(r, f) ==
  LET type  == FuncType(r, f)
      q     == [r EXCEPT !.tc = OnReturnCallIndirect(@, type.params, type.results)]
      count == GetReturnCallDropKeepCount(q, type.params, 1)
      again == [q EXCEPT !.tc = OnReturnCallIndirect(@, type.params, type.results)]
      kept  == EmitCatchDrop(EmitDropKeep(again, count.drop, count.keep),
                             CatchCount(q.tc, Len(r.labels) - 1))
  IN  Emit(kept, <<"return_call_indirect", 0, f>>)

-----------------------------------------------------------------------------
\* Exceptions.
OnThrowExpr(r, tag) ==
  Emit([r EXCEPT !.tc = OnThrow(@, r.mod.tags[tag + 1])], <<"throw", tag>>)

\* The immediate is a position in the stack of caught exceptions.
OnRethrowExpr(r, depth) ==
  LET q == [r EXCEPT !.tc = OnRethrow(@, depth)]
  IN  Emit(q, <<"rethrow", CatchCount(q.tc, depth) - 1>>)

-----------------------------------------------------------------------------
\* Locals are addressed from the top of the value stack.
TranslateLocalIndex(r, local) == Len(r.tc.type_stack) + GetLocalCount(r) - local
LocalType(r, local) == (FuncType(r, r.fn).params \o Locals(r, r.fn))[local + 1]

OnLocalGetExpr(r, local) ==
  Emit([r EXCEPT !.tc = PushTypes(@, <<LocalType(r, local)>>)],
       <<"local.get", TranslateLocalIndex(r, local)>>)

OnLocalSetExpr(r, local) ==
  Emit([r EXCEPT !.tc = PopAndCheckSignature(@, <<LocalType(r, local)>>)],
       <<"local.set", TranslateLocalIndex(r, local)>>)

OnLocalTeeExpr(r, local) ==
  LET q == [r EXCEPT !.tc = CheckOpcode(@, <<LocalType(r, local)>>, <<LocalType(r, local)>>)]
  IN  Emit(q, <<"local.tee", TranslateLocalIndex(q, local)>>)

OnDropExpr(r) == Emit([r EXCEPT !.tc = OnDrop(@)], <<"drop">>)
OnSelectExpr(r) == Emit([r EXCEPT !.tc = OnSelect(@, <<>>)], <<"select">>)
OnUnreachableExpr(r) == Emit([r EXCEPT !.tc = OnUnreachable(@)], <<"unreachable">>)
OnNopExpr(r) == r
-----------------------------------------------------------------------------
\* Instructions with a fixed type, which are emitted as they are: an opcode and
\* its immediates (InstrKind).  One entry stands for the opcodes of one kind.
Op(params, results, imms, traps) ==
  [params |-> params, results |-> results, imms |-> imms, traps |-> traps]

NumericOps ==
  [unary        |-> Op(<<"i32">>, <<"i32">>, 0, FALSE),
   binary       |-> Op(<<"i32", "i32">>, <<"i32">>, 0, TRUE),
   ternary      |-> Op(<<"v128", "v128", "v128">>, <<"v128">>, 0, FALSE),
   lane         |-> Op(<<"v128">>, <<"i32">>, 1, FALSE),
   replace_lane |-> Op(<<"v128", "i32">>, <<"v128">>, 1, FALSE),
   load_lane    |-> Op(<<"i32", "v128">>, <<"v128">>, 3, TRUE),
   store_lane   |-> Op(<<"i32", "v128">>, <<>>, 3, TRUE),
   shuffle      |-> Op(<<"v128", "v128">>, <<"v128">>, 1, FALSE),
   load_splat   |-> Op(<<"i32">>, <<"v128">>, 2, TRUE),
   atomic_load  |-> Op(<<"i32">>, <<"i32">>, 2, TRUE),
   atomic_store |-> Op(<<"i32", "i32">>, <<>>, 2, TRUE),
   atomic_rmw   |-> Op(<<"i32", "i32">>, <<"i32">>, 2, TRUE),
   cmpxchg      |-> Op(<<"i32", "i32", "i32">>, <<"i32">>, 2, TRUE)]

ConstOps ==
  [compare    |-> Op(<<"f32", "f32">>, <<"i32">>, 0, FALSE),
   convert    |-> Op(<<"f32">>, <<"i32">>, 0, TRUE),
   i32_const  |-> Op(<<>>, <<"i32">>, 1, FALSE),
   f32_const  |-> Op(<<>>, <<"f32">>, 1, FALSE),
   v128_const |-> Op(<<>>, <<"v128">>, 1, FALSE),
   global_get |-> Op(<<>>, <<"funcref">>, 1, FALSE),
   global_set |-> Op(<<"funcref">>, <<>>, 1, FALSE)]

MemoryOps ==
  [load        |-> Op(<<"i32">>, <<"f32">>, 2, TRUE),
   store       |-> Op(<<"i32", "f32">>, <<>>, 2, TRUE),
   memory_grow |-> Op(<<"i32">>, <<"i32">>, 1, FALSE),
   memory_size |-> Op(<<>>, <<"i32">>, 1, FALSE),
   table_grow  |-> Op(<<"funcref", "i32">>, <<"i32">>, 1, FALSE),
   table_size  |-> Op(<<>>, <<"i32">>, 1, FALSE),
   table_fill  |-> Op(<<"i32", "funcref", "i32">>, <<>>, 1, TRUE),
   ref_func    |-> Op(<<>>, <<"funcref">>, 1, FALSE),
   ref_null    |-> Op(<<>>, <<"funcref">>, 0, FALSE),
   ref_is_null |-> Op(<<"funcref">>, <<"i32">>, 0, FALSE)]

BulkOps ==
  [atomic_wait   |-> Op(<<"i32", "i32", "i64">>, <<"i32">>, 2, TRUE),
   atomic_notify |-> Op(<<"i32", "i32">>, <<"i32">>, 2, TRUE),
   memory_copy   |-> Op(<<"i32", "i32", "i32">>, <<>>, 2, TRUE),
   data_drop     |-> Op(<<>>, <<>>, 1, FALSE),
   memory_fill   |-> Op(<<"i32", "i32", "i32">>, <<>>, 1, TRUE),
   memory_init   |-> Op(<<"i32", "i32", "i32">>, <<>>, 2, TRUE),
   table_get     |-> Op(<<"i32">>, <<"funcref">>, 1, TRUE),
   table_set     |-> Op(<<"i32", "funcref">>, <<>>, 1, TRUE),
   table_copy    |-> Op(<<"i32", "i32", "i32">>, <<>>, 2, TRUE),
   elem_drop     |-> Op(<<>>, <<>>, 1, FALSE),
   table_init    |-> Op(<<"i32", "i32", "i32">>, <<>>, 2, TRUE)]

EmitOp(r, op, o) ==
  Emit([r EXCEPT !.tc = CheckOpcode(@, o.params, o.results)],
       <<op>> \o [i \in 1 .. o.imms |-> 0])

OnNumericExpr(r, op) == EmitOp(r, op, NumericOps[op])
OnConstExpr(r, op) == EmitOp(r, op, ConstOps[op])
OnMemoryExpr(r, op) == EmitOp(r, op, MemoryOps[op])
OnBulkExpr(r, op) == EmitOp(r, op, BulkOps[op])

PlainOp(op) ==
  IF op \in DOMAIN NumericOps THEN NumericOps[op]
  ELSE IF op \in DOMAIN ConstOps THEN ConstOps[op]
  ELSE IF op \in DOMAIN MemoryOps THEN MemoryOps[op]
  ELSE BulkOps[op]

\* Istream::Read: the immediates of the other opcodes.
Imm0 == {"drop", "select", "return", "unreachable"}
Imm1 == {"br", "br_unless", "br_table", "call", "call_import", "alloca", "catch_drop",
         "adjust_frame", "local.get", "local.set", "local.tee", "throw", "rethrow"}
Imm2 == {"drop_keep", "call_indirect", "return_call_indirect"}

Immediates(op) ==
  IF op \in Imm0 THEN 0 ELSE IF op \in Imm1 THEN 1 ELSE IF op \in Imm2 THEN 2
  ELSE PlainOp(op).imms
=============================================================================
