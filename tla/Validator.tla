------------------------------ MODULE Validator ------------------------------
(***************************************************************************)
(* wabt::Validator (src/validator.cc): the pass over a finished module     *)
(* that every tool runs behind a reader, and the methods of                *)
(* SharedValidator (src/shared-validator.cc) it calls, over the type       *)
(* checker of TypeCheckerOps.                                              *)
(*                                                                         *)
(* A validator is a record v.  result_ only collects errors, so what is    *)
(* done after the first one does not matter: each step is skipped then.    *)
(* The sections fill the index spaces in the order in which they are used, *)
(* so the index spaces are those of the module.                            *)
(***************************************************************************)
EXTENDS WasmIR

T == INSTANCE TypeCheckerOps

\* UINT32_MAX and WABT_MAX_PAGES64, scaled to the integers of Leb128.
MaxU32 == 10 ^ 9 - 1
MaxPages64 == 10 ^ 9
MaxPages32 == 65536

NewValidator(mod, features) ==
  [ok |-> TRUE, mod |-> mod, features |-> features, tc |-> T!BeginFunction(<<>>),
   init |-> FALSE, locals |-> <<>>, declared |-> {}, toDeclare |-> {}]

Require(v, cond) == [v EXCEPT !.ok = @ /\ cond]
Typed(v, tc) == [v EXCEPT !.tc = tc, !.ok = @ /\ tc.ok]
Enabled(v, feature) == feature \in v.features

\* The types as the type checker names them.
TypeName(t) ==
  CASE t = I32 -> "i32" [] t = I64 -> "i64" [] t = F32 -> "f32" [] t = F64 -> "f64"
    [] t = V128 -> "v128" [] t = FuncRef -> "funcref" [] t = ExternRef -> "externref"
    [] OTHER -> "other"
TypeNames(ts) == [i \in DOMAIN ts |-> TypeName(ts[i])]

-----------------------------------------------------------------------------
(* Indexes                                                                  *)

CheckIndex(space, var) == var[2] >= 0 /\ var[2] < Len(space)
At(space, var) == space[var[2] + 1]

CheckFuncTypeIndex(v, var) ==
  IF CheckIndex(v.mod.types, var) THEN At(v.mod.types, var).kind = "func" ELSE FALSE
CheckLocalIndex(v, var) == CheckIndex(v.locals, var)

\* GetFuncTypeIndex of a declaration, and the signature that CheckFuncTypeIndex
\* finds for it.
TypeVar(v, decl) == IF decl.hasType THEN decl.var ELSE Idx(GetFuncTypeIndex(v.mod, decl))
SigOf(v, var) == At(v.mod.types, var).sig
FuncSig(v, var) == SigOf(v, TypeVar(v, At(v.mod.funcs, var).decl))
TagParams(v, var) == TypeNames(SigOf(v, TypeVar(v, At(v.mod.tags, var).decl)).params)

MemoryIs64(v, var) == At(v.mod.memories, var).limits.is64
TableIs64(v, var)  == At(v.mod.tables, var).limits.is64
ElemType(v, var)   == TypeName(At(v.mod.tables, var).type)

-----------------------------------------------------------------------------
(* Instructions                                                             *)

ValidInitOpcode(v, o) ==
  \/ o \in {"global.get", "i32.const", "i64.const", "f32.const", "f64.const", "ref.func", "ref.null"}
  \/ Enabled(v, "extended_const") /\ o = "i32.add"
CheckInstr(v, o) == Require(v, v.init => ValidInitOpcode(v, o))

\* Operands and results, from the opcode table.
I == "i32"
OperandsOf(o) ==
  CASE o \in {"i32.load", "i64.load8_s", "v128.load", "v128.load8_splat", "v128.load32_zero",
              "i32.atomic.load", "i32.eqz", "i32.clz", "i32.extend8_s"} -> <<I>>
    [] o \in {"i32.store8", "i32.lt_s", "i32.add", "memory.atomic.notify", "i32.atomic.store",
              "i32.atomic.rmw.add"} -> <<I, I>>
    [] o \in {"memory.init", "table.init", "i32.atomic.rmw.cmpxchg"} -> <<I, I, I>>
    [] o = "memory.atomic.wait32" -> <<I, I, "i64">>
    [] o = "i32.trunc_sat_f32_s" -> <<"f32">>
    [] o = "i8x16.extract_lane_s" -> <<"v128">>
    [] o \in {"i8x16.shuffle", "i32x4.add"} -> <<"v128", "v128">>
    [] o = "v128.bitselect" -> <<"v128", "v128", "v128">>
    [] o \in {"v128.load8_lane", "v128.store8_lane"} -> <<I, "v128">>
ResultsOf(o) ==
  CASE o \in {"i32.store8", "i32.atomic.store", "v128.store8_lane", "memory.init", "table.init"} -> <<>>
    [] o = "i64.load8_s" -> <<"i64">>
    [] o \in {"v128.load", "v128.load8_splat", "v128.load32_zero", "v128.bitselect", "i8x16.shuffle",
              "i32x4.add", "v128.load8_lane"} -> <<"v128">>
    [] OTHER -> <<I>>

CheckOpcode(v, o) == Typed(v, T!CheckOpcode(v.tc, OperandsOf(o), ResultsOf(o)))
\* GetMemoryParam: the first operand has the index type of the memory or table.
CheckOpcodeAt(v, o, is64) ==
  Typed(v, T!CheckOpcode(v.tc, [OperandsOf(o) EXCEPT ![1] = T!IndexType(is64)], ResultsOf(o)))

IsPowerOfTwo(x) == \E k \in 0 .. 29 : x = 2 ^ k
CheckAlign(align, natural) == IsPowerOfTwo(align) /\ align <= natural
CheckAtomicAlign(align, natural) == IsPowerOfTwo(align) /\ align = natural
CheckOffset(offset, is64) == is64 \/ offset <= MaxU32

\* OnLoad, OnStore, OnLoadSplat, OnLoadZero, OnSimdLoadLane, OnSimdStoreLane and
\* the methods of the atomic instructions: im is <<alignment, offset, memory>>
\* and, for a lane, its number.
OnMemoryAccess(v, e, atomic) ==
  LET memory == e.im[3]
      align == GetAlignment(e.op, e.im[1])
      c == Require(CheckInstr(v, e.op), CheckIndex(v.mod.memories, memory))
      natural == GetMemorySize(e.op)
      d == Require(c, /\ IF atomic THEN CheckAtomicAlign(align, natural) ELSE CheckAlign(align, natural)
                      /\ CheckOffset(e.im[2], MemoryIs64(v, memory)))
  IN  IF ~c.ok THEN c ELSE IF ~d.ok THEN d ELSE CheckOpcodeAt(d, e.op, MemoryIs64(v, memory))
\* GetSimdLaneCount of the lane instructions that stand for their groups.
LaneCount == 16
OnLane(v, e, lane) == Require(v, lane < LaneCount)
OnSimdShuffleOp(v, e) ==
  CheckOpcode(Require(CheckInstr(v, e.op), \A i \in DOMAIN e.im[1] : e.im[1][i] < 2 * LaneCount), e.op)
OnAtomicFence(v, e) == Require(CheckInstr(v, e.op), e.im[1] = 0)

\* memory.size, grow, fill, copy and init; data.drop.
OnMemoryInstr(v, e) ==
  LET c == CheckInstr(v, e.op)
      In(var) == CheckIndex(v.mod.memories, var)
      t == c.tc
  IN  CASE e.k = "MemoryCopy" ->
             IF ~In(e.im[1]) \/ ~In(e.im[2]) THEN Require(c, FALSE)
             ELSE Typed(c, T!OnCopy(t, MemoryIs64(v, e.im[1]), MemoryIs64(v, e.im[2])))
        [] e.k = "MemoryInit" ->
             IF ~In(e.im[2]) \/ ~CheckIndex(v.mod.datas, e.im[1]) THEN Require(c, FALSE)
             ELSE CheckOpcodeAt(c, e.op, MemoryIs64(v, e.im[2]))
        [] OTHER ->
             IF ~In(e.im[1]) THEN Require(c, FALSE)
             ELSE LET is64 == MemoryIs64(v, e.im[1])
                  IN  CASE e.k = "MemorySize" -> Typed(c, T!OnSize(t, is64))
                        [] e.k = "MemoryGrow" ->
                             Typed(c, T!CheckOpcode(t, <<T!IndexType(is64)>>, <<T!IndexType(is64)>>))
                        [] e.k = "MemoryFill" -> Typed(c, T!OnFill(t, I, is64))
OnDataDrop(v, e) == Require(CheckInstr(v, e.op), CheckIndex(v.mod.datas, e.im[1]))

\* table.get, set, grow, size, fill, copy and init; elem.drop.
OnTableInstr(v, e) ==
  LET c == CheckInstr(v, e.op)
      In(var) == CheckIndex(v.mod.tables, var)
      t == c.tc
      is64 == TableIs64(v, e.im[1])
      elem == ElemType(v, e.im[1])
  IN  IF ~In(e.im[1]) THEN Require(c, FALSE)
      ELSE CASE e.k = "TableGet" -> Typed(c, T!OnTableGet(t, elem, is64))
             [] e.k = "TableSet" -> Typed(c, T!OnTableSet(t, elem, is64))
             [] e.k = "TableGrow" -> Typed(c, T!OnTableGrow(t, elem, is64))
             [] e.k = "TableSize" -> Typed(c, T!OnSize(t, is64))
             [] e.k = "TableFill" -> Typed(c, T!OnFill(t, elem, is64))
             [] e.k = "TableCopy" ->
                  IF ~In(e.im[2]) THEN Require(c, FALSE)
                  ELSE Require(Typed(c, T!OnCopy(t, is64, TableIs64(v, e.im[2]))),
                               T!CheckType(ElemType(v, e.im[2]), elem))
             [] e.k = "TableInit" ->
                  IF ~CheckIndex(v.mod.elems, e.im[2]) THEN Require(c, FALSE)
                  ELSE Require(CheckOpcodeAt(c, e.op, is64),
                               T!CheckType(TypeName(At(v.mod.elems, e.im[2]).type), elem))
\* Mutated form: the segment is not looked up.
OnElemDrop_Unchecked(v, e) == CheckInstr(v, e.op)
OnElemDrop(v, e) == Require(CheckInstr(v, e.op), CheckIndex(v.mod.elems, e.im[1]))

OnLocal(v, e) ==
  LET c == Require(CheckInstr(v, e.op), CheckLocalIndex(v, e.im[1]))
      type == <<At(v.locals, e.im[1])>>
  IN  IF ~c.ok THEN c
      ELSE Typed(c, CASE e.k = "LocalGet" -> T!PushTypes(c.tc, type)
                      [] e.k = "LocalSet" -> T!PopAndCheckSignature(c.tc, type)
                      [] e.k = "LocalTee" -> T!PopAndCheckCall(c.tc, type, type))

\* In an initializer only imported, immutable globals may be read.
OnGlobalGet(v, e) ==
  LET c == Require(CheckInstr(v, e.op), CheckIndex(v.mod.globals, e.im[1]))
      global == At(v.mod.globals, e.im[1])
  IN  IF ~c.ok THEN c
      ELSE Require(Typed(c, T!PushTypes(c.tc, <<TypeName(global.type)>>)),
                   v.init => e.im[1][2] < NumImports(v.mod, "global") /\ global.mut = 0)
OnGlobalSet(v, e) ==
  LET c == Require(CheckInstr(v, e.op), CheckIndex(v.mod.globals, e.im[1]))
      global == At(v.mod.globals, e.im[1])
  IN  IF ~c.ok THEN c
      ELSE Require(Typed(c, T!PopAndCheckSignature(c.tc, <<TypeName(global.type)>>)), global.mut = 1)

CallTo(v, e, sig) ==
  LET params == TypeNames(sig.params)
      results == TypeNames(sig.results)
  IN  CASE e.k \in {"Call", "CallRef"} -> Typed(v, T!OnCall(v.tc, params, results))
        [] e.k = "ReturnCall" -> Typed(v, T!OnReturnCall(v.tc, params, results))
        [] e.k = "CallIndirect" ->
             Typed(v, T!OnCallIndirect(v.tc, params, results, T!IndexType(TableIs64(v, e.im[2]))))
        [] e.k = "ReturnCallIndirect" -> Typed(v, T!OnReturnCallIndirect(v.tc, params, results))
OnCall(v, e) ==
  LET c == Require(CheckInstr(v, e.op), CheckIndex(v.mod.funcs, e.im[1]))
  IN  IF ~c.ok THEN c ELSE CallTo(c, e, FuncSig(v, e.im[1]))
OnCallIndirect(v, e) ==
  LET sig == TypeVar(v, e.im[1])
      c == Require(CheckInstr(v, e.op), CheckFuncTypeIndex(v, sig) /\ CheckIndex(v.mod.tables, e.im[2]))
  IN  IF ~c.ok THEN c ELSE CallTo(c, e, SigOf(v, sig))
\* The type of a reference is the first of the module's types that equals its
\* function's; no module of a run has more than two function types.
RefName(i) == IF i = 0 THEN "ref0" ELSE "ref1"
RefIndex(name) == CASE name = "ref0" -> 0 [] name = "ref1" -> 1 [] OTHER -> kInvalidIndex
OnCallRef(v, e) ==
  LET c == CheckInstr(v, e.op)
      operand == T!PeekType(c.tc, 0).type
      popped == Typed(c, T!OnIndexedFuncRef(c.tc))
      sig == Idx(RefIndex(operand))
  IN  IF ~popped.ok THEN popped
      ELSE IF ~CheckFuncTypeIndex(v, sig) THEN Require(popped, FALSE)
      ELSE CallTo(popped, e, SigOf(v, sig))
OnRefFunc(v, e) ==
  LET c == Require(CheckInstr(v, e.op), CheckIndex(v.mod.funcs, e.im[1]))
      index == GetFuncTypeIndexBySig(v.mod, FuncSig(v, e.im[1]))
      type == IF Enabled(v, "function_references") /\ ~v.init THEN RefName(index) ELSE "funcref"
      noted == IF v.init THEN [c EXCEPT !.declared = @ \cup {e.im[1][2]}]
               ELSE [c EXCEPT !.toDeclare = @ \cup {e.im[1][2]}]
  IN  IF ~c.ok THEN c ELSE Typed(noted, T!PushTypes(c.tc, <<type>>))
OnRefNull(v, e) == LET c == CheckInstr(v, e.op) IN Typed(c, T!PushTypes(c.tc, <<TypeName(e.im[1])>>))
OnRefIsNull(v, e) == LET c == CheckInstr(v, e.op) IN Typed(c, T!OnRefIsNull(c.tc))
\* OnConst does not look whether it is in an initializer.
OnConst(v, e) ==
  Typed(v, T!PushTypes(v.tc, <<CASE e.op = "i32.const" -> "i32" [] e.op = "i64.const" -> "i64"
                                 [] e.op = "f32.const" -> "f32" [] e.op = "f64.const" -> "f64"
                                 [] e.op = "v128.const" -> "v128">>))
OnSelect(v, e) ==
  LET c == Require(CheckInstr(v, "select"), Len(e.im[1]) <= 1)
  IN  IF ~c.ok THEN c ELSE Typed(c, T!OnSelect(c.tc, TypeNames(e.im[1])))

OnThrow(v, e) ==
  LET c == Require(CheckInstr(v, e.op), CheckIndex(v.mod.tags, e.im[1]))
  IN  IF ~c.ok THEN c ELSE Typed(c, T!OnThrow(c.tc, TagParams(v, e.im[1])))
OnBranch(v, e) ==
  LET c == CheckInstr(v, e.op)
      depth == e.im[1][2]
  IN  Typed(c, CASE e.k = "Br" -> T!OnBr(c.tc, depth)     [] e.k = "BrIf" -> T!OnBrIf(c.tc, depth)
                 [] e.k = "Rethrow" -> T!OnRethrow(c.tc, depth))
OnBrTable(v, e) ==
  LET c == CheckInstr(v, e.op)
      targets == Append(e.im[1], e.im[2])
      t0 == T!BeginBrTable(c.tc)
      sig == T!br_types(T!GetLabel(t0, targets[1][2]))
      Target(t, i) ==
        IF ~t.ok THEN t ELSE T!OnBrTableTarget(t, targets[i][2], i = 1, IF i = 1 THEN <<>> ELSE sig)
      t1 == FoldLeft(Target, t0, [i \in DOMAIN targets |-> i])
  IN  IF ~t1.ok THEN Require(c, FALSE) ELSE Typed(c, T!EndBrTable(t1))

\* The methods of instructions that are no blocks: atomic and SIMD ones,
OnAtomicOrSimd(v, e) ==
  CASE e.k \in {"AtomicLoad", "AtomicStore", "AtomicRmw", "AtomicRmwCmpxchg", "AtomicWait",
                "AtomicNotify"} -> OnMemoryAccess(v, e, TRUE)
    [] e.k = "AtomicFence" -> OnAtomicFence(v, e)
    [] e.k = "Ternary" -> CheckOpcode(CheckInstr(v, e.op), e.op)
    [] e.k = "SimdLaneOp" -> CheckOpcode(OnLane(CheckInstr(v, e.op), e, e.im[1]), e.op)
    [] e.k \in {"SimdLoadLane", "SimdStoreLane"} -> OnLane(OnMemoryAccess(v, e, FALSE), e, e.im[4])
    [] e.k = "SimdShuffleOp" -> OnSimdShuffleOp(v, e)
    [] e.k \in {"LoadSplat", "LoadZero"} -> OnMemoryAccess(v, e, FALSE)
\* the ones of memories, tables, segments and references,
BulkKinds == {"MemorySize", "MemoryGrow", "MemoryFill", "MemoryCopy", "MemoryInit", "DataDrop",
              "TableGet", "TableSet", "TableGrow", "TableSize", "TableFill", "TableCopy", "TableInit",
              "ElemDrop", "RefFunc", "RefNull", "RefIsNull"}
OnBulkOrRef(v, e) ==
  CASE e.k \in {"MemorySize", "MemoryGrow", "MemoryFill", "MemoryCopy", "MemoryInit"} -> OnMemoryInstr(v, e)
    [] e.k = "DataDrop" -> OnDataDrop(v, e)
    [] e.k = "ElemDrop" -> OnElemDrop(v, e)
    [] e.k = "RefFunc" -> OnRefFunc(v, e)
    [] e.k = "RefNull" -> OnRefNull(v, e)
    [] e.k = "RefIsNull" -> OnRefIsNull(v, e)
    [] OTHER -> OnTableInstr(v, e)
\* the ones that transfer control,
ControlKinds == {"Call", "ReturnCall", "CallIndirect", "ReturnCallIndirect", "CallRef", "Throw",
                 "Br", "BrIf", "BrTable", "Rethrow", "Return", "Unreachable"}
OnControl(v, e) ==
  CASE e.k \in {"Call", "ReturnCall"} -> OnCall(v, e)
    [] e.k \in {"CallIndirect", "ReturnCallIndirect"} -> OnCallIndirect(v, e)
    [] e.k = "CallRef" -> OnCallRef(v, e)
    [] e.k = "Throw" -> OnThrow(v, e)
    [] e.k \in {"Br", "BrIf", "Rethrow"} -> OnBranch(v, e)
    [] e.k = "BrTable" -> OnBrTable(v, e)
    [] e.k = "Return" -> LET c == CheckInstr(v, e.op) IN Typed(c, T!OnReturn(c.tc))
    [] e.k = "Unreachable" -> LET c == CheckInstr(v, e.op) IN Typed(c, T!OnUnreachable(c.tc))
\* and the others.
OnInstr(v, e) ==
  CASE e.k = "CodeMetadata" -> v
    [] e.k = "Nop" -> CheckInstr(v, e.op)
    [] e.k = "Const" -> OnConst(v, e)
    [] e.k \in {"Unary", "Binary", "Compare", "Convert"} -> CheckOpcode(CheckInstr(v, e.op), e.op)
    [] e.k \in {"Load", "Store"} -> OnMemoryAccess(v, e, FALSE)
    [] e.k \in {"LocalGet", "LocalSet", "LocalTee"} -> OnLocal(v, e)
    [] e.k = "GlobalGet" -> OnGlobalGet(v, e)   [] e.k = "GlobalSet" -> OnGlobalSet(v, e)
    [] e.k = "Select" -> OnSelect(v, e)
    [] e.k = "Drop" -> LET c == CheckInstr(v, e.op) IN Typed(c, T!OnDrop(c.tc))
    [] e.k \in ControlKinds -> OnControl(v, e)
    [] e.k \in BulkKinds -> OnBulkOrRef(v, e)
    [] OTHER -> OnAtomicOrSimd(v, e)

-----------------------------------------------------------------------------
(* Blocks                                                                   *)

\* GetDeclarationType and CheckBlockSignature: an inline type stands for at most
\* one result; anything else needs a function type of the module.
InlineType(decl) == ~decl.hasType /\ decl.sig.params = <<>> /\ Len(decl.sig.results) <= 1
CheckBlockSignature(v, decl) ==
  \/ InlineType(decl)
  \/ /\ CheckFuncTypeIndex(v, TypeVar(v, decl))
     /\ SigOf(v, TypeVar(v, decl)).params = <<>> \/ Enabled(v, "multi_value")
BlockSig(v, decl) == IF InlineType(decl) THEN decl.sig ELSE SigOf(v, TypeVar(v, decl))

BeginBlock(v, e) ==
  LET c == CheckInstr(v, e.op)
      sig == BlockSig(v, e.decl)
      params == TypeNames(sig.params)
      results == TypeNames(sig.results)
  IN  IF ~CheckBlockSignature(v, e.decl) THEN Require(c, FALSE)
      ELSE Typed(c, CASE e.k = "Block" -> T!OnBlock(c.tc, params, results)
                      [] e.k = "Loop" -> T!OnLoop(c.tc, params, results)
                      [] e.k = "If" -> T!OnIf(c.tc, params, results)
                      [] e.k = "Try" -> T!OnTry(c.tc, params, results))
OnElse(v) == Typed(v, T!OnElse(v.tc))
OnEnd(v) == Typed(Require(v, ~v.init), T!OnEnd(v.tc))
OnCatch(v, tag) ==
  LET c == CheckInstr(v, "catch")
  IN  IF tag = <<>> THEN Typed(c, T!OnCatch(c.tc, <<>>))
      ELSE IF ~CheckIndex(v.mod.tags, tag[1]) THEN Require(c, FALSE)
      ELSE Typed(c, T!OnCatch(c.tc, TagParams(v, tag[1])))
OnDelegate(v, depth) == LET c == CheckInstr(v, "delegate") IN Typed(c, T!OnDelegate(c.tc, depth[2]))

\* ExprVisitor::VisitExprList with the callbacks of Validator.
RECURSIVE VisitExprList(_, _), VisitBlock(_, _)
VisitExprList(v, es) ==
  LET Visit(w, e) == IF ~w.ok THEN w
                     ELSE IF e.k \in {"Block", "Loop", "If", "Try"} THEN VisitBlock(w, e) ELSE OnInstr(w, e)
  IN  FoldLeft(Visit, v, es)
VisitBlock(v, e) ==
  LET opened == BeginBlock(v, e)
      body == VisitExprList(opened, e.body)
      Clause(w, c) == IF ~w.ok THEN w ELSE VisitExprList(OnCatch(w, c.tag), c.body)
  IN  IF ~opened.ok \/ ~body.ok THEN Require(body, FALSE)
      ELSE CASE e.k \in {"Block", "Loop"} -> OnEnd(body)
             [] e.k = "If" ->
                  LET alt == IF e.alt = <<>> THEN body ELSE VisitExprList(OnElse(body), e.alt)
                  IN  IF alt.ok THEN OnEnd(alt) ELSE alt
             [] e.k = "Try" ->
                  IF e.kind = "Delegate" THEN OnDelegate(body, e.delegate)
                  ELSE LET caught == FoldLeft(Clause, body, e.catches)
                       IN  IF caught.ok THEN OnEnd(caught) ELSE caught

-----------------------------------------------------------------------------
(* Sections                                                                 *)

\* Every entry of a section, in order, until one is bad.
ForEach(v, entries, Op(_, _)) == FoldLeft(LAMBDA w, x : IF w.ok THEN Op(w, x) ELSE w, v, entries)

OnFuncType(v, t) ==
  Require(v, t.kind = "func" /\ ~Enabled(v, "multi_value") => Len(t.sig.results) <= 1)

CheckLimits(limits, max) ==
  /\ limits.initial <= max
  /\ limits.hasMax => limits.max <= max /\ limits.initial <= limits.max
OnFunction(v, f) == Require(v, CheckFuncTypeIndex(v, TypeVar(v, f.decl)))
OnTable(v, t) ==
  Require(v, /\ CheckLimits(t.limits, MaxU32)
             /\ ~t.limits.shared
             /\ Enabled(v, "reference_types") \/ (t.type = FuncRef /\ Len(v.mod.tables) = 1)
             /\ T!IsRef(TypeName(t.type)))
OnMemory(v, m) ==
  Require(v, /\ Len(v.mod.memories) = 1 \/ Enabled(v, "multi_memory")
             /\ CheckLimits(m.limits, IF m.limits.is64 THEN MaxPages64 ELSE MaxPages32)
             /\ m.limits.shared => Enabled(v, "threads") /\ m.limits.hasMax)
OnTag(v, t) ==
  LET var == TypeVar(v, t.decl)
  IN  Require(v, IF CheckFuncTypeIndex(v, var) THEN SigOf(v, var).results = <<>> ELSE FALSE)

\* BeginInitExpr, the expressions, EndInitExpr.
CheckInitExpr(v, type, es) ==
  LET begun == [v EXCEPT !.tc = T!BeginInitExpr(type), !.init = TRUE]
      seen == VisitExprList(begun, es)
  IN  IF ~seen.ok THEN seen ELSE [Typed(seen, T!EndInitExpr(seen.tc)) EXCEPT !.init = FALSE]

CheckImports(v) ==
  LET Of(kind, all) == SubSeq(all, 1, NumImports(v.mod, kind))
      OnGlobalImport(w, g) == Require(w, g.mut = 1 => Enabled(w, "mutable_globals"))
  IN  ForEach(v, Of("global", v.mod.globals), OnGlobalImport)
OnGlobal(v, g) == CheckInitExpr(v, TypeName(g.type), g.init)

SpaceOf(kind) ==
  CASE kind = "func" -> "funcs" [] kind = "table" -> "tables" [] kind = "memory" -> "memories"
    [] kind = "global" -> "globals" [] kind = "tag" -> "tags"
\* export_names_ holds the names of the exports before this one.
OnExport(v, i) ==
  LET x == v.mod.exports[i]
      c == Require(v, /\ \A j \in 1 .. i - 1 : v.mod.exports[j].name # x.name
                      /\ CheckIndex(v.mod[SpaceOf(x.kind)], x.var))
  IN  IF x.kind = "func" THEN [c EXCEPT !.declared = @ \cup {x.var[2]}] ELSE c
OnStart(v, var) ==
  Require(v, /\ Len(v.mod.starts) <= 1
             /\ IF CheckIndex(v.mod.funcs, var) THEN FuncSig(v, var) = NoSig ELSE FALSE)

OffsetType(limits) == T!IndexType(limits.is64)
\* Reading the location of an empty element expression is undefined; it is
\* counted as a rejection.
OnElemSegment(v, s) ==
  LET active == s.kind = "active"
      c == Require(v, active => CheckIndex(v.mod.tables, s.table))
      d == Require(c, active => T!CheckType(ElemType(v, s.table), TypeName(s.type)))
      e == IF active THEN CheckInitExpr(d, OffsetType(At(v.mod.tables, s.table).limits), s.offset) ELSE d
      OnElemExpr(w, es) == IF es = <<>> THEN Require(w, FALSE) ELSE CheckInitExpr(w, TypeName(s.type), es)
  IN  IF ~c.ok THEN c ELSE IF ~d.ok THEN d ELSE IF ~e.ok THEN e ELSE ForEach(e, s.exprs, OnElemExpr)
OnDataSegment(v, s) ==
  IF s.kind # "active" THEN v
  ELSE IF ~CheckIndex(v.mod.memories, s.memory) THEN Require(v, FALSE)
  ELSE CheckInitExpr(v, OffsetType(At(v.mod.memories, s.memory).limits), s.offset)

\* BeginFunctionBody, OnLocalDecl, the body, EndFunctionBody.
CheckBody(v, f) ==
  LET sig == SigOf(v, TypeVar(v, f.decl))
      begun == [v EXCEPT !.tc = T!BeginFunction(TypeNames(sig.results)),
                         !.locals = TypeNames(sig.params \o f.locals)]
      seen == VisitExprList(begun, f.body)
  IN  IF ~seen.ok THEN seen ELSE Typed(seen, T!EndFunction(seen.tc))

EndModule(v) == Require(v, v.toDeclare \subseteq v.declared)

\* CheckModule.  Entries that are only looked at by themselves are checked
\* together with the imported ones.
CheckModule(mod, features) ==
  LET v0 == NewValidator(mod, features)
      types == ForEach(v0, mod.types, OnFuncType)
      funcs == ForEach(CheckImports(types), mod.funcs, OnFunction)
      tables == ForEach(funcs, mod.tables, OnTable)
      memories == ForEach(tables, mod.memories, OnMemory)
      tags == ForEach(memories, mod.tags, OnTag)
      globals == ForEach(tags, Defined(mod, "global", mod.globals), OnGlobal)
      exports == ForEach(globals, [i \in DOMAIN mod.exports |-> i], OnExport)
      starts == ForEach(exports, mod.starts, OnStart)
      elems == ForEach(starts, mod.elems, OnElemSegment)
      code == ForEach(elems, Defined(mod, "func", mod.funcs), CheckBody)
      datas == ForEach(code, mod.datas, OnDataSegment)
  IN  IF datas.ok THEN EndModule(datas) ELSE datas
ValidateModule(mod, features) == CheckModule(mod, features).ok
=============================================================================
