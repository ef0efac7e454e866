------------------------------ MODULE WatWriter ------------------------------
(***************************************************************************)
(* src/wat-writer.cc: a module as text.  The text is the sequence of its   *)
(* tokens: << "(" >>, << ")" >>, <<"(@custom">> and <<"(@metadata", name>>    *)
(* for annotations,                                                        *)
(* <<"kw", keyword>>, <<"op", opcode>>, <<"vt", value type>>,              *)
(* <<"id", name>>, <<"nat", n>>, <<"int", n>>, <<"lit", bytes>>,           *)
(* <<"str", characters>>, <<"off", n>>, <<"align", n>>.  Layout and        *)
(* comments, which the lexer skips, are left out.                          *)
(***************************************************************************)
EXTENDS WasmIR

WatOptions(fold, inlineExport, inlineImport, features) ==
  [fold |-> fold, inlineExport |-> inlineExport, inlineImport |-> inlineImport, features |-> features]

LP == <<"(">>
RP == <<")">>
Kw(w) == <<"kw", w>>
Nat0(n) == <<"nat", n>>
Open(w) == <<LP, Kw(w)>>
Sexp(w, toks) == Open(w) \o toks \o <<RP>>

RECURSIVE Flat(_)
Flat(ss) ==
  LET h == Len(ss) \div 2
  IN  CASE ss = <<>> -> <<>> [] Len(ss) = 1 -> ss[1] [] OTHER -> Flat(SubSeq(ss, 1, h)) \o Flat(SubSeq(ss, h + 1, Len(ss)))
Each(s, Op(_)) == Flat([i \in DOMAIN s |-> Op(s[i])])

\* s_valid_name_chars
ValidNameChar(c) == c \in 33 .. 126 /\ c \notin {34, 40, 41, 44, 59, 91, 93, 123, 125}
WriteName(s) == <<<<"id", [i \in DOMAIN s |-> IF ValidNameChar(s[i]) THEN s[i] ELSE 95]>>>>
WriteString(s) == <<<<"id", s>>>>
WriteNameOrIndex(s) == IF s = <<>> THEN <<>> ELSE WriteName(s)

Hex(n) == IF n < 10 THEN 48 + n ELSE 87 + n
\* s_is_char_escaped
Escaped(c) == c < 32 \/ c > 126 \/ c \in {34, 92}
WriteQuotedData(bytes) ==
  <<<<"str", Flat([i \in DOMAIN bytes |->
       IF Escaped(bytes[i]) THEN <<92, Hex(bytes[i] \div 16), Hex(bytes[i] % 16)>> ELSE <<bytes[i]>>])>>>>

WriteVar(v) == IF IsIndex(v) THEN <<Nat0(v[2])>> ELSE WriteName(v[2])
VarIsZero(v) == IsIndex(v) /\ v[2] = 0
WriteVarUnlessZero(v) == IF VarIsZero(v) THEN <<>> ELSE WriteVar(v)
WriteMemoryVarUnlessZero(m, v) == IF GetMemoryIndex(m, v) # 0 THEN WriteVar(v) ELSE <<>>
WriteTwoMemoryVars_First(m, v, w) == IF GetMemoryIndex(m, v) # 0 THEN WriteVar(v) \o WriteVar(w) ELSE <<>>
WriteTwoMemoryVarsUnlessBothZero(m, v, w) ==
  IF GetMemoryIndex(m, v) # 0 \/ GetMemoryIndex(m, w) # 0 THEN WriteVar(v) \o WriteVar(w) ELSE <<>>
WriteBrVar(v) == IF IsIndex(v) THEN <<Nat0(v[2])>> ELSE WriteString(v[2])

WriteType(t) == <<<<"vt", t>>>>
WriteRefKind(t) == <<Kw(IF t = FuncRef THEN "func" ELSE IF t = ExternRef THEN "extern" ELSE "exn")>>
WriteTypes(ts, word) == IF ts = <<>> THEN <<>> ELSE Sexp(word, Each(ts, WriteType))
WriteFuncSigSpace(sig) == WriteTypes(sig.params, "param") \o WriteTypes(sig.results, "result")
WriteTypeUse(v) == Sexp("type", WriteVar(v))

-----------------------------------------------------------------------------
(* Instructions                                                             *)

WriteBeginBlock(e) ==
  <<Kw(e.op)>> \o (IF e.label = <<>> THEN <<>> ELSE WriteString(e.label)) \o WriteFuncSigSpace(e.decl.sig)
WriteEndBlock == <<Kw("end")>>

Op0(e) == <<<<"op", IF e.op = "selectt" THEN "select" ELSE e.op>>>>

WriteConst(e) ==
  Op0(e) \o CASE e.op \in {"i32.const", "i64.const"} -> <<<<"int", e.im[1]>>>>
              [] e.op \in {"f32.const", "f64.const"} -> <<<<"lit", e.im[1]>>>>
              [] e.op = "v128.const" ->
                   <<Kw("i32x4")>> \o [i \in 1 .. 4 |-> <<"lit", SubSeq(e.im[1], 4 * i - 3, 4 * i)>>]

OffsetAndAlign(e) ==
  (IF e.im[2] # 0 THEN <<<<"off", e.im[2]>>>> ELSE <<>>)
  \o (IF e.im[1] # GetMemorySize(e.op) THEN <<<<"align", e.im[1]>>>> ELSE <<>>)
WriteLoadStoreExpr(e) == Op0(e) \o OffsetAndAlign(e)
WriteMemoryLoadStoreExpr(m, e) == Op0(e) \o WriteMemoryVarUnlessZero(m, e.im[3]) \o OffsetAndAlign(e)

TypeVarOf(m, decl) == IF decl.hasType THEN decl.var ELSE Idx(GetFuncTypeIndex(m, decl))
WriteCodeMetadata(e) == <<<<"(@metadata", e.im[1]>>>> \o WriteQuotedData(e.im[2]) \o <<RP>>

\* The callbacks of ExprVisitorDelegate for the instructions without a body: the
\* atomic and SIMD ones,
WriteAtomicOrSimd(m, e) ==
  CASE e.k \in {"AtomicWait", "AtomicNotify", "AtomicLoad", "AtomicStore", "AtomicRmw", "AtomicRmwCmpxchg",
                "LoadSplat", "LoadZero"} -> WriteLoadStoreExpr(e)
    [] e.k = "SimdLaneOp" -> Op0(e) \o <<Nat0(e.im[1])>>
    [] e.k \in {"SimdLoadLane", "SimdStoreLane"} -> WriteMemoryLoadStoreExpr(m, e) \o <<Nat0(e.im[4])>>
    [] e.k = "SimdShuffleOp" -> Op0(e) \o [i \in 1 .. 16 |-> Nat0(e.im[1][i])]
\* and the others.
WritePlainInstr(m, e) ==
  CASE e.k = "CodeMetadata" -> WriteCodeMetadata(e)
    [] e.k \in {"Binary", "Compare", "Convert", "Unary", "Ternary", "Drop", "Nop", "Return", "Unreachable",
                "RefIsNull", "CallRef", "AtomicFence"} -> Op0(e)
    [] e.k \in {"LocalGet", "LocalSet", "LocalTee", "GlobalGet", "GlobalSet", "Call", "ReturnCall", "RefFunc",
                "TableGet", "TableSet", "TableGrow", "TableSize", "TableFill", "DataDrop", "ElemDrop", "Throw"} ->
         Op0(e) \o WriteVar(e.im[1])
    [] e.k \in {"Br", "BrIf", "Rethrow"} -> Op0(e) \o WriteBrVar(e.im[1])
    [] e.k = "BrTable" -> Op0(e) \o Each(e.im[1], WriteBrVar) \o WriteBrVar(e.im[2])
    [] e.k = "CallIndirect" -> Op0(e) \o WriteVarUnlessZero(e.im[2]) \o WriteTypeUse(TypeVarOf(m, e.im[1]))
    [] e.k = "ReturnCallIndirect" -> Op0(e) \o WriteTypeUse(TypeVarOf(m, e.im[1]))
    [] e.k = "Const" -> WriteConst(e)
    [] e.k \in {"MemoryFill", "MemoryGrow", "MemorySize"} -> Op0(e) \o WriteMemoryVarUnlessZero(m, e.im[1])
    [] e.k = "MemoryCopy" -> Op0(e) \o WriteTwoMemoryVarsUnlessBothZero(m, e.im[1], e.im[2])
    [] e.k = "MemoryInit" -> Op0(e) \o WriteVar(e.im[1]) \o WriteMemoryVarUnlessZero(m, e.im[2])
    [] e.k = "TableCopy" ->
         Op0(e) \o (IF VarIsZero(e.im[1]) /\ VarIsZero(e.im[2]) THEN <<>>
                    ELSE WriteVar(e.im[1]) \o WriteVar(e.im[2]))
    [] e.k = "TableInit" -> Op0(e) \o WriteVarUnlessZero(e.im[1]) \o WriteVar(e.im[2])
    [] e.k = "RefNull" -> Op0(e) \o WriteRefKind(e.im[1])
    [] e.k = "Select" -> Op0(e) \o WriteTypes(e.im[1], "result")
    [] e.k \in {"Load", "Store"} -> WriteMemoryLoadStoreExpr(m, e)
    [] OTHER -> WriteAtomicOrSimd(m, e)

CatchHead(c) == IF c.tag = <<>> THEN <<Kw("catch_all")>> ELSE <<Kw("catch")>> \o WriteVar(c.tag[1])

\* ExprVisitor over the delegate: one instruction after the other.
RECURSIVE WriteExprList(_, _)
WriteExprList(m, es) ==
  LET One(e) ==
        CASE e.k \in {"Block", "Loop"} -> WriteBeginBlock(e) \o WriteExprList(m, e.body) \o WriteEndBlock
          [] e.k = "If" ->
               WriteBeginBlock(e) \o WriteExprList(m, e.body)
               \o (IF e.alt = <<>> THEN <<>> ELSE <<Kw("else")>> \o WriteExprList(m, e.alt)) \o WriteEndBlock
          [] e.k = "Try" ->
               WriteBeginBlock(e) \o WriteExprList(m, e.body)
               \o (CASE e.kind = "Plain" -> WriteEndBlock
                     [] e.kind = "Catch" ->
                          Flat([i \in DOMAIN e.catches |->
                                  CatchHead(e.catches[i]) \o WriteExprList(m, e.catches[i].body)]) \o WriteEndBlock
                     [] e.kind = "Delegate" -> <<Kw("delegate")>> \o WriteVar(e.delegate))
          [] OTHER -> WritePlainInstr(m, e)
  IN  Each(es, One)

-----------------------------------------------------------------------------
(* Folded instructions.  labels is the label stack, the innermost last.     *)

GetLabel(labels, v) ==
  LET hits == IF IsIndex(v) THEN {i \in DOMAIN labels : i = Len(labels) - v[2]}
              ELSE {i \in DOMAIN labels : labels[i].name = v[2]}
  IN  IF hits = {} THEN 0 ELSE CHOOSE i \in hits : \A j \in hits : j <= i
GetLabelArity(labels, v) == LET i == GetLabel(labels, v) IN IF i = 0 THEN 0 ELSE labels[i].arity
Label(e) == [name |-> e.label, arity |-> IF e.k = "Loop" THEN Len(e.decl.sig.params) ELSE Len(e.decl.sig.results)]
FuncLabel(f) == [name |-> <<>>, arity |-> Len(f.decl.sig.results)]
BeginBlock(labels, e) == labels \o <<Label(e)>>
SigOfFunc(m, v) ==
  LET i == GetFuncIndex(m, v) + 1 IN IF i \in DOMAIN m.funcs THEN m.funcs[i].decl.sig ELSE NoSig
ParamsOfTag(m, v) == LET i == GetTagIndex(m, v) + 1 IN IF i \in DOMAIN m.tags THEN Len(m.tags[i].decl.sig.params) ELSE 0

\* ModuleContext::GetExprArity: <<operands, results>>.
GetExprArity(m, labels, e) ==
  LET Of(sig, n) == <<Len(sig.params) + n, Len(sig.results)>>
  IN  CASE e.k \in {"AtomicNotify", "AtomicRmw", "Binary", "Compare", "TableGrow", "SimdLoadLane", "SimdStoreLane",
                    "SimdShuffleOp"} -> <<2, 1>>
        [] e.k \in {"AtomicStore", "Store", "TableSet"} -> <<2, 0>>
        [] e.k \in {"Block", "Loop", "Try"} -> <<0, Len(e.decl.sig.results)>>
        [] e.k = "If" -> <<1, Len(e.decl.sig.results)>>
        [] e.k = "Br" -> <<GetLabelArity(labels, e.im[1]), 1>>
        [] e.k = "BrIf" -> <<GetLabelArity(labels, e.im[1]) + 1, GetLabelArity(labels, e.im[1])>>
        [] e.k = "BrTable" -> <<GetLabelArity(labels, e.im[2]) + 1, 1>>
        [] e.k \in {"Call", "ReturnCall"} -> Of(SigOfFunc(m, e.im[1]), 0)
        [] e.k \in {"CallIndirect", "ReturnCallIndirect"} -> Of(e.im[1].sig, 1)
        [] e.k = "CallRef" -> Of(SigOfFunc(m, Idx(kInvalidIndex)), 1)
        [] e.k \in {"Const", "GlobalGet", "LocalGet", "MemorySize", "TableSize", "RefNull", "RefFunc",
                    "Unreachable"} -> <<0, 1>>
        [] e.k \in {"DataDrop", "ElemDrop", "AtomicFence", "CodeMetadata", "Nop", "Rethrow"} -> <<0, 0>>
        [] e.k \in {"MemoryInit", "TableInit", "MemoryFill", "MemoryCopy", "TableCopy", "TableFill"} -> <<3, 0>>
        [] e.k \in {"AtomicLoad", "Convert", "Load", "LocalTee", "MemoryGrow", "Unary", "TableGet", "RefIsNull",
                    "LoadSplat", "LoadZero"} -> <<1, 1>>
        [] e.k \in {"Drop", "GlobalSet", "LocalSet"} -> <<1, 0>>
        [] e.k = "Return" -> <<labels[1].arity, 1>>
        [] e.k \in {"AtomicRmwCmpxchg", "AtomicWait", "Select", "Ternary"} -> <<3, 1>>
        [] e.k = "Throw" -> <<ParamsOfTag(m, e.im[1]), 0>>
        [] e.k = "SimdLaneOp" -> <<IF e.op = "i8x16.extract_lane_s" THEN 1 ELSE 2, 1>>

ResultSum(trees) == FoldSeq(LAMBDA t, n : n + t.results, 0, trees)
\* PushExpr, before what it flushes: an instruction takes the last trees as
\* its children when their results are exactly its operands.
PushTree(stack, e, arity) ==
  LET n == Len(stack)
      From(k) == SubSeq(stack, k, n)
      exact == {k \in 1 .. n : ResultSum(From(k)) = arity[1]}
      took  == IF arity[1] = 0 \/ exact = {} THEN 0 ELSE CHOOSE k \in exact : \A j \in exact : j <= k
      over  == arity[1] > 0 /\ took = 0 /\ ResultSum(stack) > arity[1]
  IN  [stack |-> IF took = 0 THEN Append(stack, [e |-> e, results |-> arity[2], children |-> <<>>])
                 ELSE Append(SubSeq(stack, 1, took - 1), [e |-> e, results |-> arity[2], children |-> From(took)]),
       flush |-> over \/ arity[2] = 0]

\* WriteFoldedExprList followed by FlushExprTreeStack, and FlushExprTree.
RECURSIVE WriteFolded(_, _, _, _), FlushExprTree(_, _, _)
FlushExprTreeVector(m, labels, trees) == Flat([i \in DOMAIN trees |-> FlushExprTree(m, labels, trees[i])])
WriteFolded(m, labels, es, stack) ==
  IF es = <<>> THEN FlushExprTreeVector(m, labels, stack)
  ELSE LET p == PushTree(stack, Head(es), GetExprArity(m, labels, Head(es)))
       IN  IF p.flush THEN FlushExprTreeVector(m, labels, p.stack) \o WriteFolded(m, labels, Tail(es), <<>>)
           ELSE WriteFolded(m, labels, Tail(es), p.stack)
FlushExprTree(m, labels, t) ==
  LET e == t.e
      in == IF e.k \in {"Block", "Loop", "If", "Try"} THEN BeginBlock(labels, e) ELSE labels
      List(word, es) == Sexp(word, WriteFolded(m, in, es, <<>>))
  IN  <<LP>>
      \o (CASE e.k \in {"Block", "Loop"} -> WriteBeginBlock(e) \o WriteFolded(m, in, e.body, <<>>)
            [] e.k = "If" ->
                 WriteBeginBlock(e) \o FlushExprTreeVector(m, in, t.children) \o List("then", e.body)
                 \o (IF e.alt = <<>> THEN <<>> ELSE List("else", e.alt))
            [] e.k = "Try" ->
                 WriteBeginBlock(e)
                 \o Sexp("do", FlushExprTreeVector(m, in, t.children) \o WriteFolded(m, in, e.body, <<>>))
                 \o Flat([i \in DOMAIN e.catches |->
                            <<LP>> \o CatchHead(e.catches[i]) \o WriteFolded(m, in, e.catches[i].body, <<>>) \o <<RP>>])
                 \o (IF e.kind = "Delegate" THEN Sexp("delegate", WriteVar(e.delegate)) ELSE <<>>)
            [] OTHER -> WritePlainInstr(m, e) \o FlushExprTreeVector(m, labels, t.children))
      \o <<RP>>

WriteInitExpr(m, es) == IF es = <<>> THEN <<>> ELSE <<LP>> \o WriteExprList(m, es) \o <<RP>>

-----------------------------------------------------------------------------
(* Module fields                                                            *)

\* The exports written in the definition of entry i (from 0) of a kind.
IndexOfExport(m, x) ==
  CASE x.kind = "func" -> GetFuncIndex(m, x.var) [] x.kind = "table" -> GetTableIndex(m, x.var)
    [] x.kind = "memory" -> GetMemoryIndex(m, x.var) [] x.kind = "global" -> GetGlobalIndex(m, x.var)
    [] x.kind = "tag" -> GetTagIndex(m, x.var)
IsImport(m, kind, i) == i < NumImports(m, kind)
BuildInlineExportMap(m, o) ==
  IF ~o.inlineExport THEN <<>>
  ELSE SelectSeq(m.exports, LAMBDA x : o.inlineImport \/ ~IsImport(m, x.kind, IndexOfExport(m, x)))
WriteInlineExports(m, o, kind, i) ==
  Each(SelectSeq(BuildInlineExportMap(m, o), LAMBDA x : x.kind = kind /\ IndexOfExport(m, x) = i),
       LAMBDA x : Sexp("export", WriteQuotedData(x.name)))
IsInlineExport(m, o, x) ==
  \E y \in ToSet(BuildInlineExportMap(m, o)) : y.kind = x.kind /\ IndexOfExport(m, y) = IndexOfExport(m, x)
WriteInlineImport(m, o, kind, i) ==
  IF ~o.inlineImport \/ ~IsImport(m, kind, i) THEN <<>>
  ELSE LET x == SelectSeq(m.imports, LAMBDA y : y.kind = kind)[i + 1]
       IN  Sexp("import", WriteQuotedData(x.module) \o WriteQuotedData(x.field))
Begin(m, o, kind, i, name) ==
  Open(kind) \o WriteNameOrIndex(name) \o WriteInlineExports(m, o, kind, i) \o WriteInlineImport(m, o, kind, i)

\* A named parameter or local stands by itself, the others together.
RECURSIVE WriteTypeBindings(_, _, _)
WriteTypeBindings(word, types, names) ==
  IF types = <<>> THEN <<>>
  ELSE IF names[1] # <<>>
  THEN Sexp(word, WriteString(names[1]) \o WriteType(types[1])) \o WriteTypeBindings(word, Tail(types), Tail(names))
  ELSE LET n == CHOOSE k \in 1 .. Len(types) :
                  /\ \A i \in 1 .. k : names[i] = <<>>
                  /\ k = Len(types) \/ names[k + 1] # <<>>
       IN  WriteTypes(SubSeq(types, 1, n), word)
           \o WriteTypeBindings(word, SubSeq(types, n + 1, Len(types)), SubSeq(names, n + 1, Len(types)))

WriteBeginFunc(m, o, i) ==
  LET f == m.funcs[i + 1]
  IN  Begin(m, o, "func", i, f.name)
      \o (IF f.decl.hasType THEN WriteTypeUse(f.decl.var) ELSE <<>>)
      \o (IF IsImport(m, "func", i) /\ (o.inlineImport \/ ~f.decl.hasType) THEN WriteFuncSigSpace(f.decl.sig) ELSE <<>>)
WriteFunc(m, o, i) ==
  LET f == m.funcs[i + 1]
      names == LocalNames(f)
      np == Len(f.decl.sig.params)
  IN  WriteBeginFunc(m, o, i)
      \o WriteTypeBindings("param", f.decl.sig.params, SubSeq(names, 1, np))
      \o WriteTypes(f.decl.sig.results, "result")
      \o WriteTypeBindings("local", f.locals, SubSeq(names, np + 1, Len(names)))
      \o (IF o.fold THEN WriteFolded(m, <<FuncLabel(f)>>, f.body, <<>>) ELSE WriteExprList(m, f.body))
      \o <<RP>>
WriteBeginGlobal(m, o, i) ==
  LET g == m.globals[i + 1]
  IN  Begin(m, o, "global", i, g.name) \o (IF g.mut = 1 THEN Sexp("mut", WriteType(g.type)) ELSE WriteType(g.type))
WriteGlobal(m, o, i) == WriteBeginGlobal(m, o, i) \o WriteInitExpr(m, m.globals[i + 1].init) \o <<RP>>
WriteTag(m, o, i) ==
  LET t == m.tags[i + 1]
  IN  Begin(m, o, "tag", i, t.name) \o (IF t.decl.hasType THEN WriteTypeUse(t.decl.var) ELSE <<>>)
      \o WriteTypes(t.decl.sig.params, "param") \o <<RP>>
WriteLimits(l) ==
  (IF l.is64 THEN <<<<"vt", I64>>>> ELSE <<>>) \o <<Nat0(l.initial)>>
  \o (IF l.hasMax THEN <<Nat0(l.max)>> ELSE <<>>) \o (IF l.shared THEN <<Kw("shared")>> ELSE <<>>)
WriteTable(m, o, i) ==
  LET t == m.tables[i + 1] IN Begin(m, o, "table", i, t.name) \o WriteLimits(t.limits) \o WriteType(t.type) \o <<RP>>
WriteMemory(m, o, i) ==
  LET t == m.memories[i + 1] IN Begin(m, o, "memory", i, t.name) \o WriteLimits(t.limits) \o <<RP>>
WriteElemSegment(m, o, s) ==
  LET flags == ElemGetFlags(m, s)
      exprs == Has(flags, SegUseElemExprs)
  IN  Open("elem") \o (IF "bulk_memory" \in o.features THEN WriteNameOrIndex(s.name) ELSE <<>>)
      \o (IF Has(flags, SegExplicitIndex) /\ ~Has(flags, SegPassive) THEN Sexp("table", WriteVar(s.table)) ELSE <<>>)
      \o (IF Has(flags, SegPassive) THEN <<>> ELSE WriteInitExpr(m, s.offset))
      \o (IF Has(flags, SegPassive) /\ Has(flags, SegExplicitIndex) THEN <<Kw("declare")>> ELSE <<>>)
      \o (IF exprs THEN WriteType(s.type) ELSE <<Kw("func")>>)
      \o Each(s.exprs, LAMBDA es : IF exprs THEN WriteInitExpr(m, es) ELSE WriteVar(es[1].im[1]))
      \o <<RP>>
WriteDataSegment(m, s) ==
  Open("data") \o WriteNameOrIndex(s.name)
  \o (IF s.kind = "passive" THEN <<>> ELSE WriteMemoryVarUnlessZero(m, s.memory) \o WriteInitExpr(m, s.offset))
  \o WriteQuotedData(s.data) \o <<RP>>
WriteImport(m, o, n) ==
  LET x == m.imports[n]
      i == EntryOfImport(m, n) - 1
      body == CASE x.kind = "func" -> WriteBeginFunc(m, o, i) \o <<RP>>
                [] x.kind = "table" -> WriteTable(m, o, i)
                [] x.kind = "memory" -> WriteMemory(m, o, i)
                [] x.kind = "global" -> WriteBeginGlobal(m, o, i) \o <<RP>>
                [] x.kind = "tag" -> WriteTag(m, o, i)
  IN  IF o.inlineImport THEN body
      ELSE Sexp("import", WriteQuotedData(x.module) \o WriteQuotedData(x.field) \o body)
WriteExport(m, o, x) ==
  IF o.inlineExport /\ IsInlineExport(m, o, x) THEN <<>>
  ELSE Sexp("export", WriteQuotedData(x.name) \o Sexp(x.kind, WriteVar(x.var)))
WriteField(f) == IF f.mut = 1 THEN Sexp("mut", WriteType(f.type)) ELSE WriteType(f.type)
WriteTypeEntry(t) ==
  Sexp("type", WriteNameOrIndex(t.name)
       \o Sexp(t.kind, CASE t.kind = "func" -> WriteFuncSigSpace(t.sig)
                         [] t.kind = "struct" -> Each(t.fields, LAMBDA f : Sexp("field", WriteField(f)))
                         [] t.kind = "array" -> WriteField(t.fields[1])))
WriteStartFunction(v) == Sexp("start", WriteVar(v))
WriteCustom(c) == <<<<"(@custom">>>> \o WriteQuotedData(c.name) \o WriteQuotedData(c.data) \o <<RP>>

\* WriteModule, field by field in the order the binary reader appends them:
\* a sequence of token sequences.
WatFields(m, o) ==
  LET Rest(kind, all, Write(_, _, _)) ==
        [i \in 1 .. Len(all) - NumImports(m, kind) |-> Write(m, o, NumImports(m, kind) + i - 1)]
  IN  [i \in DOMAIN m.types |-> WriteTypeEntry(m.types[i])]
      \o [i \in DOMAIN m.imports |-> WriteImport(m, o, i)]
      \o Rest("func", m.funcs, WriteFunc) \o Rest("table", m.tables, WriteTable)
      \o Rest("memory", m.memories, WriteMemory) \o Rest("tag", m.tags, WriteTag)
      \o Rest("global", m.globals, WriteGlobal)
      \o [i \in DOMAIN m.exports |-> WriteExport(m, o, m.exports[i])]
      \o [i \in DOMAIN m.starts |-> WriteStartFunction(m.starts[i])]
      \o [i \in DOMAIN m.elems |-> WriteElemSegment(m, o, m.elems[i])]
      \o [i \in DOMAIN m.datas |-> WriteDataSegment(m, m.datas[i])]
      \o (IF "annotations" \in o.features THEN [i \in DOMAIN m.customs |-> WriteCustom(m.customs[i])] ELSE <<>>)
WriteWat(m, o) ==
  Open("module") \o (IF m.name = <<>> THEN <<>> ELSE WriteName(m.name)) \o Flat(WatFields(m, o)) \o <<RP>>
=============================================================================
