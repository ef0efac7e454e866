---------------------------- MODULE BinaryWriter ----------------------------
(***************************************************************************)
(* src/binary-writer.cc: a module becomes the bytes of a .wasm file, and,  *)
(* when it is to be relocatable, the symbol table and the relocations that *)
(* name every index in it.                                                 *)
(*                                                                         *)
(* The writer object is the record w: the stream (out), the module and the *)
(* options, the open section and subsection, the relocations per section   *)
(* and the code metadata gathered so far.  ok turns FALSE on the one error *)
(* (a duplicate exported symbol).  Offsets count from 0.                   *)
(***************************************************************************)
EXTENDS WasmIR, Leb128

WriteOptions(canonicalize, relocatable, names, features) ==
  [canon |-> canonicalize, relocatable |-> relocatable, names |-> names, features |-> features]

SectionCode ==
  [Custom |-> 0, Type |-> 1, Import |-> 2, Function |-> 3, Table |-> 4, Memory |-> 5,
   Global |-> 6, Export |-> 7, Start |-> 8, Elem |-> 9, Code |-> 10, Data |-> 11,
   DataCount |-> 12, Tag |-> 13]
KindCode == [func |-> 0, table |-> 1, memory |-> 2, global |-> 3, tag |-> 4]
RelocCode == [FuncIndexLEB |-> 0, TypeIndexLEB |-> 6, GlobalIndexLEB |-> 7, TableNumberLEB |-> 20]
SymbolCode == [func |-> 0, global |-> 2, table |-> 5]

SectionName      == <<110, 97, 109, 101>>                      \* "name"
SectionReloc     == <<114, 101, 108, 111, 99>>                 \* "reloc"
SectionLinking   == <<108, 105, 110, 107>>                     \* "link(ing)"
SectionMetadata  == <<109, 101, 116, 97>>                      \* "meta(data.code.)"

MagicAndVersion == <<0, 97, 115, 109, 1, 0, 0, 0>>

NewWriter(m, opt) ==
  [mod |-> m, opt |-> opt, out |-> <<>>, ok |-> TRUE,
   secs |-> 0, secOff |-> 0, payload |-> 0, secType |-> "Invalid", subOff |-> 0,
   relocs |-> <<>>, cur |-> 0, syms |-> <<>>, seen |-> {},
   dataInstr |-> FALSE, meta |-> <<>>, funcIdx |-> 0, funcStart |-> 0,
   codeStart |-> 0, dcStart |-> 0, dcEnd |-> 0]

Offset(w) == Len(w.out)
Enabled(w, f) == f \in w.opt.features
Emit(w, bytes) == [w EXCEPT !.out = @ \o bytes]
WriteU8(w, b)  == Emit(w, <<b>>)
WriteU32Leb(w, v) == Emit(w, U32Leb128(v))
WriteS32Leb(w, v) == Emit(w, S32Leb128(v))
Fold(op(_, _), w, s) ==
  LET after[i \in 0 .. Len(s)] ==
        IF i = 0 THEN w ELSE LET v == after[i - 1] IN IF v.ok THEN op(v, s[i]) ELSE v
  IN  after[Len(s)]

-----------------------------------------------------------------------------
(* Primitives                                                               *)

WriteStr(w, s) == Emit(w, U32Leb128(Len(s)) \o s)
WriteOpcode(w, o) ==
  IF Prefix(o) # 0 THEN Emit(w, <<Prefix(o)>> \o U32Leb128(Code(o))) ELSE WriteU8(w, Code(o))
WriteType(w, t) == WriteS32Leb(w, t)
WriteTypes(w, ts) == Fold(WriteType, WriteU32Leb(w, Len(ts)), ts)
WriteLimits(w, l) ==
  LET flags == (IF l.hasMax THEN 1 ELSE 0) + (IF l.shared THEN 2 ELSE 0) + (IF l.is64 THEN 4 ELSE 0)
  IN  Emit(w, U32Leb128(flags) \o U32Leb128(l.initial)
              \o (IF l.hasMax THEN U32Leb128(l.max) ELSE <<>>))
\* WriteDebugName strips the leading dollar.
WriteDebugName(w, s) == WriteStr(w, IF s = <<>> THEN s ELSE Tail(s))

\* log2_u32
RECURSIVE Log2(_)
Log2(x) == IF x > 1 THEN 1 + Log2(x \div 2) ELSE 0

\* WriteU32Leb128Space: one byte when the LEBs are canonical, five otherwise.
WriteU32Leb128Space(w) ==
  Emit(w, IF w.opt.canon THEN <<0>> ELSE <<0, 0, 0, 0, 0>>)

\* How far WriteFixupU32Leb128Size moves what follows the size field.
FixupDelta(w, offset) ==
  IF w.opt.canon THEN U32Leb128Length(Offset(w) - offset - 1) - 1 ELSE 0
WriteFixupU32Leb128Size(w, offset) ==
  IF w.opt.canon
  THEN LET size == Offset(w) - offset - 1
       IN  [w EXCEPT !.out = SubSeq(@, 1, offset) \o U32Leb128(size) \o SubSeq(@, offset + 2, Len(@))]
  ELSE LET size == Offset(w) - offset - MaxU32Bytes
       IN  [w EXCEPT !.out = SubSeq(@, 1, offset) \o FixedU32Leb128(size)
                               \o SubSeq(@, offset + MaxU32Bytes + 1, Len(@))]

WriteSectionHeader(w, type) ==
  LET a == WriteU8(w, SectionCode[type])
      b == WriteU32Leb128Space(a)
  IN  [b EXCEPT !.secType = type, !.secOff = Offset(a), !.payload = Offset(b)]
BeginKnownSection(w, type) == WriteSectionHeader(w, type)
BeginCustomSection(w, name) == WriteStr(WriteSectionHeader(w, "Custom"), name)
EndSection(w) == [WriteFixupU32Leb128Size(w, w.secOff) EXCEPT !.secs = @ + 1]
BeginSubsection(w) == [WriteU32Leb128Space(w) EXCEPT !.subOff = Offset(w)]
EndSubsection(w) == WriteFixupU32Leb128Size(w, w.subOff)

\* A section that is a count and a list; left out when the list is empty.
Section(w, type, list, Item(_, _)) ==
  IF list = <<>> THEN w
  ELSE EndSection(Fold(Item, WriteU32Leb(BeginKnownSection(w, type), Len(list)), list))

-----------------------------------------------------------------------------
(* Symbols and relocations                                                  *)

FlagUndefined == 16
FlagExported  == 32
FlagNoStrip   == 128
FlagLocal     == 2
FlagHidden    == 4

\* SymbolTable::AddSymbol: imports are nameless, a definition loses its
\* dollar, and an exported one must have a name of its own.
AddSymbol(w, kind, index, name, imported, exported) ==
  LET bare  == IF imported \/ name = <<>> THEN <<>> ELSE Tail(name)
      flags == (IF imported THEN FlagUndefined
                ELSE (IF name = <<>> THEN FlagLocal ELSE 0)
                     + (IF name = <<>> \/ exported THEN FlagHidden ELSE 0)
                     + (IF exported THEN FlagNoStrip ELSE 0))
               + (IF exported THEN FlagExported ELSE 0)
      clash == exported /\ ~imported /\ bare \in w.seen
  IN  IF ~w.ok \/ clash THEN [w EXCEPT !.ok = FALSE]
      ELSE [w EXCEPT !.seen = IF exported /\ ~imported THEN @ \cup {bare} ELSE @,
                     !.syms = Append(@, [kind |-> kind, index |-> index, name |-> bare,
                                         flags |-> flags, defined |-> ~imported])]

ExportedIndexes(m, kind, all) ==
  {FindIndex(all, m.exports[i].var) : i \in {j \in DOMAIN m.exports : m.exports[j].kind = kind}}

PopulateKind(w, kind, all) ==
  LET Add(v, i) == AddSymbol(v, kind, i - 1, all[i].name, i <= NumImports(w.mod, kind),
                             i - 1 \in ExportedIndexes(w.mod, kind, all))
  IN  Fold(Add, w, [i \in DOMAIN all |-> i])
\* SymbolTable::Populate: functions, then tables, then globals.
Populate(w) ==
  PopulateKind(PopulateKind(PopulateKind(w, "func", w.mod.funcs),
                            "table", w.mod.tables), "global", w.mod.globals)

\* SymbolTable::SymbolIndex
SymbolIndex(w, kind, index) ==
  LET hits == {i \in DOMAIN w.syms : w.syms[i].kind = kind /\ w.syms[i].index = index}
  IN  IF hits = {} THEN kInvalidIndex ELSE (CHOOSE i \in hits : TRUE) - 1

GetSymbolIndex(w, type, index) ==
  CASE type = "FuncIndexLEB"   -> SymbolIndex(w, "func", index)
    [] type = "TableNumberLEB" -> SymbolIndex(w, "table", index)
    [] type = "GlobalIndexLEB" -> SymbolIndex(w, "global", index)
    [] type = "TypeIndexLEB"   -> index

\* AddReloc opens a relocation section for the section being written unless
\* the current one is it already.
AddReloc(w, type, index) ==
  LET fresh == IF w.cur = 0 THEN TRUE ELSE w.relocs[w.cur].index # w.secs
      v == IF fresh
           THEN [w EXCEPT !.relocs = Append(@, [type |-> w.secType, index |-> w.secs, list |-> <<>>]),
                          !.cur = Len(w.relocs) + 1]
           ELSE w
      sym == GetSymbolIndex(w, type, index)
  IN  IF sym = kInvalidIndex THEN v
      ELSE [v EXCEPT !.relocs[v.cur].list =
              Append(@, [type |-> type, offset |-> Offset(w) - w.payload, index |-> sym])]

WriteU32Leb128WithReloc(w, index, type) ==
  IF w.opt.relocatable THEN Emit(AddReloc(w, type, index), FixedU32Leb128(index))
  ELSE WriteU32Leb(w, index)
WriteS32Leb128WithReloc(w, value, type) ==
  IF w.opt.relocatable THEN Emit(AddReloc(w, type, value), FixedS32Leb128(value))
  ELSE WriteS32Leb(w, value)
WriteTableNumberWithReloc(w, value) ==
  IF w.opt.relocatable /\ Enabled(w, "reference_types")
  THEN Emit(AddReloc(w, "TableNumberLEB", value), FixedS32Leb128(value))
  ELSE WriteS32Leb(w, value)

-----------------------------------------------------------------------------
(* Instructions                                                             *)

WriteBlockDecl(w, decl) ==
  LET sig == decl.sig
  IN  IF sig.params = <<>> /\ Len(sig.results) <= 1
      THEN WriteType(w, IF sig.results = <<>> THEN Void ELSE sig.results[1])
      ELSE WriteS32Leb128WithReloc(w, GetFuncTypeIndex(w.mod, decl), "TypeIndexLEB")

WriteLoadStoreExpr(w, e) ==
  LET align == Log2(GetAlignment(e.op, e.im[1]))
      mem   == GetMemoryIndex(w.mod, e.im[3])
  IN  Emit(WriteOpcode(w, e.op),
           (IF mem # 0 THEN <<align + 64>> \o U32Leb128(mem) ELSE <<align>>) \o U32Leb128(e.im[2]))
WriteSimdLoadStoreLaneExpr(w, e) == WriteU8(WriteLoadStoreExpr(w, e), e.im[4])

LoadStoreTypes == {"AtomicLoad", "AtomicRmw", "AtomicRmwCmpxchg", "AtomicStore", "AtomicWait",
                   "AtomicNotify", "Load", "Store", "LoadSplat", "LoadZero"}
OpcodeOnlyTypes == {"Binary", "CallRef", "Compare", "Convert", "Drop", "RefIsNull", "Nop",
                    "Return", "Unary", "Ternary", "Unreachable"}

\* The bits of a float or of a vector are kept as bytes, lowest first.
WriteConst(w, e) ==
  Emit(WriteOpcode(w, e.op),
       IF e.op \in {"i32.const", "i64.const"} THEN S32Leb128(e.im[1]) ELSE e.im[1])

\* Branches, exceptions and calls.
WriteLabels(w, e) ==
  LET o == WriteOpcode(w, e.op)
  IN  CASE e.k \in {"Br", "BrIf", "Rethrow", "Throw"} -> WriteU32Leb(o, e.im[1][2])
        [] e.k = "BrTable" ->
             LET One(v, var) == WriteU32Leb(v, var[2])
             IN  WriteU32Leb(Fold(One, WriteU32Leb(o, Len(e.im[1])), e.im[1]), e.im[2][2])
WriteCalls(w, e) ==
  LET o == WriteOpcode(w, e.op)
  IN  CASE e.k \in {"Call", "ReturnCall", "RefFunc"} ->
             WriteU32Leb128WithReloc(o, GetFuncIndex(w.mod, e.im[1]), "FuncIndexLEB")
        [] e.k \in {"CallIndirect", "ReturnCallIndirect"} ->
             WriteTableNumberWithReloc(
               WriteU32Leb128WithReloc(o, GetFuncTypeIndex(w.mod, e.im[1]), "TypeIndexLEB"),
               GetTableIndex(w.mod, e.im[2]))
\* func is a sequence: <<>> in an initializer expression, where only an
\* index names a local.
GetLocalIndex(func, var) ==
  IF func # <<>> THEN LocalIndex(func[1], var) ELSE IF IsIndex(var) THEN var[2] ELSE kInvalidIndex
WriteVariables(w, func, e) ==
  LET o == WriteOpcode(w, e.op)
  IN  IF e.k \in {"LocalGet", "LocalSet", "LocalTee"}
      THEN WriteU32Leb(o, GetLocalIndex(func, e.im[1]))
      ELSE WriteU32Leb128WithReloc(o, GetGlobalIndex(w.mod, e.im[1]), "GlobalIndexLEB")
WriteMemoryOps(w, e) ==
  LET o == WriteOpcode(w, e.op)
      m == w.mod
      Mem(v, var) == WriteU32Leb(v, GetMemoryIndex(m, var))
      Seg(v, var) == [WriteU32Leb(v, GetDataSegmentIndex(m, var)) EXCEPT !.dataInstr = TRUE]
  IN  CASE e.k = "MemoryCopy" -> Mem(Mem(o, e.im[1]), e.im[2])
        [] e.k = "MemoryInit" -> Mem(Seg(o, e.im[1]), e.im[2])
        [] e.k = "DataDrop"   -> Seg(o, e.im[1])
        [] e.k \in {"MemoryFill", "MemoryGrow", "MemorySize"} -> Mem(o, e.im[1])
WriteTableOps(w, e) ==
  LET o == WriteOpcode(w, e.op)
      m == w.mod
      Tab(v, var) == WriteTableNumberWithReloc(v, GetTableIndex(m, var))
      Seg(v, var) == WriteU32Leb(v, GetElemSegmentIndex(m, var))
  IN  CASE e.k = "TableCopy" -> Tab(Tab(o, e.im[1]), e.im[2])
        [] e.k = "TableInit" -> Tab(Seg(o, e.im[2]), e.im[1])
        [] e.k = "ElemDrop"  -> Seg(o, e.im[1])
        [] e.k \in {"TableGet", "TableSet", "TableGrow", "TableSize", "TableFill"} -> Tab(o, e.im[1])
WriteSelect(w, e) ==
  IF e.im[1] = <<>> THEN WriteOpcode(w, "select") ELSE WriteTypes(WriteOpcode(w, "selectt"), e.im[1])
\* CodeMetadata writes no byte: it is remembered with its offset in the body.
WriteCodeMetadata(w, e) ==
  LET at    == [off |-> Offset(w) - w.funcStart, data |-> e.im[2]]
      s     == IF \E i \in DOMAIN w.meta : w.meta[i].name = e.im[1]
               THEN CHOOSE i \in DOMAIN w.meta : w.meta[i].name = e.im[1] ELSE Len(w.meta) + 1
      old   == IF s \in DOMAIN w.meta THEN w.meta[s].entries ELSE <<>>
      again == IF old = <<>> THEN FALSE ELSE Last(old).func = w.funcIdx
      new   == IF again THEN [old EXCEPT ![Len(old)].entries = Append(@, at)]
               ELSE Append(old, [func |-> w.funcIdx, entries |-> <<at>>])
  IN  [w EXCEPT !.meta = IF s \in DOMAIN @ THEN [@ EXCEPT ![s].entries = new]
                         ELSE Append(@, [name |-> e.im[1], entries |-> new])]

RECURSIVE WriteExprList(_, _, _)
WriteBlocks(w, func, e) ==
  LET begin == WriteExprList(WriteBlockDecl(WriteOpcode(w, e.op), e.decl), func, e.body)
      else_ == IF e.alt = <<>> THEN begin ELSE WriteExprList(WriteOpcode(begin, "else"), func, e.alt)
      One(v, c) == WriteExprList(IF c.tag = <<>> THEN WriteOpcode(v, "catch_all")
                                 ELSE WriteU32Leb(WriteOpcode(v, "catch"), c.tag[1][2]), func, c.body)
  IN  CASE e.k \in {"Block", "Loop"} -> WriteOpcode(begin, "end")
        [] e.k = "If" -> WriteOpcode(else_, "end")
        [] e.k = "Try" /\ e.kind = "Delegate" ->
             WriteU32Leb(WriteOpcode(begin, "delegate"), e.delegate[2])
        [] e.k = "Try" /\ e.kind # "Delegate" -> WriteOpcode(Fold(One, begin, e.catches), "end")
WriteExpr(w, func, e) ==
  CASE e.k \in OpcodeOnlyTypes -> WriteOpcode(w, e.op)
    [] e.k \in LoadStoreTypes -> WriteLoadStoreExpr(w, e)
    [] e.k \in {"SimdLoadLane", "SimdStoreLane"} -> WriteSimdLoadStoreLaneExpr(w, e)
    [] e.k = "Const" -> WriteConst(w, e)
    [] e.k \in {"Br", "BrIf", "BrTable", "Rethrow", "Throw"} -> WriteLabels(w, e)
    [] e.k \in {"Call", "ReturnCall", "RefFunc", "CallIndirect", "ReturnCallIndirect"} -> WriteCalls(w, e)
    [] e.k \in {"LocalGet", "LocalSet", "LocalTee", "GlobalGet", "GlobalSet"} -> WriteVariables(w, func, e)
    [] e.k \in {"MemoryCopy", "MemoryInit", "DataDrop", "MemoryFill", "MemoryGrow", "MemorySize"} ->
         WriteMemoryOps(w, e)
    [] e.k \in {"TableCopy", "TableInit", "ElemDrop", "TableGet", "TableSet", "TableGrow",
                "TableSize", "TableFill"} -> WriteTableOps(w, e)
    [] e.k = "RefNull" -> WriteType(WriteOpcode(w, e.op), e.im[1])
    [] e.k = "Select" -> WriteSelect(w, e)
    [] e.k = "SimdLaneOp" -> WriteU8(WriteOpcode(w, e.op), e.im[1])
    [] e.k = "SimdShuffleOp" -> Emit(WriteOpcode(w, e.op), e.im[1])
    [] e.k = "AtomicFence" -> WriteU32Leb(WriteOpcode(w, e.op), e.im[1])
    [] e.k = "CodeMetadata" -> WriteCodeMetadata(w, e)
    [] e.k \in {"Block", "Loop", "If", "Try"} -> WriteBlocks(w, func, e)
WriteExprList(w, func, es) == LET One(v, e) == WriteExpr(v, func, e) IN Fold(One, w, es)

WriteInitExpr(w, es) == WriteOpcode(WriteExprList(w, <<>>, es), "end")
WriteFuncLocals(w, f) ==
  LET decls == LocalDecls(f.locals)
      One(v, d) == WriteType(WriteU32Leb(v, d[2]), d[1])
  IN  Fold(One, WriteU32Leb(w, Len(decls)), decls)
WriteFunc(w, f) == WriteOpcode(WriteExprList(WriteFuncLocals(w, f), <<f>>, f.body), "end")

-----------------------------------------------------------------------------
(* Sections                                                                 *)

WriteTable(w, t) == WriteLimits(WriteType(w, t.type), t.limits)
WriteMemory(w, m) == WriteLimits(w, m.limits)
WriteGlobalHeader(w, g) == WriteU8(WriteType(w, g.type), g.mut)
WriteTagType(w, t) == WriteU32Leb(WriteU8(w, 0), GetFuncTypeIndex(w.mod, t.decl))

WriteTypeEntry(w, t) ==
  LET Field(v, f) == WriteU8(WriteType(v, f.type), f.mut)
  IN  CASE t.kind = "func" -> WriteTypes(WriteTypes(WriteType(w, FuncT), t.sig.params), t.sig.results)
        [] t.kind = "struct" -> Fold(Field, WriteU32Leb(WriteType(w, StructT), Len(t.fields)), t.fields)
        [] t.kind = "array" -> Field(WriteType(w, ArrayT), t.fields[1])

WriteImport(w, i) ==
  LET m    == w.mod
      imp  == m.imports[i]
      at   == EntryOfImport(m, i)
      head == WriteU8(WriteStr(WriteStr(w, imp.module), imp.field), KindCode[imp.kind])
  IN  CASE imp.kind = "func"   -> WriteU32Leb(head, GetFuncTypeIndex(m, m.funcs[at].decl))
        [] imp.kind = "table"  -> WriteTable(head, m.tables[at])
        [] imp.kind = "memory" -> WriteMemory(head, m.memories[at])
        [] imp.kind = "global" -> WriteGlobalHeader(head, m.globals[at])
        [] imp.kind = "tag"    -> WriteTagType(head, m.tags[at])
WriteImports(w) == Section(w, "Import", [i \in DOMAIN w.mod.imports |-> i], WriteImport)

\* The sections of the definitions, in the order the format prescribes.
WriteDefinitions(w) ==
  LET m == w.mod
      Fn(v, f) == WriteU32Leb(v, GetFuncTypeIndex(m, f.decl))
      Gl(v, g) == WriteInitExpr(WriteGlobalHeader(v, g), g.init)
      a == Section(w, "Function", Defined(m, "func", m.funcs), Fn)
      b == Section(a, "Table", Defined(m, "table", m.tables), WriteTable)
      c == Section(b, "Memory", Defined(m, "memory", m.memories), WriteMemory)
      d == Section(c, "Tag", Defined(m, "tag", m.tags), WriteTagType)
  IN  Section(d, "Global", Defined(m, "global", m.globals), Gl)

IndexSpace(m, kind) ==
  CASE kind = "func" -> m.funcs [] kind = "table" -> m.tables [] kind = "memory" -> m.memories
    [] kind = "global" -> m.globals [] kind = "tag" -> m.tags
WriteExport(w, x) ==
  WriteU32Leb(WriteU8(WriteStr(w, x.name), KindCode[x.kind]), FindIndex(IndexSpace(w.mod, x.kind), x.var))
WriteExports(w) == Section(w, "Export", w.mod.exports, WriteExport)

WriteStart(w) ==
  IF w.mod.starts = <<>> THEN w
  ELSE LET index == GetFuncIndex(w.mod, w.mod.starts[1])
       IN  IF index = kInvalidIndex THEN w
           ELSE EndSection(WriteU32Leb(BeginKnownSection(w, "Start"), index))

WriteElemSegment(w, s) ==
  LET flags == ElemGetFlags(w.mod, s)
      a == WriteU8(w, flags)
      b == IF Has(flags, SegExplicitIndex) /\ s.kind # "declared"
           THEN WriteU32Leb(a, GetTableIndex(w.mod, s.table)) ELSE a
      c == IF ~Has(flags, SegPassive) THEN WriteInitExpr(b, s.offset) ELSE b
      d == IF ~(Has(flags, SegPassive) \/ Has(flags, SegExplicitIndex)) THEN c
           ELSE IF Has(flags, SegUseElemExprs) THEN WriteType(c, s.type) ELSE WriteU8(c, KindCode["func"])
      One(v, es) == IF Has(flags, SegUseElemExprs) THEN WriteInitExpr(v, es)
                    ELSE WriteU32Leb(v, GetFuncIndex(w.mod, es[1].im[1]))
  IN  Fold(One, WriteU32Leb(d, Len(s.exprs)), s.exprs)
WriteElems(w) == Section(w, "Elem", w.mod.elems, WriteElemSegment)

WritesDataCount(w) == Enabled(w, "bulk_memory") /\ w.mod.datas # <<>>
WriteDataCount(w) ==
  IF ~WritesDataCount(w) THEN w
  ELSE LET v == EndSection(WriteU32Leb(BeginKnownSection(w, "DataCount"), Len(w.mod.datas)))
       IN  [v EXCEPT !.dcStart = Offset(w), !.dcEnd = Offset(v)]

\* The size field of a body may grow when it is filled in: the relocations
\* of the current relocation section that lie in the body move with it.
\* Mutated form: the relocations stay where they were.
ShiftRelocs_None(w, from, to, delta) == w
ShiftRelocs(w, from, to, delta) ==
  IF w.cur = 0 \/ delta = 0 THEN w
  ELSE [w EXCEPT !.relocs[w.cur].list =
          [i \in DOMAIN @ |-> IF from <= @[i].offset /\ @[i].offset <= to
                              THEN [@[i] EXCEPT !.offset = @ + delta] ELSE @[i]]]
WriteFunctionBody(w, i) ==
  LET off  == Offset(w)
      a    == WriteU32Leb128Space([w EXCEPT !.funcIdx = i - 1])
      b    == WriteFunc([a EXCEPT !.funcStart = Offset(a)], w.mod.funcs[i])
  IN  ShiftRelocs(WriteFixupU32Leb128Size(b, off), off - w.payload, Offset(b) - w.payload,
                  FixupDelta(b, off))
WriteCode(w) ==
  Section([w EXCEPT !.codeStart = Offset(w)], "Code",
          [i \in 1 .. Len(w.mod.funcs) - NumImports(w.mod, "func") |-> i + NumImports(w.mod, "func")],
          WriteFunctionBody)

\* The DataCount section is dropped again when no instruction needs it; the
\* Code section, if there is one, slides down and its index with it.
RemoveDataCount(w) ==
  IF ~WritesDataCount(w) \/ w.dataInstr THEN w
  ELSE [w EXCEPT !.out = SubSeq(@, 1, w.dcStart) \o SubSeq(@, w.dcEnd + 1, Len(@)),
                 !.codeStart = IF Offset(w) > w.dcEnd THEN w.dcStart ELSE @,
                 !.secs = @ - 1,
                 !.relocs = [i \in DOMAIN @ |-> IF @[i].index = w.secs - 1
                                                THEN [@[i] EXCEPT !.index = @ - 1] ELSE @[i]]]

\* The metadata sections are written aside and put in front of the Code
\* section, whose index grows by their number.
WriteMetadataSection(w, s) ==
  LET At(v, a) == WriteStr(WriteU32Leb(v, a.off), a.data)
      Fn(v, f) == Fold(At, WriteU32Leb(WriteU32Leb128WithReloc(v, f.func, "FuncIndexLEB"), Len(f.entries)),
                       f.entries)
  IN  EndSection(Fold(Fn, WriteU32Leb(BeginCustomSection(w, SectionMetadata \o s.name), Len(s.entries)),
                      s.entries))
WriteCodeMetadataSections(w) ==
  IF w.meta = <<>> THEN w
  ELSE LET code == w.secs - 1
           a == [w EXCEPT !.secs = code, !.out = <<>>,
                          !.relocs = [i \in DOMAIN @ |-> IF @[i].index = code
                                        THEN [@[i] EXCEPT !.index = @ + Len(w.meta)] ELSE @[i]]]
           b == Fold(WriteMetadataSection, a, w.meta)
       IN  [b EXCEPT !.out = SubSeq(w.out, 1, w.codeStart) \o b.out
                               \o SubSeq(w.out, w.codeStart + 1, Len(w.out)),
                     !.codeStart = w.codeStart + Len(b.out),
                     !.secs = @ + 1, !.secType = "Code"]

WriteDataSegment(w, s) ==
  LET flags == DataGetFlags(w.mod, s)
      a == WriteU8(w, flags)
      b == IF Enabled(w, "multi_memory") /\ Has(flags, SegExplicitIndex)
           THEN WriteU32Leb(a, GetMemoryIndex(w.mod, s.memory)) ELSE a
  IN  WriteStr(IF Has(flags, SegPassive) THEN a ELSE WriteInitExpr(b, s.offset), s.data)
WriteData(w) == Section(w, "Data", w.mod.datas, WriteDataSegment)

IsPrefixOf(p, s) == Len(p) <= Len(s) /\ SubSeq(s, 1, Len(p)) = p
WriteCustoms(w) ==
  LET Ours(c) == \/ c.name = SectionName /\ w.opt.names
                 \/ IsPrefixOf(SectionReloc, c.name) /\ w.opt.relocatable
                 \/ c.name = SectionLinking /\ w.opt.relocatable
                 \/ IsPrefixOf(SectionMetadata, c.name) /\ Enabled(w, "code_metadata")
      One(v, c) == IF Ours(c) THEN v ELSE EndSection(Emit(BeginCustomSection(v, c.name), c.data))
  IN  Fold(One, w, w.mod.customs)

\* Mutated form: the named ones are numbered from 0.
WriteNames_Dense(w, all, type) ==
  LET named == SelectSeq(all, LAMBDA x : x.name # <<>>)
      One(v, i) == WriteDebugName(WriteU32Leb(v, i - 1), named[i].name)
  IN  IF named = <<>> THEN w
      ELSE EndSubsection(Fold(One, WriteU32Leb(BeginSubsection(WriteU32Leb(w, type)), Len(named)),
                              [i \in DOMAIN named |-> i]))
\* WriteNames: only the named ones, each with its index.
WriteNames(w, all, type) ==
  LET named == SelectSeq([i \in DOMAIN all |-> i], LAMBDA i : all[i].name # <<>>)
      One(v, i) == WriteDebugName(WriteU32Leb(v, i - 1), all[i].name)
  IN  IF named = <<>> THEN w
      ELSE EndSubsection(Fold(One, WriteU32Leb(BeginSubsection(WriteU32Leb(w, type)), Len(named)), named))
WriteLocalNames(w) ==
  LET One(v, i) ==
        LET names == LocalNames(w.mod.funcs[i])
            named == SelectSeq([j \in DOMAIN names |-> j], LAMBDA j : names[j] # <<>>)
            Local(u, j) == WriteDebugName(WriteU32Leb(u, j - 1), names[j])
        IN  Fold(Local, WriteU32Leb(WriteU32Leb(v, i - 1), Len(named)), named)
  IN  EndSubsection(Fold(One, WriteU32Leb(BeginSubsection(WriteU32Leb(w, 2)), Len(w.mod.funcs)),
                         [i \in DOMAIN w.mod.funcs |-> i]))
WriteModuleName(w) ==
  IF w.mod.name = <<>> THEN w
  ELSE EndSubsection(WriteDebugName(BeginSubsection(WriteU32Leb(w, 0)), w.mod.name))
WriteNameSection(w) ==
  IF ~w.opt.names THEN w
  ELSE LET m == w.mod
           a == WriteNames(WriteModuleName(BeginCustomSection(w, SectionName)), m.funcs, 1)
           b == WriteNames(WriteLocalNames(a), m.types, 4)
           c == WriteNames(WriteNames(b, m.tables, 5), m.memories, 6)
           d == WriteNames(WriteNames(c, m.globals, 7), m.elems, 8)
       IN  EndSection(WriteNames(WriteNames(d, m.datas, 9), m.tags, 11))

WriteSymbol(w, s) ==
  LET v == WriteU32Leb(WriteU32Leb(WriteU8(w, SymbolCode[s.kind]), s.flags), s.index)
  IN  IF s.defined THEN WriteStr(v, s.name) ELSE v
WriteLinkingSection(w) ==
  LET a == WriteU32Leb(BeginCustomSection(w, SectionLinking), 2)
  IN  EndSection(IF w.syms = <<>> THEN a
                 ELSE EndSubsection(Fold(WriteSymbol,
                        WriteU32Leb(BeginSubsection(WriteU8(a, 8)), Len(w.syms)), w.syms)))
WriteRelocSection(w, r) ==
  LET One(v, x) == Emit(v, U32Leb128(RelocCode[x.type]) \o U32Leb128(x.offset) \o U32Leb128(x.index))
  IN  EndSection(Fold(One, WriteU32Leb(WriteU32Leb(
        BeginCustomSection(w, SectionReloc \o <<46, SectionCode[r.type]>>), r.index), Len(r.list)), r.list))
WriteRelocs(w) ==
  IF w.opt.relocatable THEN Fold(WriteRelocSection, WriteLinkingSection(w), w.relocs) ELSE w

\* BinaryWriter::WriteModule
WriteModule(m, opt) ==
  LET start == Emit(NewWriter(m, opt), MagicAndVersion)
      syms  == IF opt.relocatable THEN Populate(start) ELSE start
      defs  == WriteDefinitions(WriteImports(Section(syms, "Type", m.types, WriteTypeEntry)))
      code  == WriteCode(WriteDataCount(WriteElems(WriteStart(WriteExports(defs)))))
      data  == WriteData(WriteCodeMetadataSections(RemoveDataCount(code)))
  IN  IF syms.ok THEN WriteRelocs(WriteNameSection(WriteCustoms(data))) ELSE syms

=============================================================================
