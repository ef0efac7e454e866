---------------------------- MODULE BinaryReader ----------------------------
(***************************************************************************)
(* src/binary-reader.cc: the bytes of a .wasm file become events for the   *)
(* delegate, here the one that builds a module (BinaryReaderIR).           *)
(*                                                                         *)
(* The reader object is the record r.  A read that fails clears ok, and    *)
(* everything up to the end of the section being read is then skipped,     *)
(* which is what the early returns do; v is the value read last.           *)
(***************************************************************************)
EXTENDS BinaryReaderIR, Leb128

ReadOptions(features, names, stop, failCustom, skip) ==
  [features |-> features, names |-> names, stop |-> stop, failCustom |-> failCustom, skip |-> skip]

SectionNames ==
  [name |-> <<110, 97, 109, 101>>, reloc |-> <<114, 101, 108, 111, 99>>,
   linking |-> <<108, 105, 110, 107>>, metadata |-> <<109, 101, 116, 97>>,
   dylink0 |-> <<100, 121, 48>>, dylink |-> <<100, 121, 108>>, features |-> <<102, 101, 97, 116>>]

\* BinarySection by code, and its place in the prescribed order.
SectionOf == <<"Custom", "Type", "Import", "Function", "Table", "Memory", "Global", "Export",
               "Start", "Elem", "Code", "Data", "DataCount", "Tag">>
SectionOrder == [Custom |-> 0, Type |-> 1, Import |-> 2, Function |-> 3, Table |-> 4, Memory |-> 5,
                 Tag |-> 6, Global |-> 7, Export |-> 8, Start |-> 9, Elem |-> 10, DataCount |-> 11,
                 Code |-> 12, Data |-> 13]

NewReader(bytes, opt) ==
  [data |-> bytes, opt |-> opt, pos |-> 0, end |-> Len(bytes), ok |-> TRUE, v |-> 0,
   d |-> NewDelegate, result |-> TRUE, seen |-> {}, last |-> "Invalid", named |-> FALSE,
   funcImports |-> 0, sigs |-> 0, bodies |-> 0, dataCount |-> kInvalidIndex, relocs |-> <<>>]

Fail(r) == [r EXCEPT !.ok = FALSE, !.v = 0]
Check(r, cond) == IF ~r.ok THEN r ELSE IF cond THEN r ELSE Fail(r)
Yield(r, x) == IF r.ok THEN [r EXCEPT !.v = x] ELSE r
On(r, d) == IF ~r.ok THEN r ELSE IF d.ok THEN [r EXCEPT !.d = d]
            ELSE Fail([r EXCEPT !.d = [d EXCEPT !.ok = TRUE]])
Feature(r, f) == f \in r.opt.features
NumTotalFuncs(r) == r.funcImports + r.sigs

-----------------------------------------------------------------------------
(* Primitives                                                               *)

\* ReadT for n bytes; v is the sequence of them.
ReadBytesWithSize(r, n) ==
  IF ~r.ok THEN r
  ELSE IF r.pos + n > r.end THEN Fail(r)
  ELSE [r EXCEPT !.v = SubSeq(r.data, r.pos + 1, r.pos + n), !.pos = @ + n]
ReadU8(r) == LET a == ReadBytesWithSize(r, 1) IN Yield(a, a.v[1])

TakeLeb(r, leb) ==
  IF leb.n = 0 THEN Fail(r) ELSE [r EXCEPT !.v = leb.v, !.pos = @ + leb.n]
ReadU32Leb(r) == IF ~r.ok THEN r ELSE TakeLeb(r, ReadU32Leb128(r.data, r.pos, r.end))
ReadU64Leb(r) == IF ~r.ok THEN r ELSE TakeLeb(r, ReadU64Leb128(r.data, r.pos, r.end))
ReadS32Leb(r) == IF ~r.ok THEN r ELSE TakeLeb(r, ReadS32Leb128(r.data, r.pos, r.end))
ReadS64Leb(r) == IF ~r.ok THEN r ELSE TakeLeb(r, ReadS64Leb128(r.data, r.pos, r.end))
ReadIndex(r)  == ReadU32Leb(r)
ReadType(r)   == ReadS32Leb(r)
ReadRefType(r) == LET a == ReadS32Leb(r) IN Check(a, a.v \in {FuncRef, ExternRef})
ReadAddress(r) == IF Feature(r, "memory64") THEN ReadU64Leb(r) ELSE ReadU32Leb(r)

\* IsValidUtf8 (src/utf8.cc) from position i of s.
RECURSIVE IsValidUtf8(_, _)
IsValidUtf8(s, i) ==
  IF i > Len(s) THEN TRUE
  ELSE LET c == s[i]
           n == CASE c < 128 -> 1 [] c \in 194 .. 223 -> 2 [] c \in 224 .. 239 -> 3
                  [] c \in 240 .. 244 -> 4 [] OTHER -> 0
       IN  IF n = 0 \/ i + n - 1 > Len(s) THEN FALSE
           ELSE /\ \A k \in 1 .. n - 1 : s[i + k] \div 64 = 2
                /\ (c = 224 => s[i + 1] >= 160) /\ (c = 237 => s[i + 1] < 160)
                /\ (c = 240 => s[i + 1] >= 144) /\ (c = 244 => s[i + 1] < 144)
                /\ IsValidUtf8(s, i + n)

ReadBytes(r) == LET a == ReadU32Leb(r) IN ReadBytesWithSize(a, a.v)
ReadStr(r) == LET a == ReadBytes(r) IN Check(a, IsValidUtf8(a.v, 1))

\* ReadCount: no more items than there are bytes left.
ReadCount(r) == LET a == ReadIndex(r) IN Check(a, a.v <= a.end - a.pos)

IsConcreteType(r, t) ==
  \/ t \in {I32, I64, F32, F64}
  \/ t = V128 /\ Feature(r, "simd")
  \/ t \in {FuncRef, ExternRef} /\ Feature(r, "reference_types")
IsBlockType(r, t) == IsConcreteType(r, t) \/ t = Void \/ (t >= 0 /\ Feature(r, "multi_value"))
ReadConcreteType(r) == LET a == ReadType(r) IN Check(a, IsConcreteType(a, a.v))

\* n times Item, stopping at the first failure.  An item takes at least one
\* byte, so one more than the bytes left is as good as any larger n.
Times(r, n, Item(_)) ==
  LET turns == IF n > r.end - r.pos THEN r.end - r.pos + 1 ELSE n
      after[i \in 0 .. turns] ==
        IF i = 0 THEN r ELSE LET x == after[i - 1] IN IF x.ok THEN Item(x) ELSE x
  IN  IF r.ok THEN after[turns] ELSE r
\* The same, with the values in a sequence.
Collect(r, n, Item(_)) ==
  LET turns == IF n > r.end - r.pos THEN r.end - r.pos + 1 ELSE n
      after[i \in 0 .. turns] ==
        IF i = 0 THEN <<r, <<>>>>
        ELSE LET x == after[i - 1]
                 y == Item(x[1])
             IN  IF x[1].ok THEN <<y, Append(x[2], y.v)>> ELSE x
  IN  IF r.ok THEN Yield(after[turns][1], after[turns][2]) ELSE r
Counted(r, Item(_)) == LET a == ReadCount(r) IN Times(a, a.v, Item)
CountedList(r, Item(_)) == LET a == ReadCount(r) IN Collect(a, a.v, Item)

-----------------------------------------------------------------------------
(* Instructions                                                             *)

\* ReadMemLocation: bit 6 of the alignment announces a memory index.  v is
\* <<memory, alignment, offset>>.
ReadMemLocation(r) ==
  LET a    == ReadU32Leb(r)
      has  == (a.v \div 64) % 2 = 1
      log2 == IF has THEN a.v - 64 ELSE a.v
      b    == Check(Check(a, log2 < 32), has => Feature(r, "multi_memory"))
      c    == IF has THEN ReadIndex(b) ELSE Yield(b, 0)
      o    == ReadAddress(c)
  IN  Yield(o, <<c.v, IF log2 < 30 THEN 2 ^ log2 ELSE Huge, o.v>>)
ReadMemoryAccess(r, o) ==
  LET a == ReadMemLocation(r) IN On(a, OnMemoryAccessExpr(a.d, o, a.v[1], a.v[2], a.v[3]))
ReadMemoryLane(r, o) ==
  LET a == ReadMemLocation(r)
      b == ReadU8(a)
  IN  On(b, OnLaneExpr(b.d, o, a.v[1], a.v[2], a.v[3], b.v))

\* An index, or with the feature off a byte that must be 0.
ReadIndexOrReserved(r, feature) ==
  IF Feature(r, feature) THEN ReadIndex(r) ELSE LET a == ReadU8(r) IN Check(a, a.v = 0)
ReadMemidx(r) == ReadIndexOrReserved(r, "multi_memory")

ReadBrTable(r) ==
  LET ts == CountedList(r, ReadIndex)
      t  == ReadIndex(ts)
  IN  On(t, OnBrTableExpr(t.d, ts.v, t.v))
ReadConst(r, o) ==
  LET n == CASE o = "f32.const" -> 4 [] o = "f64.const" -> 8 [] OTHER -> 16
      a == CASE o = "i32.const" -> ReadS32Leb(r) [] o = "i64.const" -> ReadS64Leb(r)
             [] OTHER -> ReadBytesWithSize(r, n)
  IN  On(a, OnConstExpr(a.d, o, a.v))
ReadSelect(r, o) ==
  LET a == IF o = "select" THEN Yield(r, <<>>) ELSE CountedList(r, ReadConcreteType)
  IN  On(a, OnSelectExpr(a.d, a.v))
ReadCallIndirect(r, o) ==
  LET a == ReadIndex(r) b == ReadIndexOrReserved(a, "reference_types")
  IN  On(b, OnCallIndirectExpr(b.d, o, a.v, b.v))
ReadBulkMemory(r, o) ==
  LET k == ExprType(o)
      has == Check(r, r.dataCount # kInvalidIndex)
      a == IF k \in {"MemoryInit", "DataDrop"} THEN ReadIndex(has) ELSE ReadMemidx(r)
      b == IF k \in {"MemoryInit", "MemoryCopy"} THEN ReadMemidx(a) ELSE a
  IN  IF k \in {"MemoryInit", "MemoryCopy"} THEN On(b, OnTwoIndexExpr(b.d, o, a.v, b.v))
      ELSE On(a, OnIndexExpr(a.d, o, a.v))
\* table.init names its segment first, the expression its table.
ReadTwoTables(r, o) ==
  LET a == ReadIndex(r) b == ReadIndex(a)
  IN  On(b, IF o = "table.init" THEN OnTwoIndexExpr(b.d, o, b.v, a.v)
            ELSE OnTwoIndexExpr(b.d, o, a.v, b.v))
ReadSimd(r, o) ==
  LET a == IF o = "i8x16.shuffle" THEN ReadBytesWithSize(r, 16) ELSE ReadU8(r)
  IN  On(a, OnSimdExpr(a.d, o, a.v))
ReadFence(r, o) == LET a == ReadU8(r) IN On(Check(a, a.v = 0), OnConstExpr(a.d, o, 0))
ReadRefNull(r) == LET a == ReadRefType(r) IN On(a, OnRefNullExpr(a.d, a.v))

\* The case groups of ReadInstructions that read their immediates alike.
LoadStoreTypes == {"Load", "Store"}
SimdMemoryTypes == {"LoadSplat", "LoadZero"}
AtomicTypes == {"AtomicLoad", "AtomicRmw", "AtomicRmwCmpxchg", "AtomicStore", "AtomicWait",
                "AtomicNotify"}
BranchTypes == {"Br", "BrIf", "Rethrow", "Throw"}
VariableTypes == {"GlobalGet", "GlobalSet", "LocalGet", "LocalSet", "LocalTee"}
CallTypes == {"Call", "ReturnCall", "RefFunc"}
TableTypes == {"ElemDrop", "TableGet", "TableSet", "TableGrow", "TableSize", "TableFill"}
BareTypes == {"Unreachable", "Return", "Nop", "Drop", "RefIsNull", "CallRef"}
BinaryTypes == {"Binary"}
CompareTypes == {"Compare"}
UnaryTypes == {"Unary"}
TernaryTypes == {"Ternary"}
ConvertTypes == {"Convert"}

ReadPlain(r, o) ==
  LET k == ExprType(o)
      i == ReadIndex(r)
  IN  CASE k \in BareTypes \cup BinaryTypes \cup CompareTypes \cup UnaryTypes
                  \cup TernaryTypes \cup ConvertTypes -> On(r, OnOpcodeExpr(r.d, o))
        [] k \in BranchTypes \cup VariableTypes \cup CallTypes \cup TableTypes ->
             On(i, OnIndexExpr(i.d, o, i.v))
        [] k \in LoadStoreTypes \cup SimdMemoryTypes \cup AtomicTypes -> ReadMemoryAccess(r, o)
        [] k \in {"SimdLoadLane", "SimdStoreLane"} -> ReadMemoryLane(r, o)
        [] k = "BrTable" -> ReadBrTable(r)
        [] k = "Const" -> ReadConst(r, o)
        [] k = "Select" -> ReadSelect(r, o)
        [] k \in {"CallIndirect", "ReturnCallIndirect"} -> ReadCallIndirect(r, o)
        [] k \in {"MemoryInit", "DataDrop", "MemoryFill", "MemoryCopy", "MemorySize", "MemoryGrow"} ->
             ReadBulkMemory(r, o)
        [] k \in {"TableInit", "TableCopy"} -> ReadTwoTables(r, o)
        [] k \in {"SimdLaneOp", "SimdShuffleOp"} -> ReadSimd(r, o)
        [] k = "AtomicFence" -> ReadFence(r, o)
        [] k = "RefNull" -> ReadRefNull(r)

ReadOpcode(r) ==
  LET a == ReadU8(r)
      b == IF a.v \in {252, 253, 254} /\ a.ok THEN ReadU32Leb(a) ELSE a
      p == IF a.v \in {252, 253, 254} THEN a.v ELSE 0
  IN  Yield(b, IF IsOpcode(p, b.v) THEN FromCode[<<p, b.v>>] ELSE "")

BlockOpcodes == {"block", "loop", "if", "try"}
\* ReadInstructions: nest is the reader's own stack of open blocks.
RECURSIVE ReadInstructions(_, _, _)
ReadInstructions(r, endOffset, nest) ==
  IF ~r.ok THEN r
  ELSE IF r.pos >= endOffset THEN Fail(r)
  ELSE
    LET a == ReadOpcode(r)
        o == a.v
        b == Check(On(a, OnOpcode(a.d, a.pos)), IF o = "" THEN FALSE ELSE IsEnabled(o, r.opt.features))
        top(op) == IF nest = <<>> THEN FALSE ELSE Last(nest) = op
        t == ReadType(b)
        i == ReadIndex(b)
        e == On(b, OnEndExpr(b.d))
    IN  IF ~b.ok THEN b
        ELSE CASE o \in BlockOpcodes ->
                    LET c == Check(t, IsBlockType(t, t.v))
                    IN  ReadInstructions(On(c, OnBlockExpr(c.d, o, t.v)), endOffset, Append(nest, o))
               [] o = "else" ->
                    ReadInstructions(On(Check(b, top("if")), OnElseExpr(b.d)), endOffset, nest)
               [] o = "catch" -> ReadInstructions(On(i, OnCatchExpr(i.d, <<Idx(i.v)>>)), endOffset, nest)
               [] o = "catch_all" -> ReadInstructions(On(b, OnCatchExpr(b.d, <<>>)), endOffset, nest)
               [] o = "delegate" ->
                    IF ~top("try") THEN Fail(b)
                    ELSE ReadInstructions(On(i, OnDelegateExpr(i.d, i.v)), endOffset, Front(nest))
               [] o = "end" ->
                    IF nest = <<>> THEN e ELSE ReadInstructions(e, endOffset, Front(nest))
               [] OTHER -> ReadInstructions(ReadPlain(b, o), endOffset, nest)
ReadInitExpr(r) == ReadInstructions(r, r.end, <<>>)
ReadFunctionBody(r, endOffset) ==
  LET a == ReadInstructions(r, endOffset, <<>>) IN Check(a, a.pos = endOffset)

-----------------------------------------------------------------------------
(* Sections                                                                 *)

HasMax(flags) == flags % 2 = 1
IsShared(flags) == (flags \div 2) % 2 = 1
Is64(flags) == (flags \div 4) % 2 = 1
ReadLimits(r, Bound1(_), flags) ==
  LET i == Bound1(r)
      m == IF HasMax(flags) THEN Bound1(i) ELSE Yield(i, 0)
  IN  Yield(m, Limits(i.v, HasMax(flags), m.v, IsShared(flags), Is64(flags)))
ReadTable(r) ==
  LET t == ReadRefType(r)
      f == ReadU8(t)
      c == Check(f, /\ ~IsShared(f.v) /\ f.v < 8 /\ (Is64(f.v) => Feature(r, "memory64")))
      l == ReadLimits(c, ReadU32Leb, f.v)
  IN  Yield(l, Table(<<>>, t.v, l.v))
ReadMemory(r) ==
  LET f == ReadU8(r)
      c == Check(f, /\ f.v < 8 /\ (IsShared(f.v) => Feature(r, "threads"))
                    /\ (Is64(f.v) => Feature(r, "memory64")))
      l == ReadLimits(c, ReadAddress, f.v)
  IN  Yield(l, Memory(<<>>, l.v))
ReadGlobalHeader(r) ==
  LET t == ReadConcreteType(r)
      m == ReadU8(t)
  IN  Yield(Check(m, m.v <= 1), [type |-> t.v, mut |-> m.v])
ReadField(r) == ReadGlobalHeader(r)
ReadTagType(r) == LET a == ReadU8(r) IN ReadIndex(Check(a, a.v = 0))

ReadTypeEntry(r) ==
  LET f == IF Feature(r, "gc") THEN ReadType(r)
           ELSE LET b == ReadU8(r) IN Yield(Check(b, b.v = 96), FuncT)
      ps == CountedList(f, ReadConcreteType)
      rs == CountedList(ps, ReadConcreteType)
      fs == CountedList(f, ReadField)
      x  == ReadField(f)
  IN  CASE f.v = FuncT -> On(rs, OnFuncType(rs.d, ps.v, rs.v))
        [] f.v = StructT -> On(fs, OnFieldsType(fs.d, "struct", fs.v))
        [] f.v = ArrayT -> On(x, OnFieldsType(x.d, "array", <<x.v>>))
        [] OTHER -> Fail(f)
ReadTypeSection(r) == Counted(r, ReadTypeEntry)

ReadImport(r) ==
  LET m == ReadStr(r)
      f == ReadStr(m)
      k == ReadU8(f)
      s == ReadIndex(k)
      t == ReadTable(k)
      y == ReadMemory(k)
      g == ReadGlobalHeader(k)
      e == ReadTagType(Check(k, Feature(r, "exceptions")))
  IN  CASE ~k.ok -> k
        [] k.ok /\ k.v = 0 -> [On(s, OnImportFunc(s.d, m.v, f.v, s.v)) EXCEPT !.funcImports = @ + 1]
        [] k.ok /\ k.v = 1 -> On(t, OnImport(t.d, m.v, f.v, "table", "tables", t.v))
        [] k.ok /\ k.v = 2 -> On(y, OnImport(y.d, m.v, f.v, "memory", "memories", y.v))
        [] k.ok /\ k.v = 3 -> On(g, OnImport(g.d, m.v, f.v, "global", "globals",
                                             Global(<<>>, g.v.type, g.v.mut, <<>>)))
        [] k.ok /\ k.v = 4 -> On(e, OnImportTag(e.d, m.v, f.v, e.v))
        [] k.ok /\ k.v > 4 -> Fail(k)
ReadImportSection(r) == Counted(r, ReadImport)

ReadFunctionSection(r) ==
  LET a == ReadCount(r)
      Item(x) == LET s == ReadIndex(x) IN On(s, OnFunction(s.d, s.v))
  IN  Times([a EXCEPT !.sigs = a.v], a.v, Item)
ReadTableSection(r) ==
  LET Item(x) == LET t == ReadTable(x) IN On(t, Put(t.d, "tables", t.v)) IN Counted(r, Item)
ReadMemorySection(r) ==
  LET Item(x) == LET t == ReadMemory(x) IN On(t, Put(t.d, "memories", t.v)) IN Counted(r, Item)
ReadTagSection(r) ==
  LET Item(x) == LET s == ReadTagType(x) IN On(s, OnTagType(s.d, s.v)) IN Counted(r, Item)
ReadGlobalSection(r) ==
  LET Item(x) == LET g == ReadGlobalHeader(x)
                     e == ReadInitExpr(On(g, BeginGlobal(g.d, g.v.type, g.v.mut)))
                 IN  On(e, EndGlobalInitExpr(e.d))
  IN  Counted(r, Item)
KindOf == <<"func", "table", "memory", "global", "tag">>
ReadExternalKind(r) == LET a == ReadU8(r) IN Yield(Check(a, a.v < 5), KindOf[a.v + 1])
ReadExportSection(r) ==
  LET Item(x) == LET n == ReadStr(x)
                     k == ReadExternalKind(n)
                     i == ReadIndex(k)
                     c == Check(i, k.v = "tag" => Feature(r, "exceptions"))
                 IN  On(c, Put(c.d, "exports", Export(n.v, k.v, Idx(i.v))))
  IN  Counted(r, Item)
ReadStartSection(r) == LET a == ReadIndex(r) IN On(a, Put(a.d, "starts", Idx(a.v)))

ReadElemSegment(r) ==
  LET f  == LET a == ReadU32Leb(r) IN Check(a, a.v < 8)
      fl == f.v
      t  == IF ~Has(fl, SegPassive) /\ Has(fl, SegExplicitIndex) THEN ReadIndex(f) ELSE Yield(f, 0)
      b  == On(t, BeginElemSegment(t.d, t.v, fl))
      o  == ReadInitExpr(On(b, BeginElemExpr(b.d)))
      c  == IF Has(fl, SegPassive) THEN b ELSE On(o, EndElemSegmentInitExpr(o.d))
      k  == ReadExternalKind(c)
      y  == IF ~(Has(fl, SegPassive) \/ Has(fl, SegExplicitIndex)) THEN Yield(c, FuncRef)
            ELSE IF Has(fl, SegUseElemExprs) THEN ReadRefType(c)
            ELSE Yield(Check(k, k.v = "func"), FuncRef)
      One1(x) == LET p == On(x, BeginElemExpr(x.d))
                     i == ReadIndex(p)
                     q == On(i, OnOpcode(i.d, i.pos))
                     h == On(q, OnIndexExpr(q.d, "ref.func", i.v))
                     z == IF Has(fl, SegUseElemExprs) THEN ReadInitExpr(p) ELSE On(h, OnEndExpr(h.d))
                 IN  On(z, EndElemExpr(z.d))
  IN  Counted(On(y, OnElemSegmentElemType(y.d, y.v)), One1)
ReadElemSection(r) == Counted(r, ReadElemSegment)

ReadCodeEntry(r, i) ==
  LET s == ReadU32Leb(r)
      endOffset == s.pos + s.v
      b == On(s, BeginFunctionBody(s.d, r.funcImports + i, s.pos))
      L(x) == LET n == ReadIndex(x) t == ReadConcreteType(n) IN On(t, OnLocalDecl(t.d, n.v, t.v))
      l == Counted(b, L)
      x == IF ~l.ok THEN l ELSE IF r.opt.skip THEN [l EXCEPT !.pos = endOffset]
           ELSE ReadFunctionBody(l, endOffset)
  IN  On(x, EndFunctionBody(x.d))
RECURSIVE ReadCodeEntries(_, _, _)
ReadCodeEntries(r, i, n) ==
  IF i = n \/ ~r.ok THEN r ELSE ReadCodeEntries(ReadCodeEntry(r, i), i + 1, n)
ReadCodeSection(r) ==
  LET a == ReadCount(r)
      b == Check([a EXCEPT !.bodies = a.v], a.v = a.sigs)
  IN  ReadCodeEntries(On(b, OnFunctionBodyCount(b.d, a.v)), 0, a.v)

ReadDataSegment(r) ==
  LET a  == ReadU32Leb(r)
      f  == Check(a, (a.v # 0 => Feature(r, "bulk_memory")) /\ a.v < 8)
      m  == IF Has(f.v, SegExplicitIndex) THEN ReadIndex(f) ELSE Yield(f, 0)
      b  == On(m, BeginDataSegment(m.d, m.v, f.v))
      o  == ReadInitExpr(On(b, BeginElemExpr(b.d)))
      c  == IF Has(f.v, SegPassive) THEN b ELSE On(o, EndDataSegmentInitExpr(o.d))
      x  == ReadBytes(c)
  IN  On(x, OnDataSegmentData(x.d, x.v))
ReadDataSection(r) ==
  LET a == ReadCount(r)
  IN  Times(Check(a, a.dataCount \in {kInvalidIndex, a.v}), a.v, ReadDataSegment)
ReadDataCountSection(r) ==
  LET a == ReadIndex(r) IN IF a.ok THEN [a EXCEPT !.dataCount = a.v] ELSE a

-----------------------------------------------------------------------------
(* Custom sections                                                          *)

\* A subsection ends where its size says; read_end_ is restored behind it.
InSubsection(r, Body(_, _), type, size) ==
  LET stop == r.pos + size
      a == Check(r, stop <= r.end)
      b == Body([a EXCEPT !.end = stop], type)
  IN  IF ~a.ok THEN a
      ELSE [Check(b, b.pos = stop) EXCEPT !.end = r.end]
ToEnd(r) == IF r.ok THEN [r EXCEPT !.pos = r.end] ELSE r

\* Indexes that must grow: prev is <<>> before the first.
Growing(r, prev) == Check(r, IF prev = <<>> THEN TRUE ELSE r.v > prev[1])

RECURSIVE ReadFunctionNames(_, _, _)
ReadFunctionNames(r, n, prev) ==
  IF n = 0 \/ ~r.ok THEN r
  ELSE LET i == ReadIndex(r)
           c == Check(Growing(i, prev), i.v < NumTotalFuncs(r))
           s == ReadStr(c)
       IN  ReadFunctionNames(On(s, SetName(s.d, "funcs", i.v, s.v)), n - 1, <<i.v>>)
RECURSIVE ReadLocalNames(_, _, _, _)
ReadLocalNames(r, func, n, prev) ==
  IF n = 0 \/ ~r.ok THEN r
  ELSE LET i == ReadIndex(r)
           s == ReadStr(Growing(i, prev))
       IN  ReadLocalNames(On(s, OnLocalName(s.d, func, i.v, s.v)), func, n - 1, <<i.v>>)
RECURSIVE ReadLocalFuncs(_, _, _)
ReadLocalFuncs(r, n, prev) ==
  IF n = 0 \/ ~r.ok THEN r
  ELSE LET i == ReadIndex(r)
           c == ReadCount(Growing(Check(i, i.v < NumTotalFuncs(r)), prev))
           l == On(c, OnLocalNameLocalCount(c.d, i.v, c.v))
       IN  ReadLocalFuncs(ReadLocalNames(l, i.v, c.v, <<>>), n - 1, <<i.v>>)

NameSpace == [t \in {4, 5, 6, 7, 8, 9, 11} |->
  CASE t = 4 -> "types" [] t = 5 -> "tables" [] t = 6 -> "memories" [] t = 7 -> "globals"
    [] t = 8 -> "elems" [] t = 9 -> "datas" [] t = 11 -> "tags"]
ReadNameEntries(r, space) ==
  LET Item(x) == LET i == ReadIndex(x) s == ReadStr(i) IN On(s, OnNameEntry(s.d, space, i.v, s.v))
  IN  Counted(r, Item)
\* One name subsection; an empty one is skipped.
ReadNames(r, type) ==
  LET empty == r.pos = r.end
      s == ReadStr(r)
      c == ReadCount(r)
      n == On(c, OnFunctionNamesCount(c.d, c.v))
  IN  CASE type = 0 -> IF empty THEN r ELSE On(s, OnModuleName(s.d, s.v))
        [] type = 1 -> IF empty THEN r ELSE ReadFunctionNames(n, c.v, <<>>)
        [] type = 2 -> IF empty THEN r ELSE ReadLocalFuncs(c, c.v, <<>>)
        [] type \in DOMAIN NameSpace -> IF empty THEN r ELSE ToEnd(ReadNameEntries(r, NameSpace[type]))
        [] OTHER -> ToEnd(r)
RECURSIVE ReadNameSection(_, _)
ReadNameSection(r, prev) ==
  IF ~r.ok \/ r.pos >= r.end THEN r
  ELSE LET t == ReadU32Leb(r)
           z == ReadU32Leb(Growing(t, prev))
       IN  IF ~z.ok THEN z ELSE ReadNameSection(InSubsection(z, ReadNames, t.v, z.v), <<t.v>>)

RelocWithAddend == {3, 4, 5, 8, 9, 11, 14, 15, 16, 17, 21, 22, 23, 25}
RelocPlain == {0, 1, 2, 6, 7, 10, 12, 13, 18, 19, 20, 24, 26}
ReadReloc(r) ==
  LET t == ReadU32Leb(r)
      o == ReadU32Leb(t)
      i == ReadIndex(o)
      c == Check(i, t.v \in RelocWithAddend \cup RelocPlain)
      a == IF t.v \in RelocWithAddend THEN ReadS32Leb(c) ELSE c
  IN  IF a.ok THEN [a EXCEPT !.relocs[Len(a.relocs)].list =
                      Append(@, [type |-> t.v, offset |-> o.v, index |-> i.v])]
      ELSE a
ReadRelocSection(r) ==
  LET s == ReadU32Leb(r)
      n == ReadCount(s)
  IN  Times(IF n.ok THEN [n EXCEPT !.relocs = Append(@, [section |-> s.v, list |-> <<>>])] ELSE n,
            n.v, ReadReloc)

\* The sections of shared libraries and of the used features carry nothing
\* into the module: they are only read through.
Nums(r, n) == Times(r, n, ReadU32Leb)
ReadDylinkEntry(r, type) ==
  LET c == ReadU32Leb(r)
      Imp(x) == ReadU32Leb(ReadStr(ReadStr(x)))
      Exp(x) == ReadU32Leb(ReadStr(x))
  IN  CASE type = 1 -> Nums(r, 4)
        [] type = 2 -> Times(c, c.v, ReadStr)
        [] type = 3 -> Times(c, c.v, Exp)
        [] type = 4 -> Times(c, c.v, Imp)
        [] OTHER -> ToEnd(r)
RECURSIVE ReadDylink0Section(_)
ReadDylink0Section(r) ==
  IF ~r.ok \/ r.pos >= r.end THEN r
  ELSE LET t == ReadU32Leb(r) z == ReadU32Leb(t)
       IN  IF ~z.ok THEN z ELSE ReadDylink0Section(InSubsection(z, ReadDylinkEntry, t.v, z.v))
ReadDylinkSection(r) == LET c == ReadU32Leb(Nums(r, 4)) IN Times(c, c.v, ReadStr)
ReadTargetFeaturesSections(r) ==
  LET c == ReadU32Leb(r) Item(x) == ReadStr(ReadU8(x)) IN Times(c, c.v, Item)

\* One symbol: 0 function, 1 data, 2 global, 3 section, 4 tag, 5 table.
FlagSet(flags, bit) == (flags \div bit) % 2 = 1
ReadSymbol(r) ==
  LET k == ReadU32Leb(r)
      f == ReadU32Leb(k)
      undefined == FlagSet(f.v, 16)
      i == ReadU32Leb(f)
      s == IF ~undefined \/ FlagSet(f.v, 64) THEN ReadStr(i) ELSE Yield(i, <<>>)
      n == ReadStr(f)
      g == IF undefined THEN Yield(n, 0) ELSE ReadU32Leb(n)
      o == IF undefined THEN Yield(n, 0) ELSE ReadU32Leb(g)
      z == IF undefined THEN o ELSE ReadU32Leb(o)
  IN  CASE k.v = 0 -> On(s, OnFunctionSymbol(s.d, s.v, i.v))
        [] k.v = 2 -> On(s, SetName(s.d, "globals", i.v, s.v))
        [] k.v = 4 -> On(s, SetName(s.d, "tags", i.v, s.v))
        [] k.v = 5 -> On(s, SetName(s.d, "tables", i.v, s.v))
        [] k.v = 1 -> On(z, OnDataSymbol(z.d, undefined, n.v, g.v, o.v))
        [] k.v = 3 -> i
        [] OTHER -> f
ReadLinkingEntry(r, type) ==
  LET c == ReadU32Leb(r)
      Seg(x) == LET a == ReadU32Leb(ReadStr(x)) IN ReadU32Leb(Check(a, a.v < 32))
      Two(x) == ReadU32Leb(ReadU32Leb(x))
      Com(x) == LET n == ReadU32Leb(ReadU32Leb(ReadStr(x))) IN Times(n, n.v, Two)
  IN  CASE type = 8 -> Times(c, c.v, ReadSymbol)
        [] type = 5 -> Times(c, c.v, Seg)
        [] type = 6 -> Times(c, c.v, Two)
        [] type = 7 -> Times(c, c.v, Com)
        [] OTHER -> ToEnd(r)
RECURSIVE ReadLinkingEntries(_)
ReadLinkingEntries(r) ==
  IF ~r.ok \/ r.pos >= r.end THEN r
  ELSE LET t == ReadU32Leb(r) z == ReadU32Leb(t)
       IN  IF ~z.ok THEN z ELSE ReadLinkingEntries(InSubsection(z, ReadLinkingEntry, t.v, z.v))
ReadLinkingSection(r) == LET a == ReadU32Leb(r) IN ReadLinkingEntries(Check(a, a.v = 2))

\* The function index of code metadata is read as a count.
RECURSIVE ReadMetadataItems(_, _, _)
ReadMetadataItems(r, n, prev) ==
  IF n = 0 \/ ~r.ok THEN r
  ELSE LET o == ReadU32Leb(r)
           x == ReadBytes(Growing(o, prev))
       IN  ReadMetadataItems(On(x, OnCodeMetadata(x.d, o.v, x.v)), n - 1, <<o.v>>)
ReadMetadataIndex(r) == ReadCount(r)
RECURSIVE ReadMetadataFuncs(_, _, _)
ReadMetadataFuncs(r, n, prev) ==
  IF n = 0 \/ ~r.ok THEN r
  ELSE LET i == ReadMetadataIndex(r)
           c == Growing(Check(i, i.v >= r.funcImports /\ i.v < NumTotalFuncs(r)), prev)
           k == ReadCount(c)
       IN  ReadMetadataFuncs(ReadMetadataItems(On(k, OnCodeMetadataCount(k.d, i.v)), k.v, <<>>),
                             n - 1, <<i.v>>)
ReadCodeMetadataSection(r, name) ==
  LET n == ReadCount([r EXCEPT !.d.metaName = name]) IN ReadMetadataFuncs(n, n.v, <<>>)

StartsWith(s, p) == Len(p) <= Len(s) /\ SubSeq(s, 1, Len(p)) = p
\* Every custom section is kept whole, then read again if it is a known one.
ReadCustomSection(r) ==
  LET s == ReadStr(r)
      g == On(s, OnGenericCustomSection(s.d, s.v, SubSeq(s.data, s.pos + 1, s.end)))
      n == ReadNameSection(g, <<>>)
      name == s.v
      N == SectionNames
  IN  IF ~s.ok THEN s
      ELSE IF r.opt.names /\ name = N.name THEN (IF n.ok THEN [n EXCEPT !.named = TRUE] ELSE n)
      ELSE IF name = N.dylink0 THEN ReadDylink0Section(g)
      ELSE IF name = N.dylink THEN ReadDylinkSection(g)
      ELSE IF StartsWith(name, N.reloc) THEN ReadRelocSection(g)
      ELSE IF name = N.features THEN ReadTargetFeaturesSections(g)
      ELSE IF name = N.linking THEN ReadLinkingSection(g)
      ELSE IF Feature(r, "code_metadata") /\ StartsWith(name, N.metadata)
      THEN ReadCodeMetadataSection(g, SubSeq(name, Len(N.metadata) + 1, Len(name)))
      ELSE ToEnd(g)

-----------------------------------------------------------------------------
(* The module                                                               *)

ReadSectionBody(r, section) ==
  CASE section = "Custom" -> ReadCustomSection(r)   [] section = "Type" -> ReadTypeSection(r)
    [] section = "Import" -> ReadImportSection(r)   [] section = "Function" -> ReadFunctionSection(r)
    [] section = "Table" -> ReadTableSection(r)     [] section = "Memory" -> ReadMemorySection(r)
    [] section = "Global" -> ReadGlobalSection(r)   [] section = "Export" -> ReadExportSection(r)
    [] section = "Start" -> ReadStartSection(r)     [] section = "Elem" -> ReadElemSection(r)
    [] section = "Code" -> ReadCodeSection(r)       [] section = "Data" -> ReadDataSection(r)
    [] section = "Tag" -> ReadTagSection(r)         [] section = "DataCount" -> ReadDataCountSection(r)

\* One turn of the loop of ReadSections.  ok FALSE: ReadSections returned an
\* error; result FALSE: it goes on, but the module is rejected in the end.
SectionAllowed(r, section) ==
  /\ section = "Custom" \/ section \notin r.seen
  /\ r.end <= Len(r.data)
  /\ \/ r.last = "Invalid" \/ section = "Custom"
     \/ SectionOrder[section] > SectionOrder[r.last]
  /\ r.named => section = "Custom"
  /\ section = "Tag" => Feature(r, "exceptions")
  /\ section = "DataCount" => Feature(r, "bulk_memory")
ReadSection(r) ==
  LET size == Len(r.data)
      c == ReadU8(r)
      z == ReadU32Leb(c)
      open == [z EXCEPT !.end = z.pos + z.v]
      section == SectionOf[c.v + 1]
      known == section # "Custom"
      body == ReadSectionBody(open, section)
      done == body.ok /\ body.pos = open.end
      soft == section = "Custom" /\ ~r.opt.failCustom
      stop == r.opt.stop /\ ~soft
      next == [body EXCEPT !.ok = done \/ ~stop, !.end = size, !.pos = open.end, !.v = 0,
                           !.result = @ /\ (done \/ (soft /\ ~body.ok)),
                           !.seen = IF known THEN @ \cup {section} ELSE @,
                           !.last = IF known THEN section ELSE @]
  IN  IF ~z.ok THEN z
      ELSE IF c.v >= Len(SectionOf)
      THEN IF r.opt.stop THEN Fail(z) ELSE [z EXCEPT !.result = FALSE, !.pos = open.end]
      ELSE IF ~SectionAllowed(open, section) THEN [Fail(z) EXCEPT !.end = size]
      ELSE next

ReadHeader(r) ==
  LET a == ReadBytesWithSize(r, 4)
      b == ReadBytesWithSize(Check(a, a.v = <<0, 97, 115, 109>>), 4)
  IN  Check(b, b.v = <<1, 0, 0, 0>>)
AtEnd(r) == r.pos >= Len(r.data)
\* Mutated form: a missing Code section goes unnoticed.
Accepted_WithoutBodies(r) == r.ok /\ r.result /\ AtEnd(r)
Accepted(r) == r.ok /\ r.result /\ AtEnd(r) /\ r.sigs = r.bodies

RECURSIVE ReadSections(_)
ReadSections(r) == IF ~r.ok \/ AtEnd(r) THEN r ELSE ReadSections(ReadSection(r))
ReadBinary(bytes, opt) == ReadSections(ReadHeader(NewReader(bytes, opt)))
=============================================================================
