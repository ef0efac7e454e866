------------------------------- MODULE WasmIR -------------------------------
(***************************************************************************)
(* The module representation that every tool of the toolkit shares         *)
(* (include/wabt/ir.h, src/ir.cc) and the opcode table                     *)
(* (include/wabt/opcode.def).                                              *)
(*                                                                         *)
(* A name is the sequence of its character codes, <<>> when there is none; *)
(* a debug name starts with $ (36).  A Var is an index, <<"i", n>>, or a   *)
(* name, <<"n", s>>.  A value type is its (negative) binary code.  One or  *)
(* two opcodes stand for every group of opcodes that all tools treat alike.*)
(* Typed references with an index are left out.                            *)
(***************************************************************************)
EXTENDS Integers, Sequences, FiniteSets, SequencesExt

kInvalidIndex == -1

Idx(n)  == <<"i", n>>
Nam(s)  == <<"n", s>>
IsIndex(v) == v[1] = "i"
Dollar(s)  == <<36>> \o s

I32 == -1
I64 == -2
F32 == -3
F64 == -4
V128 == -5
FuncRef == -16
ExternRef == -17
ExnRef == -23
FuncT == -32
StructT == -33
ArrayT == -34
Void == -64

ValueTypes == {I32, I64, F32, F64, V128}
RefTypes   == {FuncRef, ExternRef, ExnRef}

\* <<text, prefix, code, ExprType, memory size>> of the opcodes that stand for
\* their groups; "end" and the other block delimiters have no ExprType.
OpRows == {
  <<"unreachable", 0, 0, "Unreachable", 0>>, <<"nop", 0, 1, "Nop", 0>>,
  <<"block", 0, 2, "Block", 0>>, <<"loop", 0, 3, "Loop", 0>>,
  <<"if", 0, 4, "If", 0>>, <<"else", 0, 5, "", 0>>, <<"try", 0, 6, "Try", 0>>,
  <<"catch", 0, 7, "", 0>>, <<"throw", 0, 8, "Throw", 0>>,
  <<"rethrow", 0, 9, "Rethrow", 0>>, <<"end", 0, 11, "", 0>>,
  <<"br", 0, 12, "Br", 0>>, <<"br_if", 0, 13, "BrIf", 0>>,
  <<"br_table", 0, 14, "BrTable", 0>>, <<"return", 0, 15, "Return", 0>>,
  <<"call", 0, 16, "Call", 0>>, <<"call_indirect", 0, 17, "CallIndirect", 0>>,
  <<"return_call", 0, 18, "ReturnCall", 0>>,
  <<"return_call_indirect", 0, 19, "ReturnCallIndirect", 0>>,
  <<"call_ref", 0, 20, "CallRef", 0>>, <<"delegate", 0, 24, "", 0>>,
  <<"catch_all", 0, 25, "", 0>>, <<"drop", 0, 26, "Drop", 0>>,
  <<"select", 0, 27, "Select", 0>>, <<"selectt", 0, 28, "Select", 0>>,
  <<"local.get", 0, 32, "LocalGet", 0>>, <<"local.set", 0, 33, "LocalSet", 0>>,
  <<"local.tee", 0, 34, "LocalTee", 0>>, <<"global.get", 0, 35, "GlobalGet", 0>>,
  <<"global.set", 0, 36, "GlobalSet", 0>>, <<"table.get", 0, 37, "TableGet", 0>>,
  <<"table.set", 0, 38, "TableSet", 0>>, <<"i32.load", 0, 40, "Load", 4>>,
  <<"i64.load8_s", 0, 48, "Load", 1>>, <<"i32.store8", 0, 58, "Store", 1>>,
  <<"memory.size", 0, 63, "MemorySize", 0>>, <<"memory.grow", 0, 64, "MemoryGrow", 0>>,
  <<"i32.const", 0, 65, "Const", 0>>, <<"i64.const", 0, 66, "Const", 0>>,
  <<"f32.const", 0, 67, "Const", 0>>, <<"f64.const", 0, 68, "Const", 0>>,
  <<"i32.eqz", 0, 69, "Convert", 0>>, <<"i32.lt_s", 0, 72, "Compare", 0>>,
  <<"i32.clz", 0, 103, "Unary", 0>>, <<"i32.add", 0, 106, "Binary", 0>>,
  <<"i32.extend8_s", 0, 192, "Unary", 0>>, <<"ref.null", 0, 208, "RefNull", 0>>,
  <<"ref.is_null", 0, 209, "RefIsNull", 0>>, <<"ref.func", 0, 210, "RefFunc", 0>>}

PrefixedOpRows == {
  <<"i32.trunc_sat_f32_s", 252, 0, "Convert", 0>>,
  <<"memory.init", 252, 8, "MemoryInit", 0>>, <<"data.drop", 252, 9, "DataDrop", 0>>,
  <<"memory.copy", 252, 10, "MemoryCopy", 0>>, <<"memory.fill", 252, 11, "MemoryFill", 0>>,
  <<"table.init", 252, 12, "TableInit", 0>>, <<"elem.drop", 252, 13, "ElemDrop", 0>>,
  <<"table.copy", 252, 14, "TableCopy", 0>>, <<"table.grow", 252, 15, "TableGrow", 0>>,
  <<"table.size", 252, 16, "TableSize", 0>>, <<"table.fill", 252, 17, "TableFill", 0>>,
  <<"v128.load", 253, 0, "Load", 16>>, <<"v128.load8_splat", 253, 7, "LoadSplat", 1>>,
  <<"v128.const", 253, 12, "Const", 0>>, <<"i8x16.shuffle", 253, 13, "SimdShuffleOp", 0>>,
  <<"i8x16.extract_lane_s", 253, 21, "SimdLaneOp", 0>>,
  <<"v128.bitselect", 253, 82, "Ternary", 0>>, <<"v128.load8_lane", 253, 84, "SimdLoadLane", 1>>,
  <<"v128.store8_lane", 253, 88, "SimdStoreLane", 1>>,
  <<"v128.load32_zero", 253, 92, "LoadZero", 4>>, <<"i32x4.add", 253, 174, "Binary", 0>>,
  <<"memory.atomic.notify", 254, 0, "AtomicNotify", 4>>,
  <<"memory.atomic.wait32", 254, 1, "AtomicWait", 4>>, <<"atomic.fence", 254, 3, "AtomicFence", 0>>,
  <<"i32.atomic.load", 254, 16, "AtomicLoad", 4>>, <<"i32.atomic.store", 254, 23, "AtomicStore", 4>>,
  <<"i32.atomic.rmw.add", 254, 30, "AtomicRmw", 4>>,
  <<"i32.atomic.rmw.cmpxchg", 254, 72, "AtomicRmwCmpxchg", 4>>}

AllRows == OpRows \cup PrefixedOpRows
Opcodes == {r[1] : r \in AllRows}
RowOf   == [o \in Opcodes |-> CHOOSE r \in AllRows : r[1] = o]
Prefix(o)  == RowOf[o][2]
Code(o)    == RowOf[o][3]
ExprType(o) == RowOf[o][4]
GetMemorySize(o) == RowOf[o][5]

\* Opcode::FromCode: the opcode of a prefix and a code, "" when there is none.
FromCode == [pc \in {<<r[2], r[3]>> : r \in AllRows} |->
               (CHOOSE r \in AllRows : <<r[2], r[3]>> = pc)[1]]
IsOpcode(prefix, code) == <<prefix, code>> \in DOMAIN FromCode

NaturalAlignment == -1
GetAlignment(o, align) == IF align = NaturalAlignment THEN GetMemorySize(o) ELSE align

\* v128.load32_zero is missing from the SIMD opcodes Opcode::IsEnabled lists.
IsSimd(o) == Prefix(o) = 253 /\ o # "v128.load32_zero"

\* Opcode::IsEnabled: the feature an opcode belongs to, "" for the ones it does
\* not list, which are always enabled.
FeatureOf(o) ==
  CASE o \in {"try", "catch", "delegate", "throw", "rethrow"} -> "exceptions"
    [] o \in {"return_call", "return_call_indirect"} -> "tail_call"
    [] o = "i32.trunc_sat_f32_s" -> "sat_float_to_int"
    [] o = "i32.extend8_s" -> "sign_extension"
    [] o = "call_ref" -> "function_references"
    [] Prefix(o) = 254 -> "threads"
    [] IsSimd(o) -> "simd"
    [] o \in {"memory.init", "data.drop", "memory.copy", "memory.fill",
              "table.init", "elem.drop", "table.copy"} -> "bulk_memory"
    [] o \in {"table.get", "table.set", "table.grow", "table.size",
              "ref.null", "ref.is_null"} -> "reference_types"
    [] OTHER -> ""
IsEnabled(o, features) == FeatureOf(o) \in features \cup {""}

-----------------------------------------------------------------------------
(* Expressions.  im holds the immediates in the order of the C++ fields.    *)

Sig(params, results) == [params |-> params, results |-> results]
NoSig == Sig(<<>>, <<>>)
Decl(hasType, var, sig) == [hasType |-> hasType, var |-> var, sig |-> sig]
TypeDecl(i, sig) == Decl(TRUE, Idx(i), sig)
NoDecl == Decl(FALSE, Idx(kInvalidIndex), NoSig)

Plain(o, im) == [k |-> ExprType(o), op |-> o, im |-> im]
BlockExpr(o, label, decl, body) ==
  [k |-> ExprType(o), op |-> o, label |-> label, decl |-> decl, body |-> body]
IfExpr(label, decl, body, alt) ==
  [k |-> "If", op |-> "if", label |-> label, decl |-> decl, body |-> body, alt |-> alt]
\* A catch whose tag is <<>> is a catch_all; kind is Plain, Catch or Delegate.
TryExpr(label, decl, body, kind, catches, delegate) ==
  [k |-> "Try", op |-> "try", label |-> label, decl |-> decl, body |-> body,
   kind |-> kind, catches |-> catches, delegate |-> delegate]
Catch(tag, body) == [tag |-> tag, body |-> body]
MetadataExpr(name, data) == [k |-> "CodeMetadata", op |-> "", im |-> <<name, data>>]

-----------------------------------------------------------------------------
(* Modules.  funcs, tables, memories, globals and tags list the imported    *)
(* ones first, in the order of imports; num counts those of each kind.      *)

Kinds == {"func", "table", "memory", "global", "tag"}

EmptyModule ==
  [name |-> <<>>, types |-> <<>>, imports |-> <<>>, funcs |-> <<>>, tables |-> <<>>,
   memories |-> <<>>, globals |-> <<>>, tags |-> <<>>, exports |-> <<>>,
   starts |-> <<>>, elems |-> <<>>, datas |-> <<>>, customs |-> <<>>]

FuncType(name, sig) == [name |-> name, kind |-> "func", sig |-> sig, fields |-> <<>>]
\* bindings: the local names, <<name, local index>>.
Func(name, decl, locals, body) ==
  [name |-> name, decl |-> decl, locals |-> locals, bindings |-> {}, body |-> body]
Limits(initial, hasMax, max, shared, is64) ==
  [initial |-> initial, hasMax |-> hasMax, max |-> max, shared |-> shared, is64 |-> is64]
Table(name, type, limits) == [name |-> name, type |-> type, limits |-> limits]
Memory(name, limits) == [name |-> name, limits |-> limits]
Global(name, type, mut, init) == [name |-> name, type |-> type, mut |-> mut, init |-> init]
Tag(name, decl) == [name |-> name, decl |-> decl]
Import(module, field, kind) == [module |-> module, field |-> field, kind |-> kind]
Export(name, kind, var) == [name |-> name, kind |-> kind, var |-> var]
Elem(name, kind, table, type, offset, exprs) ==
  [name |-> name, kind |-> kind, table |-> table, type |-> type, offset |-> offset, exprs |-> exprs]
Data(name, kind, memory, offset, bytes) ==
  [name |-> name, kind |-> kind, memory |-> memory, offset |-> offset, data |-> bytes]

NumImports(m, kind) == Len(SelectSeq(m.imports, LAMBDA i : i.kind = kind))
Defined(m, kind, all) == SubSeq(all, NumImports(m, kind) + 1, Len(all))
\* The import whose definition is entry n (from 1) of its index space.
EntryOfImport(m, i) == Len(SelectSeq(SubSeq(m.imports, 1, i), LAMBDA j : j.kind = m.imports[i].kind))

\* BindingHash::FindIndex: an index stands for itself, a name for the entry
\* that bears it.
FindIndex(all, var) ==
  IF IsIndex(var) THEN var[2]
  ELSE LET hits == {i \in DOMAIN all : all[i].name = var[2]}
       IN  IF hits = {} THEN kInvalidIndex ELSE (CHOOSE i \in hits : \A j \in hits : i <= j) - 1

GetFuncIndex(m, var)   == FindIndex(m.funcs, var)
GetTableIndex(m, var)  == FindIndex(m.tables, var)
GetMemoryIndex(m, var) == FindIndex(m.memories, var)
GetGlobalIndex(m, var) == FindIndex(m.globals, var)
GetTagIndex(m, var)    == FindIndex(m.tags, var)
GetDataSegmentIndex(m, var) == FindIndex(m.datas, var)
GetElemSegmentIndex(m, var) == FindIndex(m.elems, var)

\* Module::GetFuncTypeIndex(sig): the first function type of that signature.
GetFuncTypeIndexBySig(m, sig) ==
  LET hits == {i \in DOMAIN m.types : m.types[i].kind = "func" /\ m.types[i].sig = sig}
  IN  IF hits = {} THEN kInvalidIndex ELSE (CHOOSE i \in hits : \A j \in hits : i <= j) - 1
GetFuncTypeIndex(m, decl) ==
  IF decl.hasType THEN FindIndex(m.types, decl.var) ELSE GetFuncTypeIndexBySig(m, decl.sig)

GetNumParamsAndLocals(f) == Len(f.decl.sig.params) + Len(f.locals)
\* MakeTypeBindingReverseMapping: the name of every parameter and local, <<>>
\* for none.
LocalNames(f) ==
  [i \in 1 .. GetNumParamsAndLocals(f) |->
     LET hits == {b \in f.bindings : b[2] = i - 1}
     IN  IF hits = {} THEN <<>> ELSE (CHOOSE b \in hits : TRUE)[1]]
\* Func::GetLocalIndex
LocalIndex(f, var) ==
  IF IsIndex(var) THEN var[2]
  ELSE LET hits == {b \in f.bindings : b[1] = var[2]}
       IN  IF hits = {} THEN kInvalidIndex ELSE (CHOOSE b \in hits : TRUE)[2]

\* LocalTypes::Set: runs of equal types become one declaration.
RECURSIVE LocalDecls(_)
LocalDecls(types) ==
  IF types = <<>> THEN <<>>
  ELSE LET run == CHOOSE n \in 1 .. Len(types) :
                    /\ \A i \in 1 .. n : types[i] = types[1]
                    /\ n < Len(types) => types[n + 1] # types[1]
       IN  <<<<types[1], run>>>> \o LocalDecls(SubSeq(types, run + 1, Len(types)))

\* Segment flags (SegmentFlags in include/wabt/common.h).
SegPassive == 1
SegExplicitIndex == 2
SegDeclared == 3
SegUseElemExprs == 4
Has(flags, bit) == (flags \div bit) % 2 = 1

ElemGetFlags(m, s) ==
  LET base == CASE s.kind = "active" ->
                     IF s.type # FuncRef \/ GetTableIndex(m, s.table) # 0 THEN SegExplicitIndex ELSE 0
                [] s.kind = "passive" -> SegPassive
                [] s.kind = "declared" -> SegDeclared
      allRefFunc == s.type = FuncRef /\ \A i \in DOMAIN s.exprs : s.exprs[i][1].k = "RefFunc"
  IN  IF allRefFunc THEN base ELSE base + SegUseElemExprs

DataGetFlags(m, s) ==
  (IF s.kind = "passive" THEN SegPassive ELSE 0)
  + (IF GetMemoryIndex(m, s.memory) # 0 THEN SegExplicitIndex ELSE 0)
=============================================================================
