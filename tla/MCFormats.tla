------------------------------ MODULE MCFormats ------------------------------
(* The modules that the runs of Formats start from.                         *)
EXTENDS Formats

FeatureSet == {"exceptions", "tail_call", "sat_float_to_int", "sign_extension", "function_references",
           "threads", "simd", "bulk_memory", "reference_types", "multi_value", "multi_memory",
           "code_metadata", "gc", "memory64", "mutable_globals"}

N(c) == <<97 + c>>                                  \* "a", "b", ...
NN(c) == Dollar(N(c))
V0 == TypeDecl(0, NoSig)
B0 == Decl(FALSE, Idx(kInvalidIndex), NoSig)
BR == Decl(FALSE, Idx(kInvalidIndex), Sig(<<>>, <<I32>>))
P(o) == Plain(o, <<>>)
I(o, n) == Plain(o, <<Idx(n)>>)
C(n) == Plain("i32.const", <<n>>)
L(o, n) == Plain(o, <<GetMemorySize(o), n, Idx(0)>>)

\* Instructions in dead code, where operands of any type are at hand.
Dead(es) == [i \in 1 .. 2 * Len(es) + 1 |-> IF i % 2 = 1 THEN P("unreachable") ELSE es[i \div 2]]

Blk(es) == BlockExpr("block", <<>>, B0, es)
Binding(f, b) == [f EXCEPT !.bindings = b]
Lim(i) == Limits(i, FALSE, 0, FALSE, FALSE)
LimMax(i, m) == Limits(i, TRUE, m, FALSE, FALSE)

\* Control flow, exceptions, names.
ControlBody ==
  Dead(<< P("nop"), Blk(<<C(1), I("br_if", 0), C(1), P("drop")>>),
     BlockExpr("loop", <<>>, BR, <<C(-1), C(200), P("i32.add"), I("br", 0)>>),
     P("drop"),
     IfExpr(<<>>, TypeDecl(1, Sig(<<I32>>, <<I32>>)), <<P("i32.clz")>>, <<P("i32.eqz")>>),
     Plain("br_table", <<<<Idx(0), Idx(0)>>, Idx(0)>>),
     TryExpr(<<>>, B0, <<I("throw", 0)>>, "Catch",
             <<Catch(<<Idx(0)>>, <<I("rethrow", 0)>>), Catch(<<>>, <<P("unreachable")>>)>>, <<>>),
     TryExpr(<<>>, B0, <<C(0), I("call", 1), P("drop")>>, "Delegate", <<>>, Idx(0)),
     TryExpr(<<>>, B0, <<>>, "Plain", <<>>, <<>>),
     Plain("call_indirect", <<V0, Idx(0)>>), I("local.get", 0), I("local.set", 1), I("local.tee", 3),
     I("global.get", 0), I("global.set", 0), Plain("select", <<<<>>>>),
     Plain("selectt", <<<<I32>>>>), P("return") >>)
Control ==
  [EmptyModule EXCEPT
     !.name = NN(12),
     !.types = <<FuncType(NN(0), NoSig), FuncType(<<>>, Sig(<<I32>>, <<I32>>))>>,
     !.imports = <<Import(N(1), N(2), "func"), Import(N(1), N(3), "table"), Import(N(1), N(4), "memory"),
                   Import(N(1), N(5), "global"), Import(N(1), N(6), "tag")>>,
     !.funcs = <<Func(NN(5), V0, <<>>, <<>>),
                 Binding(Func(NN(6), TypeDecl(1, Sig(<<I32>>, <<I32>>)), <<I32, I32, I64>>, ControlBody),
                         {<<NN(0), 0>>, <<NN(1), 2>>})>>,
     !.tables = <<Table(NN(7), FuncRef, LimMax(1, 2))>>,
     !.memories = <<Memory(<<>>, LimMax(1, 1))>>,
     !.globals = <<Global(NN(8), I32, 1, <<>>), Global(<<>>, F64, 0, <<Plain("f64.const", <<<<1, 2, 3, 4, 5, 6, 7, 8>>>>)>>)>>,
     !.tags = <<Tag(NN(9), V0), Tag(NN(10), V0)>>,
     !.exports = <<Export(N(0), "func", Idx(1)), Export(N(2), "tag", Idx(0)), Export(N(3), "table", Idx(0)),
                   Export(N(4), "memory", Idx(0)), Export(N(5), "global", Idx(1))>>,
     !.starts = <<Idx(0)>>]

\* Memory, SIMD and atomic instructions.
MemOps == <<"i32.load", "i64.load8_s", "i32.store8", "v128.load", "v128.load8_splat", "v128.load32_zero",
            "memory.atomic.notify", "memory.atomic.wait32", "i32.atomic.load", "i32.atomic.store",
            "i32.atomic.rmw.add", "i32.atomic.rmw.cmpxchg">>
Bytes16 == [i \in 1 .. 16 |-> i]
MemoryModule ==
  [EmptyModule EXCEPT
     !.types = <<FuncType(<<>>, NoSig), [name |-> <<>>, kind |-> "struct", sig |-> NoSig,
                                         fields |-> <<[type |-> I32, mut |-> 1], [type |-> I64, mut |-> 0]>>],
                 [name |-> <<>>, kind |-> "array", sig |-> NoSig, fields |-> <<[type |-> F32, mut |-> 1]>>]>>,
     !.funcs = <<Func(<<>>, V0, <<V128>>,
                   Dead([i \in DOMAIN MemOps |-> L(MemOps[i], 128 * i)]
                   \o <<Plain("v128.load8_lane", <<1, 0, Idx(0), 3>>), Plain("v128.store8_lane", <<1, 0, Idx(1), 3>>),
                        Plain("v128.const", <<Bytes16>>), Plain("i8x16.shuffle", <<Bytes16>>),
                        Plain("i8x16.extract_lane_s", <<2>>), P("v128.bitselect"), P("i32x4.add"),
                        Plain("atomic.fence", <<0>>), P("i32.trunc_sat_f32_s"), P("i32.extend8_s"),
                        P("i32.lt_s"), Plain("f32.const", <<<<9, 8, 7, 6>>>>), Plain("i64.const", <<-70>>),
                        I("memory.size", 1), I("memory.grow", 0), Plain("i32.load", <<2, 0, Idx(1)>>)>>))>>,
     !.memories = <<Memory(NN(0), Limits(1, TRUE, 2, TRUE, FALSE)), Memory(NN(0) \o <<46, 49>>, Lim(0))>>]

\* Segments, tables and references.
RF(n) == <<I("ref.func", n)>>
RN == <<Plain("ref.null", <<FuncRef>>)>>
BulkModule ==
  [EmptyModule EXCEPT
     !.types = <<FuncType(<<>>, NoSig)>>,
     !.funcs = <<Func(NN(0), V0, <<>>,
                  Dead(<<Plain("memory.init", <<Idx(1), Idx(0)>>), I("data.drop", 1),
                    Plain("memory.copy", <<Idx(0), Idx(0)>>), I("memory.fill", 0),
                    Plain("table.init", <<Idx(0), Idx(2)>>), I("elem.drop", 4),
                    Plain("table.copy", <<Idx(1), Idx(0)>>), I("table.grow", 1), I("table.size", 0),
                    I("table.fill", 0), I("table.get", 1), I("table.set", 0), P("ref.is_null"),
                    Plain("ref.null", <<ExternRef>>), I("return_call", 0),
                    Plain("return_call_indirect", <<V0, Idx(1)>>)>>)
                  \o <<I("ref.func", 0), P("call_ref")>>)>>,
     !.tables = <<Table(<<>>, FuncRef, LimMax(1, 9)), Table(NN(1), FuncRef, Lim(2))>>,
     !.memories = <<Memory(<<>>, Lim(1))>>,
     !.elems = <<Elem(<<>>, "active", Idx(0), FuncRef, <<C(0)>>, <<RF(0)>>),
                 Elem(NN(2), "active", Idx(1), FuncRef, <<C(1)>>, <<RF(0), RN>>),
                 Elem(<<>>, "passive", Idx(0), FuncRef, <<>>, <<RN>>),
                 Elem(<<>>, "declared", Idx(0), FuncRef, <<>>, <<RF(0)>>),
                 Elem(<<>>, "passive", Idx(0), ExternRef, <<>>, <<<<Plain("ref.null", <<ExternRef>>)>>>>)>>,
     !.datas = <<Data(NN(3), "active", Idx(0), <<C(8)>>, <<1, 2>>), Data(<<>>, "passive", Idx(0), <<>>, <<3>>)>>,
     !.customs = <<[name |-> <<100, 121, 48>>, data |-> <<1, 4, 0, 0, 0, 0, 2, 3, 1, 1, 97>>],
                   [name |-> <<100, 121, 108>>, data |-> <<0, 0, 0, 0, 1, 1, 98>>],
                   [name |-> <<102, 101, 97, 116>>, data |-> <<1, 43, 1, 99>>],
                   [name |-> N(25), data |-> <<9, 9>>]>>]

\* A body and a section long enough that their size fields grow, with
\* relocations on both sides of it; two functions.
Calls(n) == [i \in 1 .. n |-> I("call", i % 2)]
RelocModule ==
  [EmptyModule EXCEPT
     !.types = <<FuncType(<<>>, NoSig)>>,
     !.imports = <<Import(N(1), N(2), "func")>>,
     !.funcs = <<Func(<<>>, V0, <<>>, <<>>), Func(NN(1), V0, <<>>, <<I("global.get", 0), P("drop")>> \o Calls(22)),
                 Func(NN(2), V0, <<>>, <<C(0), Plain("call_indirect", <<V0, Idx(0)>>), I("call", 2)>>)>>,
     !.tables = <<Table(NN(3), FuncRef, Lim(1))>>,
     !.memories = <<Memory(<<>>, Lim(1))>>,
     !.globals = <<Global(NN(4), I32, 1, <<C(3)>>)>>,
     !.exports = <<Export(N(7), "func", Idx(2))>>,
     !.datas = <<Data(<<>>, "active", Idx(0), <<C(0)>>, <<1>>)>>]

\* Code metadata on one-byte opcodes of two functions.
Meta(b) == MetadataExpr(N(3), <<b>>)
MetaModule ==
  [EmptyModule EXCEPT
     !.types = <<FuncType(<<>>, NoSig)>>,
     !.imports = <<Import(N(1), N(2), "func")>>,
     !.funcs = <<Func(<<>>, V0, <<>>, <<>>),
                 Func(<<>>, V0, <<I32>>, <<P("nop"), Meta(1), P("nop"), Blk(<<Meta(2), I("call", 0)>>)>>),
                 Func(<<>>, V0, <<>>, <<Meta(3), P("nop")>>)>>,
     !.memories = <<Memory(<<>>, Lim(1))>>,
     !.datas = <<Data(<<>>, "active", Idx(0), <<C(0)>>, <<1>>)>>]

MCProfiles == {"control", "memory", "bulk", "reloc", "meta"}
ProfileTable == [p \in MCProfiles |->
  CASE p = "control" -> [mod |-> Control, w |-> WriteOptions(TRUE, FALSE, TRUE, FeatureSet)]
    [] p = "memory"  -> [mod |-> MemoryModule, w |-> WriteOptions(TRUE, FALSE, TRUE, FeatureSet)]
    [] p = "bulk"    -> [mod |-> BulkModule, w |-> WriteOptions(FALSE, FALSE, TRUE, FeatureSet)]
    [] p = "reloc"   -> [mod |-> RelocModule, w |-> WriteOptions(TRUE, TRUE, FALSE, FeatureSet)]
    [] p = "meta"    -> [mod |-> MetaModule, w |-> WriteOptions(TRUE, FALSE, FALSE, FeatureSet)]]
MCProfileOf(p) == LET t == ProfileTable IN t[p]
MCWritten(m, w) == LET x == WriteModule(m, w) IN x.out
MCSectionRead(x) == LET y == R!ReadSection(x) IN y
MCValidates(m, features) == LET y == V!ValidateModule(m, features) IN y
MCDamage(b) == {(b + 1) % 256, 255}
=============================================================================
