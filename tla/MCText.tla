------------------------------- MODULE MCText --------------------------------
(* The modules that the runs of Text start from.                            *)
EXTENDS Text

FeatureSet == {"exceptions", "tail_call", "sat_float_to_int", "sign_extension", "function_references",
               "threads", "simd", "bulk_memory", "reference_types", "multi_value", "multi_memory",
               "code_metadata", "gc", "memory64", "annotations"}

N(c) == <<97 + c>>                                  \* "a", "b", ...
NN(c) == Dollar(N(c))
V0 == TypeDecl(0, NoSig)
B0 == Decl(FALSE, Idx(kInvalidIndex), NoSig)
BR == Decl(FALSE, Idx(kInvalidIndex), Sig(<<>>, <<I32>>))
P(o) == Plain(o, <<>>)
I(o, n) == Plain(o, <<Idx(n)>>)
C(n) == Plain("i32.const", <<n>>)
L(o, n) == Plain(o, <<GetMemorySize(o), n, Idx(0)>>)
Blk(es) == BlockExpr("block", <<>>, B0, es)
Binding(f, b) == [f EXCEPT !.bindings = b]
Lim(i) == Limits(i, FALSE, 0, FALSE, FALSE)
LimMax(i, m) == Limits(i, TRUE, m, FALSE, FALSE)
II == Sig(<<I32>>, <<I32>>)

\* Control flow, exceptions, operands that fold and operands that do not.
ControlBodyA ==
  << P("nop"), Blk(<<C(1), I("br_if", 0), I("local.get", 1), P("drop")>>),
     BlockExpr("loop", NN(3), BR, <<C(-1), C(200), P("i32.add"), I("br", 0)>>),
     P("drop"), C(0), C(5), I("local.get", 0),
     IfExpr(<<>>, TypeDecl(1, II), <<P("i32.clz")>>, <<P("i32.eqz"), I("br", 1)>>),
     P("drop"), Blk(<<C(7), Plain("br_table", <<<<Idx(0), Idx(1)>>, Idx(0)>>)>>) >>
ControlBodyB ==
  << TryExpr(<<>>, B0, <<I("throw", 0)>>, "Catch",
             <<Catch(<<Idx(1)>>, <<I("rethrow", 0)>>), Catch(<<>>, <<P("unreachable")>>)>>, <<>>),
     TryExpr(<<>>, B0, <<TryExpr(NN(2), B0, <<I("call", 1)>>, "Delegate", <<>>, Idx(0))>>, "Catch",
             <<Catch(<<>>, <<>>)>>, <<>>),
     TryExpr(<<>>, B0, <<>>, "Plain", <<>>, <<>>) >>
ControlBodyC ==
  << C(3), Plain("call_indirect", <<V0, Idx(0)>>), I("local.get", 0), I("local.set", 1), I("local.tee", 2),
     I("global.get", 0), I("global.set", 0), C(1), Plain("select", <<<<>>>>), P("return") >>
Control ==
  [EmptyModule EXCEPT
     !.name = NN(12),
     !.types = <<FuncType(NN(0), NoSig), FuncType(<<>>, II)>>,
     !.imports = <<Import(N(1), N(2), "func"), Import(N(1), N(3), "table"), Import(N(1), N(4), "memory"),
                   Import(N(1), N(5), "global"), Import(N(1), N(6), "tag")>>,
     !.funcs = <<Func(<<>>, V0, <<>>, <<>>),
                 Binding(Func(NN(6), TypeDecl(1, II), <<I32, I32, I64>>, ControlBodyA), {<<NN(0), 0>>, <<NN(1), 2>>}),
                 Func(<<>>, V0, <<>>, ControlBodyB), Func(NN(4), TypeDecl(1, II), <<I32, I32>>, ControlBodyC)>>,
     !.tables = <<Table(NN(7), FuncRef, LimMax(1, 2))>>,
     !.memories = <<Memory(<<>>, LimMax(1, 1))>>,
     !.globals = <<Global(NN(8), I32, 1, <<>>), Global(<<>>, F64, 0, <<Plain("f64.const", <<<<1, 2, 3, 4, 5, 6, 7, 8>>>>)>>)>>,
     !.tags = <<Tag(NN(9), V0), Tag(NN(10), V0)>>,
     !.exports = <<Export(N(0), "func", Idx(1)), Export(N(2), "tag", Idx(0)), Export(N(3), "table", Idx(0)),
                   Export(N(4), "memory", Idx(0)), Export(N(5), "global", Idx(1)), Export(<<9, 34, 92, 200>>, "func", Idx(1))>>,
     !.starts = <<Idx(0)>>]

\* Memory, SIMD and atomic instructions; names that clash with generated ones.
MemOps == <<"i32.load", "i64.load8_s", "i32.store8", "v128.load", "v128.load8_splat", "v128.load32_zero",
            "memory.atomic.notify", "memory.atomic.wait32", "i32.atomic.load", "i32.atomic.store",
            "i32.atomic.rmw.add", "i32.atomic.rmw.cmpxchg">>
Bytes16 == [i \in 1 .. 16 |-> i]
MemoryModule ==
  [EmptyModule EXCEPT
     !.types = <<FuncType(<<>>, NoSig), [name |-> <<>>, kind |-> "struct", sig |-> NoSig,
                                         fields |-> <<[type |-> I32, mut |-> 1], [type |-> I64, mut |-> 0]>>],
                 [name |-> <<>>, kind |-> "array", sig |-> NoSig, fields |-> <<[type |-> F32, mut |-> 1]>>]>>,
     !.imports = <<Import(N(0), N(1), "func"), Import(N(0), N(1), "func")>>,
     !.funcs = <<Func(<<>>, V0, <<>>, <<>>), Func(<<>>, V0, <<>>, <<>>),
                 Func(Dollar(<<102, 51>>), V0, <<>>, <<Plain("memory.copy", <<Idx(0), Idx(1)>>), Plain("memory.copy", <<Idx(1), Idx(0)>>)>>),
                 Func(<<>>, V0, <<V128>>, [i \in 1 .. 6 |-> L(MemOps[i], 128 * i)]),
                 Func(<<>>, V0, <<>>, [i \in 1 .. 6 |-> L(MemOps[i + 6], i)]),
                 Func(<<>>, V0, <<>>,
                      <<Plain("v128.load8_lane", <<1, 0, Idx(0), 3>>), Plain("v128.store8_lane", <<1, 4, Idx(1), 3>>),
                        Plain("v128.const", <<Bytes16>>), Plain("i8x16.shuffle", <<Bytes16>>),
                        Plain("i8x16.extract_lane_s", <<2>>), P("v128.bitselect"), P("i32x4.add")>>),
                 Func(<<>>, V0, <<>>,
                      <<Plain("atomic.fence", <<0>>), P("i32.trunc_sat_f32_s"), P("i32.extend8_s"),
                        P("i32.lt_s"), Plain("f32.const", <<<<9, 8, 7, 6>>>>), Plain("i64.const", <<-70>>),
                        I("memory.size", 1), I("memory.grow", 0), Plain("i32.load", <<2, 0, Idx(1)>>), I("call", 3)>>)>>,
     !.memories = <<Memory(NN(0), Limits(1, TRUE, 2, TRUE, FALSE)), Memory(NN(0) \o <<46, 49>>, Lim(0))>>]

\* Segments, tables and references.
RF(n) == <<I("ref.func", n)>>
RN == <<Plain("ref.null", <<FuncRef>>)>>
BulkModule ==
  [EmptyModule EXCEPT
     !.types = <<FuncType(<<>>, NoSig)>>,
     !.funcs = <<Func(NN(0), V0, <<>>,
                  <<Plain("memory.init", <<Idx(1), Idx(0)>>), I("data.drop", 1),
                    Plain("memory.copy", <<Idx(0), Idx(0)>>), I("memory.fill", 0),
                    Plain("table.init", <<Idx(0), Idx(2)>>), Plain("table.init", <<Idx(1), Idx(0)>>), I("elem.drop", 0)>>),
                 Func(<<>>, V0, <<>>, <<
                    Plain("table.copy", <<Idx(1), Idx(0)>>), I("table.grow", 1), I("table.size", 0),
                    I("table.fill", 0), I("table.get", 1), I("table.set", 0), P("ref.is_null"),
                    I("ref.func", 0), Plain("ref.null", <<ExternRef>>), Plain("selectt", <<<<I32>>>>),
                    I("return_call", 0), Plain("return_call_indirect", <<V0, Idx(0)>>)>>)>>,
     !.tables = <<Table(<<>>, FuncRef, LimMax(1, 9)), Table(NN(1), FuncRef, Lim(2))>>,
     !.memories = <<Memory(<<>>, Lim(1))>>,
     !.elems = <<Elem(<<>>, "active", Idx(0), FuncRef, <<C(0)>>, <<RF(0)>>),
                 Elem(NN(2), "active", Idx(1), FuncRef, <<C(1)>>, <<RF(0), RN>>),
                 Elem(<<>>, "passive", Idx(0), FuncRef, <<>>, <<RN>>),
                 Elem(<<>>, "declared", Idx(0), FuncRef, <<>>, <<RF(0)>>),
                 Elem(<<>>, "passive", Idx(0), ExternRef, <<>>, <<<<Plain("ref.null", <<ExternRef>>)>>>>)>>,
     !.datas = <<Data(NN(3), "active", Idx(0), <<C(8)>>, <<1, 34>>), Data(<<>>, "passive", Idx(0), <<>>, <<3>>)>>,
     !.customs = <<[name |-> N(25), data |-> <<9, 9>>]>>]

\* A small module of each kind of field, for the wrong edits: parameters with
\* and without names, a block with operands, a folded if and a folded try.
SmallBody ==
  << I("local.get", 0), C(4), IfExpr(<<>>, BR, <<C(1)>>, <<C(2)>>), P("i32.add"),
     TryExpr(<<>>, B0, <<I("throw", 0)>>, "Catch", <<Catch(<<Idx(0)>>, <<P("nop")>>), Catch(<<>>, <<>>)>>, <<>>),
     Blk(<<C(1), I("br_if", 0)>>) >>
Small ==
  [EmptyModule EXCEPT
     !.types = <<FuncType(<<>>, NoSig), FuncType(NN(0), II)>>,
     !.imports = <<Import(N(1), N(2), "tag")>>,
     !.funcs = <<Binding(Func(NN(6), TypeDecl(1, II), <<I64>>, SmallBody), {<<NN(5), 0>>, <<NN(1), 1>>})>>,
     !.tables = <<Table(<<>>, FuncRef, LimMax(1, 1))>>,
     !.memories = <<Memory(NN(4), Lim(1))>>,
     !.globals = <<Global(<<>>, I32, 1, <<C(3)>>)>>,
     !.tags = <<Tag(<<>>, V0)>>,
     !.exports = <<Export(N(0), "func", Idx(0))>>,
     !.elems = <<Elem(<<>>, "active", Idx(0), FuncRef, <<C(0)>>, <<RF(0)>>)>>,
     !.datas = <<Data(<<>>, "active", Idx(0), <<C(8)>>, <<1>>)>>]

Opts(edit) == [fold : BOOLEAN, inline : BOOLEAN, names : BOOLEAN, edit : {edit}]
MCProfiles == {"control", "memory", "bulk", "small"}
ProfileTable == [n \in MCProfiles |->
  CASE n = "control" -> [mod |-> Control, opts |-> Opts(FALSE), features |-> FeatureSet]
    [] n = "memory"  -> [mod |-> MemoryModule, opts |-> Opts(FALSE), features |-> FeatureSet]
    [] n = "bulk"    -> [mod |-> BulkModule, opts |-> Opts(FALSE), features |-> FeatureSet]
    [] n = "small"   -> [mod |-> Small, opts |-> Opts(TRUE), features |-> FeatureSet]]
MCProfileOf(n) == LET t == ProfileTable IN t[n]
MCGenerated(m) == LET x == GenerateNames(m) IN x
MCApplied(m) == LET x == ApplyNames(m) IN x[1]
MCFieldParsed(x) == LET y == ParseOneField(x) IN y
MCFieldsResolved(x) == LET y == ResolveFields(x) IN y
MCResolved(m) == LET x == ResolveModule(m) IN x
MCHasErrors(m) == LET x == ResolveErrors(m) IN x
MCEdits == {"drop", "double", "swap", "close", "type", "name"}
=============================================================================
