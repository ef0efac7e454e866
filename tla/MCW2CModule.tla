---------------------------- MODULE MCW2CModule ----------------------------
(***************************************************************************)
(* Programs for W2CModule.  Names are ASCII codes: a b f g h t m x.        *)
(***************************************************************************)
EXTENDS W2CModule, TLC

A == <<97>>  B == <<98>>  F == <<102>>  G == <<103>>  H == <<104>>  T == <<116>>  M == <<109>>
AB == <<97, 95, 98>>    \* a_b, both a module and a field
I0 == <<105, 48>>       \* i0, the name of a stack variable
I00 == <<105, 48, 95, 48>>

Unary  == [params |-> <<"i32">>, results |-> <<"i32">>]
Binary == [params |-> <<"i32", "i32">>, results |-> <<>>]
Const(n) == <<[op |-> "const", v |-> n]>>
GetG(k)  == <<[op |-> "global_get", v |-> k]>>
RefF(k)  == <<[op |-> "ref_func", v |-> k]>>
RefN     == <<[op |-> "ref_null", v |-> 0]>>
Sum(a, b) == a \o b \o <<[op |-> "add", v |-> 0]>>

Empty == [name |-> A, imports |-> <<>>, exports |-> <<>>, global |-> <<>>, memory |-> <<>>, table |-> <<>>, data |-> <<>>,
          elem |-> <<>>, type |-> <<>>, tag |-> <<>>, func |-> <<>>, starts |-> <<>>, declared |-> {}, refglobals |-> {},
          trace |-> FALSE, locals |-> <<>>, stackvars |-> {}]
Export(n, k, x) == [name |-> n, kind |-> k, index |-> x]
Import(k, mod, field, n) == [kind |-> k, module |-> mod, field |-> field, name |-> n, sig |-> Unary, type |-> "funcref"]
Table(n, init, max) == [name |-> n, initial |-> init, max |-> max, type |-> "funcref"]
Active(t, off, init) == [name |-> H, active |-> TRUE, index |-> t, offset |-> off, init |-> init]
Passive(n, init) == [name |-> n, active |-> FALSE, index |-> 1, offset |-> <<>>, init |-> init]
Func(n, sig) == [name |-> n, sig |-> sig]
Global(n, type, init, mut) == [name |-> n, type |-> type, init |-> init, mut |-> mut]

\* a: a table and globals that others import; its function f is internally
\* named as its export b, and so needs a suffix.
ModA == [Empty EXCEPT
  !.table = <<Table(T, 2, 3)>>, !.memory = <<[name |-> M, initial |-> 2]>>,
  !.type = <<Func(F, Unary), Func(G, Binary), Func(H, Unary)>>,
  !.func = <<Func(B, Unary), Func(F, Binary)>>,
  !.global = <<Global(G, "funcref", RefF(1), FALSE), Global(H, "funcref", RefN, TRUE), Global(B, "i32", Const(1), FALSE)>>,
  !.exports = <<Export(B, "func", 1), Export(T, "table", 1), Export(G, "global", 1), Export(H, "global", 2), Export(A, "global", 3),
                Export(M, "memory", 1)>>,
  !.elem = <<Passive(G, <<RefF(2), RefN>>)>>, !.starts = <<2>>,
  !.declared = {1}, !.refglobals = {2}]
\* a_b: imports of every kind, among them one field twice, its own table, and
\* segments that use an imported global; it re-exports a's function.
ModAB == [Empty EXCEPT
  !.name = AB,
  !.imports = <<Import("func", A, B, F), Import("table", A, T, T), Import("global", A, G, G), Import("func", A, B, G),
                [Import("global", A, A, A) EXCEPT !.type = "i32"]>>,
  !.table = <<Table(B, 1, 1)>>, !.memory = <<[name |-> M, initial |-> 2]>>,
  !.type = <<Func(F, Unary)>>, !.func = <<Func(H, Unary)>>,
  !.global = <<Global(B, "funcref", RefF(1), TRUE)>>,
  !.elem = <<Active(1, Sum(Const(7), GetG(2)), <<RefF(3)>>), [Active(2, Const(0), <<GetG(1)>>) EXCEPT !.name = A], Passive(B, <<GetG(1), RefF(3)>>)>>,
  !.data = <<[Active(1, GetG(2), <<5>>) EXCEPT !.name = A], [Passive(F, <<6>>) EXCEPT !.name = F]>>,
  !.exports = <<Export(B, "func", 1), Export(H, "func", 3)>>, !.starts = <<3>>,
  !.declared = {1, 3}, !.refglobals = {3},
  !.locals = <<I0, I00, B>>, !.stackvars = {I0, <<105, 49>>}]
\* Importing the re-export, and the memory; its data segment traps.
ModTraps == [Empty EXCEPT
  !.name = B,
  !.imports = <<Import("func", AB, B, F), Import("table", A, T, T), Import("memory", A, M, M)>>,
  !.type = <<Func(F, Unary)>>, !.func = <<Func(H, Unary)>>,
  !.elem = <<Active(1, Const(1), <<RefF(2)>>)>>,
  !.data = <<[Active(1, Const(0), <<3>>) EXCEPT !.name = A], [Active(1, Const(1), <<4, 4>>) EXCEPT !.name = B]>>,
  !.starts = <<1>>]
\* The same, with a data segment that fits.
ModLast == [ModTraps EXCEPT !.data[2].init = <<4>>, !.declared = {1}]

Instance(k, args) == [mod |-> k, args |-> args]
ArgsA == A :> 1
Chain(last, n, menu) ==
  [mods |-> <<ModA, ModAB, last>>, insts |-> <<Instance(1, <<>>), Instance(2, ArgsA), Instance(3, AB :> 2 @@ A :> 1)>>,
   ops |-> n, menu |-> menu, workers |-> {}]
Pair(n, menu) == [mods |-> <<ModA, ModAB>>, insts |-> <<Instance(1, <<>>), Instance(2, ArgsA)>>, ops |-> n, menu |-> menu, workers |-> {}]
MCPrograms == {"drop", "grow", "copy", "twins", "chain", "trap", "traced"}
\* The programs: segments used and dropped, tables that change size, copies
\* between tables, two instances of one module, a re-exported function, an
\* instantiation that traps, and a traced module next to a second thread.
MCTable == [p \in MCPrograms |->
  CASE p = "drop"   -> Pair(2, {"elem_drop", "table_init", "call_indirect"})
    [] p = "grow"   -> Pair(2, {"table_grow", "table_size", "table_get", "table_fill"})
    [] p = "copy"   -> Pair(2, {"table_set", "table_copy"})
    [] p = "twins"  -> [Pair(2, {"table_set", "call_indirect", "global_set", "global_get"}) EXCEPT !.insts = Append(@, @[2])]
    [] p = "chain"  -> Chain(ModLast, 2, {"call", "table_set", "call_indirect"})
    [] p = "trap"   -> Chain(ModTraps, 2, {"call_indirect", "table_get"})
    [] p = "traced" -> [Pair(1, {"call", "table_size"}) EXCEPT
                          !.mods = <<[ModA EXCEPT !.trace = TRUE], [ModAB EXCEPT !.starts = <<>>]>>, !.workers = {"worker"}]]
MCProgramOf(p) == LET programs == MCTable IN programs[p]
Built == [p \in MCPrograms |-> BuildOf(MCTable[p].mods)]
MCBuild == LET built == Built IN built
MCOperand == {0, 1, 7}
=============================================================================
