------------------------------ MODULE W2CModule ------------------------------
(***************************************************************************)
(* Modules compiled by wasm2c and linked into one program: the instance    *)
(* structs with the members that wasm2c declares, the statements of        *)
(* <module>_instantiate and <module>_free, the code of the instructions on *)
(* tables and references, and the embedder that starts the runtime, makes  *)
(* the instances in the order they import from each other, and frees them. *)
(*                                                                         *)
(* A struct is a function from the C names of its members, so that two     *)
(* objects of one name would share a member; a member is in the function   *)
(* once it has been assigned.  A pointer is an instance and a member, or   *)
(* the instance itself (member <<>>).  An index is 1-based.                *)
(***************************************************************************)
EXTENDS W2CNames, W2CRuntime

CONSTANTS Programs, ProgramOf(_),
          Build,   \* what BuildOf makes of each program
          Width,   \* bits of the u32 operands
          Operand  \* the operands the instructions are tried with

VARIABLES prog, cells, \* the structs
          pc,       \* the statement of <module>_instantiate that is next
          status,   \* none, run, trapped, ready, freed
          log_file, \* per module, the file that traced code writes to: null, open, closed
          calls, ins, obs, ops,
          wild      \* the program has followed a pointer that leads nowhere
mvars == <<prog, cells, pc, status, log_file, calls, ins, obs, ops, wild>>
vars == <<rtvars, mvars>>

Program == ProgramOf(prog)
Inst == DOMAIN Program.insts
ModOf(i) == Program.mods[Program.insts[i].mod]
GlobalName(i, kind, name) == Build[prog].symbols[Program.insts[i].mod].map[<<name, kind>>]
ImportsOf(m, kind) == SelectSeq(m.imports, LAMBDA x : x.kind = kind)
NameOf(m, kind, k) ==
  LET n == Len(ImportsOf(m, kind)) IN IF k <= n THEN ImportsOf(m, kind)[k].name ELSE m[kind][k - n].name
SigOf(m, k) == LET n == Len(ImportsOf(m, "func")) IN IF k <= n THEN ImportsOf(m, "func")[k].sig ELSE m.func[k - n].sig
IsImport(m, name) == \E j \in DOMAIN m.imports : m.imports[j].name = name
ImportModuleOf(m, name) ==
  m.imports[CHOOSE j \in DOMAIN m.imports : m.imports[j].name = name /\ \A l \in 1 .. j - 1 : m.imports[l].name # name].module

-----------------------------------------------------------------------------
(* Pointers, references and what they lead to.                              *)

InstPtr(i) == [inst |-> i, at |-> <<>>]
NoPtr == [inst |-> 0, at |-> <<>>]
Member(i, sym) == IF sym \in DOMAIN cells[i] THEN cells[i][sym] ELSE NoPtr
\* &instance->x for what the module defines, instance->x for what it imports
ExternalInstancePtr(i, kind, k) ==
  LET name == NameOf(ModOf(i), kind, k)
      sym  == GlobalName(i, kind, name)
  IN  IF IsImport(ModOf(i), name) THEN Member(i, sym) ELSE [inst |-> i, at |-> sym]
Valid(p) == IF p.inst \in Inst THEN p.at \in DOMAIN cells[p.inst] ELSE FALSE
Deref(p) == cells[p.inst][p.at]

\* Functions: a defined one has internal linkage in its translation unit, an
\* imported one is called by the symbol of the other module's export.
MangleType == [i32 |-> 105, i64 |-> 106, f32 |-> 102, f64 |-> 100, funcref |-> 114, externref |-> 101]
SerializeFuncType(sig) ==
  [j \in DOMAIN sig.params |-> MangleType[sig.params[j]]] \o <<32>> \o [j \in DOMAIN sig.results |-> MangleType[sig.results[j]]]
\* The type that stands for a signature: the first of the module that has the
\* same serialization.
FuncTypeExpr(m, sig) ==
  SerializeFuncType(m.type[CHOOSE j \in DOMAIN m.type : SerializeFuncType(m.type[j].sig) = SerializeFuncType(sig)].sig)
FuncSymbol(i, k) ==
  LET m == ModOf(i)
      name == NameOf(m, "func", k)
  IN  [unit |-> IF IsImport(m, name) THEN 0 ELSE Program.insts[i].mod, sym |-> GlobalName(i, "func", name)]
FuncInstance(i, k) ==
  LET m == ModOf(i)
      name == NameOf(m, "func", k)
  IN  IF IsImport(m, name) THEN Member(i, GlobalName(i, "import", ImportModuleOf(m, name))) ELSE InstPtr(i)
NullRef == [func |-> [unit |-> 0, sym |-> <<>>], inst |-> NoPtr, type |-> <<>>]
RefFunc(i, k) == [func |-> FuncSymbol(i, k), inst |-> FuncInstance(i, k), type |-> FuncTypeExpr(ModOf(i), SigOf(ModOf(i), k))]

\* The linker: the exports whose C symbol is sym.
ExportSymbols(mods) ==
  UNION {{<<ExportName(mods[k].name, mods[k].exports[e].name), k, e>> : e \in DOMAIN mods[k].exports} : k \in DOMAIN mods}
Definers(sym) == {<<d[2], d[3]>> : d \in {x \in Build[prog].exports : x[1] = sym}}

\* The function a call of symbol f with the instance pointer p ends in, as
\* <<instance, definition>>: the export of another module is a wrapper that
\* calls its own function or, re-exporting an import, the next wrapper.
Nowhere == <<-1, -1>>
FuncSymbols == [unit : Nat, sym : Seq(Nat)]
Pointers    == [inst : Nat, at : Seq(Nat)]
Reached(func, ptr) ==
  LET reached[f \in FuncSymbols, p \in Pointers] ==
        LET m  == ModOf(p.inst)
            ds == {d \in Definers(f.sym) : d[1] = Program.insts[p.inst].mod}
            k  == m.exports[(CHOOSE d \in ds : TRUE)[2]].index
        IN  IF p.inst \notin Inst \/ p.at # <<>> THEN Nowhere
            ELSE IF f.unit # 0
                 THEN IF Program.insts[p.inst].mod # f.unit THEN Nowhere
                      ELSE <<p.inst, CHOOSE l \in DOMAIN m.func : GlobalName(p.inst, "func", m.func[l].name) = f.sym>>
                 ELSE IF Cardinality(ds) # 1 THEN Nowhere
                      ELSE reached[FuncSymbol(p.inst, k), FuncInstance(p.inst, k)]
  IN  reached[func, ptr]
Reference(v) == IF v.func.sym = <<>> THEN <<0, 0>> ELSE Reached(v.func, v.inst)

\* The code of a function may use every object of its instance, and the log.
Usable(f) ==
  f # Nowhere /\
  LET m == ModOf(f[1])
  IN  /\ m.trace => log_file[Program.insts[f[1]].mod] = "open"
      /\ \A kind \in {"global", "table", "memory"} : \A k \in 1 .. Len(ImportsOf(m, kind)) + Len(m[kind]) :
           Valid(ExternalInstancePtr(f[1], kind, k))

\* Constant expressions: a stack of C expressions, evaluated in u32.
WriteInitExprTerminal(i, x) ==
  CASE x.op = "const"      -> x.v
    [] x.op = "ref_null"   -> NullRef
    [] x.op = "ref_func"   -> RefFunc(i, x.v)
    [] x.op = "global_get" -> Deref(ExternalInstancePtr(i, "global", x.v))
InitExprReadable(i, e) == \A j \in DOMAIN e : e[j].op = "global_get" => Valid(ExternalInstancePtr(i, "global", e[j].v))
WriteInitExpr(i, e) ==
  LET stack[j \in 0 .. Len(e)] ==
        IF j = 0 THEN <<>>
        ELSE LET s == stack[j - 1]
                 n == Len(s)
             IN  IF e[j].op = "add" THEN Append(SubSeq(s, 1, n - 2), (s[n - 1] + s[n]) % (2 ^ Width))
                 ELSE Append(s, WriteInitExprTerminal(i, e[j]))
  IN  stack[Len(e)][1]

-----------------------------------------------------------------------------
(* The statements of <module>_instantiate.                                  *)

is_droppable(seg) == ~seg.active /\ seg.init # <<>>
Statements(op, s) == [j \in DOMAIN s |-> [op |-> op, n |-> s[j]]]
Where(s, P(_)) == SelectSeq([j \in DOMAIN s |-> j], LAMBDA j : P(s[j]))
\* ComputeUniqueImports: the first of the imports of one module and field.
UniqueImports(m) ==
  SelectSeq([j \in DOMAIN m.imports |-> j],
            LAMBDA j : \A l \in 1 .. j - 1 : <<m.imports[l].module, m.imports[l].field>> # <<m.imports[j].module, m.imports[j].field>>)
\* Mutated: the pointers to imported tables are not set.
InitImports_NoTables(m) ==
  Statements("import_instance", ImportFuncModules(m))
  \o Statements("import", SelectSeq(UniqueImports(m), LAMBDA j : m.imports[j].kind \notin {"func", "tag", "table"}))
InitImports(m) ==
  Statements("import_instance", ImportFuncModules(m))
  \o Statements("import", SelectSeq(UniqueImports(m), LAMBDA j : m.imports[j].kind \notin {"func", "tag"}))
InitGlobals(m) == Statements("global", Where(m.global, LAMBDA g : TRUE))
InitTables(m)  == Statements("table", Where(m.table, LAMBDA t : TRUE)) \o Statements("elem", Where(m.elem, LAMBDA s : s.active))
InitMemories(m) == Statements("memory", Where(m.memory, LAMBDA x : TRUE)) \o Statements("data", Where(m.data, LAMBDA s : s.active))
InitFlags(m) == Statements("elem_flag", Where(m.elem, is_droppable)) \o Statements("data_flag", Where(m.data, is_droppable))
Instantiate(m) ==
  InitImports(m) \o InitGlobals(m) \o InitTables(m) \o InitMemories(m) \o InitFlags(m)
  \o Statements("start", m.starts) \o <<[op |-> "return", n |-> 0]>>

\* What wasm2c, the compiler and the linker make of the modules of a program.
BuildOf(mods) ==
  [symbols |-> [k \in DOMAIN mods |-> SymbolsOf(mods[k])], scripts |-> [k \in DOMAIN mods |-> Instantiate(mods[k])],
   exports |-> ExportSymbols(mods)]
Script(i) == Build[prog].scripts[Program.insts[i].mod]

Idle == \A i \in Inst : status[i] # "run"
RuntimeIn == where[Main] = "in"
Traced == {k \in DOMAIN Program.mods : Program.mods[k].trace}
LogsOpen == \A k \in Traced : log_file[k] = "open"
ImportedInsts(i) == {Program.insts[i].args[m] : m \in DOMAIN Program.insts[i].args}
\* instantiate starts with assert(wasm_rt_is_initialized()).
BeginInstantiate(i) ==
  /\ RuntimeIn /\ Idle /\ status[i] = "none" /\ \A j \in 1 .. i - 1 : status[j] # "none"
  /\ \A j \in ImportedInsts(i) : status[j] = "ready"
  /\ ModOf(i).starts # <<>> => LogsOpen
  /\ rt_failed' = ~wasm_rt_is_initialized(Main)
  /\ status' = [status EXCEPT ![i] = "run"] /\ pc' = [pc EXCEPT ![i] = 1]
  /\ UNCHANGED <<g_signal_handler_installed, handler, g_alt_stack, sigaltstack, stacks, where, prog, cells, log_file, calls, ins, obs, ops, wild>>

Next1(i, op) == status[i] = "run" /\ Script(i)[pc[i]].op = op
Arg(i) == Script(i)[pc[i]].n
Advance(i) == pc' = [pc EXCEPT ![i] = @ + 1] /\ UNCHANGED <<rtvars, prog, log_file, ins, obs, ops>>
Set(i, sym, v) == cells' = [cells EXCEPT ![i] = [s \in DOMAIN @ \cup {sym} |-> IF s = sym THEN v ELSE @[s]]]
Put(p, v) == Set(p.inst, p.at, v)
Plain(i) == Advance(i) /\ UNCHANGED <<status, calls, wild>>
Wild(i) == wild' = TRUE /\ UNCHANGED <<rtvars, prog, cells, pc, status, log_file, calls, ins, obs, ops>>
\* TRAP: the embedder gives up on the instance, and does not free it.
TrapInit(i) == status' = [status EXCEPT ![i] = "trapped"] /\ UNCHANGED <<rtvars, prog, cells, pc, log_file, calls, ins, obs, ops, wild>>

init_instance_import(i) ==
  /\ Next1(i, "import_instance")
  /\ Set(i, GlobalName(i, "import", Arg(i)), InstPtr(Program.insts[i].args[Arg(i)])) /\ Plain(i)
\* instance->x = x(other instance), where x is the other module's export.
init_import(i) ==
  LET imp == ModOf(i).imports[Arg(i)]
      sym == ExportName(imp.module, imp.field)
      j   == Program.insts[i].args[imp.module]
      ds  == Definers(sym)
      d   == CHOOSE x \in ds : TRUE
  IN  /\ Next1(i, "import")
      /\ IF Cardinality(ds) = 1 /\ d[1] = Program.insts[j].mod
         THEN Set(i, sym, ExternalInstancePtr(j, imp.kind, ModOf(j).exports[d[2]].index)) /\ Plain(i)
         ELSE Wild(i)
init_globals(i) ==
  LET g == ModOf(i).global[Arg(i)]
      p == ExternalInstancePtr(i, "global", Len(ImportsOf(ModOf(i), "global")) + Arg(i))
  IN  /\ Next1(i, "global")
      /\ IF InitExprReadable(i, g.init) THEN Put(p, WriteInitExpr(i, g.init)) /\ Plain(i) ELSE Wild(i)
wasm_rt_allocate_table(i) ==
  LET t == ModOf(i).table[Arg(i)]
      p == ExternalInstancePtr(i, "table", Len(ImportsOf(ModOf(i), "table")) + Arg(i))
  IN  /\ Next1(i, "table")
      /\ Put(p, [size |-> t.initial, max |-> t.max, data |-> [n \in 1 .. t.initial |-> NullRef], live |-> TRUE]) /\ Plain(i)
wasm_rt_allocate_memory(i) ==
  LET x == ModOf(i).memory[Arg(i)]
      p == ExternalInstancePtr(i, "memory", Len(ImportsOf(ModOf(i), "memory")) + Arg(i))
  IN  Next1(i, "memory") /\ Put(p, [data |-> [n \in 1 .. x.initial |-> 0], live |-> TRUE]) /\ Plain(i)

\* elem_segment_exprs_x[n]: the pointer of a function is the instance plus an
\* offset, 0 or that of the member for the imported module.
ElemExpr(i, e) ==
  CASE e.op = "ref_null"   -> NullRef
    [] e.op = "global_get" -> Deref(ExternalInstancePtr(i, "global", e.v))
    [] e.op = "ref_func"   ->
         LET name == NameOf(ModOf(i), "func", e.v)
         IN  [RefFunc(i, e.v) EXCEPT !.inst =
                IF IsImport(ModOf(i), name) THEN [inst |-> i, at |-> GlobalName(i, "import", ImportModuleOf(ModOf(i), name))]
                ELSE InstPtr(i)]
Fits(at, n, size) == at + n <= size
Copied(old, d, new) == [k \in DOMAIN old |-> IF k - 1 \in d .. d + Len(new) - 1 THEN new[k - d] ELSE old[k]]
SegmentValues(i, seg, s, n) == [j \in 1 .. n |-> ElemExpr(i, seg.init[s + j][1])]
\* funcref_table_init: what the table becomes.
TableInitOK(t, src_size, d, s, n) == Fits(s, n, src_size) /\ Fits(d, n, t.size)
init_elem(i) ==
  LET seg == ModOf(i).elem[Arg(i)]
      p   == ExternalInstancePtr(i, "table", seg.index)
      n   == Len(seg.init)
      d   == WriteInitExpr(i, seg.offset)
  IN  /\ Next1(i, "elem")
      /\ IF ~Valid(p) \/ ~InitExprReadable(i, seg.offset) THEN Wild(i)
         ELSE IF ~TableInitOK(Deref(p), n, d, 0, n) THEN TrapInit(i)
         ELSE Put(p, [Deref(p) EXCEPT !.data = Copied(@, d, SegmentValues(i, seg, 0, n))]) /\ Plain(i)
load_data(i) ==
  LET seg == ModOf(i).data[Arg(i)]
      p   == ExternalInstancePtr(i, "memory", seg.index)
      d   == WriteInitExpr(i, seg.offset)
  IN  /\ Next1(i, "data")
      /\ IF ~Valid(p) \/ ~InitExprReadable(i, seg.offset) THEN Wild(i)
         ELSE IF ~Fits(d, Len(seg.init), Len(Deref(p).data)) THEN TrapInit(i)
         ELSE Put(p, [Deref(p) EXCEPT !.data = Copied(@, d, seg.init)]) /\ Plain(i)
Flag(i, kind, n) == <<0>> \o GlobalName(i, kind, ModOf(i)[kind][n].name)
init_elem_instances(i) == Next1(i, "elem_flag") /\ Set(i, Flag(i, "elem", Arg(i)), FALSE) /\ Plain(i)
init_data_instances(i) == Next1(i, "data_flag") /\ Set(i, Flag(i, "data", Arg(i)), FALSE) /\ Plain(i)
start_function(i) ==
  LET f == Reached(FuncSymbol(i, Arg(i)), FuncInstance(i, Arg(i)))
  IN  /\ Next1(i, "start")
      /\ calls' = Append(calls, f) /\ wild' = ~Usable(f)
      /\ Advance(i) /\ UNCHANGED <<cells, status>>
EndInstantiate(i) ==
  Next1(i, "return") /\ status' = [status EXCEPT ![i] = "ready"] /\ Advance(i) /\ UNCHANGED <<cells, calls, wild>>

InstantiateStep(i) ==
  \/ init_instance_import(i) \/ init_import(i) \/ init_globals(i) \/ wasm_rt_allocate_table(i) \/ init_elem(i)
  \/ wasm_rt_allocate_memory(i) \/ load_data(i) \/ init_elem_instances(i) \/ init_data_instances(i)
  \/ start_function(i) \/ EndInstantiate(i)

-----------------------------------------------------------------------------
(* Instructions, called by the embedder in a function of a ready instance:  *)
(* the operator, the instance, immediate indices k and l, operands d, s and *)
(* n, and a reference operand v: a declared function, or 0 for null.        *)

Q(op, i, k, l, d, s, n, v) == [op |-> op, i |-> i, k |-> k, l |-> l, d |-> d, s |-> s, n |-> n, v |-> v, ops |-> ops]
Tables(i)  == 1 .. Len(ImportsOf(ModOf(i), "table")) + Len(ModOf(i).table)
Globals(i) == 1 .. Len(ImportsOf(ModOf(i), "global")) + Len(ModOf(i).global)
Funcs(i)   == 1 .. Len(ImportsOf(ModOf(i), "func")) + Len(ModOf(i).func)
Refs(i)    == ModOf(i).declared \cup {0}
InstructionsOf(i, op) ==
  LET O == Operand  T == Tables(i)  E == DOMAIN ModOf(i).elem
  IN  CASE op = "table_get"     -> {Q(op, i, k, 0, d, 0, 0, 0) : k \in T, d \in O}
        [] op = "table_set"     -> {Q(op, i, k, 0, d, 0, 0, v) : k \in T, d \in O, v \in Refs(i)}
        [] op = "table_size"    -> {Q(op, i, k, 0, 0, 0, 0, 0) : k \in T}
        [] op = "table_grow"    -> {Q(op, i, k, 0, 0, 0, n, v) : k \in T, n \in O, v \in Refs(i)}
        [] op = "table_fill"    -> {Q(op, i, k, 0, d, 0, n, v) : k \in T, d \in O, n \in O, v \in Refs(i)}
        [] op = "table_copy"    -> {Q(op, i, k, l, d, s, n, 0) : k \in T, l \in T, d \in O, s \in O, n \in O}
        [] op = "table_init"    -> {Q(op, i, k, l, d, s, n, 0) : k \in T, l \in E, d \in O, s \in O, n \in O}
        [] op = "elem_drop"     -> {Q(op, i, l, 0, 0, 0, 0, 0) : l \in E}
        [] op = "call_indirect" -> {Q(op, i, k, l, d, 0, 0, 0) : k \in T, l \in DOMAIN ModOf(i).type, d \in O}
        [] op = "call"          -> {Q(op, i, k, 0, 0, 0, 0, 0) : k \in Funcs(i)}
        [] op = "global_get"    -> {Q(op, i, k, 0, 0, 0, 0, 0) : k \in Globals(i)}
        [] op = "global_set"    -> {Q(op, i, k, 0, 0, 0, 0, v) : k \in ModOf(i).refglobals, v \in Refs(i)}
\* The program says which instructions its functions have.
Instructions(i) == UNION {InstructionsOf(i, op) : op \in Program.menu}

Trap == <<"trap">>
Void == <<"void">>
RefOperand(q) == IF q.v = 0 THEN NullRef ELSE RefFunc(q.i, q.v)
TableOf(q)  == ExternalInstancePtr(q.i, "table", q.k)
SourceOf(q) == IF q.op = "table_copy" THEN ExternalInstancePtr(q.i, "table", q.l) ELSE TableOf(q)
GlobalOf(q) == ExternalInstancePtr(q.i, "global", q.k)
Leads(q) ==
  CASE q.op \in {"elem_drop", "call"} -> TRUE
    [] q.op \in {"global_get", "global_set"} -> Valid(GlobalOf(q))
    [] OTHER -> IF Valid(TableOf(q)) /\ Valid(SourceOf(q)) THEN Deref(TableOf(q)).live /\ Deref(SourceOf(q)).live ELSE FALSE
Gives(v) == obs' = v /\ UNCHANGED cells
\* The instruction traps unless ok, or changes the struct behind p to new.
Stores(ok, p, new) == IF ok THEN obs' = Void /\ Put(p, new) ELSE Gives(Trap)

TableGet(q) ==
  LET t == Deref(TableOf(q))
  IN  q.op = "table_get" /\ Gives(IF q.d >= t.size THEN Trap ELSE <<"ref", t.data[q.d + 1]>>)
TableSet(q) ==
  LET t == Deref(TableOf(q))
  IN  q.op = "table_set" /\ Stores(~(q.d >= t.size), TableOf(q), [t EXCEPT !.data = Copied(@, q.d, <<RefOperand(q)>>)])
TableSize(q) == q.op = "table_size" /\ Gives(<<"i32", Deref(TableOf(q)).size>>)
TableFill(q) ==
  LET t == Deref(TableOf(q))
  IN  /\ q.op = "table_fill"
      /\ Stores(Fits(q.d, q.n, t.size), TableOf(q), [t EXCEPT !.data = Copied(@, q.d, [j \in 1 .. q.n |-> RefOperand(q)])])
TableCopy(q) ==
  LET dest == Deref(TableOf(q))
      src  == Deref(SourceOf(q))
      ok   == Fits(q.d, q.n, dest.size) /\ Fits(q.s, q.n, src.size)
  IN  /\ q.op = "table_copy"
      /\ Stores(ok, TableOf(q), [dest EXCEPT !.data = Copied(@, q.d, IF ok THEN SubSeq(src.data, q.s + 1, q.s + q.n) ELSE <<>>)])
\* Mutated: the size of a passive segment whether dropped or not.
SegmentSize_Whole(i, l) == IF is_droppable(ModOf(i).elem[l]) THEN Len(ModOf(i).elem[l].init) ELSE 0
SegmentSize(i, l) ==
  LET seg == ModOf(i).elem[l] IN IF ~is_droppable(seg) THEN 0 ELSE IF Member(i, Flag(i, "elem", l)) THEN 0 ELSE Len(seg.init)
TableInit(q) ==
  LET t  == Deref(TableOf(q))
      ok == TableInitOK(t, SegmentSize(q.i, q.l), q.d, q.s, q.n)
  IN  /\ q.op = "table_init"
      /\ Stores(ok, TableOf(q), [t EXCEPT !.data = Copied(@, q.d, IF ok THEN SegmentValues(q.i, ModOf(q.i).elem[q.l], q.s, q.n) ELSE <<>>)])
ElemDrop(q) ==
  /\ q.op = "elem_drop" /\ obs' = Void
  /\ IF is_droppable(ModOf(q.i).elem[q.k]) THEN Set(q.i, Flag(q.i, "elem", q.k), TRUE) ELSE UNCHANGED cells
\* wasm_rt_grow_funcref_table; the failure is a table too large or realloc's.
TableGrow(q) ==
  LET t   == Deref(TableOf(q))
      new == t.size + q.n
  IN  /\ q.op = "table_grow"
      /\ \/ new = 0 /\ Gives(<<"i32", 0>>)
         \/ new # 0 /\ Gives(<<"i32", 2 ^ Width - 1>>)
         \/ /\ new # 0 /\ new <= t.max /\ obs' = <<"i32", t.size>>
            /\ Put(TableOf(q), [t EXCEPT !.size = new, !.data = @ \o [j \in 1 .. q.n |-> RefOperand(q)]])
\* CHECK_CALL_INDIRECT, then the call with the instance of the reference.
CallIndirect(q) ==
  LET t  == Deref(TableOf(q))
      v  == t.data[q.d + 1]
      ok == IF q.d < t.size THEN v.func.sym # <<>> /\ v.type = FuncTypeExpr(ModOf(q.i), ModOf(q.i).type[q.l].sig) ELSE FALSE
  IN  q.op = "call_indirect" /\ Gives(IF ok THEN <<"call", Reached(v.func, v.inst)>> ELSE Trap)
Call(q)      == q.op = "call" /\ Gives(<<"call", Reached(FuncSymbol(q.i, q.k), FuncInstance(q.i, q.k))>>)
GlobalGet(q) == q.op = "global_get" /\ Gives(<<"global", Deref(GlobalOf(q))>>)
GlobalSet(q) == q.op = "global_set" /\ obs' = Void /\ Put(GlobalOf(q), RefOperand(q))

Runs(q) ==
  /\ RuntimeIn /\ Idle /\ status[q.i] = "ready" /\ \A j \in Inst : status[j] # "freed"
  /\ LogsOpen
  /\ ins' = q /\ ops' = ops + 1
  /\ UNCHANGED <<rtvars, prog, pc, status, log_file, calls>>
Executes(q) ==
  /\ Runs(q)
  /\ IF Leads(q)
     THEN /\ \/ TableGet(q) \/ TableSet(q) \/ TableSize(q) \/ TableFill(q) \/ TableCopy(q) \/ TableInit(q) \/ ElemDrop(q)
             \/ TableGrow(q) \/ CallIndirect(q) \/ Call(q) \/ GlobalGet(q) \/ GlobalSet(q)
          /\ wild' = (obs'[1] = "call" /\ ~Usable(obs'[2]))
     ELSE wild' = TRUE /\ UNCHANGED <<cells, obs>>

-----------------------------------------------------------------------------
(* The rest of the embedder.                                                *)

file_open(k) ==
  /\ RuntimeIn /\ k \in Traced /\ log_file[k] = "null" /\ Idle
  /\ log_file' = [log_file EXCEPT ![k] = "open"]
  /\ UNCHANGED <<rtvars, prog, cells, pc, status, calls, ins, obs, ops, wild>>
Closing == Idle /\ \A i \in Inst : status[i] \in {"freed", "trapped", "none"}
file_close(k) ==
  /\ Closing /\ log_file[k] = "open"
  /\ log_file' = [log_file EXCEPT ![k] = "closed"]
  /\ UNCHANGED <<rtvars, prog, cells, pc, status, calls, ins, obs, ops, wild>>
\* <module>_free releases what the module defines; importers are freed first.
MembersOf(i, kind) == {GlobalName(i, kind, ModOf(i)[kind][k].name) : k \in DOMAIN ModOf(i)[kind]}
Owned(i) == MembersOf(i, "table") \cup MembersOf(i, "memory")
Free(i) ==
  /\ RuntimeIn /\ Idle /\ status[i] = "ready"
  /\ \A j \in Inst : i \in ImportedInsts(j) => status[j] \in {"freed", "trapped", "none"}
  /\ status' = [status EXCEPT ![i] = "freed"]
  /\ wild' = (\E sym \in Owned(i) : ~cells[i][sym].live)
  /\ cells' = [cells EXCEPT ![i] = [sym \in DOMAIN @ |-> IF sym \in Owned(i) THEN [@[sym] EXCEPT !.live = FALSE] ELSE @[sym]]]
  /\ UNCHANGED <<rtvars, prog, pc, log_file, calls, ins, obs, ops>>

Init ==
  /\ RtInit /\ prog \in Programs
  /\ cells = [i \in Inst |-> <<>>] /\ pc = [i \in Inst |-> 0] /\ status = [i \in Inst |-> "none"]
  /\ log_file = [k \in DOMAIN Program.mods |-> "null"]
  /\ ops = 0 /\ calls = <<>> /\ ins = Q("none", 1, 0, 0, 0, 0, 0, 0) /\ obs = Void /\ wild = FALSE
Runtime ==
  /\ UNCHANGED mvars
  /\ \/ wasm_rt_init(Main)
     \/ Closing /\ (\A k \in Traced : log_file[k] # "open") /\ wasm_rt_free(Main)
     \/ \E t \in {Main} \cup Program.workers : wasm_rt_init_thread(t) \/ wasm_rt_free_thread(t) \/ StackOverflow(t)
Left == where[Main] = "left" /\ UNCHANGED vars
Next ==
  \/ Runtime \/ Left
  \/ \E i \in Inst : \/ BeginInstantiate(i) \/ InstantiateStep(i) \/ Free(i)
                     \/ ops < Program.ops /\ status[i] = "ready" /\ \E q \in Instructions(i) : Executes(q)
  \/ \E k \in DOMAIN Program.mods : file_open(k) \/ file_close(k)
Spec == Init /\ [][Next]_vars

-----------------------------------------------------------------------------
(* What the proofs ask of a program.                                        *)

\* Members of the struct that are of different sorts have different names, and
\* an imported object is known by the symbol of the export.
ImportFields(i)    == {ExportName(ModOf(i).imports[j].module, ModOf(i).imports[j].field) : j \in DOMAIN ModOf(i).imports}
ImportInstances(i) == {GlobalName(i, "import", ModOf(i).imports[j].module) : j \in DOMAIN ModOf(i).imports}
Flags(i)           == UNION {{Flag(i, kind, n) : n \in DOMAIN ModOf(i)[kind]} : kind \in {"elem", "data"}}
MembersApart(i) ==
  /\ Owned(i) \cap (MembersOf(i, "global") \cup ImportFields(i) \cup ImportInstances(i) \cup Flags(i)) = {}
  /\ ImportFields(i) \cap (MembersOf(i, "global") \cup ImportInstances(i) \cup Flags(i)) = {}
\* <module>_instantiate makes every table and memory, then returns.
ScriptComplete(i) ==
  LET m == ModOf(i)
      s == Script(i)
  IN  /\ Len(s) \in Nat \ {0} /\ DOMAIN s = 1 .. Len(s)
      /\ \A j \in DOMAIN s :
           /\ s[j].op = "return" <=> j = Len(s)
           /\ s[j].op = "import_instance" => \E l \in DOMAIN m.imports : m.imports[l].module = s[j].n
           /\ s[j].op = "import" => s[j].n \in DOMAIN m.imports
           /\ s[j].op \in {"global", "table", "memory"} => s[j].n \in DOMAIN m[s[j].op]
           /\ s[j].op = "elem_flag" => s[j].n \in DOMAIN m.elem
           /\ s[j].op = "data_flag" => s[j].n \in DOMAIN m.data
      /\ \A kind \in {"table", "memory"} : \A k \in DOMAIN m[kind] : \E j \in DOMAIN s : s[j].op = kind /\ s[j].n = k
\* An index is that of a definition or of an import, and what is imported as a
\* global is exported as one.
DefinedIndices(m) ==
  \A kind \in {"global", "table", "memory"} : \A k \in DOMAIN m[kind] :
    /\ NameOf(m, kind, Len(ImportsOf(m, kind)) + k) = m[kind][k].name
    /\ ~IsImport(m, m[kind][k].name)
GlobalDeclared(m, name) ==
  IF IsImport(m, name) THEN \E j \in DOMAIN m.imports : m.imports[j].kind = "global" /\ m.imports[j].name = name
  ELSE \E l \in DOMAIN m.global : m.global[l].name = name
ExportedGlobal(e, sym) ==
  e \in Inst /\ \A d \in Definers(sym) : d[1] = Program.insts[e].mod => ModOf(e).exports[d[2]].index \in Globals(e)
IndicesResolve(i) ==
  LET m == ModOf(i)
      Symbol(j) == ExportName(m.imports[j].module, m.imports[j].field)
  IN  /\ DefinedIndices(m) /\ m.refglobals \subseteq Globals(i)
      /\ \A k \in Globals(i) : GlobalDeclared(m, NameOf(m, "global", k))
      /\ \A j, l \in DOMAIN m.imports : m.imports[j].kind = "global" =>
           /\ GlobalName(i, "global", m.imports[j].name) = Symbol(j)
           /\ Symbol(l) = Symbol(j) => m.imports[l].kind = "global" /\ ExportedGlobal(Program.insts[i].args[m.imports[l].module], Symbol(j))
Menu == {"table_get", "table_set", "table_size", "table_grow", "table_fill", "table_copy", "table_init", "elem_drop",
         "call_indirect", "call", "global_get", "global_set"}
WellLinked ==
  /\ Program.workers \subseteq Thread /\ Program.menu \subseteq Menu
  /\ 0 \notin Inst
  /\ \A i \in Inst : MembersApart(i) /\ ScriptComplete(i) /\ IndicesResolve(i)

-----------------------------------------------------------------------------
(* Properties                                                               *)

\* No statement of instantiate, no instruction and no free follows a pointer
\* that is unset, freed or of the wrong kind, calls a function with an instance
\* it does not belong to or whose objects do not exist yet, or writes to a log
\* that is not open (ExternalInstancePtr, WriteInit, WriteExports, file_open);
\* and the elements of a table reach as far as its size.
PointersLead ==
  /\ ~wild
  /\ \A i \in Inst : \A k \in DOMAIN ModOf(i).table :
       LET sym == GlobalName(i, "table", ModOf(i).table[k].name)
       IN  sym \in DOMAIN cells[i] => Len(cells[i][sym].data) = cells[i][sym].size

\* No assertion of the runtime fails, and a stack overflow in any thread that
\* runs wasm code ends in a trap and not in the death of the process, whatever
\* threads come and go (wasm_rt_init .. wasm_rt_free_thread).  When the embedder
\* is done, the alternate stacks, the signal handler, the logs and the tables
\* and memories of every freed instance are released (WriteFree, wasm_rt_free).
RuntimeStands ==
  /\ ~rt_failed
  /\ where[Main] = "left" =>
       /\ stacks = {} /\ handler = "default" /\ \A k \in DOMAIN log_file : log_file[k] # "open"
       /\ \A i \in Inst : status[i] = "freed" =>
            \A sym \in MembersOf(i, "table") \cup MembersOf(i, "memory") : ~cells[i][sym].live

\* Two things of a module never get one C identifier, unless they are imports
\* of one field; variables of a function's operand stack are distinct from its
\* params and locals (ClaimName .. DefineStackVarName).  With that, and the
\* order in which WriteInit writes statements, every program is WellLinked.
DistinctIn(m, t) ==
  LET FieldOf(key) == {<<m.imports[j].module, m.imports[j].field>> :
                         j \in {n \in DOMAIN m.imports : <<m.imports[n].name, m.imports[n].kind>> = key}}
      local == LocalSymbols(t, m.locals)
  IN  /\ t.ok /\ local.ok
      /\ \A a, b \in DOMAIN t.map : t.map[a] = t.map[b] => a = b \/ (FieldOf(a) # {} /\ FieldOf(a) = FieldOf(b))
      /\ \A v \in m.stackvars, j \in DOMAIN m.locals : DefineStackVarName(local, v) # local.map[<<m.locals[j], "local">>]
      /\ \A v, w \in m.stackvars : DefineStackVarName(local, v) = DefineStackVarName(local, w) => v = w
ModulesDistinct == \A k \in DOMAIN Program.mods : DistinctIn(Program.mods[k], Build[prog].symbols[k])

\* The C symbols of exports tell modules and fields apart (Mangle), for all
\* names up to these lengths over the characters that its rules treat
\* specially.  Names with "00x" are left out: the state machine forgets a 0
\* that follows a 0, so that "0_" and "00x5F" are both mangled to "00x5F".
Names(n) == UNION {[1 .. l -> {Underscore, Zero, LetterX, 53, 70, 97}] : l \in 0 .. n}
Plain0(name) == ~\E j \in 1 .. Len(name) - 2 : SubSeq(name, j, j + 2) = <<Zero, Zero, LetterX>>
MangleInjective ==
  LET names   == {x \in Names(4) : Plain0(x)}
      short   == {x \in Names(3) : Plain0(x)}
      modules == {MangleModuleName(x) : x \in short}
      fields  == {MangleName(x) : x \in short}
  IN  /\ Cardinality({MangleName(x) : x \in names}) = Cardinality(names)
      /\ Cardinality({x[1] \o <<Underscore>> \o x[2] : x \in modules \X fields}) = Cardinality(short) * Cardinality(short)
SymbolsDistinct == ops = 0 => ModulesDistinct /\ MangleInjective /\ WellLinked

(* The program implements ModuleStore: objects are read off the structs,    *)
(* references are the functions that calling them would reach.              *)
DefinedAt(kind) ==
  {a \in UNION {{<<i, k>> : k \in DOMAIN ModOf(i)[kind]} : i \in Inst} :
     GlobalName(a[1], kind, ModOf(a[1])[kind][a[2]].name) \in DOMAIN cells[a[1]]}
Object(kind, a) == cells[a[1]][GlobalName(a[1], kind, ModOf(a[1])[kind][a[2]].name)]
ValueOf(type, v) == IF type = "i32" THEN v ELSE Reference(v)
GlobalType(i, k) == LET n == Len(ImportsOf(ModOf(i), "global")) IN IF k <= n THEN ImportsOf(ModOf(i), "global")[k].type ELSE ModOf(i).global[k - n].type
DoneBy(i) ==
  Cardinality({j \in 1 .. pc[i] - 1 : Script(i)[j].op \in {"elem", "data", "start", "return"}})
Abstract ==
  INSTANCE ModuleStore WITH
    globals  <- [a \in DefinedAt("global") |-> ValueOf(ModOf(a[1]).global[a[2]].type, Object("global", a))],
    tables   <- [a \in DefinedAt("table") |-> [n \in DOMAIN Object("table", a).data |-> Reference(Object("table", a).data[n])]],
    memories <- [a \in DefinedAt("memory") |-> Object("memory", a).data],
    done     <- [i \in Inst |-> DoneBy(i)],
    trapped  <- {i \in Inst : status[i] = "trapped"},
    dropped  <- {a \in UNION {{<<i, l>> : l \in DOMAIN ModOf(i).elem} : i \in Inst} :
                   Flag(a[1], "elem", a[2]) \in DOMAIN cells[a[1]] /\ cells[a[1]][Flag(a[1], "elem", a[2])]},
    obs      <- CASE obs[1] = "ref" -> <<"ref", Reference(obs[2])>>
                  [] obs[1] = "global" -> <<"global", ValueOf(GlobalType(ins.i, ins.k), obs[2])>>
                  [] OTHER -> obs

\* Whatever modules import from each other, instantiation and the table and
\* reference instructions do what WebAssembly says of modules, and a failed
\* instantiation leaves what WebAssembly says it leaves.
ImplementsModules == Abstract!Spec
=============================================================================
