----------------------------- MODULE ModuleStore -----------------------------
(***************************************************************************)
(* What WebAssembly promises of linked modules: the objects of an instance *)
(* (globals, tables, memories) are those it defines and those it imports,  *)
(* found by index; instantiation makes them, then copies the active        *)
(* element segments, then the active data segments, then calls the start   *)
(* function; a trap keeps what was written before it.                      *)
(*                                                                         *)
(* An address is <<instance, index of a definition>>.  A reference is the  *)
(* address of a function, <<0, h>> for the host's value h, or Null.        *)
(***************************************************************************)
EXTENDS Integers, Sequences, FiniteSets

CONSTANTS ProgramOf(_), Width

VARIABLES prog,    \* the program: modules, and instances with what they import from
          globals, tables, memories,   \* objects by address
          done,    \* how many segments and start functions of an instance are done
          trapped, \* instances whose instantiation trapped
          dropped, \* <<instance, element segment>> dropped
          calls,   \* the functions called as start functions
          ins,     \* the last instruction: its operator, instance, immediates and operands
          obs      \* what it returned
vars == <<prog, globals, tables, memories, done, trapped, dropped, calls, ins, obs>>

U32  == 0 .. 2 ^ Width - 1
Null == <<0, 0>>
Program  == ProgramOf(prog)
Inst     == DOMAIN Program.insts
ModOf(i) == Program.mods[Program.insts[i].mod]
ImportsOf(m, kind) == SelectSeq(m.imports, LAMBDA x : x.kind = kind)
Indices(m, kind) == 1 .. Len(ImportsOf(m, kind)) + Len(m[kind])

\* The object behind an index: an import is looked up by the name of its field
\* in the instance that was given for its module.
Resolve(inst, kind, index) ==
  LET object[i \in Inst, k \in Nat] ==
        LET imports == ImportsOf(ModOf(i), kind)
            imp == imports[k]
            j   == Program.insts[i].args[imp.module]
            e   == CHOOSE n \in DOMAIN ModOf(j).exports : ModOf(j).exports[n].name = imp.field
        IN  IF k > Len(imports) THEN <<i, k - Len(imports)>> ELSE object[j, ModOf(j).exports[e].index]
  IN  object[inst, index]
Sig(f) == ModOf(f[1]).func[f[2]].sig

EvalOne(i, x) ==
  CASE x.op = "const"      -> x.v
    [] x.op = "ref_null"   -> Null
    [] x.op = "ref_func"   -> Resolve(i, "func", x.v)
    [] x.op = "global_get" -> globals[Resolve(i, "global", x.v)]
\* Extended constants: the operands of an add are one instruction each.
Eval(i, e) ==
  LET n == Len(e)
  IN  IF e[n].op = "add" THEN (EvalOne(i, e[n - 2]) + EvalOne(i, e[n - 1])) % (2 ^ Width) ELSE EvalOne(i, e[n])

Active(m, kind) == SelectSeq(m[kind], LAMBDA s : s.active)
Replaced(old, d, new) == [k \in DOMAIN old |-> IF k - 1 \in d .. d + Len(new) - 1 THEN new[k - d] ELSE old[k]]
With(f, x, v) == [y \in DOMAIN f \cup {x} |-> IF y = x THEN v ELSE f[y]]
Ready(i) ==
  LET m == ModOf(i)
  IN  i \notin trapped /\ done[i] = Len(Active(m, "elem")) + Len(Active(m, "data")) + Len(m.starts) + 1

-----------------------------------------------------------------------------
(* Instantiation                                                            *)

Exist(i, kind, objects) == \A k \in Indices(ModOf(i), kind) : Resolve(i, kind, k) \in DOMAIN objects
NewGlobal(i, k) ==
  /\ <<i, k>> \notin DOMAIN globals
  /\ \A x \in 1 .. Len(ImportsOf(ModOf(i), "global")) : Resolve(i, "global", x) \in DOMAIN globals
  /\ globals' = With(globals, <<i, k>>, Eval(i, ModOf(i).global[k].init))
  /\ UNCHANGED <<prog, tables, memories, done, trapped, dropped, calls, ins, obs>>
NewTable(i, k) ==
  /\ <<i, k>> \notin DOMAIN tables
  /\ tables' = With(tables, <<i, k>>, [n \in 1 .. ModOf(i).table[k].initial |-> Null])
  /\ UNCHANGED <<prog, globals, memories, done, trapped, dropped, calls, ins, obs>>
NewMemory(i, k) ==
  /\ <<i, k>> \notin DOMAIN memories
  /\ memories' = With(memories, <<i, k>>, [n \in 1 .. ModOf(i).memory[k].initial |-> 0])
  /\ UNCHANGED <<prog, globals, tables, done, trapped, dropped, calls, ins, obs>>
Traps(i) == trapped' = trapped \cup {i} /\ UNCHANGED <<prog, globals, tables, memories, done, dropped, calls, ins, obs>>
Done(i) == done' = [done EXCEPT ![i] = @ + 1]

InitElem(i) ==
  LET segs == Active(ModOf(i), "elem")
      s    == segs[done[i] + 1]
      t    == Resolve(i, "table", s.index)
      d    == Eval(i, s.offset)
  IN  /\ i \notin trapped /\ done[i] < Len(segs) /\ Exist(i, "global", globals) /\ Exist(i, "table", tables)
      /\ IF d + Len(s.init) > Len(tables[t]) THEN Traps(i)
         ELSE /\ tables' = [tables EXCEPT ![t] = Replaced(@, d, [n \in DOMAIN s.init |-> Eval(i, s.init[n])])]
              /\ Done(i) /\ UNCHANGED <<prog, globals, memories, trapped, dropped, calls, ins, obs>>
InitData(i) ==
  LET segs == Active(ModOf(i), "data")
      n    == done[i] + 1 - Len(Active(ModOf(i), "elem"))
      s    == segs[n]
      a    == Resolve(i, "memory", s.index)
      d    == Eval(i, s.offset)
  IN  /\ i \notin trapped /\ n \in DOMAIN segs /\ Exist(i, "global", globals) /\ Exist(i, "memory", memories)
      /\ IF d + Len(s.init) > Len(memories[a]) THEN Traps(i)
         ELSE /\ memories' = [memories EXCEPT ![a] = Replaced(@, d, s.init)]
              /\ Done(i) /\ UNCHANGED <<prog, globals, tables, trapped, dropped, calls, ins, obs>>
Start(i) ==
  LET m == ModOf(i)
      n == done[i] + 1 - Len(Active(m, "elem")) - Len(Active(m, "data"))
  IN  /\ i \notin trapped /\ n \in DOMAIN m.starts
      /\ calls' = Append(calls, Resolve(i, "func", m.starts[n]))
      /\ Done(i) /\ UNCHANGED <<prog, globals, tables, memories, trapped, dropped, ins, obs>>
Finish(i) ==
  LET m == ModOf(i)
  IN  /\ i \notin trapped /\ done[i] = Len(Active(m, "elem")) + Len(Active(m, "data")) + Len(m.starts)
      /\ Exist(i, "global", globals) /\ Exist(i, "table", tables) /\ Exist(i, "memory", memories)
      /\ Done(i) /\ UNCHANGED <<prog, globals, tables, memories, trapped, dropped, calls, ins, obs>>

-----------------------------------------------------------------------------
(* Instructions on tables and references, run by a function of instance     *)
(* q.i: k and l are indices, d, s and n the operands; the reference operand *)
(* v is a function index, or 0 for null.                                    *)

Trap == <<"trap">>
Void == <<"void">>
Ref(q) == IF q.v = 0 THEN Null ELSE Resolve(q.i, "func", q.v)
At(q) == Resolve(q.i, "table", q.k)
Gives(v) == obs' = v /\ UNCHANGED <<globals, tables, dropped>>
\* The instruction traps unless ok, or puts the references new at d of table t.
Writes(ok, t, d, new) ==
  /\ obs' = IF ok THEN Void ELSE Trap
  /\ tables' = IF ok THEN [tables EXCEPT ![t] = Replaced(@, d, new)] ELSE tables
  /\ UNCHANGED <<globals, dropped>>
Slice(ok, s, from, n) == IF ok THEN SubSeq(s, from + 1, from + n) ELSE <<>>

TableGet(q)  == Gives(IF q.d < Len(tables[At(q)]) THEN <<"ref", tables[At(q)][q.d + 1]>> ELSE Trap)
TableSize(q) == Gives(<<"i32", Len(tables[At(q)])>>)
TableSet(q)  == Writes(q.d < Len(tables[At(q)]), At(q), q.d, <<Ref(q)>>)
TableFill(q) == Writes(q.d + q.n <= Len(tables[At(q)]), At(q), q.d, [j \in 1 .. q.n |-> Ref(q)])
TableCopy(q) ==
  LET src == tables[Resolve(q.i, "table", q.l)]
      ok  == q.d + q.n <= Len(tables[At(q)]) /\ q.s + q.n <= Len(src)
  IN  Writes(ok, At(q), q.d, Slice(ok, src, q.s, q.n))
TableInit(q) ==
  LET seg == ModOf(q.i).elem[q.l]
      src == IF seg.active \/ <<q.i, q.l>> \in dropped THEN <<>> ELSE [j \in DOMAIN seg.init |-> Eval(q.i, seg.init[j])]
      ok  == q.d + q.n <= Len(tables[At(q)]) /\ q.s + q.n <= Len(src)
  IN  Writes(ok, At(q), q.d, Slice(ok, src, q.s, q.n))
\* An active segment is gone since instantiation, an empty one has nothing to drop.
Droppable(seg) == ~seg.active /\ seg.init # <<>>
ElemDrop(q) == obs' = Void /\ dropped' = dropped \cup (IF Droppable(ModOf(q.i).elem[q.k]) THEN {<<q.i, q.k>>} ELSE {}) /\ UNCHANGED <<globals, tables>>
\* Growing may fail at any time.
TableGrow(q) ==
  LET old == Len(tables[At(q)])
  IN  \/ Gives(<<"i32", 2 ^ Width - 1>>)
      \/ /\ old + q.n <= ModOf(At(q)[1]).table[At(q)[2]].max
         /\ obs' = <<"i32", old>>
         /\ tables' = [tables EXCEPT ![At(q)] = @ \o [j \in 1 .. q.n |-> Ref(q)]]
         /\ UNCHANGED <<globals, dropped>>
CallIndirect(q) ==
  LET t == tables[At(q)]
      f == IF q.d < Len(t) THEN t[q.d + 1] ELSE Null
  IN  Gives(IF f = Null THEN Trap ELSE IF Sig(f) # ModOf(q.i).type[q.l].sig THEN Trap ELSE <<"call", f>>)
Call(q)      == Gives(<<"call", Resolve(q.i, "func", q.k)>>)
GlobalGet(q) == Gives(<<"global", globals[Resolve(q.i, "global", q.k)]>>)
GlobalSet(q) ==
  /\ obs' = Void
  /\ globals' = [globals EXCEPT ![Resolve(q.i, "global", q.k)] = Ref(q)]
  /\ UNCHANGED <<tables, dropped>>

Instruction(q) ==
  /\ Ready(q.i)
  /\ CASE q.op = "table_get" -> TableGet(q) [] q.op = "table_set" -> TableSet(q)
       [] q.op = "table_size" -> TableSize(q) [] q.op = "table_grow" -> TableGrow(q)
       [] q.op = "table_fill" -> TableFill(q) [] q.op = "table_copy" -> TableCopy(q)
       [] q.op = "table_init" -> TableInit(q) [] q.op = "elem_drop" -> ElemDrop(q)
       [] q.op = "call" -> Call(q) [] q.op = "call_indirect" -> CallIndirect(q)
       [] q.op = "global_get" -> GlobalGet(q) [] q.op = "global_set" -> GlobalSet(q)
  /\ UNCHANGED <<prog, memories, done, trapped, calls>>

Init == /\ globals = <<>> /\ tables = <<>> /\ memories = <<>>
        /\ done = [i \in Inst |-> 0] /\ trapped = {} /\ dropped = {} /\ calls = <<>> /\ obs = Void
Next ==
  \/ \E i \in Inst :
       \/ \E k \in DOMAIN ModOf(i).global : NewGlobal(i, k)
       \/ \E k \in DOMAIN ModOf(i).table : NewTable(i, k)
       \/ \E k \in DOMAIN ModOf(i).memory : NewMemory(i, k)
       \/ InitElem(i) \/ InitData(i) \/ Start(i) \/ Finish(i)
  \/ ins' # ins /\ Instruction(ins')
Spec == Init /\ [][Next]_vars
=============================================================================
