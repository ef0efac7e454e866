-------------------------- MODULE W2CModuleProofs --------------------------
(***************************************************************************)
(* Proofs about W2CModule, for every set of programs that are WellLinked   *)
(* and every set of threads: the runtime stands, and what a freed instance *)
(* had is released.                                                        *)
(***************************************************************************)
EXTENDS W2CModule, FiniteSetTheorems, TLAPS

-----------------------------------------------------------------------------
(* The runtime                                                              *)

Places == {"out", "in", "left"}
RtType ==
  /\ g_signal_handler_installed \in BOOLEAN /\ handler \in {"default", "trap"}
  /\ g_alt_stack \in [Thread -> BOOLEAN] /\ sigaltstack \in [Thread -> BOOLEAN]
  /\ stacks \subseteq Thread /\ where \in [Thread -> Places]

\* A thread that is in the runtime has its alternate stack, one that is not has
\* none, and one that never was has no address of one; the handler is that of
\* the runtime as long as Main is in it, and no thread is in it without Main.
RtInv ==
  /\ RtType
  /\ rt_failed = FALSE
  /\ \A u \in Thread :
       /\ where[u] = "out" => g_alt_stack[u] = FALSE
       /\ where[u] = "in" => g_alt_stack[u] = TRUE /\ sigaltstack[u] = TRUE /\ u \in stacks /\ where[Main] = "in"
       /\ where[u] # "in" => u \notin stacks
  /\ where[Main] = "in" => g_signal_handler_installed = TRUE /\ handler = "trap"
  /\ where[Main] # "in" => g_signal_handler_installed = FALSE /\ handler = "default"

LEMMA RtInitInv ==
  ASSUME RtInit
  PROVE  RtInv
BY MainIsThread DEF RtInit, RtInv, RtType, Places

LEMMA RtInitStep ==
  ASSUME RtInv, wasm_rt_init(Main)
  PROVE  RtInv'
<1>1. /\ where[Main] = "out" /\ rt_failed' = g_alt_stack[Main]
      /\ g_alt_stack' = [g_alt_stack EXCEPT ![Main] = TRUE]
      /\ stacks' = stacks \cup {Main}
      /\ sigaltstack' = [sigaltstack EXCEPT ![Main] = TRUE]
      /\ g_signal_handler_installed' = TRUE
      /\ handler' = IF g_signal_handler_installed THEN handler ELSE "trap"
      /\ where' = [where EXCEPT ![Main] = "in"]
  BY DEF wasm_rt_init, os_allocate_and_install_altstack
<1>2. RtType'
  BY <1>1, MainIsThread DEF RtInv, RtType, Places
<1>3. rt_failed' = FALSE /\ handler' = "trap"
  BY <1>1, MainIsThread DEF RtInv
<1>4. where'[Main] = "in"
  BY <1>1, MainIsThread DEF RtInv, RtType
<1>5. ASSUME NEW u \in Thread
      PROVE  /\ where'[u] = "out" => g_alt_stack'[u] = FALSE
             /\ where'[u] = "in" => g_alt_stack'[u] = TRUE /\ sigaltstack'[u] = TRUE /\ u \in stacks'
             /\ where'[u] # "in" => u \notin stacks'
  BY <1>1, MainIsThread DEF RtInv, RtType
<1> QED
  BY <1>1, <1>2, <1>3, <1>4, <1>5 DEF RtInv

LEMMA RtFreeStep ==
  ASSUME RtInv, wasm_rt_free(Main)
  PROVE  RtInv'
<1>1. /\ where[Main] = "in" /\ \A u \in Thread \ {Main} : where[u] # "in"
      /\ rt_failed' = ~(wasm_rt_is_initialized(Main) /\ g_alt_stack[Main])
      /\ handler' = "default" /\ g_signal_handler_installed' = FALSE
      /\ sigaltstack' = [sigaltstack EXCEPT ![Main] = FALSE]
      /\ stacks' = stacks \ {Main} /\ g_alt_stack' = g_alt_stack
      /\ where' = [where EXCEPT ![Main] = "left"]
  BY DEF wasm_rt_free, os_disable_and_deallocate_altstack
<1>2. RtType'
  BY <1>1, MainIsThread DEF RtInv, RtType, Places
<1>3. rt_failed' = FALSE
  BY <1>1, MainIsThread DEF RtInv, wasm_rt_is_initialized
<1>4. where'[Main] = "left"
  BY <1>1, MainIsThread DEF RtInv, RtType
<1>5. ASSUME NEW u \in Thread
      PROVE  /\ where'[u] = "out" => g_alt_stack'[u] = FALSE
             /\ where'[u] # "in" /\ u \notin stacks'
  BY <1>1, MainIsThread DEF RtInv, RtType
<1> QED
  BY <1>1, <1>2, <1>3, <1>4, <1>5 DEF RtInv

LEMMA RtThreadStep ==
  ASSUME RtInv, NEW u \in Thread, wasm_rt_init_thread(u) \/ wasm_rt_free_thread(u)
  PROVE  RtInv'
<1>1. CASE wasm_rt_init_thread(u)
  <2>1. /\ u # Main /\ where[Main] = "in" /\ where[u] = "out" /\ rt_failed' = g_alt_stack[u]
        /\ g_alt_stack' = [g_alt_stack EXCEPT ![u] = TRUE]
        /\ stacks' = stacks \cup {u}
        /\ sigaltstack' = [sigaltstack EXCEPT ![u] = TRUE]
        /\ where' = [where EXCEPT ![u] = "in"]
        /\ g_signal_handler_installed' = g_signal_handler_installed /\ handler' = handler
    BY <1>1 DEF wasm_rt_init_thread, os_allocate_and_install_altstack
  <2>2. RtType'
    BY <2>1 DEF RtInv, RtType, Places
  <2>3. rt_failed' = FALSE
    BY <2>1 DEF RtInv
  <2>4. where'[Main] = "in"
    BY <2>1, MainIsThread DEF RtInv, RtType
  <2>5. ASSUME NEW v \in Thread
        PROVE  /\ where'[v] = "out" => g_alt_stack'[v] = FALSE
               /\ where'[v] = "in" => g_alt_stack'[v] = TRUE /\ sigaltstack'[v] = TRUE /\ v \in stacks'
               /\ where'[v] # "in" => v \notin stacks'
    BY <2>1 DEF RtInv, RtType
  <2>6. g_signal_handler_installed' = TRUE /\ handler' = "trap"
    BY <2>1 DEF RtInv
  <2> QED
    BY <2>2, <2>3, <2>4, <2>5, <2>6 DEF RtInv
<1>2. CASE wasm_rt_free_thread(u)
  <2>1. /\ u # Main /\ where[u] = "in" /\ rt_failed' = ~g_alt_stack[u]
        /\ g_alt_stack' = g_alt_stack
        /\ stacks' = stacks \ {u}
        /\ sigaltstack' = [sigaltstack EXCEPT ![u] = FALSE]
        /\ where' = [where EXCEPT ![u] = "left"]
        /\ g_signal_handler_installed' = g_signal_handler_installed /\ handler' = handler
    BY <1>2 DEF wasm_rt_free_thread, os_disable_and_deallocate_altstack
  <2>2. RtType'
    BY <2>1 DEF RtInv, RtType, Places
  <2>3. rt_failed' = FALSE
    BY <2>1 DEF RtInv
  <2>4. where'[Main] = "in"
    BY <2>1, MainIsThread DEF RtInv, RtType
  <2>5. ASSUME NEW v \in Thread
        PROVE  /\ where'[v] = "out" => g_alt_stack'[v] = FALSE
               /\ where'[v] = "in" => g_alt_stack'[v] = TRUE /\ sigaltstack'[v] = TRUE /\ v \in stacks'
               /\ where'[v] # "in" => v \notin stacks'
    BY <2>1 DEF RtInv, RtType
  <2>6. g_signal_handler_installed' = TRUE /\ handler' = "trap"
    BY <2>1, <2>4, MainIsThread DEF RtInv, RtType
  <2> QED
    BY <2>2, <2>3, <2>4, <2>5, <2>6 DEF RtInv
<1> QED
  BY <1>1, <1>2

LEMMA RtOverflowStep ==
  ASSUME RtInv, NEW u \in Thread, StackOverflow(u)
  PROVE  RtInv'
<1>1. rt_failed' = FALSE
  BY DEF StackOverflow, RtInv
<1> QED
  BY <1>1 DEF StackOverflow, RtInv, RtType, Places

LEMMA RtUnchanged ==
  ASSUME RtInv, UNCHANGED rtvars
  PROVE  RtInv'
BY DEF RtInv, RtType, rtvars

-----------------------------------------------------------------------------
(* The structs.  The parts of the invariant are operators on the structs c, *)
(* the statuses st and the statements p that are next.                      *)

\* A table or memory of an instance can be told live from dead.
LiveFields(c) == \A i \in Inst : \A sym \in Owned(i) : sym \in DOMAIN c[i] => "live" \in DOMAIN c[i][sym]

\* The pointer to an imported global leads to a global that an instance defines.
GlobalFields(i) ==
  {ExportName(ModOf(i).imports[j].module, ModOf(i).imports[j].field) :
     j \in {l \in DOMAIN ModOf(i).imports : ModOf(i).imports[l].kind = "global"}}
GlobalPtr(p) ==
  /\ "inst" \in DOMAIN p /\ "at" \in DOMAIN p
  /\ p.inst \in Inst => p.at \in MembersOf(p.inst, "global")
PointersTyped(c) == \A i \in Inst : \A sym \in GlobalFields(i) : sym \in DOMAIN c[i] => GlobalPtr(c[i][sym])

\* What an instance owns is made before it is ready and dead when it is freed.
Released(c, st) ==
  \A i \in Inst : st[i] = "freed" => \A sym \in Owned(i) : sym \in DOMAIN c[i] /\ c[i][sym].live = FALSE
Allocated(c, st) == \A i \in Inst : st[i] = "ready" => \A sym \in Owned(i) : sym \in DOMAIN c[i]
Made(i, s) == GlobalName(i, s.op, ModOf(i)[s.op][s.n].name)
Progress(c, st, p) ==
  \A i \in Inst : st[i] = "run" =>
    /\ p[i] \in DOMAIN Script(i)
    /\ \A j \in 1 .. p[i] - 1 : Script(i)[j].op \in {"table", "memory"} => Made(i, Script(i)[j]) \in DOMAIN c[i]

Struct(c, st, p) ==
  /\ DOMAIN c = Inst /\ DOMAIN st = Inst /\ DOMAIN p = Inst
  /\ LiveFields(c) /\ PointersTyped(c) /\ Released(c, st) /\ Allocated(c, st) /\ Progress(c, st, p)

\* d is c with value v in member sym of instance i.
Written(c, d, i, sym, v) ==
  d = [c EXCEPT ![i] = [s \in DOMAIN @ \cup {sym} |-> IF s = sym THEN v ELSE @[s]]]

LEMMA WrittenFacts ==
  ASSUME NEW c, DOMAIN c = Inst, NEW d, NEW i \in Inst, NEW sym, NEW v, Written(c, d, i, sym, v)
  PROVE  /\ DOMAIN d = Inst /\ DOMAIN d[i] = DOMAIN c[i] \cup {sym} /\ d[i][sym] = v
         /\ \A s \in DOMAIN c[i] : s # sym => d[i][s] = c[i][s]
         /\ \A j \in Inst : j # i => d[j] = c[j]
<1>1. PICK w : w = [s \in DOMAIN c[i] \cup {sym} |-> IF s = sym THEN v ELSE c[i][s]]
  OBVIOUS
<1>2. d = [c EXCEPT ![i] = w]
  BY <1>1 DEF Written
<1>3. DOMAIN d = Inst /\ d[i] = w /\ \A j \in Inst : j # i => d[j] = c[j]
  BY <1>2
<1>4. DOMAIN w = DOMAIN c[i] \cup {sym} /\ w[sym] = v /\ \A s \in DOMAIN c[i] : s # sym => w[s] = c[i][s]
  BY <1>1
<1> QED
  BY <1>3, <1>4

\* The members a struct has stay.
LEMMA WrittenGrows ==
  ASSUME NEW c, DOMAIN c = Inst, NEW d, NEW i \in Inst, NEW sym, NEW v, Written(c, d, i, sym, v)
  PROVE  \A j \in Inst : \A s \in DOMAIN c[j] : s \in DOMAIN d[j]
<1>1. DOMAIN d[i] = DOMAIN c[i] \cup {sym} /\ \A j \in Inst : j # i => d[j] = c[j]
  BY WrittenFacts
<1> QED
  BY <1>1

LEMMA WrittenProgress ==
  ASSUME NEW c, NEW d, NEW st, NEW p, Progress(c, st, p), Allocated(c, st),
         \A j \in Inst : \A s \in DOMAIN c[j] : s \in DOMAIN d[j]
  PROVE  Progress(d, st, p) /\ Allocated(d, st)
<1>1. Allocated(d, st)
  BY DEF Allocated
<1>2. ASSUME NEW i \in Inst, st[i] = "run"
      PROVE  /\ p[i] \in DOMAIN Script(i)
             /\ \A j \in 1 .. p[i] - 1 : Script(i)[j].op \in {"table", "memory"} => Made(i, Script(i)[j]) \in DOMAIN d[i]
  BY <1>2 DEF Progress
<1> QED
  BY <1>1, <1>2 DEF Progress

\* Writing a member that is no table or memory; a pointer to a global is one.
LEMMA WriteOther ==
  ASSUME NEW c, NEW st, NEW p, Struct(c, st, p), NEW d, NEW i \in Inst, NEW sym, NEW v,
         Written(c, d, i, sym, v), sym \notin Owned(i), sym \in GlobalFields(i) => GlobalPtr(v)
  PROVE  Struct(d, st, p)
<1>1. /\ DOMAIN c = Inst /\ DOMAIN st = Inst /\ DOMAIN p = Inst
      /\ LiveFields(c) /\ PointersTyped(c) /\ Released(c, st) /\ Allocated(c, st) /\ Progress(c, st, p)
  BY DEF Struct
<1>2. /\ DOMAIN d = Inst /\ DOMAIN d[i] = DOMAIN c[i] \cup {sym} /\ d[i][sym] = v
      /\ \A s \in DOMAIN c[i] : s # sym => d[i][s] = c[i][s]
      /\ \A j \in Inst : j # i => d[j] = c[j]
  BY <1>1, WrittenFacts
<1>3. LiveFields(d)
  BY <1>1, <1>2 DEF LiveFields
<1>4. PointersTyped(d)
  <2>1. ASSUME NEW j \in Inst, NEW s \in GlobalFields(j), s \in DOMAIN d[j] PROVE GlobalPtr(d[j][s])
    <3>1. CASE j = i /\ s = sym
      BY <1>2, <3>1, <2>1
    <3>2. CASE j = i /\ s # sym
      BY <1>1, <1>2, <3>2, <2>1 DEF PointersTyped
    <3>3. CASE j # i
      BY <1>1, <1>2, <3>3, <2>1 DEF PointersTyped
    <3> QED
      BY <3>1, <3>2, <3>3
  <2> QED
    BY <2>1 DEF PointersTyped
<1>5. Released(d, st)
  BY <1>1, <1>2 DEF Released
<1>6. Progress(d, st, p) /\ Allocated(d, st)
  <2>1. \A j \in Inst : \A s \in DOMAIN c[j] : s \in DOMAIN d[j]
    BY <1>1, WrittenGrows
  <2> QED
    BY <1>1, <2>1, WrittenProgress
<1> QED
  BY <1>1, <1>2, <1>3, <1>4, <1>5, <1>6 DEF Struct

\* Writing to a table or memory what it was but for its data and size; and a
\* pointer written to like that stays what it is.
Same(v, w) ==
  /\ DOMAIN v = DOMAIN w
  /\ "live" \in DOMAIN w => v.live = w.live
  /\ "inst" \in DOMAIN w => v.inst = w.inst
  /\ "at" \in DOMAIN w => v.at = w.at

LEMMA WriteSame ==
  ASSUME NEW c, NEW st, NEW p, Struct(c, st, p), NEW d, NEW i \in Inst, NEW sym \in DOMAIN c[i], NEW v,
         Written(c, d, i, sym, v), Same(v, c[i][sym])
  PROVE  Struct(d, st, p)
<1>1. /\ DOMAIN c = Inst /\ DOMAIN st = Inst /\ DOMAIN p = Inst
      /\ LiveFields(c) /\ PointersTyped(c) /\ Released(c, st) /\ Allocated(c, st) /\ Progress(c, st, p)
  BY DEF Struct
<1>2. /\ DOMAIN d = Inst /\ DOMAIN d[i] = DOMAIN c[i] \cup {sym} /\ d[i][sym] = v
      /\ \A s \in DOMAIN c[i] : s # sym => d[i][s] = c[i][s]
      /\ \A j \in Inst : j # i => d[j] = c[j]
  BY <1>1, WrittenFacts
<1>3. \A j \in Inst : DOMAIN d[j] = DOMAIN c[j]
  BY <1>2
<1>4. \A j \in Inst : \A s \in DOMAIN c[j] : Same(d[j][s], c[j][s])
  <2>1. ASSUME NEW j \in Inst, NEW s \in DOMAIN c[j] PROVE Same(d[j][s], c[j][s])
    <3>1. CASE j = i /\ s = sym
      BY <1>2, <3>1
    <3>2. CASE ~(j = i /\ s = sym)
      <4>1. d[j][s] = c[j][s]
        BY <1>2, <3>2
      <4> QED
        BY <4>1 DEF Same
    <3> QED
      BY <3>1, <3>2
  <2> QED
    BY <2>1
<1>5. LiveFields(d)
  BY <1>1, <1>3, <1>4 DEF LiveFields, Same
<1>6. PointersTyped(d)
  <2>1. ASSUME NEW j \in Inst, NEW s \in GlobalFields(j), s \in DOMAIN d[j] PROVE GlobalPtr(d[j][s])
    <3>1. s \in DOMAIN c[j]
      BY <1>3, <2>1
    <3>2. GlobalPtr(c[j][s]) /\ Same(d[j][s], c[j][s])
      BY <1>1, <1>4, <3>1 DEF PointersTyped
    <3> QED
      BY <3>2 DEF GlobalPtr, Same
  <2> QED
    BY <2>1 DEF PointersTyped
<1>7. Released(d, st)
  <2>1. ASSUME NEW j \in Inst, st[j] = "freed", NEW s \in Owned(j)
        PROVE  s \in DOMAIN d[j] /\ d[j][s].live = FALSE
    <3>1. s \in DOMAIN c[j] /\ c[j][s].live = FALSE
      BY <1>1, <2>1 DEF Released
    <3>2. "live" \in DOMAIN c[j][s] /\ Same(d[j][s], c[j][s])
      BY <1>1, <1>4, <3>1 DEF LiveFields
    <3> QED
      BY <1>3, <3>1, <3>2 DEF Same
  <2> QED
    BY <2>1 DEF Released
<1>8. Progress(d, st, p) /\ Allocated(d, st)
  BY <1>1, <1>3, WrittenProgress
<1> QED
  BY <1>1, <1>2, <1>5, <1>6, <1>7, <1>8 DEF Struct

\* A table or memory is made by an instance that is not freed.
LEMMA WriteNew ==
  ASSUME NEW c, NEW st, NEW p, Struct(c, st, p), NEW d, NEW i \in Inst, NEW sym, NEW v,
         Written(c, d, i, sym, v), st[i] = "run", sym \notin GlobalFields(i), "live" \in DOMAIN v
  PROVE  Struct(d, st, p)
<1>1. /\ DOMAIN c = Inst /\ DOMAIN st = Inst /\ DOMAIN p = Inst
      /\ LiveFields(c) /\ PointersTyped(c) /\ Released(c, st) /\ Allocated(c, st) /\ Progress(c, st, p)
  BY DEF Struct
<1>2. /\ DOMAIN d = Inst /\ DOMAIN d[i] = DOMAIN c[i] \cup {sym} /\ d[i][sym] = v
      /\ \A s \in DOMAIN c[i] : s # sym => d[i][s] = c[i][s]
      /\ \A j \in Inst : j # i => d[j] = c[j]
  BY <1>1, WrittenFacts
<1>3. LiveFields(d)
  <2>1. ASSUME NEW j \in Inst, NEW s \in Owned(j), s \in DOMAIN d[j] PROVE "live" \in DOMAIN d[j][s]
    <3>1. CASE j = i /\ s = sym
      BY <1>2, <3>1
    <3>2. CASE j = i /\ s # sym
      BY <1>1, <1>2, <3>2, <2>1 DEF LiveFields
    <3>3. CASE j # i
      BY <1>1, <1>2, <3>3, <2>1 DEF LiveFields
    <3> QED
      BY <3>1, <3>2, <3>3
  <2> QED
    BY <2>1 DEF LiveFields
<1>4. PointersTyped(d)
  BY <1>1, <1>2 DEF PointersTyped
<1>5. Released(d, st)
  BY <1>1, <1>2 DEF Released
<1>6. Progress(d, st, p) /\ Allocated(d, st)
  <2>1. \A j \in Inst : \A s \in DOMAIN c[j] : s \in DOMAIN d[j]
    BY <1>1, WrittenGrows
  <2> QED
    BY <1>1, <2>1, WrittenProgress
<1> QED
  BY <1>1, <1>2, <1>3, <1>4, <1>5, <1>6 DEF Struct

\* The status and the next statement.
LEMMA Begins ==
  ASSUME NEW c, NEW st, NEW p, Struct(c, st, p), NEW i \in Inst, ScriptComplete(i)
  PROVE  Struct(c, [st EXCEPT ![i] = "run"], [p EXCEPT ![i] = 1])
<1>1. PICK su, q : su = [st EXCEPT ![i] = "run"] /\ q = [p EXCEPT ![i] = 1]
  OBVIOUS
<1>2. /\ DOMAIN c = Inst /\ DOMAIN st = Inst /\ DOMAIN p = Inst
      /\ LiveFields(c) /\ PointersTyped(c) /\ Released(c, st) /\ Allocated(c, st) /\ Progress(c, st, p)
  BY DEF Struct
<1>3. /\ DOMAIN su = Inst /\ DOMAIN q = Inst /\ su[i] = "run" /\ q[i] = 1
      /\ \A j \in Inst : j # i => su[j] = st[j] /\ q[j] = p[j]
  BY <1>1, <1>2
<1>4. Released(c, su) /\ Allocated(c, su)
  BY <1>2, <1>3 DEF Released, Allocated
<1>5. 1 \in DOMAIN Script(i)
  BY DEF ScriptComplete
<1>6. Progress(c, su, q)
  <2>1. ASSUME NEW k \in Inst, su[k] = "run"
        PROVE  /\ q[k] \in DOMAIN Script(k)
               /\ \A j \in 1 .. q[k] - 1 : Script(k)[j].op \in {"table", "memory"} => Made(k, Script(k)[j]) \in DOMAIN c[k]
    <3>1. CASE k = i
      <4>1. \A j \in 1 .. q[k] - 1 : FALSE
        BY <1>3, <3>1
      <4> QED
        BY <1>3, <1>5, <3>1, <4>1
    <3>2. CASE k # i
      BY <1>2, <1>3, <2>1, <3>2 DEF Progress
    <3> QED
      BY <3>1, <3>2
  <2> QED
    BY <2>1 DEF Progress
<1> QED
  BY <1>1, <1>2, <1>3, <1>4, <1>6 DEF Struct

LEMMA ScriptFacts ==
  ASSUME NEW i \in Inst, ScriptComplete(i)
  PROVE  /\ Len(Script(i)) \in Nat \ {0} /\ DOMAIN Script(i) = 1 .. Len(Script(i))
         /\ \A j \in DOMAIN Script(i) : Script(i)[j].op = "return" <=> j = Len(Script(i))
BY DEF ScriptComplete

LEMMA Advances ==
  ASSUME NEW c, NEW st, NEW p, Struct(c, st, p), NEW i \in Inst, ScriptComplete(i),
         st[i] = "run", Script(i)[p[i]].op # "return",
         Script(i)[p[i]].op \in {"table", "memory"} => Made(i, Script(i)[p[i]]) \in DOMAIN c[i]
  PROVE  Struct(c, st, [p EXCEPT ![i] = @ + 1])
<1>1. PICK q : q = [p EXCEPT ![i] = @ + 1]
  OBVIOUS
<1>2. /\ DOMAIN c = Inst /\ DOMAIN st = Inst /\ DOMAIN p = Inst
      /\ LiveFields(c) /\ PointersTyped(c) /\ Released(c, st) /\ Allocated(c, st) /\ Progress(c, st, p)
  BY DEF Struct
<1>3. DOMAIN q = Inst /\ q[i] = p[i] + 1 /\ \A j \in Inst : j # i => q[j] = p[j]
  BY <1>1, <1>2
<1>4. p[i] \in DOMAIN Script(i)
  BY <1>2 DEF Progress
<1>5. PICK n : n = Len(Script(i))
  OBVIOUS
<1>6. n \in Nat /\ p[i] \in 1 .. n /\ p[i] # n
  BY <1>4, <1>5, ScriptFacts
<1>7. q[i] \in DOMAIN Script(i) /\ q[i] - 1 = p[i]
  BY <1>3, <1>5, <1>6, ScriptFacts
<1>8. Progress(c, st, q)
  <2>1. ASSUME NEW k \in Inst, st[k] = "run"
        PROVE  /\ q[k] \in DOMAIN Script(k)
               /\ \A j \in 1 .. q[k] - 1 : Script(k)[j].op \in {"table", "memory"} => Made(k, Script(k)[j]) \in DOMAIN c[k]
    <3>1. CASE k = i
      <4>1. ASSUME NEW j \in 1 .. q[i] - 1, Script(i)[j].op \in {"table", "memory"}
            PROVE  Made(i, Script(i)[j]) \in DOMAIN c[i]
        <5>1. j = p[i] \/ j \in 1 .. p[i] - 1
          BY <1>6, <1>7, <4>1
        <5>2. ASSUME j \in 1 .. p[i] - 1 PROVE Made(i, Script(i)[j]) \in DOMAIN c[i]
          BY <1>2, <4>1, <5>2 DEF Progress
        <5> QED
          BY <4>1, <5>1, <5>2
      <4> QED
        BY <1>7, <3>1, <4>1
    <3>2. CASE k # i
      BY <1>2, <1>3, <2>1, <3>2 DEF Progress
    <3> QED
      BY <3>1, <3>2
  <2> QED
    BY <2>1 DEF Progress
<1> QED
  BY <1>1, <1>2, <1>3, <1>8 DEF Struct

LEMMA Finishes ==
  ASSUME NEW c, NEW st, NEW p, Struct(c, st, p), NEW i \in Inst, ScriptComplete(i),
         st[i] = "run", Script(i)[p[i]].op = "return"
  PROVE  Struct(c, [st EXCEPT ![i] = "ready"], [p EXCEPT ![i] = @ + 1])
<1>1. PICK su, q : su = [st EXCEPT ![i] = "ready"] /\ q = [p EXCEPT ![i] = @ + 1]
  OBVIOUS
<1>2. /\ DOMAIN c = Inst /\ DOMAIN st = Inst /\ DOMAIN p = Inst
      /\ LiveFields(c) /\ PointersTyped(c) /\ Released(c, st) /\ Allocated(c, st) /\ Progress(c, st, p)
  BY DEF Struct
<1>3. /\ DOMAIN su = Inst /\ DOMAIN q = Inst /\ su[i] = "ready"
      /\ \A j \in Inst : j # i => su[j] = st[j] /\ q[j] = p[j]
  BY <1>1, <1>2
<1>4. p[i] \in DOMAIN Script(i)
  BY <1>2 DEF Progress
<1>5. PICK n : n = Len(Script(i))
  OBVIOUS
<1>6. n \in Nat /\ p[i] = n
  BY <1>4, <1>5, ScriptFacts
<1>7. ASSUME NEW kind \in {"table", "memory"}, NEW sym \in MembersOf(i, kind) PROVE sym \in DOMAIN c[i]
  <2>1. PICK k \in DOMAIN ModOf(i)[kind] : sym = GlobalName(i, kind, ModOf(i)[kind][k].name)
    BY <1>7 DEF MembersOf
  <2>2. PICK j \in DOMAIN Script(i) : Script(i)[j].op = kind /\ Script(i)[j].n = k
    BY <2>1 DEF ScriptComplete
  <2>3. j \in 1 .. n /\ j # n
    BY <1>5, <2>2, ScriptFacts
  <2>4. j \in 1 .. p[i] - 1
    BY <1>6, <2>3
  <2>5. Made(i, Script(i)[j]) \in DOMAIN c[i]
    BY <1>2, <2>2, <2>4 DEF Progress
  <2>6. Made(i, Script(i)[j]) = sym
    BY <2>1, <2>2 DEF Made
  <2> QED
    BY <2>5, <2>6
<1>8. \A sym \in Owned(i) : sym \in DOMAIN c[i]
  BY <1>7 DEF Owned
<1>9. Released(c, su) /\ Allocated(c, su) /\ Progress(c, su, q)
  BY <1>2, <1>3, <1>8 DEF Released, Allocated, Progress
<1> QED
  BY <1>1, <1>2, <1>3, <1>9 DEF Struct

LEMMA Traps ==
  ASSUME NEW c, NEW st, NEW p, Struct(c, st, p), NEW i \in Inst
  PROVE  Struct(c, [st EXCEPT ![i] = "trapped"], p)
<1>1. PICK su : su = [st EXCEPT ![i] = "trapped"]
  OBVIOUS
<1>2. /\ DOMAIN c = Inst /\ DOMAIN st = Inst /\ DOMAIN p = Inst
      /\ LiveFields(c) /\ PointersTyped(c) /\ Released(c, st) /\ Allocated(c, st) /\ Progress(c, st, p)
  BY DEF Struct
<1>3. DOMAIN su = Inst /\ su[i] = "trapped" /\ \A j \in Inst : j # i => su[j] = st[j]
  BY <1>1, <1>2
<1>4. Released(c, su) /\ Allocated(c, su) /\ Progress(c, su, p)
  BY <1>2, <1>3 DEF Released, Allocated, Progress
<1> QED
  BY <1>1, <1>2, <1>3, <1>4 DEF Struct

\* Freeing an instance kills what it owns, all of which is there.
LEMMA Frees ==
  ASSUME NEW c, NEW st, NEW p, Struct(c, st, p), NEW i \in Inst, st[i] = "ready",
         \A sym \in GlobalFields(i) : sym \notin Owned(i),
         NEW d, d = [c EXCEPT ![i] = [sym \in DOMAIN @ |-> IF sym \in Owned(i) THEN [@[sym] EXCEPT !.live = FALSE] ELSE @[sym]]]
  PROVE  Struct(d, [st EXCEPT ![i] = "freed"], p)
<1>1. PICK su : su = [st EXCEPT ![i] = "freed"]
  OBVIOUS
<1>2. /\ DOMAIN c = Inst /\ DOMAIN st = Inst /\ DOMAIN p = Inst
      /\ LiveFields(c) /\ PointersTyped(c) /\ Released(c, st) /\ Allocated(c, st) /\ Progress(c, st, p)
  BY DEF Struct
<1>3. DOMAIN su = Inst /\ su[i] = "freed" /\ \A j \in Inst : j # i => su[j] = st[j]
  BY <1>1, <1>2
<1>4. PICK w : w = [sym \in DOMAIN c[i] |-> IF sym \in Owned(i) THEN [c[i][sym] EXCEPT !.live = FALSE] ELSE c[i][sym]]
  OBVIOUS
<1>5. d = [c EXCEPT ![i] = w]
  BY <1>4
<1>6. DOMAIN d = Inst /\ d[i] = w /\ \A j \in Inst : j # i => d[j] = c[j]
  BY <1>2, <1>5
<1>7. /\ DOMAIN w = DOMAIN c[i]
      /\ \A sym \in DOMAIN w : IF sym \in Owned(i) THEN w[sym] = [c[i][sym] EXCEPT !.live = FALSE] ELSE w[sym] = c[i][sym]
  BY <1>4
<1>8. \A sym \in Owned(i) : sym \in DOMAIN w /\ "live" \in DOMAIN w[sym] /\ w[sym].live = FALSE
  <2>1. ASSUME NEW sym \in Owned(i) PROVE sym \in DOMAIN w /\ "live" \in DOMAIN w[sym] /\ w[sym].live = FALSE
    <3>1. sym \in DOMAIN c[i]
      BY <1>2 DEF Allocated
    <3>2. "live" \in DOMAIN c[i][sym]
      BY <1>2, <3>1 DEF LiveFields
    <3>3. sym \in DOMAIN w /\ w[sym] = [c[i][sym] EXCEPT !.live = FALSE]
      BY <1>7, <3>1
    <3>4. PICK x : x = c[i][sym]
      OBVIOUS
    <3> QED
      BY <3>2, <3>3, <3>4
  <2> QED
    BY <2>1
<1>9. LiveFields(d)
  BY <1>2, <1>6, <1>8 DEF LiveFields
<1>10. PointersTyped(d)
  <2>1. ASSUME NEW j \in Inst, NEW s \in GlobalFields(j), s \in DOMAIN d[j] PROVE GlobalPtr(d[j][s])
    <3>1. s \in DOMAIN c[j] /\ d[j][s] = c[j][s]
      BY <1>6, <1>7, <2>1
    <3> QED
      BY <1>2, <3>1 DEF PointersTyped
  <2> QED
    BY <2>1 DEF PointersTyped
<1>11. Released(d, su)
  BY <1>2, <1>3, <1>6, <1>8 DEF Released
<1>12. \A j \in Inst : \A s \in DOMAIN c[j] : s \in DOMAIN d[j]
  BY <1>6, <1>7
<1>13. Progress(d, st, p) /\ Allocated(d, st)
  BY <1>2, <1>12, WrittenProgress
<1>14. Progress(d, su, p) /\ Allocated(d, su)
  BY <1>3, <1>13 DEF Progress, Allocated
<1> QED
  BY <1>1, <1>2, <1>3, <1>6, <1>9, <1>10, <1>11, <1>14 DEF Struct
-----------------------------------------------------------------------------
(* What WellLinked says of pointers and members.                            *)

LEMMA Sorts ==
  ASSUME WellLinked, NEW i \in Inst
  PROVE  /\ \A s \in MembersOf(i, "global") : s \notin Owned(i) /\ s \notin GlobalFields(i)
         /\ \A s \in ImportInstances(i) : s \notin Owned(i) /\ s \notin GlobalFields(i)
         /\ \A s \in Flags(i) : s \notin Owned(i) /\ s \notin GlobalFields(i)
         /\ \A s \in ImportFields(i) : s \notin Owned(i)
         /\ \A s \in Owned(i) : s \notin GlobalFields(i)
<1>1. MembersApart(i)
  BY DEF WellLinked
<1>2. GlobalFields(i) \subseteq ImportFields(i)
  BY DEF GlobalFields, ImportFields
<1>3. PICK g, f, n, t, o : /\ g = MembersOf(i, "global") /\ f = ImportFields(i) /\ n = ImportInstances(i)
                           /\ t = Flags(i) /\ o = Owned(i)
  OBVIOUS
<1>4. o \cap (g \cup f \cup n \cup t) = {} /\ f \cap (g \cup n \cup t) = {}
  BY <1>1, <1>3 DEF MembersApart
<1> QED
  BY <1>2, <1>3, <1>4

LEMMA GlobalPointer ==
  ASSUME WellLinked, PointersTyped(cells), NEW i \in Inst, NEW k \in Globals(i)
  PROVE  GlobalPtr(ExternalInstancePtr(i, "global", k))
<1>1. PICK m, name : m = ModOf(i) /\ name = NameOf(m, "global", k)
  OBVIOUS
<1>2. IndicesResolve(i) /\ 0 \notin Inst
  BY DEF WellLinked
<1>3. PICK sym : sym = GlobalName(i, "global", name)
  OBVIOUS
<1>4. CASE IsImport(m, name)
  <2>1. PICK j \in DOMAIN m.imports : m.imports[j].kind = "global" /\ m.imports[j].name = name
    BY <1>1, <1>2, <1>4 DEF IndicesResolve, DefinedIndices, GlobalDeclared, ExportedGlobal
  <2>2. sym = ExportName(m.imports[j].module, m.imports[j].field)
    BY <1>1, <1>2, <1>3, <2>1 DEF IndicesResolve, DefinedIndices, GlobalDeclared, ExportedGlobal
  <2>3. sym \in GlobalFields(i)
    BY <1>1, <2>1, <2>2 DEF GlobalFields
  <2>4. ExternalInstancePtr(i, "global", k) = Member(i, sym)
    BY <1>1, <1>3, <1>4 DEF ExternalInstancePtr
  <2>5. CASE sym \in DOMAIN cells[i]
    BY <2>3, <2>4, <2>5 DEF PointersTyped, Member
  <2>6. CASE sym \notin DOMAIN cells[i]
    <3>1. Member(i, sym) = NoPtr
      BY <2>6 DEF Member
    <3>2. GlobalPtr(NoPtr)
      BY <1>2 DEF GlobalPtr, NoPtr
    <3> QED
      BY <2>4, <3>1, <3>2
  <2> QED
    BY <2>5, <2>6
<1>5. CASE ~IsImport(m, name)
  <2>1. PICK l \in DOMAIN m.global : m.global[l].name = name
    BY <1>1, <1>2, <1>5 DEF IndicesResolve, DefinedIndices, GlobalDeclared, ExportedGlobal
  <2>2. sym \in MembersOf(i, "global")
    BY <1>1, <1>3, <2>1 DEF MembersOf
  <2>3. ExternalInstancePtr(i, "global", k) = [inst |-> i, at |-> sym]
    BY <1>1, <1>3, <1>5 DEF ExternalInstancePtr
  <2>4. PICK p : p = [inst |-> i, at |-> sym]
    OBVIOUS
  <2>5. GlobalPtr(p)
    BY <2>2, <2>4 DEF GlobalPtr
  <2> QED
    BY <2>3, <2>4, <2>5
<1> QED
  BY <1>4, <1>5

\* An object that a module defines is in its own instance.
LEMMA DefinedPointer ==
  ASSUME WellLinked, NEW i \in Inst, NEW kind \in {"global", "table", "memory"}, NEW k \in DOMAIN ModOf(i)[kind]
  PROVE  ExternalInstancePtr(i, kind, Len(ImportsOf(ModOf(i), kind)) + k)
           = [inst |-> i, at |-> GlobalName(i, kind, ModOf(i)[kind][k].name)]
<1>1. PICK m, name : m = ModOf(i) /\ name = m[kind][k].name
  OBVIOUS
<1>2. IndicesResolve(i)
  BY DEF WellLinked
<1>3. NameOf(m, kind, Len(ImportsOf(m, kind)) + k) = name /\ ~IsImport(m, name)
  BY <1>1, <1>2 DEF IndicesResolve, DefinedIndices, GlobalDeclared, ExportedGlobal
<1> QED
  BY <1>1, <1>3 DEF ExternalInstancePtr

\* What an import statement stores.
LEMMA ImportPointer ==
  ASSUME WellLinked, PointersTyped(cells), NEW i \in Inst, NEW n \in DOMAIN ModOf(i).imports,
         NEW sym, sym = ExportName(ModOf(i).imports[n].module, ModOf(i).imports[n].field),
         NEW e, e = Program.insts[i].args[ModOf(i).imports[n].module],
         NEW d \in Definers(sym), d[1] = Program.insts[e].mod,
         sym \in GlobalFields(i)
  PROVE  GlobalPtr(ExternalInstancePtr(e, ModOf(i).imports[n].kind, ModOf(e).exports[d[2]].index))
<1>1. PICK m : m = ModOf(i)
  OBVIOUS
<1>2. IndicesResolve(i)
  BY DEF WellLinked
<1>3. PICK j \in DOMAIN m.imports : m.imports[j].kind = "global" /\ sym = ExportName(m.imports[j].module, m.imports[j].field)
  BY <1>1 DEF GlobalFields
<1>4. /\ m.imports[n].kind = "global"
      /\ e \in Inst
      /\ ModOf(e).exports[d[2]].index \in Globals(e)
  BY <1>1, <1>2, <1>3 DEF IndicesResolve, DefinedIndices, GlobalDeclared, ExportedGlobal
<1> QED
  BY <1>1, <1>4, GlobalPointer
-----------------------------------------------------------------------------
(* The statements of <module>_instantiate.                                  *)

\* A statement that writes a member and goes on.
LEMMA SetAndAdvance ==
  ASSUME NEW i \in Inst, ScriptComplete(i), NEW op, Next1(i, op), op \notin {"table", "memory", "return"},
         NEW d, Struct(d, status, pc), NEW q, q = [pc EXCEPT ![i] = @ + 1]
  PROVE  Struct(d, status, q)
<1>1. status[i] = "run" /\ Script(i)[pc[i]].op # "return" /\ Script(i)[pc[i]].op \notin {"table", "memory"}
  BY DEF Next1
<1> QED
  BY <1>1, Advances

\* The statement that is next, in its script.
LEMMA NextStatement ==
  ASSUME Struct(cells, status, pc), NEW i \in Inst, NEW op, Next1(i, op)
  PROVE  pc[i] \in DOMAIN Script(i) /\ Script(i)[pc[i]].op = op /\ Arg(i) = Script(i)[pc[i]].n /\ status[i] = "run"
BY DEF Next1, Struct, Progress, Arg

LEMMA ImportStatements ==
  ASSUME WellLinked, Struct(cells, status, pc), NEW i \in Inst, init_instance_import(i) \/ init_import(i)
  PROVE  Struct(cells', status', pc')
<1>1. PICK d, q : d = cells' /\ q = pc'
  OBVIOUS
<1>2. MembersApart(i) /\ ScriptComplete(i)
  BY DEF WellLinked
<1>3. PointersTyped(cells)
  BY DEF Struct
<1>4. CASE init_instance_import(i)
  <2>1. PICK n, sym, v : n = Arg(i) /\ sym = GlobalName(i, "import", n) /\ v = InstPtr(Program.insts[i].args[n])
    OBVIOUS
  <2>2. /\ Next1(i, "import_instance") /\ Written(cells, d, i, sym, v)
        /\ q = [pc EXCEPT ![i] = @ + 1] /\ status' = status
    BY <1>1, <1>4, <2>1 DEF init_instance_import, Set, Written, Plain, Advance
  <2>3. \E l \in DOMAIN ModOf(i).imports : ModOf(i).imports[l].module = n
    BY <1>2, <2>1, <2>2, NextStatement DEF ScriptComplete
  <2>4. sym \in ImportInstances(i)
    BY <2>1, <2>3 DEF ImportInstances
  <2>5. sym \notin Owned(i) /\ sym \notin GlobalFields(i)
    BY <2>4, Sorts
  <2>6. Struct(d, status, pc)
    BY <2>2, <2>5, WriteOther
  <2>7. Struct(d, status, q)
    BY <1>2, <2>2, <2>6, SetAndAdvance
  <2> QED
    BY <1>1, <2>2, <2>7
<1>5. CASE init_import(i)
  <2>1. PICK n : n = Arg(i)
    OBVIOUS
  <2>2. PICK sym : sym = ExportName(ModOf(i).imports[n].module, ModOf(i).imports[n].field)
    OBVIOUS
  <2>3. PICK e, ds : e = Program.insts[i].args[ModOf(i).imports[n].module] /\ ds = Definers(sym)
    OBVIOUS
  <2>4. PICK x : x = CHOOSE y \in ds : TRUE
    OBVIOUS
  <2>5. PICK v : v = ExternalInstancePtr(e, ModOf(i).imports[n].kind, ModOf(e).exports[x[2]].index)
    OBVIOUS
  <2>6. /\ Next1(i, "import")
        /\ IF Cardinality(ds) = 1 /\ x[1] = Program.insts[e].mod
           THEN Set(i, sym, v) /\ Plain(i) ELSE Wild(i)
    BY <1>5, <2>1, <2>2, <2>3, <2>4, <2>5 DEF init_import
  <2>7. CASE ~(Cardinality(ds) = 1 /\ x[1] = Program.insts[e].mod)
    BY <2>6, <2>7 DEF Wild
  <2>8. CASE Cardinality(ds) = 1 /\ x[1] = Program.insts[e].mod
    <3>1. /\ Written(cells, d, i, sym, v) /\ q = [pc EXCEPT ![i] = @ + 1] /\ status' = status
      BY <1>1, <2>6, <2>8 DEF Set, Written, Plain, Advance
    <3>2. ds # {}
      BY <2>8, FS_EmptySet
    <3>3. x \in ds
      BY <2>4, <3>2
    <3>4. n \in DOMAIN ModOf(i).imports
      BY <1>2, <2>1, <2>6, NextStatement DEF ScriptComplete
    <3>5. sym \in ImportFields(i)
      BY <2>2, <3>4 DEF ImportFields
    <3>6. sym \notin Owned(i)
      BY <3>5, Sorts
    <3>7. sym \in GlobalFields(i) => GlobalPtr(v)
      BY <1>3, <2>2, <2>3, <2>5, <2>8, <3>3, <3>4, ImportPointer
    <3>8. Struct(d, status, pc)
      BY <3>1, <3>6, <3>7, WriteOther
    <3>9. Struct(d, status, q)
      BY <1>2, <2>6, <3>1, <3>8, SetAndAdvance
    <3> QED
      BY <1>1, <3>1, <3>9
  <2> QED
    BY <2>7, <2>8
<1> QED
  BY <1>4, <1>5

LEMMA GlobalStatement ==
  ASSUME WellLinked, Struct(cells, status, pc), NEW i \in Inst, init_globals(i)
  PROVE  Struct(cells', status', pc')
<1>1. PICK d, q : d = cells' /\ q = pc'
  OBVIOUS
<1>2. ScriptComplete(i)
  BY DEF WellLinked
<1>3. PICK k : k = Arg(i)
  OBVIOUS
<1>4. PICK p, e : p = ExternalInstancePtr(i, "global", Len(ImportsOf(ModOf(i), "global")) + k) /\ e = ModOf(i).global[k].init
  OBVIOUS
<1>5. /\ Next1(i, "global")
      /\ IF InitExprReadable(i, e) THEN Put(p, WriteInitExpr(i, e)) /\ Plain(i) ELSE Wild(i)
  BY <1>3, <1>4 DEF init_globals
<1>6. CASE ~InitExprReadable(i, e)
  BY <1>5, <1>6 DEF Wild
<1>7. CASE InitExprReadable(i, e)
  <2>1. PICK v : v = WriteInitExpr(i, e)
    OBVIOUS
  <2>2. k \in DOMAIN ModOf(i).global
    BY <1>2, <1>3, <1>5, NextStatement DEF ScriptComplete
  <2>3. PICK sym : sym = GlobalName(i, "global", ModOf(i).global[k].name)
    OBVIOUS
  <2>4. p = [inst |-> i, at |-> sym]
    BY <1>4, <2>2, <2>3, DefinedPointer
  <2>5. p.inst = i /\ p.at = sym
    BY <2>4
  <2>6. Written(cells, d, i, sym, v) /\ q = [pc EXCEPT ![i] = @ + 1] /\ status' = status
    BY <1>1, <1>5, <1>7, <2>1, <2>5 DEF Put, Set, Written, Plain, Advance
  <2>7. sym \in MembersOf(i, "global")
    BY <2>2, <2>3 DEF MembersOf
  <2>8. sym \notin Owned(i) /\ sym \notin GlobalFields(i)
    BY <2>7, Sorts
  <2>9. Struct(d, status, pc)
    BY <2>6, <2>8, WriteOther
  <2>10. Struct(d, status, q)
    BY <1>2, <1>5, <2>6, <2>9, SetAndAdvance
  <2> QED
    BY <1>1, <2>6, <2>10
<1> QED
  BY <1>6, <1>7

\* A statement that makes the table or memory k of an instance.
LEMMA AllocateStatement ==
  ASSUME WellLinked, Struct(cells, status, pc), NEW i \in Inst, NEW kind \in {"table", "memory"},
         Next1(i, kind), NEW v, "live" \in DOMAIN v,
         Put(ExternalInstancePtr(i, kind, Len(ImportsOf(ModOf(i), kind)) + Arg(i)), v), Plain(i)
  PROVE  Struct(cells', status', pc')
<1>1. PICK d, q, k : d = cells' /\ q = pc' /\ k = Arg(i)
  OBVIOUS
<1>2. ScriptComplete(i)
  BY DEF WellLinked
<1>3. k \in DOMAIN ModOf(i)[kind]
  BY <1>1, <1>2, NextStatement DEF ScriptComplete
<1>4. PICK sym : sym = GlobalName(i, kind, ModOf(i)[kind][k].name)
  OBVIOUS
<1>5. PICK p : p = ExternalInstancePtr(i, kind, Len(ImportsOf(ModOf(i), kind)) + k)
  OBVIOUS
<1>6. p = [inst |-> i, at |-> sym]
  BY <1>3, <1>4, <1>5, DefinedPointer
<1>7. p.inst = i /\ p.at = sym
  BY <1>6
<1>8. Written(cells, d, i, sym, v) /\ q = [pc EXCEPT ![i] = @ + 1] /\ status' = status
  BY <1>1, <1>5, <1>7 DEF Put, Set, Written, Plain, Advance
<1>9. sym \in Owned(i)
  BY <1>3, <1>4 DEF Owned, MembersOf
<1>10. sym \notin GlobalFields(i) /\ status[i] = "run"
  BY <1>9, Sorts DEF Next1
<1>11. Struct(d, status, pc)
  BY <1>8, <1>10, WriteNew
<1>12. DOMAIN cells = Inst
  BY DEF Struct
<1>13. sym \in DOMAIN d[i]
  BY <1>8, <1>12, WrittenFacts
<1>14. PICK s : s = Script(i)[pc[i]]
  OBVIOUS
<1>15. s.op = kind /\ s.n = k
  BY <1>1, <1>14, NextStatement
<1>16. Made(i, s) = sym
  BY <1>4, <1>15 DEF Made
<1>17. Struct(d, status, q)
  BY <1>2, <1>8, <1>10, <1>11, <1>13, <1>14, <1>15, <1>16, Advances
<1> QED
  BY <1>1, <1>8, <1>17

LEMMA AllocateStatements ==
  ASSUME WellLinked, Struct(cells, status, pc), NEW i \in Inst,
         wasm_rt_allocate_table(i) \/ wasm_rt_allocate_memory(i)
  PROVE  Struct(cells', status', pc')
<1>1. CASE wasm_rt_allocate_table(i)
  <2>1. PICK t : t = ModOf(i).table[Arg(i)]
    OBVIOUS
  <2>2. PICK v : v = [size |-> t.initial, max |-> t.max, data |-> [n \in 1 .. t.initial |-> NullRef], live |-> TRUE]
    OBVIOUS
  <2>3. "live" \in DOMAIN v
    BY <2>2
  <2>4. /\ Next1(i, "table") /\ Plain(i)
        /\ Put(ExternalInstancePtr(i, "table", Len(ImportsOf(ModOf(i), "table")) + Arg(i)), v)
    BY <1>1, <2>1, <2>2 DEF wasm_rt_allocate_table
  <2> QED
    BY <2>3, <2>4, AllocateStatement
<1>2. CASE wasm_rt_allocate_memory(i)
  <2>1. PICK x : x = ModOf(i).memory[Arg(i)]
    OBVIOUS
  <2>2. PICK v : v = [data |-> [n \in 1 .. x.initial |-> 0], live |-> TRUE]
    OBVIOUS
  <2>3. "live" \in DOMAIN v
    BY <2>2
  <2>4. /\ Next1(i, "memory") /\ Plain(i)
        /\ Put(ExternalInstancePtr(i, "memory", Len(ImportsOf(ModOf(i), "memory")) + Arg(i)), v)
    BY <1>2, <2>1, <2>2 DEF wasm_rt_allocate_memory
  <2> QED
    BY <2>3, <2>4, AllocateStatement
<1> QED
  BY <1>1, <1>2

\* Writing through a valid pointer what was there but for its data and size.
LEMMA PutSame ==
  ASSUME Struct(cells, status, pc), NEW p, Valid(p), NEW v, Put(p, v), Same(v, Deref(p))
  PROVE  Struct(cells', status, pc)
<1>1. p.inst \in Inst /\ p.at \in DOMAIN cells[p.inst]
  BY DEF Valid
<1>2. PICK d, i, sym, w : d = cells' /\ i = p.inst /\ sym = p.at /\ w = cells[i][sym]
  OBVIOUS
<1>3. Written(cells, d, i, sym, v) /\ Same(v, w)
  BY <1>2 DEF Put, Set, Written, Deref
<1>4. Struct(d, status, pc)
  BY <1>1, <1>2, <1>3, WriteSame
<1> QED
  BY <1>2, <1>4

LEMMA SameData ==
  ASSUME NEW w, NEW x, NEW v, v = [w EXCEPT !.data = x]
  PROVE  Same(v, w)
BY DEF Same

LEMMA SameSize ==
  ASSUME NEW w, NEW n, NEW x, NEW v, v = [w EXCEPT !.size = n, !.data = x]
  PROVE  Same(v, w)
BY DEF Same

LEMMA SegmentStatements ==
  ASSUME WellLinked, Struct(cells, status, pc), NEW i \in Inst, init_elem(i) \/ load_data(i)
  PROVE  Struct(cells', status', pc')
<1>1. PICK d, q, su : d = cells' /\ q = pc' /\ su = status'
  OBVIOUS
<1>2. ScriptComplete(i)
  BY DEF WellLinked
<1>3. ASSUME Wild(i) PROVE Struct(cells', status', pc')
  BY <1>3 DEF Wild
<1>4. ASSUME TrapInit(i) PROVE Struct(cells', status', pc')
  <2>1. su = [status EXCEPT ![i] = "trapped"] /\ d = cells /\ q = pc
    BY <1>1, <1>4 DEF TrapInit
  <2>2. Struct(d, su, q)
    BY <2>1, Traps
  <2> QED
    BY <1>1, <2>2
<1>5. ASSUME NEW op \in {"elem", "data"}, Next1(i, op), NEW p, Valid(p), NEW x, Put(p, [Deref(p) EXCEPT !.data = x]), Plain(i)
      PROVE  Struct(cells', status', pc')
  <2>1. PICK v : v = [Deref(p) EXCEPT !.data = x]
    OBVIOUS
  <2>2. Same(v, Deref(p))
    BY <2>1, SameData
  <2>3. Struct(d, status, pc)
    BY <1>1, <1>5, <2>1, <2>2, PutSame
  <2>4. q = [pc EXCEPT ![i] = @ + 1] /\ su = status
    BY <1>1, <1>5 DEF Plain, Advance
  <2>5. Struct(d, status, q)
    BY <1>2, <1>5, <2>3, <2>4, SetAndAdvance
  <2> QED
    BY <1>1, <2>4, <2>5
<1>6. CASE init_elem(i)
  <2>1. PICK seg : seg = ModOf(i).elem[Arg(i)]
    OBVIOUS
  <2>2. PICK p, n, at : /\ p = ExternalInstancePtr(i, "table", seg.index) /\ n = Len(seg.init)
                        /\ at = WriteInitExpr(i, seg.offset)
    OBVIOUS
  <2>3. PICK x : x = Copied(Deref(p).data, at, SegmentValues(i, seg, 0, n))
    OBVIOUS
  <2>4. /\ Next1(i, "elem")
        /\ \/ Wild(i)
           \/ TrapInit(i)
           \/ Valid(p) /\ Put(p, [Deref(p) EXCEPT !.data = x]) /\ Plain(i)
    BY <1>6, <2>1, <2>2, <2>3 DEF init_elem
  <2> QED
    BY <1>3, <1>4, <1>5, <2>4
<1>7. CASE load_data(i)
  <2>1. PICK seg : seg = ModOf(i).data[Arg(i)]
    OBVIOUS
  <2>2. PICK p, at : p = ExternalInstancePtr(i, "memory", seg.index) /\ at = WriteInitExpr(i, seg.offset)
    OBVIOUS
  <2>3. PICK x : x = Copied(Deref(p).data, at, seg.init)
    OBVIOUS
  <2>4. /\ Next1(i, "data")
        /\ \/ Wild(i)
           \/ TrapInit(i)
           \/ Valid(p) /\ Put(p, [Deref(p) EXCEPT !.data = x]) /\ Plain(i)
    BY <1>7, <2>1, <2>2, <2>3 DEF load_data
  <2> QED
    BY <1>3, <1>4, <1>5, <2>4
<1> QED
  BY <1>6, <1>7

LEMMA LastStatements ==
  ASSUME WellLinked, Struct(cells, status, pc), NEW i \in Inst,
         init_elem_instances(i) \/ init_data_instances(i) \/ start_function(i) \/ EndInstantiate(i)
  PROVE  Struct(cells', status', pc')
<1>1. PICK d, q, su : d = cells' /\ q = pc' /\ su = status'
  OBVIOUS
<1>2. ScriptComplete(i)
  BY DEF WellLinked
<1>3. ASSUME NEW op \in {"elem_flag", "data_flag"}, NEW kind \in {"elem", "data"},
             Next1(i, op), NEW n \in DOMAIN ModOf(i)[kind], Set(i, Flag(i, kind, n), FALSE), Plain(i)
      PROVE  Struct(cells', status', pc')
  <2>1. PICK sym : sym = Flag(i, kind, n)
    OBVIOUS
  <2>2. sym \in Flags(i)
    BY <2>1 DEF Flags
  <2>3. sym \notin Owned(i) /\ sym \notin GlobalFields(i)
    BY <2>2, Sorts
  <2>4. Written(cells, d, i, sym, FALSE) /\ q = [pc EXCEPT ![i] = @ + 1] /\ su = status
    BY <1>1, <1>3, <2>1 DEF Set, Written, Plain, Advance
  <2>5. Struct(d, status, pc)
    BY <2>3, <2>4, WriteOther
  <2>6. Struct(d, status, q)
    BY <1>2, <1>3, <2>4, <2>5, SetAndAdvance
  <2> QED
    BY <1>1, <2>4, <2>6
<1>4. CASE init_elem_instances(i)
  <2>1. Next1(i, "elem_flag") /\ Set(i, Flag(i, "elem", Arg(i)), FALSE) /\ Plain(i)
    BY <1>4 DEF init_elem_instances
  <2>2. Arg(i) \in DOMAIN ModOf(i).elem
    BY <1>2, <2>1, NextStatement DEF ScriptComplete
  <2>3. PICK n : n = Arg(i)
    OBVIOUS
  <2> QED
    BY <1>3, <2>1, <2>2, <2>3
<1>5. CASE init_data_instances(i)
  <2>1. Next1(i, "data_flag") /\ Set(i, Flag(i, "data", Arg(i)), FALSE) /\ Plain(i)
    BY <1>5 DEF init_data_instances
  <2>2. Arg(i) \in DOMAIN ModOf(i).data
    BY <1>2, <2>1, NextStatement DEF ScriptComplete
  <2>3. PICK n : n = Arg(i)
    OBVIOUS
  <2> QED
    BY <1>3, <2>1, <2>2, <2>3
<1>6. CASE start_function(i)
  <2>1. Next1(i, "start") /\ d = cells /\ su = status /\ q = [pc EXCEPT ![i] = @ + 1]
    BY <1>1, <1>6 DEF start_function, Advance
  <2>2. Struct(cells, status, q)
    BY <1>2, <2>1, SetAndAdvance
  <2> QED
    BY <1>1, <2>1, <2>2
<1>7. CASE EndInstantiate(i)
  <2>1. Next1(i, "return") /\ d = cells /\ su = [status EXCEPT ![i] = "ready"] /\ q = [pc EXCEPT ![i] = @ + 1]
    BY <1>1, <1>7 DEF EndInstantiate, Advance
  <2>2. status[i] = "run" /\ Script(i)[pc[i]].op = "return"
    BY <2>1 DEF Next1
  <2>3. Struct(cells, su, q)
    BY <1>2, <2>1, <2>2, Finishes
  <2> QED
    BY <1>1, <2>1, <2>3
<1> QED
  BY <1>4, <1>5, <1>6, <1>7

-----------------------------------------------------------------------------
(* Instructions, the start and the end of an instance.                      *)

LEMMA StoresSame ==
  ASSUME Struct(cells, status, pc), NEW q, Valid(TableOf(q)), NEW ok, NEW v, Same(v, Deref(TableOf(q))),
         Stores(ok, TableOf(q), v)
  PROVE  Struct(cells', status, pc)
<1>1. PICK p : p = TableOf(q)
  OBVIOUS
<1>2. cells' = cells \/ Put(p, v)
  BY <1>1 DEF Stores, Gives
<1>3. ASSUME Put(p, v) PROVE Struct(cells', status, pc)
  BY <1>1, <1>3, PutSame
<1> QED
  BY <1>2, <1>3

\* The instructions of an instance are its own, and their indices those of what
\* the module has.
LEMMA InstructionFacts ==
  ASSUME WellLinked, NEW i \in Inst, NEW q \in Instructions(i)
  PROVE  /\ q.i = i
         /\ q.op \in Menu
         /\ q.op = "elem_drop" => q.k \in DOMAIN ModOf(i).elem
         /\ q.op = "global_set" => q.k \in ModOf(i).refglobals
<1>1. PICK op \in Program.menu : q \in InstructionsOf(i, op)
  BY DEF Instructions
<1>2. op \in Menu
  BY DEF WellLinked
<1>3. ASSUME NEW k, NEW l, NEW d, NEW s, NEW n, NEW v, q = Q(op, i, k, l, d, s, n, v)
      PROVE  q.i = i /\ q.op = op /\ q.k = k
  BY <1>3 DEF Q
<1>4. CASE op = "elem_drop"
  <2>1. PICK l \in DOMAIN ModOf(i).elem : q = Q(op, i, l, 0, 0, 0, 0, 0)
    BY <1>1, <1>4 DEF InstructionsOf
  <2> QED
    BY <1>2, <1>3, <1>4, <2>1
<1>5. CASE op = "global_set"
  <2>1. PICK k \in ModOf(i).refglobals, v \in Refs(i) : q = Q(op, i, k, 0, 0, 0, 0, v)
    BY <1>1, <1>5 DEF InstructionsOf
  <2> QED
    BY <1>2, <1>3, <1>5, <2>1
<1>6. CASE op \notin {"elem_drop", "global_set"}
  <2>1. \E k, l, d, s, n, v : q = Q(op, i, k, l, d, s, n, v)
    <3>1. CASE op = "table_get"
      BY <1>1, <3>1 DEF InstructionsOf
    <3>2. CASE op = "table_set"
      BY <1>1, <3>2 DEF InstructionsOf
    <3>3. CASE op = "table_size"
      BY <1>1, <3>3 DEF InstructionsOf
    <3>4. CASE op = "table_grow"
      BY <1>1, <3>4 DEF InstructionsOf
    <3>5. CASE op = "table_fill"
      BY <1>1, <3>5 DEF InstructionsOf
    <3>6. CASE op = "table_copy"
      BY <1>1, <3>6 DEF InstructionsOf
    <3>7. CASE op = "table_init"
      BY <1>1, <3>7 DEF InstructionsOf
    <3>8. CASE op = "call_indirect"
      BY <1>1, <3>8 DEF InstructionsOf
    <3>9. CASE op = "call"
      BY <1>1, <3>9 DEF InstructionsOf
    <3>10. CASE op = "global_get"
      BY <1>1, <3>10 DEF InstructionsOf
    <3> QED
      BY <1>2, <1>6, <3>1, <3>2, <3>3, <3>4, <3>5, <3>6, <3>7, <3>8, <3>9, <3>10 DEF Menu
  <2>2. PICK k, l, d, s, n, v : q = Q(op, i, k, l, d, s, n, v)
    BY <2>1
  <2> QED
    BY <1>2, <1>3, <1>6, <2>2
<1> QED
  BY <1>4, <1>5, <1>6

\* The instructions that read leave the structs.
LEMMA ReadInstructions ==
  ASSUME NEW q, TableGet(q) \/ TableSize(q) \/ CallIndirect(q) \/ Call(q) \/ GlobalGet(q)
  PROVE  cells' = cells
BY DEF TableGet, TableSize, CallIndirect, Call, GlobalGet, Gives

\* Those that write to a table leave what it is but for its data and size.
LEMMA TableInstructions ==
  ASSUME Struct(cells, status, pc), NEW q, Valid(TableOf(q)),
         TableSet(q) \/ TableFill(q) \/ TableCopy(q) \/ TableInit(q) \/ TableGrow(q)
  PROVE  Struct(cells', status, pc)
<1>1. PICK p, t : p = TableOf(q) /\ t = Deref(p)
  OBVIOUS
<1>2. ASSUME NEW ok, NEW x, Stores(ok, p, [t EXCEPT !.data = x]) PROVE Struct(cells', status, pc)
  <2>1. PICK v : v = [t EXCEPT !.data = x]
    OBVIOUS
  <2> QED
    BY <1>1, <1>2, <2>1, SameData, StoresSame
<1>3. CASE TableSet(q)
  <2>1. PICK x : x = Copied(t.data, q.d, <<RefOperand(q)>>)
    OBVIOUS
  <2>2. Stores(~(q.d >= t.size), p, [t EXCEPT !.data = x])
    BY <1>1, <1>3, <2>1 DEF TableSet
  <2> QED
    BY <1>2, <2>2
<1>4. CASE TableFill(q)
  <2>1. PICK x : x = Copied(t.data, q.d, [j \in 1 .. q.n |-> RefOperand(q)])
    OBVIOUS
  <2>2. Stores(Fits(q.d, q.n, t.size), p, [t EXCEPT !.data = x])
    BY <1>1, <1>4, <2>1 DEF TableFill
  <2> QED
    BY <1>2, <2>2
<1>5. CASE TableCopy(q)
  <2>1. PICK src : src = Deref(SourceOf(q))
    OBVIOUS
  <2>2. PICK ok : ok = (Fits(q.d, q.n, t.size) /\ Fits(q.s, q.n, src.size))
    OBVIOUS
  <2>3. PICK x : x = Copied(t.data, q.d, IF ok THEN SubSeq(src.data, q.s + 1, q.s + q.n) ELSE <<>>)
    OBVIOUS
  <2>4. Stores(ok, p, [t EXCEPT !.data = x])
    BY <1>1, <1>5, <2>1, <2>2, <2>3 DEF TableCopy
  <2> QED
    BY <1>2, <2>4
<1>6. CASE TableInit(q)
  <2>1. PICK ok : ok = TableInitOK(t, SegmentSize(q.i, q.l), q.d, q.s, q.n)
    OBVIOUS
  <2>2. PICK x : x = Copied(t.data, q.d, IF ok THEN SegmentValues(q.i, ModOf(q.i).elem[q.l], q.s, q.n) ELSE <<>>)
    OBVIOUS
  <2>3. Stores(ok, p, [t EXCEPT !.data = x])
    BY <1>1, <1>6, <2>1, <2>2 DEF TableInit
  <2> QED
    BY <1>2, <2>3
<1>7. CASE TableGrow(q)
  <2>1. PICK n, x : n = t.size + q.n /\ x = t.data \o [j \in 1 .. q.n |-> RefOperand(q)]
    OBVIOUS
  <2>2. PICK v : v = [t EXCEPT !.size = n, !.data = x]
    OBVIOUS
  <2>3. cells' = cells \/ Put(p, v)
    BY <1>1, <1>7, <2>1, <2>2 DEF TableGrow, Gives
  <2>4. Same(v, t)
    BY <2>2, SameSize
  <2>5. ASSUME Put(p, v) PROVE Struct(cells', status, pc)
    BY <1>1, <2>4, <2>5, PutSame
  <2> QED
    BY <2>3, <2>5
<1> QED
  BY <1>3, <1>4, <1>5, <1>6, <1>7

LEMMA DropInstruction ==
  ASSUME WellLinked, Struct(cells, status, pc), NEW q, q.i \in Inst, q.k \in DOMAIN ModOf(q.i).elem, ElemDrop(q)
  PROVE  Struct(cells', status, pc)
<1>1. PICK d, i, sym : d = cells' /\ i = q.i /\ sym = Flag(i, "elem", q.k)
  OBVIOUS
<1>2. d = cells \/ Written(cells, d, i, sym, TRUE)
  BY <1>1 DEF ElemDrop, Set, Written
<1>3. sym \in Flags(i)
  BY <1>1 DEF Flags
<1>4. sym \notin Owned(i) /\ sym \notin GlobalFields(i)
  BY <1>1, <1>3, Sorts
<1>5. ASSUME Written(cells, d, i, sym, TRUE) PROVE Struct(d, status, pc)
  BY <1>1, <1>4, <1>5, WriteOther
<1> QED
  BY <1>1, <1>2, <1>5

LEMMA GlobalInstruction ==
  ASSUME WellLinked, Struct(cells, status, pc), NEW q, q.i \in Inst, q.k \in ModOf(q.i).refglobals,
         Valid(GlobalOf(q)), GlobalSet(q)
  PROVE  Struct(cells', status, pc)
<1>1. IndicesResolve(q.i) /\ PointersTyped(cells)
  BY DEF WellLinked, Struct
<1>2. q.k \in Globals(q.i)
  BY <1>1 DEF IndicesResolve, DefinedIndices, GlobalDeclared, ExportedGlobal
<1>3. GlobalPtr(GlobalOf(q))
  BY <1>1, <1>2, GlobalPointer DEF GlobalOf
<1>4. PICK p, v, d : p = GlobalOf(q) /\ v = RefOperand(q) /\ d = cells'
  OBVIOUS
<1>5. PICK i, sym : i = p.inst /\ sym = p.at
  OBVIOUS
<1>6. i \in Inst /\ sym \in MembersOf(i, "global")
  BY <1>3, <1>4, <1>5 DEF Valid, GlobalPtr
<1>7. Written(cells, d, i, sym, v)
  BY <1>4, <1>5 DEF GlobalSet, Put, Set, Written
<1>8. sym \notin Owned(i) /\ sym \notin GlobalFields(i)
  BY <1>6, Sorts
<1>9. Struct(d, status, pc)
  BY <1>6, <1>7, <1>8, WriteOther
<1> QED
  BY <1>4, <1>9

LEMMA ExecuteStep ==
  ASSUME WellLinked, Struct(cells, status, pc), NEW i \in Inst, NEW q \in Instructions(i), Executes(q)
  PROVE  Struct(cells', status, pc)
<1>1. /\ q.i = i /\ q.op \in Menu
      /\ q.op = "elem_drop" => q.k \in DOMAIN ModOf(i).elem
      /\ q.op = "global_set" => q.k \in ModOf(i).refglobals
  BY InstructionFacts
<1>2. CASE ~Leads(q)
  BY <1>2 DEF Executes
<1>3. CASE Leads(q)
  <2>1. \/ TableGet(q) \/ TableSize(q) \/ CallIndirect(q) \/ Call(q) \/ GlobalGet(q)
        \/ TableSet(q) \/ TableFill(q) \/ TableCopy(q) \/ TableInit(q) \/ TableGrow(q)
        \/ ElemDrop(q) \/ GlobalSet(q)
    BY <1>3 DEF Executes
  <2>2. CASE TableGet(q) \/ TableSize(q) \/ CallIndirect(q) \/ Call(q) \/ GlobalGet(q)
    BY <2>2, ReadInstructions
  <2>3. CASE TableSet(q) \/ TableFill(q) \/ TableCopy(q) \/ TableInit(q) \/ TableGrow(q)
    <3>1. q.op \notin {"elem_drop", "call", "global_get", "global_set"}
      BY <2>3 DEF TableSet, TableFill, TableCopy, TableInit, TableGrow
    <3>2. Valid(TableOf(q))
      BY <1>3, <3>1 DEF Leads
    <3> QED
      BY <2>3, <3>2, TableInstructions
  <2>4. CASE ElemDrop(q)
    <3>1. q.k \in DOMAIN ModOf(q.i).elem
      BY <1>1, <2>4 DEF ElemDrop
    <3> QED
      BY <1>1, <2>4, <3>1, DropInstruction
  <2>5. CASE GlobalSet(q)
    <3>1. q.op = "global_set"
      BY <2>5 DEF GlobalSet
    <3>2. Valid(GlobalOf(q))
      BY <1>3, <3>1 DEF Leads
    <3> QED
      BY <1>1, <2>5, <3>1, <3>2, GlobalInstruction
  <2> QED
    BY <2>1, <2>2, <2>3, <2>4, <2>5
<1> QED
  BY <1>2, <1>3

-----------------------------------------------------------------------------
(* The invariant.                                                           *)

\* A log that is open is that of a module that traces, and the runtime is not
\* left while one is.
LogInv ==
  /\ DOMAIN log_file = DOMAIN Program.mods
  /\ \A k \in DOMAIN log_file : log_file[k] = "open" => k \in Traced /\ where[Main] # "left"
ModuleInv == RtInv /\ WellLinked /\ LogInv /\ Struct(cells, status, pc)

\* The program stays what it is.
LEMMA SameNames ==
  ASSUME prog' = prog
  PROVE  /\ Program' = Program /\ Inst' = Inst
         /\ \A i : ModOf(i)' = ModOf(i) /\ Script(i)' = Script(i)
         /\ \A i, kind, name : GlobalName(i, kind, name)' = GlobalName(i, kind, name)
         /\ \A sym : Definers(sym)' = Definers(sym)
BY DEF Program, Inst, ModOf, Script, GlobalName, Definers

LEMMA SameSorts ==
  ASSUME prog' = prog, NEW i
  PROVE  /\ \A kind : MembersOf(i, kind)' = MembersOf(i, kind)
         /\ Owned(i)' = Owned(i)
         /\ ImportFields(i)' = ImportFields(i) /\ ImportInstances(i)' = ImportInstances(i) /\ Flags(i)' = Flags(i)
         /\ GlobalFields(i)' = GlobalFields(i)
         /\ Globals(i)' = Globals(i)
<1>1. /\ ModOf(i)' = ModOf(i) /\ \A kind, name : GlobalName(i, kind, name)' = GlobalName(i, kind, name)
  BY SameNames
<1>2. \A kind : MembersOf(i, kind)' = MembersOf(i, kind)
  BY <1>1 DEF MembersOf
<1>3. Owned(i)' = Owned(i)
  BY <1>2 DEF Owned
<1>4. ImportFields(i)' = ImportFields(i)
  BY <1>1 DEF ImportFields
<1>5. ImportInstances(i)' = ImportInstances(i)
  BY <1>1 DEF ImportInstances
<1>6. GlobalFields(i)' = GlobalFields(i)
  BY <1>1 DEF GlobalFields
<1>7. Globals(i)' = Globals(i)
  BY <1>1 DEF Globals
<1>8. \A kind, n : Flag(i, kind, n)' = Flag(i, kind, n)
  BY <1>1 DEF Flag
<1>9. Flags(i)' = Flags(i)
  BY <1>1, <1>8 DEF Flags
<1> QED
  BY <1>2, <1>3, <1>4, <1>5, <1>6, <1>7, <1>9

LEMMA SameProgram ==
  ASSUME prog' = prog, WellLinked
  PROVE  WellLinked'
<1>1. Program' = Program /\ Inst' = Inst
  BY SameNames
<1>2. ASSUME NEW i \in Inst PROVE MembersApart(i)'
  <2>1. MembersApart(i)
    BY DEF WellLinked
  <2> QED
    BY <2>1, SameSorts DEF MembersApart
<1>3. ASSUME NEW i \in Inst PROVE ScriptComplete(i)'
  <2>1. ScriptComplete(i)
    BY DEF WellLinked
  <2>2. ModOf(i)' = ModOf(i) /\ Script(i)' = Script(i)
    BY SameNames
  <2> QED
    BY <2>1, <2>2 DEF ScriptComplete
<1>4. ASSUME NEW i \in Inst PROVE IndicesResolve(i)'
  <2>1. IndicesResolve(i)
    BY DEF WellLinked
  <2>2. /\ Program' = Program /\ Inst' = Inst
        /\ \A j : ModOf(j)' = ModOf(j)
        /\ \A kind, name : GlobalName(i, kind, name)' = GlobalName(i, kind, name)
        /\ \A sym : Definers(sym)' = Definers(sym)
    BY SameNames
  <2>3. \A j : Globals(j)' = Globals(j)
    BY SameSorts
  <2>4. \A e, sym : ExportedGlobal(e, sym)' = ExportedGlobal(e, sym)
    BY <2>2, <2>3 DEF ExportedGlobal
  <2> QED
    BY <2>1, <2>2, <2>3, <2>4 DEF IndicesResolve
<1> QED
  BY <1>1, <1>2, <1>3, <1>4 DEF WellLinked

LEMMA SameStruct ==
  ASSUME prog' = prog, Struct(cells', status', pc')
  PROVE  Struct(cells, status, pc)'
<1>1. /\ Inst' = Inst
      /\ \A i : ModOf(i)' = ModOf(i) /\ Script(i)' = Script(i)
      /\ \A i, kind, name : GlobalName(i, kind, name)' = GlobalName(i, kind, name)
  BY SameNames
<1>2. \A i : Owned(i)' = Owned(i) /\ GlobalFields(i)' = GlobalFields(i) /\ MembersOf(i, "global")' = MembersOf(i, "global")
  BY SameSorts
<1>3. \A i, s : Made(i, s)' = Made(i, s)
  BY <1>1 DEF Made
<1>4. LiveFields(cells)'
  BY <1>1, <1>2 DEF Struct, LiveFields
<1>5. PointersTyped(cells)'
  BY <1>1, <1>2 DEF Struct, PointersTyped, GlobalPtr
<1>6. Released(cells, status)' /\ Allocated(cells, status)'
  BY <1>1, <1>2 DEF Struct, Released, Allocated
<1>7. Progress(cells, status, pc)'
  BY <1>1, <1>3 DEF Struct, Progress
<1>8. DOMAIN cells' = Inst' /\ DOMAIN status' = Inst' /\ DOMAIN pc' = Inst'
  BY <1>1 DEF Struct
<1> QED
  BY <1>4, <1>5, <1>6, <1>7, <1>8 DEF Struct

LEMMA InitEstablishes ==
  ASSUME Init, WellLinked
  PROVE  ModuleInv
<1>1. RtInv
  BY RtInitInv DEF Init
<1>2. LogInv
  BY DEF Init, LogInv
<1>3. PICK c, st, p : c = cells /\ st = status /\ p = pc
  OBVIOUS
<1>4. c = [i \in Inst |-> <<>>] /\ st = [i \in Inst |-> "none"] /\ p = [i \in Inst |-> 0]
  BY <1>3 DEF Init
<1>5. DOMAIN c = Inst /\ DOMAIN st = Inst /\ DOMAIN p = Inst
  BY <1>4
<1>6. \A i \in Inst : DOMAIN c[i] = {} /\ st[i] = "none"
  BY <1>4
<1>7. LiveFields(c) /\ PointersTyped(c)
  BY <1>6 DEF LiveFields, PointersTyped
<1>8. Released(c, st) /\ Allocated(c, st) /\ Progress(c, st, p)
  BY <1>6 DEF Released, Allocated, Progress
<1> QED
  BY <1>1, <1>2, <1>3, <1>5, <1>7, <1>8 DEF ModuleInv, Struct

\* A step of the runtime.
LEMMA RuntimeStep ==
  ASSUME ModuleInv, Runtime
  PROVE  RtInv' /\ LogInv' /\ UNCHANGED mvars
<1>1. RtInv /\ LogInv /\ Program.workers \subseteq Thread
  BY DEF ModuleInv, WellLinked
<1>2. /\ UNCHANGED mvars
      /\ \/ wasm_rt_init(Main)
         \/ (\A k \in Traced : log_file[k] # "open") /\ wasm_rt_free(Main)
         \/ \E t \in {Main} \cup Program.workers : wasm_rt_init_thread(t) \/ wasm_rt_free_thread(t) \/ StackOverflow(t)
  BY DEF Runtime
<1>3. log_file' = log_file /\ Program' = Program /\ Traced' = Traced
  BY <1>2 DEF mvars, Program, Traced
<1>4. \A u \in Thread : where[u] \in Places
  BY <1>1 DEF RtInv, RtType
<1>5. where \in [Thread -> Places]
  BY <1>1 DEF RtInv, RtType
<1>6. ASSUME where'[Main] # "left" \/ where'[Main] = where[Main] PROVE LogInv'
  BY <1>1, <1>3, <1>6 DEF LogInv
<1>7. CASE wasm_rt_init(Main)
  <2>1. where'[Main] = "in"
    BY <1>5, <1>7, MainIsThread DEF wasm_rt_init
  <2>2. RtInv'
    BY <1>1, <1>7, RtInitStep
  <2> QED
    BY <1>2, <1>6, <2>1, <2>2
<1>8. CASE (\A k \in Traced : log_file[k] # "open") /\ wasm_rt_free(Main)
  <2>1. \A k \in DOMAIN log_file : log_file[k] # "open"
    BY <1>1, <1>8 DEF LogInv
  <2>2. LogInv'
    BY <1>1, <1>3, <2>1 DEF LogInv
  <2>3. RtInv'
    BY <1>1, <1>8, RtFreeStep
  <2> QED
    BY <1>2, <2>2, <2>3
<1>9. CASE \E t \in {Main} \cup Program.workers : wasm_rt_init_thread(t) \/ wasm_rt_free_thread(t) \/ StackOverflow(t)
  <2>1. PICK t \in Thread : wasm_rt_init_thread(t) \/ wasm_rt_free_thread(t) \/ StackOverflow(t)
    BY <1>1, <1>9, MainIsThread
  <2>2. RtInv'
    BY <1>1, <2>1, RtThreadStep, RtOverflowStep
  <2>3. where'[Main] = where[Main]
    BY <1>5, <2>1, MainIsThread DEF wasm_rt_init_thread, wasm_rt_free_thread, StackOverflow
  <2> QED
    BY <1>2, <1>6, <2>2, <2>3
<1> QED
  BY <1>2, <1>7, <1>8, <1>9

\* A step that leaves the threads where they are and the logs as they are.
LEMMA LogSame ==
  ASSUME LogInv, prog' = prog, where' = where, log_file' = log_file
  PROVE  LogInv'
BY DEF LogInv, Traced, Program

LEMMA BeginStep ==
  ASSUME ModuleInv, NEW i \in Inst, BeginInstantiate(i)
  PROVE  RtInv' /\ LogInv' /\ Struct(cells', status', pc') /\ prog' = prog
<1>1. RtInv /\ LogInv /\ Struct(cells, status, pc) /\ ScriptComplete(i)
  BY DEF ModuleInv, WellLinked
<1>2. where[Main] = "in" /\ rt_failed' = ~wasm_rt_is_initialized(Main)
  BY DEF BeginInstantiate, RuntimeIn
<1>3. rt_failed' = FALSE
  BY <1>1, <1>2, MainIsThread DEF RtInv, wasm_rt_is_initialized
<1>4. UNCHANGED <<g_signal_handler_installed, handler, g_alt_stack, sigaltstack, stacks, where, prog, cells, log_file>>
  BY DEF BeginInstantiate
<1>5. RtInv'
  BY <1>1, <1>3, <1>4 DEF RtInv, RtType
<1>6. LogInv'
  BY <1>1, <1>4, LogSame
<1>7. PICK su, q : su = [status EXCEPT ![i] = "run"] /\ q = [pc EXCEPT ![i] = 1]
  OBVIOUS
<1>8. Struct(cells, su, q)
  BY <1>1, <1>7, Begins
<1>9. status' = su /\ pc' = q /\ cells' = cells
  BY <1>4, <1>7 DEF BeginInstantiate
<1> QED
  BY <1>4, <1>5, <1>6, <1>8, <1>9

LEMMA FreeStep ==
  ASSUME ModuleInv, NEW i \in Inst, Free(i)
  PROVE  Struct(cells', status', pc')
<1>1. WellLinked /\ Struct(cells, status, pc)
  BY DEF ModuleInv
<1>2. PICK d, su : d = cells' /\ su = status'
  OBVIOUS
<1>3. /\ status[i] = "ready" /\ su = [status EXCEPT ![i] = "freed"] /\ pc' = pc
      /\ d = [cells EXCEPT ![i] = [sym \in DOMAIN @ |-> IF sym \in Owned(i) THEN [@[sym] EXCEPT !.live = FALSE] ELSE @[sym]]]
  BY <1>2 DEF Free
<1>4. \A sym \in GlobalFields(i) : sym \notin Owned(i)
  BY <1>1, Sorts
<1>5. Struct(d, su, pc)
  BY <1>1, <1>3, <1>4, Frees
<1> QED
  BY <1>2, <1>3, <1>5

LEMMA InstantiateSteps ==
  ASSUME ModuleInv, NEW i \in Inst, InstantiateStep(i)
  PROVE  Struct(cells', status', pc') /\ UNCHANGED <<rtvars, prog, log_file>>
<1>1. WellLinked /\ Struct(cells, status, pc)
  BY DEF ModuleInv
<1>2. Struct(cells', status', pc')
  <2>1. CASE init_instance_import(i) \/ init_import(i)
    BY <1>1, <2>1, ImportStatements
  <2>2. CASE init_globals(i)
    BY <1>1, <2>2, GlobalStatement
  <2>3. CASE wasm_rt_allocate_table(i) \/ wasm_rt_allocate_memory(i)
    BY <1>1, <2>3, AllocateStatements
  <2>4. CASE init_elem(i) \/ load_data(i)
    BY <1>1, <2>4, SegmentStatements
  <2>5. CASE init_elem_instances(i) \/ init_data_instances(i) \/ start_function(i) \/ EndInstantiate(i)
    BY <1>1, <2>5, LastStatements
  <2> QED
    BY <2>1, <2>2, <2>3, <2>4, <2>5 DEF InstantiateStep
<1>3. UNCHANGED <<rtvars, prog, log_file>>
  <2>1. ASSUME Advance(i) \/ Plain(i) \/ Wild(i) \/ TrapInit(i) PROVE UNCHANGED <<rtvars, prog, log_file>>
    BY <2>1 DEF Plain, Advance, Wild, TrapInit
  <2>2. CASE init_instance_import(i)
    BY <2>1, <2>2 DEF init_instance_import
  <2>3. CASE init_import(i)
    BY <2>1, <2>3 DEF init_import
  <2>4. CASE init_globals(i)
    BY <2>1, <2>4 DEF init_globals
  <2>5. CASE wasm_rt_allocate_table(i)
    BY <2>1, <2>5 DEF wasm_rt_allocate_table
  <2>6. CASE wasm_rt_allocate_memory(i)
    BY <2>1, <2>6 DEF wasm_rt_allocate_memory
  <2>7. CASE init_elem(i)
    BY <2>1, <2>7 DEF init_elem
  <2>8. CASE load_data(i)
    BY <2>1, <2>8 DEF load_data
  <2>9. CASE init_elem_instances(i) \/ init_data_instances(i)
    BY <2>1, <2>9 DEF init_elem_instances, init_data_instances
  <2>10. CASE start_function(i) \/ EndInstantiate(i)
    BY <2>1, <2>10 DEF start_function, EndInstantiate
  <2> QED
    BY <2>2, <2>3, <2>4, <2>5, <2>6, <2>7, <2>8, <2>9, <2>10 DEF InstantiateStep
<1> QED
  BY <1>2, <1>3

LEMMA LogSteps ==
  ASSUME LogInv, NEW k, file_open(k) \/ file_close(k)
  PROVE  LogInv'
<1>1. PICK lf : lf = log_file'
  OBVIOUS
<1>2. prog' = prog /\ where' = where
  BY DEF file_open, file_close, rtvars
<1>3. Program' = Program /\ Traced' = Traced
  BY <1>2 DEF Program, Traced
<1>4. \/ lf = [log_file EXCEPT ![k] = "open"] /\ k \in Traced /\ where[Main] = "in"
      \/ lf = [log_file EXCEPT ![k] = "closed"]
  BY <1>1 DEF file_open, file_close, RuntimeIn
<1>5. DOMAIN lf = DOMAIN Program.mods
  BY <1>4 DEF LogInv
<1>6. ASSUME NEW j \in DOMAIN lf, lf[j] = "open" PROVE j \in Traced /\ where[Main] # "left"
  BY <1>4, <1>6 DEF LogInv
<1> QED
  BY <1>1, <1>2, <1>3, <1>5, <1>6 DEF LogInv

LEMMA ModuleStep ==
  ASSUME ModuleInv, [Next]_vars
  PROVE  ModuleInv'
<1>1. RtInv /\ WellLinked /\ LogInv /\ Struct(cells, status, pc)
  BY DEF ModuleInv
<1>2. ASSUME RtInv', LogInv', Struct(cells', status', pc'), prog' = prog PROVE ModuleInv'
  BY <1>1, <1>2, SameProgram, SameStruct DEF ModuleInv
<1>3. ASSUME UNCHANGED <<rtvars, prog, log_file>>, Struct(cells', status', pc') PROVE ModuleInv'
  <2>1. RtInv'
    BY <1>1, <1>3, RtUnchanged
  <2>2. where' = where
    BY <1>3 DEF rtvars
  <2>3. LogInv'
    BY <1>1, <1>3, <2>2, LogSame
  <2> QED
    BY <1>2, <1>3, <2>1, <2>3
<1>4. CASE Runtime
  <2>1. RtInv' /\ LogInv' /\ UNCHANGED mvars
    BY <1>4, RuntimeStep
  <2>2. cells' = cells /\ status' = status /\ pc' = pc /\ prog' = prog
    BY <2>1 DEF mvars
  <2> QED
    BY <1>1, <1>2, <2>1, <2>2
<1>5. CASE Left \/ UNCHANGED vars
  <2>1. UNCHANGED <<rtvars, prog, log_file>> /\ cells' = cells /\ status' = status /\ pc' = pc
    BY <1>5 DEF Left, vars, mvars
  <2> QED
    BY <1>1, <1>3, <2>1
<1>6. ASSUME NEW i \in Inst, BeginInstantiate(i) PROVE ModuleInv'
  BY <1>2, <1>6, BeginStep
<1>7. ASSUME NEW i \in Inst, InstantiateStep(i) PROVE ModuleInv'
  BY <1>3, <1>7, InstantiateSteps
<1>8. ASSUME NEW i \in Inst, Free(i) PROVE ModuleInv'
  <2>1. UNCHANGED <<rtvars, prog, log_file>>
    BY <1>8 DEF Free
  <2> QED
    BY <1>3, <1>8, <2>1, FreeStep
<1>9. ASSUME NEW i \in Inst, NEW q \in Instructions(i), Executes(q) PROVE ModuleInv'
  <2>1. UNCHANGED <<rtvars, prog, log_file, status, pc>>
    BY <1>9 DEF Executes, Runs
  <2>2. Struct(cells', status, pc)
    BY <1>1, <1>9, ExecuteStep
  <2> QED
    BY <1>3, <2>1, <2>2
<1>10. ASSUME NEW k, file_open(k) \/ file_close(k) PROVE ModuleInv'
  <2>1. UNCHANGED <<rtvars, prog, cells, status, pc>>
    BY <1>10 DEF file_open, file_close
  <2>2. LogInv' /\ RtInv'
    BY <1>1, <1>10, <2>1, LogSteps, RtUnchanged
  <2> QED
    BY <1>1, <1>2, <2>1, <2>2
<1> QED
  BY <1>4, <1>5, <1>6, <1>7, <1>8, <1>9, <1>10 DEF Next

-----------------------------------------------------------------------------
(* The theorems.                                                            *)

\* Every state of every program whose modules are linked as WellLinked says has
\* a runtime, structs and logs that fit where the embedder is (wasm_rt_init ..
\* wasm_rt_free, WriteInit, WriteFree, file_open).
THEOREM ModuleInvariant == Spec /\ WellLinked => []ModuleInv
<1>1. Init /\ WellLinked => ModuleInv
  BY InitEstablishes
<1>2. ModuleInv /\ [Next]_vars => ModuleInv'
  BY ModuleStep
<1> QED
  BY <1>1, <1>2, PTL DEF Spec

\* No assertion of the runtime fails, no thread dies of a stack overflow, and
\* at the end the stacks, the handler, the logs and everything that the freed
\* instances had are released, whatever modules, threads and instructions.
THEOREM RuntimeReleases == Spec /\ WellLinked => []RuntimeStands
<1>1. ASSUME ModuleInv PROVE RuntimeStands
  <2>1. RtInv /\ LogInv /\ Struct(cells, status, pc)
    BY <1>1 DEF ModuleInv
  <2>2. ~rt_failed
    BY <2>1 DEF RtInv
  <2>3. ASSUME where[Main] = "left"
        PROVE  stacks = {} /\ handler = "default" /\ \A k \in DOMAIN log_file : log_file[k] # "open"
    BY <2>1, <2>3, MainIsThread DEF RtInv, RtType, LogInv
  <2>4. ASSUME NEW i \in Inst, status[i] = "freed", NEW sym \in Owned(i)
        PROVE  ~cells[i][sym].live
    BY <2>1, <2>4 DEF Struct, Released
  <2> QED
    BY <2>2, <2>3, <2>4 DEF RuntimeStands, Owned
<1> QED
  BY <1>1, ModuleInvariant, PTL
=============================================================================
