---------------------------- MODULE InterpThread ----------------------------
(***************************************************************************)
(* The interpreter from bytes to results: SharedValidator and              *)
(* BinaryReaderInterp read a module, and a wabt::interp::Thread            *)
(* (src/interp/interp.cc) runs its functions.                              *)
(*                                                                         *)
(* The module is made up while it is read: every valid body of at most     *)
(* M.max instructions out of M.instrs.  It is instantiated twice;          *)
(* the import of instance 1 is a host function, that of instance 2 is a    *)
(* function of instance 1, so that calls and exceptions cross instances.   *)
(*                                                                         *)
(* A value is its type: conditions, table entries and indices are picked   *)
(* when an instruction pops them.  at and src are history variables.       *)
(***************************************************************************)
EXTENDS InterpCode, SequencesExt

CONSTANTS Modules,     \* the modules that are read, by name, up to their code
          Capacity     \* frames_.capacity(), the bound on calls

ASSUME CapacityAssumption == Capacity \in Nat \ {0}

ValueTypes == {"i32", "i64", "f32", "f64", "v128"} \cup RefType

\* A module has functions of its own, and imports what instance 1 can give to
\* instance 2: the first of them (the types are compared when it is linked).
ASSUME ModulesAssumption ==
  \A m \in DOMAIN Modules :
    LET mod == Modules[m]
    IN  /\ mod.funcs \in Seq([params : Seq(ValueTypes), results : Seq(ValueTypes)])
        /\ mod.imports \in 0 .. Len(mod.funcs) - 1
        /\ \A f \in 1 .. mod.imports : mod.funcs[f] = mod.funcs[mod.imports + 1]
        /\ mod.locals \in Seq(Seq(ValueTypes)) /\ Len(mod.locals) = Len(mod.funcs)
        /\ mod.tags \in Seq(Seq(ValueTypes))

VARIABLES module,      \* the name of the module read
          r,           \* the BinaryReaderInterp
          t,           \* the Thread
          at,          \* history: offset -> what the validator knew there
          src          \* history: the instructions read, per defined function

vars == <<module, r, t, at, src>>

M == Modules[module]

-----------------------------------------------------------------------------
\* The Thread.

NoThread == [frames |-> <<>>, values |-> <<>>, exceptions |-> <<>>, inst |-> 0, result |-> "new",
             func |-> NoFunc]

Result(th, res) == [th EXCEPT !.result = res]
Top(th) == Last(th.frames)
Drop(s, n) == SubSeq(s, 1, Len(s) - n)
TopOf(s, n) == SubSeq(s, Len(s) - n + 1, Len(s))

Push(th, types) == [th EXCEPT !.values = @ \o types]
Pop(th, n) == [th EXCEPT !.values = Drop(@, n)]
Jump(th, offset) == [th EXCEPT !.frames[Len(th.frames)].offset = offset]

Frame(th, inst, f, offset) ==
  [func |-> f, inst |-> inst, offset |-> offset, values |-> Len(th.values),
   exceptions |-> Len(th.exceptions)]

CodeOffset(f) == r.desc[Defined(r, f)].code_offset

PushCall(th, inst, f) ==
  IF Len(th.frames) = Capacity THEN Result(th, "trap")
  ELSE [th EXCEPT !.frames = Append(@, Frame(th, inst, f, CodeOffset(f))), !.inst = inst]

PopCall(th) ==
  LET left == [th EXCEPT !.frames = Front(@)]
  IN  IF left.frames = <<>> THEN Result(left, "return") ELSE [left EXCEPT !.inst = Top(left).inst]

\* What instance inst has at function index f: a function of an instance, or
\* the host's.
HostFunc == [inst |-> 0, func |-> 0]
Resolve(inst, f) ==
  IF f >= M.imports THEN [inst |-> inst, func |-> f]
  ELSE IF inst = 2 THEN [inst |-> 1, func |-> M.imports]
  ELSE HostFunc

\* Thread::DoCall.  A host function pushes and pops a frame of its own.
DoCall(th, callee, type) ==
  IF callee # HostFunc THEN {PushCall(th, callee.inst, callee.func)}
  ELSE IF Len(th.frames) = Capacity THEN {Result(Pop(th, Len(type.params)), "trap")}
  ELSE {Result(Pop(th, Len(type.params)), "trap"),
        Push(Pop(th, Len(type.params)), type.results)}

\* DoReturnCall ignores the result of DoCall; the host functions called this
\* way do not fail.
DoReturnCall(th, callee, type) ==
  LET popped == PopCall(th)
      host   == Push(Pop(popped, Len(type.params)), type.results)
  IN  IF callee # HostFunc THEN PushCall([popped EXCEPT !.result = "run"], callee.inst, callee.func)
      ELSE host

-----------------------------------------------------------------------------
\* Thread::DoThrow.  Tags are objects of an instance: tag k of one instance is
\* not tag k of the other.

NoHandler == [offset |-> kInvalidOffset, values |-> 0, exceptions |-> 0, payload |-> FALSE]

Found(handler, offset, payload) ==
  [offset |-> offset, values |-> handler.values, exceptions |-> handler.exceptions,
   payload |-> payload]

\* The search through the handlers of a function, the last first; a delegate
\* goes on with the handler it names.  caught is the tag index under which
\* the frame's instance knows the exception, or -1.
SearchHandlers(handlers, pc, caught) ==
  LET search[k \in 0 .. Len(handlers)] ==
        IF k = 0 THEN NoHandler
        ELSE LET h       == handlers[k]
                 matches == SelectSeq(h.catches, LAMBDA c : c.tag = caught)
             IN  IF pc < h.try_start \/ pc >= h.try_end THEN search[k - 1]
                 ELSE IF h.kind = "delegate" THEN search[h.delegate + 1]
                 ELSE IF matches # <<>> THEN Found(h, matches[1].offset, TRUE)
                 ELSE IF h.catch_all # kInvalidOffset THEN Found(h, h.catch_all, FALSE)
                 ELSE search[k - 1]
  IN  search[Len(handlers)]

FrameHandler(frame, exn) ==
  SearchHandlers(r.desc[Defined(r, frame.func)].handlers, frame.offset,
                 IF exn.inst = frame.inst THEN exn.tag ELSE -1)

Resized(s, n, fill) == [i \in 1 .. n |-> IF i <= Len(s) THEN s[i] ELSE fill]

\* Mutated form: the instance is the one that threw.
DoThrow_KeepInstance(th, exn) ==
  LET catching == {k \in DOMAIN th.frames : FrameHandler(th.frames[k], exn) # NoHandler}
      k        == Max0(catching)
      frame    == th.frames[k]
      target   == FrameHandler(frame, exn)
      unwound  == [th EXCEPT
                     !.frames = [SubSeq(@, 1, k) EXCEPT ![k].offset = target.offset],
                     !.values = Resized(@, frame.values + target.values, "garbage"),
                     !.exceptions = Append(SubSeq(@, 1, frame.exceptions + target.exceptions), exn)]
  IN  IF catching = {} THEN Result([th EXCEPT !.frames = <<>>], "exception")
      ELSE IF target.payload THEN Push(unwound, M.tags[exn.tag + 1]) ELSE unwound

DoThrow(th, exn) ==
  LET catching == {k \in DOMAIN th.frames : FrameHandler(th.frames[k], exn) # NoHandler}
      k        == Max0(catching)
      frame    == th.frames[k]
      target   == FrameHandler(frame, exn)
      unwound  == [th EXCEPT
                     !.frames = [SubSeq(@, 1, k) EXCEPT ![k].offset = target.offset],
                     !.inst = frame.inst,
                     !.values = Resized(@, frame.values + target.values, "garbage"),
                     !.exceptions = Append(SubSeq(@, 1, frame.exceptions + target.exceptions), exn)]
  IN  IF catching = {} THEN Result([th EXCEPT !.frames = <<>>], "exception")
      ELSE IF target.payload THEN Push(unwound, M.tags[exn.tag + 1]) ELSE unwound

-----------------------------------------------------------------------------
\* Reading.

AllRead == r.fn = NoFunc /\ \A d \in DOMAIN r.desc : r.desc[d].code_offset # kInvalidOffset

Init ==
  /\ module \in DOMAIN Modules
  /\ r = BeginModule(M)
  /\ t = NoThread
  /\ at = <<>>
  /\ src = [d \in 1 .. Len(M.funcs) - M.imports |-> <<>>]

\* What the checker knows at the current end of the code; dead code knows less.
Point == [func |-> r.fn, stack |-> r.tc.type_stack, live |-> ~TopLabel(r.tc).unreachable,
          exceptions |-> CatchCount(r.tc, Len(r.labels) - 1)]
Noted(point) ==
  IF end(r) \in DOMAIN at /\ ~point.live THEN at
  ELSE [o \in DOMAIN at \cup {end(r)} |-> IF o = end(r) THEN point ELSE at[o]]

ReadBody ==
  \E d \in DOMAIN r.desc :
    LET f == M.imports + d - 1
    IN  /\ r.fn = NoFunc /\ r.desc[d].code_offset = kInvalidOffset
        /\ \A e \in 1 .. d - 1 : r.desc[e].code_offset # kInvalidOffset
        /\ r' = OnLocalDecl(BeginFunctionBody(r, f))
        /\ UNCHANGED <<module, t, at, src>>

ReadEnd ==
  /\ r.fn # NoFunc /\ Len(r.labels) = 1
  /\ r' = EndFunctionBody(r)
  /\ r'.tc.ok
  /\ at' = Noted([Point EXCEPT !.live = TRUE, !.stack = FuncType(r, r.fn).results])
  /\ UNCHANGED <<module, t, src>>

Body == src[Defined(r, r.fn)]

\* An instruction op is read, with what its callback makes of the reader.
Reads(op, arg, q) ==
  /\ op \in M.instrs
  /\ q.tc.ok
  /\ Len(q.tc.type_stack) <= M.stack
  /\ r' = q
  /\ at' = Noted(Point)
  /\ src' = [src EXCEPT ![Defined(r, r.fn)] = Append(@, [op |-> op, arg |-> arg, offset |-> end(r)])]
  /\ UNCHANGED <<module, t>>

Reading == r.fn # NoFunc /\ Len(Body) < M.max
Depths == 0 .. Len(r.labels) - 1
Sigs == {M.sigs[i] : i \in DOMAIN M.sigs}
Indices(s) == 0 .. Len(s) - 1

\* In modules with apart, no try starts at the offset right behind an
\* instruction that may raise an exception.
Raises == {"call", "call_indirect", "throw", "rethrow"}
MayTry ==
  M.apart => ~ \E i \in DOMAIN Body : /\ Body[i].op \in Raises
                                      /\ \A j \in i + 1 .. Len(Body) : Body[j].offset = end(r)

InBlock == Len(r.labels) > 1

ReadBlock ==
  /\ Reading
  /\ \E sig \in Sigs : \/ Reads("block", 0, OnBlockExpr(r, sig))
                       \/ Reads("loop", 0, OnLoopExpr(r, sig))
                       \/ Reads("if", 0, OnIfExpr(r, sig))
                       \/ MayTry /\ Reads("try", 0, OnTryExpr(r, sig))

TopType == TopLabel(r.tc).label_type

\* A catch_all is the last clause of its try.
MayCatch ==
  TopType \in {"try", "catch"} /\ Handlers(r)[TopHandler(r)].catch_all = kInvalidOffset

ReadClause ==
  /\ Reading /\ InBlock
  /\ \/ TopType = "if" /\ Reads("else", 0, OnElseExpr(r))
     \/ MayCatch /\ \E tag \in Indices(M.tags) : Reads("catch", tag, OnCatchExpr(r, tag))
     \/ MayCatch /\ Reads("catch_all", 0, OnCatchAllExpr(r))
     \/ TopType = "try" /\ \E d \in 0 .. Len(r.labels) - 2 : Reads("delegate", d, OnDelegateExpr(r, d))
     \/ Reads("end", 0, OnEndExpr(r))

ReadBranch ==
  /\ Reading
  /\ \/ \E d \in Depths : \/ Reads("br", d, OnBrExpr(r, d))
                          \/ Reads("br_if", d, OnBrIfExpr(r, d))
                          \/ \E e \in Depths : Reads("br_table", d, OnBrTableExpr(r, d, e))
     \/ Reads("return", 0, OnReturnExpr(r))

\* In modules with exact, a tail call finds its arguments and nothing else.
Exactly(n) == M.exact => Len(r.labels) = 1 /\ Len(r.tc.type_stack) = n

ReadCall ==
  /\ Reading
  /\ \E f \in Indices(M.funcs) :
       LET n == Len(FuncType(r, f).params)
       IN  \/ Reads("call", f, OnCallExpr(r, f))
           \/ Reads("call_indirect", f, OnCallIndirectExpr(r, f))
           \/ Exactly(n) /\ Reads("return_call", f, OnReturnCallExpr(r, f))
           \/ Exactly(n + 1) /\ Reads("return_call_indirect", f, OnReturnCallIndirectExpr(r, f))

ReadThrow ==
  /\ Reading
  /\ \/ \E tag \in Indices(M.tags) : Reads("throw", tag, OnThrowExpr(r, tag))
     \/ \E d \in Depths : Reads("rethrow", d, OnRethrowExpr(r, d))
     \/ Reads("unreachable", 0, OnUnreachableExpr(r))

ReadLocal ==
  /\ Reading
  /\ \E l \in 0 .. GetLocalCount(r) - 1 : \/ Reads("local.get", l, OnLocalGetExpr(r, l))
                                          \/ Reads("local.set", l, OnLocalSetExpr(r, l))
                                          \/ Reads("local.tee", l, OnLocalTeeExpr(r, l))

ReadOperand ==
  /\ Reading
  /\ \/ Reads("drop", 0, OnDropExpr(r))
     \/ Reads("select", 0, OnSelectExpr(r))
     \/ Reads("nop", 0, OnNopExpr(r))

ReadPlain ==
  /\ Reading
  /\ \/ \E op \in DOMAIN NumericOps : Reads(op, 0, OnNumericExpr(r, op))
     \/ \E op \in DOMAIN ConstOps : Reads(op, 0, OnConstExpr(r, op))
     \/ \E op \in DOMAIN MemoryOps : Reads(op, 0, OnMemoryExpr(r, op))
     \/ \E op \in DOMAIN BulkOps : Reads(op, 0, OnBulkExpr(r, op))

-----------------------------------------------------------------------------
\* Running.  An instruction is read at the frame's offset, which then points
\* behind it; imm(k) is its k-th immediate.

Pc == Top(t).offset
op == r.code[Pc + 1]
imm(k) == r.code[Pc + 1 + k]
Next0 == Jump(t, Pc + 1 + Immediates(op))

Executes(name, threads) ==
  /\ t.result = "run" /\ op = name
  /\ t' \in threads
  /\ UNCHANGED <<module, r, at, src>>

\* DefinedFunc::DoCall on a new Thread: the embedder calls any function.
Call ==
  /\ AllRead /\ t.result = "new"
  /\ \E inst \in {1, 2}, f \in M.imports .. Len(M.funcs) - 1 :
       t' = [PushCall(Push(NoThread, FuncType(r, f).params), inst, f)
               EXCEPT !.result = "run", !.func = f]
  /\ UNCHANGED <<module, r, at, src>>

StepBr == Executes("br", {Jump(t, imm(1))})

StepBrUnless == Executes("br_unless", {Pop(Next0, 1), Pop(Jump(t, imm(1)), 1)})

\* A key past the end is the number of entries.
StepBrTable ==
  Executes("br_table", {Pop(Jump(Next0, Pc + 2 + key * kBrTableEntrySize), 1) : key \in 0 .. imm(1)})

StepReturn == Executes("return", {PopCall(t)})

StepCall == Executes("call", {PushCall(Next0, t.inst, imm(1))})

StepCallImport ==
  Executes("call_import", DoCall(Next0, Resolve(t.inst, imm(1)), FuncType(r, imm(1))))

\* The table may hold any function, or nothing; the type is checked.
Entries(f) ==
  {Resolve(i, g) : i \in {1, 2}, g \in {g \in Indices(M.funcs) : FuncType(r, g) = FuncType(r, f)}}

StepCallIndirect ==
  Executes("call_indirect",
           {Result(Pop(Next0, 1), "trap")} \cup
           UNION {DoCall(Pop(Next0, 1), e, FuncType(r, imm(2))) : e \in Entries(imm(2))})

StepReturnCallIndirect ==
  Executes("return_call_indirect",
           {Result(Pop(Next0, 1), "trap")} \cup
           {DoReturnCall(Pop(Next0, 1), e, FuncType(r, imm(2))) : e \in Entries(imm(2))})

\* Mutated form: what is dropped is on top of what is kept.
StepDropKeep_DropTop == Executes("drop_keep", {Pop(Next0, imm(1))})

StepDropKeep ==
  Executes("drop_keep",
           {[Next0 EXCEPT !.values = Drop(@, imm(1) + imm(2)) \o TopOf(@, imm(2))]})

StepCatchDrop == Executes("catch_drop", {[Next0 EXCEPT !.exceptions = Drop(@, imm(1))]})

StepAdjustFrame == Executes("adjust_frame", {[Next0 EXCEPT !.frames[Len(t.frames)].func = imm(1)]})

StepAlloca == Executes("alloca", {Push(Next0, Locals(r, Top(t).func))})

Pick(i) == t.values[Len(t.values) + 1 - i]

StepLocal ==
  \/ Executes("local.get", {Push(Next0, <<Pick(imm(1))>>)})
  \/ Executes("local.set", {Pop([Next0 EXCEPT !.values[Len(t.values) + 1 - imm(1)] = Pick(1)], 1)})
  \/ Executes("local.tee", {[Next0 EXCEPT !.values[Len(t.values) + 1 - imm(1)] = Pick(1)]})

StepOperand ==
  \/ Executes("drop", {Pop(Next0, 1)})
  \/ Executes("select", {Push(Pop(Next0, 3), <<Pick(2)>>), Push(Pop(Next0, 3), <<Pick(3)>>)})
  \/ Executes("unreachable", {Result(Next0, "trap")})

\* What the opcodes of one kind do to the value stack: operands off, result on,
\* or a trap.
Apply(th, o) ==
  {Push(Pop(th, Len(o.params)), o.results)}
    \cup (IF o.traps THEN {Result(Pop(th, Len(o.params)), "trap")} ELSE {})

NumericKinds == {"unary", "binary", "compare", "convert", "i32_const", "f32_const"}
MemoryKinds == {"global_get", "global_set", "load", "store", "memory_grow", "memory_size"}
BulkKinds == {"memory_copy", "data_drop", "memory_fill", "memory_init", "table_get", "table_set",
              "table_copy", "elem_drop", "table_init", "table_grow", "table_size", "table_fill",
              "ref_func", "ref_null", "ref_is_null"}
SimdKinds == {"ternary", "lane", "replace_lane", "shuffle", "v128_const"}
SimdMemoryKinds == {"load_lane", "store_lane", "load_splat"}
AtomicKinds == {"atomic_load", "atomic_store", "atomic_rmw", "cmpxchg", "atomic_wait",
                "atomic_notify"}

Applies(kinds) ==
  /\ t.result = "run" /\ op \in kinds
  /\ t' \in Apply(Next0, PlainOp(op))
  /\ UNCHANGED <<module, r, at, src>>

StepNumeric == Applies(NumericKinds)
StepMemory == Applies(MemoryKinds)
StepBulk == Applies(BulkKinds)
StepSimd == Applies(SimdKinds)
StepSimdMemory == Applies(SimdMemoryKinds)
StepAtomic == Applies(AtomicKinds)

StepThrow ==
  Executes("throw", {DoThrow(Pop(Next0, Len(M.tags[imm(1) + 1])),
                             [inst |-> t.inst, tag |-> imm(1)])})

StepRethrow == Executes("rethrow", {DoThrow(Next0, t.exceptions[Len(t.exceptions) - imm(1)])})

Read == ReadBody \/ ReadEnd \/ ReadBlock \/ ReadClause \/ ReadBranch \/ ReadCall \/ ReadThrow
          \/ ReadLocal \/ ReadOperand \/ ReadPlain

Step == StepBr \/ StepBrUnless \/ StepBrTable \/ StepReturn \/ StepCall \/ StepCallImport
          \/ StepCallIndirect \/ StepReturnCallIndirect \/ StepDropKeep \/ StepCatchDrop
          \/ StepAdjustFrame \/ StepAlloca \/ StepLocal \/ StepOperand \/ StepNumeric
          \/ StepMemory \/ StepBulk \/ StepSimd \/ StepSimdMemory \/ StepAtomic
          \/ StepThrow \/ StepRethrow

Next == Read \/ Call \/ Step

Spec == Init /\ [][Next]_vars

-----------------------------------------------------------------------------
\* What WebAssembly says of exceptions, from the instructions alone.

\* The labels open behind the first n instructions of a body: where each was
\* opened, what it is, and whether control is in the part a catch covers.
Nesting(body) ==
  LET labels[n \in 0 .. Len(body)] ==
        IF n = 0 THEN <<>>
        ELSE LET before == labels[n - 1]
                 o      == body[n].op
             IN  IF o \in {"block", "loop", "if", "try"}
                 THEN Append(before, [start |-> n, covered |-> o = "try"])
                 ELSE IF o \in {"catch", "catch_all"}
                 THEN [before EXCEPT ![Len(before)].covered = FALSE]
                 ELSE IF o \in {"end", "delegate"} THEN Front(before) ELSE before
  IN  labels

\* The instruction behind which an exception with this tag goes on that is
\* raised while label k of these and no inner one is open; 0 if the function
\* does not catch it.
Catcher(body, open, k, tag) ==
  LET nesting == Nesting(body)
      \* catch, catch_all, delegate or end of the label opened at start
      Clauses(l) == {j \in l.start + 1 .. Len(body) :
                       /\ Len(nesting[j - 1]) = Len(nesting[l.start])
                       /\ Last(nesting[j - 1]).start = l.start
                       /\ \/ body[j].op \in {"catch_all", "delegate"}
                          \/ body[j].op = "catch" /\ body[j].arg = tag}
      First(S) == CHOOSE x \in S : \A y \in S : x <= y
      catcher[i \in 0 .. k] ==
        IF i = 0 THEN 0
        ELSE LET j == First(Clauses(open[i]))
             IN  IF ~open[i].covered \/ Clauses(open[i]) = {} THEN catcher[i - 1]
                 ELSE IF body[j].op = "delegate" THEN catcher[i - 1 - body[j].arg]
                 ELSE j
  IN  catcher[k]

\* Offset of the code of instruction j + 1.
OffsetBehind(d, j) == src[d][j + 1].offset

CaughtRightAt(d, i, tag) ==
  LET open  == Nesting(src[d])[i - 1]
      j     == Catcher(src[d], open, Len(open), tag)
      pc    == OffsetBehind(d, i)
      found == SearchHandlers(r.desc[d].handlers, pc, tag)
  IN  found.offset = IF j = 0 THEN kInvalidOffset ELSE OffsetBehind(d, j)

Complete == AllRead /\ t.result = "new"

-----------------------------------------------------------------------------
\* What the code asks of a frame, offset by offset.

\* A frame is in function func, keeps these types on the value stack
\* (arguments, locals, operands) and this many caught exceptions.
Shape(f, stack, exceptions) == [func |-> f, stack |-> stack, exceptions |-> exceptions]
Entry(f) == Shape(f, FuncType(r, f).params, 0)
Known(o) ==
  LET p == at[o]
  IN  Shape(p.func, FuncType(r, p.func).params \o Locals(r, p.func) \o p.stack, p.exceptions)

CodeOp(o) == r.code[o + 1]
Imm(o, k) == r.code[o + 1 + k]
Behind(o) == o + 1 + Immediates(CodeOp(o))
Replaced(s, n, types) == [s EXCEPT !.stack = Drop(@, n) \o types]
Nth(stack, i) == stack[Len(stack) + 1 - i]

\* The function a call at o is of: its type, not the function itself, for an
\* indirect one.
Called(o) == IF CodeOp(o) \in {"call", "call_import"} THEN Imm(o, 1) ELSE Imm(o, 2)

\* Where the instruction at o goes when it finds the shape s, and with which
\* shape, unless it raises an exception or leaves the function.
Flows(o, s) ==
  LET c == CodeOp(o)
      a == Imm(o, 1)
      Goes(x) == {<<Behind(o), x>>}
      Puts(stack) == Goes([s EXCEPT !.stack = stack])
  IN  CASE c = "br" -> {<<a, s>>}
        [] c = "br_unless" -> {<<target, Replaced(s, 1, <<>>)>> : target \in {a, Behind(o)}}
        [] c = "br_table" ->
             {<<o + 2 + key * kBrTableEntrySize, Replaced(s, 1, <<>>)>> : key \in 0 .. a}
        [] c \in {"return", "unreachable", "throw", "rethrow", "return_call_indirect"} -> {}
        [] c \in {"call", "call_import"} ->
             Goes(Replaced(s, Len(FuncType(r, a).params), FuncType(r, a).results))
        [] c = "call_indirect" ->
             LET type == FuncType(r, Called(o))
             IN  Goes(Replaced(s, Len(type.params) + 1, type.results))
        [] c = "drop_keep" -> Goes(Replaced(s, a + Imm(o, 2), TopOf(s.stack, Imm(o, 2))))
        [] c = "catch_drop" -> Goes([s EXCEPT !.exceptions = @ - a])
        [] c = "adjust_frame" -> Goes([s EXCEPT !.func = a])
        [] c = "alloca" -> Goes(Replaced(s, 0, Locals(r, s.func)))
        [] c = "local.get" -> Goes(Replaced(s, 0, <<Nth(s.stack, a)>>))
        [] c = "local.set" -> Puts(Drop([s.stack EXCEPT ![Len(s.stack) + 1 - a] = Nth(s.stack, 1)], 1))
        [] c = "local.tee" -> Puts([s.stack EXCEPT ![Len(s.stack) + 1 - a] = Nth(s.stack, 1)])
        [] c = "drop" -> Goes(Replaced(s, 1, <<>>))
        [] c = "select" -> {<<Behind(o), Replaced(s, 3, <<Nth(s.stack, i)>>)>> : i \in {2, 3}}
        [] OTHER -> Goes(Replaced(s, Len(PlainOp(c).params), PlainOp(c).results))

\* The shape of the frame while it raises an exception at o, or waits for a
\* call that may: without what the instruction pops.
CallOps == {"call", "call_import", "call_indirect"}
Rest(o, s) ==
  LET c == CodeOp(o)
  IN  Replaced(s, CASE c = "throw" -> Len(M.tags[Imm(o, 1) + 1])
                    [] c \in {"call", "call_import"} -> Len(FuncType(r, Called(o)).params)
                    [] c = "call_indirect" -> Len(FuncType(r, Called(o)).params) + 1
                    [] c = "rethrow" -> 0,
               <<>>)

-----------------------------------------------------------------------------

\* Offsets at which an instruction starts, as a reader of the stream finds them.
Starts ==
  LET walk[o \in 0 .. end(r)] ==
        IF o = end(r) THEN {} ELSE {o} \cup walk[o + 1 + Immediates(r.code[o + 1])]
  IN  walk[0]

FuncAt(o) == Max0({d \in DOMAIN r.desc : r.desc[d].code_offset <= o})

\* Some function has a try.
Tries == \E d \in DOMAIN r.desc : Len(r.desc[d].handlers) > 1

\* How a frame with the shape s goes on that is at pc when an exception with
\* this tag arrives, -1 being one that its instance does not know.
HandlerOf(s, pc, tag) == SearchHandlers(r.desc[Defined(r, s.func)].handlers, pc, tag)
Bottom(s) == Len(FuncType(r, s.func).params)
Landed(s, h, tag) ==
  Shape(s.func,
        SubSeq(s.stack, 1, Bottom(s) + h.values) \o (IF h.payload THEN M.tags[tag + 1] ELSE <<>>),
        h.exceptions + 1)
Tags == -1 .. Len(M.tags) - 1
Landings(s, pc) ==
  {<<HandlerOf(s, pc, tag).offset, Landed(s, HandlerOf(s, pc, tag), tag)>> :
     tag \in {x \in Tags : HandlerOf(s, pc, x) # NoHandler}}

\* The heights of its handlers are heights that it has, and T types their code.
Lands(T, s, pc) ==
  \A tag \in Tags :
    LET h == HandlerOf(s, pc, tag)
    IN  \/ h = NoHandler
        \/ /\ Tries /\ (h.payload => tag # -1)
           /\ h.values \in 0 .. Len(s.stack) - Bottom(s) /\ h.exceptions \in 0 .. s.exceptions
           /\ h.offset \in DOMAIN T /\ T[h.offset] = Landed(s, h, tag)

Pops1 == {"br_unless", "br_table", "drop", "call_indirect", "return_call_indirect"}
PlainKinds == UNION {NumericKinds, MemoryKinds, BulkKinds, SimdKinds, SimdMemoryKinds, AtomicKinds}
InModule == M.imports .. Len(M.funcs) - 1

\* The instruction at o finds what it needs in a frame with the shape s.
Fits(T, o, s) ==
  LET c    == CodeOp(o)
      a    == Imm(o, 1)
      n    == Len(s.stack)
      type == FuncType(r, Called(o))
      rest == Rest(o, s)
      results == FuncType(r, s.func).results
  IN  /\ c \in Pops1 => n >= 1
      /\ c = "br_table" => a \in Nat
      /\ c \in {"local.get", "local.set", "local.tee"} => a \in 1 .. n
      /\ c = "select" => n >= 3
      /\ c = "drop_keep" => a \in 0 .. n /\ Imm(o, 2) \in 0 .. n - a
      /\ c = "catch_drop" => a \in 0 .. s.exceptions
      /\ c = "rethrow" => a \in 0 .. s.exceptions - 1
      /\ c = "throw" => a \in Indices(M.tags) /\ Len(M.tags[a + 1]) <= n
      /\ c \in PlainKinds => Len(PlainOp(c).params) <= n
      /\ c = "return" => s.stack = results /\ s.exceptions = 0
      /\ c = "call" => a \in InModule
      /\ c = "call_import" => a \in 0 .. M.imports - 1
      /\ c \in {"call_indirect", "return_call_indirect"} => Called(o) \in Indices(M.funcs)
      /\ c \in {"call", "call_import"} => rest.stack \o type.params = s.stack
      /\ c = "call_indirect" => rest.stack \o type.params = Drop(s.stack, 1)
      /\ c = "return_call_indirect" =>
           type.params = Drop(s.stack, 1) /\ type.results = results /\ s.exceptions = 0
      /\ c = "adjust_frame" =>
           /\ a \in InModule /\ FuncType(r, a).results = results
           /\ Tries => Len(FuncType(r, a).params) = Len(FuncType(r, s.func).params)
      /\ c \in CallOps \cup {"throw", "rethrow"} => Lands(T, rest, Behind(o))
      /\ c \in CallOps =>
           IF Behind(o) \in DOMAIN at THEN Len(type.results) <= Len(at[Behind(o)].stack)
           ELSE rest.stack = <<>> /\ s.exceptions = 0

\* T types the code: every function starts with its arguments; T agrees with
\* what the validator knew, and reaches no instruction that it called
\* unreachable; each instruction finds what it needs and goes on where T has
\* what it leaves.
Shapes == [func : InModule, stack : Seq(ValueTypes), exceptions : Nat]
WellTyped(T) ==
  /\ \A f \in InModule :
       LET c == r.desc[Defined(r, f)].code_offset IN c \in DOMAIN T /\ T[c] = Entry(f)
  /\ \A o \in DOMAIN T :
       /\ o \in 0 .. end(r) - 1 /\ T[o] \in Shapes
       /\ o \in DOMAIN at => at[o].live /\ at[o].stack \in Seq(ValueTypes) /\ T[o] = Known(o)
       /\ Fits(T, o, T[o])
       /\ \A e \in Flows(o, T[o]) : e[1] \in DOMAIN T /\ T[e[1]] = e[2]

\* The shapes of the code that can be reached: the first to get to an offset,
\* from the start of a function on.
Typing ==
  LET entries == {r.desc[d].code_offset : d \in DOMAIN r.desc}
      After(o, s) ==
        Flows(o, s) \cup (IF CodeOp(o) \in CallOps \cup {"throw", "rethrow"} THEN Landings(Rest(o, s), Behind(o))
                          ELSE {})
      Flow(T, o) ==
        LET new == IF o \in DOMAIN T THEN {e \in After(o, T[o]) : e[1] \notin DOMAIN T \cup {kInvalidOffset}} ELSE {}
        IN  [x \in DOMAIN T \cup {e[1] : e \in new} |->
               IF x \in DOMAIN T THEN T[x] ELSE (CHOOSE e \in new : e[1] = x)[2]]
  IN  FoldLeft(Flow, [o \in entries |-> Entry(M.imports - 1 + FuncAt(o))], [i \in 1 .. end(r) |-> i - 1])

\* The code generator makes code that is typed.
CodeTyped == r.mod = BeginModule(M).mod /\ WellTyped(Typing)

\* Once a module has been read every forward branch is patched: it goes to the
\* start of an instruction of its own function, or of a function.
BranchesLand ==
  Complete =>
    /\ r.depth_fixups = {} /\ r.func_fixups = {}
    /\ \A o \in Starts : r.code[o + 1] \in {"br", "br_unless"} =>
         LET target == r.code[o + 2]
         IN  /\ target \in Starts
             /\ FuncAt(target) = FuncAt(o) \/ target = r.desc[FuncAt(target)].code_offset

\* What a frame has on the value stack at an offset where the validator knows
\* the operand types: arguments, locals, operands; while it waits for a call
\* to return, without the results.  It has nothing left at the return behind a
\* tail call to an import, which is a call there.
OnStack(k) ==
  LET frame   == t.frames[k]
      results == IF k = Len(t.frames) THEN 0
                 ELSE Len(FuncType(r, t.frames[k + 1].func).results)
  IN  IF frame.offset \notin DOMAIN at THEN <<>>
      ELSE FuncType(r, frame.func).params \o Locals(r, frame.func)
             \o Drop(at[frame.offset].stack, results)

\* The catch blocks that a frame executes.
Catching(k) ==
  IF t.frames[k].offset \in DOMAIN at THEN at[t.frames[k].offset].exceptions ELSE 0

AtInstruction == t.result = "run" /\ Pc \in DOMAIN at

\* Whenever a thread is about to execute an instruction of accepted code, its
\* value stack holds, call by call, exactly the arguments, locals and operands
\* of the types the validator computed there, code called unreachable is not
\* reached, and a call that ends leaves its results and nothing else: the drop
\* and keep counts, the positions of locals and the heights of handlers that
\* the code generator bakes into the code are right on every path.  The stack of
\* caught exceptions has one entry for every catch block being executed, in all
\* calls, and none of a function that returns (the assert of PopCall).
StackTyped ==
  /\ AtInstruction =>
       /\ at[Pc].live
       /\ \A k \in DOMAIN t.frames :
            /\ t.frames[k].offset \in DOMAIN at => at[t.frames[k].offset].func = t.frames[k].func
            /\ Catching(k) = (IF k = Len(t.frames) THEN Len(t.exceptions) ELSE t.frames[k + 1].exceptions)
                               - t.frames[k].exceptions
       /\ t.frames[1].exceptions = 0
       /\ t.values = FlattenSeq([k \in DOMAIN t.frames |-> OnStack(k)])
  /\ t.result = "run" /\ op = "return" => Top(t).exceptions = Len(t.exceptions)
  /\ t.result = "return" => t.values = FuncType(r, t.func).results

\* inst_ is the instance of the running function, also after calls, tail calls
\* and exceptions that cross instances.
InstCurrent == t.result = "run" => t.inst = Top(t).inst

\* An exception raised by an instruction is caught by the handler WebAssembly
\* names, at the start of that handler's code.  And of each handler, like each
\* branch, jump table, tail call and fall-through of the code, it is known where
\* it leads, and with what on the stacks: there the code expects exactly that,
\* the heights that a handler restores are heights that the frame has, and code
\* the validator called unreachable is not reached.
HandlersRight ==
  Complete => CodeTyped /\ \A d \in DOMAIN src : \A i \in DOMAIN src[d] : \A tag \in Indices(M.tags) :
                src[d][i].op \in Raises /\ i < Len(src[d]) => CaughtRightAt(d, i, tag)
=============================================================================
