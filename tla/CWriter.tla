------------------------------- MODULE CWriter -------------------------------
(***************************************************************************)
(* src/c-writer.cc: the C code of a function body.                         *)
(*                                                                         *)
(* A writer w holds the function, type_stack_ (types), label_stack_        *)
(* (labels, the innermost last), the statements written so far (out),      *)
(* whether it writes the tail-callee version of the function, and whether  *)
(* every assert of the writer held (ok).                                   *)
(*                                                                         *)
(* The operand stack becomes C variables: <<"s", i, t>> is the variable of *)
(* depth i and type t, <<"l", i>> a parameter or local, <<"g", i>> a       *)
(* global.  Braces are flattened: a label is <<"n", name>>, <<"f">> for    *)
(* the end of the function, or <<"#", n>> where C has a brace.             *)
(***************************************************************************)
EXTENDS WasmIR

\* Func::features_used.tailcall, set by the binary reader.
RECURSIVE MakesTailCall(_)
MakesTailCall(es) ==
  \E i \in DOMAIN es :
    \/ es[i].k \in {"ReturnCall", "ReturnCallIndirect"}
    \/ es[i].k \in {"Block", "Loop", "If", "Try"} /\ MakesTailCall(es[i].body)
    \/ es[i].k = "If" /\ MakesTailCall(es[i].alt)

NewWriter(m, f, callee) ==
  [m |-> m, f |-> f, callee |-> callee, types |-> <<>>, labels |-> <<>>, out |-> <<>>, n |-> 0, ok |-> TRUE]
Emit(w, ss) == [w EXCEPT !.out = @ \o ss]
Assert1(w, b) == [w EXCEPT !.ok = @ /\ b]

PushTypes(w, ts) == [w EXCEPT !.types = @ \o ts]
PushType(w, t)   == PushTypes(w, <<t>>)
DropTypes(w, n)  ==
  IF n <= Len(w.types) THEN [w EXCEPT !.types = SubSeq(@, 1, Len(@) - n)] ELSE Assert1([w EXCEPT !.types = <<>>], FALSE)
ResetTypeStack(w, mark) == Assert1([w EXCEPT !.types = SubSeq(@, 1, mark)], mark <= Len(w.types))
\* An index may be one below the top: StackVar(num_params - 1, ...) of a call
\* without parameters names the variable that the result will occupy.
StackVarOf(w, i, t) == <<"s", Len(w.types) - 1 - i, t>>
StackVar(w, i) == StackVarOf(w, i, IF i < Len(w.types) THEN w.types[Len(w.types) - i] ELSE 0)
StackVars(w, n, above) == [i \in 1 .. n |-> StackVar(w, n - i + above)]
Needs(w, n) == Assert1(w, n <= Len(w.types))

-----------------------------------------------------------------------------
(* Labels                                                                   *)

CLabel(name) == IF name = <<>> THEN <<"f">> ELSE <<"n", name>>
PushLabel(w, loop, name, sig) ==
  [w EXCEPT !.labels = Append(@, [name |-> name, sig |-> IF loop THEN sig.params ELSE sig.results,
                                  size |-> Len(w.types), used |-> FALSE])]
PopLabel(w) == [w EXCEPT !.labels = Front(@)]
LabelDecl(w, name) == IF Last(w.labels).used THEN Emit(w, <<<<"label", CLabel(name)>>>>) ELSE w
\* A name that no label bears designates the function.
FindLabel(w, v) ==
  LET hits == {i \in DOMAIN w.labels : w.labels[i].name = v[2]}
  IN  IF IsIndex(v) \/ hits = {} THEN 1 ELSE CHOOSE i \in hits : \A j \in hits : j <= i
UseLabel_Named(w, v) == IF IsIndex(v) THEN w ELSE [w EXCEPT !.labels[FindLabel(w, v)].used = TRUE]
UseLabel(w, v) ==
  Assert1([w EXCEPT !.labels[FindLabel(w, v)].used = TRUE], IsIndex(v) => v[2] + 1 = Len(w.labels))

GotoLabel_TopFirst(w, v) ==
  LET l      == w.labels[FindLabel(w, v)]
      amount == Len(l.sig)
      offset == Len(w.types) - l.size - amount
      moves  == IF offset <= 0 THEN <<>>
                ELSE [i \in 1 .. amount |->
                        <<"set", StackVarOf(w, i - 1 + offset, l.sig[amount - i + 1]), <<"var", StackVar(w, i - 1)>>>>]
  IN  Emit(UseLabel(w, v), moves \o <<<<"goto", CLabel(IF IsIndex(v) THEN <<>> ELSE l.name)>>>>)
\* Write(GotoLabel): the values of the label move down to where the code
\* behind it expects them, the lowest first.
GotoLabel(w, v) ==
  LET l      == w.labels[FindLabel(w, v)]
      amount == Len(l.sig)
      offset == Len(w.types) - l.size - amount
      moves  == IF offset <= 0 THEN <<>>
                ELSE [i \in 1 .. amount |->
                        <<"set", StackVarOf(w, amount - i + offset, l.sig[i]), <<"var", StackVar(w, amount - i)>>>>]
  IN  Emit(Assert1(UseLabel(w, v), amount > 0 => offset >= 0), moves \o <<<<"goto", CLabel(IF IsIndex(v) THEN <<>> ELSE l.name)>>>>)

-----------------------------------------------------------------------------
(* Numbers: the C operator, macro or cast of each instruction.  An          *)
(* instruction is its name without the type, and im is <<type of the        *)
(* operands, type of the result>>.                                          *)

BinaryForm(op) ==
  CASE op = "add" -> "+" [] op = "sub" -> "-" [] op = "mul" -> "*"
    [] op = "and" -> "&" [] op = "or" -> "|" [] op = "xor" -> "^"
    [] op = "div_s" -> "DIV_S" [] op = "div_u" -> "DIV_U" [] op = "rem_s" -> "REM_S" [] op = "rem_u" -> "REM_U"
    [] op = "shl" -> "<<" [] op = "shr_s" -> "(s)>>" [] op = "shr_u" -> ">>"
    [] op = "rotl" -> "ROTL" [] op = "rotr" -> "ROTR"
CompareForm(op) ==
  CASE op = "eq" -> "==" [] op = "ne" -> "!="
    [] op = "lt_s" -> "(s)<" [] op = "le_s" -> "(s)<=" [] op = "gt_s" -> "(s)>" [] op = "ge_s" -> "(s)>="
    [] op = "lt_u" -> "<" [] op = "le_u" -> "<=" [] op = "gt_u" -> ">" [] op = "ge_u" -> ">="
ConvertForm(op) ==
  CASE op = "eqz" -> "!" [] op = "extend_i32_s" -> "(u64)(s64)(s32)" [] op = "extend_i32_u" -> "(u64)"
    [] op = "wrap_i64" -> "(u32)"
UnaryForm(op) ==
  CASE op = "clz" -> "CLZ" [] op = "ctz" -> "CTZ" [] op = "popcnt" -> "POPCNT"
    [] op = "extend8_s" -> "(s8)(u8)" [] op = "extend16_s" -> "(s16)(u16)" [] op = "extend32_s" -> "(s32)(u32)"

\* WriteSimpleUnaryExpr; WriteInfixBinaryExpr and its siblings.
WriteUnary(w, form, e) ==
  PushType(DropTypes(Emit(Needs(w, 1), <<<<"set", StackVarOf(w, 0, e.im[2]), <<"un", form, e.im[1], e.im[2], StackVar(w, 0)>>>>>>), 1),
           e.im[2])
WriteBinary(w, form, e) ==
  PushType(DropTypes(Emit(Needs(w, 2), <<<<"set", StackVarOf(w, 1, e.im[2]),
                                           <<"bin", form, e.im[1], e.im[2], StackVar(w, 1), StackVar(w, 0)>>>>>>), 2),
           e.im[2])

-----------------------------------------------------------------------------
(* Calls.  A call is <<"call", variables for the results, function,         *)
(* arguments>>; several results pass through a struct tmp.                  *)

Results(w, sig, below) ==
  IF Len(sig.results) = 1 THEN <<StackVarOf(w, below - 1, sig.results[1])>>
  ELSE LET n == Len(w.types) - below IN [i \in DOMAIN sig.results |-> <<"s", n + i - 1, sig.results[i]>>]
WriteCall(w, v) ==
  LET i   == GetFuncIndex(w.m, v) + 1
      sig == w.m.funcs[i].decl.sig
      n   == Len(sig.params)
  IN  PushTypes(DropTypes(Emit(Needs(w, n), <<<<"call", Results(w, sig, n), i, StackVars(w, n, 0)>>>>), n), sig.results)
WriteCallIndirect(w, decl) ==
  LET n == Len(decl.sig.params)
  IN  PushTypes(DropTypes(Emit(Needs(w, n + 1),
                               <<<<"check", decl.sig, StackVar(w, 0)>>,
                                 <<"calli", Results(w, decl.sig, n + 1), StackVar(w, 0), StackVars(w, n, 1)>>>>), n + 1),
                decl.sig.results)

\* The caller of a tail callee passes the operands and receives the results
\* through tail_call_stack, and calls next->fn until there is none.
FinishReturnCall(w) ==
  LET rs == w.f.decl.sig.results
      q  == PushTypes(Emit(w, <<<<"loop">>>>), rs)
  IN  IF w.callee THEN Emit(w, <<<<"leave">>>>)
      ELSE IF rs = <<>> THEN Emit(q, <<<<"goto", <<"f">>>>>>)
      ELSE Emit(q, <<<<"tailget", StackVars(q, Len(rs), 0)>>, <<"goto", <<"f">>>>>>)
SpillTail(vars) == IF vars = <<>> THEN <<>> ELSE <<<<"tailset", vars>>>>
WriteReturnCall_Plain(w0, v) == Emit(WriteCall(UseLabel(w0, Idx(Len(w0.labels) - 1)), v), <<<<"goto", <<"f">>>>>>)
WriteReturnCall(w0, v) ==
  LET w == UseLabel(w0, Idx(Len(w0.labels) - 1))
      i == GetFuncIndex(w.m, v) + 1
      n == Len(w.m.funcs[i].decl.sig.params)
  IN  IF ~MakesTailCall(w.m.funcs[i].body) THEN Emit(WriteCall(w, v), <<<<"goto", <<"f">>>>>>)
      ELSE FinishReturnCall(DropTypes(Emit(Needs(w, n), SpillTail(StackVars(w, n, 0)) \o <<<<"next", i>>>>), n))
WriteReturnCallIndirect(w0, decl) ==
  LET w == [UseLabel(w0, Idx(Len(w0.labels) - 1)) EXCEPT !.n = @ + 2]
      n == Len(decl.sig.params)
      x == StackVar(w, 0)
      a == Emit(WriteCallIndirect(Emit(Needs(w, n + 1), <<<<"check", decl.sig, x>>, <<"iftail", x, <<"#", w.n>>>>>>), decl),
                (IF w.callee THEN <<<<"nextnull">>>> ELSE <<>>) \o <<<<"goto", <<"#", w.n - 1>>>>, <<"label", <<"#", w.n>>>>>>)
      b == Emit(a, SpillTail(StackVars(w, n, 1)) \o <<<<"nexti", x>>>>)
      c == DropTypes([b EXCEPT !.types = w.types], n + 1)
      rs == w.f.decl.sig.results
      get == PushTypes(Emit(c, <<<<"loop">>>>), rs)
      got == IF rs = <<>> THEN get ELSE Emit(get, <<<<"tailget", StackVars(get, Len(rs), 0)>>>>)
  IN  Emit(IF w.callee THEN c ELSE got,
           <<<<"label", <<"#", w.n - 1>>>>, IF w.callee THEN <<"leave">> ELSE <<"goto", <<"f">>>>>>)

-----------------------------------------------------------------------------
(* Write(ExprList)                                                          *)

\* What follows one of these in its list is not written.
Stops == {"Br", "BrTable", "Return", "Unreachable", "ReturnCall", "ReturnCallIndirect"}

LocalTypeOf(f, v) == (f.decl.sig.params \o f.locals)[LocalIndex(f, v) + 1]
LocalVar(f, v) == <<"l", LocalIndex(f, v) + 1>>
GlobalVar(w, v) == <<"g", GetGlobalIndex(w.m, v) + 1>>
Assigned(w, var, e) == Emit(w, <<<<"set", var, e>>>>)

WriteBrTable(w, e) ==
  LET targets == Append(e.im[1], e.im[2])
      n == Len(targets)
      Case(i) == <<"#", w.n + i>>
      start == DropTypes(Emit([Needs(w, 1) EXCEPT !.n = @ + n], <<<<"switch", StackVar(w, 0), [i \in 1 .. n |-> Case(i)]>>>>), 1)
      after[i \in 0 .. n] == IF i = 0 THEN start ELSE GotoLabel(Emit(after[i - 1], <<<<"label", Case(i)>>>>), targets[i])
  IN  after[n]

WritePlainInstr(w, e) ==
  CASE e.k = "Binary"  -> WriteBinary(w, BinaryForm(e.op), e)
    [] e.k = "Compare" -> WriteBinary(w, CompareForm(e.op), e)
    [] e.k = "Convert" -> WriteUnary(w, ConvertForm(e.op), e)
    [] e.k = "Unary"   -> WriteUnary(w, UnaryForm(e.op), e)
    [] e.k = "Const"   -> LET t == IF e.op = "i64.const" THEN I64 ELSE I32 q == PushType(w, t)
                          IN  Assigned(q, StackVar(q, 0), <<"const", t, e.im[1]>>)
    [] e.k = "LocalGet" -> LET q == PushType(w, LocalTypeOf(w.f, e.im[1]))
                           IN  Assigned(q, StackVar(q, 0), <<"var", LocalVar(w.f, e.im[1])>>)
    [] e.k = "LocalSet" -> DropTypes(Assigned(Needs(w, 1), LocalVar(w.f, e.im[1]), <<"var", StackVar(w, 0)>>), 1)
    [] e.k = "LocalTee" -> Assigned(Needs(w, 1), LocalVar(w.f, e.im[1]), <<"var", StackVar(w, 0)>>)
    [] e.k = "GlobalGet" -> LET q == PushType(w, w.m.globals[GetGlobalIndex(w.m, e.im[1]) + 1].type)
                            IN  Assigned(q, StackVar(q, 0), <<"var", GlobalVar(w, e.im[1])>>)
    [] e.k = "GlobalSet" -> DropTypes(Assigned(Needs(w, 1), GlobalVar(w, e.im[1]), <<"var", StackVar(w, 0)>>), 1)
    [] e.k = "Drop" -> DropTypes(w, 1)
    [] e.k = "Nop" -> w
    [] e.k = "Select" -> LET q == Assigned(Needs(w, 3), StackVar(w, 2), <<"sel", StackVar(w, 0), StackVar(w, 2), StackVar(w, 1)>>)
                         IN  PushType(DropTypes(q, 3), IF Len(w.types) > 1 THEN w.types[Len(w.types) - 1] ELSE I32)
    [] e.k = "Br" -> GotoLabel(w, e.im[1])
    [] e.k = "BrIf" ->
         LET l == <<"#", w.n + 1>>
         IN  Emit(GotoLabel(DropTypes(Emit([Needs(w, 1) EXCEPT !.n = @ + 1], <<<<"ifz", StackVar(w, 0), l>>>>), 1), e.im[1]), <<<<"label", l>>>>)
    [] e.k = "BrTable" -> WriteBrTable(w, e)
    [] e.k = "Return" -> GotoLabel(w, Idx(Len(w.labels) - 1))
    [] e.k = "Call" -> WriteCall(w, e.im[1])
    [] e.k = "CallIndirect" -> WriteCallIndirect(w, e.im[1])
    [] e.k = "ReturnCall" -> WriteReturnCall(w, e.im[1])
    [] e.k = "ReturnCallIndirect" -> WriteReturnCallIndirect(w, e.im[1])
    [] e.k = "Unreachable" -> Emit(w, <<<<"trap">>>>)
    [] e.k = "Throw" -> Emit(w, <<<<"throw">>>>)

\* A block takes its parameters off the stack, and its label is written
\* behind it (in front of a loop) if a branch uses it.
RECURSIVE WriteExprs(_, _)
WriteBlock(w, e) ==
  LET np == Len(e.decl.sig.params)
      a == DropTypes(w, np)
      b == PushTypes(PushLabel(a, FALSE, e.label, e.decl.sig), e.decl.sig.params)
      c == LabelDecl(WriteExprs(b, e.body), e.label)
  IN  PushTypes(PopLabel(ResetTypeStack(c, Len(a.types))), e.decl.sig.results)
WriteLoop(w, e) ==
  LET np == Len(e.decl.sig.params)
      a == Emit(DropTypes(w, np), <<<<"label", CLabel(e.label)>>>>)
      b == PushTypes(PushLabel(a, TRUE, e.label, e.decl.sig), e.decl.sig.params)
      c == WriteExprs(b, e.body)
  IN  IF e.body = <<>> THEN w ELSE PushTypes(PopLabel(ResetTypeStack(c, Len(a.types))), e.decl.sig.results)
WriteIf(w, e) ==
  LET else == <<"#", w.n + 1>>
      end  == <<"#", w.n + 2>>
      a == DropTypes(DropTypes(Emit([Needs(w, 1) EXCEPT !.n = @ + 2], <<<<"ifz", StackVar(w, 0), else>>>>), 1), Len(e.decl.sig.params))
      b == PushTypes(PushLabel(a, FALSE, e.label, e.decl.sig), e.decl.sig.params)
      c == Emit(WriteExprs(b, e.body), <<<<"goto", end>>, <<"label", else>>>>)
      d == IF e.alt = <<>> THEN c ELSE WriteExprs(PushTypes(ResetTypeStack(c, Len(a.types)), e.decl.sig.params), e.alt)
  IN  PushTypes(PopLabel(LabelDecl(Emit(ResetTypeStack(d, Len(a.types)), <<<<"label", end>>>>), e.label)), e.decl.sig.results)
WriteExpr(w, e) ==
  CASE e.k = "Block" \/ (e.k = "Try" /\ e.kind = "Plain") -> WriteBlock(w, e)
    [] e.k = "Loop" -> WriteLoop(w, e)
    [] e.k = "If" -> WriteIf(w, e)
    [] OTHER -> WritePlainInstr(w, e)
WriteExprs(w, es) ==
  IF es = <<>> THEN w
  ELSE LET q == WriteExpr(w, Head(es))
       IN  IF Head(es).k \in Stops THEN q ELSE IF q.ok THEN WriteExprs(q, Tail(es)) ELSE q

-----------------------------------------------------------------------------
(* Functions                                                                *)

Body(m, f, callee) ==
  LET rs == f.decl.sig.results
      w  == LabelDecl(WriteExprs(PushLabel(NewWriter(m, f, callee), FALSE, <<>>, f.decl.sig), f.body), <<>>)
  IN  PushTypes([w EXCEPT !.types = <<>>], rs)
\* Write(const Func&)
WriteFunc(m, f) == LET w == Body(m, f, FALSE) IN Emit(w, <<<<"return", StackVars(w, Len(w.types), 0)>>>>)
\* WriteTailCallee, for functions that make tail calls.
WriteTailCallee(m, f) ==
  LET w == Body(m, f, TRUE)
      get == IF f.decl.sig.params = <<>> THEN <<>> ELSE <<<<"tailget", [i \in DOMAIN f.decl.sig.params |-> <<"l", i>>]>>>>
  IN  IF ~MakesTailCall(f.body) THEN NewWriter(m, f, TRUE)
      ELSE [Emit(w, SpillTail(StackVars(w, Len(w.types), 0)) \o <<<<"nextnull">>, <<"leave">>>>) EXCEPT !.out = get \o @]
=============================================================================
