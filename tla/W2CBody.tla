------------------------------- MODULE W2CBody -------------------------------
(***************************************************************************)
(* The C code that CWriter writes, run statement by statement: function    *)
(* bodies, calls, and the tail calls that go through tail_call_stack.      *)
(* As wasm2c does, names are generated and applied before the code is      *)
(* written.                                                                *)
(*                                                                         *)
(* A C variable that was not written yet is undefined, and so is a part of *)
(* tail_call_stack: reading one ends the run with a fault, and so does C's *)
(* undefined behaviour.                                                    *)
(***************************************************************************)
EXTENDS CWriter, Bitwise, TLC

N == INSTANCE Names
R == INSTANCE WasmSemantics

CONSTANTS
  Profiles,       \* names of the programs
  ProfileOf(_),   \* the module, its table, its entry function and the arguments
  CCode           \* what Compile writes for each of them

VARIABLES
  profile,   \* the program
  args,      \* the arguments of the entry function
  frames,    \* C stack frames, the running one last
  globals,   \* global variables of the instance
  fault,     \* "", or the undefined behaviour that ended the run
  outcome    \* <<>>, or how the entry function ended and its results

vars == <<profile, args, frames, globals, fault, outcome>>

\* GenerateNames, ApplyNames, and the functions with their tail callees.
WriteFuncs(m) ==
  [i \in DOMAIN m.funcs |-> [func |-> WriteFunc(m, m.funcs[i]), callee |-> WriteTailCallee(m, m.funcs[i])]]
Compile(m) == WriteFuncs(N!ApplyNames(N!GenerateNames(m))[1])
Mod   == ProfileOf(profile).mod
Table1 == ProfileOf(profile).table
HasTail(i) == CCode[profile][i].callee.out # <<>>

Undefined == -1
UB == 1000      \* no value of 8 bits, and no quotient of them

-----------------------------------------------------------------------------
(* C expressions on unsigned integers of 4 and 8 bits                       *)

Bits(t) == IF t = I64 THEN 8 ELSE 4
Cast(t, x) == x % (2 ^ Bits(t))
SignedCast(n, x) == IF x >= 2 ^ (n - 1) THEN x - 2 ^ n ELSE x
GetShiftMask(t) == Bits(t) - 1
\* Division of C truncates; INT_MIN / -1 is undefined.
CDiv(n, a, b) ==
  IF b = 0 \/ (a = -(2 ^ (n - 1)) /\ b = -1) THEN UB
  ELSE IF a >= 0 THEN (IF b > 0 THEN a \div b ELSE -(a \div (-b)))
  ELSE IF b > 0 THEN -((-a) \div b) ELSE (-a) \div (-b)
CMod(n, a, b) == IF CDiv(n, a, b) = UB THEN UB ELSE a - b * CDiv(n, a, b)
DIV_S_NoMin(t, a, b) ==
  IF b = 0 THEN R!Trap ELSE LET q == CDiv(Bits(t), a, b) IN IF q = UB THEN UB ELSE Cast(t, q)
DIV_S(t, a, b) ==
  IF b = 0 THEN R!Trap ELSE IF a = -(2 ^ (Bits(t) - 1)) /\ b = -1 THEN R!Trap
  ELSE LET q == CDiv(Bits(t), a, b) IN IF q = UB THEN UB ELSE Cast(t, q)
REM_S(t, a, b) ==
  IF b = 0 THEN R!Trap ELSE IF a = -(2 ^ (Bits(t) - 1)) /\ b = -1 THEN 0 ELSE Cast(t, CMod(Bits(t), a, b))
ShiftLeft(t, x, k) == Cast(t, x * 2 ^ k)
ShiftRight(x, k) == x \div (2 ^ k)
ROTL(t, x, y, mask) == ShiftLeft(t, x, y & mask) | ShiftRight(x, Cast(t, mask - y + 1) & mask)
ROTR(t, x, y, mask) == ShiftRight(x, y & mask) | ShiftLeft(t, x, Cast(t, mask - y + 1) & mask)
Truth(b) == IF b THEN 1 ELSE 0

CBinary(form, t, x, y) ==
  LET n == Bits(t)
      a == SignedCast(n, x)
      b == SignedCast(n, y)
      mask == GetShiftMask(t)
  IN  CASE form = "+" -> Cast(t, x + y) [] form = "-" -> Cast(t, x - y) [] form = "*" -> Cast(t, x * y)
        [] form = "&" -> x & y [] form = "|" -> x | y [] form = "^" -> x ^^ y
        [] form = "DIV_S" -> DIV_S(t, a, b) [] form = "REM_S" -> REM_S(t, a, b)
        [] form = "DIV_U" -> IF y = 0 THEN R!Trap ELSE x \div y
        [] form = "REM_U" -> IF y = 0 THEN R!Trap ELSE x % y
        [] form = "<<" -> ShiftLeft(t, x, y & mask)
        [] form = ">>" -> ShiftRight(x, y & mask)
        [] form = "(s)>>" -> Cast(t, ShiftRight(a, y & mask))
        [] form = "ROTL" -> ROTL(t, x, y, mask) [] form = "ROTR" -> ROTR(t, x, y, mask)
        [] form = "==" -> Truth(x = y) [] form = "!=" -> Truth(x # y)
        [] form = "<" -> Truth(x < y) [] form = "<=" -> Truth(x <= y) [] form = ">" -> Truth(x > y) [] form = ">=" -> Truth(x >= y)
        [] form = "(s)<" -> Truth(a < b) [] form = "(s)<=" -> Truth(a <= b)
        [] form = "(s)>" -> Truth(a > b) [] form = "(s)>=" -> Truth(a >= b)
\* __builtin_clz, __builtin_ctz and __builtin_popcount.
SetBits(n, x) == {i \in 0 .. n - 1 : ShiftRight(x, i) & 1 = 1}
CUnary(form, t, r, x) ==
  LET n == Bits(t)
  IN  CASE form = "!" -> Truth(x = 0)
        [] form = "(u64)(s64)(s32)" -> Cast(I64, SignedCast(4, x))
        [] form = "(u64)" -> x
        [] form = "(u32)" -> Cast(I32, x)
        [] form = "CLZ" -> IF x # 0 THEN n - 1 - (CHOOSE i \in SetBits(n, x) : \A j \in SetBits(n, x) : j <= i) ELSE n
        [] form = "CTZ" -> IF x # 0 THEN CHOOSE i \in SetBits(n, x) : \A j \in SetBits(n, x) : i <= j ELSE n
        [] form = "POPCNT" -> Cardinality(SetBits(n, x))
        [] form = "(s8)(u8)" -> Cast(r, SignedCast(1, x % 2))
        [] form = "(s16)(u16)" -> Cast(r, SignedCast(2, x % 4))
        [] form = "(s32)(u32)" -> Cast(r, SignedCast(4, x % 16))

-----------------------------------------------------------------------------
(* Frames                                                                   *)

Frame(i, callee, loc, dst, owner) ==
  [f |-> i, callee |-> callee, pc |-> 1, loc |-> loc, stk |-> <<>>, dst |-> dst, owner |-> owner, buf |-> <<>>, next |-> 0]
LocalsOf(i, params) == params \o [j \in DOMAIN Mod.funcs[i].locals |-> 0]
Top == Last(frames)
D   == Len(frames)
CodeOf(fr) == LET c == CCode[profile][fr.f] IN IF fr.callee THEN c.callee.out ELSE c.func.out
Stmt == CodeOf(Top)[Top.pc]
Is(k) == fault = "" /\ outcome = <<>> /\ Stmt[1] = k
\* The frame whose tail_call_stack and next the running function uses.
Owner == IF Top.callee THEN Top.owner ELSE D

TypeOfVar(fr, v) ==
  CASE v[1] = "s" -> v[3]
    [] v[1] = "l" -> (Mod.funcs[fr.f].decl.sig.params \o Mod.funcs[fr.f].locals)[v[2]]
Value(v) ==
  CASE v[1] = "s" -> IF <<v[2], v[3]>> \in DOMAIN Top.stk THEN Top.stk[<<v[2], v[3]>>] ELSE Undefined
    [] v[1] = "l" -> Top.loc[v[2]]
    [] v[1] = "g" -> globals[v[2]]
Values(vs) == [i \in DOMAIN vs |-> Value(vs[i])]
Store(fr, v, x) ==
  CASE v[1] = "s" -> [fr EXCEPT !.stk = (<<v[2], v[3]>> :> x) @@ @]
    [] v[1] = "l" -> [fr EXCEPT !.loc[v[2]] = x]
StoreAll(fr, vs, xs) ==
  LET after[i \in 0 .. Len(vs)] == IF i = 0 THEN fr ELSE Store(after[i - 1], vs[i], xs[i]) IN after[Len(vs)]
Step(fr) == [fr EXCEPT !.pc = @ + 1]
Continue(fr) == frames' = [frames EXCEPT ![D] = fr]

LabelsIn(c, l) == {i \in DOMAIN c : c[i] = <<"label", l>>}
GotoFrame(l) == Continue([Top EXCEPT !.pc = CHOOSE i \in LabelsIn(CodeOf(Top), l) : TRUE])

Quiet == UNCHANGED <<profile, args, globals, fault, outcome>>
Fails(what) == fault' = what /\ UNCHANGED <<profile, args, frames, globals, outcome>>
Ends(k, st) == outcome' = [k |-> k, st |-> st] /\ UNCHANGED <<profile, args, frames, globals, fault>>

-----------------------------------------------------------------------------
(* Statements                                                               *)

\* An assignment.
ExprVars(e) ==
  CASE e[1] = "const" -> {} [] e[1] = "var" -> {e[2]} [] e[1] = "un" -> {e[5]} [] e[1] = "bin" -> {e[5], e[6]}
    [] e[1] = "sel" -> {e[2], IF Value(e[2]) = 0 THEN e[4] ELSE e[3]}
ExprValue(e) ==
  CASE e[1] = "const" -> Cast(e[2], e[3])
    [] e[1] = "var" -> Value(e[2])
    [] e[1] = "un" -> CUnary(e[2], e[3], e[4], Value(e[5]))
    [] e[1] = "bin" -> CBinary(e[2], e[3], Value(e[5]), Value(e[6]))
    [] e[1] = "sel" -> IF Value(e[2]) # 0 THEN Value(e[3]) ELSE Value(e[4])
Assign ==
  /\ Is("set")
  /\ IF \E v \in ExprVars(Stmt[3]) : Value(v) = Undefined THEN Fails("undefined")
     ELSE LET x == ExprValue(Stmt[3])
          IN  CASE x = UB -> Fails("ub")
                [] x = R!Trap -> Ends("trap", <<>>)
                [] x \notin {UB, R!Trap} /\ Stmt[2][1] = "g" ->
                     /\ globals' = [globals EXCEPT ![Stmt[2][2]] = x]
                     /\ Continue(Step(Top))
                     /\ UNCHANGED <<profile, args, fault, outcome>>
                [] x \notin {UB, R!Trap} /\ Stmt[2][1] # "g" -> Continue(Step(Store(Top, Stmt[2], x))) /\ Quiet

Skip == Is("label") /\ Continue(Step(Top)) /\ Quiet
Goto == Is("goto") /\ GotoFrame(Stmt[2]) /\ Quiet
IfZero ==
  /\ Is("ifz")
  /\ IF Value(Stmt[2]) = Undefined THEN Fails("undefined")
     ELSE /\ IF Value(Stmt[2]) = 0 THEN GotoFrame(Stmt[3]) ELSE Continue(Step(Top))
          /\ Quiet
Switch ==
  /\ Is("switch")
  /\ IF Value(Stmt[2]) = Undefined THEN Fails("undefined")
     ELSE LET i == Value(Stmt[2]) + 1
              n == Len(Stmt[3])
          IN  GotoFrame(Stmt[3][IF i < n THEN i ELSE n]) /\ Quiet
\* UNREACHABLE, and an exception that nothing here catches.
Unreachable == Is("trap") /\ Ends("trap", <<>>)
Throw == Is("throw") /\ Ends("throw", <<>>)

\* CHECK_CALL_INDIRECT
Callable(sig, i) ==
  IF i + 1 \notin DOMAIN Table1 THEN FALSE
  ELSE IF Table1[i + 1] = 0 THEN FALSE ELSE Mod.funcs[Table1[i + 1]].decl.sig = sig
CheckCallIndirect ==
  /\ Is("check")
  /\ IF Value(Stmt[3]) = Undefined THEN Fails("undefined")
     ELSE IF Callable(Stmt[2], Value(Stmt[3])) THEN Continue(Step(Top)) /\ Quiet ELSE Ends("trap", <<>>)

\* A C call: the callee's frame goes on the stack, and its results go to the
\* caller's variables when it returns.
Enter(i, vals, dst) ==
  IF \E j \in DOMAIN vals : vals[j] = Undefined THEN Fails("undefined")
  ELSE frames' = Append(frames, Frame(i, FALSE, LocalsOf(i, vals), dst, 0)) /\ Quiet
Call == Is("call") /\ Enter(Stmt[3], Values(Stmt[4]), Stmt[2])
CallIndirect == Is("calli") /\ Enter(Table1[Value(Stmt[3]) + 1], Values(Stmt[4]), Stmt[2])
Return ==
  /\ Is("return")
  /\ LET xs == Values(Stmt[2])
     IN  IF \E j \in DOMAIN xs : xs[j] = Undefined THEN Fails("undefined")
         ELSE IF D = 1 THEN Ends("next", xs)
         ELSE /\ frames' = [Front(frames) EXCEPT ![D - 1] = Step(StoreAll(@, Top.dst, xs))]
              /\ Quiet

\* wasm_rt_memcpy to and from tail_call_stack.
TypesOf(vs) == [i \in DOMAIN vs |-> TypeOfVar(Top, vs[i])]
TailSet ==
  /\ Is("tailset")
  /\ LET xs == Values(Stmt[2])
     IN  IF \E j \in DOMAIN xs : xs[j] = Undefined THEN Fails("undefined")
         ELSE /\ frames' = [[frames EXCEPT ![D] = Step(@)] EXCEPT
                              ![Owner].buf = [j \in DOMAIN xs |-> <<TypesOf(Stmt[2])[j], xs[j]>>]]
              /\ Quiet
TailGet ==
  /\ Is("tailget")
  /\ LET buf == frames[Owner].buf
         ts  == TypesOf(Stmt[2])
     IN  IF Len(ts) > Len(buf) THEN Fails("layout")
         ELSE IF \E j \in DOMAIN ts : buf[j][1] # ts[j] THEN Fails("layout")
         ELSE Continue(Step(StoreAll(Top, Stmt[2], [j \in DOMAIN ts |-> buf[j][2]]))) /\ Quiet
SetNext(i) == frames' = [[frames EXCEPT ![D] = Step(@)] EXCEPT ![Owner].next = i] /\ Quiet
Next1 == Is("next") /\ SetNext(Stmt[2])
NextIndirect == Is("nexti") /\ SetNext(Table1[Value(Stmt[2]) + 1])
NextNull == Is("nextnull") /\ SetNext(0)
\* .func_tailcallee.fn of a table element is NULL for a function without one.
IfTail ==
  /\ Is("iftail")
  /\ IF HasTail(Table1[Value(Stmt[2]) + 1]) THEN GotoFrame(Stmt[3]) ELSE Continue(Step(Top))
  /\ Quiet
\* while (next->fn) { next->fn(instance_ptr, tail_call_stack, next); }
TailLoop ==
  /\ Is("loop")
  /\ IF Top.next = 0 THEN Continue(Step(Top))
     ELSE frames' = Append(frames, Frame(Top.next, TRUE,
                             LocalsOf(Top.next, [j \in DOMAIN Mod.funcs[Top.next].decl.sig.params |-> Undefined]), <<>>, D))
  /\ Quiet
Leave == Is("leave") /\ frames' = Front(frames) /\ Quiet

Terminated == (outcome # <<>> \/ fault # "") /\ UNCHANGED vars

Init ==
  /\ profile \in Profiles
  /\ args \in ProfileOf(profile).args
  /\ frames = <<Frame(ProfileOf(profile).entry, FALSE, LocalsOf(ProfileOf(profile).entry, args), <<>>, 0)>>
  /\ globals = [i \in DOMAIN ProfileOf(profile).mod.globals |-> i]
  /\ fault = ""
  /\ outcome = <<>>

Next ==
  \/ Assign \/ Skip \/ Goto \/ IfZero \/ Switch \/ Unreachable \/ Throw
  \/ CheckCallIndirect \/ Call \/ CallIndirect \/ Return
  \/ TailSet \/ TailGet \/ Next1 \/ NextIndirect \/ NextNull \/ IfTail \/ TailLoop \/ Leave
  \/ Terminated

Spec == Init /\ [][Next]_vars

-----------------------------------------------------------------------------
(* Properties                                                               *)

\* The C writer can write every function and a C compiler takes it: its type
\* stack never underflows and a branch finds the operands its label takes (the
\* asserts of CWriter), every goto has a label, and no label is written twice.
GotosDeclared ==
  \A i \in DOMAIN CCode[profile] :
    LET pair == CCode[profile][i]
    IN  /\ pair.func.ok /\ pair.callee.ok
        /\ \A c \in {pair.func.out, pair.callee.out} :
             LET targets == {c[j][2] : j \in {k \in DOMAIN c : c[k][1] = "goto"}}
                 labels  == {j \in DOMAIN c : c[j][1] = "label"}
             IN  /\ \A t \in targets : \E j \in labels : c[j][2] = t
                 /\ \A j, k \in labels : c[j] = c[k] => j = k

\* No C variable is read before it is written, no part of tail_call_stack is
\* read with a layout other than it was written with, no arithmetic of C is
\* undefined, and the tail_call_stack a callee was given belongs to a function
\* below it that is still running.
NoUndefinedBehaviour ==
  /\ fault = ""
  /\ \A d \in DOMAIN frames :
       frames[d].callee => frames[d].owner \in 1 .. d - 1 /\ ~frames[frames[d].owner].callee

\* A function written in C returns, traps or throws exactly when the function
\* of the module does, with the same results and the same globals.
ResultsAgree ==
  outcome # <<>> =>
    [k |-> outcome.k, st |-> outcome.st, gl |-> globals]
      = R!EvalFunc(Mod, Table1, ProfileOf(profile).entry, args, [i \in DOMAIN Mod.globals |-> i])

\* Functions that call each other by tail calls need no more C frames than the
\* program says, however often they do.
TailCallsBounded == Len(frames) <= ProfileOf(profile).depth

=============================================================================
