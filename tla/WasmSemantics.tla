---------------------------- MODULE WasmSemantics ----------------------------
(***************************************************************************)
(* What WebAssembly says a function computes: the reference for the code   *)
(* that wasm2c writes.  i32 has 4 bits and i64 has 8, and the 8 and 16 of  *)
(* extend8_s and extend16_s shrink likewise to 1 and 2.                    *)
(***************************************************************************)
EXTENDS WasmIR

Bits(t) == IF t = I64 THEN 8 ELSE 4
Wrap(t, x) == x % (2 ^ Bits(t))
AsSigned(n, x) == IF x >= 2 ^ (n - 1) THEN x - 2 ^ n ELSE x
Bit(x, i) == (x \div (2 ^ i)) % 2
RECURSIVE OfBits(_, _)
OfBits(b, n) == IF n = 0 THEN 0 ELSE OfBits(b, n - 1) + b[n - 1] * 2 ^ (n - 1)
Abs1(x) == IF x < 0 THEN -x ELSE x
Bool(b) == IF b THEN 1 ELSE 0
Trap == -2

\* Integer operators, by the bits or by what the result means.
BinaryValue(op, t, x, y) ==
  LET n == Bits(t)
      a == AsSigned(n, x)
      b == AsSigned(n, y)
      quot == (Abs1(a) \div Abs1(b)) * (IF (a < 0) = (b < 0) THEN 1 ELSE -1)
      k == y % n
      Bitwise1(F(_, _)) == OfBits([i \in 0 .. n - 1 |-> F(Bit(x, i), Bit(y, i))], n)
      Moved(F(_)) == OfBits([i \in 0 .. n - 1 |-> F(i)], n)
      At(i, fill) == IF i \in 0 .. n - 1 THEN Bit(x, i) ELSE fill
  IN  CASE op = "add" -> Wrap(t, x + y) [] op = "sub" -> Wrap(t, x - y) [] op = "mul" -> Wrap(t, x * y)
        [] op = "and" -> Bitwise1(LAMBDA p, q : p * q)
        [] op = "or"  -> Bitwise1(LAMBDA p, q : IF p + q > 0 THEN 1 ELSE 0)
        [] op = "xor" -> Bitwise1(LAMBDA p, q : (p + q) % 2)
        [] op = "div_u" -> IF y = 0 THEN Trap ELSE x \div y
        [] op = "rem_u" -> IF y = 0 THEN Trap ELSE x % y
        [] op = "div_s" -> IF b = 0 THEN Trap ELSE IF quot = 2 ^ (n - 1) THEN Trap ELSE Wrap(t, quot)
        [] op = "rem_s" -> IF b = 0 THEN Trap ELSE Wrap(t, a - b * quot)
        [] op = "shl"   -> Moved(LAMBDA i : At(i - k, 0))
        [] op = "shr_u" -> Moved(LAMBDA i : At(i + k, 0))
        [] op = "shr_s" -> Moved(LAMBDA i : At(i + k, Bit(x, n - 1)))
        [] op = "rotl"  -> Moved(LAMBDA i : Bit(x, (i - k) % n))
        [] op = "rotr"  -> Moved(LAMBDA i : Bit(x, (i + k) % n))
CompareValue(op, t, x, y) ==
  LET a == AsSigned(Bits(t), x)
      b == AsSigned(Bits(t), y)
  IN  Bool(CASE op = "eq" -> x = y [] op = "ne" -> x # y
             [] op = "lt_s" -> a < b [] op = "le_s" -> a <= b [] op = "gt_s" -> a > b [] op = "ge_s" -> a >= b
             [] op = "lt_u" -> x < y [] op = "le_u" -> x <= y [] op = "gt_u" -> x > y [] op = "ge_u" -> x >= y)
UnaryValue(op, t, r, x) ==
  LET n == Bits(t)
      ones == {i \in 0 .. n - 1 : Bit(x, i) = 1}
      Sext(k) == Wrap(r, AsSigned(k, x % (2 ^ k)))
  IN  CASE op = "eqz" -> Bool(x = 0)
        [] op = "clz" -> IF ones = {} THEN n ELSE n - 1 - (CHOOSE i \in ones : \A j \in ones : j <= i)
        [] op = "ctz" -> IF ones = {} THEN n ELSE CHOOSE i \in ones : \A j \in ones : i <= j
        [] op = "popcnt" -> Cardinality(ones)
        [] op \in {"extend_i32_s", "extend32_s"} -> Sext(4)
        [] op = "extend8_s" -> Sext(1) [] op = "extend16_s" -> Sext(2)
        [] op = "extend_i32_u" -> x [] op = "wrap_i64" -> Wrap(I32, x)

-----------------------------------------------------------------------------
(* Structured control.  r is the operand stack, the locals, the globals,    *)
(* how the last instruction ended (k: next, br, return, trap, throw) and,   *)
(* for a branch, how many blocks are still to be left (n).  t is the table: *)
(* functions, 0 for null.                                                   *)

Front1(s, n) == SubSeq(s, 1, Len(s) - n)
Back(s, n)   == SubSeq(s, Len(s) - n + 1, Len(s))
Top(r, i) == r.st[Len(r.st) - i]
Pop(r, n) == [r EXCEPT !.st = Front1(@, n)]
Push(r, v) == [r EXCEPT !.st = Append(@, v)]
Ends(r, k) == [r EXCEPT !.k = k]

RECURSIVE EvalList(_, _, _, _), EvalFunc(_, _, _, _, _)
EvalCall(m, t, r, i) ==
  LET np == Len(m.funcs[i].decl.sig.params)
      x  == EvalFunc(m, t, i, Back(r.st, np), r.gl)
  IN  [r EXCEPT !.st = Front1(@, np) \o x.st, !.gl = x.gl, !.k = x.k]
EvalIndirect(m, t, r, sig) ==
  LET i == Top(r, 0) + 1
  IN  IF i \notin DOMAIN t THEN Ends(r, "trap")
      ELSE IF t[i] = 0 THEN Ends(r, "trap")
      ELSE IF m.funcs[t[i]].decl.sig # sig THEN Ends(r, "trap")
      ELSE EvalCall(m, t, Pop(r, 1), t[i])
Leaves(r) == IF r.k = "next" THEN Ends(r, "return") ELSE r
RECURSIVE EvalBlock(_, _, _, _)
\* x is how the body of e ended, base the operands below those of e.
Taken(x, base, arity) == [x EXCEPT !.k = "next", !.st = base \o Back(x.st, arity)]
AfterBody(m, t, e, base, x) ==
  CASE x.k = "next" -> [x EXCEPT !.st = base \o x.st]
    [] x.k = "br" /\ x.n > 0 -> [x EXCEPT !.n = @ - 1]
    [] x.k = "br" /\ x.n = 0 /\ e.k = "Loop" -> EvalBlock(m, t, Taken(x, base, Len(e.decl.sig.params)), e)
    [] x.k = "br" /\ x.n = 0 /\ e.k # "Loop" -> Taken(x, base, Len(e.decl.sig.results))
    [] OTHER -> x
EvalBody(m, t, r, e, es) ==
  LET np == Len(e.decl.sig.params)
  IN  AfterBody(m, t, e, Front1(r.st, np), EvalList(m, t, [r EXCEPT !.st = Back(@, np)], es))
EvalBlock(m, t, r, e) ==
  IF e.k = "If" THEN EvalBody(m, t, Pop(r, 1), e, IF Top(r, 0) = 0 THEN e.alt ELSE e.body)
  ELSE EvalBody(m, t, r, e, e.body)
Computed(r, v) == IF v = Trap THEN Ends(r, "trap") ELSE Push(Pop(r, 2), v)
Br(r, v) == [r EXCEPT !.k = "br", !.n = v[2]]
Eval(m, t, r, e) ==
  CASE e.k \in {"Binary", "Compare"} ->
         Computed(r, IF e.k = "Binary" THEN BinaryValue(e.op, e.im[1], Top(r, 1), Top(r, 0))
                     ELSE CompareValue(e.op, e.im[1], Top(r, 1), Top(r, 0)))
    [] e.k \in {"Unary", "Convert"} -> Push(Pop(r, 1), UnaryValue(e.op, e.im[1], e.im[2], Top(r, 0)))
    [] e.k = "Const" -> Push(r, Wrap(IF e.op = "i64.const" THEN I64 ELSE I32, e.im[1]))
    [] e.k = "LocalGet" -> Push(r, r.loc[e.im[1][2] + 1])
    [] e.k = "LocalSet" -> Pop([r EXCEPT !.loc[e.im[1][2] + 1] = Top(r, 0)], 1)
    [] e.k = "LocalTee" -> [r EXCEPT !.loc[e.im[1][2] + 1] = Top(r, 0)]
    [] e.k = "GlobalGet" -> Push(r, r.gl[e.im[1][2] + 1])
    [] e.k = "GlobalSet" -> Pop([r EXCEPT !.gl[e.im[1][2] + 1] = Top(r, 0)], 1)
    [] e.k = "Drop" -> Pop(r, 1)
    [] e.k = "Nop" -> r
    [] e.k = "Select" -> Push(Pop(r, 3), IF Top(r, 0) # 0 THEN Top(r, 2) ELSE Top(r, 1))
    [] e.k = "Br" -> Br(r, e.im[1])
    [] e.k = "BrIf" -> IF Top(r, 0) # 0 THEN Br(Pop(r, 1), e.im[1]) ELSE Pop(r, 1)
    [] e.k = "BrTable" -> LET i == Top(r, 0) + 1 IN Br(Pop(r, 1), IF i \in DOMAIN e.im[1] THEN e.im[1][i] ELSE e.im[2])
    [] e.k = "Return" -> Ends(r, "return")
    [] e.k = "Call" -> EvalCall(m, t, r, e.im[1][2] + 1)
    [] e.k = "CallIndirect" -> EvalIndirect(m, t, r, e.im[1].sig)
    [] e.k = "ReturnCall" -> Leaves(EvalCall(m, t, r, e.im[1][2] + 1))
    [] e.k = "ReturnCallIndirect" -> Leaves(EvalIndirect(m, t, r, e.im[1].sig))
    [] e.k = "Unreachable" -> Ends(r, "trap")
    [] e.k = "Throw" -> Ends(r, "throw")
    [] e.k \in {"Block", "Loop", "If", "Try"} -> EvalBlock(m, t, r, e)
Then(m, t, x, es) == IF x.k = "next" THEN EvalList(m, t, x, es) ELSE x
EvalList(m, t, r, es) == IF es = <<>> THEN r ELSE Then(m, t, Eval(m, t, r, Head(es)), Tail(es))
Ended(x, arity) ==
  IF x.k \in {"next", "br", "return"} THEN [k |-> "next", st |-> Back(x.st, arity), gl |-> x.gl]
  ELSE [k |-> x.k, st |-> <<>>, gl |-> x.gl]
EvalFunc(m, t, i, args, gl) ==
  LET f == m.funcs[i]
  IN  Ended(EvalList(m, t, [st |-> <<>>, loc |-> args \o [j \in DOMAIN f.locals |-> 0], gl |-> gl, k |-> "next", n |-> 0], f.body),
            Len(f.decl.sig.results))
=============================================================================
