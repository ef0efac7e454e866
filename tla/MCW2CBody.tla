------------------------------ MODULE MCW2CBody ------------------------------
(* The programs that the run of W2CBody translates and runs.                *)
EXTENDS W2CBody

B(sig) == Decl(FALSE, Idx(kInvalidIndex), sig)
Get(i) == Plain("local.get", <<Idx(i)>>)
SetL(i) == Plain("local.set", <<Idx(i)>>)
Tee(i) == Plain("local.tee", <<Idx(i)>>)
C(n) == Plain("i32.const", <<n>>)
L(n) == Plain("i64.const", <<n>>)
P(o) == Plain(o, <<>>)
Num(k, op, t, r) == [k |-> k, op |-> op, im |-> <<t, r>>]
Bin(op) == Num("Binary", op, I32, I32)
Bin64(op) == Num("Binary", op, I64, I64)
Br1(d) == Plain("br", <<Idx(d)>>)
BrIf1(d) == Plain("br_if", <<Idx(d)>>)
F(sig, locals, body) == Func(<<>>, B(sig), locals, body)
ModuleOf(fs) == [EmptyModule EXCEPT !.funcs = fs]
Program(m, table, args1, depth) == [mod |-> m, table |-> table, entry |-> 1, args |-> args1, depth |-> depth]

\* A branch of each kind, out of zero to two blocks, past x operands of the
\* blocks it leaves, with nr results.
ResultTypes(nr) == CASE nr = 0 -> <<>> [] nr = 1 -> <<I32>> [] nr = 3 -> <<I64, I32, I32>>
ResultExprs(nr) == CASE nr = 0 -> <<>> [] nr = 1 -> <<Get(0)>> [] nr = 3 -> <<L(77), Get(1), Get(0)>>
Branch(kind, d) ==
  CASE kind = "br" -> <<Br1(d)>>
    [] kind = "br_if" -> <<Get(1), BrIf1(d), Br1(0)>>
    [] kind = "br_table" -> <<Get(1), Plain("br_table", <<<<Idx(d), Idx(2 - d)>>, Idx(0)>>)>>
    [] kind = "return" -> <<P("return")>>
    [] kind = "fall" -> <<Br1(0), P("drop"), P("drop")>>
BranchBody(p) ==
  LET sig == Sig([i \in 1 .. p.np |-> I32], ResultTypes(p.nr))
      extra == [i \in 1 .. p.x |-> IF i = 1 THEN C(9) ELSE L(33)]
      params == [i \in 1 .. p.np |-> Get(1)]
      drops == [i \in 1 .. p.np |-> SetL(2)]
      inner == drops \o extra \o ResultExprs(p.nr) \o Branch(p.kind, p.d)
      shaped == IF p.shape = "if"
                THEN params \o <<Get(0), IfExpr(<<>>, B(sig), inner, drops \o <<P("unreachable")>>)>>
                ELSE params \o <<BlockExpr("block", <<>>, B(sig), inner)>>
  IN  <<BlockExpr("block", <<>>, B(Sig(<<>>, ResultTypes(p.nr))), extra \o shaped \o <<Br1(0)>>)>>
BranchProfiles ==
  [t : {"branch"}, kind : {"br", "br_if", "br_table", "return", "fall"}, nr : {0, 1, 3}, np : 0 .. 1, x : 0 .. 2,
   d : 0 .. 2, shape : {"block", "if"}]
Branching(p) ==
  Program(ModuleOf(<<F(Sig(<<I32, I32>>, ResultTypes(p.nr)), <<I32>>, BranchBody(p))>>), <<>>, {<<0, 1>>, <<5, 0>>, <<3, 6>>}, 1)

\* Every integer instruction on every pair of operands (i64: at the borders).
Ops == {"add", "sub", "mul", "and", "or", "xor", "div_s", "div_u", "rem_s", "rem_u", "shl", "shr_s", "shr_u", "rotl", "rotr"}
Rels == {"eq", "ne", "lt_s", "le_s", "gt_s", "ge_s", "lt_u", "le_u", "gt_u", "ge_u"}
NumProfiles == [t : {"num"}, k : {"Binary"}, op : Ops, im : {<<I32, I32>>, <<I64, I64>>}]
           \cup [t : {"num"}, k : {"Compare"}, op : Rels, im : {<<I32, I32>>, <<I64, I32>>}]
UnaryProfiles ==
  [t : {"un"}, k : {"Unary"}, op : {"clz", "ctz", "popcnt", "extend8_s", "extend16_s"}, im : {<<I32, I32>>, <<I64, I64>>}]
  \cup {[t |-> "un", k |-> "Unary", op |-> "extend32_s", im |-> <<I64, I64>>],
        [t |-> "un", k |-> "Convert", op |-> "eqz", im |-> <<I32, I32>>], [t |-> "un", k |-> "Convert", op |-> "eqz", im |-> <<I64, I32>>],
        [t |-> "un", k |-> "Convert", op |-> "extend_i32_s", im |-> <<I32, I64>>],
        [t |-> "un", k |-> "Convert", op |-> "extend_i32_u", im |-> <<I32, I64>>],
        [t |-> "un", k |-> "Convert", op |-> "wrap_i64", im |-> <<I64, I32>>]}
Operands(t) == IF t = I64 THEN {0, 1, 7, 8, 127, 128, 255} ELSE 0 .. 15
Numeric(p) ==
  LET n == IF p.t = "num" THEN 2 ELSE 1
  IN  Program(ModuleOf(<<F(Sig([i \in 1 .. n |-> p.im[1]], <<p.im[2]>>), <<>>,
                           (IF n = 2 THEN <<Get(0), Get(1)>> ELSE <<Get(0)>>) \o <<Num(p.k, p.op, p.im[1], p.im[2])>>)>>),
              <<>>, [1 .. n -> Operands(p.im[1])], 1)

\* Loops whose label takes operands, past an operand that stays.
LoopBody ==
  <<C(7), L(5), Get(0),
    BlockExpr("loop", <<>>, B(Sig(<<I64, I32>>, <<I64, I32>>)),
              <<SetL(0), L(3), Bin64("add"), C(4), SetL(1), Get(0), C(1), Bin("sub"), Tee(0), Get(0), BrIf1(0)>>),
    SetL(1), SetL(2), Get(2)>>
Loops == Program(ModuleOf(<<F(Sig(<<I32, I32>>, <<I32, I64>>), <<I64>>, LoopBody)>>), <<>>, {<<1, 0>>, <<4, 2>>}, 1)

\* Calls of functions with zero to two results, globals, select and throw.
Two == Sig(<<I32, I64>>, <<I64, I32>>)
One == Sig(<<>>, <<I32>>)
Set1(i) == Plain("global.set", <<Idx(i)>>)
Glob(i) == Plain("global.get", <<Idx(i)>>)
CallOf(i) == Plain("call", <<Idx(i)>>)
Indirect(sig) == Plain("call_indirect", <<B(sig), Idx(0)>>)
WithGlobals(m) == [m EXCEPT !.globals = <<Global(<<>>, I32, 1, <<>>), Global(<<>>, I64, 1, <<>>)>>]
CalleeBodies ==
  <<F(Two, <<>>, <<Get(1), Get(0), Set1(0), Get(0), C(1), Bin("add")>>),
    F(One, <<I32>>, <<Get(0), Glob(0), P("nop"), Bin("or")>>),
    F(Sig(<<I32>>, <<>>), <<>>, <<Get(0), Set1(0), Get(0), IfExpr(<<>>, B(NoSig), <<P("unreachable")>>, <<>>)>>),
    F(Sig(<<I32>>, <<>>), <<>>, <<Plain("throw", <<Idx(0)>>)>>)>>
Calls ==
  Program(WithGlobals(ModuleOf(<<F(Sig(<<I32, I32>>, <<I32, I64>>), <<I64>>,
            <<C(6), Get(0), L(9), CallOf(1), SetL(0), Tee(2), P("drop"), C(2), CallOf(2), Plain("select", <<<<>>>>), SetL(0),
              Get(1), CallOf(3), Get(0), Get(2)>>)>> \o CalleeBodies)),
          <<>>, {<<0, 0>>, <<3, 0>>, <<3, 1>>}, 2)
Throws ==
  Program(WithGlobals(ModuleOf(<<F(Sig(<<I32>>, <<>>), <<>>, <<Get(0), CallOf(4)>>)>> \o CalleeBodies)), <<>>, {<<0>>}, 2)
Indirects ==
  Program(WithGlobals(ModuleOf(<<F(Sig(<<I32, I32>>, <<I64, I32>>), <<>>, <<Get(0), L(9), Get(1), Indirect(Two)>>)>> \o CalleeBodies)),
          <<2, 0, 3, 2>>, {2} \X (0 .. 5), 2)

\* Tail calls between functions of different parameters, to a function with
\* and one without a tail callee, directly and through the table.
IL == Sig(<<I32, I64>>, <<I64>>)
JustI == Sig(<<I32>>, <<I64>>)
TailTo(i) == Plain("return_call", <<Idx(i)>>)
TailIndirect(sig) == Plain("return_call_indirect", <<B(sig), Idx(0)>>)
Even == F(IL, <<>>, <<Get(0), IfExpr(<<>>, B(Sig(<<>>, <<I64>>)),
                                     <<Get(0), C(1), Bin("sub"), Get(1), L(2), Bin64("add"), TailTo(2)>>, <<Get(1)>>)>>)
Odd(last) == F(IL, <<>>, <<Get(0), IfExpr(<<>>, B(Sig(<<>>, <<I64>>)), <<Get(0), C(1), Bin("sub"), Get(1), TailTo(1)>>, last)>>)
Leaf == F(JustI, <<>>, <<L(40)>>)
Start(es) == F(Sig(<<I32, I32>>, <<I64>>), <<>>, es)
Tails(last) ==
  Program(ModuleOf(<<Start(<<C(3), Get(0), L(1), CallOf(1), SetL(1), P("drop"), Get(0), L(1), TailTo(1)>>), Even, Odd(last), Leaf>>),
          <<>>, {<<0, 0>>, <<1, 0>>, <<6, 0>>}, 4)
TailShapes ==
  << <<Get(1)>>, <<C(1), TailTo(3)>>, <<P("unreachable")>>, <<Get(1), P("return")>> >>
TailLocals(i) ==
  LET p == Tails(TailShapes[i])
  IN  [p EXCEPT !.mod.funcs[1] = F(Sig(<<I32, I32>>, <<I64>>), <<I64>>,
         <<C(3), Get(0), L(1), CallOf(1), SetL(2), P("drop"), Get(0), Get(2), TailTo(1)>>)]
TailTable ==
  Program(ModuleOf(<<Start(<<Get(0), L(1), Get(1), TailIndirect(IL)>>), Even, Odd(<<Get(1)>>), Leaf,
                     F(IL, <<>>, <<Get(1), L(50), Bin64("add")>>)>>),
          <<2, 5, 0, 4>>, {5} \X (0 .. 4), 2)

Named == {[t |-> "loops"], [t |-> "calls"], [t |-> "throws"], [t |-> "indirects"], [t |-> "tailtable"]}
         \cup [t : {"tails"}, i : DOMAIN TailShapes]
MCProfiles == {p : p \in Named \cup UnaryProfiles \cup NumProfiles \cup BranchProfiles}
MCProfileOf(p) ==
  CASE p.t = "branch" -> Branching(p)
    [] p.t \in {"num", "un"} -> Numeric(p)
    [] p.t = "loops" -> Loops
    [] p.t = "calls" -> Calls
    [] p.t = "throws" -> Throws
    [] p.t = "indirects" -> Indirects
    [] p.t = "tails" -> TailLocals(p.i)
    [] p.t = "tailtable" -> TailTable
Compiled == [p \in MCProfiles |-> Compile(MCProfileOf(p).mod)]
MCCCode == LET code == Compiled IN code
=============================================================================
