----------------------------- MODULE WastParser -----------------------------
(***************************************************************************)
(* src/wast-parser.cc: the module that a text describes.  The tokens are   *)
(* those of WatWriter, and <<"nan">> for nan:canonical and nan:arithmetic. *)
(*                                                                         *)
(* A parser is the tokens, the place of the next one, the features, the    *)
(* module so far, whether errors_ holds an error (err), whether the last   *)
(* operation succeeded (ok) and what it returned (v).  The two differ: an  *)
(* operation may fail, be skipped by Synchronize, and the text is accepted *)
(* unless somebody recorded an error.  skips counts what Synchronize       *)
(* skipped; order lists the functions and tags as they came.               *)
(***************************************************************************)
EXTENDS Names

LP == <<"(">>
RP == <<")">>
Eof == <<"eof">>
Invalid == <<"invalid">>
Kw(w) == <<"kw", w>>

\* Peek: annotations are errors without the feature, and skipped unless they
\* are custom sections or code metadata.
IsAnn(t) == t[1] \in {"(@custom", "(@metadata"}
RECURSIVE Visible(_, _, _)
Visible(ts, f, depth) ==
  IF ts = <<>> THEN <<>>
  ELSE LET t == Head(ts)
           d == CASE t = RP -> depth - 1 [] t = LP \/ IsAnn(t) -> depth + 1 [] OTHER -> depth
       IN  IF depth > 0 THEN Visible(Tail(ts), f, d)
           ELSE IF IsAnn(t) /\ "annotations" \notin f THEN <<Invalid>> \o Visible(Tail(ts), f, 0)
           ELSE IF t[1] = "(@metadata" /\ "code_metadata" \notin f THEN Visible(Tail(ts), f, 1)
           ELSE <<t>> \o Visible(Tail(ts), f, 0)

Understood(t, f) == IsAnn(t) => "annotations" \in f /\ (t[1] = "(@custom" \/ "code_metadata" \in f)
NewParser(ts, features) ==
  [t |-> IF \A i \in DOMAIN ts : Understood(ts[i], features) THEN ts ELSE Visible(ts, features, 0), pos |-> 1, f |-> features, m |-> EmptyModule,
   err |-> "annotations" \notin features /\ \E i \in DOMAIN ts : IsAnn(ts[i]),
   ok |-> TRUE, v |-> <<>>, skips |-> 0, order |-> <<>>]

Peek(p, n) == IF p.pos + n <= Len(p.t) THEN p.t[p.pos + n] ELSE Eof
PeekMatchLpar(p, w) == Peek(p, 0) = LP /\ Peek(p, 1) = Kw(w)
PeekKind(p, kind) == Peek(p, 0)[1] = kind
Consume(p) == [p EXCEPT !.pos = @ + 1]
With(p, v) == [p EXCEPT !.v = v]
Error(p) == [p EXCEPT !.err = TRUE]
FailQuietly(p) == [p EXCEPT !.ok = FALSE]
Fail(p) == FailQuietly(Error(p))
ErrorExpected_Quiet(p) == FailQuietly(Consume(p))
ErrorExpected(p) == Fail(Consume(p))
ErrorIfLpar(p) == IF p.ok /\ Peek(p, 0) = LP THEN ErrorExpected(Consume(p)) ELSE p
Expect(p, t) == IF ~p.ok THEN p ELSE IF Peek(p, 0) = t THEN Consume(p) ELSE Fail(Consume(p))
ExpectLpar(p, w) == Expect(Expect(p, LP), Kw(w))
ErrorUnless(p, feature) == IF feature \in p.f \cup {""} THEN p ELSE Error(p)
FailUnless(p, feature) == IF ~p.ok \/ feature \in p.f THEN p ELSE Fail(p)

BlockWords == {"block", "loop", "if", "try"}
IsPlainInstr(t) == t[1] = "op"
IsBlockInstr(t) == t[1] = "kw" /\ \E w \in BlockWords : t = Kw(w)
IsPlainOrBlockInstr(t) == IsPlainInstr(t) \/ IsBlockInstr(t)
IsExpr(p) == Peek(p, 0) = LP /\ IsPlainOrBlockInstr(Peek(p, 1))
IsInstr(p) == IsPlainOrBlockInstr(Peek(p, 0)) \/ IsExpr(p)
IsCatch(t) == t \in {Kw("catch"), Kw("catch_all")}
FieldWords == {"data", "elem", "tag", "export", "func", "type", "global", "import", "memory", "start", "table"}
IsModuleField(p) == Peek(p, 0) = LP /\ Peek(p, 1)[1] = "kw" /\ \E w \in FieldWords : Peek(p, 1) = Kw(w)
PeekIsCustom(p) == "annotations" \in p.f /\ Peek(p, 0)[1] = "(@custom"

\* Synchronize: after a failure, up to kMaxConsumed tokens are skipped until
\* something that can be parsed begins.
kMaxConsumed == 10
SkipTo(p, what) ==
  LET Here(i) == [p EXCEPT !.pos = @ + i]
      At(q) == CASE what = "instr" -> IsInstr(q)
                 [] what = "expr" -> IsExpr(q)
                 [] what = "annotation" -> IsAnn(Peek(q, 0))
                 [] what = "field" -> IsModuleField(q)
      hits == {i \in 0 .. kMaxConsumed - 1 : At(Here(i))}
  IN  IF hits = {} THEN [p EXCEPT !.pos = @ + kMaxConsumed]
      ELSE [Here(CHOOSE i \in hits : \A j \in hits : i <= j) EXCEPT !.ok = TRUE, !.skips = @ + 1]

-----------------------------------------------------------------------------
(* Names, numbers, strings and types                                        *)

ParseBindVarOpt(p) ==
  IF p.ok /\ PeekKind(p, "id") THEN With(Consume(p), Peek(p, 0)[2]) ELSE With(p, <<>>)
IsVar(t) == t[1] \in {"nat", "id"}
ParseVar(p) ==
  IF ~p.ok THEN p
  ELSE IF ~IsVar(Peek(p, 0)) THEN ErrorExpected(p)
  ELSE With(Consume(p), IF PeekKind(p, "nat") THEN Idx(Peek(p, 0)[2]) ELSE Nam(Peek(p, 0)[2]))
ParseVarOpt(p, default) == IF p.ok /\ IsVar(Peek(p, 0)) THEN ParseVar(p) ELSE With(p, default)
RECURSIVE ParseVars(_, _)
ParseVars(p, acc) ==
  IF p.ok /\ IsVar(Peek(p, 0)) THEN LET q == ParseVar(p) IN ParseVars(q, Append(acc, q.v)) ELSE With(p, acc)
ParseVarList(p) == LET q == ParseVars(p, <<>>) IN IF q.ok /\ q.v = <<>> THEN ErrorExpected(q) ELSE q

\* RemoveEscapes over the characters between the quotes.
HexDigit(c) == CASE c \in 48 .. 57 -> c - 48 [] c \in 65 .. 70 -> c - 55 [] c \in 97 .. 102 -> c - 87
RECURSIVE RemoveEscapes(_)
RemoveEscapes(s) ==
  IF s = <<>> THEN <<>>
  ELSE IF s[1] # 92 THEN <<s[1]>> \o RemoveEscapes(Tail(s))
  ELSE CASE s[2] = 110 -> <<10>> \o RemoveEscapes(SubSeq(s, 3, Len(s)))
         [] s[2] = 114 -> <<13>> \o RemoveEscapes(SubSeq(s, 3, Len(s)))
         [] s[2] = 116 -> <<9>> \o RemoveEscapes(SubSeq(s, 3, Len(s)))
         [] s[2] \in {34, 39, 92} -> <<s[2]>> \o RemoveEscapes(SubSeq(s, 3, Len(s)))
         [] OTHER -> <<16 * HexDigit(s[2]) + HexDigit(s[3])>> \o RemoveEscapes(SubSeq(s, 4, Len(s)))
ParseQuotedText(p) ==
  IF ~p.ok THEN p ELSE IF ~PeekKind(p, "str") THEN ErrorExpected(p) ELSE With(Consume(p), RemoveEscapes(Peek(p, 0)[2]))
RECURSIVE ParseTextListOpt(_, _)
ParseTextListOpt(p, acc) ==
  IF p.ok /\ PeekKind(p, "str") THEN ParseTextListOpt(Consume(p), acc \o RemoveEscapes(Peek(p, 0)[2])) ELSE With(p, acc)
\* An empty list fails without a message.
ParseTextList(p) == IF p.ok /\ ~PeekKind(p, "str") THEN FailQuietly(p) ELSE ParseTextListOpt(p, <<>>)
ParseNat(p) == IF ~p.ok THEN p ELSE IF ~PeekKind(p, "nat") THEN ErrorExpected(p) ELSE With(Consume(p), Peek(p, 0)[2])

ParseValueType(p) ==
  IF ~p.ok THEN p
  ELSE IF ~PeekKind(p, "vt") THEN ErrorExpected(p)
  ELSE LET t == Peek(p, 0)[2]
       IN  With(CASE t = V128 -> FailUnless(Consume(p), "simd")
                  [] t \in {FuncRef, ExternRef} -> FailUnless(Consume(p), "reference_types")
                  [] OTHER -> Consume(p), t)
RECURSIVE ParseValueTypeList(_, _)
ParseValueTypeList(p, acc) ==
  IF p.ok /\ PeekKind(p, "vt") THEN LET q == ParseValueType(p) IN ParseValueTypeList(q, Append(acc, q.v)) ELSE With(p, acc)
ParseRefKind(p) ==
  IF ~p.ok THEN p
  ELSE CASE Peek(p, 0) = Kw("func") -> With(Consume(p), FuncRef)
         [] Peek(p, 0) = Kw("extern") -> With(FailUnless(Consume(p), "reference_types"), ExternRef)
         [] Peek(p, 0) = Kw("exn") -> With(Consume(p), ExnRef)
         [] OTHER -> ErrorExpected(p)
ParseRefType(p) ==
  IF ~p.ok THEN p ELSE IF ~PeekKind(p, "vt") THEN ErrorExpected(p)
  ELSE LET t == Peek(p, 0)[2] q == Consume(p) IN With(IF t = ExternRef THEN FailUnless(q, "reference_types") ELSE q, t)

ParseLimits(p) ==
  LET is64 == p.ok /\ Peek(p, 0) = <<"vt", I64>>
      a == ParseNat(IF p.ok /\ (is64 \/ Peek(p, 0) = <<"vt", I32>>) THEN Consume(p) ELSE p)
      hasMax == a.ok /\ PeekKind(a, "nat")
      b == IF hasMax THEN ParseNat(a) ELSE With(a, 0)
      shared == b.ok /\ Peek(b, 0) = Kw("shared")
  IN  With(IF shared THEN Consume(b) ELSE b, Limits(a.v, hasMax, b.v, shared, is64))

\* Signatures.  A named parameter or local binds its name to its index.
RECURSIVE ParseBoundValueTypeList(_, _, _, _, _)
ParseBoundValueTypeList(p, word, types, bindings, offset) ==
  IF ~(p.ok /\ PeekMatchLpar(p, word)) THEN With(p, <<types, bindings>>)
  ELSE LET name == ParseBindVarOpt(Consume(Consume(p)))
           list == IF name.v = <<>> THEN ParseValueTypeList(name, <<>>)
                   ELSE LET q == ParseValueType(name) IN With(q, <<q.v>>)
           new  == IF name.v = <<>> THEN bindings ELSE bindings \cup {<<name.v, offset + Len(types)>>}
       IN  ParseBoundValueTypeList(Expect(list, RP), word, types \o list.v, new, offset)
ParseUnboundValueTypeList(p, word) ==
  LET RECURSIVE Go(_, _)
      Go(q, types) ==
        IF ~(q.ok /\ PeekMatchLpar(q, word)) THEN With(q, types)
        ELSE LET l == ParseValueTypeList(Consume(Consume(q)), types) IN Go(Expect(l, RP), l.v)
  IN  Go(p, <<>>)
ParseTypeUseOpt(p) ==
  IF ~(p.ok /\ PeekMatchLpar(p, "type")) THEN With(p, <<FALSE, Idx(kInvalidIndex)>>)
  ELSE LET v == ParseVar(Consume(Consume(p))) IN With(Expect(v, RP), <<TRUE, v.v>>)
\* v: the declaration and the bindings of the parameters.
ParseFuncSignature(p, use) ==
  LET a == ParseBoundValueTypeList(p, "param", <<>>, {}, 0)
      b == ParseUnboundValueTypeList(a, "result")
  IN  With(b, IF b.ok THEN <<Decl(use[1], use[2], Sig(a.v[1], b.v)), a.v[2]>> ELSE <<NoDecl, {}>>)
ParseUnboundFuncSignature(p, use) ==
  LET a == ParseUnboundValueTypeList(p, "param")
      b == ParseUnboundValueTypeList(a, "result")
  IN  With(b, IF b.ok THEN Decl(use[1], use[2], Sig(a.v, b.v)) ELSE NoDecl)
ParseBlockDeclaration(p) == LET u == ParseTypeUseOpt(p) IN ParseUnboundFuncSignature(u, u.v)

-----------------------------------------------------------------------------
(* Plain instructions                                                       *)

ParseMemidx(p) ==
  IF p.ok /\ PeekMatchLpar(p, "memory")
  THEN LET v == ParseVar(FailUnless(Consume(Consume(p)), "multi_memory")) IN With(Expect(v, RP), v.v)
  ELSE LET v == ParseVarOpt(p, Idx(0)) IN With(IF v.pos = p.pos THEN v ELSE FailUnless(v, "multi_memory"), v.v)
ParseOffsetOpt(p) == IF p.ok /\ PeekKind(p, "off") THEN With(Consume(p), Peek(p, 0)[2]) ELSE With(p, 0)
IsPowerOfTwo(n) == \E i \in 0 .. 20 : n = 2 ^ i
ParseAlignOpt(p) ==
  IF p.ok /\ PeekKind(p, "align")
  THEN With(IF IsPowerOfTwo(Peek(p, 0)[2]) THEN Consume(p) ELSE Error(Consume(p)), Peek(p, 0)[2])
  ELSE With(p, NaturalAlignment)
ParseSimdLane(p) ==
  IF ~p.ok THEN p
  ELSE IF Peek(p, 0)[1] \notin {"nat", "int"} THEN ErrorExpected(p)
  ELSE IF Peek(p, 0)[2] \notin 0 .. 255 THEN Fail(Consume(p)) ELSE With(Consume(p), Peek(p, 0)[2])
RECURSIVE ParseLanes(_, _)
ParseLanes(p, acc) ==
  IF ~p.ok \/ Len(acc) = 16 THEN With(p, acc) ELSE LET q == ParseSimdLane(p) IN ParseLanes(q, Append(acc, q.v))

\* The node of an instruction: the parser makes a LoadExpr of the loads that
\* splat and extend.
Node(o, im) == [k |-> IF ExprType(o) \in {"LoadSplat", "LoadZero"} THEN "Load" ELSE ExprType(o), op |-> o, im |-> im]
ParsePlainInstrVar(p, o) == LET v == ParseVar(p) IN With(v, Node(o, <<v.v>>))
ParseOptInstrVar(p, o) == LET v == ParseVarOpt(p, Idx(0)) IN With(v, Node(o, <<v.v>>))
ParseMemoryExpr(p, o) == LET v == ParseMemidx(p) IN With(v, Node(o, <<v.v>>))
ParseMemoryBinaryExpr(p, o) == LET a == ParseMemidx(p) b == ParseMemidx(a) IN With(b, Node(o, <<a.v, b.v>>))
\* memory.init: with two indices the first one is the memory.
ParseMemoryInstrVar(p, o) ==
  IF PeekMatchLpar(p, "memory") THEN LET a == ParseMemidx(p) b == ParseVar(a) IN With(b, Node(o, <<b.v, a.v>>))
  ELSE LET a == ParseVar(p)
           b == ParseVarOpt(a, Idx(0))
       IN  IF b.pos = a.pos THEN With(b, Node(o, <<a.v, b.v>>))
           ELSE With(FailUnless(b, "multi_memory"), Node(o, <<b.v, a.v>>))
ParseTableInit(p, o) ==
  LET a == ParseVar(p)
      b == ParseVarOpt(a, Idx(0))
  IN  With(b, IF b.pos = a.pos THEN Node(o, <<b.v, a.v>>) ELSE Node(o, <<a.v, b.v>>))
ParseTableCopy(p, o) ==
  IF "reference_types" \notin p.f THEN With(p, Node(o, <<Idx(0), Idx(0)>>))
  ELSE LET a == ParseVarOpt(p, Idx(0)) b == ParseVarOpt(a, Idx(0)) IN With(b, Node(o, <<a.v, b.v>>))
ParseLoadStoreInstr(p, o) ==
  LET m == ParseMemidx(p) a == ParseOffsetOpt(m) b == ParseAlignOpt(a) IN With(b, Node(o, <<b.v, a.v, m.v>>))
\* A lone number is the lane, not the memory.
ParseSIMDLoadStoreInstr(p, o) ==
  LET lone == PeekKind(p, "nat") /\ Peek(p, 1)[1] \notin {"off", "align", "nat"}
      m == IF "multi_memory" \in p.f /\ ~lone THEN ParseMemidx(p) ELSE With(p, Idx(0))
      a == ParseOffsetOpt(m)
      b == ParseAlignOpt(a)
      l == ParseSimdLane(b)
  IN  With(l, Node(o, <<b.v, a.v, m.v, l.v>>))
ParseCallIndirect(p, o) ==
  LET v == ParseVarOpt(p, Idx(0)) u == ParseTypeUseOpt(v) s == ParseUnboundFuncSignature(u, u.v)
  IN  With(s, Node(o, <<s.v, v.v>>))
ParseSelect(p) ==
  LET q == IF "reference_types" \in p.f THEN ParseUnboundValueTypeList(p, "result") ELSE With(p, <<>>)
  IN  With(q, Node(IF q.v = <<>> THEN "select" ELSE "selectt", <<q.v>>))

\* ParseConst.  nan:canonical is let through by the first check; the integer
\* constants then fail without recording an error.
ParseConst(p, o) ==
  IF o = "v128.const"
  THEN LET q == ErrorUnless(p, "simd")
       IN  IF Peek(q, 0) # Kw("i32x4") THEN Fail(q)
           ELSE LET bad == {i \in 1 .. 4 : Peek(q, i)[1] # "lit"}
                IN  IF bad # {} THEN ErrorExpected([q EXCEPT !.pos = @ + 1])
                    ELSE With([q EXCEPT !.pos = @ + 5], Node(o, <<Peek(q, 1)[2] \o Peek(q, 2)[2] \o Peek(q, 3)[2] \o Peek(q, 4)[2]>>))
  ELSE IF Peek(p, 0)[1] \notin {"nat", "int", "lit", "nan"} THEN ErrorExpected(p)
  ELSE IF o \in {"i32.const", "i64.const"}
  THEN IF Peek(p, 0)[1] = "nan" THEN FailQuietly(Consume(p))
       ELSE IF Peek(p, 0)[1] = "lit" THEN Fail(Consume(p)) ELSE With(Consume(p), Node(o, <<Peek(p, 0)[2]>>))
  ELSE IF Peek(p, 0)[1] = "nan" THEN Fail(Consume(p)) ELSE With(Consume(p), Node(o, <<Peek(p, 0)[2]>>))

\* The kinds whose case calls ErrorUnlessOpcodeEnabled.
CheckedTypes ==
  {"CallRef", "ReturnCall", "ReturnCallIndirect", "Unary", "Binary", "Convert", "MemoryCopy", "MemoryFill", "DataDrop",
   "MemoryInit", "TableCopy", "ElemDrop", "TableInit", "TableGet", "TableSet", "TableGrow", "TableSize", "TableFill",
   "RefFunc", "RefNull", "RefIsNull", "Throw", "Rethrow", "AtomicNotify", "AtomicFence", "AtomicWait", "AtomicLoad",
   "AtomicStore", "AtomicRmw", "AtomicRmwCmpxchg", "Ternary", "SimdLaneOp", "SimdLoadLane", "SimdStoreLane", "SimdShuffleOp"}

\* ParsePlainInstr, in the three parts of its switch.
ParseControlInstr(p, o, k) ==
  CASE k \in {"Unreachable", "Nop", "Drop", "Return", "CallRef", "Unary", "Binary", "Compare", "Convert"} ->
         With(p, Node(o, <<>>))
    [] k = "Select" -> ParseSelect(p)
    [] k \in {"Br", "BrIf", "Call", "ReturnCall", "LocalGet", "LocalSet", "LocalTee", "GlobalGet", "GlobalSet"} ->
         ParsePlainInstrVar(p, o)
    [] k = "BrTable" ->
         LET q == ParseVarList(p)
         IN  IF q.ok THEN With(q, Node(o, <<SubSeq(q.v, 1, Len(q.v) - 1), q.v[Len(q.v)]>>)) ELSE q
    [] k \in {"CallIndirect", "ReturnCallIndirect"} -> ParseCallIndirect(p, o)
    [] k \in {"Load", "LoadSplat", "LoadZero", "Store"} -> ParseLoadStoreInstr(p, o)
    [] k = "Const" -> ParseConst(p, o)
ParseBulkInstr(p, o, k) ==
  CASE k \in {"MemoryFill", "MemorySize", "MemoryGrow"} -> ParseMemoryExpr(p, o)
    [] k = "MemoryCopy" -> ParseMemoryBinaryExpr(p, o)
    [] k = "MemoryInit" -> ParseMemoryInstrVar(p, o)
    [] k = "TableCopy" -> ParseTableCopy(p, o)
    [] k = "TableInit" -> ParseTableInit(p, o)
    [] k \in {"TableGet", "TableSet", "TableGrow", "TableSize", "TableFill"} -> ParseOptInstrVar(p, o)
    [] k \in {"DataDrop", "ElemDrop", "RefFunc", "Throw", "Rethrow"} -> ParsePlainInstrVar(p, o)
    [] k = "RefNull" -> LET q == ParseRefKind(p) IN With(q, Node(o, <<q.v>>))
    [] k = "RefIsNull" -> With(p, Node(o, <<>>))
ParseAtomicInstr(p, o, k) ==
  CASE k \in {"AtomicNotify", "AtomicWait", "AtomicLoad", "AtomicStore", "AtomicRmw", "AtomicRmwCmpxchg"} ->
         ParseLoadStoreInstr(p, o)
    [] k = "AtomicFence" -> With(p, Node(o, <<0>>))
    [] k = "Ternary" -> With(p, Node(o, <<>>))
    [] k = "SimdLaneOp" -> LET q == ParseSimdLane(p) IN With(q, Node(o, <<q.v>>))
    [] k \in {"SimdLoadLane", "SimdStoreLane"} -> ParseSIMDLoadStoreInstr(p, o)
    [] k = "SimdShuffleOp" -> LET q == ParseLanes(p, <<>>) IN With(q, Node(o, <<q.v>>))
AtomicTypes == {"AtomicNotify", "AtomicWait", "AtomicLoad", "AtomicStore", "AtomicRmw", "AtomicRmwCmpxchg", "AtomicFence",
                "Ternary", "SimdLaneOp", "SimdLoadLane", "SimdStoreLane", "SimdShuffleOp"}
BulkTypes == {"MemoryFill", "MemorySize", "MemoryGrow", "MemoryCopy", "MemoryInit", "TableCopy", "TableInit", "TableGet",
              "TableSet", "TableGrow", "TableSize", "TableFill", "DataDrop", "ElemDrop", "RefFunc", "RefNull", "RefIsNull",
              "Throw", "Rethrow"}
ParsePlainInstr(p0) ==
  LET o == Peek(p0, 0)[2]
      k == ExprType(o)
      p == IF k \in CheckedTypes THEN ErrorUnless(Consume(p0), FeatureOf(o)) ELSE Consume(p0)
  IN  CASE k \in BulkTypes -> ParseBulkInstr(p, o, k) [] k \in AtomicTypes -> ParseAtomicInstr(p, o, k)
        [] OTHER -> ParseControlInstr(p, o, k)

ParseCodeMetadataAnnotation(p) ==
  LET q == ParseQuotedText(Consume(p)) IN With(Expect(q, RP), <<MetadataExpr(Peek(p, 0)[2], q.v)>>)

Binding0(f, b) == [f EXCEPT !.bindings = b]

-----------------------------------------------------------------------------
(* Instruction lists, blocks and folded expressions.  v: the instructions.  *)

ParseLabelOpt(p) == ParseBindVarOpt(p)
\* The label behind else, end or delegate repeats the one of the block.
ParseEndLabelOpt(p, label) ==
  LET q == ParseLabelOpt(p) IN IF q.v # <<>> /\ q.v # label THEN Error(q) ELSE q

RECURSIVE ParseInstrs(_, _), ParseExprs(_, _), ParseBlockInstr(_), ParseExpr(_), ParseCatches(_, _, _, _)
ParseInstrList(p) == ParseInstrs(p, <<>>)
ParseTerminatingInstrList(p) == LET q == ParseInstrList(p) IN ErrorIfLpar(q)
ParseExprList(p) == ParseExprs(p, <<>>)

ParseInstr(p) ==
  IF IsPlainInstr(Peek(p, 0)) THEN LET q == ParsePlainInstr(p) IN With(q, <<q.v>>)
  ELSE IF IsBlockInstr(Peek(p, 0)) THEN ParseBlockInstr(p) ELSE ParseExpr(p)

\* A failed instruction is dropped; the list goes on where Synchronize stops.
ParseInstrs(p, acc) ==
  IF ~p.ok THEN p
  ELSE IF IsInstr(p)
  THEN LET q == ParseInstr(p)
       IN  IF q.ok THEN ParseInstrs(q, acc \o q.v) ELSE ParseInstrs(SkipTo(q, "instr"), acc)
  ELSE IF IsAnn(Peek(p, 0))
  THEN LET q == ParseCodeMetadataAnnotation(p)
       IN  IF q.ok THEN ParseInstrs(q, acc \o q.v)
           ELSE ParseInstrs(SkipTo(q, "annotation"), acc)
  ELSE With(p, acc)
ParseExprs(p, acc) ==
  IF ~p.ok THEN p
  ELSE IF ~IsExpr(p) THEN With(p, acc)
  ELSE LET q == ParseExpr(p)
       IN  IF q.ok THEN ParseExprs(q, acc \o q.v) ELSE ParseExprs(SkipTo(q, "expr"), acc)

\* catch clauses, flat (folded = FALSE) or each in parentheses, the first of
\* which is already consumed.  The folded form also consumes the parenthesis
\* that follows the last clause.
ParseCatches(p, acc, all, folded) ==
  IF ~p.ok \/ ~IsCatch(Peek(p, 0)) THEN With(p, acc)
  ELSE LET isAll == Peek(p, 0) = Kw("catch_all")
           v == IF isAll THEN With(Consume(p), <<>>) ELSE LET w == ParseVar(Consume(p)) IN With(w, <<w.v>>)
           b == IF folded THEN ParseTerminatingInstrList(v) ELSE ParseInstrList(v)
           e == IF folded THEN Expect(b, RP) ELSE b
           cs == Append(acc, Catch(v.v, b.v))
       IN  IF isAll /\ all THEN Fail(Consume(p))
           ELSE IF ~folded THEN ParseCatches(e, cs, all \/ isAll, FALSE)
           ELSE IF e.ok /\ Peek(e, 0) = LP THEN ParseCatches(Consume(e), cs, all \/ isAll, TRUE)
           ELSE With(e, cs)

ParseBlockInstr(p) ==
  LET w == Peek(p, 0)[2]
      l == ParseLabelOpt(IF w = "try" THEN ErrorUnless(Consume(p), "exceptions") ELSE Consume(p))
      d == ParseBlockDeclaration(l)
      b == ParseInstrList(d)
      Closed(q) == ParseEndLabelOpt(Expect(q, Kw("end")), l.v)
  IN  CASE w \in {"block", "loop"} -> With(Closed(b), <<BlockExpr(w, l.v, d.v, b.v)>>)
        [] w = "if" ->
             LET has == b.ok /\ Peek(b, 0) = Kw("else")
                 a == IF has THEN ParseTerminatingInstrList(ParseEndLabelOpt(Consume(b), l.v)) ELSE With(b, <<>>)
             IN  With(Closed(a), <<IfExpr(l.v, d.v, b.v, a.v)>>)
        [] w = "try" ->
             LET c == ParseCatches(b, <<>>, FALSE, FALSE)
                 del == c.ok /\ c.v = <<>> /\ Peek(c, 0) = Kw("delegate")
                 g == IF del THEN ParseVar(Consume(c)) ELSE With(c, <<>>)
                 e == ErrorIfLpar(g)
                 kind == IF del THEN "Delegate" ELSE IF c.v # <<>> THEN "Catch" ELSE "Plain"
             IN  With(IF del THEN ParseEndLabelOpt(e, l.v) ELSE Closed(e),
                      <<TryExpr(l.v, d.v, b.v, kind, c.v, g.v)>>)

\* A folded expression: its operands come first.
ParseExpr(p) ==
  IF IsPlainInstr(Peek(p, 1))
  THEN LET i == ParsePlainInstr(Consume(p))
           a == ParseExprList(i)
       IN  With(Expect(ErrorIfLpar(a), RP), IF a.ok THEN Append(a.v, i.v) ELSE <<>>)
  ELSE LET w == Peek(p, 1)[2]
           start == Consume(Consume(p))
           l == ParseLabelOpt(IF w = "try" THEN ErrorUnless(start, "exceptions") ELSE start)
           d == ParseBlockDeclaration(l)
       IN  CASE w \in {"block", "loop"} ->
                  LET b == ParseInstrList(d) IN With(Expect(b, RP), <<BlockExpr(w, l.v, d.v, b.v)>>)
             [] w = "if" ->
                  LET RECURSIVE Conds(_, _)
                      Conds(q, acc) == IF ~q.ok \/ ~IsExpr(q) THEN With(q, acc)
                                       ELSE LET c == ParseExpr(q) IN Conds(c, IF c.ok THEN acc \o c.v ELSE acc)
                      c == Conds(d, <<>>)
                      t == ParseTerminatingInstrList(ExpectLpar(c, "then"))
                      u == Expect(t, RP)
                      has == u.ok /\ PeekMatchLpar(u, "else")
                      a == IF has THEN ParseTerminatingInstrList(Consume(Consume(u))) ELSE With(u, <<>>)
                      e == IF has THEN Expect(a, RP) ELSE a
                  IN  With(Expect(e, RP), IF e.ok THEN c.v \o <<IfExpr(l.v, d.v, t.v, a.v)>> ELSE <<>>)
             [] w = "try" ->
                  LET b == ParseInstrList(ExpectLpar(d, "do"))
                      u == Expect(b, RP)
                      open == u.ok /\ Peek(u, 0) = LP
                      c == IF open /\ IsCatch(Peek(u, 1)) THEN ParseCatches(Consume(u), <<>>, FALSE, TRUE) ELSE With(u, <<>>)
                      del == open /\ Peek(u, 1) = Kw("delegate")
                      bad == open /\ ~del /\ ~IsCatch(Peek(u, 1))
                      g == IF del THEN ParseVar(Consume(Consume(u))) ELSE With(c, <<>>)
                      x == IF del THEN Expect(g, RP) ELSE IF bad THEN Error(Consume(Consume(u))) ELSE g
                      kind == IF del THEN "Delegate" ELSE IF c.v # <<>> THEN "Catch" ELSE "Plain"
                  IN  With(Expect(ErrorIfLpar(x), RP), <<TryExpr(l.v, d.v, b.v, kind, c.v, g.v)>>)

-----------------------------------------------------------------------------
(* Module fields                                                            *)

ParseOffsetExprOpt(p) ==
  IF ~p.ok THEN p
  ELSE IF PeekMatchLpar(p, "offset") THEN LET q == ParseTerminatingInstrList(Consume(Consume(p))) IN With(Expect(q, RP), q.v)
  ELSE IF IsExpr(p) THEN ParseExpr(p) ELSE With(p, <<>>)
ParseOffsetExpr(p) == LET q == ParseOffsetExprOpt(p) IN IF q.ok /\ q.pos = p.pos THEN ErrorExpected(q) ELSE q
RECURSIVE ParseElemExprListOpt(_, _)
ParseElemExprListOpt(p, acc) ==
  LET item == p.ok /\ PeekMatchLpar(p, "item")
      q == IF item THEN ParseTerminatingInstrList(Consume(Consume(p))) ELSE ParseExpr(p)
      e == IF item THEN With(Expect(q, RP), q.v) ELSE q
  IN  IF ~p.ok \/ ~(item \/ IsExpr(p)) THEN With(p, acc) ELSE ParseElemExprListOpt(e, Append(acc, e.v))
ParseElemExprVarListOpt(p) == LET q == ParseVars(p, <<>>) IN With(q, [i \in DOMAIN q.v |-> <<Node("ref.func", <<q.v[i]>>)>>])

\* Module::AppendField
Append1(p, field, x) ==
  IF ~p.ok THEN p
  ELSE [p EXCEPT !.m[field] = Append(@, x),
                 !.order = IF field \in {"funcs", "tags"} THEN Append(@, <<field, Len(p.m[field]) + 1>>) ELSE @]
SpaceOf == [func |-> "funcs", table |-> "tables", memory |-> "memories", global |-> "globals", tag |-> "tags"]
CheckImportOrdering(p) ==
  IF \E k \in Kinds : Len(p.m[SpaceOf[k]]) # NumImports(p.m, k) THEN Error(p) ELSE p
RECURSIVE ParseInlineExports(_, _)
ParseInlineExports(p, acc) ==
  IF ~(p.ok /\ PeekMatchLpar(p, "export")) THEN With(p, acc)
  ELSE LET q == ParseQuotedText(Consume(Consume(p))) IN ParseInlineExports(Expect(q, RP), Append(acc, q.v))
\* The exports name the definition that was just appended.
AppendInlineExportFields(p, kind, names) ==
  IF ~p.ok THEN p
  ELSE LET var == Idx(Len(p.m[SpaceOf[kind]]) - 1)
       IN  [p EXCEPT !.m.exports = @ \o [i \in DOMAIN names |-> Export(names[i], kind, var)]]

ParseGlobalType(p) ==
  IF p.ok /\ PeekMatchLpar(p, "mut")
  THEN LET t == ParseValueType(Consume(Consume(p))) IN With(Expect(ErrorIfLpar(t), RP), <<t.v, 1>>)
  ELSE LET t == ParseValueType(p) IN With(t, <<t.v, 0>>)
\* What the import of an entity says of it; the result is its definition.
ParseImportDesc(p, kind, name) ==
  CASE kind = "func" ->
         LET u == ParseTypeUseOpt(p) s == ParseFuncSignature(u, u.v)
         IN  With(ErrorIfLpar(s), Binding0(Func(name, s.v[1], <<>>, <<>>), s.v[2]))
    [] kind = "table" -> LET l == ParseLimits(p) t == ParseRefType(l) IN With(t, Table(name, t.v, l.v))
    [] kind = "memory" -> LET l == ParseLimits(p) IN With(l, Memory(name, l.v))
    [] kind = "global" -> LET g == ParseGlobalType(p) IN With(g, Global(name, g.v[1], g.v[2], <<>>))
    [] kind = "tag" -> LET u == ParseTypeUseOpt(p) s == ParseUnboundFuncSignature(u, u.v) IN With(s, Tag(name, s.v))
ParseImportModuleField(p0) ==
  LET p == CheckImportOrdering(Consume(Consume(p0)))
      a == ParseQuotedText(p)
      b == ParseQuotedText(a)
      c == Expect(b, LP)
      t == Peek(c, 0)
      kind == CHOOSE k \in Kinds : t = Kw(k)
      n == ParseBindVarOpt(Consume(c))
      d == ParseImportDesc(n, kind, n.v)
      e == Append1(Expect(d, RP), SpaceOf[kind], d.v)
  IN  IF ~c.ok THEN c
      ELSE IF ~\E k \in Kinds : t = Kw(k) THEN ErrorExpected(c)
      ELSE Expect(Append1(e, "imports", Import(a.v, b.v, kind)), RP)

ParseFuncBody(p, name) ==
  LET u == ParseTypeUseOpt(p)
      s == ParseFuncSignature(u, u.v)
      l == ParseBoundValueTypeList(s, "local", <<>>, s.v[2], Len(s.v[1].sig.params))
      b == ParseTerminatingInstrList(l)
  IN  IF b.ok THEN Append1(b, "funcs", Binding0(Func(name, s.v[1], l.v[1], b.v), l.v[2])) ELSE b
ParseGlobalBody(p, name) ==
  LET g == ParseGlobalType(p) b == ParseTerminatingInstrList(g)
  IN  IF b.ok THEN Append1(b, "globals", Global(name, g.v[1], g.v[2], b.v)) ELSE b
ParseTagBody(p, name) ==
  LET u == ParseTypeUseOpt(p) s == ParseUnboundFuncSignature(u, u.v) IN Append1(s, "tags", Tag(name, s.v))
Pages(bytes) == (bytes + 65535) \div 65536
\* A memory may be given by its data, a table by its elements.
ParseMemoryBody(p, name) ==
  LET is64 == Peek(p, 0) = <<"vt", I64>>
      q == IF Peek(p, 0) \in {<<"vt", I64>>, <<"vt", I32>>} THEN Consume(p) ELSE p
      d == ParseTextListOpt(Consume(Consume(q)), <<>>)
      zero == <<Node(IF is64 THEN "i64.const" ELSE "i32.const", <<0>>)>>
      lim == Limits(Pages(Len(d.v)), TRUE, Pages(Len(d.v)), FALSE, is64)
      l == ParseLimits(p)
  IN  IF p.ok /\ PeekMatchLpar(q, "data")
      THEN Append1(Append1(Expect(d, RP), "memories", Memory(name, lim)), "datas",
                   Data(<<>>, "active", Idx(Len(p.m.memories)), zero, d.v))
      ELSE Append1(l, "memories", Memory(name, l.v))
ParseTableBody(p, name) ==
  LET is64 == Peek(p, 0) = <<"vt", I64>>
      q == IF Peek(p, 0) \in {<<"vt", I64>>, <<"vt", I32>>} THEN Consume(p) ELSE p
      t == ParseRefType(q)
      o == ExpectLpar(t, "elem")
      e == ParseElemExprListOpt(o, <<>>)
      x == IF e.ok /\ e.v = <<>> THEN ParseElemExprVarListOpt(e) ELSE e
      zero == <<Node(IF is64 THEN "i64.const" ELSE "i32.const", <<0>>)>>
      l == ParseLimits(p)
      r == ParseRefType(l)
  IN  IF p.ok /\ PeekKind(q, "vt")
      THEN Append1(Append1(Expect(x, RP), "tables", Table(name, t.v, Limits(Len(x.v), TRUE, Len(x.v), FALSE, is64))),
                   "elems", Elem(<<>>, "active", Idx(Len(p.m.tables)), t.v, zero, x.v))
      ELSE Append1(r, "tables", Table(name, r.v, l.v))

ParseDataModuleField(p0) ==
  LET n == ParseBindVarOpt(Consume(Consume(p0)))
      explicit == PeekMatchLpar(n, "memory")
      m == IF explicit THEN LET v == ParseVar(Consume(Consume(n))) IN With(Expect(v, RP), v.v) ELSE ParseVarOpt(n, Idx(0))
      o == IF explicit \/ m.pos # n.pos THEN ParseOffsetExpr(m) ELSE ParseOffsetExprOpt(m)
      passive == o.pos = n.pos
      d == ParseTextListOpt(IF passive THEN FailUnless(o, "bulk_memory") ELSE o, <<>>)
  IN  IF d.ok THEN Append1(Expect(d, RP), "datas", Data(n.v, IF passive THEN "passive" ELSE "active", m.v, o.v, d.v)) ELSE d
\* Before bulk memory the name was the table's.
ParseElemModuleField(p0) ==
  LET bulk == "bulk_memory" \in p0.f
      n == ParseBindVarOpt(Consume(Consume(p0)))
      declared == "reference_types" \in p0.f /\ Peek(n, 0) = Kw("declare")
      a == IF declared THEN Consume(n) ELSE n
      t == IF bulk /\ PeekMatchLpar(a, "table") THEN LET v == ParseVar(Consume(Consume(a))) IN With(Expect(v, RP), v.v)
           ELSE IF ~bulk /\ n.v # <<>> THEN With(a, Nam(n.v)) ELSE ParseVarOpt(a, Idx(0))
      o == IF declared /\ bulk THEN With(t, <<>>) ELSE IF bulk THEN ParseOffsetExprOpt(t) ELSE ParseOffsetExpr(t)
      kind == IF declared THEN "declared" ELSE IF o.pos = t.pos THEN "passive" ELSE "active"
      typed == o.ok /\ PeekKind(o, "vt") /\ (Peek(o, 0)[2] # ExternRef \/ "reference_types" \in o.f)
      e == IF typed THEN ParseElemExprListOpt(Consume(o), <<>>)
           ELSE ParseElemExprVarListOpt(IF o.ok /\ Peek(o, 0) = Kw("func") THEN Consume(o) ELSE o)
      x == Expect(e, RP)
  IN  IF x.ok THEN Append1(x, "elems", Elem(IF bulk THEN n.v ELSE <<>>, kind, t.v, IF typed THEN Peek(o, 0)[2] ELSE FuncRef, o.v, e.v))
      ELSE x
ParseExportModuleField(p0) ==
  LET n == ParseQuotedText(Consume(Consume(p0)))
      o == Expect(n, LP)
      t == Peek(o, 0)
      v == ParseVar(Consume(o))
  IN  IF ~o.ok THEN o
      ELSE IF ~\E k \in Kinds : t = Kw(k) THEN ErrorExpected(o)
      ELSE Append1(Expect(Expect(v, RP), RP), "exports", Export(n.v, CHOOSE k \in Kinds : t = Kw(k), v.v))
ParseStartModuleField(p0) ==
  LET v == ParseVar(Consume(Consume(p0)))
  IN  IF p0.m.starts # <<>> THEN Fail(Consume(p0)) ELSE Append1(Expect(v, RP), "starts", v.v)
ParseField(p) ==
  LET in == p.ok /\ PeekMatchLpar(p, "field")
      n == IF in THEN ParseBindVarOpt(Consume(Consume(p))) ELSE p
      g == ParseGlobalType(n)
  IN  With(IF in THEN Expect(g, RP) ELSE g, IF g.ok THEN [type |-> g.v[1], mut |-> g.v[2]] ELSE <<>>)
RECURSIVE ParseFieldList(_, _)
ParseFieldList(p, acc) ==
  IF p.ok /\ Peek(p, 0)[1] \in {"vt", "("} THEN LET q == ParseField(p) IN ParseFieldList(q, Append(acc, q.v)) ELSE With(p, acc)
ParseTypeModuleField(p0) ==
  LET n == ParseBindVarOpt(Consume(Consume(p0)))
      o == Expect(n, LP)
      t == Peek(o, 0)
      body == Consume(o)
      s == ParseFuncSignature(body, <<FALSE, Idx(kInvalidIndex)>>)
      f == ParseFieldList(FailUnless(body, "gc"), <<>>)
      a == ParseField(ErrorUnless(body, "gc"))
      Entry(kind, sig, fields) == [name |-> n.v, kind |-> kind, sig |-> sig, fields |-> fields]
      Closed(q, entry) == Append1(Expect(Expect(q, RP), RP), "types", entry)
  IN  IF ~o.ok THEN o
      ELSE CASE t = Kw("func") -> Closed(ErrorIfLpar(s), Entry("func", s.v[1].sig, <<>>))
             [] t = Kw("struct") -> Closed(f, Entry("struct", NoSig, f.v))
             [] t = Kw("array") -> Closed(a, Entry("array", NoSig, <<a.v>>))
             [] OTHER -> ErrorExpected(o)
ParseCustomSectionAnnotation(p) ==
  LET n == ParseQuotedText(Consume(p)) d == ParseTextList(n)
  IN  IF d.ok THEN Append1(Expect(d, RP), "customs", [name |-> n.v, data |-> d.v]) ELSE d

\* func, table, memory, global and tag: exports, then an import or a body.
ParseDefinition(p0, kind) ==
  LET n == ParseBindVarOpt(Consume(Consume(p0)))
      x == ParseInlineExports(n, <<>>)
      imported == x.ok /\ PeekMatchLpar(x, "import")
      a == ParseQuotedText(Consume(Consume(CheckImportOrdering(x))))
      b == ParseQuotedText(a)
      d == ParseImportDesc(Expect(b, RP), kind, n.v)
      i == Append1(Append1(d, SpaceOf[kind], d.v), "imports", Import(a.v, b.v, kind))
      body == CASE kind = "func" -> ParseFuncBody(x, n.v)
                [] kind = "table" -> ParseTableBody(x, n.v)
                [] kind = "memory" -> ParseMemoryBody(x, n.v)
                [] kind = "global" -> ParseGlobalBody(x, n.v)
                [] kind = "tag" -> ParseTagBody(x, n.v)
  IN  Expect(AppendInlineExportFields(IF imported THEN i ELSE body, kind, x.v), RP)

ParseModuleField(p) ==
  LET t == Peek(p, 1)
  IN  CASE t = Kw("data") -> ParseDataModuleField(p)
        [] t = Kw("elem") -> ParseElemModuleField(p)
        [] t = Kw("tag") -> IF "exceptions" \in p.f THEN ParseDefinition(p, "tag") ELSE Fail(Consume(p))
        [] t = Kw("export") -> ParseExportModuleField(p)
        [] t = Kw("func") -> ParseDefinition(p, "func")
        [] t = Kw("type") -> ParseTypeModuleField(p)
        [] t = Kw("global") -> ParseDefinition(p, "global")
        [] t = Kw("import") -> ParseImportModuleField(p)
        [] t = Kw("memory") -> ParseDefinition(p, "memory")
        [] t = Kw("start") -> ParseStartModuleField(p)
        [] t = Kw("table") -> ParseDefinition(p, "table")

\* ParseModule and ParseScriptModule up to the fields, one round of
\* ParseModuleFieldList, and what follows the fields.
StartModule(p) == LET n == ParseBindVarOpt(ExpectLpar(p, "module")) IN IF n.ok THEN [n EXCEPT !.m.name = n.v] ELSE n
MoreFields(p) == p.ok /\ (IsModuleField(p) \/ PeekIsCustom(p))
ParseOneField(p) ==
  IF PeekIsCustom(p) THEN ParseCustomSectionAnnotation(p)
  ELSE LET q == ParseModuleField(p) IN IF q.ok THEN q ELSE SkipTo(q, "field")
\* What ParseModuleFieldList does after the last field.
ResolveFields(p) ==
  LET t == ResolveFuncTypes(p.m, p.order, TRUE)
  IN  IF ~p.ok THEN p
      ELSE IF ~t.ok THEN Fail([p EXCEPT !.m = t.m])
      ELSE IF ResolveErrors(t.m) THEN Fail([p EXCEPT !.m = ResolveModule(t.m)])
      ELSE [p EXCEPT !.m = ResolveModule(t.m)]
EndModule(p) == Expect(Expect(p, RP), Eof)
HasError(p) == p.err
ParseAccepts(p) == p.ok /\ ~HasError(p)
=============================================================================
