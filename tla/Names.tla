------------------------------- MODULE Names --------------------------------
(***************************************************************************)
(* What happens to the names and the type uses of a module in memory:      *)
(* ResolveFuncTypes (src/wast-parser.cc) completes the type uses of a      *)
(* parsed module, NameResolver (src/resolve-names.cc) turns names into     *)
(* indices, NameGenerator (src/generate-names.cc) names what has no name,  *)
(* and NameApplier (src/apply-names.cc) turns indices into names.          *)
(*                                                                         *)
(* All four walk over the expressions with ExprVisitor                     *)
(* (src/expr-visitor.cc).  c is what the walk keeps: which of the four it  *)
(* is, the module, the function, the label stack (the innermost last) and  *)
(* the labels counted so far.                                              *)
(***************************************************************************)
EXTENDS WasmIR

Walk(mode, m, f) == [mode |-> mode, m |-> m, f |-> f, labels |-> <<>>, n |-> 0]
NoFunc == Func(<<>>, NoDecl, <<>>, <<>>)

SpaceFields == [func |-> "funcs", table |-> "tables", memory |-> "memories", global |-> "globals", tag |-> "tags",
                type |-> "types", data |-> "datas", elem |-> "elems"]

\* The variables of an instruction that has no body, in the order the
\* delegates treat them: the place among the immediates and the index space.
\* The memory of an atomic, splat or zero load is not among them.
Slots(e) ==
  CASE e.k \in {"Br", "BrIf", "Rethrow"} -> <<<<1, "label">>>>
    [] e.k \in {"Call", "ReturnCall", "RefFunc"} -> <<<<1, "func">>>>
    [] e.k \in {"GlobalGet", "GlobalSet"} -> <<<<1, "global">>>>
    [] e.k \in {"LocalGet", "LocalSet", "LocalTee"} -> <<<<1, "local">>>>
    [] e.k \in {"Load", "Store", "SimdLoadLane", "SimdStoreLane"} -> <<<<3, "memory">>>>
    [] e.k \in {"MemoryFill", "MemoryGrow", "MemorySize"} -> <<<<1, "memory">>>>
    [] e.k = "MemoryCopy" -> <<<<1, "memory">>, <<2, "memory">>>>
    [] e.k = "MemoryInit" -> <<<<1, "data">>, <<2, "memory">>>>
    [] e.k = "DataDrop" -> <<<<1, "data">>>>
    [] e.k = "ElemDrop" -> <<<<1, "elem">>>>
    [] e.k = "TableCopy" -> <<<<1, "table">>, <<2, "table">>>>
    [] e.k = "TableInit" -> <<<<2, "elem">>, <<1, "table">>>>
    [] e.k \in {"TableGet", "TableSet", "TableGrow", "TableSize", "TableFill"} -> <<<<1, "table">>>>
    [] e.k = "Throw" -> <<<<1, "tag">>>>
    [] e.k \in {"CallIndirect", "ReturnCallIndirect"} -> <<<<2, "table">>>>
    [] OTHER -> <<>>

-----------------------------------------------------------------------------
(* One variable                                                             *)

Innermost(labels, s) ==
  LET hits == {i \in DOMAIN labels : labels[i] = s} IN IF hits = {} THEN 0 ELSE CHOOSE i \in hits : \A j \in hits : j <= i

\* NameResolver: a name that designates nothing stays (and is an error).
ResolveLabelVar(c, v) ==
  IF IsIndex(v) \/ Innermost(c.labels, v[2]) = 0 THEN v ELSE Idx(Len(c.labels) - Innermost(c.labels, v[2]))
ResolveVar(all, v) == IF FindIndex(all, v) = kInvalidIndex THEN v ELSE Idx(FindIndex(all, v))
ResolveLocalVar(f, v) == IF LocalIndex(f, v) = kInvalidIndex THEN v ELSE Idx(LocalIndex(f, v))
Resolve(c, space, v) ==
  CASE space = "label" -> ResolveLabelVar(c, v)
    [] space = "local" -> ResolveLocalVar(c.f, v)
    [] OTHER -> ResolveVar(c.m[SpaceFields[space]], v)

\* NameApplier: <<variable, success>>.
UseNameForVar(name, v) == IF IsIndex(v) /\ name # <<>> THEN Nam(name) ELSE v
FindLabelByVar(c, v) ==
  IF ~IsIndex(v) THEN IF Innermost(c.labels, v[2]) = 0 THEN <<>> ELSE v[2]
  ELSE IF v[2] >= Len(c.labels) THEN <<>> ELSE c.labels[Len(c.labels) - v[2]]
UseNameForEntity(names, i, v) ==
  IF i \in DOMAIN names THEN <<UseNameForVar(names[i], v), TRUE>> ELSE <<v, FALSE>>
NamesOf(all) == [i \in DOMAIN all |-> all[i].name]
Apply(c, space, v) ==
  CASE space = "label" -> <<UseNameForVar(FindLabelByVar(c, v), v), TRUE>>
    [] space = "local" -> UseNameForEntity(LocalNames(c.f), LocalIndex(c.f, v) + 1, v)
    [] OTHER -> LET all == c.m[SpaceFields[space]] IN UseNameForEntity(NamesOf(all), FindIndex(all, v) + 1, v)

Rename(c, space, v) == IF c.mode = "resolve" THEN <<Resolve(c, space, v), TRUE>> ELSE Apply(c, space, v)
RenameDecl(c, decl) ==
  IF ~decl.hasType THEN <<decl, TRUE>>
  ELSE LET r == Rename(c, "type", decl.var) IN <<[decl EXCEPT !.var = r[1]], r[2]>>

-----------------------------------------------------------------------------
(* Type uses                                                                *)

IsFuncType(m, i) == IF i + 1 \in DOMAIN m.types THEN m.types[i + 1].kind = "func" ELSE FALSE
\* ResolveFuncTypeWithEmptySignature: the use of a type may leave out what
\* the type says.
HasEmptySignature(m, d) == d.hasType /\ d.sig = NoSig /\ IsFuncType(m, FindIndex(m.types, d.var))
FillSignature(m, d) ==
  IF HasEmptySignature(m, d) THEN [d EXCEPT !.sig = m.types[FindIndex(m.types, d.var) + 1].sig] ELSE d
\* ResolveImplicitlyDefinedFunctionType
ResolveImplicitlyDefinedFunctionType(m, d) ==
  IF d.hasType \/ GetFuncTypeIndexBySig(m, d.sig) # kInvalidIndex THEN m
  ELSE [m EXCEPT !.types = Append(@, FuncType(<<>>, d.sig))]
CheckFuncTypeVar_Never(m, d) == TRUE
CheckFuncTypeVarMatchesExplicit(m, d) ==
  LET i == FindIndex(m.types, d.var)
  IN  IF ~d.hasType THEN TRUE ELSE IF IsFuncType(m, i) THEN d.sig = m.types[i + 1].sig ELSE d.sig = NoSig
IsInlinableFuncSignature(sig) == Len(sig.params) = 0 /\ Len(sig.results) <= 1

ResolveDecl(m, d, block) ==
  LET e == FillSignature(m, d)
      n == IF block /\ IsInlinableFuncSignature(e.sig) THEN m ELSE ResolveImplicitlyDefinedFunctionType(m, e)
  IN  [m |-> n, d |-> e, ok |-> CheckFuncTypeVarMatchesExplicit(n, e)]

-----------------------------------------------------------------------------
(* Generated names                                                          *)

Dec[n \in 0 .. 99] == IF n < 10 THEN <<48 + n>> ELSE Dec[n \div 10] \o <<48 + (n % 10)>>
\* Names of imports and exports pass through a C string.
CStr(s) == LET z == {i \in DOMAIN s : s[i] = 0}
           IN  IF z = {} THEN s ELSE SubSeq(s, 1, (CHOOSE i \in z : \A j \in z : i <= j) - 1)
GenerateName(prefix, index, disambiguator) ==
  Dollar(prefix \o (IF index = kInvalidIndex THEN <<>> ELSE Dec[index])
                \o (IF disambiguator = 0 THEN <<>> ELSE <<95>> \o Dec[disambiguator]))
GenerateAndBindName_Once(bound, prefix, index) == GenerateName(prefix, index, 0)
GenerateAndBindName(bound, prefix, index) ==
  LET free == {d \in 0 .. 99 : GenerateName(prefix, index, d) \notin bound}
  IN  GenerateName(prefix, index, CHOOSE d \in free : \A e \in free : d <= e)
\* A label is not looked up anywhere: it gets no disambiguator.
LabelPrefix(e) == CASE e.k = "Block" -> <<66>> [] e.k = "Try" -> <<84>> [] e.k = "Loop" -> <<76>> [] e.k = "If" -> <<73>>
MaybeGenerateName(c, e) == IF e.label # <<>> THEN e.label ELSE GenerateName(LabelPrefix(e), c.n, 0)

-----------------------------------------------------------------------------
(* The walk                                                                 *)

\* Begin*Expr of the four delegates.
BeginExpr(c, e) ==
  CASE c.mode = "types" ->
         LET r == ResolveDecl(c.m, e.decl, TRUE) IN [c |-> [c EXCEPT !.m = r.m], e |-> [e EXCEPT !.decl = r.d], ok |-> r.ok]
    [] c.mode = "resolve" ->
         [c |-> [c EXCEPT !.labels = Append(@, e.label)], e |-> [e EXCEPT !.decl = RenameDecl(c, @)[1]], ok |-> TRUE]
    [] c.mode = "apply" -> [c |-> [c EXCEPT !.labels = Append(@, e.label)], e |-> e, ok |-> TRUE]
    [] c.mode = "generate" ->
         [c |-> [c EXCEPT !.n = @ + 1], e |-> [e EXCEPT !.label = MaybeGenerateName(c, e)], ok |-> TRUE]
PopLabel(c) == IF c.mode \in {"resolve", "apply"} THEN [c EXCEPT !.labels = Front(@)] ELSE c

\* On*Expr: the slots one after the other, up to the first failure.
RECURSIVE RenameSlots(_, _, _)
RenameSlots(c, e, slots) ==
  IF slots = <<>> THEN [e |-> e, ok |-> TRUE]
  ELSE LET s == Head(slots)
           r == Rename(c, s[2], e.im[s[1]])
       IN  IF r[2] THEN RenameSlots(c, [e EXCEPT !.im[s[1]] = r[1]], Tail(slots)) ELSE [e |-> e, ok |-> FALSE]
OnExpr(c, e) ==
  LET indirect == e.k \in {"CallIndirect", "ReturnCallIndirect"}
      d == RenameDecl(c, e.im[1])
  IN  CASE c.mode = "generate" -> [c |-> c, e |-> e, ok |-> TRUE]
        [] c.mode = "types" ->
             IF ~indirect THEN [c |-> c, e |-> e, ok |-> TRUE]
             ELSE LET r == ResolveDecl(c.m, e.im[1], FALSE)
                  IN  [c |-> [c EXCEPT !.m = r.m], e |-> [e EXCEPT !.im[1] = r.d], ok |-> r.ok]
        [] OTHER ->
             IF e.k = "BrTable"
             THEN [c |-> c, ok |-> TRUE,
                   e |-> [e EXCEPT !.im = <<[i \in DOMAIN @[1] |-> Rename(c, "label", @[1][i])[1]],
                                            Rename(c, "label", @[2])[1]>>]]
             ELSE IF indirect /\ ~d[2] THEN [c |-> c, e |-> e, ok |-> FALSE]
             ELSE LET x == IF indirect THEN [e EXCEPT !.im[1] = d[1]] ELSE e
                      r == RenameSlots(c, x, Slots(x))
                  IN  [c |-> c, e |-> r.e, ok |-> r.ok]
OnCatchExpr(c, tag) ==
  IF tag = <<>> \/ c.mode \notin {"resolve", "apply"} THEN [tag |-> tag, ok |-> TRUE]
  ELSE LET r == Rename(c, "tag", tag[1]) IN [tag |-> <<r[1]>>, ok |-> r[2]]
\* A try that delegates ends here: its own label is popped first.
OnDelegateExpr(c, e) ==
  IF c.mode \notin {"resolve", "apply"} THEN e
  ELSE [e EXCEPT !.delegate = Rename(PopLabel(c), "label", @)[1]]

RECURSIVE VisitExprList(_, _), VisitExpr(_, _), VisitCatches(_, _)
VisitExprList(c, es) ==
  IF es = <<>> THEN [c |-> c, es |-> <<>>, ok |-> TRUE]
  ELSE LET h == VisitExpr(c, Head(es))
       IN  IF ~h.ok THEN [c |-> h.c, es |-> <<h.e>> \o Tail(es), ok |-> FALSE]
           ELSE LET t == VisitExprList(h.c, Tail(es)) IN [c |-> t.c, es |-> <<h.e>> \o t.es, ok |-> t.ok]
VisitCatches(c, cs) ==
  IF cs = <<>> THEN [c |-> c, cs |-> <<>>, ok |-> TRUE]
  ELSE LET h == OnCatchExpr(c, cs[1].tag)
           b == VisitExprList(c, cs[1].body)
           t == VisitCatches(b.c, Tail(cs))
       IN  IF ~h.ok THEN [c |-> c, cs |-> cs, ok |-> FALSE]
           ELSE IF ~b.ok THEN [c |-> b.c, cs |-> <<Catch(h.tag, b.es)>> \o Tail(cs), ok |-> FALSE]
           ELSE [c |-> t.c, cs |-> <<Catch(h.tag, b.es)>> \o t.cs, ok |-> t.ok]
VisitExpr(c, e) ==
  IF e.k \notin {"Block", "Loop", "If", "Try"} THEN OnExpr(c, e)
  ELSE LET h == BeginExpr(c, e)
           b == VisitExprList(h.c, e.body)
           x == [h.e EXCEPT !.body = b.es]
           End(r, y) == [c |-> PopLabel(r.c), e |-> y, ok |-> r.ok]
       IN  IF ~h.ok THEN h
           ELSE IF ~b.ok THEN [c |-> b.c, e |-> x, ok |-> FALSE]
           ELSE CASE e.k \in {"Block", "Loop"} -> End(b, x)
                  [] e.k = "If" -> LET a == VisitExprList(b.c, e.alt) IN End(a, [x EXCEPT !.alt = a.es])
                  [] e.k = "Try" /\ e.kind = "Plain" -> End(b, x)
                  [] e.k = "Try" /\ e.kind = "Catch" -> LET a == VisitCatches(b.c, e.catches) IN End(a, [x EXCEPT !.catches = a.cs])
                  [] e.k = "Try" /\ e.kind = "Delegate" -> End(b, OnDelegateExpr(b.c, x))

-----------------------------------------------------------------------------
(* ResolveFuncTypes over the functions and tags, in the order of the text:  *)
(* order holds <<space, entry>>.                                            *)

RECURSIVE ResolveFuncTypes(_, _, _)
ResolveFuncTypes(m, order, ok) ==
  IF order = <<>> THEN [m |-> m, ok |-> ok]
  ELSE LET sp == Head(order)[1]
           i  == Head(order)[2]
           d  == m[sp][i].decl
           r  == ResolveDecl(m, d, FALSE)
           f  == IF sp = "funcs" THEN m.funcs[i] ELSE NoFunc
           by == IF HasEmptySignature(m, d) THEN Len(r.d.sig.params) ELSE 0
           b  == VisitExprList(Walk("types", r.m, f), f.body)
           m1 == IF sp = "tags" THEN [r.m EXCEPT !.tags[i].decl = r.d]
                 ELSE IF i <= NumImports(m, "func") THEN [r.m EXCEPT !.funcs[i].decl = r.d]
                 ELSE [b.c.m EXCEPT !.funcs[i] = [f EXCEPT !.decl = r.d, !.body = b.es,
                                                           !.bindings = {<<x[1], x[2] + by>> : x \in @}]]
           imported == sp = "tags" \/ i <= NumImports(m, "func")
       IN  ResolveFuncTypes(m1, Tail(order), ok /\ r.ok /\ (imported \/ b.ok))

-----------------------------------------------------------------------------
(* VisitModule of the resolver.  Errors do not stop it.                     *)

Exprs(c, es) == VisitExprList(c, es).es
ResolveFunc(m, f) ==
  LET c == Walk("resolve", m, f)
  IN  [f EXCEPT !.decl = RenameDecl(c, @)[1], !.body = Exprs(c, @)]
ResolveModule(m) ==
  LET c == Walk("resolve", m, NoFunc)
      Map(s, Op(_)) == [i \in DOMAIN s |-> Op(s[i])]
      Elem0(es) == IF Len(es) = 1 /\ es[1].k = "RefFunc" THEN Exprs(c, es) ELSE es
  IN  [m EXCEPT !.funcs = Map(@, LAMBDA f : ResolveFunc(m, f)),
                !.exports = Map(@, LAMBDA x : [x EXCEPT !.var = Resolve(c, x.kind, @)]),
                !.globals = Map(@, LAMBDA g : [g EXCEPT !.init = Exprs(c, @)]),
                !.tags = Map(@, LAMBDA t : [t EXCEPT !.decl = RenameDecl(c, @)[1]]),
                !.elems = Map(@, LAMBDA s : [s EXCEPT !.table = Resolve(c, "table", @), !.offset = Exprs(c, @),
                                                       !.exprs = Map(@, Elem0)]),
                !.datas = Map(@, LAMBDA s : [s EXCEPT !.memory = Resolve(c, "memory", @), !.offset = Exprs(c, @)]),
                !.starts = Map(@, LAMBDA v : Resolve(c, "func", v))]

\* CheckDuplicateBindings: data segments are not among the spaces it checks.
CheckedSpaces == {"elems", "funcs", "globals", "types", "tables", "memories", "tags"}
DuplicateBinding(all) == \E i, j \in DOMAIN all : i # j /\ all[i].name # <<>> /\ all[i].name = all[j].name
DuplicateLocal(f) == \E a, b \in f.bindings : a # b /\ a[1] = b[1]

\* PrintError for what is still a name: it designates nothing.
RECURSIVE Unresolved(_)
Unresolved(es) ==
  \E i \in DOMAIN es :
    LET e == es[i]
        Name(v) == ~IsIndex(v)
        NameDecl(d) == d.hasType /\ Name(d.var)
    IN  CASE e.k \in {"Block", "Loop"} -> NameDecl(e.decl) \/ Unresolved(e.body)
          [] e.k = "If" -> NameDecl(e.decl) \/ Unresolved(e.body) \/ Unresolved(e.alt)
          [] e.k = "Try" ->
               \/ NameDecl(e.decl) \/ Unresolved(e.body)
               \/ e.kind = "Delegate" /\ Name(e.delegate)
               \/ \E j \in DOMAIN e.catches :
                    (e.catches[j].tag # <<>> /\ Name(e.catches[j].tag[1])) \/ Unresolved(e.catches[j].body)
          [] e.k = "BrTable" -> Name(e.im[2]) \/ \E j \in DOMAIN e.im[1] : Name(e.im[1][j])
          [] OTHER -> \/ \E j \in DOMAIN Slots(e) : Name(e.im[Slots(e)[j][1]])
                      \/ e.k \in {"CallIndirect", "ReturnCallIndirect"} /\ NameDecl(e.im[1])
ResolveErrors(m) ==
  \/ \E s \in CheckedSpaces : DuplicateBinding(m[s])
  \/ \E i \in DOMAIN m.funcs :
       LET f == ResolveModule(m).funcs[i]
       IN  DuplicateLocal(f) \/ (f.decl.hasType /\ ~IsIndex(f.decl.var)) \/ Unresolved(f.body)
  \/ LET r == ResolveModule(m)
     IN  \/ \E i \in DOMAIN r.exports : ~IsIndex(r.exports[i].var)
         \/ \E i \in DOMAIN r.starts : ~IsIndex(r.starts[i])
         \/ \E i \in DOMAIN r.globals : Unresolved(r.globals[i].init)
         \/ \E i \in DOMAIN r.tags : r.tags[i].decl.hasType /\ ~IsIndex(r.tags[i].decl.var)
         \/ \E i \in DOMAIN r.elems :
              \/ ~IsIndex(r.elems[i].table) \/ Unresolved(r.elems[i].offset)
              \/ \E j \in DOMAIN r.elems[i].exprs : Len(r.elems[i].exprs[j]) = 1 /\ Unresolved(r.elems[i].exprs[j])
         \/ \E i \in DOMAIN r.datas : ~IsIndex(r.datas[i].memory) \/ Unresolved(r.datas[i].offset)

-----------------------------------------------------------------------------
(* VisitModule of the generator.                                            *)

Bound(all) == {all[i].name : i \in DOMAIN all} \ {<<>>}
\* Gives entry i (from 1) of a space the first free name unless it has one.
NameEntry(m, space, i, prefix, index) ==
  LET fld == SpaceFields[space]
  IN  IF i \notin DOMAIN m[fld] \/ (i \in DOMAIN m[fld] /\ m[fld][i].name # <<>>) THEN m
      ELSE [m EXCEPT ![fld][i].name = GenerateAndBindName(Bound(m[fld]), prefix, index)]
GenerateImport(m, k) ==
  LET x == m.imports[k]
  IN  NameEntry(m, x.kind, EntryOfImport(m, k), CStr(x.module \o <<46>> \o x.field), kInvalidIndex)
GenerateExport(m, k) ==
  LET x == m.exports[k]
  IN  NameEntry(m, x.kind, FindIndex(m[SpaceFields[x.kind]], x.var) + 1, CStr(x.name), kInvalidIndex)
RECURSIVE GenerateAndBindLocalNames(_, _)
GenerateAndBindLocalNames(f, i) ==
  IF i > GetNumParamsAndLocals(f) THEN f
  ELSE IF LocalNames(f)[i] # <<>> THEN GenerateAndBindLocalNames(f, i + 1)
  ELSE LET prefix == IF i <= Len(f.decl.sig.params) THEN <<112>> ELSE <<108>>
           name == GenerateAndBindName({b[1] : b \in f.bindings}, prefix, i - 1)
       IN  GenerateAndBindLocalNames([f EXCEPT !.bindings = @ \cup {<<name, i - 1>>}], i + 1)
GenerateFunc(m, i) ==
  LET n == NameEntry(m, "func", i, <<102>>, i - 1)
      f == GenerateAndBindLocalNames(n.funcs[i], 1)
  IN  [n EXCEPT !.funcs[i] = [f EXCEPT !.body = Exprs(Walk("generate", n, f), @)]]

\* What the generator visits, in its order.
GeneratorSteps(m) ==
  LET All(space, prefix) == [i \in DOMAIN m[SpaceFields[space]] |-> <<space, i, prefix>>]
  IN  [i \in DOMAIN m.imports |-> <<"import", i, 0>>] \o [i \in DOMAIN m.exports |-> <<"export", i, 0>>]
      \o All("global", 103) \o All("type", 116) \o All("func", 102) \o All("table", 84)
      \o All("memory", 77) \o All("tag", 101) \o All("data", 100) \o All("elem", 101)
GenerateStep(m, s) ==
  CASE s[1] = "import" -> GenerateImport(m, s[2])
    [] s[1] = "export" -> GenerateExport(m, s[2])
    [] s[1] = "func" -> GenerateFunc(m, s[2])
    [] OTHER -> NameEntry(m, s[1], s[2], <<s[3]>>, s[2] - 1)
GenerateNames(m) ==
  LET steps == GeneratorSteps(m)
      after[i \in 0 .. Len(steps)] == IF i = 0 THEN m ELSE LET n == after[i - 1] IN IF Len(n.types) >= 0 THEN GenerateStep(n, steps[i]) ELSE n
  IN  after[Len(steps)]

-----------------------------------------------------------------------------
(* VisitModule of the applier stops at the first failure; its callers carry *)
(* on with the module as it is then.                                        *)

ApplySteps(m) ==
  LET All(f) == [i \in DOMAIN m[f] |-> <<f, i>>]
  IN  All("funcs") \o All("globals") \o All("tags") \o All("exports") \o All("elems") \o All("datas") \o All("starts")
ApplyElems(c, exprs) ==
  LET New(es) == IF es[1].k = "RefFunc" THEN OnExpr(c, es[1]) ELSE [c |-> c, e |-> es[1], ok |-> TRUE]
      bad == {i \in DOMAIN exprs : ~New(exprs[i]).ok}
  IN  [exprs |-> [i \in DOMAIN exprs |-> IF \E j \in bad : j <= i THEN exprs[i] ELSE <<New(exprs[i]).e>> \o Tail(exprs[i])],
       ok |-> bad = {}]
ApplyStep(m, s) ==
  LET c == Walk("apply", m, NoFunc)
      i == s[2]
  IN  CASE s[1] = "funcs" ->
             LET f == m.funcs[i]
                 d == RenameDecl(c, f.decl)
                 b == VisitExprList(Walk("apply", m, f), f.body)
             IN  IF d[2] THEN <<[m EXCEPT !.funcs[i].decl = d[1], !.funcs[i].body = b.es], b.ok>> ELSE <<m, FALSE>>
        [] s[1] = "globals" -> LET b == VisitExprList(c, m.globals[i].init) IN <<[m EXCEPT !.globals[i].init = b.es], b.ok>>
        [] s[1] = "tags" -> LET d == RenameDecl(c, m.tags[i].decl) IN <<[m EXCEPT !.tags[i].decl = d[1]], d[2]>>
        [] s[1] = "exports" -> <<[m EXCEPT !.exports[i].var = Apply(c, m.exports[i].kind, @)[1]], TRUE>>
        [] s[1] = "elems" ->
             LET t == Apply(c, "table", m.elems[i].table)
                 o == VisitExprList(c, m.elems[i].offset)
                 x == ApplyElems(c, m.elems[i].exprs)
             IN  IF ~t[2] THEN <<m, FALSE>>
                 ELSE IF ~o.ok THEN <<[m EXCEPT !.elems[i].table = t[1], !.elems[i].offset = o.es], FALSE>>
                 ELSE <<[m EXCEPT !.elems[i].table = t[1], !.elems[i].offset = o.es, !.elems[i].exprs = x.exprs], x.ok>>
        [] s[1] = "datas" ->
             LET t == Apply(c, "memory", m.datas[i].memory)
                 o == VisitExprList(c, m.datas[i].offset)
             IN  IF ~t[2] THEN <<m, FALSE>> ELSE <<[m EXCEPT !.datas[i].memory = t[1], !.datas[i].offset = o.es], o.ok>>
        [] s[1] = "starts" -> LET v == Apply(c, "func", m.starts[i]) IN <<[m EXCEPT !.starts[i] = v[1]], v[2]>>
ApplyNames(m) ==
  LET steps == ApplySteps(m)
      after[i \in 0 .. Len(steps)] ==
        IF i = 0 THEN <<m, TRUE>> ELSE LET n == after[i - 1] IN IF n[2] THEN ApplyStep(n[1], steps[i]) ELSE n
  IN  after[Len(steps)]
=============================================================================
