--------------------------- MODULE BinaryReaderIR ---------------------------
(***************************************************************************)
(* src/binary-reader-ir.cc: the delegate that turns the events of the      *)
(* binary reader into a module.  Every callback maps the delegate's state  *)
(* d to the next one; ok turns FALSE when the callback reports an error.   *)
(*                                                                         *)
(* A label frame holds the list that is being filled and the block it      *)
(* belongs to; the block joins the enclosing list when it ends (the code   *)
(* appends it at once and fills it through a pointer).  The list of the    *)
(* outermost frame is left in done.  bound is what the binding hashes      *)
(* hold: <<index space, name>>.                                            *)
(***************************************************************************)
EXTENDS WasmIR

\* kMaxNestingDepth, kMaxFunctionLocals, kMaxFunctionParams and
\* kMaxFunctionResults, scaled down from 16384, 50000 and 1000.
MaxNestingDepth    == 6
MaxFunctionLocals  == 12
MaxFunctionParams  == 4
MaxFunctionResults == 4

NewDelegate ==
  [mod |-> EmptyModule, ok |-> TRUE, labels |-> <<>>, done |-> <<>>, bound |-> {},
   queue |-> <<>>, metaName |-> <<>>, func |-> kInvalidIndex, funcLoc |-> 0]

Err(d) == [d EXCEPT !.ok = FALSE]
Put(d, field, x) == [d EXCEPT !.mod[field] = Append(@, x)]

-----------------------------------------------------------------------------
(* Labels and expressions                                                   *)

Frame(type, e) == [type |-> type, list |-> <<>>, e |-> e]
NoExpr == Plain("nop", <<>>)

PushLabel(d, type, e) ==
  IF Len(d.labels) >= MaxNestingDepth THEN Err(d)
  ELSE [d EXCEPT !.labels = Append(@, Frame(type, e))]

AppendExpr(d, e) ==
  IF d.labels = <<>> THEN Err(d) ELSE [d EXCEPT !.labels[Len(d.labels)].list = Append(@, e)]

\* The block of a frame with the list that was being filled put in its place.
Finish(f) ==
  CASE f.type \in {"Block", "Loop", "If"} -> [f.e EXCEPT !.body = f.list]
    [] f.type = "Else" -> [f.e EXCEPT !.alt = f.list]
    [] f.type = "Try" -> IF f.e.catches = <<>> THEN [f.e EXCEPT !.body = f.list]
                         ELSE [f.e EXCEPT !.catches[Len(f.e.catches)].body = f.list]

PopLabel(d) ==
  IF d.labels = <<>> THEN Err(d)
  ELSE LET f == Last(d.labels)
           rest == [d EXCEPT !.labels = Front(@)]
       IN  IF f.type \in {"Func", "InitExpr"} THEN [rest EXCEPT !.done = f.list]
           ELSE AppendExpr(rest, Finish(f))
OnEndExpr(d) == PopLabel(d)

SetFuncDeclaration(d, index) ==
  Decl(TRUE, Idx(index),
       IF index + 1 \in DOMAIN d.mod.types THEN d.mod.types[index + 1].sig ELSE NoSig)
SetBlockDeclaration(d, type) ==
  IF type >= 0 THEN SetFuncDeclaration(d, type)
  ELSE Decl(FALSE, Idx(kInvalidIndex), Sig(<<>>, IF type = Void THEN <<>> ELSE <<type>>))

\* The callbacks of the instructions that are no blocks: the operands come
\* as numbers and become the fields of the expression.
OnOpcodeExpr(d, o) == AppendExpr(d, Plain(o, <<>>))
OnIndexExpr(d, o, index) == AppendExpr(d, Plain(o, <<Idx(index)>>))
OnTwoIndexExpr(d, o, first, second) == AppendExpr(d, Plain(o, <<Idx(first), Idx(second)>>))
OnMemoryAccessExpr(d, o, memidx, alignment, offset) ==
  AppendExpr(d, Plain(o, <<alignment, offset, Idx(memidx)>>))
OnLaneExpr(d, o, memidx, alignment, offset, lane) ==
  AppendExpr(d, Plain(o, <<alignment, offset, Idx(memidx), lane>>))
OnBrTableExpr(d, targets, default) ==
  AppendExpr(d, Plain("br_table", <<[i \in DOMAIN targets |-> Idx(targets[i])], Idx(default)>>))
OnCallIndirectExpr(d, o, sig, table) ==
  AppendExpr(d, Plain(o, <<SetFuncDeclaration(d, sig), Idx(table)>>))
OnConstExpr(d, o, value) == AppendExpr(d, Plain(o, <<value>>))
OnSimdExpr(d, o, value) == AppendExpr(d, Plain(o, <<value>>))
OnRefNullExpr(d, type) == AppendExpr(d, Plain("ref.null", <<type>>))
\* Without a type it is the plain select.
OnSelectExpr(d, types) ==
  AppendExpr(d, Plain(IF types = <<>> THEN "select" ELSE "selectt", <<types>>))

\* OnBlockExpr, OnLoopExpr, OnIfExpr and OnTryExpr append the block before
\* they push its label, so both need room in the enclosing list.
OnBlockExpr(d, op, type) ==
  LET decl == SetBlockDeclaration(d, type)
      e == CASE op \in {"block", "loop"} -> BlockExpr(op, <<>>, decl, <<>>)
             [] op = "if" -> IfExpr(<<>>, decl, <<>>, <<>>)
             [] op = "try" -> TryExpr(<<>>, decl, <<>>, "Plain", <<>>, <<>>)
  IN  IF d.labels = <<>> THEN Err(d)
      ELSE PushLabel(d, CASE op = "block" -> "Block" [] op = "loop" -> "Loop"
                          [] op = "if" -> "If" [] op = "try" -> "Try", e)

OnElseExpr(d) ==
  IF Len(d.labels) < 2 THEN Err(d)
  ELSE LET f == Last(d.labels)
       IN  IF f.type # "If" THEN Err(d)
           ELSE [d EXCEPT !.labels[Len(d.labels)] = Frame("Else", Finish(f))]

\* AppendCatch: tag is <<>> for catch_all.
OnCatchExpr(d, tag) ==
  IF d.labels = <<>> THEN Err(d)
  ELSE LET f == Last(d.labels)
       IN  IF f.type # "Try" THEN Err(d)
           ELSE IF tag = <<>> /\ (IF f.e.catches = <<>> THEN FALSE ELSE Last(f.e.catches).tag = <<>>)
           THEN Err(d)
           ELSE LET e == Finish(f)
                IN  [d EXCEPT !.labels[Len(d.labels)] =
                       Frame("Try", [e EXCEPT !.kind = "Catch",
                                              !.catches = Append(@, Catch(tag, <<>>))])]

OnDelegateExpr(d, depth) ==
  IF d.labels = <<>> THEN Err(d)
  ELSE LET f == Last(d.labels)
       IN  IF f.type # "Try" THEN Err(d)
           ELSE IF f.e.kind # "Plain" THEN Err(d)
           ELSE PopLabel([d EXCEPT !.labels[Len(d.labels)].e.kind = "Delegate",
                                   !.labels[Len(d.labels)].e.delegate = Idx(depth)])

-----------------------------------------------------------------------------
(* Code metadata                                                            *)

\* CodeMetadataExprQueue::pop_match: only the front entry is looked at, and
\* an entry leaves when an opcode of its function finds it empty.
PopMatch(d, offset) ==
  IF d.queue = <<>> THEN d
  ELSE LET q == Head(d.queue)
       IN  IF q.func # d.func THEN d
           ELSE IF q.items = <<>> THEN [d EXCEPT !.queue = Tail(@)]
           ELSE IF Head(q.items).off + d.funcLoc # offset THEN d
           ELSE AppendExpr([d EXCEPT !.queue[1].items = Tail(@)], Head(q.items).e)
\* The code takes the location right behind the opcode, minus one.
OnOpcode(d, offset) == PopMatch(d, offset - 1)

OnCodeMetadataCount(d, index) == [d EXCEPT !.queue = Append(@, [func |-> index, items |-> <<>>])]
OnCodeMetadata(d, offset, data) ==
  [d EXCEPT !.queue[Len(d.queue)].items =
     Append(@, [off |-> offset, e |-> MetadataExpr(d.metaName, data)])]

-----------------------------------------------------------------------------
(* Module fields                                                            *)

OnFuncType(d, params, results) ==
  IF Len(params) > MaxFunctionParams \/ Len(results) > MaxFunctionResults THEN Err(d)
  ELSE Put(d, "types", FuncType(<<>>, Sig(params, results)))
OnFieldsType(d, kind, fields) ==
  Put(d, "types", [name |-> <<>>, kind |-> kind, sig |-> NoSig, fields |-> fields])

OnImport(d, module, field, kind, space, entry) ==
  Put(Put(d, "imports", Import(module, field, kind)), space, entry)
OnImportFunc(d, module, field, sig) ==
  OnImport(d, module, field, "func", "funcs", Func(<<>>, SetFuncDeclaration(d, sig), <<>>, <<>>))
OnImportTag(d, module, field, sig) ==
  OnImport(d, module, field, "tag", "tags", Tag(<<>>, SetFuncDeclaration(d, sig)))

OnFunction(d, sig) == Put(d, "funcs", Func(<<>>, SetFuncDeclaration(d, sig), <<>>, <<>>))
OnTagType(d, sig)  == Put(d, "tags", Tag(<<>>, SetFuncDeclaration(d, sig)))
BeginGlobal(d, type, mut) == PushLabel(Put(d, "globals", Global(<<>>, type, mut, <<>>)), "InitExpr", NoExpr)

\* EndInitExpr: the label of the expression must be gone.
EndInitExpr(d) == IF d.labels # <<>> THEN Err(d) ELSE d
EndGlobalInitExpr(d) == EndInitExpr([d EXCEPT !.mod.globals[Len(d.mod.globals)].init = d.done])

OnFunctionBodyCount(d, count) ==
  IF NumImports(d.mod, "func") + count # Len(d.mod.funcs) THEN Err(d) ELSE d
BeginFunctionBody(d, index, offset) ==
  PushLabel([d EXCEPT !.func = index, !.funcLoc = offset], "Func", NoExpr)
OnLocalDecl(d, count, type) ==
  IF count + Len(d.mod.funcs[d.func + 1].locals) > MaxFunctionLocals THEN Err(d)
  ELSE [d EXCEPT !.mod.funcs[d.func + 1].locals = @ \o [i \in 1 .. count |-> type]]
EndFunctionBody(d) ==
  LET e == [d EXCEPT !.mod.funcs[d.func + 1].body = d.done, !.func = kInvalidIndex]
  IN  IF d.labels # <<>> THEN Err(e) ELSE e

BeginElemSegment(d, table, flags) ==
  Put(d, "elems", Elem(<<>>, IF Has(flags, 1) /\ Has(flags, 2) THEN "declared"
                             ELSE IF Has(flags, SegPassive) THEN "passive" ELSE "active",
                       Idx(table), FuncRef, <<>>, <<>>))
EndElemSegmentInitExpr(d) == EndInitExpr([d EXCEPT !.mod.elems[Len(d.mod.elems)].offset = d.done])
OnElemSegmentElemType(d, type) == [d EXCEPT !.mod.elems[Len(d.mod.elems)].type = type]
BeginElemExpr(d) == PushLabel(d, "InitExpr", NoExpr)
EndElemExpr(d) == EndInitExpr([d EXCEPT !.mod.elems[Len(d.mod.elems)].exprs = Append(@, d.done)])

BeginDataSegment(d, memory, flags) ==
  Put(d, "datas", Data(<<>>, IF Has(flags, SegPassive) THEN "passive" ELSE "active",
                       Idx(memory), <<>>, <<>>))
EndDataSegmentInitExpr(d) == EndInitExpr([d EXCEPT !.mod.datas[Len(d.mod.datas)].offset = d.done])
OnDataSegmentData(d, bytes) == [d EXCEPT !.mod.datas[Len(d.mod.datas)].data = bytes]

-----------------------------------------------------------------------------
(* Names and symbols                                                        *)

\* GetUniqueName: the name itself, or the first free of name.1, name.2, ...
\* MaxNameCopies bounds the search.
MaxNameCopies == 9
GetUniqueName(taken, name) ==
  LET cand(k) == IF k = 0 THEN name ELSE name \o <<46, 48 + k>>
      k == CHOOSE i \in 0 .. MaxNameCopies : /\ cand(i) \notin taken
                                             /\ \A j \in 0 .. i - 1 : cand(j) \in taken
  IN  cand(k)
Bound(d, space) == {b[2] : b \in {c \in d.bound : c[1] = space}}

\* SetFunctionName, SetGlobalName, SetTypeName and the other five.
SetName(d, space, index, name) ==
  IF name = <<>> THEN d
  ELSE IF index + 1 \notin DOMAIN d.mod[space] THEN Err(d)
  ELSE LET unique == GetUniqueName(Bound(d, space), Dollar(name))
       IN  [d EXCEPT !.mod[space][index + 1].name = unique, !.bound = @ \cup {<<space, unique>>}]
OnModuleName(d, name) == IF name = <<>> THEN d ELSE [d EXCEPT !.mod.name = Dollar(name)]
OnFunctionNamesCount(d, count) == IF count > Len(d.mod.funcs) THEN Err(d) ELSE d
\* OnNameEntry drops the result of the setter.
OnNameEntry(d, space, index, name) == [SetName(d, space, index, name) EXCEPT !.ok = TRUE]
OnLocalNameLocalCount(d, index, count) ==
  IF count > GetNumParamsAndLocals(d.mod.funcs[index + 1]) THEN Err(d) ELSE d
OnLocalName(d, func, local, name) ==
  IF name = <<>> THEN d
  ELSE LET f == d.mod.funcs[func + 1]
       IN  [d EXCEPT !.mod.funcs[func + 1].bindings =
              @ \cup {<<GetUniqueName({b[1] : b \in f.bindings}, Dollar(name)), local>>}]

\* Symbols of a linking section name what has no name yet (functions) or
\* rename it (globals, tables, tags, data segments).
OnFunctionSymbol(d, name, index) ==
  IF name = <<>> THEN d
  ELSE IF index + 1 \notin DOMAIN d.mod.funcs THEN Err(d)
  ELSE IF d.mod.funcs[index + 1].name # <<>> THEN d ELSE SetName(d, "funcs", index, name)
OnDataSymbol(d, undefined, name, segment, offset) ==
  IF name = <<>> \/ undefined \/ offset # 0 THEN d ELSE SetName(d, "datas", segment, name)

OnGenericCustomSection(d, name, data) == Put(d, "customs", [name |-> name, data |-> data])
=============================================================================
