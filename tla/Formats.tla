------------------------------- MODULE Formats -------------------------------
(***************************************************************************)
(* The way of a module through the formats: BinaryWriter writes it to a    *)
(* file, the file may lose its tail or have a byte changed on the way,     *)
(* BinaryReader reads it back section by section, and Validator looks at   *)
(* what was read, as in wasm2wat, wasm2c and wasm-validate.                *)
(***************************************************************************)
EXTENDS BinaryWriter

R == INSTANCE BinaryReader
V == INSTANCE Validator

CONSTANTS
  Profiles,          \* names of the modules to start from
  ProfileOf(_),      \* the module and the options of the writer
  Damage(_),         \* the bytes that may take the place of a byte
  (* The components on the way, given by the module that is checked:        *)
  Written(_, _),     \* BinaryWriter: the file of a module, with its options
  SectionRead(_),    \* BinaryReader: the reader behind its next section
  Validates(_, _)    \* Validator: what it answers, with the features

VARIABLES
  profile,   \* the name of the module
  ignore,    \* --ignore-custom-section-errors
  stage,     \* what happens next
  fault,     \* <<>>, or the kind and the place of the damage
  file,      \* the bytes
  r,         \* the reader
  valid      \* what ValidateModule answered

vars == <<profile, ignore, stage, fault, file, r, valid>>

Original == ProfileOf(profile).mod
ReaderOptions == R!ReadOptions(ProfileOf(profile).w.features, TRUE, TRUE, ~ignore, FALSE)
NoReader == R!NewReader(<<>>, R!ReadOptions({}, TRUE, TRUE, TRUE, FALSE))

Init ==
  /\ profile \in Profiles /\ ignore \in BOOLEAN
  /\ stage = "write" /\ fault = <<>> /\ file = <<>> /\ r = NoReader /\ valid = FALSE

\* WriteBinaryModule
Write ==
  /\ stage = "write"
  /\ file' = Written(Original, ProfileOf(profile).w)
  /\ stage' = "file"
  /\ UNCHANGED <<profile, ignore, fault, r, valid>>

\* What can happen to the file before it is read.
Truncate ==
  /\ stage = "file" /\ fault = <<>>
  /\ \E n \in 0 .. Len(file) - 1 : fault' = <<"cut", n>> /\ file' = SubSeq(file, 1, n)
  /\ UNCHANGED <<profile, ignore, stage, r, valid>>
AlterByte ==
  /\ stage = "file" /\ fault = <<>>
  /\ \E i \in DOMAIN file : \E b \in Damage(file[i]) \ {file[i]} :
       fault' = <<"byte", i>> /\ file' = [file EXCEPT ![i] = b]
  /\ UNCHANGED <<profile, ignore, stage, r, valid>>

\* ReadModule: the magic number and the version, then the sections.
StartReading ==
  /\ stage = "file"
  /\ r' = R!ReadHeader(R!NewReader(file, ReaderOptions))
  /\ stage' = "read"
  /\ UNCHANGED <<profile, ignore, fault, file, valid>>
ReadOneSection ==
  /\ stage = "read" /\ r.ok /\ ~R!AtEnd(r)
  /\ r' = SectionRead(r)
  /\ UNCHANGED <<profile, ignore, stage, fault, file, valid>>
\* Succeeded(ReadBinaryIr(...)), then ValidateModule.
Validate ==
  /\ stage = "read" /\ R!Accepted(r)
  /\ valid' = Validates(r.d.mod, ReaderOptions.features)
  /\ stage' = "validated"
  /\ UNCHANGED <<profile, ignore, fault, file, r>>

Rejected  == stage = "read" /\ (~r.ok \/ (R!AtEnd(r) /\ ~R!Accepted(r)))
Accepts   == stage = "validated"

Next == Write \/ Truncate \/ AlterByte \/ StartReading \/ ReadOneSection \/ Validate
Spec == Init /\ [][Next]_vars

-----------------------------------------------------------------------------
(* What the properties compare                                              *)

\* The sections of a file as the format lays them out, without the reader:
\* code, first byte and first byte behind (from 0).
RECURSIVE Spans(_, _)
Spans(bytes, pos) ==
  IF pos >= Len(bytes) THEN <<>>
  ELSE LET z == ReadU32Leb128(bytes, pos + 1, Len(bytes))
           from == pos + 1 + z.n
       IN  <<[code |-> bytes[pos + 1], head |-> pos, from |-> from, to |-> from + z.v]>>
           \o Spans(bytes, from + z.v)
Whole == Written(Original, ProfileOf(profile).w)
Boundaries == {s.to : s \in ToSet(Spans(Whole, 8))} \cup {8}

RECURSIVE WithoutMetadata(_)
WithoutMetadata(es) ==
  LET One(e) == IF e.k \in {"Block", "Loop"} THEN [e EXCEPT !.body = WithoutMetadata(@)] ELSE e
      kept == SelectSeq(es, LAMBDA e : e.k # "CodeMetadata")
  IN  [i \in DOMAIN kept |-> One(kept[i])]
Nameless(s) == [i \in DOMAIN s |-> [s[i] EXCEPT !.name = <<>>]]
\* A module without what custom sections carry.
Code0(m) ==
  [m EXCEPT !.name = <<>>, !.customs = <<>>, !.types = Nameless(@), !.tables = Nameless(@),
            !.memories = Nameless(@), !.globals = Nameless(@), !.tags = Nameless(@),
            !.elems = Nameless(@), !.datas = Nameless(@),
            !.funcs = [i \in DOMAIN @ |-> [@[i] EXCEPT !.name = <<>>, !.bindings = {},
                                                       !.body = WithoutMetadata(@)]]]

\* The index spaces an instruction points into, the label depths it uses and
\* the function types it names.
IndexUses(e) ==
  LET Use(space, var) == {<<space, var[2]>>}
  IN  CASE e.k \in {"Call", "ReturnCall", "RefFunc"} -> Use("funcs", e.im[1])
        [] e.k \in {"CallIndirect", "ReturnCallIndirect", "TableCopy"} ->
             Use("tables", e.im[2]) \cup IF e.k = "TableCopy" THEN Use("tables", e.im[1]) ELSE {}
        [] e.k \in {"GlobalGet", "GlobalSet"} -> Use("globals", e.im[1])
        [] e.k = "Throw" -> Use("tags", e.im[1])
        [] e.k \in {"TableGet", "TableSet", "TableGrow", "TableSize", "TableFill"} -> Use("tables", e.im[1])
        [] e.k = "TableInit" -> Use("tables", e.im[1]) \cup Use("elems", e.im[2])
        [] e.k = "ElemDrop" -> Use("elems", e.im[1])
        [] e.k \in {"MemorySize", "MemoryGrow", "MemoryFill"} -> Use("memories", e.im[1])
        [] e.k = "MemoryCopy" -> Use("memories", e.im[1]) \cup Use("memories", e.im[2])
        [] e.k = "MemoryInit" -> Use("datas", e.im[1]) \cup Use("memories", e.im[2])
        [] e.k = "DataDrop" -> Use("datas", e.im[1])
        [] e.k = "AtomicFence" -> {}
        [] OTHER -> IF e.op \in Opcodes /\ GetMemorySize(e.op) # 0 THEN Use("memories", e.im[3]) ELSE {}
DepthUses(e) ==
  CASE e.k \in {"Br", "BrIf", "Rethrow"} -> {e.im[1][2]}
    [] e.k = "BrTable" -> {x[2] : x \in ToSet(e.im[1])} \cup {e.im[2][2]}
    [] e.k = "Try" -> IF e.kind = "Delegate" THEN {e.delegate[2]} ELSE {}
    [] OTHER -> {}
TypeUses(e) ==
  CASE e.k \in {"CallIndirect", "ReturnCallIndirect"} -> {e.im[1]}
    [] e.k \in {"Block", "Loop", "If", "Try"} -> {e.decl}
    [] OTHER -> {}
LocalUses(e) == IF e.k \in {"LocalGet", "LocalSet", "LocalTee"} THEN {e.im[1][2]} ELSE {}

\* Every instruction of es, nested ones included, with its label depth.
RECURSIVE Instrs(_, _)
Instrs(es, depth) ==
  LET Of(e) ==
        <<<<e, depth>>>>
        \o (IF e.k \in {"Block", "Loop", "If", "Try"} THEN Instrs(e.body, depth + 1) ELSE <<>>)
        \o (IF e.k = "If" THEN Instrs(e.alt, depth + 1) ELSE <<>>)
        \o (IF e.k # "Try" THEN <<>>
            ELSE FlattenSeq([j \in DOMAIN e.catches |-> Instrs(e.catches[j].body, depth + 1)]))
  IN  FlattenSeq([i \in DOMAIN es |-> Of(es[i])])

Within(m, use) == use[2] \in 0 .. Len(m[use[1]]) - 1
FuncTypeUse(m, decl) ==
  IF decl.hasType
  THEN IF Within(m, <<"types", decl.var[2]>>) THEN m.types[decl.var[2] + 1].kind = "func" ELSE FALSE
  ELSE Len(decl.sig.results) <= 1
BodyClosed(m, f) ==
  LET all == Instrs(f.body, 1)
  IN  \A i \in DOMAIN all : LET x == all[i] IN
    /\ \A use \in IndexUses(x[1]) : Within(m, use)
    /\ \A depth \in DepthUses(x[1]) : depth \in 0 .. x[2] - 1
    /\ \A decl \in TypeUses(x[1]) : FuncTypeUse(m, decl)
    /\ \A local \in LocalUses(x[1]) : local \in 0 .. GetNumParamsAndLocals(f) - 1
    /\ IF x[1].k # "Try" THEN TRUE
       ELSE \A j \in DOMAIN x[1].catches : \A tag \in ToSet(x[1].catches[j].tag) : Within(m, <<"tags", tag[2]>>)

\* A constant initializer of one type: one instruction.
InitClosed(m, es, type) ==
  IF Len(es) # 1 THEN FALSE
  ELSE LET e == es[1]
       IN  CASE e.k = "Const" -> e.op = (CASE type = I32 -> "i32.const" [] type = I64 -> "i64.const"
                                           [] type = F32 -> "f32.const" [] type = F64 -> "f64.const"
                                           [] OTHER -> "v128.const")
             [] e.k = "GlobalGet" ->
                  /\ e.im[1][2] \in 0 .. NumImports(m, "global") - 1
                  /\ m.globals[e.im[1][2] + 1].type = type /\ m.globals[e.im[1][2] + 1].mut = 0
             [] e.k = "RefFunc" -> Within(m, <<"funcs", e.im[1][2]>>) /\ type = FuncRef
             [] e.k = "RefNull" -> e.im[1] = type
             [] OTHER -> FALSE
FuncRefs(es) == LET refs == SelectSeq(Instrs(es, 0), LAMBDA x : x[1].k = "RefFunc")
                IN  {refs[i][1].im[1][2] : i \in DOMAIN refs}
FuncRefsOf(seqs) == UNION {FuncRefs(seqs[i]) : i \in DOMAIN seqs}

-----------------------------------------------------------------------------
(* Properties                                                               *)

Spaces == {"types", "funcs", "tables", "memories", "globals", "tags", "elems", "datas"}

\* BinaryReader reads back what BinaryWriter wrote: an undamaged file is
\* accepted and gives the module it was written from, names, relocations'
\* targets and code metadata included; the custom sections the writer made
\* itself come in addition.  The validator has nothing against it, and written
\* once more it gives the same file: the writer drops the custom sections it
\* makes itself, so nothing piles up.
RoundTrip ==
  fault = <<>> =>
    /\ ~Rejected
    /\ Accepts =>
         /\ valid
         /\ [r.d.mod EXCEPT !.customs = Original.customs] = Original
         /\ ToSet(Original.customs) \subseteq ToSet(r.d.mod.customs)
         /\ Written(r.d.mod, ProfileOf(profile).w) = file

\* Every relocation designates a padded LEB of the section it names, and the
\* value there is the index its symbol (or, for a type, it) stands for: the
\* offsets survive the growth of size fields and the removal and insertion
\* of sections (WriteU32Leb128WithReloc and the fixups of WriteSections).
RelocTarget(mod, x) ==
  LET nf == Len(mod.funcs) nt == Len(mod.tables)
  IN  CASE x.type = 6 -> x.index
        [] x.type = 0 -> x.index
        [] x.type = 20 -> x.index - nf
        [] x.type = 7 -> x.index - nf - nt
RelocsExact ==
  Accepts /\ fault = <<>> =>
    LET spans == Spans(r.data, 8)
    IN  \A k \in DOMAIN r.relocs :
          LET s == spans[r.relocs[k].section + 1]
          IN  \A j \in DOMAIN r.relocs[k].list :
                LET x == r.relocs[k].list[j]
                    at == s.from + x.offset
                IN  /\ at + 5 <= s.to
                    /\ SubSeq(r.data, at + 1, at + 5) = FixedU32Leb128(RelocTarget(r.d.mod, x))

\* A file that lost its tail is rejected by ReadBinary unless it was cut
\* between two sections, and then what was read is the beginning of the module.
TruncationDetected ==
  Accepts /\ fault # <<>> =>
    IF fault[1] # "cut" THEN TRUE
    ELSE /\ Len(file) \in Boundaries
         /\ \A f \in Spaces \cup {"imports", "exports", "starts"} :
              Code0(r.d.mod)[f] \in {Code0(Original)[f], <<>>} \/ f \in {"funcs", "tables", "memories", "globals", "tags"}
         /\ \A f \in {"funcs", "tables", "memories", "globals", "tags"} :
              IsPrefixOf(Code0(r.d.mod)[f], Code0(Original)[f])

\* Whatever was in the file: a module that ReadBinaryIr and ValidateModule let
\* through is closed.  Every index in a body, segment, export, start or type use
\* lies in its index space and every label depth and local in its function
\* (what the writers, the interpreter and wasm2c take for granted); functions,
\* tags and blocks have function types; the start function takes and gives
\* nothing; an initializer is one constant of its type; export names differ;
\* limits are ordered; a function whose reference a body takes is exported or
\* in an initializer; every defined function has a body, and there are as many
\* data segments as DataCount announced.
ValidatedClosed ==
  Accepts /\ valid =>
    LET m == r.d.mod
        declared == {m.exports[i].var[2] : i \in {j \in DOMAIN m.exports : m.exports[j].kind = "func"}}
                    \cup FuncRefsOf([i \in DOMAIN m.globals |-> m.globals[i].init])
                    \cup UNION {FuncRefsOf(m.elems[i].exprs) : i \in DOMAIN m.elems}
    IN  /\ \A f \in {"funcs", "tags"} : \A i \in DOMAIN m[f] : FuncTypeUse(m, m[f][i].decl)
        /\ \A i \in DOMAIN m.tags : m.types[m.tags[i].decl.var[2] + 1].sig.results = <<>>
        /\ \A i \in DOMAIN m.funcs :
             BodyClosed(m, m.funcs[i]) /\ FuncRefs(m.funcs[i].body) \subseteq declared
        /\ \A i \in NumImports(m, "global") + 1 .. Len(m.globals) :
             InitClosed(m, m.globals[i].init, m.globals[i].type)
        /\ \A i \in DOMAIN m.elems :
             /\ m.elems[i].kind = "active" =>
                  Within(m, <<"tables", m.elems[i].table[2]>>) /\ InitClosed(m, m.elems[i].offset, I32)
             /\ \A j \in DOMAIN m.elems[i].exprs : InitClosed(m, m.elems[i].exprs[j], m.elems[i].type)
        /\ \A i \in DOMAIN m.datas : m.datas[i].kind = "active" =>
             /\ Within(m, <<"memories", m.datas[i].memory[2]>>)
             /\ InitClosed(m, m.datas[i].offset,
                           IF m.memories[m.datas[i].memory[2] + 1].limits.is64 THEN I64 ELSE I32)
        /\ \A i \in DOMAIN m.exports :
             /\ Within(m, <<V!SpaceOf(m.exports[i].kind), m.exports[i].var[2]>>)
             /\ \A j \in DOMAIN m.exports : i # j => m.exports[i].name # m.exports[j].name
        /\ \A i \in DOMAIN m.starts :
             IF Within(m, <<"funcs", m.starts[i][2]>>) THEN m.funcs[m.starts[i][2] + 1].decl.sig = NoSig ELSE FALSE
        /\ \A f \in {"tables", "memories"} : \A i \in DOMAIN m[f] :
             LET l == m[f][i].limits IN l.hasMax => l.initial <= l.max
        /\ Len(m.funcs) = NumImports(m, "func") + r.bodies
        /\ r.dataCount # kInvalidIndex /\ "Data" \in r.seen => Len(m.datas) = r.dataCount
=============================================================================
