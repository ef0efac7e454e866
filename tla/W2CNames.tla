------------------------------ MODULE W2CNames ------------------------------
(***************************************************************************)
(* The C identifiers of a module that wasm2c writes (src/src/c-writer.cc): *)
(* names are sequences of bytes, mangled into letters, digits and single   *)
(* underscores, prefixed, and made unique in one set of symbols per        *)
(* module.  Names of the IR come without their leading dollar.             *)
(***************************************************************************)
EXTENDS Integers, Sequences, FiniteSets, SequencesExt

Zero       == 48
Underscore == 95
LetterX    == 120
IsDigit(ch)    == ch \in 48 .. 57
IsAlnum(ch)    == IsDigit(ch) \/ ch \in 65 .. 90 \/ ch \in 97 .. 122
IsHexDigit(ch) == IsDigit(ch) \/ ch \in 65 .. 70
HexDigit(n)    == IF n < 10 THEN Zero + n ELSE 55 + n

\* The state before a character: what has been seen of "0x" and a digit,
\* whether the last byte written is an underscore, and the bytes written.
MangleStart == [state |-> "Any", underscore |-> FALSE, out |-> <<>>]
MangleState(s, ch) ==
  CASE s = "Any"   -> IF ch = Zero THEN "Zero" ELSE "Any"
    [] s = "Zero"  -> IF ch = LetterX THEN "ZeroX" ELSE "Any"
    [] s = "ZeroX" -> IF IsHexDigit(ch) THEN "ZeroXHexDigit" ELSE "Any"
Escaped(r, ch) ==
  [state |-> "Any", underscore |-> FALSE, out |-> r.out \o <<Zero, LetterX, HexDigit(ch \div 16), HexDigit(ch % 16)>>]
Verbatim(r, s, chs) == [state |-> s, underscore |-> chs[1] = Underscore, out |-> r.out \o chs]
EscapedUnderscore(r, name, i) == i = 1 \/ i = Len(name) \/ r.underscore
MangleChar(r, name, i, double_underscores) ==
  LET ch == name[i]
      s  == MangleState(r.state, ch)
  IN  CASE s = "ZeroXHexDigit" -> Escaped(r, ch)
        [] s # "ZeroXHexDigit" /\ ch = Underscore ->
             IF EscapedUnderscore(r, name, i) THEN Escaped(r, ch)
             ELSE Verbatim(r, s, IF double_underscores THEN <<ch, ch>> ELSE <<ch>>)
        [] OTHER -> IF IsAlnum(ch) THEN Verbatim(r, s, <<ch>>) ELSE Escaped(r, ch)
Mangle(name, double_underscores) ==
  LET upto[i \in 0 .. Len(name)] ==
        IF i = 0 THEN MangleStart ELSE MangleChar(upto[i - 1], name, i, double_underscores)
  IN  upto[Len(name)].out
MangleName(name)       == Mangle(name, FALSE)
\* Mutated: module names are mangled like the names of fields.
MangleModuleName_Single(name) == Mangle(name, FALSE)
MangleModuleName(name) == Mangle(name, TRUE)

GlobalPrefix == <<119, 50, 99, 95>>
LocalPrefix  == <<118, 97, 114, 95>>
InstanceName == <<105, 110, 115, 116, 97, 110, 99, 101>>
ExportName(module, name) == GlobalPrefix \o MangleModuleName(module) \o <<Underscore>> \o MangleName(name)
MemberName(name) == GlobalPrefix \o MangleName(name)

-----------------------------------------------------------------------------
(* Symbol sets.  A symbol table t has the identifiers in use, the map from  *)
(* the tagged names of the module to them, and whether the assertions of    *)
(* ClaimName held.                                                          *)

NoSymbols == [syms |-> {}, map |-> <<>>, ok |-> TRUE]
ClaimName(t, key, sym) ==
  [syms |-> t.syms \cup {sym},
   map  |-> [k \in DOMAIN t.map \cup {key} |-> IF k \in DOMAIN t.map THEN t.map[k] ELSE sym],
   ok   |-> t.ok /\ sym \notin t.syms /\ key \notin DOMAIN t.map]
\* A taken name gets the first of the suffixes _0, _1, ... that is free; ten
\* are enough for the modules below.
FindUniqueName(syms, proposed) ==
  LET numbered(n) == proposed \o <<Underscore, Zero + n>>
      n == CHOOSE k \in 0 .. 9 : numbered(k) \notin syms /\ \A j \in 0 .. k - 1 : numbered(j) \in syms
  IN  IF proposed \in syms THEN numbered(n) ELSE proposed
ClaimUniqueName(t, key, proposed) == ClaimName(t, key, FindUniqueName(t.syms, proposed))
DefineImportName(t, key, sym) == ClaimName([t EXCEPT !.syms = @ \ {sym}], key, sym)

\* std::set iterates over its strings in the order of their bytes.
Before(a, b) ==
  \E n \in 0 .. Len(b) - 1 :
    /\ n <= Len(a) /\ SubSeq(a, 1, n) = SubSeq(b, 1, n)
    /\ n = Len(a) \/ a[n + 1] < b[n + 1]
Sorted(S) == SetToSortSeq(S, Before)
ImportModules(m)     == Sorted({m.imports[j].module : j \in DOMAIN m.imports})
ImportFuncModules(m) == Sorted({m.imports[j].module : j \in {n \in DOMAIN m.imports : m.imports[n].kind = "func"}})

\* What the writer claims, in its order: exports, imports, the instances of
\* imported modules, the members of the instance, segments, types, tags and
\* functions.
Unique(kind, Sym(_), s) == [j \in DOMAIN s |-> [how |-> "unique", key |-> <<s[j].name, kind>>, sym |-> Sym(s[j].name)]]
GlobalScope(m, kind) == Unique(kind, LAMBDA name : ExportName(m.name, name), m[kind])
ReserveExportNames(m) ==
  [j \in DOMAIN m.exports |-> [how |-> "exact", key |-> <<m.exports[j].name, "export">>, sym |-> ExportName(m.name, m.exports[j].name)]]
BeginInstance(m) ==
  LET modules == ImportModules(m)
  IN  [j \in DOMAIN m.imports |-> [how |-> "import", key |-> <<m.imports[j].name, m.imports[j].kind>>,
                                   sym |-> ExportName(m.imports[j].module, m.imports[j].field)]]
      \o [j \in DOMAIN modules |-> [how |-> "unique", key |-> <<modules[j], "import">>, sym |-> ExportName(modules[j], InstanceName)]]
WriteGlobals(m)       == Unique("global", MemberName, m.global)
WriteMemories(m)      == Unique("memory", MemberName, m.memory)
WriteTables(m)        == Unique("table", MemberName, m.table)
WriteDataInstances(m) == GlobalScope(m, "data")
WriteElemInstances(m) == GlobalScope(m, "elem")
WriteModuleInstance(m) ==
  BeginInstance(m) \o WriteGlobals(m) \o WriteMemories(m) \o WriteTables(m) \o WriteDataInstances(m) \o WriteElemInstances(m)
WriteFuncTypeDecls(m)    == GlobalScope(m, "type")
WriteTagDecls(m)         == GlobalScope(m, "tag")
WriteFuncDeclarations(m) == GlobalScope(m, "func")
WriteModule(m) ==
  ReserveExportNames(m) \o WriteModuleInstance(m) \o WriteFuncTypeDecls(m) \o WriteTagDecls(m) \o WriteFuncDeclarations(m)
Claimed(t, c) ==
  CASE c.how = "exact"  -> ClaimName(t, c.key, c.sym)
    [] c.how = "import" -> DefineImportName(t, c.key, c.sym)
    [] c.how = "unique" -> ClaimUniqueName(t, c.key, c.sym)
SymbolsOf(m) ==
  LET claims == WriteModule(m)
      upto[j \in 0 .. Len(claims)] == IF j = 0 THEN NoSymbols ELSE Claimed(upto[j - 1], claims[j])
  IN  upto[Len(claims)]

\* Params and locals of a function are claimed in a copy of the module's set,
\* the variables of its operand stack only found free in it.
LocalName(name) == LocalPrefix \o MangleName(name)
LocalSymbols(t, locals) ==
  LET upto[j \in 0 .. Len(locals)] ==
        IF j = 0 THEN [syms |-> t.syms, map |-> <<>>, ok |-> TRUE]
        ELSE ClaimUniqueName(upto[j - 1], <<locals[j], "local">>, LocalName(locals[j]))
  IN  upto[Len(locals)]
DefineStackVarName(local, name) == FindUniqueName(local.syms, LocalName(name))
=============================================================================
