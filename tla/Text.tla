--------------------------------- MODULE Text --------------------------------
(***************************************************************************)
(* The way of a module through the text format, as wasm2wat and wat2wasm   *)
(* take it: names are generated on request, NameApplier puts names for     *)
(* indices, WatWriter prints the module, the text may be edited wrongly,   *)
(* and WastParser reads it field by field, completes the type uses and     *)
(* resolves the names.                                                     *)
(***************************************************************************)
EXTENDS WastParser

W == INSTANCE WatWriter

CONSTANTS
  Profiles,        \* names of the modules to start from
  ProfileOf(_),    \* the module, the choices of options, the features
  Edits,           \* kinds of wrong edits
  (* The components on the way, given by the module that is checked:      *)
  Generated(_),    \* GenerateNames
  Applied(_),      \* ApplyNames
  FieldParsed(_),  \* WastParser: the parser behind the next field
  FieldsResolved(_), \* WastParser: what follows the last field
  Resolved(_),     \* NameResolver: the module with indices for names
  HasErrors(_)   \* NameResolver: whether it reports an error

VARIABLES
  profile,   \* the name of the module
  opts,      \* fold, inline, names: the options of wasm2wat
  stage,     \* what happens next
  mod,       \* the module in memory
  fault,     \* <<>>, or the kind and the place of the edit
  text,      \* the tokens
  p          \* the parser

vars == <<profile, opts, stage, mod, fault, text, p>>

Features == ProfileOf(profile).features
Loaded   == ProfileOf(profile).mod
NoParser == NewParser(<<>>, {})

Init ==
  /\ profile \in Profiles
  /\ opts \in ProfileOf(profile).opts
  /\ stage = "generate" /\ mod = Loaded /\ fault = <<>> /\ text = <<>> /\ p = NoParser

\* --generate-names
Generate ==
  /\ stage = "generate"
  /\ mod' = IF opts.names THEN Generated(mod) ELSE mod
  /\ stage' = "apply"
  /\ UNCHANGED <<profile, opts, fault, text, p>>

\* ApplyNames; wasm2wat ignores whether it succeeds.
ApplyAll ==
  /\ stage = "apply"
  /\ mod' = Applied(mod)
  /\ stage' = "print"
  /\ UNCHANGED <<profile, opts, fault, text, p>>

\* WriteWat
Print0 ==
  /\ stage = "print"
  /\ text' = W!WriteWat(mod, W!WatOptions(opts.fold, opts.inline, opts.inline, Features))
  /\ stage' = "text"
  /\ UNCHANGED <<profile, opts, mod, fault, p>>

\* A token is lost, doubled or exchanged with the next one, a closing
\* parenthesis too many, another type or another name.
Edit ==
  /\ stage = "text" /\ fault = <<>> /\ opts.edit
  /\ \E i \in DOMAIN text : \E kind \in Edits :
       /\ kind = "type" => text[i][1] = "vt"
       /\ kind = "name" => text[i][1] = "id"
       /\ kind = "swap" => i < Len(text)
       /\ fault' = <<kind, i, text[i][1]>>
       /\ text' = CASE kind = "drop" -> RemoveAt(text, i)
                    [] kind = "double" -> InsertAt(text, i, text[i])
                    [] kind = "swap" -> [text EXCEPT ![i] = text[i + 1], ![i + 1] = text[i]]
                    [] kind = "close" -> InsertAt(text, i, RP)
                    [] kind = "type" -> [text EXCEPT ![i] = <<"vt", IF text[i][2] = I32 THEN I64 ELSE I32>>]
                    [] kind = "name" -> [text EXCEPT ![i] = <<"id", Dollar(<<97>>)>>]
  /\ UNCHANGED <<profile, opts, stage, mod, p>>

\* ParseModule, ParseModuleFieldList and what follows it.
StartParsing ==
  /\ stage = "text"
  /\ p' = StartModule(NewParser(text, Features))
  /\ stage' = "parse"
  /\ UNCHANGED <<profile, opts, mod, fault, text>>
ParseNext ==
  /\ stage = "parse" /\ MoreFields(p)
  /\ p' = FieldParsed(p)
  /\ UNCHANGED <<profile, opts, stage, mod, fault, text>>
ResolveAll ==
  /\ stage = "parse" /\ ~MoreFields(p)
  /\ p' = FieldsResolved(p)
  /\ stage' = "end"
  /\ UNCHANGED <<profile, opts, mod, fault, text>>
Finish ==
  /\ stage = "end"
  /\ p' = EndModule(p)
  /\ stage' = "done"
  /\ UNCHANGED <<profile, opts, mod, fault, text>>

Next == Generate \/ ApplyAll \/ Print0 \/ Edit \/ StartParsing \/ ParseNext \/ ResolveAll \/ Finish
Spec == Init /\ [][Next]_vars

-----------------------------------------------------------------------------
(* What the properties compare                                              *)

Done    == stage = "done"
Accepts == Done /\ ParseAccepts(p)

\* What the text does not tell apart: loads that splat and plain loads,
\* the natural alignment and its absence, a block's type and its signature.
RECURSIVE CanonExprs(_)
CanonExprs(es) ==
  LET D(d) == d.sig
      One(e) ==
        CASE e.k \in {"Block", "Loop"} -> [e EXCEPT !.decl = D(@), !.body = CanonExprs(@)]
          [] e.k = "If" -> [e EXCEPT !.decl = D(@), !.body = CanonExprs(@), !.alt = CanonExprs(@)]
          [] e.k = "Try" -> [e EXCEPT !.decl = D(@), !.body = CanonExprs(@),
                                      !.catches = [i \in DOMAIN @ |-> [@[i] EXCEPT !.body = CanonExprs(@)]]]
          [] e.op # "" /\ GetMemorySize(e.op) > 0 ->
               [e EXCEPT !.k = IF @ \in {"LoadSplat", "LoadZero"} THEN "Load" ELSE @, !.im[1] = GetAlignment(e.op, @)]
          [] OTHER -> e
  IN  [i \in DOMAIN es |-> One(es[i])]

Canon(m) ==
  [m EXCEPT !.funcs = [i \in DOMAIN @ |-> [@[i] EXCEPT !.body = CanonExprs(@)]],
            !.exports = ToSet(@)]
\* The module that was printed, with indices for the names put in.
Printed == Resolved(mod)

-----------------------------------------------------------------------------
(* Properties                                                               *)

\* WatWriter and WastParser agree: the text of a module, folded or not, with
\* imports and exports inline or not, with generated names or without, is
\* accepted and describes the module it was printed from.
TextRoundTrip == Done /\ fault = <<>> => ParseAccepts(p) /\ Canon(p.m) = Canon(Printed)

\* Names stand for what they replaced: after GenerateNames and ApplyNames the
\* resolver finds no error and restores every index, names apart.
NamesInverse ==
  stage = "print" =>
    /\ ~HasErrors(mod)
    /\ Printed = IF opts.names THEN Generated(Loaded) ELSE Loaded

\* Synchronize lets the parser go on after an error, and never makes a text
\* acceptable: a module is accepted only if nothing of it was skipped and its
\* parentheses match.
Depth(ts) == Cardinality({i \in DOMAIN ts : ts[i] \in {LP, <<"(@custom">>} \/ ts[i][1] = "(@metadata"})
             - Cardinality({i \in DOMAIN ts : ts[i] = RP})
NothingSkipped == Accepts => p.skips = 0 /\ Depth(text) = 0

\* In an accepted module every use of a type that also spells out the
\* signature says what the type says, every variable of a function has been
\* resolved to an index, and no two entries of a space share a name
\* (ResolveFuncTypes, NameResolver and CheckDuplicateBindings).
DeclAgrees(m, d) ==
  d.hasType => IsIndex(d.var) /\ (IF IsFuncType(m, d.var[2]) THEN d.sig = m.types[d.var[2] + 1].sig ELSE d.sig = NoSig)
AcceptedTyped ==
  Accepts => /\ \A i \in DOMAIN p.m.funcs : DeclAgrees(p.m, p.m.funcs[i].decl) /\ ~Unresolved(p.m.funcs[i].body)
             /\ \A i \in DOMAIN p.m.tags : DeclAgrees(p.m, p.m.tags[i].decl)
             /\ \A f \in CheckedSpaces : ~DuplicateBinding(p.m[f])
=============================================================================
