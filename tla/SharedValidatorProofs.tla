----------------------- MODULE SharedValidatorProofs -----------------------
(***************************************************************************)
(* Proofs about SharedValidator, for every module, every body and every    *)
(* depth of blocks: the type checker's stacks are well formed whatever     *)
(* failed, and accepted code runs with the types the checker computed.     *)
(***************************************************************************)
EXTENDS SharedValidator, SequenceTheorems, TLAPS

-----------------------------------------------------------------------------
(* The invariants                                                           *)

StackType == ValueType \cup {AnyType}

LabelType == {"func", "init", "block", "loop", "if", "else", "try", "catch"}

Label ==
  [label_type : LabelType, param_types : ResultType, result_types : ResultType,
   type_stack_limit : Nat, unreachable : BOOLEAN]

Checker == [type_stack : Seq(StackType), label_stack : Seq(Label), ok : BOOLEAN]

\* LimitsOK, of any checker.
Nested(t) ==
  /\ \A k \in DOMAIN t.label_stack : t.label_stack[k].type_stack_limit <= Len(t.type_stack)
  /\ \A k, l \in DOMAIN t.label_stack :
       k < l => t.label_stack[k].type_stack_limit <= t.label_stack[l].type_stack_limit

Shape(t) == t \in Checker /\ Nested(t)

\* What every method is called with: TopLabel exists.
Good(t) == Shape(t) /\ t.label_stack # <<>>

\* The labels are the caller's blocks, as long as nothing failed; there are at
\* least as many afterwards.
Covered(t, blocks) ==
  blocks # <<>> =>
    /\ Len(t.label_stack) >= Len(blocks)
    /\ t.ok => /\ Len(t.label_stack) = Len(blocks)
               /\ \A k \in DOMAIN blocks : t.label_stack[k].label_type = blocks[k]

\* The inductive invariant behind LimitsOK and NestingCovered.
ShapeInv ==
  /\ profile \in DOMAIN Profiles
  /\ Shape(tc)
  /\ in_init_expr \in BOOLEAN
  /\ br_table \in [active : BOOLEAN, first : BOOLEAN, sig : ResultType]
  /\ open \in Seq(LabelType)
  /\ Covered(tc, open)

-----------------------------------------------------------------------------
(* What the machine and an accepting checker have to do with each other.    *)

FrameType ==
  [base : Seq(StackType), loop : BOOLEAN, params : ResultType, results : ResultType,
   entered : BOOLEAN, hits : SUBSET Seq(StackType)]

Machine ==
  [live : BOOLEAN, stuck : BOOLEAN, stack : Seq(StackType), ctl : Seq(FrameType)]

\* A frame and its label: where the block was entered, the operands below it
\* are the ones on the type stack, none of them made up, and every branch
\* that left it carried its results.
FrameAgrees(f, l, types) ==
  /\ f.loop = (l.label_type = "loop")
  /\ f.params = l.param_types
  /\ f.results = l.result_types
  /\ f.entered => f.base = SubSeq(types, 1, l.type_stack_limit) /\ f.base \in ResultType
  /\ \A h \in f.hits : f.entered /\ h = f.base \o f.results

\* The frames and the labels.  Control entered a block only if it entered every
\* block around it, and never by code the checker calls unreachable.
Frames(t, ctl) ==
  /\ Len(ctl) = Len(t.label_stack)
  /\ t.label_stack[1].type_stack_limit = 0
  /\ \A k \in DOMAIN ctl : FrameAgrees(ctl[k], t.label_stack[k], t.type_stack)
  /\ \A k, l \in DOMAIN ctl :
       k < l /\ ctl[l].entered => ctl[k].entered /\ ~t.label_stack[k].unreachable

\* A machine that runs has the types of the type stack.
Running(t, mm) ==
  /\ mm.stack = t.type_stack
  /\ t.type_stack \in ResultType
  /\ ~TopLabel(t).unreachable
  /\ mm.ctl[Len(mm.ctl)].entered

Agree(t, mm) ==
  /\ mm \in Machine
  /\ ~mm.stuck
  /\ Frames(t, mm.ctl)
  /\ mm.live => Running(t, mm)

\* The inductive invariant behind Sound.
SoundInv ==
  tc.ok => IF Idle THEN ~m.stuck ELSE Agree(tc, m)

-----------------------------------------------------------------------------
(* Sequences                                                                *)

\* A stack with operands on top.
On(b, x) == b \o x

LEMMA Prefix ==
  ASSUME NEW S, NEW s \in Seq(S), NEW n \in Nat, n <= Len(s)
  PROVE  /\ SubSeq(s, 1, n) \in Seq(S)
         /\ Len(SubSeq(s, 1, n)) = n
         /\ \A i \in 1 .. n : SubSeq(s, 1, n)[i] = s[i]
<1>1. \A i \in 1 .. n : s[i] \in S
  BY ElementOfSeq, LenProperties
<1>2. 1 \in Int /\ n \in Int
  OBVIOUS
<1>3. /\ SubSeq(s, 1, n) \in Seq(S)
      /\ Len(SubSeq(s, 1, n)) = IF 1 <= n THEN n - 1 + 1 ELSE 0
      /\ \A i \in 1 .. n - 1 + 1 : SubSeq(s, 1, n)[i] = s[1 + i - 1]
  BY <1>1, <1>2, SubSeqProperties
<1> QED
  BY <1>3

LEMMA PrefixOfConcat ==
  ASSUME NEW S, NEW s \in Seq(S), NEW u \in Seq(S), NEW n \in Nat, n <= Len(s)
  PROVE  SubSeq(s \o u, 1, n) = SubSeq(s, 1, n)
<1>1. /\ s \o u \in Seq(S) /\ Len(s \o u) = Len(s) + Len(u)
      /\ \A i \in 1 .. Len(s) + Len(u) : (s \o u)[i] = IF i <= Len(s) THEN s[i] ELSE u[i - Len(s)]
  BY ConcatProperties
<1>2. Len(s) \in Nat /\ Len(u) \in Nat
  BY LenProperties
<1>3. /\ SubSeq(s, 1, n) \in Seq(S) /\ Len(SubSeq(s, 1, n)) = n
      /\ \A i \in 1 .. n : SubSeq(s, 1, n)[i] = s[i]
  BY Prefix
<1>4. n <= Len(s \o u)
  BY <1>1, <1>2
<1>5. /\ SubSeq(s \o u, 1, n) \in Seq(S) /\ Len(SubSeq(s \o u, 1, n)) = n
      /\ \A i \in 1 .. n : SubSeq(s \o u, 1, n)[i] = (s \o u)[i]
  BY <1>1, <1>4, Prefix
<1>6. \A i \in 1 .. n : SubSeq(s \o u, 1, n)[i] = SubSeq(s, 1, n)[i]
  BY <1>1, <1>2, <1>3, <1>5
<1> QED
  BY <1>3, <1>5, <1>6, SeqEqual

LEMMA PrefixOfPrefix ==
  ASSUME NEW S, NEW s \in Seq(S), NEW n \in Nat, n <= Len(s), NEW k \in Nat, k <= n
  PROVE  SubSeq(SubSeq(s, 1, n), 1, k) = SubSeq(s, 1, k)
<1>0. Len(s) \in Nat /\ k <= Len(s)
  BY LenProperties
<1>1. /\ SubSeq(s, 1, n) \in Seq(S) /\ Len(SubSeq(s, 1, n)) = n
      /\ \A i \in 1 .. n : SubSeq(s, 1, n)[i] = s[i]
  BY Prefix
<1>2. /\ SubSeq(s, 1, k) \in Seq(S) /\ Len(SubSeq(s, 1, k)) = k
      /\ \A i \in 1 .. k : SubSeq(s, 1, k)[i] = s[i]
  BY <1>0, Prefix
<1> DEFINE u == SubSeq(s, 1, n)
<1>3. /\ SubSeq(u, 1, k) \in Seq(S) /\ Len(SubSeq(u, 1, k)) = k
      /\ \A i \in 1 .. k : SubSeq(u, 1, k)[i] = u[i]
  BY <1>1, Prefix
<1>4. \A i \in 1 .. k : SubSeq(u, 1, k)[i] = SubSeq(s, 1, k)[i]
  BY <1>1, <1>2, <1>3
<1> QED
  BY <1>2, <1>3, <1>4, SeqEqual

\* Two stacks that agree below n agree below anything lower.
LEMMA LowerPrefix ==
  ASSUME NEW S, NEW s \in Seq(S), NEW u \in Seq(S),
         NEW n \in Nat, n <= Len(s), n <= Len(u), SubSeq(s, 1, n) = SubSeq(u, 1, n),
         NEW k \in Nat, k <= n
  PROVE  SubSeq(s, 1, k) = SubSeq(u, 1, k)
BY PrefixOfPrefix

\* Below and TopN take a concatenation apart.
LEMMA TopOfConcat ==
  ASSUME NEW S, NEW b \in Seq(S), NEW x \in Seq(S)
  PROVE  /\ TopN(b \o x, Len(x)) = x
         /\ Below(b \o x, Len(x)) = b
<1> DEFINE s == b \o x
<1>1. /\ s \in Seq(S) /\ Len(s) = Len(b) + Len(x)
      /\ \A i \in 1 .. Len(b) + Len(x) : s[i] = IF i <= Len(b) THEN b[i] ELSE x[i - Len(b)]
  BY ConcatProperties
<1>2. Len(b) \in Nat /\ Len(x) \in Nat
  BY LenProperties
<1> HIDE DEF s
<1>3. Below(s, Len(x)) = SubSeq(s, 1, Len(b))
  BY <1>1, <1>2 DEF Below
<1>4. TopN(s, Len(x)) = SubSeq(s, Len(b) + 1, Len(b) + Len(x))
  BY <1>1, <1>2 DEF TopN
<1>5. Below(s, Len(x)) = b
  <2>1. /\ SubSeq(s, 1, Len(b)) \in Seq(S) /\ Len(SubSeq(s, 1, Len(b))) = Len(b)
        /\ \A i \in 1 .. Len(b) : SubSeq(s, 1, Len(b))[i] = s[i]
    BY <1>1, <1>2, Prefix
  <2>2. \A i \in 1 .. Len(b) : SubSeq(s, 1, Len(b))[i] = b[i]
    BY <2>1, <1>1, <1>2
  <2> QED
    BY <1>3, <2>1, <2>2, SeqEqual
<1>6. TopN(s, Len(x)) = x
  <2> DEFINE p == Len(b) + 1
             q == Len(b) + Len(x)
  <2>1. \A i \in p .. q : s[i] \in S
    BY <1>1, <1>2, ElementOfSeq
  <2>2. p \in Int /\ q \in Int
    BY <1>2
  <2>3. /\ SubSeq(s, p, q) \in Seq(S)
        /\ Len(SubSeq(s, p, q)) = IF p <= q THEN q - p + 1 ELSE 0
        /\ \A i \in 1 .. q - p + 1 : SubSeq(s, p, q)[i] = s[p + i - 1]
    BY <2>1, <2>2, SubSeqProperties
  <2>4. Len(SubSeq(s, p, q)) = Len(x)
    BY <2>3, <1>2
  <2>5. \A i \in 1 .. Len(x) : SubSeq(s, p, q)[i] = x[i]
    <3> SUFFICES ASSUME NEW i \in 1 .. Len(x)
                 PROVE  SubSeq(s, p, q)[i] = x[i]
      OBVIOUS
    <3>1. i \in 1 .. q - p + 1 /\ p + i - 1 = Len(b) + i
      BY <1>2
    <3>2. SubSeq(s, p, q)[i] = s[Len(b) + i]
      BY <2>3, <3>1
    <3>3. Len(b) + i \in 1 .. Len(b) + Len(x) /\ ~(Len(b) + i <= Len(b)) /\ (Len(b) + i) - Len(b) = i
      BY <1>2
    <3> QED
      BY <3>2, <3>3, <1>1
  <2> QED
    BY <1>4, <2>3, <2>4, <2>5, SeqEqual
<1> QED
  BY <1>5, <1>6 DEF s

\* Cutting a sequence in two.
LEMMA CutSeq ==
  ASSUME NEW S, NEW s \in Seq(S), NEW x \in Seq(S), NEW n \in Nat, n + Len(x) = Len(s)
  PROVE  (\A i \in 1 .. Len(x) : s[n + i] = x[i]) => s = SubSeq(s, 1, n) \o x
<1>1. Len(s) \in Nat /\ Len(x) \in Nat /\ n <= Len(s)
  BY LenProperties
<1>a. PICK b : b = SubSeq(s, 1, n)
  OBVIOUS
<1>2. b \in Seq(S) /\ Len(b) = n /\ \A i \in 1 .. n : b[i] = s[i]
  BY <1>1, <1>a, Prefix
<1>3. /\ b \o x \in Seq(S) /\ Len(b \o x) = Len(b) + Len(x)
      /\ \A i \in 1 .. Len(b) + Len(x) : (b \o x)[i] = IF i <= Len(b) THEN b[i] ELSE x[i - Len(b)]
  BY <1>2, ConcatProperties
<1> HAVE \A i \in 1 .. Len(x) : s[n + i] = x[i]
<1>4. \A i \in 1 .. Len(s) : s[i] = (b \o x)[i]
  <2> SUFFICES ASSUME NEW i \in 1 .. Len(s)
               PROVE  s[i] = (b \o x)[i]
    OBVIOUS
  <2>1. CASE i <= n
    BY <2>1, <1>1, <1>2, <1>3
  <2>2. CASE ~(i <= n)
    <3>1. (b \o x)[i] = x[i - n]
      BY <2>2, <1>1, <1>2, <1>3
    <3>2. i - n \in 1 .. Len(x) /\ n + (i - n) = i
      BY <2>2, <1>1
    <3> QED
      BY <3>1, <3>2
  <2> QED
    BY <2>1, <2>2
<1>5. Len(s) = Len(b \o x)
  BY <1>1, <1>2, <1>3
<1>6. s = b \o x
  BY <1>3, <1>4, <1>5, SeqEqual
<1> QED
  BY <1>a, <1>6

LEMMA ResizeIsPrefix ==
  ASSUME NEW S, NEW s \in Seq(S), NEW n \in Nat, n <= Len(s)
  PROVE  Resize(s, n) = SubSeq(s, 1, n)
<1>1. Len(s) \in Nat
  BY LenProperties
<1>2. /\ SubSeq(s, 1, n) \in Seq(S) /\ Len(SubSeq(s, 1, n)) = n
      /\ \A i \in 1 .. n : SubSeq(s, 1, n)[i] = s[i]
  BY Prefix
<1>3. SubSeq(s, 1, n) = [i \in 1 .. n |-> SubSeq(s, 1, n)[i]]
  BY <1>2, LenProperties
<1> QED
  BY <1>1, <1>2, <1>3 DEF Resize

LEMMA OneSeq ==
  ASSUME NEW S, NEW e \in S
  PROVE  <<e>> \in Seq(S) /\ Len(<<e>>) = 1 /\ <<e>>[1] = e
OBVIOUS

-----------------------------------------------------------------------------
(* The type checker's methods keep the stacks well formed                   *)

Lim(t) == TopLabel(t).type_stack_limit

\* What a method that stays in the block does: the labels and the operands
\* below the block are left alone, and an error is not forgotten.
Within(t, u) ==
  /\ Shape(u)
  /\ u.label_stack = t.label_stack
  /\ SubSeq(u.type_stack, 1, Lim(t)) = SubSeq(t.type_stack, 1, Lim(t))
  /\ u.ok => t.ok

\* And what a method does that may make the rest of the block unreachable.
Follows(t, u) ==
  /\ Shape(u)
  /\ Len(u.label_stack) = Len(t.label_stack)
  /\ \A k \in DOMAIN t.label_stack : u.label_stack[k].label_type = t.label_stack[k].label_type
  /\ u.ok => t.ok

LEMMA AnyIsNoValueType == AnyType \notin ValueType
BY DEF AnyType, ValueType, RefType

LEMMA ResultsAreOperands ==
  ASSUME NEW s \in ResultType
  PROVE  s \in Seq(StackType) /\ Len(s) \in Nat
BY SeqMonotonic, LenProperties DEF ResultType, StackType

LEMMA GoodLabels ==
  ASSUME NEW t, Good(t)
  PROVE  /\ t \in Checker
         /\ Len(t.label_stack) \in Nat \ {0} /\ DOMAIN t.label_stack = 1 .. Len(t.label_stack)
         /\ TopLabel(t) = t.label_stack[Len(t.label_stack)]
         /\ TopLabel(t) \in Label
         /\ Lim(t) \in Nat /\ Len(t.type_stack) \in Nat /\ Lim(t) <= Len(t.type_stack)
         /\ \A k \in DOMAIN t.label_stack :
              t.label_stack[k] \in Label /\ t.label_stack[k].type_stack_limit <= Lim(t)
<1>1. t \in Checker /\ t.label_stack \in Seq(Label) /\ t.label_stack # <<>>
      /\ t.type_stack \in Seq(StackType)
  BY DEF Good, Shape, Checker
<1>2. /\ Len(t.label_stack) \in Nat \ {0} /\ DOMAIN t.label_stack = 1 .. Len(t.label_stack)
      /\ \A k \in 1 .. Len(t.label_stack) : t.label_stack[k] \in Label
  BY <1>1, EmptySeq, LenProperties, ElementOfSeq
<1>3. TopLabel(t) = t.label_stack[Len(t.label_stack)]
  BY <1>2 DEF TopLabel, GetLabel
<1>4. Len(t.label_stack) \in DOMAIN t.label_stack
  BY <1>2
<1>5. \A k \in DOMAIN t.label_stack : t.label_stack[k].type_stack_limit \in Nat
  BY <1>2 DEF Label
<1>6. \A k \in DOMAIN t.label_stack : t.label_stack[k].type_stack_limit <= Lim(t)
  <2> SUFFICES ASSUME NEW k \in DOMAIN t.label_stack
               PROVE  t.label_stack[k].type_stack_limit <= Lim(t)
    OBVIOUS
  <2>1. CASE k = Len(t.label_stack)
    BY <2>1, <1>3, <1>5 DEF Lim
  <2>2. CASE k < Len(t.label_stack)
    BY <2>2, <1>3, <1>4 DEF Lim, Good, Shape, Nested
  <2> QED
    BY <2>1, <2>2, <1>2
<1>7. Len(t.type_stack) \in Nat
  BY <1>1, LenProperties
<1> QED
  BY <1>1, <1>2, <1>3, <1>4, <1>5, <1>6, <1>7 DEF Lim, Good, Shape, Nested

LEMMA GetLabelIs ==
  ASSUME NEW t, Good(t), NEW depth \in Nat, HasLabel(t, depth)
  PROVE  /\ Len(t.label_stack) - depth \in DOMAIN t.label_stack
         /\ GetLabel(t, depth) \in Label
         /\ br_types(GetLabel(t, depth)) \in ResultType
<1>1. Len(t.label_stack) - depth \in DOMAIN t.label_stack
  BY GoodLabels DEF HasLabel
<1>2. GetLabel(t, depth) \in Label
  BY <1>1, GoodLabels DEF GetLabel
<1> QED
  BY <1>1, <1>2 DEF br_types, Label

\* Above the block's limit the stack may be anything.
LEMMA NestedAbove ==
  ASSUME NEW t, Good(t), NEW u \in Checker, u.label_stack = t.label_stack,
         Lim(t) <= Len(u.type_stack)
  PROVE  Good(u)
<1>1. Len(u.type_stack) \in Nat
  BY LenProperties DEF Checker
<1>2. \A k \in DOMAIN t.label_stack :
        t.label_stack[k].type_stack_limit \in Nat /\ t.label_stack[k].type_stack_limit <= Lim(t)
  BY GoodLabels DEF Label
<1>3. Lim(t) \in Nat
  BY GoodLabels
<1>4. \A k \in DOMAIN u.label_stack : u.label_stack[k].type_stack_limit <= Len(u.type_stack)
  BY <1>1, <1>2, <1>3
<1> QED
  BY <1>4 DEF Good, Shape, Nested

LEMMA WithinItself ==
  ASSUME NEW t, Good(t)
  PROVE  Within(t, t)
BY DEF Within, Good

LEMMA WithinGood ==
  ASSUME NEW t, Good(t), NEW u, Within(t, u)
  PROVE  Good(u) /\ TopLabel(u) = TopLabel(t) /\ Lim(u) = Lim(t)
BY DEF Within, Good, TopLabel, GetLabel, Lim

LEMMA WithinTransitive ==
  ASSUME NEW t, Good(t), NEW u, Within(t, u), NEW v, Within(u, v)
  PROVE  Within(t, v)
BY WithinGood DEF Within

LEMMA WithinFollows ==
  ASSUME NEW t, NEW u, Within(t, u)
  PROVE  Follows(t, u)
BY DEF Within, Follows

LEMMA CheckWithin ==
  ASSUME NEW t, Good(t), NEW c \in BOOLEAN
  PROVE  /\ Within(t, Check(t, c))
         /\ Check(t, c).type_stack = t.type_stack
         /\ Check(t, c).ok = (t.ok /\ c)
<1>1. t \in Checker
  BY GoodLabels
<1>2. /\ Check(t, c) \in Checker /\ Check(t, c).type_stack = t.type_stack
      /\ Check(t, c).label_stack = t.label_stack
      /\ Check(t, c).ok = (t.ok /\ c)
  BY <1>1 DEF Check, Checker
<1>3. Good(Check(t, c))
  BY <1>2, NestedAbove, GoodLabels
<1> QED
  BY <1>2, <1>3 DEF Within, Good

LEMMA CheckIs ==
  ASSUME NEW t, Good(t), NEW c \in BOOLEAN, NEW u, u = Check(t, c)
  PROVE  /\ Within(t, u) /\ Good(u)
         /\ u.ok => c /\ u = t
<1>1. t \in Checker
  BY GoodLabels
<1>2. Within(t, u) /\ u.ok = (t.ok /\ c)
  BY CheckWithin
<1>3. u.ok => c /\ u = t
  BY <1>1, <1>2 DEF Check, Checker
<1> QED
  BY <1>2, <1>3, WithinGood

\* A new stack on the same labels.
WithStack(t, s) == [t EXCEPT !.type_stack = s]

LEMMA NewStack ==
  ASSUME NEW t, Good(t), NEW s \in Seq(StackType), Lim(t) <= Len(s),
         SubSeq(s, 1, Lim(t)) = SubSeq(t.type_stack, 1, Lim(t)),
         NEW u, u = WithStack(t, s)
  PROVE  Within(t, u) /\ u.type_stack = s /\ u.ok = t.ok
<1>1. t \in Checker
  BY GoodLabels
<1>2. u \in Checker /\ u.type_stack = s /\ u.label_stack = t.label_stack /\ u.ok = t.ok
  BY <1>1 DEF Checker, WithStack
<1>3. Good(u)
  BY <1>2, NestedAbove
<1> QED
  BY <1>2, <1>3 DEF Within, Good

\* vector::resize to the label's limit only cuts.
LEMMA ResetWithin ==
  ASSUME NEW t, Good(t)
  PROVE  /\ Within(t, ResetTypeStackToLabel(t))
         /\ ResetTypeStackToLabel(t).type_stack = SubSeq(t.type_stack, 1, Lim(t))
         /\ ResetTypeStackToLabel(t).ok = t.ok
<1>1. t.type_stack \in Seq(StackType) /\ Lim(t) \in Nat /\ Lim(t) <= Len(t.type_stack)
  BY GoodLabels DEF Checker
<1>2. PICK s : s = SubSeq(t.type_stack, 1, Lim(t))
  OBVIOUS
<1>3. s \in Seq(StackType) /\ Len(s) = Lim(t) /\ Resize(t.type_stack, Lim(t)) = s
  BY <1>1, <1>2, Prefix, ResizeIsPrefix
<1>4. SubSeq(s, 1, Lim(t)) = SubSeq(t.type_stack, 1, Lim(t))
  BY <1>1, <1>2, <1>3, SubSeqFull
<1>5. PICK u : u = ResetTypeStackToLabel(t)
  OBVIOUS
<1>6. u = WithStack(t, s)
  BY <1>3, <1>5 DEF ResetTypeStackToLabel, Lim, WithStack
<1>7. Lim(t) <= Len(s)
  BY <1>1, <1>3
<1>8. Within(t, u) /\ u.type_stack = s /\ u.ok = t.ok
  BY <1>3, <1>4, <1>6, <1>7, NewStack
<1> QED
  BY <1>2, <1>5, <1>8

LEMMA PushWithin ==
  ASSUME NEW t, Good(t), NEW types \in Seq(StackType)
  PROVE  /\ Within(t, PushTypes(t, types))
         /\ PushTypes(t, types).type_stack = t.type_stack \o types
         /\ PushTypes(t, types).ok = t.ok
<1>1. t.type_stack \in Seq(StackType) /\ Lim(t) \in Nat /\ Lim(t) <= Len(t.type_stack)
  BY GoodLabels DEF Checker
<1>2. PICK s : s = t.type_stack \o types
  OBVIOUS
<1>3. s \in Seq(StackType) /\ Len(s) = Len(t.type_stack) + Len(types)
  BY <1>1, <1>2, ConcatProperties
<1>4. Len(types) \in Nat /\ Len(t.type_stack) \in Nat
  BY <1>1, LenProperties
<1>5. Lim(t) <= Len(s)
  BY <1>1, <1>3, <1>4
<1>6. SubSeq(s, 1, Lim(t)) = SubSeq(t.type_stack, 1, Lim(t))
  BY <1>1, <1>2, PrefixOfConcat
<1>7. PICK u : u = PushTypes(t, types)
  OBVIOUS
<1>8. u = WithStack(t, s)
  BY <1>2, <1>7 DEF PushTypes, WithStack
<1>9. Within(t, u) /\ u.type_stack = s /\ u.ok = t.ok
  BY <1>3, <1>5, <1>6, <1>8, NewStack
<1> QED
  BY <1>2, <1>7, <1>9

LEMMA DropWithin ==
  ASSUME NEW t, Good(t), NEW n \in Nat
  PROVE  /\ Within(t, DropTypes(t, n))
         /\ Lim(t) + n <= Len(t.type_stack) =>
              /\ DropTypes(t, n).type_stack = SubSeq(t.type_stack, 1, Len(t.type_stack) - n)
              /\ DropTypes(t, n).ok = t.ok
<1>1. /\ t.type_stack \in Seq(StackType) /\ Lim(t) \in Nat /\ Lim(t) <= Len(t.type_stack)
      /\ Len(t.type_stack) \in Nat
  BY GoodLabels DEF Checker
<1>2. CASE Lim(t) + n > Len(t.type_stack)
  <2>1. PICK u : u = ResetTypeStackToLabel(t)
    OBVIOUS
  <2>2. Within(t, u)
    BY <2>1, ResetWithin
  <2>3. TopLabel(t).unreachable \in BOOLEAN
    BY GoodLabels DEF Label
  <2>4. Within(u, Check(u, TopLabel(t).unreachable))
    BY <2>2, <2>3, WithinGood, CheckWithin
  <2>5. DropTypes(t, n) = Check(u, TopLabel(t).unreachable)
    BY <1>2, <2>1 DEF DropTypes, Lim
  <2> QED
    BY <1>1, <1>2, <2>2, <2>4, <2>5, WithinTransitive
<1>3. CASE ~(Lim(t) + n > Len(t.type_stack))
  <2>1. PICK k : k = Len(t.type_stack) - n
    OBVIOUS
  <2>2. k \in Nat /\ k <= Len(t.type_stack) /\ Lim(t) <= k
    BY <1>1, <1>3, <2>1
  <2>3. PICK s : s = SubSeq(t.type_stack, 1, k)
    OBVIOUS
  <2>4. s \in Seq(StackType) /\ Len(s) = k
    BY <1>1, <2>2, <2>3, Prefix
  <2>5. SubSeq(s, 1, Lim(t)) = SubSeq(t.type_stack, 1, Lim(t))
    BY <1>1, <2>2, <2>3, PrefixOfPrefix
  <2>6. PICK u : u = DropTypes(t, n)
    OBVIOUS
  <2>7. u = WithStack(t, s)
    BY <1>3, <2>1, <2>3, <2>6 DEF DropTypes, Lim, WithStack
  <2>8. Lim(t) <= Len(s)
    BY <2>2, <2>4
  <2>9. Within(t, u) /\ u.type_stack = s /\ u.ok = t.ok
    BY <2>4, <2>5, <2>7, <2>8, NewStack
  <2> QED
    BY <2>1, <2>3, <2>6, <2>9
<1> QED
  BY <1>2, <1>3

LEMMA CheckSignatureWithin ==
  ASSUME NEW t, Good(t), NEW sig
  PROVE  /\ Within(t, CheckSignature(t, sig))
         /\ CheckSignature(t, sig).type_stack = t.type_stack
         /\ CheckSignature(t, sig).ok =>
              \A i \in DOMAIN sig :
                 LET operand == PeekType(t, Len(sig) - i)
                 IN  operand.ok /\ CheckType(operand.type, sig[i])
<1>1. PICK c \in BOOLEAN :
        c = \A i \in DOMAIN sig : LET operand == PeekType(t, Len(sig) - i)
                                  IN  operand.ok /\ CheckType(operand.type, sig[i])
  OBVIOUS
<1>2. CheckSignature(t, sig) = Check(t, c)
  BY <1>1 DEF CheckSignature
<1>3. PICK u : u = Check(t, c)
  OBVIOUS
<1>4. Within(t, u) /\ u.type_stack = t.type_stack /\ u.ok = (t.ok /\ c)
  BY <1>3, CheckWithin
<1>5. CheckSignature(t, sig) = u
  BY <1>2, <1>3
<1>6. u.ok => c
  BY <1>4
<1> QED
  BY <1>1, <1>4, <1>5, <1>6

LEMMA PopAnyWithin ==
  ASSUME NEW t, Good(t), NEW sig \in Seq(StackType)
  PROVE  Within(t, PopAndCheckSignature(t, sig))
<1>1. PICK u : u = CheckSignature(t, sig)
  OBVIOUS
<1>2. Within(t, u) /\ Good(u)
  BY <1>1, CheckSignatureWithin, WithinGood
<1>3. Within(u, DropTypes(u, Len(sig)))
  BY <1>2, DropWithin, LenProperties
<1> QED
  BY <1>1, <1>2, <1>3, WithinTransitive DEF PopAndCheckSignature

LEMMA PopWithin ==
  ASSUME NEW t, Good(t), NEW sig \in ResultType
  PROVE  Within(t, PopAndCheckSignature(t, sig))
BY PopAnyWithin, ResultsAreOperands

LEMMA CallAnyWithin ==
  ASSUME NEW t, Good(t), NEW params \in Seq(StackType), NEW results \in Seq(StackType)
  PROVE  Within(t, PopAndCheckCall(t, params, results))
<1>1. PICK u : u = PopAndCheckSignature(t, params)
  OBVIOUS
<1>2. Within(t, u) /\ Good(u)
  BY <1>1, PopAnyWithin, WithinGood
<1>3. Within(u, PushTypes(u, results))
  BY <1>2, PushWithin
<1> QED
  BY <1>1, <1>2, <1>3, WithinTransitive DEF PopAndCheckCall

LEMMA CallWithin ==
  ASSUME NEW t, Good(t), NEW params \in ResultType, NEW results \in ResultType
  PROVE  Within(t, PopAndCheckCall(t, params, results))
BY CallAnyWithin, ResultsAreOperands

\* Changing the innermost label: what it stands for and where it begins stay.
SameBlock(l, k) ==
  /\ k.param_types = l.param_types
  /\ k.result_types = l.result_types
  /\ k.type_stack_limit = l.type_stack_limit

LEMMA SetTop ==
  ASSUME NEW t, Good(t), NEW type \in LabelType, NEW flag \in BOOLEAN,
         NEW u, u = SetTopLabel(t, type, flag)
  PROVE  /\ Good(u)
         /\ u.type_stack = t.type_stack
         /\ u.ok = t.ok
         /\ Len(u.label_stack) = Len(t.label_stack)
         /\ \A k \in DOMAIN t.label_stack : k # Len(t.label_stack) => u.label_stack[k] = t.label_stack[k]
         /\ TopLabel(u).label_type = type
         /\ TopLabel(u).unreachable = flag
         /\ SameBlock(TopLabel(t), TopLabel(u))
         /\ Lim(u) = Lim(t)
<1>1. PICK n : n = Len(t.label_stack)
  OBVIOUS
<1>2. /\ t \in Checker /\ t.label_stack \in Seq(Label) /\ n \in 1 .. Len(t.label_stack)
      /\ DOMAIN t.label_stack = 1 .. n /\ t.label_stack[n] \in Label /\ TopLabel(t) = t.label_stack[n]
  BY <1>1, GoodLabels DEF Checker
<1>3. PICK l : l = [t.label_stack[n] EXCEPT !.label_type = type, !.unreachable = flag]
  OBVIOUS
<1>4. l \in Label /\ l.label_type = type /\ l.unreachable = flag /\ SameBlock(t.label_stack[n], l)
  BY <1>2, <1>3 DEF Label, SameBlock
<1>5. PICK ls : ls = [t.label_stack EXCEPT ![n] = l]
  OBVIOUS
<1>6. /\ ls \in Seq(Label) /\ Len(ls) = n
      /\ \A j \in 1 .. n : ls[j] = IF j = n THEN l ELSE t.label_stack[j]
  BY <1>1, <1>2, <1>4, <1>5, ExceptSeq
<1>7. u = [t EXCEPT !.label_stack = ls]
  BY <1>1, <1>2, <1>3, <1>5, Zenon DEF SetTopLabel
<1>8. u \in Checker /\ u.label_stack = ls /\ u.type_stack = t.type_stack /\ u.ok = t.ok
  BY <1>2, <1>6, <1>7 DEF Checker
<1>9. DOMAIN ls = 1 .. n
  BY <1>6, LenProperties
<1>10. \A j \in 1 .. n : ls[j].type_stack_limit = t.label_stack[j].type_stack_limit
  BY <1>4, <1>6 DEF SameBlock
<1>11. Good(u)
  <2>1. Nested(t)
    BY DEF Good, Shape
  <2>2. Nested(u)
    BY <2>1, <1>2, <1>8, <1>9, <1>10 DEF Nested
  <2>3. ls # <<>>
    BY <1>2, <1>6, EmptySeq
  <2> QED
    BY <2>2, <2>3, <1>8 DEF Good, Shape
<1>12. TopLabel(u) = l
  BY <1>1, <1>2, <1>6, <1>8, <1>11, GoodLabels
<1> QED
  BY <1>1, <1>2, <1>4, <1>6, <1>8, <1>11, <1>12 DEF SameBlock, Lim

LEMMA SetUnreachableIs ==
  ASSUME NEW t, Good(t), NEW u, u = SetUnreachable(t)
  PROVE  /\ Good(u)
         /\ u.ok = t.ok
         /\ u.type_stack = SubSeq(t.type_stack, 1, Lim(t))
         /\ Len(u.label_stack) = Len(t.label_stack)
         /\ \A k \in DOMAIN t.label_stack : k # Len(t.label_stack) => u.label_stack[k] = t.label_stack[k]
         /\ TopLabel(u).label_type = TopLabel(t).label_type
         /\ SameBlock(TopLabel(t), TopLabel(u))
         /\ Follows(t, u)
<1>0. PICK type : type = TopLabel(t).label_type
  OBVIOUS
<1>f. PICK flag \in BOOLEAN : flag = TRUE
  OBVIOUS
<1>1. PICK v : v = SetTopLabel(t, type, flag)
  OBVIOUS
<1>2. type \in LabelType
  BY <1>0, GoodLabels DEF Label
<1>3. /\ Good(v) /\ v.type_stack = t.type_stack /\ v.ok = t.ok
      /\ Len(v.label_stack) = Len(t.label_stack)
      /\ \A k \in DOMAIN t.label_stack : k # Len(t.label_stack) => v.label_stack[k] = t.label_stack[k]
      /\ TopLabel(v).label_type = type
      /\ SameBlock(TopLabel(t), TopLabel(v))
      /\ Lim(v) = Lim(t)
  BY <1>1, <1>2, SetTop
<1>4. u = ResetTypeStackToLabel(v)
  BY <1>0, <1>f, <1>1 DEF SetUnreachable
<1>5. Within(v, u) /\ u.type_stack = SubSeq(v.type_stack, 1, Lim(v)) /\ u.ok = v.ok
  BY <1>3, <1>4, ResetWithin
<1>6. Good(u) /\ TopLabel(u) = TopLabel(v) /\ u.label_stack = v.label_stack
  BY <1>3, <1>5, WithinGood DEF Within
<1>7. \A k \in DOMAIN t.label_stack : u.label_stack[k].label_type = t.label_stack[k].label_type
  BY <1>0, <1>3, <1>6, GoodLabels
<1> QED
  BY <1>0, <1>3, <1>5, <1>6, <1>7 DEF Follows, Good

LEMMA UnreachableFollows ==
  ASSUME NEW t, Good(t), NEW u, Within(t, u)
  PROVE  Follows(t, SetUnreachable(u))
<1>1. Good(u) /\ u.label_stack = t.label_stack /\ (u.ok => t.ok)
  BY WithinGood DEF Within
<1>2. Follows(u, SetUnreachable(u))
  BY <1>1, SetUnreachableIs
<1> QED
  BY <1>1, <1>2 DEF Follows

LEMMA OpenIs ==
  ASSUME NEW t, Good(t), NEW type \in LabelType, NEW params \in ResultType, NEW results \in ResultType,
         NEW u, u = OpenLabel(t, type, params, results),
         NEW v, v = PopAndCheckSignature(t, params)
  PROVE  /\ Good(u)
         /\ Within(t, v)
         /\ u.ok => v.ok
         /\ u.type_stack = On(v.type_stack, params)
         /\ Len(u.label_stack) = Len(t.label_stack) + 1
         /\ \A k \in 1 .. Len(t.label_stack) : u.label_stack[k] = t.label_stack[k]
         /\ TopLabel(u) = NewLabel(type, params, results, Len(v.type_stack))
<1>1. Within(t, v)
  BY PopWithin
<1>2. Good(v) /\ v.label_stack = t.label_stack
  BY <1>1, WithinGood DEF Within
<1>3. PICK l : l = NewLabel(type, params, results, Len(v.type_stack))
  OBVIOUS
<1>4. v.type_stack \in Seq(StackType) /\ v.label_stack \in Seq(Label) /\ v \in Checker
      /\ Len(v.type_stack) \in Nat /\ Len(v.label_stack) \in Nat \ {0}
  BY <1>2, GoodLabels DEF Checker
<1>5. l \in Label /\ l.type_stack_limit = Len(v.type_stack)
  <2>1. PICK flag \in BOOLEAN : flag = FALSE
    OBVIOUS
  <2>2. l = [label_type |-> type, param_types |-> params, result_types |-> results,
             type_stack_limit |-> Len(v.type_stack), unreachable |-> flag]
    BY <1>3, <2>1 DEF NewLabel
  <2> QED
    BY <1>4, <2>2 DEF Label
<1>6. PICK ls : ls = Append(v.label_stack, l)
  OBVIOUS
<1>7. /\ ls \in Seq(Label) /\ ls # <<>> /\ Len(ls) = Len(v.label_stack) + 1
      /\ \A k \in 1 .. Len(v.label_stack) : ls[k] = v.label_stack[k]
      /\ ls[Len(v.label_stack) + 1] = l
  BY <1>4, <1>5, <1>6, AppendProperties
<1>8. PICK w : w = [v EXCEPT !.label_stack = ls]
  OBVIOUS
<1>9. w \in Checker /\ w.label_stack = ls /\ w.type_stack = v.type_stack /\ w.ok = v.ok
  BY <1>4, <1>7, <1>8 DEF Checker
<1>10. Nested(w)
  <2>1. DOMAIN ls = 1 .. Len(v.label_stack) + 1 /\ DOMAIN v.label_stack = 1 .. Len(v.label_stack)
    BY <1>4, <1>7, LenProperties
  <2>2. \A k \in DOMAIN ls : ls[k].type_stack_limit <= Len(v.type_stack)
    <3> SUFFICES ASSUME NEW k \in DOMAIN ls
                 PROVE  ls[k].type_stack_limit <= Len(v.type_stack)
      OBVIOUS
    <3>1. CASE k = Len(v.label_stack) + 1
      BY <3>1, <1>4, <1>5, <1>7
    <3>2. CASE k # Len(v.label_stack) + 1
      <4>1. k \in DOMAIN v.label_stack /\ ls[k] = v.label_stack[k]
        BY <3>2, <2>1, <1>4, <1>7
      <4> QED
        BY <4>1, <1>2 DEF Good, Shape, Nested
    <3> QED
      BY <3>1, <3>2
  <2>3. \A j, k \in DOMAIN ls : j < k => ls[j].type_stack_limit <= ls[k].type_stack_limit
    <3> SUFFICES ASSUME NEW j \in DOMAIN ls, NEW k \in DOMAIN ls, j < k
                 PROVE  ls[j].type_stack_limit <= ls[k].type_stack_limit
      OBVIOUS
    <3>1. CASE k = Len(v.label_stack) + 1
      BY <3>1, <1>5, <1>7, <2>2
    <3>2. CASE k # Len(v.label_stack) + 1
      <4>1. j \in DOMAIN v.label_stack /\ k \in DOMAIN v.label_stack
        BY <3>2, <2>1, <1>4
      <4> QED
        BY <4>1, <1>2, <1>7, <2>1 DEF Good, Shape, Nested
    <3> QED
      BY <3>1, <3>2
  <2> QED
    BY <1>9, <2>2, <2>3 DEF Nested
<1>11. Good(w) /\ TopLabel(w) = l
  <2>1. Good(w)
    BY <1>7, <1>9, <1>10 DEF Good, Shape
  <2> QED
    BY <2>1, <1>7, <1>9, GoodLabels
<1>12. u = PushTypes(w, params)
  BY <1>3, <1>6, <1>8 DEF OpenLabel, PushLabel
<1>13. Within(w, u) /\ u.type_stack = w.type_stack \o params /\ u.ok = w.ok
  BY <1>11, <1>12, PushWithin, ResultsAreOperands
<1>14. Good(u) /\ TopLabel(u) = TopLabel(w) /\ u.label_stack = w.label_stack
  BY <1>11, <1>13, WithinGood DEF Within
<1>15. u.type_stack = On(v.type_stack, params) /\ (u.ok => v.ok)
  BY <1>9, <1>13 DEF On
<1>16. TopLabel(u) = NewLabel(type, params, results, Len(v.type_stack))
  BY <1>3, <1>11, <1>14
<1> QED
  BY <1>1, <1>2, <1>7, <1>9, <1>14, <1>15, <1>16

LEMMA PopLabelIs ==
  ASSUME NEW t, Good(t), NEW u, u = PopLabel(t)
  PROVE  /\ Shape(u)
         /\ u.ok = t.ok
         /\ u.type_stack = t.type_stack
         /\ Len(u.label_stack) = Len(t.label_stack) - 1
         /\ \A k \in 1 .. Len(t.label_stack) - 1 : u.label_stack[k] = t.label_stack[k]
<1>1. PICK n : n = Len(t.label_stack) - 1
  OBVIOUS
<1>2. /\ n \in Nat /\ n <= Len(t.label_stack) /\ t \in Checker /\ t.label_stack \in Seq(Label)
      /\ DOMAIN t.label_stack = 1 .. Len(t.label_stack) /\ Len(t.label_stack) \in Nat
  BY <1>1, GoodLabels DEF Checker
<1>3. PICK ls : ls = SubSeq(t.label_stack, 1, n)
  OBVIOUS
<1>4. ls \in Seq(Label) /\ Len(ls) = n /\ \A k \in 1 .. n : ls[k] = t.label_stack[k]
  BY <1>2, <1>3, Prefix
<1>5. DOMAIN ls = 1 .. n
  BY <1>4, LenProperties
<1>6. u = [t EXCEPT !.label_stack = ls]
  BY <1>1, <1>3 DEF PopLabel
<1>7. u \in Checker /\ u.label_stack = ls /\ u.type_stack = t.type_stack /\ u.ok = t.ok
  BY <1>2, <1>4, <1>6 DEF Checker
<1>8. Nested(t)
  BY DEF Good, Shape
<1>9. \A k \in 1 .. n : k \in DOMAIN t.label_stack
  BY <1>2
<1>10. Nested(u)
  BY <1>4, <1>5, <1>7, <1>8, <1>9 DEF Nested
<1> QED
  BY <1>1, <1>4, <1>7, <1>10 DEF Shape

\* The block's results, and nothing else, are on the stack.
Complete(t) ==
  LET popped == PopAndCheckSignature(t, TopLabel(t).result_types)
  IN  popped.ok /\ Len(popped.type_stack) = Lim(t)

LEMMA TopTypes ==
  ASSUME NEW t, Good(t)
  PROVE  TopLabel(t).param_types \in ResultType /\ TopLabel(t).result_types \in ResultType
BY GoodLabels DEF Label

LEMMA LeaveIs ==
  ASSUME NEW t, Good(t), NEW c \in BOOLEAN,
         NEW u, u = ResetTypeStackToLabel(
                      Check(CheckTypeStackEnd(PopAndCheckSignature(t, TopLabel(t).result_types)), c))
  PROVE  /\ Within(t, u)
         /\ u.type_stack = SubSeq(t.type_stack, 1, Lim(t))
         /\ u.ok => Complete(t) /\ c
<1>1. PICK p : p = PopAndCheckSignature(t, TopLabel(t).result_types)
  OBVIOUS
<1>2. Within(t, p) /\ Good(p) /\ Lim(p) = Lim(t)
  BY <1>1, PopWithin, TopTypes, WithinGood
<1>3. PICK d \in BOOLEAN : d = (Len(p.type_stack) = Lim(p))
  OBVIOUS
<1>4. PICK q : q = Check(p, d)
  OBVIOUS
<1>5. Within(p, q) /\ q.ok = (p.ok /\ d) /\ q.type_stack = p.type_stack
  BY <1>2, <1>4, CheckWithin
<1>6. Good(q) /\ Lim(q) = Lim(p)
  BY <1>2, <1>5, WithinGood
<1>7. q = CheckTypeStackEnd(p)
  BY <1>3, <1>4 DEF CheckTypeStackEnd, Lim
<1>8. PICK r : r = Check(q, c)
  OBVIOUS
<1>9. Within(q, r) /\ r.ok = (q.ok /\ c) /\ r.type_stack = q.type_stack
  BY <1>6, <1>8, CheckWithin
<1>10. Good(r) /\ Lim(r) = Lim(q)
  BY <1>6, <1>9, WithinGood
<1>11. u = ResetTypeStackToLabel(r)
  BY <1>1, <1>7, <1>8
<1>12. Within(r, u) /\ u.type_stack = SubSeq(r.type_stack, 1, Lim(r)) /\ u.ok = r.ok
  BY <1>10, <1>11, ResetWithin
<1>13. Within(t, u)
  BY <1>2, <1>5, <1>6, <1>9, <1>10, <1>12, WithinTransitive
<1>14. u.type_stack = SubSeq(t.type_stack, 1, Lim(t))
  BY <1>2, <1>5, <1>6, <1>9, <1>10, <1>12 DEF Within
<1>15. u.ok => Complete(t) /\ c
  BY <1>1, <1>2, <1>3, <1>5, <1>9, <1>12 DEF Complete
<1> QED
  BY <1>13, <1>14, <1>15

LEMMA EndIs ==
  ASSUME NEW t, Good(t), NEW u, u = EndLabel(t)
  PROVE  /\ Shape(u)
         /\ u.ok => t.ok /\ Complete(t)
         /\ u.type_stack = SubSeq(t.type_stack, 1, Lim(t)) \o TopLabel(t).result_types
         /\ Len(u.label_stack) = Len(t.label_stack) - 1
         /\ \A k \in 1 .. Len(t.label_stack) - 1 : u.label_stack[k] = t.label_stack[k]
<1>1. PICK results : results = TopLabel(t).result_types
  OBVIOUS
<1>2. results \in ResultType /\ results \in Seq(StackType)
  BY <1>1, TopTypes, ResultsAreOperands
<1>3. PICK p : p = PopAndCheckSignature(t, results)
  OBVIOUS
<1>4. Within(t, p) /\ Good(p) /\ Lim(p) = Lim(t)
  BY <1>2, <1>3, PopWithin, WithinGood
<1>5. PICK d \in BOOLEAN : d = (Len(p.type_stack) = Lim(p))
  OBVIOUS
<1>6. PICK q : q = Check(p, d)
  OBVIOUS
<1>7. Within(p, q) /\ q.ok = (p.ok /\ d) /\ q.type_stack = p.type_stack
  BY <1>4, <1>6, CheckWithin
<1>8. Good(q) /\ Lim(q) = Lim(p) /\ q = CheckTypeStackEnd(p)
  BY <1>4, <1>5, <1>6, <1>7, WithinGood DEF CheckTypeStackEnd, Lim
<1>9. PICK r : r = ResetTypeStackToLabel(q)
  OBVIOUS
<1>10. Within(q, r) /\ r.type_stack = SubSeq(q.type_stack, 1, Lim(q)) /\ r.ok = q.ok /\ Good(r)
  BY <1>8, <1>9, ResetWithin, WithinGood
<1>11. PICK s : s = PushTypes(r, results)
  OBVIOUS
<1>12. Within(r, s) /\ s.type_stack = r.type_stack \o results /\ s.ok = r.ok /\ Good(s)
  BY <1>2, <1>10, <1>11, PushWithin, WithinGood
<1>13. u = PopLabel(s)
  BY <1>1, <1>3, <1>8, <1>9, <1>11 DEF EndLabel
<1>14. s.label_stack = t.label_stack
  BY <1>4, <1>7, <1>10, <1>12 DEF Within
<1>15. u.ok = s.ok /\ Shape(u) /\ u.type_stack = s.type_stack
       /\ Len(u.label_stack) = Len(s.label_stack) - 1
       /\ \A k \in 1 .. Len(s.label_stack) - 1 : u.label_stack[k] = s.label_stack[k]
  BY <1>12, <1>13, PopLabelIs
<1>16. r.type_stack = SubSeq(t.type_stack, 1, Lim(t))
  BY <1>4, <1>7, <1>8, <1>10 DEF Within
<1>17. u.ok => t.ok /\ Complete(t)
  BY <1>1, <1>3, <1>4, <1>5, <1>7, <1>10, <1>12, <1>15 DEF Within, Complete
<1> QED
  BY <1>1, <1>12, <1>14, <1>15, <1>16, <1>17

LEMMA ElseIs ==
  ASSUME NEW t, Good(t), NEW u, u = OnElse(t)
  PROVE  /\ Good(u)
         /\ u.ok => t.ok /\ Complete(t) /\ TopLabel(t).label_type = "if"
         /\ u.type_stack = SubSeq(t.type_stack, 1, Lim(t)) \o TopLabel(t).param_types
         /\ Len(u.label_stack) = Len(t.label_stack)
         /\ \A k \in DOMAIN t.label_stack : k # Len(t.label_stack) => u.label_stack[k] = t.label_stack[k]
         /\ TopLabel(u).label_type = "else"
         /\ ~TopLabel(u).unreachable
         /\ SameBlock(TopLabel(t), TopLabel(u))
<1>1. PICK params : params = TopLabel(t).param_types
  OBVIOUS
<1>2. params \in ResultType /\ params \in Seq(StackType)
  BY <1>1, TopTypes, ResultsAreOperands
<1>3. PICK c \in BOOLEAN : c = (TopLabel(t).label_type = "if")
  OBVIOUS
<1>4. PICK r : r = ResetTypeStackToLabel(
                     Check(CheckTypeStackEnd(PopAndCheckSignature(t, TopLabel(t).result_types)), c))
  OBVIOUS
<1>5. Within(t, r) /\ r.type_stack = SubSeq(t.type_stack, 1, Lim(t)) /\ (r.ok => Complete(t) /\ c)
  BY <1>4, LeaveIs
<1>6. Good(r) /\ (r.ok => t.ok)
  BY <1>5, WithinGood DEF Within
<1>7. PICK s : s = PushTypes(r, params)
  OBVIOUS
<1>8. Within(r, s) /\ s.type_stack = r.type_stack \o params /\ s.ok = r.ok
  BY <1>2, <1>6, <1>7, PushWithin
<1>9. Within(t, s) /\ Good(s) /\ TopLabel(s) = TopLabel(t) /\ s.label_stack = t.label_stack
  BY <1>5, <1>6, <1>8, WithinTransitive, WithinGood DEF Within
<1>10. PICK type \in LabelType : type = "else"
  BY DEF LabelType
<1>11. PICK flag \in BOOLEAN : flag = FALSE
  OBVIOUS
<1>12. u = SetTopLabel(s, type, flag)
  BY <1>1, <1>3, <1>4, <1>7, <1>10, <1>11 DEF OnElse
<1>13. /\ Good(u) /\ u.type_stack = s.type_stack /\ u.ok = s.ok
       /\ Len(u.label_stack) = Len(s.label_stack)
       /\ \A k \in DOMAIN s.label_stack : k # Len(s.label_stack) => u.label_stack[k] = s.label_stack[k]
       /\ TopLabel(u).label_type = type /\ TopLabel(u).unreachable = flag
       /\ SameBlock(TopLabel(s), TopLabel(u))
  BY <1>9, <1>12, SetTop
<1> QED
  BY <1>1, <1>3, <1>5, <1>6, <1>8, <1>9, <1>10, <1>11, <1>13

LEMMA CatchIs ==
  ASSUME NEW t, Good(t), NEW sig \in ResultType, NEW u, u = OnCatch(t, sig)
  PROVE  /\ Good(u)
         /\ u.ok => t.ok /\ Complete(t) /\ TopLabel(t).label_type \in {"try", "catch"}
         /\ u.type_stack = SubSeq(t.type_stack, 1, Lim(t)) \o sig
         /\ Len(u.label_stack) = Len(t.label_stack)
         /\ \A k \in DOMAIN t.label_stack : k # Len(t.label_stack) => u.label_stack[k] = t.label_stack[k]
         /\ TopLabel(u).label_type = "catch"
         /\ ~TopLabel(u).unreachable
         /\ SameBlock(TopLabel(t), TopLabel(u))
<1>0. (TopLabel(t).label_type \in {"try", "catch"}) \in BOOLEAN
  OBVIOUS
<1>1. PICK c \in BOOLEAN : c = (TopLabel(t).label_type \in {"try", "catch"})
  BY <1>0
<1>2. PICK r : r = ResetTypeStackToLabel(
                     Check(CheckTypeStackEnd(PopAndCheckSignature(t, TopLabel(t).result_types)), c))
  OBVIOUS
<1>3. Within(t, r) /\ r.type_stack = SubSeq(t.type_stack, 1, Lim(t)) /\ (r.ok => Complete(t) /\ c)
  BY <1>2, LeaveIs
<1>4. Good(r) /\ TopLabel(r) = TopLabel(t) /\ r.label_stack = t.label_stack /\ (r.ok => t.ok)
  BY <1>3, WithinGood DEF Within
<1>5. PICK type \in LabelType : type = "catch"
  BY DEF LabelType
<1>6. PICK flag \in BOOLEAN : flag = FALSE
  OBVIOUS
<1>7. PICK s : s = SetTopLabel(r, type, flag)
  OBVIOUS
<1>8. /\ Good(s) /\ s.type_stack = r.type_stack /\ s.ok = r.ok
      /\ Len(s.label_stack) = Len(r.label_stack)
      /\ \A k \in DOMAIN r.label_stack : k # Len(r.label_stack) => s.label_stack[k] = r.label_stack[k]
      /\ TopLabel(s).label_type = type /\ TopLabel(s).unreachable = flag
      /\ SameBlock(TopLabel(r), TopLabel(s))
  BY <1>4, <1>7, SetTop
<1>9. u = PushTypes(s, sig)
  BY <1>1, <1>2, <1>5, <1>6, <1>7 DEF OnCatch
<1>10. Within(s, u) /\ u.type_stack = s.type_stack \o sig /\ u.ok = s.ok
  BY <1>8, <1>9, PushWithin, ResultsAreOperands
<1>11. Good(u) /\ TopLabel(u) = TopLabel(s) /\ u.label_stack = s.label_stack
  BY <1>8, <1>10, WithinGood DEF Within
<1> QED
  BY <1>1, <1>3, <1>4, <1>5, <1>6, <1>8, <1>10, <1>11

LEMMA Forget ==
  ASSUME NEW t, Good(t), NEW b \in BOOLEAN, NEW u, u = [t EXCEPT !.ok = b]
  PROVE  /\ Good(u) /\ u.ok = b /\ u.type_stack = t.type_stack /\ u.label_stack = t.label_stack
         /\ b = t.ok => u = t
<1>1. t \in Checker
  BY GoodLabels
<1>2. u \in Checker /\ u.ok = b /\ u.type_stack = t.type_stack /\ u.label_stack = t.label_stack
  BY <1>1 DEF Checker
<1>3. Good(u)
  BY <1>2, NestedAbove, GoodLabels
<1>4. b = t.ok => u = t
  BY <1>1 DEF Checker
<1> QED
  BY <1>2, <1>3, <1>4

\* OnEnd closes the block, unless an if without an else does not pass OnElse.
LEMMA OnEndIs ==
  ASSUME NEW t, Good(t), NEW u, u = OnEnd(t)
  PROVE  /\ Shape(u)
         /\ u.ok => t.ok
         /\ Len(u.label_stack) >= Len(t.label_stack) - 1
         /\ u.ok => IF TopLabel(t).label_type = "if"
                    THEN OnElse(t).ok /\ u = EndLabel(OnElse(t))
                    ELSE u = EndLabel(t)
<1>0. Len(t.label_stack) \in Nat
  BY GoodLabels
<1>1. CASE TopLabel(t).label_type # "if"
  <2>1. u = EndLabel(t)
    BY <1>1 DEF OnEnd
  <2> QED
    BY <1>0, <1>1, <2>1, EndIs
<1>2. CASE TopLabel(t).label_type = "if"
  <2>1. PICK flag \in BOOLEAN : flag = TRUE
    OBVIOUS
  <2>2. PICK t1 : t1 = [t EXCEPT !.ok = flag]
    OBVIOUS
  <2>3. Good(t1) /\ t1.label_stack = t.label_stack /\ (flag = t.ok => t1 = t)
    BY <2>2, Forget
  <2>4. PICK branch : branch = OnElse(t1)
    OBVIOUS
  <2>5. Good(branch) /\ Len(branch.label_stack) = Len(t.label_stack)
    BY <2>3, <2>4, ElseIs
  <2>6. branch = OnElse([t EXCEPT !.ok = TRUE])
    BY <2>1, <2>2, <2>4
  <2>7. u = IF ~branch.ok THEN branch ELSE EndLabel([branch EXCEPT !.ok = t.ok])
    BY <1>2, <2>6 DEF OnEnd
  <2>8. CASE ~branch.ok
    BY <1>0, <2>5, <2>7, <2>8 DEF Good
  <2>9. CASE branch.ok
    <3>1. PICK b2 : b2 = [branch EXCEPT !.ok = t.ok]
      OBVIOUS
    <3>2. t.ok \in BOOLEAN /\ branch.ok \in BOOLEAN
      BY <2>5, GoodLabels DEF Checker
    <3>3. Good(b2) /\ b2.ok = t.ok /\ b2.label_stack = branch.label_stack /\ (t.ok = branch.ok => b2 = branch)
      BY <3>1, <3>2, <2>5, Forget
    <3>4. u = EndLabel(b2)
      BY <2>7, <2>9, <3>1
    <3>5. Shape(u) /\ (u.ok => b2.ok) /\ Len(u.label_stack) = Len(b2.label_stack) - 1
      BY <3>3, <3>4, EndIs
    <3>6. u.ok => OnElse(t).ok /\ u = EndLabel(OnElse(t))
      BY <2>1, <2>3, <2>4, <2>9, <3>2, <3>3, <3>4, <3>5
    <3> QED
      BY <1>0, <1>2, <2>5, <3>3, <3>5, <3>6
  <2> QED
    BY <2>8, <2>9
<1> QED
  BY <1>1, <1>2

LEMMA DelegateIs ==
  ASSUME NEW t, Good(t), NEW depth \in Nat, NEW u, u = OnDelegate(t, depth)
  PROVE  /\ Shape(u)
         /\ u.ok => t.ok
         /\ Len(u.label_stack) >= Len(t.label_stack) - 1
         /\ u.ok => u = EndLabel(t)
<1>0. Len(t.label_stack) \in Nat /\ t \in Checker
  BY GoodLabels
<1>1. CASE ~HasLabel(t, depth + 1)
  <2>1. PICK c \in BOOLEAN : c = FALSE
    OBVIOUS
  <2>2. u = Check(t, c)
    BY <1>1, <2>1 DEF OnDelegate, Error
  <2>3. Within(t, u) /\ ~u.ok
    BY <2>1, <2>2, CheckWithin
  <2> QED
    BY <1>0, <2>3 DEF Within
<1>2. CASE HasLabel(t, depth + 1)
  <2>1. PICK c \in BOOLEAN : c = (TopLabel(t).label_type = "try")
    OBVIOUS
  <2>2. PICK v : v = Check(t, c)
    OBVIOUS
  <2>3. Within(t, v) /\ Good(v) /\ (v.ok => v = t)
    BY <2>2, CheckIs
  <2>4. u = EndLabel(v)
    BY <1>2, <2>1, <2>2 DEF OnDelegate
  <2>5. Shape(u) /\ (u.ok => v.ok) /\ Len(u.label_stack) = Len(v.label_stack) - 1
    BY <2>3, <2>4, EndIs
  <2>6. v.label_stack = t.label_stack /\ (v.ok => t.ok)
    BY <2>3 DEF Within
  <2> QED
    BY <1>0, <2>3, <2>4, <2>5, <2>6
<1> QED
  BY <1>1, <1>2

-----------------------------------------------------------------------------
(* The same, instruction by instruction                                     *)

LEMMA ErrorIs ==
  ASSUME NEW t, Good(t)
  PROVE  Within(t, Error(t)) /\ ~Error(t).ok
<1>1. PICK c \in BOOLEAN : c = FALSE
  OBVIOUS
<1> QED
  BY <1>1, CheckWithin DEF Error

LEMMA OneType ==
  /\ \A v \in ValueType : <<v>> \in ResultType /\ Len(<<v>>) = 1 /\ <<v>>[1] = v
  /\ "i32" \in ValueType /\ "i64" \in ValueType
  /\ \A is_64 \in BOOLEAN : IndexType(is_64) \in ValueType
  /\ <<>> \in ResultType /\ Len(<<>>) = 0
BY EmptySeq DEF ResultType, ValueType, IndexType

LEMMA I32 == <<"i32">> \in ResultType /\ Len(<<"i32">>) = 1
BY OneType

LEMMA TypesOf ==
  ASSUME NEW v \in ValueType, NEW w \in ValueType, NEW x \in ValueType
  PROVE  <<v, w>> \in ResultType /\ <<v, w, x>> \in ResultType
BY DEF ResultType

LEMMA PeekIs ==
  ASSUME NEW t, Good(t), NEW d \in Nat
  PROVE  /\ PeekType(t, d).type \in StackType /\ PeekType(t, d).ok \in BOOLEAN
         /\ PeekType(t, d).ok /\ ~TopLabel(t).unreachable =>
              /\ Lim(t) + d < Len(t.type_stack)
              /\ PeekType(t, d).type = t.type_stack[Len(t.type_stack) - d]
<1>1. /\ t.type_stack \in Seq(StackType) /\ Lim(t) \in Nat /\ Len(t.type_stack) \in Nat
      /\ TopLabel(t).unreachable \in BOOLEAN
  BY GoodLabels DEF Checker, Label
<1>2. CASE Lim(t) + d >= Len(t.type_stack)
  BY <1>1, <1>2 DEF PeekType, Lim, StackType
<1>3. CASE ~(Lim(t) + d >= Len(t.type_stack))
  <2>1. Len(t.type_stack) - d \in 1 .. Len(t.type_stack)
    BY <1>1, <1>3
  <2>2. t.type_stack[Len(t.type_stack) - d] \in StackType
    BY <1>1, <2>1, ElementOfSeq
  <2>3. PeekType(t, d) = [type |-> t.type_stack[Len(t.type_stack) - d], ok |-> TRUE]
    BY <1>3 DEF PeekType, Lim
  <2> QED
    BY <1>1, <1>3, <2>2, <2>3
<1> QED
  BY <1>2, <1>3

LEMMA BrFollows ==
  ASSUME NEW t, Good(t), NEW depth \in Nat
  PROVE  Follows(t, OnBr(t, depth))
<1>1. CASE ~HasLabel(t, depth)
  BY <1>1, ErrorIs, WithinFollows DEF OnBr
<1>2. CASE HasLabel(t, depth)
  BY <1>2, CheckSignatureWithin, UnreachableFollows DEF OnBr
<1> QED
  BY <1>1, <1>2

LEMMA BrIfWithin ==
  ASSUME NEW t, Good(t), NEW depth \in Nat
  PROVE  Within(t, OnBrIf(t, depth))
<1>1. PICK p : p = PopAndCheckSignature(t, <<"i32">>)
  OBVIOUS
<1>2. Within(t, p) /\ Good(p)
  BY <1>1, PopWithin, I32, WithinGood
<1>3. CASE ~HasLabel(t, depth)
  <2>1. OnBrIf(t, depth) = Error(p)
    BY <1>1, <1>3 DEF OnBrIf
  <2> QED
    BY <1>2, <2>1, ErrorIs, WithinTransitive
<1>4. CASE HasLabel(t, depth)
  <2>1. PICK types \in ResultType : types = br_types(GetLabel(t, depth))
    BY <1>4, GetLabelIs
  <2>2. OnBrIf(t, depth) = PopAndCheckCall(p, types, types)
    BY <1>1, <1>4, <2>1 DEF OnBrIf, PopAndCheckCall
  <2> QED
    BY <1>2, <2>1, <2>2, CallWithin, WithinTransitive
<1> QED
  BY <1>3, <1>4

LEMMA BrTableTargetWithin ==
  ASSUME NEW t, Good(t), NEW depth \in Nat, NEW first \in BOOLEAN, NEW sig
  PROVE  Within(t, OnBrTableTarget(t, depth, first, sig))
<1>1. CASE ~HasLabel(t, depth)
  BY <1>1, ErrorIs DEF OnBrTableTarget
<1>2. CASE HasLabel(t, depth)
  <2>1. PICK types : types = br_types(GetLabel(t, depth))
    OBVIOUS
  <2>2. PICK p : p = CheckSignature(t, types)
    OBVIOUS
  <2>3. Within(t, p) /\ Good(p)
    BY <2>2, CheckSignatureWithin, WithinGood
  <2>4. PICK c \in BOOLEAN : c = (first \/ Len(sig) = Len(types))
    OBVIOUS
  <2>5. OnBrTableTarget(t, depth, first, sig) = Check(p, c)
    BY <1>2, <2>1, <2>2, <2>4 DEF OnBrTableTarget
  <2> QED
    BY <2>3, <2>5, CheckWithin, WithinTransitive
<1> QED
  BY <1>1, <1>2

LEMMA FunctionResults ==
  ASSUME NEW t, Good(t)
  PROVE  ThisFunctionLabel(t) \in Label /\ ThisFunctionLabel(t).result_types \in ResultType
BY GoodLabels DEF ThisFunctionLabel, Label

LEMMA ReturnFollows ==
  ASSUME NEW t, Good(t)
  PROVE  Follows(t, OnReturn(t))
BY FunctionResults, PopWithin, UnreachableFollows DEF OnReturn

LEMMA CallIndirectWithin ==
  ASSUME NEW t, Good(t), NEW params \in ResultType, NEW results \in ResultType, NEW index \in ValueType
  PROVE  Within(t, OnCallIndirect(t, params, results, index))
<1>1. PICK p : p = PopAndCheckSignature(t, <<index>>)
  OBVIOUS
<1>2. Within(t, p) /\ Good(p)
  BY <1>1, PopWithin, OneType, WithinGood
<1>3. Within(p, PopAndCheckCall(p, params, results))
  BY <1>2, CallWithin
<1> QED
  BY <1>1, <1>2, <1>3, WithinTransitive DEF OnCallIndirect

LEMMA ReturnCallFollows ==
  ASSUME NEW t, Good(t), NEW u, Within(t, u), NEW params \in ResultType, NEW results
  PROVE  Follows(t, OnReturnCall(u, params, results))
<1>0. Good(u)
  BY WithinGood
<1>1. PICK p : p = PopAndCheckSignature(u, params)
  OBVIOUS
<1>2. Within(u, p) /\ Good(p)
  BY <1>0, <1>1, PopWithin, WithinGood
<1>3. CheckTypes(results, ThisFunctionLabel(u).result_types) \in BOOLEAN
  BY DEF CheckTypes
<1>4. PICK c \in BOOLEAN : c = CheckTypes(results, ThisFunctionLabel(u).result_types)
  BY <1>3
<1>5. PICK q : q = Check(p, c)
  OBVIOUS
<1>6. Within(t, q)
  BY <1>0, <1>2, <1>5, CheckWithin, WithinTransitive
<1>7. OnReturnCall(u, params, results) = SetUnreachable(q)
  BY <1>1, <1>4, <1>5 DEF OnReturnCall
<1> QED
  BY <1>6, <1>7, UnreachableFollows

LEMMA ReturnCallIndirectFollows ==
  ASSUME NEW t, Good(t), NEW params \in ResultType, NEW results
  PROVE  Follows(t, OnReturnCallIndirect(t, params, results))
BY PopWithin, I32, ReturnCallFollows DEF OnReturnCallIndirect

LEMMA ThrowFollows ==
  ASSUME NEW t, Good(t), NEW sig \in ResultType
  PROVE  Follows(t, OnThrow(t, sig))
BY PopWithin, UnreachableFollows DEF OnThrow

LEMMA RethrowFollows ==
  ASSUME NEW t, Good(t), NEW depth
  PROVE  Follows(t, OnRethrow(t, depth))
<1>1. CASE IsRethrowLabel(t, depth)
  BY <1>1, WithinItself, UnreachableFollows DEF OnRethrow
<1>2. CASE ~IsRethrowLabel(t, depth)
  BY <1>2, ErrorIs, WithinFollows DEF OnRethrow
<1> QED
  BY <1>1, <1>2

LEMMA ReplaceWithin ==
  ASSUME NEW t, Good(t), NEW c \in BOOLEAN, NEW n \in Nat, NEW types \in Seq(StackType)
  PROVE  Within(t, PushTypes(DropTypes(Check(t, c), n), types))
<1>1. PICK u : u = Check(t, c)
  OBVIOUS
<1>2. Within(t, u) /\ Good(u)
  BY <1>1, CheckIs
<1>3. PICK v : v = DropTypes(u, n)
  OBVIOUS
<1>4. Within(u, v) /\ Good(v)
  BY <1>2, <1>3, DropWithin, WithinGood
<1>5. Within(v, PushTypes(v, types))
  BY <1>4, PushWithin
<1> QED
  BY <1>1, <1>2, <1>3, <1>4, <1>5, WithinTransitive

LEMMA RefIsNullWithin ==
  ASSUME NEW t, Good(t)
  PROVE  Within(t, OnRefIsNull(t))
<1>1. PICK c : c = (PeekType(t, 0).ok /\ (PeekType(t, 0).type = AnyType \/ IsRef(PeekType(t, 0).type)))
  OBVIOUS
<1>2. c \in BOOLEAN
  BY <1>1
<1>3. OnRefIsNull(t) = PushTypes(DropTypes(Check(t, c), 1), <<"i32">>)
  BY <1>1 DEF OnRefIsNull
<1> QED
  BY <1>2, <1>3, ReplaceWithin, I32, ResultsAreOperands

LEMMA IndexedFuncRefWithin ==
  ASSUME NEW t, Good(t)
  PROVE  Within(t, OnIndexedFuncRef(t))
<1>1. PICK c : c = (PeekType(t, 0).type = AnyType \/ IsReferenceWithIndex(PeekType(t, 0).type))
  OBVIOUS
<1>2. c \in BOOLEAN
  BY <1>1
<1>3. OnIndexedFuncRef(t) = IF ~PeekType(t, 0).ok THEN Error(t) ELSE DropTypes(Check(t, c), 1)
  BY <1>1 DEF OnIndexedFuncRef
<1>4. Within(t, DropTypes(Check(t, c), 1))
  <2>1. PICK u : u = Check(t, c)
    OBVIOUS
  <2>2. Within(t, u) /\ Good(u)
    BY <1>2, <2>1, CheckIs
  <2>3. Within(u, DropTypes(u, 1))
    BY <2>2, DropWithin
  <2> QED
    BY <2>1, <2>2, <2>3, WithinTransitive
<1> QED
  BY <1>3, <1>4, ErrorIs

\* What a select asks of its operands, and what it leaves.
SelectMatch(t, expected) ==
  LET type1   == PeekType(t, 1)
      type2   == PeekType(t, 2)
      cond    == PeekType(t, 0)
      present == /\ cond.ok /\ type1.ok /\ type2.ok
                 /\ CheckType(cond.type, "i32")
  IN  IF expected = <<>>
      THEN /\ ~IsRef(type1.type) /\ ~IsRef(type2.type)
           /\ present /\ CheckType(type1.type, type2.type)
      ELSE /\ present
           /\ CheckType(type1.type, expected[1]) /\ CheckType(type2.type, expected[1])

SelectResult(t, expected) ==
  IF expected = <<>> /\ ~IsRef(PeekType(t, 1).type) /\ ~IsRef(PeekType(t, 2).type)
  THEN PeekType(t, 1).type ELSE AnyType

LEMMA SelectIs ==
  ASSUME NEW t, NEW expected
  PROVE  OnSelect(t, expected)
           = PushTypes(DropTypes(Check(t, SelectMatch(t, expected)), 3), <<SelectResult(t, expected)>>)
BY DEF OnSelect, SelectMatch, SelectResult

LEMMA SelectWithin ==
  ASSUME NEW t, Good(t), NEW expected
  PROVE  Within(t, OnSelect(t, expected))
<1>1. SelectMatch(t, expected) \in BOOLEAN
  BY DEF SelectMatch
<1>2. PICK c \in BOOLEAN : c = SelectMatch(t, expected)
  BY <1>1
<1>3. PICK r \in StackType : r = SelectResult(t, expected)
  BY PeekIs DEF SelectResult, StackType
<1>4. <<r>> \in Seq(StackType)
  BY OneSeq
<1> QED
  BY <1>2, <1>3, <1>4, SelectIs, ReplaceWithin

-----------------------------------------------------------------------------
(* The labels and the caller's blocks                                       *)

LEMMA CoveredGood ==
  ASSUME NEW t, Shape(t), NEW blocks \in Seq(LabelType), blocks # <<>>, Covered(t, blocks)
  PROVE  Good(t)
<1>1. Len(blocks) \in Nat \ {0}
  BY EmptySeq
<1>2. t.label_stack # <<>>
  BY <1>1, EmptySeq DEF Covered
<1> QED
  BY <1>2 DEF Good

LEMMA CoveredFollows ==
  ASSUME NEW t, Shape(t), NEW blocks \in Seq(LabelType), Covered(t, blocks), NEW u, Follows(t, u)
  PROVE  Covered(u, blocks)
<1>1. DOMAIN blocks = 1 .. Len(blocks) /\ Len(blocks) \in Nat
  BY LenProperties
<1>2. DOMAIN t.label_stack = 1 .. Len(t.label_stack) /\ Len(t.label_stack) \in Nat
  BY LenProperties DEF Shape, Checker
<1> QED
  BY <1>1, <1>2 DEF Covered, Follows

LEMMA CoveredOpen ==
  ASSUME NEW t, Shape(t), NEW blocks \in Seq(LabelType), blocks # <<>>, Covered(t, blocks),
         NEW kind \in LabelType, NEW u, u.ok => t.ok,
         Len(u.label_stack) = Len(t.label_stack) + 1,
         \A k \in 1 .. Len(t.label_stack) : u.label_stack[k] = t.label_stack[k],
         u.label_stack[Len(u.label_stack)].label_type = kind
  PROVE  Covered(u, Append(blocks, kind))
<1>1. DOMAIN blocks = 1 .. Len(blocks) /\ Len(blocks) \in Nat
  BY LenProperties
<1>2. Len(t.label_stack) \in Nat
  BY LenProperties DEF Shape, Checker
<1>3. PICK b : b = Append(blocks, kind)
  OBVIOUS
<1>4. /\ b \in Seq(LabelType) /\ Len(b) = Len(blocks) + 1
      /\ \A k \in 1 .. Len(blocks) : b[k] = blocks[k]
      /\ b[Len(blocks) + 1] = kind
  BY <1>3, AppendProperties
<1>5. DOMAIN b = 1 .. Len(blocks) + 1
  BY <1>4, LenProperties
<1>6. Len(u.label_stack) >= Len(b)
  BY <1>1, <1>2, <1>4 DEF Covered
<1>7. ASSUME u.ok
      PROVE  /\ Len(u.label_stack) = Len(b)
             /\ \A k \in DOMAIN b : u.label_stack[k].label_type = b[k]
  <2>1. /\ Len(t.label_stack) = Len(blocks)
        /\ \A k \in DOMAIN blocks : t.label_stack[k].label_type = blocks[k]
    BY <1>7 DEF Covered
  <2>2. \A k \in 1 .. Len(blocks) : u.label_stack[k].label_type = b[k]
    BY <2>1, <1>1, <1>4
  <2>3. u.label_stack[Len(blocks) + 1].label_type = b[Len(blocks) + 1]
    BY <2>1, <1>4
  <2>4. \A k \in 1 .. Len(blocks) + 1 : k \in 1 .. Len(blocks) \/ k = Len(blocks) + 1
    BY <1>1
  <2> QED
    BY <2>1, <2>2, <2>3, <2>4, <1>4, <1>5
<1>8. Covered(u, b)
  BY <1>6, <1>7 DEF Covered
<1> QED
  BY <1>3, <1>8

LEMMA CoveredRelabel ==
  ASSUME NEW t, Shape(t), NEW blocks \in Seq(LabelType), blocks # <<>>, Covered(t, blocks),
         NEW kind \in LabelType, NEW u, u.ok => t.ok,
         Len(u.label_stack) = Len(t.label_stack),
         \A k \in DOMAIN t.label_stack : k # Len(t.label_stack) => u.label_stack[k] = t.label_stack[k],
         u.label_stack[Len(u.label_stack)].label_type = kind
  PROVE  Covered(u, [blocks EXCEPT ![Len(blocks)] = kind])
<1>1. DOMAIN blocks = 1 .. Len(blocks) /\ Len(blocks) \in Nat \ {0}
  BY LenProperties, EmptySeq
<1>2. DOMAIN t.label_stack = 1 .. Len(t.label_stack) /\ Len(t.label_stack) \in Nat
  BY LenProperties DEF Shape, Checker
<1>3. PICK b : b = [blocks EXCEPT ![Len(blocks)] = kind]
  OBVIOUS
<1>4. /\ b \in Seq(LabelType) /\ Len(b) = Len(blocks)
      /\ \A k \in 1 .. Len(blocks) : b[k] = IF k = Len(blocks) THEN kind ELSE blocks[k]
  <2>1. PICK n : n = Len(blocks)
    OBVIOUS
  <2>2. b = [blocks EXCEPT ![n] = kind] /\ n \in 1 .. Len(blocks)
    BY <1>1, <1>3, <2>1
  <2> QED
    BY <2>1, <2>2, ExceptSeq
<1>5. DOMAIN b = 1 .. Len(blocks)
  BY <1>4, LenProperties
<1>6. Covered(u, b)
  BY <1>1, <1>2, <1>4, <1>5 DEF Covered
<1> QED
  BY <1>3, <1>6

LEMMA CoveredClose ==
  ASSUME NEW t, Shape(t), NEW blocks \in Seq(LabelType), blocks # <<>>, Covered(t, blocks),
         NEW u, Shape(u), Len(u.label_stack) >= Len(t.label_stack) - 1,
         u.ok => /\ t.ok
                 /\ Len(u.label_stack) = Len(t.label_stack) - 1
                 /\ \A k \in 1 .. Len(t.label_stack) - 1 :
                      u.label_stack[k].label_type = t.label_stack[k].label_type
  PROVE  Covered(u, Below(blocks, 1)) /\ Below(blocks, 1) \in Seq(LabelType)
<1>1. DOMAIN blocks = 1 .. Len(blocks) /\ Len(blocks) \in Nat \ {0}
  BY LenProperties, EmptySeq
<1>2. Len(t.label_stack) \in Nat /\ Len(u.label_stack) \in Nat
  BY LenProperties DEF Shape, Checker
<1>0. PICK n : n = Len(blocks) - 1
  OBVIOUS
<1>3. n \in Nat /\ n = Len(blocks) - 1 /\ n <= Len(blocks)
  BY <1>0, <1>1
<1>4. PICK b : b = SubSeq(blocks, 1, n)
  OBVIOUS
<1>5. b \in Seq(LabelType) /\ Len(b) = n /\ \A k \in 1 .. n : b[k] = blocks[k]
  BY <1>1, <1>3, <1>4, Prefix
<1>6. DOMAIN b = 1 .. n
  BY <1>5, LenProperties
<1>7. Len(u.label_stack) >= Len(b)
  BY <1>1, <1>2, <1>3, <1>5 DEF Covered
<1>8. ASSUME u.ok
      PROVE  /\ Len(u.label_stack) = Len(b)
             /\ \A k \in DOMAIN b : u.label_stack[k].label_type = b[k]
  <2>1. /\ Len(t.label_stack) = Len(blocks)
        /\ \A k \in DOMAIN blocks : t.label_stack[k].label_type = blocks[k]
        /\ Len(u.label_stack) = Len(t.label_stack) - 1
        /\ \A k \in 1 .. Len(t.label_stack) - 1 :
             u.label_stack[k].label_type = t.label_stack[k].label_type
    BY <1>8 DEF Covered
  <2>2. \A k \in 1 .. n : u.label_stack[k].label_type = blocks[k]
    <3> SUFFICES ASSUME NEW k \in 1 .. n
                 PROVE  u.label_stack[k].label_type = blocks[k]
      OBVIOUS
    <3>1. n = Len(t.label_stack) - 1
      BY <2>1, <1>3
    <3>2. k \in 1 .. Len(t.label_stack) - 1 /\ k \in DOMAIN blocks
      BY <3>1, <1>1, <1>3
    <3> QED
      BY <2>1, <3>2
  <2> QED
    BY <2>1, <2>2, <1>3, <1>5, <1>6
<1>9. Covered(u, b)
  BY <1>7, <1>8 DEF Covered
<1> QED
  BY <1>3, <1>4, <1>5, <1>9 DEF Below

-----------------------------------------------------------------------------
(* The module's index spaces                                                *)

LEMMA LookupIs ==
  ASSUME NEW S, NEW table \in Seq(S), NEW v \in Nat, NEW default
  PROVE  /\ InRange(v, table) \in BOOLEAN
         /\ InRange(v, table) => v + 1 \in DOMAIN table /\ Lookup(v, table, default) = table[v + 1]
                                 /\ Lookup(v, table, default) \in S
         /\ ~InRange(v, table) => Lookup(v, table, default) = default
<1>1. Len(table) \in Nat /\ DOMAIN table = 1 .. Len(table)
  BY LenProperties
<1>2. InRange(v, table) => v + 1 \in 1 .. Len(table)
  BY <1>1 DEF InRange
<1>3. InRange(v, table) => table[v + 1] \in S
  BY <1>2, ElementOfSeq
<1> QED
  BY <1>1, <1>2, <1>3 DEF InRange, Lookup

LEMMA NoSigIs == NoSig.params \in ResultType /\ NoSig.results \in ResultType
BY OneType DEF NoSig

LEMMA ProfileIs ==
  ASSUME profile \in DOMAIN Profiles
  PROVE  IsProfile(P)
BY ProfilesAssumption DEF P

LEMMA FuncsAre ==
  ASSUME IsProfile(P), NEW v \in Vars(Funcs)
  PROVE  /\ InRange(v, Funcs) \in BOOLEAN
         /\ Lookup(v, Funcs, NoSig).params \in ResultType
         /\ Lookup(v, Funcs, NoSig).results \in ResultType
<1> DEFINE S == [params : ResultType, results : ResultType, type_index : Nat]
<1>1. Funcs \in Seq(S) /\ v \in Nat
  BY DEF IsProfile, Funcs, Vars
<1>2. InRange(v, Funcs) \in BOOLEAN /\ (Lookup(v, Funcs, NoSig) \in S \/ Lookup(v, Funcs, NoSig) = NoSig)
  <2> HIDE DEF S
  <2> QED
    BY <1>1, LookupIs
<1> QED
  BY <1>2, NoSigIs

LEMMA TypeIs ==
  ASSUME IsProfile(P), NEW v \in Nat
  PROVE  /\ InRange(v, Types) \in BOOLEAN
         /\ Lookup(v, Types, NoSig).params \in ResultType
         /\ Lookup(v, Types, NoSig).results \in ResultType
<1> DEFINE S == [params : ResultType, results : ResultType]
<1>1. Types \in Seq(S)
  BY DEF IsProfile, Types
<1>2. InRange(v, Types) \in BOOLEAN /\ (Lookup(v, Types, NoSig) \in S \/ Lookup(v, Types, NoSig) = NoSig)
  <2> HIDE DEF S
  <2> QED
    BY <1>1, LookupIs
<1> QED
  BY <1>2, NoSigIs

LEMMA TypesAre ==
  ASSUME IsProfile(P), NEW v \in Vars(Types)
  PROVE  /\ InRange(v, Types) \in BOOLEAN
         /\ Lookup(v, Types, NoSig).params \in ResultType
         /\ Lookup(v, Types, NoSig).results \in ResultType
BY TypeIs DEF Vars

LEMMA TagsAre ==
  ASSUME IsProfile(P), NEW v \in Vars(Tags)
  PROVE  InRange(v, Tags) \in BOOLEAN /\ Lookup(v, Tags, <<>>) \in ResultType
<1>1. Tags \in Seq(ResultType) /\ v \in Nat
  BY DEF IsProfile, Tags, Vars
<1> QED
  BY <1>1, LookupIs, OneType

LEMMA TablesAre ==
  ASSUME IsProfile(P), NEW v \in Vars(Tables), NEW default, default.is_64 \in BOOLEAN
  PROVE  /\ InRange(v, Tables) \in BOOLEAN
         /\ Lookup(v, Tables, default).is_64 \in BOOLEAN
         /\ InRange(v, Tables) =>
              /\ v + 1 \in DOMAIN Tables /\ Lookup(v, Tables, default) = Tables[v + 1]
              /\ Lookup(v, Tables, default).elem \in ValueType
         /\ ~InRange(v, Tables) => Lookup(v, Tables, default) = default
<1> DEFINE S == [elem : ValueType, is_64 : BOOLEAN]
<1>1. Tables \in Seq(S) /\ v \in Nat
  BY DEF IsProfile, Tables, Vars
<1>2. /\ InRange(v, Tables) \in BOOLEAN
      /\ InRange(v, Tables) => v + 1 \in DOMAIN Tables /\ Lookup(v, Tables, default) = Tables[v + 1]
                               /\ Lookup(v, Tables, default) \in S
      /\ ~InRange(v, Tables) => Lookup(v, Tables, default) = default
  <2> HIDE DEF S
  <2> QED
    BY <1>1, LookupIs
<1> QED
  BY <1>2

LEMMA GlobalsAre ==
  ASSUME IsProfile(P), NEW v \in Vars(Globals), NEW default
  PROVE  /\ InRange(v, Globals) \in BOOLEAN
         /\ InRange(v, Globals) => Lookup(v, Globals, default)
                                     \in [type : ValueType, mutable : BOOLEAN, imported : BOOLEAN]
         /\ ~InRange(v, Globals) => Lookup(v, Globals, default) = default
<1> DEFINE S == [type : ValueType, mutable : BOOLEAN, imported : BOOLEAN]
<1>1. Globals \in Seq(S) /\ v \in Nat
  BY DEF IsProfile, Globals, Vars
<1> HIDE DEF S
<1>2. /\ InRange(v, Globals) \in BOOLEAN
      /\ InRange(v, Globals) => Lookup(v, Globals, default) \in S
      /\ ~InRange(v, Globals) => Lookup(v, Globals, default) = default
  BY <1>1, LookupIs
<1> QED
  BY <1>2 DEF S

-----------------------------------------------------------------------------
(* A step inside a body keeps the stacks well formed                        *)

LEMMA FollowsAfter ==
  ASSUME NEW t, NEW u, Within(t, u), NEW v, Follows(u, v)
  PROVE  Follows(t, v)
BY DEF Within, Follows

LEMMA CheckAgain ==
  ASSUME NEW t, Good(t), NEW u, Within(t, u), Good(u), u.ok => u = t,
         NEW c \in BOOLEAN, NEW v, v = Check(u, c)
  PROVE  Within(t, v) /\ Good(v) /\ (v.ok => v = t /\ c)
<1>1. Within(u, v) /\ Good(v) /\ (v.ok => c /\ v = u)
  BY CheckIs
<1> QED
  BY <1>1, WithinTransitive

\* The instruction is looked at, and its index is checked.
LEMMA InstrIs ==
  ASSUME ShapeInv, ~Idle, NEW v \in BOOLEAN, NEW t, t = Instr(tc, v)
  PROVE  /\ Good(tc)
         /\ Within(tc, t) /\ Good(t) /\ (t.ok => t = tc)
<1>1. Good(tc)
  BY CoveredGood DEF ShapeInv, Idle
<1>2. (in_init_expr => v) \in BOOLEAN
  BY DEF ShapeInv
<1>3. PICK c \in BOOLEAN : c = (in_init_expr => v)
  BY <1>2
<1>4. t = Check(tc, c)
  BY <1>3 DEF Instr
<1> QED
  BY <1>1, <1>4, CheckIs

LEMMA InstrCheckIs ==
  ASSUME ShapeInv, ~Idle, NEW v \in BOOLEAN, NEW c \in BOOLEAN, NEW t, t = Check(Instr(tc, v), c)
  PROVE  Within(tc, t) /\ Good(t) /\ (t.ok => t = tc /\ c)
<1>1. PICK u : u = Instr(tc, v)
  OBVIOUS
<1>2. Good(tc) /\ Within(tc, u) /\ Good(u) /\ (u.ok => u = tc)
  BY <1>1, InstrIs
<1> QED
  BY <1>1, <1>2, CheckAgain

LEMMA PlainInstr ==
  ASSUME ShapeInv, ~Idle, NEW t, t = Instr(tc, FALSE)
  PROVE  Good(tc) /\ Within(tc, t) /\ Good(t) /\ (t.ok => t = tc)
<1>1. PICK v \in BOOLEAN : v = FALSE
  OBVIOUS
<1> QED
  BY <1>1, InstrIs

LEMMA CheckedInstr ==
  ASSUME ShapeInv, ~Idle, NEW c \in BOOLEAN, NEW t, t = Check(Instr(tc, FALSE), c)
  PROVE  Within(tc, t) /\ Good(t) /\ (t.ok => t = tc /\ c)
<1>1. PICK v \in BOOLEAN : v = FALSE
  OBVIOUS
<1> QED
  BY <1>1, InstrCheckIs

LEMMA ConstInstr ==
  ASSUME ShapeInv, ~Idle, NEW c \in BOOLEAN, NEW t, t = Check(Instr(tc, TRUE), c)
  PROVE  Within(tc, t) /\ Good(t) /\ (t.ok => t = tc /\ c)
<1>1. PICK v \in BOOLEAN : v = TRUE
  OBVIOUS
<1> QED
  BY <1>1, InstrCheckIs

LEMMA StaysInBody ==
  ASSUME ShapeInv, ~Idle, NEW t, Follows(tc, t), tc' = t, open' = open, profile' = profile,
         in_init_expr' = in_init_expr,
         br_table' \in [active : BOOLEAN, first : BOOLEAN, sig : ResultType]
  PROVE  ShapeInv'
<1>1. Covered(t, open)
  BY CoveredFollows DEF ShapeInv
<1>2. Shape(t)
  BY DEF Follows
<1> QED
  BY <1>1, <1>2 DEF ShapeInv

LEMMA StepShape ==
  ASSUME ShapeInv, ~Idle, NEW t, NEW mm, Follows(tc, t), Step(t, mm)
  PROVE  ShapeInv'
BY StaysInBody DEF Step, rest, ShapeInv

LEMMA DepthsAre ==
  ASSUME ShapeInv, NEW d \in Depths
  PROVE  d \in Nat
BY LenProperties DEF ShapeInv, Depths

LEMMA BranchShape ==
  ASSUME ShapeInv, ~Idle, NEW d \in Depths
  PROVE  /\ OnBrInstr(d) => ShapeInv'
         /\ OnBrIfInstr(d) => ShapeInv'
         /\ OnReturnInstr => ShapeInv'
         /\ OnUnreachableInstr => ShapeInv'
         /\ OnRethrowInstr(d) => ShapeInv'
<1>1. PICK t : t = Instr(tc, FALSE)
  OBVIOUS
<1>2. Good(tc) /\ Within(tc, t) /\ Good(t)
  BY <1>1, PlainInstr
<1>3. d \in Nat
  BY DepthsAre
<1>4. Follows(tc, OnBr(t, d))
  BY <1>2, <1>3, BrFollows, FollowsAfter
<1>5. Follows(tc, OnBrIf(t, d))
  BY <1>2, <1>3, BrIfWithin, WithinFollows, FollowsAfter
<1>6. Follows(tc, OnReturn(t))
  BY <1>2, ReturnFollows, FollowsAfter
<1>7. Follows(tc, OnUnreachable(t))
  BY <1>2, WithinItself, UnreachableFollows, FollowsAfter DEF OnUnreachable
<1>8. Follows(tc, OnRethrow(t, d))
  BY <1>2, RethrowFollows, FollowsAfter
<1> QED
  BY <1>1, <1>4, <1>5, <1>6, <1>7, <1>8, StepShape
     DEF OnBrInstr, OnBrIfInstr, OnReturnInstr, OnUnreachableInstr, OnRethrowInstr

LEMMA BrTableShape ==
  ASSUME ShapeInv
  PROVE  /\ ~Idle /\ BeginBrTableInstr => ShapeInv'
         /\ \A d \in Depths : OnBrTableTargetInstr(d) => ShapeInv'
         /\ EndBrTableInstr => ShapeInv'
<1> DEFINE Tab == [active : BOOLEAN, first : BOOLEAN, sig : ResultType]
<1>1. ASSUME ~Idle, BeginBrTableInstr
      PROVE  ShapeInv'
  <2>1. PICK t : t = Instr(tc, FALSE)
    OBVIOUS
  <2>2. Good(tc) /\ Within(tc, t) /\ Good(t)
    BY <1>1, <2>1, PlainInstr
  <2>3. Follows(tc, BeginBrTable(t))
    BY <2>2, PopWithin, I32, WithinFollows, FollowsAfter DEF BeginBrTable
  <2>4. br_table' \in Tab
    BY <1>1, OneType DEF BeginBrTableInstr
  <2> QED
    BY <1>1, <2>1, <2>3, <2>4, StaysInBody DEF BeginBrTableInstr
<1>2. ASSUME NEW d \in Depths, OnBrTableTargetInstr(d)
      PROVE  ShapeInv'
  <2>1. ~Idle
    BY <1>2 DEF OnBrTableTargetInstr, Going
  <2>2. Good(tc)
    BY <2>1, CoveredGood DEF ShapeInv, Idle
  <2>3. d \in Nat
    BY DepthsAre
  <2>4. PICK t : t = OnBrTableTarget(tc, d, br_table.first, br_table.sig)
    OBVIOUS
  <2>5. Follows(tc, t)
    <3>1. PICK first \in BOOLEAN : first = br_table.first
      BY DEF ShapeInv
    <3> QED
      BY <2>2, <2>3, <2>4, <3>1, BrTableTargetWithin, WithinFollows
  <2>6. br_table' \in Tab
    <3>1. CASE HasLabel(tc, d) /\ br_table.first
      <4>1. PICK sig \in ResultType : sig = br_types(GetLabel(tc, d))
        BY <2>2, <2>3, <3>1, GetLabelIs
      <4>2. br_table' = [active |-> TRUE, first |-> FALSE, sig |-> sig]
        BY <1>2, <3>1, <4>1 DEF OnBrTableTargetInstr
      <4> QED
        BY <4>2
    <3>2. CASE ~(HasLabel(tc, d) /\ br_table.first)
      BY <1>2, <3>2 DEF OnBrTableTargetInstr, ShapeInv
    <3> QED
      BY <3>1, <3>2
  <2> QED
    BY <1>2, <2>1, <2>4, <2>5, <2>6, StaysInBody DEF OnBrTableTargetInstr
<1>3. ASSUME EndBrTableInstr
      PROVE  ShapeInv'
  <2>1. ~Idle
    BY <1>3 DEF EndBrTableInstr, Going
  <2>2. PICK t : t = Instr(tc, FALSE)
    OBVIOUS
  <2>3. Good(tc) /\ Within(tc, t) /\ Good(t)
    BY <2>1, <2>2, PlainInstr
  <2>4. Follows(tc, EndBrTable(t))
    BY <2>3, UnreachableFollows DEF EndBrTable
  <2>5. br_table' \in Tab
    BY <1>3, OneType DEF EndBrTableInstr, NoBrTable
  <2> QED
    BY <1>3, <2>1, <2>2, <2>4, <2>5, StaysInBody DEF EndBrTableInstr
<1> QED
  BY <1>1, <1>2, <1>3

LEMMA CallShape ==
  ASSUME ShapeInv, ~Idle
  PROVE  /\ \A v \in Vars(Funcs) : OnCallInstr(v) \/ OnReturnCallInstr(v) => ShapeInv'
         /\ \A v \in Vars(Types), w \in Vars(Tables) :
              OnCallIndirectInstr(v, w) \/ OnReturnCallIndirectInstr(v, w) => ShapeInv'
         /\ \A v \in Vars(Tags) : OnThrowInstr(v) => ShapeInv'
<1>0. IsProfile(P)
  BY ProfileIs DEF ShapeInv
<1>1. ASSUME NEW v \in Vars(Funcs), OnCallInstr(v) \/ OnReturnCallInstr(v)
      PROVE  ShapeInv'
  <2>1. PICK sig : sig = Lookup(v, Funcs, NoSig)
    OBVIOUS
  <2>2. PICK c : c = InRange(v, Funcs)
    OBVIOUS
  <2>3. PICK t : t = Check(Instr(tc, FALSE), c)
    OBVIOUS
  <2>4. sig.params \in ResultType /\ sig.results \in ResultType /\ c \in BOOLEAN
    BY <1>0, <2>1, <2>2, FuncsAre
  <2>5. Within(tc, t) /\ Good(t)
    BY <2>3, <2>4, CheckedInstr
  <2>6. Follows(tc, OnCall(t, sig.params, sig.results))
    BY <2>4, <2>5, CallWithin, WithinFollows, FollowsAfter DEF OnCall
  <2>7. Follows(tc, OnReturnCall(t, sig.params, sig.results))
    BY <2>4, <2>5, WithinItself, ReturnCallFollows, FollowsAfter
  <2> QED
    BY <1>1, <2>1, <2>2, <2>3, <2>6, <2>7, StepShape DEF OnCallInstr, OnReturnCallInstr
<1>2. ASSUME NEW v \in Vars(Types), NEW w \in Vars(Tables),
             OnCallIndirectInstr(v, w) \/ OnReturnCallIndirectInstr(v, w)
      PROVE  ShapeInv'
  <2>1. PICK sig : sig = Lookup(v, Types, NoSig)
    OBVIOUS
  <2>2. PICK c : c = (InRange(v, Types) /\ InRange(w, Tables))
    OBVIOUS
  <2>3. PICK index : index = IndexType(Lookup(w, Tables, [is_64 |-> FALSE]).is_64)
    OBVIOUS
  <2>4. PICK t : t = Check(Instr(tc, FALSE), c)
    OBVIOUS
  <2>5. sig.params \in ResultType /\ sig.results \in ResultType /\ c \in BOOLEAN
    BY <1>0, <2>1, <2>2, TypesAre
  <2>6. index \in ValueType
    <3>1. PICK default : default = [is_64 |-> FALSE]
      OBVIOUS
    <3>2. default.is_64 \in BOOLEAN
      BY <3>1
    <3>3. Lookup(w, Tables, default).is_64 \in BOOLEAN
      BY <1>0, <3>2, TablesAre
    <3> QED
      BY <2>3, <3>1, <3>3, OneType
  <2>7. Within(tc, t) /\ Good(t)
    BY <2>4, <2>5, CheckedInstr
  <2>8. Follows(tc, OnCallIndirect(t, sig.params, sig.results, index))
    BY <2>5, <2>6, <2>7, CallIndirectWithin, WithinFollows, FollowsAfter
  <2>9. Follows(tc, OnReturnCallIndirect(t, sig.params, sig.results))
    BY <2>5, <2>7, ReturnCallIndirectFollows, FollowsAfter
  <2> QED
    BY <1>2, <2>1, <2>2, <2>3, <2>4, <2>8, <2>9, StepShape
       DEF OnCallIndirectInstr, OnReturnCallIndirectInstr
<1>3. ASSUME NEW v \in Vars(Tags), OnThrowInstr(v)
      PROVE  ShapeInv'
  <2>1. PICK sig : sig = Lookup(v, Tags, <<>>)
    OBVIOUS
  <2>2. PICK c : c = InRange(v, Tags)
    OBVIOUS
  <2>3. PICK t : t = Check(Instr(tc, FALSE), c)
    OBVIOUS
  <2>4. sig \in ResultType /\ c \in BOOLEAN
    BY <1>0, <2>1, <2>2, TagsAre
  <2>5. Within(tc, t) /\ Good(t)
    BY <2>3, <2>4, CheckedInstr
  <2>6. Follows(tc, OnThrow(t, sig))
    BY <2>4, <2>5, ThrowFollows, FollowsAfter
  <2> QED
    BY <1>3, <2>1, <2>2, <2>3, <2>6, StepShape DEF OnThrowInstr
<1> QED
  BY <1>1, <1>2, <1>3

LEMMA CallRefShape ==
  ASSUME ShapeInv, ~Idle, OnCallRefInstr
  PROVE  ShapeInv'
<1>0. IsProfile(P)
  BY ProfileIs DEF ShapeInv
<1>1. Good(tc)
  BY PlainInstr
<1>2. PICK index : index = TypeIndexOf(PeekType(tc, 0).type)
  OBVIOUS
<1>3. index \in Nat
  BY <1>0, <1>2, LenProperties DEF IsProfile, Types, TypeIndexOf
<1>4. PICK sig : sig = Lookup(index, Types, NoSig)
  OBVIOUS
<1>5. sig.params \in ResultType /\ sig.results \in ResultType /\ InRange(index, Types) \in BOOLEAN
  BY <1>0, <1>3, <1>4, TypeIs
<1>6. PICK flag \in BOOLEAN : flag = TRUE
  OBVIOUS
<1>7. PICK t1 : t1 = [tc EXCEPT !.ok = flag]
  OBVIOUS
<1>8. Good(t1) /\ t1.ok = flag /\ t1.type_stack = tc.type_stack /\ t1.label_stack = tc.label_stack
  BY <1>1, <1>7, Forget
<1>9. PICK c \in BOOLEAN : c = (in_init_expr => FALSE)
  BY DEF ShapeInv
<1>10. PICK t2 : t2 = Check(t1, c)
  OBVIOUS
<1>11. Within(t1, t2) /\ Good(t2)
  BY <1>8, <1>10, CheckIs
<1>12. PICK t : t = OnIndexedFuncRef(t2)
  OBVIOUS
<1>13. Within(t1, t) /\ Good(t)
  BY <1>8, <1>11, <1>12, IndexedFuncRefWithin, WithinTransitive, WithinGood
<1>14. PICK d \in BOOLEAN : d = (tc.ok /\ InRange(index, Types))
  BY <1>1, <1>5, GoodLabels DEF Checker
<1>15. PICK v : v = Check(t, d)
  OBVIOUS
<1>16. Within(t, v) /\ Good(v) /\ (v.ok => d)
  BY <1>13, <1>15, CheckIs
<1>17. PICK w : w = OnCall(v, sig.params, sig.results)
  OBVIOUS
<1>18. Within(v, w)
  BY <1>5, <1>16, <1>17, CallWithin DEF OnCall
<1>19. Within(t1, w) /\ (w.ok => v.ok)
  <2>1. Within(t1, v)
    BY <1>8, <1>13, <1>16, WithinTransitive
  <2>2. Within(t1, w)
    BY <1>8, <1>18, <2>1, WithinTransitive
  <2> QED
    BY <1>18, <2>2 DEF Within
<1>20. PICK u : u = IF ~t.ok THEN t ELSE w
  OBVIOUS
<1>21. Within(t1, u) /\ (tc.ok \/ ~u.ok)
  BY <1>13, <1>14, <1>16, <1>19, <1>20
<1>22. Follows(tc, u)
  BY <1>8, <1>21 DEF Within, Follows
<1>23. t = OnIndexedFuncRef(Instr([tc EXCEPT !.ok = TRUE], FALSE))
  BY <1>6, <1>7, <1>9, <1>10, <1>12 DEF Instr
<1> DEFINE mm == Exec(m, Append(sig.params, RefTo(index)), sig.results)
<1>24. Step(u, mm)
  BY <1>2, <1>4, <1>14, <1>15, <1>17, <1>20, <1>23 DEF OnCallRefInstr
<1> HIDE DEF mm
<1> QED
  BY <1>22, <1>24, StepShape

LEMMA OpcodeShape ==
  ASSUME ShapeInv, ~Idle, NEW op \in Opcodes, OnOpcodeInstr(op)
  PROVE  ShapeInv'
<1>1. op \in [params : ResultType, result : ResultType, init : BOOLEAN]
  BY ProfileIs DEF ShapeInv, IsProfile, Opcodes
<1>2. PICK t : t = Instr(tc, op.init)
  OBVIOUS
<1>3. op.init \in BOOLEAN /\ op.params \in ResultType /\ op.result \in ResultType
  BY <1>1
<1>4. Within(tc, t) /\ Good(t)
  BY <1>2, <1>3, InstrIs
<1>5. Follows(tc, CheckOpcode(t, op.params, op.result))
  BY <1>3, <1>4, CallWithin, WithinFollows, FollowsAfter DEF CheckOpcode
<1> QED
  BY <1>2, <1>5, StepShape DEF OnOpcodeInstr

LEMMA ParametricShape ==
  ASSUME ShapeInv, ~Idle
  PROVE  /\ OnDropInstr => ShapeInv'
         /\ \A expected \in Selects : OnSelectInstr(expected) => ShapeInv'
         /\ OnRefIsNullInstr => ShapeInv'
<1>1. PICK t : t = Instr(tc, FALSE)
  OBVIOUS
<1>2. Within(tc, t) /\ Good(t)
  BY <1>1, PlainInstr
<1>3. Follows(tc, OnDrop(t))
  BY <1>2, DropWithin, WithinFollows, FollowsAfter DEF OnDrop
<1>4. \A expected : Follows(tc, OnSelect(t, expected))
  BY <1>2, SelectWithin, WithinFollows, FollowsAfter
<1>5. Follows(tc, OnRefIsNull(t))
  BY <1>2, RefIsNullWithin, WithinFollows, FollowsAfter
<1>6. ASSUME OnDropInstr PROVE ShapeInv'
  BY <1>1, <1>3, <1>6, StepShape DEF OnDropInstr
<1>7. ASSUME NEW expected, OnSelectInstr(expected) PROVE ShapeInv'
  <2>1. PICK u : u = OnSelect(t, expected)
    OBVIOUS
  <2>2. PICK mm : Step(u, mm)
    BY <1>1, <1>7, <2>1 DEF OnSelectInstr
  <2> QED
    BY <1>4, <2>1, <2>2, StepShape
<1>8. ASSUME OnRefIsNullInstr PROVE ShapeInv'
  BY <1>1, <1>5, <1>8, StepShape DEF OnRefIsNullInstr
<1> QED
  BY <1>6, <1>7, <1>8

\* A default type stands for an index out of range.
LEMMA AnyOrType ==
  /\ \A v \in StackType : <<v>> \in Seq(StackType)
  /\ \A v, w \in StackType : <<v, w>> \in Seq(StackType)
  /\ \A v, w, x \in StackType : <<v, w, x>> \in Seq(StackType)
  /\ <<>> \in Seq(StackType)
  /\ ValueType \subseteq StackType /\ AnyType \in StackType
BY EmptySeq DEF StackType

LEMMA OpcodeFollows ==
  ASSUME NEW t, Good(t), NEW u, Within(t, u), Good(u),
         NEW params \in Seq(StackType), NEW results \in Seq(StackType),
         NEW v, v = CheckOpcode(u, params, results)
  PROVE  Follows(t, v)
BY CallAnyWithin, WithinFollows, FollowsAfter DEF CheckOpcode

LEMMA GlobalShape ==
  ASSUME ShapeInv, ~Idle, NEW v \in Vars(Globals)
  PROVE  OnGlobalGetInstr(v) \/ OnGlobalSetInstr(v) => ShapeInv'
<1>0. IsProfile(P)
  BY ProfileIs DEF ShapeInv
<1>1. PICK c : c = InRange(v, Globals)
  OBVIOUS
<1>2. ASSUME OnGlobalGetInstr(v) PROVE ShapeInv'
  <2>0. PICK default : default = [type |-> AnyType, mutable |-> FALSE, imported |-> TRUE]
    OBVIOUS
  <2>1. PICK global : global = Lookup(v, Globals, default)
    OBVIOUS
  <2>2. global.type \in StackType /\ c \in BOOLEAN
    <3>1. /\ c \in BOOLEAN
          /\ c => global \in [type : ValueType, mutable : BOOLEAN, imported : BOOLEAN]
          /\ ~c => global = default
      BY <1>0, <1>1, <2>1, GlobalsAre
    <3> QED
      BY <2>0, <3>1, AnyOrType
  <2>3. PICK t : t = Check(Instr(tc, TRUE), c)
    OBVIOUS
  <2>4. Within(tc, t) /\ Good(t)
    BY <2>2, <2>3, ConstInstr
  <2>5. PICK u : u = PushTypes(t, <<global.type>>)
    OBVIOUS
  <2>6. Within(t, u) /\ Good(u)
    BY <2>2, <2>4, <2>5, AnyOrType, PushWithin, WithinGood
  <2>7. PICK d : d = (in_init_expr => global.imported /\ ~global.mutable)
    OBVIOUS
  <2>8. d \in BOOLEAN
    BY <2>7
  <2>9. Within(u, Check(u, d))
    BY <2>6, <2>8, CheckWithin
  <2>10. Follows(tc, Check(u, d))
    BY <2>4, <2>6, <2>9, WithinFollows, FollowsAfter
  <2>11. PICK mm : Step(Check(u, d), mm)
    BY <1>1, <1>2, <2>0, <2>1, <2>3, <2>5, <2>7 DEF OnGlobalGetInstr
  <2> QED
    BY <2>10, <2>11, StepShape
<1>3. ASSUME OnGlobalSetInstr(v) PROVE ShapeInv'
  <2>f. PICK flag \in BOOLEAN : flag = FALSE
    OBVIOUS
  <2>0. PICK default : default = [type |-> AnyType, mutable |-> flag]
    OBVIOUS
  <2>1. PICK global : global = Lookup(v, Globals, default)
    OBVIOUS
  <2>2. global.type \in StackType /\ global.mutable \in BOOLEAN /\ c \in BOOLEAN
    <3>1. /\ c \in BOOLEAN
          /\ c => global \in [type : ValueType, mutable : BOOLEAN, imported : BOOLEAN]
          /\ ~c => global = default
      BY <1>0, <1>1, <2>1, GlobalsAre
    <3> QED
      BY <2>0, <3>1, AnyOrType
  <2>3. PICK d \in BOOLEAN : d = (c /\ global.mutable)
    BY <2>2
  <2>4. PICK t : t = Check(Instr(tc, FALSE), d)
    OBVIOUS
  <2>5. Within(tc, t) /\ Good(t)
    BY <2>4, CheckedInstr
  <2>7. PICK u : u = CheckOpcode(t, <<global.type>>, <<>>)
    OBVIOUS
  <2>8. Follows(tc, u)
    <3>1. Good(tc)
      BY PlainInstr
    <3>2. <<global.type>> \in Seq(StackType) /\ <<>> \in Seq(StackType)
      BY <2>2, AnyOrType
    <3> QED
      BY <2>5, <2>7, <3>1, <3>2, OpcodeFollows
  <2>9. PICK mm : Step(u, mm)
    BY <1>1, <1>3, <2>f, <2>0, <2>1, <2>3, <2>4, <2>7 DEF OnGlobalSetInstr
  <2> QED
    BY <2>8, <2>9, StepShape
<1> QED
  BY <1>2, <1>3

LEMMA RefFuncShape ==
  ASSUME ShapeInv, ~Idle, NEW v \in Vars(Funcs), OnRefFuncInstr(v)
  PROVE  ShapeInv'
<1>0. IsProfile(P)
  BY ProfileIs DEF ShapeInv
<1>1. PICK valid : valid = InRange(v, Funcs)
  OBVIOUS
<1>2. valid \in BOOLEAN
  BY <1>0, <1>1, FuncsAre
<1>3. PICK t : t = Check(Instr(tc, TRUE), valid)
  OBVIOUS
<1>4. Within(tc, t) /\ Good(t)
  BY <1>2, <1>3, ConstInstr
<1>5. RefFuncType(v) \in StackType
  BY DEF RefFuncType, RefTo, StackType, ValueType, RefType
<1>6. Follows(tc, PushTypes(t, <<RefFuncType(v)>>))
  BY <1>4, <1>5, AnyOrType, PushWithin, WithinFollows, FollowsAfter
<1>7. PICK u : u = IF valid THEN PushTypes(t, <<RefFuncType(v)>>) ELSE t
  OBVIOUS
<1>8. Follows(tc, u)
  BY <1>4, <1>6, <1>7, WithinFollows
<1>9. /\ tc' = u
      /\ profile' = profile /\ open' = open /\ in_init_expr' = in_init_expr /\ br_table' = br_table
  BY <1>1, <1>3, <1>7 DEF OnRefFuncInstr
<1> QED
  BY <1>8, <1>9, StaysInBody DEF ShapeInv

LEMMA TableShape ==
  ASSUME ShapeInv, ~Idle, NEW kind, NEW v \in Vars(Tables), OnTableInstr(kind, v)
  PROVE  ShapeInv'
<1>0. IsProfile(P)
  BY ProfileIs DEF ShapeInv
<1>1. PICK c : c = InRange(v, Tables)
  OBVIOUS
<1>2. PICK table : table = Lookup(v, Tables, [elem |-> AnyType, is_64 |-> FALSE])
  OBVIOUS
<1>3. c \in BOOLEAN /\ table.is_64 \in BOOLEAN /\ table.elem \in StackType
  <2>1. PICK default : default = [elem |-> AnyType, is_64 |-> FALSE]
    OBVIOUS
  <2>2. default.is_64 \in BOOLEAN /\ default.elem = AnyType
    BY <2>1
  <2>3. table = Lookup(v, Tables, default)
    BY <1>2, <2>1
  <2> QED
    BY <1>0, <1>1, <2>2, <2>3, TablesAre, AnyOrType
<1>4. PICK t : t = Check(Instr(tc, FALSE), c)
  OBVIOUS
<1>5. Within(tc, t) /\ Good(t)
  BY <1>3, <1>4, CheckedInstr
<1>6. PICK e \in StackType : e = table.elem
  BY <1>3
<1>7. PICK i \in StackType : i = IndexType(table.is_64)
  BY <1>3, OneType, AnyOrType
<1>a. /\ <<i>> \in Seq(StackType) /\ <<e>> \in Seq(StackType) /\ <<>> \in Seq(StackType)
      /\ <<i, e>> \in Seq(StackType) /\ <<e, i>> \in Seq(StackType) /\ <<i, e, i>> \in Seq(StackType)
  BY AnyOrType
<1>b. Good(tc)
  BY PlainInstr
<1>c. \A params, results \in Seq(StackType) : Follows(tc, CheckOpcode(t, params, results))
  BY <1>5, <1>b, OpcodeFollows
<1>8. Follows(tc, OnTableGet(t, table.elem, table.is_64))
  BY <1>6, <1>7, <1>a, <1>c DEF OnTableGet
<1>9. Follows(tc, OnTableSet(t, table.elem, table.is_64))
  BY <1>6, <1>7, <1>a, <1>c DEF OnTableSet
<1>10. Follows(tc, OnTableGrow(t, table.elem, table.is_64))
  BY <1>6, <1>7, <1>a, <1>c DEF OnTableGrow
<1>11. Follows(tc, OnSize(t, table.is_64))
  <2>1. OnSize(t, table.is_64) = PushTypes(t, <<i>>)
    BY <1>7 DEF OnSize
  <2> QED
    BY <1>5, <1>a, <2>1, PushWithin, WithinFollows, FollowsAfter
<1>12. Follows(tc, OnFill(t, table.elem, table.is_64))
  BY <1>6, <1>7, <1>a, <1>c DEF OnFill
<1>13. PICK u : Follows(tc, u) /\ \E mm : Step(u, mm)
  BY <1>1, <1>2, <1>4, <1>8, <1>9, <1>10, <1>11, <1>12 DEF OnTableInstr
<1> QED
  BY <1>13, StepShape

LEMMA TableCopyShape ==
  ASSUME ShapeInv, ~Idle, NEW v \in Vars(Tables), NEW w \in Vars(Tables), OnTableCopyInstr(v, w)
  PROVE  ShapeInv'
<1>0. IsProfile(P)
  BY ProfileIs DEF ShapeInv
<1>1. PICK default : default = [elem |-> AnyType, is_64 |-> FALSE]
  OBVIOUS
<1>2. default.is_64 \in BOOLEAN
  BY <1>1
<1>3. PICK dst : dst = Lookup(v, Tables, default)
  OBVIOUS
<1>4. PICK src : src = Lookup(w, Tables, default)
  OBVIOUS
<1>5. PICK c \in BOOLEAN : c = (InRange(v, Tables) /\ InRange(w, Tables))
  BY <1>0, <1>2, TablesAre
<1>6. dst.is_64 \in BOOLEAN /\ src.is_64 \in BOOLEAN
  BY <1>0, <1>2, <1>3, <1>4, TablesAre
<1>7. PICK t : t = Check(Instr(tc, FALSE), c)
  OBVIOUS
<1>8. Within(tc, t) /\ Good(t)
  BY <1>7, CheckedInstr
<1>9. /\ IndexType(dst.is_64) \in ValueType /\ IndexType(src.is_64) \in ValueType
      /\ IndexType(src.is_64 /\ dst.is_64) \in ValueType
  BY <1>6, OneType
<1>10. PICK sig : sig = <<IndexType(dst.is_64), IndexType(src.is_64), IndexType(src.is_64 /\ dst.is_64)>>
  OBVIOUS
<1>11. sig \in ResultType
  BY <1>9, <1>10, TypesOf
<1>12. PICK u : u = OnCopy(t, dst.is_64, src.is_64)
  OBVIOUS
<1>13. Within(t, u) /\ Good(u)
  BY <1>8, <1>10, <1>11, <1>12, CallWithin, OneType, WithinGood DEF OnCopy, CheckOpcode
<1>14. PICK d \in BOOLEAN : d = CheckType(src.elem, dst.elem)
  BY DEF CheckType
<1>15. Follows(tc, Check(u, d))
  BY <1>8, <1>13, CheckWithin, WithinFollows, FollowsAfter
<1>16. PICK mm : Step(Check(u, d), mm)
  BY <1>1, <1>3, <1>4, <1>5, <1>7, <1>12, <1>14 DEF OnTableCopyInstr
<1> QED
  BY <1>15, <1>16, StepShape

LEMMA BlockLabels ==
  /\ "func" \in LabelType /\ "init" \in LabelType /\ "block" \in LabelType /\ "loop" \in LabelType
  /\ "if" \in LabelType /\ "else" \in LabelType /\ "try" \in LabelType /\ "catch" \in LabelType
BY DEF LabelType

LEMMA OpenedShape ==
  ASSUME ShapeInv, ~Idle, NEW t, Within(tc, t), Good(t), NEW kind \in LabelType,
         NEW params \in ResultType, NEW results \in ResultType,
         NEW u, u = OpenLabel(t, kind, params, results), NEW mm, Opened(u, kind, mm)
  PROVE  ShapeInv'
<1>1. PICK v : v = PopAndCheckSignature(t, params)
  OBVIOUS
<1>2. /\ Good(u) /\ Within(t, v) /\ (u.ok => v.ok)
      /\ Len(u.label_stack) = Len(t.label_stack) + 1
      /\ \A k \in 1 .. Len(t.label_stack) : u.label_stack[k] = t.label_stack[k]
      /\ TopLabel(u) = NewLabel(kind, params, results, Len(v.type_stack))
  BY <1>1, OpenIs
<1>3. TopLabel(u) = u.label_stack[Len(u.label_stack)] /\ TopLabel(u).label_type = kind
  <2>1. TopLabel(u) = u.label_stack[Len(u.label_stack)]
    BY <1>2, GoodLabels
  <2>2. TopLabel(u).label_type = kind
    BY <1>2 DEF NewLabel
  <2> QED
    BY <2>1, <2>2
<1>4. u.ok => tc.ok
  BY <1>2 DEF Within
<1>5. t.label_stack = tc.label_stack
  BY DEF Within
<1>6. Shape(tc) /\ open \in Seq(LabelType) /\ open # <<>> /\ Covered(tc, open)
  BY DEF ShapeInv, Idle
<1>7. Covered(u, Append(open, kind))
  BY <1>2, <1>3, <1>4, <1>5, <1>6, CoveredOpen
<1>8. Append(open, kind) \in Seq(LabelType)
  BY <1>6, AppendProperties
<1> QED
  BY <1>2, <1>7, <1>8 DEF Opened, rest, ShapeInv, Good

LEMMA BlockShape ==
  ASSUME ShapeInv, ~Idle, NEW kind, NEW v \in Vars(Types), OnBlockInstr(kind, v)
  PROVE  ShapeInv'
<1>0. IsProfile(P)
  BY ProfileIs DEF ShapeInv
<1>1. PICK sig : sig = Lookup(v, Types, NoSig)
  OBVIOUS
<1>2. PICK c : c = InRange(v, Types)
  OBVIOUS
<1>3. sig.params \in ResultType /\ sig.results \in ResultType /\ c \in BOOLEAN
  BY <1>0, <1>1, <1>2, TypesAre
<1>4. PICK t : t = Check(Instr(tc, FALSE), c)
  OBVIOUS
<1>5. Within(tc, t) /\ Good(t) /\ Good(tc)
  BY <1>3, <1>4, CheckedInstr, PlainInstr
<1>6. PICK u : u = PopAndCheckSignature(t, <<"i32">>)
  OBVIOUS
<1>7. Within(tc, u) /\ Good(u)
  BY <1>5, <1>6, I32, PopWithin, WithinGood, WithinTransitive
<1>8. PICK s \in {t, u}, k \in LabelType :
        /\ k = kind
        /\ \E mm : Opened(OpenLabel(s, k, sig.params, sig.results), k, mm)
  BY <1>1, <1>2, <1>4, <1>6, BlockLabels DEF OnBlockInstr, OnBlock, OnLoop, OnTry, OnIf
<1>9. PICK w : w = OpenLabel(s, k, sig.params, sig.results)
  OBVIOUS
<1>10. PICK mm : Opened(w, k, mm)
  BY <1>8, <1>9
<1>11. Within(tc, s) /\ Good(s)
  BY <1>5, <1>7, <1>8
<1> QED
  BY <1>3, <1>9, <1>10, <1>11, OpenedShape

LEMMA PartShape ==
  ASSUME ShapeInv, ~Idle
  PROVE  /\ OnElseInstr => ShapeInv'
         /\ \A v \in Vars(Tags), all \in BOOLEAN : OnCatchInstr(v, all) => ShapeInv'
<1>0. Shape(tc) /\ open \in Seq(LabelType) /\ open # <<>> /\ Covered(tc, open) /\ Good(tc) /\ IsProfile(P)
  BY CoveredGood, ProfileIs DEF ShapeInv, Idle
<1>1. ASSUME NEW kind \in LabelType, NEW u, Good(u), u.ok => tc.ok,
             Len(u.label_stack) = Len(tc.label_stack),
             \A k \in DOMAIN tc.label_stack : k # Len(tc.label_stack) => u.label_stack[k] = tc.label_stack[k],
             TopLabel(u).label_type = kind,
             tc' = u, SetOpen(kind), UNCHANGED rest
      PROVE  ShapeInv'
  <2>1. u.label_stack[Len(u.label_stack)].label_type = kind
    BY <1>1, GoodLabels
  <2>2. Covered(u, [open EXCEPT ![Len(open)] = kind])
    BY <1>0, <1>1, <2>1, CoveredRelabel
  <2>3. Len(open) \in 1 .. Len(open)
    BY <1>0, EmptySeq
  <2>4. [open EXCEPT ![Len(open)] = kind] \in Seq(LabelType)
    BY <1>0, <2>3, ExceptSeq
  <2> QED
    BY <1>1, <2>2, <2>4 DEF SetOpen, rest, ShapeInv, Good
<1>2. ASSUME OnElseInstr
      PROVE  ShapeInv'
  <2>1. PICK u : u = OnElse(tc)
    OBVIOUS
  <2>2. PICK kind \in LabelType : kind = "else"
    BY BlockLabels
  <2>3. /\ Good(u) /\ (u.ok => tc.ok) /\ Len(u.label_stack) = Len(tc.label_stack)
        /\ \A k \in DOMAIN tc.label_stack : k # Len(tc.label_stack) => u.label_stack[k] = tc.label_stack[k]
        /\ TopLabel(u).label_type = kind
    BY <1>0, <2>1, <2>2, ElseIs
  <2>4. tc' = u /\ SetOpen(kind) /\ UNCHANGED rest
    BY <1>2, <2>1, <2>2 DEF OnElseInstr
  <2> QED
    BY <1>1, <2>3, <2>4
<1>3. ASSUME NEW v \in Vars(Tags), NEW all \in BOOLEAN, OnCatchInstr(v, all)
      PROVE  ShapeInv'
  <2>1. PICK sig : sig = IF all THEN <<>> ELSE Lookup(v, Tags, <<>>)
    OBVIOUS
  <2>2. PICK c : c = (all \/ InRange(v, Tags))
    OBVIOUS
  <2>3. sig \in ResultType /\ c \in BOOLEAN
    BY <1>0, <2>1, <2>2, TagsAre, OneType
  <2>4. PICK t : t = Check(Instr(tc, FALSE), c)
    OBVIOUS
  <2>5. Within(tc, t) /\ Good(t)
    BY <2>3, <2>4, CheckedInstr
  <2>6. PICK u : u = OnCatch(t, sig)
    OBVIOUS
  <2>7. PICK kind \in LabelType : kind = "catch"
    BY BlockLabels
  <2>8. /\ Good(u) /\ (u.ok => t.ok) /\ Len(u.label_stack) = Len(t.label_stack)
        /\ \A k \in DOMAIN t.label_stack : k # Len(t.label_stack) => u.label_stack[k] = t.label_stack[k]
        /\ TopLabel(u).label_type = kind
    BY <2>3, <2>5, <2>6, <2>7, CatchIs
  <2>9. t.label_stack = tc.label_stack /\ (t.ok => tc.ok)
    BY <2>5 DEF Within
  <2>10. tc' = u /\ SetOpen(kind) /\ UNCHANGED rest
    BY <1>3, <2>1, <2>2, <2>4, <2>6, <2>7 DEF OnCatchInstr
  <2> QED
    BY <1>1, <2>8, <2>9, <2>10
<1> QED
  BY <1>2, <1>3

\* Closing a block, from a state t that is the checker's or says less.
LEMMA CloseShape ==
  ASSUME ShapeInv, ~Idle, NEW t, Within(tc, t), Good(t), NEW u, Shape(u), u.ok => t.ok,
         Len(u.label_stack) >= Len(t.label_stack) - 1,
         u.ok => /\ Len(u.label_stack) = Len(t.label_stack) - 1
                 /\ \A k \in 1 .. Len(t.label_stack) - 1 :
                      u.label_stack[k].label_type = t.label_stack[k].label_type,
         tc' = u, open' = Below(open, 1), UNCHANGED rest
  PROVE  ShapeInv'
<1>0. Shape(tc) /\ open \in Seq(LabelType) /\ open # <<>> /\ Covered(tc, open)
  BY DEF ShapeInv, Idle
<1>1. t.label_stack = tc.label_stack /\ (t.ok => tc.ok)
  BY DEF Within
<1>2. Covered(u, Below(open, 1)) /\ Below(open, 1) \in Seq(LabelType)
  BY <1>0, <1>1, CoveredClose
<1> QED
  BY <1>2 DEF rest, ShapeInv

LEMMA OnlyTheBlock ==
  ASSUME NEW t, Good(t), NEW u, u = EndLabel(t)
  PROVE  /\ Len(u.label_stack) = Len(t.label_stack) - 1
         /\ \A k \in 1 .. Len(t.label_stack) - 1 :
              u.label_stack[k].label_type = t.label_stack[k].label_type
BY EndIs

LEMMA EndShape ==
  ASSUME ShapeInv, ~Idle
  PROVE  /\ OnEndInstr => ShapeInv'
         /\ \A d \in Depths : OnDelegateInstr(d) => ShapeInv'
<1>1. PICK t : t = Instr(tc, FALSE)
  OBVIOUS
<1>2. Within(tc, t) /\ Good(t)
  BY <1>1, PlainInstr
<1>3. ASSUME OnEndInstr
      PROVE  ShapeInv'
  <2>1. PICK u : u = OnEnd(t)
    OBVIOUS
  <2>2. /\ Shape(u) /\ (u.ok => t.ok) /\ Len(u.label_stack) >= Len(t.label_stack) - 1
        /\ u.ok => IF TopLabel(t).label_type = "if"
                   THEN OnElse(t).ok /\ u = EndLabel(OnElse(t))
                   ELSE u = EndLabel(t)
    BY <1>2, <2>1, OnEndIs
  <2>3. ASSUME u.ok
        PROVE  /\ Len(u.label_stack) = Len(t.label_stack) - 1
               /\ \A k \in 1 .. Len(t.label_stack) - 1 :
                    u.label_stack[k].label_type = t.label_stack[k].label_type
    <3>1. CASE TopLabel(t).label_type = "if"
      <4>1. PICK e : e = OnElse(t)
        OBVIOUS
      <4>2. u = EndLabel(e)
        BY <2>2, <2>3, <3>1, <4>1
      <4>3. /\ Good(e) /\ Len(e.label_stack) = Len(t.label_stack)
            /\ \A k \in DOMAIN t.label_stack : k # Len(t.label_stack) => e.label_stack[k] = t.label_stack[k]
        BY <1>2, <4>1, ElseIs
      <4>4. /\ Len(u.label_stack) = Len(e.label_stack) - 1
            /\ \A k \in 1 .. Len(e.label_stack) - 1 :
                 u.label_stack[k].label_type = e.label_stack[k].label_type
        BY <4>2, <4>3, OnlyTheBlock
      <4>5. \A k \in 1 .. Len(t.label_stack) - 1 : k \in DOMAIN t.label_stack /\ k # Len(t.label_stack)
        BY <1>2, GoodLabels
      <4> QED
        BY <4>3, <4>4, <4>5
    <3>2. CASE TopLabel(t).label_type # "if"
      BY <1>2, <2>2, <2>3, <3>2, OnlyTheBlock
    <3> QED
      BY <3>1, <3>2
  <2>4. tc' = u /\ open' = Below(open, 1) /\ UNCHANGED rest
    BY <1>1, <1>3, <2>1 DEF OnEndInstr
  <2> QED
    BY <1>2, <2>2, <2>3, <2>4, CloseShape
<1>4. ASSUME NEW d \in Depths, OnDelegateInstr(d)
      PROVE  ShapeInv'
  <2>0. d \in Nat
    BY DepthsAre
  <2>1. PICK u : u = OnDelegate(t, d)
    OBVIOUS
  <2>2. /\ Shape(u) /\ (u.ok => t.ok) /\ Len(u.label_stack) >= Len(t.label_stack) - 1
        /\ u.ok => u = EndLabel(t)
    BY <1>2, <2>0, <2>1, DelegateIs
  <2>3. u.ok => /\ Len(u.label_stack) = Len(t.label_stack) - 1
                /\ \A k \in 1 .. Len(t.label_stack) - 1 :
                     u.label_stack[k].label_type = t.label_stack[k].label_type
    BY <1>2, <2>2, OnlyTheBlock
  <2>4. tc' = u /\ open' = Below(open, 1) /\ UNCHANGED rest
    BY <1>1, <1>4, <2>1 DEF OnDelegateInstr
  <2> QED
    BY <1>2, <2>2, <2>3, <2>4, CloseShape
<1> QED
  BY <1>3, <1>4

\* The beginning of a body: one label, and nothing on the stack.
Fresh(t, kind) ==
  /\ t \in Checker
  /\ t.type_stack = <<>>
  /\ Len(t.label_stack) = 1
  /\ t.label_stack[1].label_type = kind
  /\ t.label_stack[1].type_stack_limit = 0

LEMMA OneLabel ==
  ASSUME NEW l \in Label, NEW flag \in BOOLEAN,
         NEW t, t = [type_stack |-> <<>>, label_stack |-> <<l>>, ok |-> flag]
  PROVE  /\ t \in Checker /\ t.type_stack = <<>> /\ Len(t.label_stack) = 1
         /\ t.label_stack[1] = l /\ t.ok = flag
<1>1. <<l>> \in Seq(Label) /\ Len(<<l>>) = 1 /\ <<l>>[1] = l
  BY OneSeq
<1>2. <<>> \in Seq(StackType)
  BY EmptySeq
<1> QED
  BY <1>1, <1>2 DEF Checker

LEMMA FreshShape ==
  ASSUME NEW t, NEW kind \in LabelType, Fresh(t, kind)
  PROVE  Shape(t) /\ Covered(t, <<kind>>) /\ <<kind>> \in Seq(LabelType)
<1>1. <<kind>> \in Seq(LabelType) /\ Len(<<kind>>) = 1 /\ <<kind>>[1] = kind
  BY OneSeq
<1>2. DOMAIN <<kind>> = {1} /\ DOMAIN t.label_stack = {1}
  <2>1. DOMAIN <<kind>> = 1 .. 1
    BY <1>1, LenProperties
  <2>2. DOMAIN t.label_stack = 1 .. 1
    BY LenProperties DEF Fresh, Checker
  <2> QED
    BY <2>1, <2>2
<1>3. Covered(t, <<kind>>)
  BY <1>1, <1>2 DEF Fresh, Covered
<1>4. Nested(t)
  BY <1>2, EmptySeq DEF Fresh, Nested
<1> QED
  BY <1>1, <1>3, <1>4 DEF Fresh, Shape

LEMMA NewLabelIs ==
  ASSUME NEW kind \in LabelType, NEW params \in ResultType, NEW results \in ResultType, NEW limit \in Nat
  PROVE  /\ NewLabel(kind, params, results, limit) \in Label
         /\ NewLabel(kind, params, results, limit).label_type = kind
         /\ NewLabel(kind, params, results, limit).param_types = params
         /\ NewLabel(kind, params, results, limit).result_types = results
         /\ NewLabel(kind, params, results, limit).type_stack_limit = limit
         /\ ~NewLabel(kind, params, results, limit).unreachable
<1>1. PICK flag \in BOOLEAN : flag = FALSE
  OBVIOUS
<1>2. PICK l : l = [label_type |-> kind, param_types |-> params, result_types |-> results,
                    type_stack_limit |-> limit, unreachable |-> flag]
  OBVIOUS
<1>3. NewLabel(kind, params, results, limit) = l
  BY <1>1, <1>2 DEF NewLabel
<1> QED
  BY <1>1, <1>2, <1>3 DEF Label

LEMMA BeginIs ==
  ASSUME NEW results \in ResultType, NEW kind \in LabelType, NEW t,
         \/ kind = "func" /\ t = [BeginFunction(results) EXCEPT !.ok = TRUE]
         \/ kind = "init" /\ \E type : results = <<type>> /\ t = [BeginInitExpr(type) EXCEPT !.ok = TRUE]
  PROVE  /\ Fresh(t, kind) /\ t.ok
         /\ t.label_stack[1] = NewLabel(kind, <<>>, results, 0)
<1>1. PICK l : l = NewLabel(kind, <<>>, results, 0)
  OBVIOUS
<1>2. l \in Label /\ l.label_type = kind /\ l.type_stack_limit = 0
  BY <1>1, NewLabelIs, OneType
<1>3. PICK flag \in BOOLEAN : flag = TRUE
  OBVIOUS
<1>4. t = [type_stack |-> <<>>, label_stack |-> <<l>>, ok |-> flag]
  BY <1>1, <1>3 DEF BeginFunction, BeginInitExpr
<1>5. /\ t \in Checker /\ t.type_stack = <<>> /\ Len(t.label_stack) = 1
      /\ t.label_stack[1] = l /\ t.ok = flag
  BY <1>2, <1>4, OneLabel
<1> QED
  BY <1>1, <1>2, <1>3, <1>5 DEF Fresh

LEMMA StartShape ==
  ASSUME ShapeInv
  PROVE  /\ \A v \in Vars(Funcs) : BeginFunctionBody(v) => ShapeInv'
         /\ \A type \in {"i32", "funcref"} : BeginInit(type) => ShapeInv'
<1>1. ASSUME NEW v \in Vars(Funcs), BeginFunctionBody(v)
      PROVE  ShapeInv'
  <2>1. PICK results \in ResultType : results = Lookup(v, Funcs, NoSig).results
    BY ProfileIs, FuncsAre DEF ShapeInv
  <2>2. PICK kind \in LabelType : kind = "func"
    BY BlockLabels
  <2>3. PICK t : t = [BeginFunction(results) EXCEPT !.ok = TRUE]
    OBVIOUS
  <2>4. Fresh(t, kind)
    BY <2>1, <2>2, <2>3, BeginIs
  <2>5. Shape(t) /\ Covered(t, <<kind>>) /\ <<kind>> \in Seq(LabelType)
    BY <2>4, FreshShape
  <2>6. tc' = t /\ open' = <<kind>>
    BY <1>1, <2>1, <2>2, <2>3 DEF BeginFunctionBody, Start
  <2> QED
    BY <1>1, <2>5, <2>6 DEF BeginFunctionBody, ShapeInv
<1>2. ASSUME NEW type \in {"i32", "funcref"}, BeginInit(type)
      PROVE  ShapeInv'
  <2>1. PICK results \in ResultType : results = <<type>>
    <3>1. type \in ValueType
      BY DEF ValueType, RefType
    <3> QED
      BY <3>1, OneType
  <2>2. PICK kind \in LabelType : kind = "init"
    BY BlockLabels
  <2>3. PICK t : t = [BeginInitExpr(type) EXCEPT !.ok = TRUE]
    OBVIOUS
  <2>4. Fresh(t, kind)
    BY <2>1, <2>2, <2>3, BeginIs
  <2>5. Shape(t) /\ Covered(t, <<kind>>) /\ <<kind>> \in Seq(LabelType)
    BY <2>4, FreshShape
  <2>6. tc' = t /\ open' = <<kind>>
    BY <1>2, <2>2, <2>3 DEF BeginInit, Start
  <2>7. in_init_expr' \in BOOLEAN
    BY <1>2 DEF BeginInit
  <2> QED
    BY <1>2, <2>5, <2>6, <2>7 DEF BeginInit, ShapeInv
<1> QED
  BY <1>1, <1>2

LEMMA FinishIs ==
  ASSUME ShapeInv, ~Idle, NEW kind \in LabelType, NEW u,
         \/ kind = "func" /\ u = EndFunction(tc)
         \/ kind = "init" /\ u = EndInitExpr(tc)
  PROVE  Shape(u) /\ (u.ok => tc.ok /\ u = EndLabel(tc))
<1>1. Good(tc)
  BY PlainInstr
<1>2. PICK c : c = (TopLabel(tc).label_type = kind)
  OBVIOUS
<1>3. c \in BOOLEAN
  BY <1>2
<1>4. PICK t : t = Check(tc, c)
  OBVIOUS
<1>5. Within(tc, t) /\ Good(t) /\ (t.ok => t = tc)
  BY <1>1, <1>3, <1>4, CheckIs
<1>6. u = EndLabel(t)
  BY <1>2, <1>4 DEF EndFunction, EndInitExpr
<1>7. Shape(u) /\ (u.ok => t.ok)
  BY <1>5, <1>6, EndIs
<1> QED
  BY <1>5, <1>6, <1>7

LEMMA FinishShape ==
  ASSUME ShapeInv
  PROVE  EndFunctionBody \/ EndInit => ShapeInv'
<1>2. ASSUME NEW u, Shape(u), tc' = u, open' = <<>>, profile' = profile, br_table' = br_table,
             in_init_expr' \in BOOLEAN
      PROVE  ShapeInv'
  <2>1. <<>> \in Seq(LabelType)
    BY EmptySeq
  <2>2. Covered(u, <<>>)
    BY DEF Covered
  <2> QED
    BY <1>2, <2>1, <2>2 DEF ShapeInv
<1>3. ASSUME EndFunctionBody PROVE ShapeInv'
  <2>1. ~Idle
    BY <1>3 DEF EndFunctionBody, InBody, Going
  <2>2. PICK kind \in LabelType : kind = "func"
    BY BlockLabels
  <2>3. PICK u : u = EndFunction(tc)
    OBVIOUS
  <2>4. Shape(u)
    BY <2>1, <2>2, <2>3, FinishIs
  <2> QED
    BY <1>2, <1>3, <2>3, <2>4 DEF EndFunctionBody, Finish, rest, ShapeInv
<1>4. ASSUME EndInit PROVE ShapeInv'
  <2>1. ~Idle
    BY <1>4 DEF EndInit, InBody, Going
  <2>2. PICK kind \in LabelType : kind = "init"
    BY BlockLabels
  <2>3. PICK u : u = EndInitExpr(tc)
    OBVIOUS
  <2>4. Shape(u)
    BY <2>1, <2>2, <2>3, FinishIs
  <2>5. in_init_expr' \in BOOLEAN
    BY <1>4 DEF EndInit
  <2> QED
    BY <1>2, <1>4, <2>3, <2>4, <2>5 DEF EndInit, Finish
<1> QED
  BY <1>3, <1>4

LEMMA InitShape == Init => ShapeInv
<1> SUFFICES ASSUME Init
             PROVE  ShapeInv
  OBVIOUS
<1>1. tc = [type_stack |-> <<>>, label_stack |-> <<>>, ok |-> TRUE]
  BY DEF Init, BeginFunction
<1>2. <<>> \in Seq(StackType) /\ <<>> \in Seq(Label) /\ <<>> \in Seq(LabelType) /\ <<>> \in ResultType
  BY EmptySeq DEF ResultType
<1>3. tc \in Checker
  BY <1>1, <1>2 DEF Checker
<1>4. DOMAIN tc.label_stack = {}
  BY <1>1
<1>5. Nested(tc)
  BY <1>4 DEF Nested
<1>6. Covered(tc, open)
  BY DEF Init, Covered
<1>7. br_table \in [active : BOOLEAN, first : BOOLEAN, sig : ResultType]
  BY <1>2 DEF Init, NoBrTable
<1>8. in_init_expr \in BOOLEAN /\ profile \in DOMAIN Profiles /\ open \in Seq(LabelType)
  BY <1>2 DEF Init
<1> QED
  BY <1>3, <1>5, <1>6, <1>7, <1>8 DEF ShapeInv, Shape

LEMMA BodyShape ==
  ASSUME ShapeInv, Body
  PROVE  ShapeInv'
<1>1. ~Idle
  BY DEF Body, InBody, Going
<1>2. \E d \in Depths : TRUE
  BY LenProperties DEF Depths, ShapeInv
<1> QED
  BY <1>1, <1>2, BlockShape, PartShape, EndShape, BranchShape, BrTableShape, CallShape, CallRefShape,
     OpcodeShape, ParametricShape, GlobalShape, RefFuncShape, TableShape, TableCopyShape
     DEF Body

LEMMA NextShape ==
  ASSUME ShapeInv, [Next]_vars
  PROVE  ShapeInv'
<1>1. CASE UNCHANGED vars
  BY <1>1 DEF vars, ShapeInv
<1>2. ASSUME NEW v \in Vars(Funcs), OnExport(v)
      PROVE  ShapeInv'
  BY <1>2 DEF OnExport, ShapeInv
<1> QED
  BY <1>1, <1>2, StartShape, FinishShape, BodyShape, BrTableShape DEF Next

\* The type checker's stacks are well formed in every reachable state, with
\* labels for the caller's blocks, whatever was reported.
THEOREM ShapeInvariant == Spec => []ShapeInv
<1>1. Init => ShapeInv
  BY InitShape
<1>2. ShapeInv /\ [Next]_vars => ShapeInv'
  BY NextShape
<1> QED
  BY <1>1, <1>2, PTL DEF Spec

\* The limits of the labels are nested and lie within the type stack, in every
\* module and for every caller, also after errors.
THEOREM LimitsNested == Spec => []LimitsOK
<1>1. ShapeInv => LimitsOK
  BY DEF ShapeInv, Shape, Nested, LimitsOK
<1> QED
  BY <1>1, ShapeInvariant, PTL

\* Every block the caller has open is covered by a label, and as long as
\* nothing failed the labels are the blocks.
THEOREM BlocksCovered == Spec => []NestingCovered
<1>1. ShapeInv => NestingCovered
  BY DEF ShapeInv, Covered, Idle, NestingCovered
<1> QED
  BY <1>1, ShapeInvariant, PTL

\* What ref.func was accepted for is declared or waits for its check.
UsesRecorded == used \subseteq declared \cup to_declare

LEMMA UsesKept ==
  ASSUME ShapeInv, UsesRecorded, [Next]_vars
  PROVE  UsesRecorded'
<1>1. CASE UNCHANGED <<declared, to_declare, used>>
  BY <1>1 DEF UsesRecorded
<1>2. ASSUME NEW v \in Vars(Funcs), OnExport(v)
      PROVE  UsesRecorded'
  BY <1>2 DEF OnExport, UsesRecorded
<1>3. ASSUME ~Idle, NEW v \in Vars(Funcs), OnRefFuncInstr(v)
      PROVE  UsesRecorded'
  <2>0. IsProfile(P)
    BY ProfileIs DEF ShapeInv
  <2>1. PICK valid \in BOOLEAN : valid = InRange(v, Funcs)
    BY <2>0, FuncsAre
  <2>2. CASE valid
    <3>1. v \in declared' \cup to_declare'
      BY <1>3, <2>1, <2>2 DEF OnRefFuncInstr
    <3>2. declared \subseteq declared' /\ to_declare \subseteq to_declare' /\ used' \subseteq used \cup {v}
      BY <1>3 DEF OnRefFuncInstr
    <3> QED
      BY <3>1, <3>2 DEF UsesRecorded
  <2>3. CASE ~valid
    <3>1. tc' = Check(Instr(tc, TRUE), valid)
      BY <1>3, <2>1, <2>3 DEF OnRefFuncInstr
    <3>2. ~tc'.ok
      BY <1>3, <2>3, <3>1, ConstInstr
    <3> QED
      BY <1>3, <3>2 DEF OnRefFuncInstr, UsesRecorded
  <2> QED
    BY <2>2, <2>3
<1>4. ASSUME Body
      PROVE  UsesRecorded'
  BY <1>1, <1>3, <1>4
     DEF Body, OnBlockInstr, Opened, OnElseInstr, OnCatchInstr, OnEndInstr, OnDelegateInstr, rest,
         OnBrInstr, OnBrIfInstr, BeginBrTableInstr, OnReturnInstr, OnUnreachableInstr, OnRethrowInstr,
         OnCallInstr, OnCallIndirectInstr, OnCallRefInstr, OnReturnCallInstr, OnReturnCallIndirectInstr,
         OnThrowInstr, OnOpcodeInstr, OnDropInstr, OnSelectInstr, OnGlobalGetInstr, OnGlobalSetInstr,
         OnRefIsNullInstr, OnTableInstr, OnTableCopyInstr, Step, InBody, Going
<1>5. UNCHANGED vars => UNCHANGED <<declared, to_declare, used>>
  BY DEF vars
<1> QED
  BY <1>1, <1>2, <1>4, <1>5
     DEF Next, BeginFunctionBody, BeginInit, EndFunctionBody, EndInit, rest, OnBrTableTargetInstr,
         EndBrTableInstr

\* A module that passes the last check takes references only to functions
\* declared outside function bodies, in whatever order bodies, exports and
\* initializers came.
THEOREM ReferencesDeclared == Spec => []RefFuncsDeclared
<1>1. Init => UsesRecorded
  BY DEF Init, UsesRecorded
<1>2. ShapeInv /\ UsesRecorded /\ [Next]_vars => UsesRecorded'
  BY UsesKept
<1>3. UsesRecorded => RefFuncsDeclared
  BY DEF UsesRecorded, RefFuncsDeclared, EndModule
<1> QED
  BY <1>1, <1>2, <1>3, ShapeInvariant, PTL DEF Spec

-----------------------------------------------------------------------------
(* The machine's operators                                                  *)

LEMMA BelowIs ==
  ASSUME NEW S, NEW s \in Seq(S), NEW n \in Nat
  PROVE  Below(s, n) \in Seq(S)
<1>1. Len(s) \in Nat
  BY LenProperties
<1>2. CASE n <= Len(s)
  <2>1. PICK k : k = Len(s) - n
    OBVIOUS
  <2>2. k \in Nat /\ k <= Len(s)
    BY <1>1, <1>2, <2>1
  <2> QED
    BY <2>1, <2>2, Prefix DEF Below
<1>3. CASE ~(n <= Len(s))
  <2>1. PICK k : k = Len(s) - n
    OBVIOUS
  <2>2. k \in Int /\ k < 1
    BY <1>1, <1>3, <2>1
  <2>3. SubSeq(s, 1, k) = <<>>
    BY <2>2, SubSeqEmpty
  <2> QED
    BY <2>1, <2>3, EmptySeq DEF Below
<1> QED
  BY <1>2, <1>3

LEMMA TopIs ==
  ASSUME NEW S, NEW s \in Seq(S), NEW n \in Nat
  PROVE  TopN(s, n) \in Seq(S)
<1>1. Len(s) \in Nat
  BY LenProperties
<1>2. CASE n > Len(s)
  BY <1>2, EmptySeq DEF TopN
<1>3. CASE ~(n > Len(s))
  <2>1. PICK p, q : p = Len(s) - n + 1 /\ q = Len(s)
    OBVIOUS
  <2>2. p \in Int /\ q \in Int /\ \A i \in p .. q : i \in 1 .. Len(s)
    BY <1>1, <1>3, <2>1
  <2>3. \A i \in p .. q : s[i] \in S
    BY <2>2, ElementOfSeq
  <2>4. SubSeq(s, p, q) \in Seq(S)
    BY <2>2, <2>3, SubSeqProperties
  <2> QED
    BY <1>3, <2>1, <2>4 DEF TopN
<1> QED
  BY <1>2, <1>3

\* The machine gets what it needs.
LEMMA NeedsIs ==
  ASSUME NEW mm \in Machine, ~mm.stuck, NEW types,
         mm.live => TopN(mm.stack, Len(types)) = types
  PROVE  Needs(mm, types) = mm
<1>1. (mm.stuck \/ (mm.live /\ TopN(mm.stack, Len(types)) # types)) = mm.stuck
  BY DEF Machine
<1>2. Needs(mm, types) = [mm EXCEPT !.stuck = mm.stuck]
  BY <1>1 DEF Needs
<1> QED
  BY <1>2 DEF Machine

LEMMA ExecIs ==
  ASSUME NEW mm \in Machine, ~mm.stuck, NEW b \in Seq(StackType), NEW params \in Seq(StackType),
         NEW results \in Seq(StackType), mm.live, mm.stack = On(b, params),
         NEW n, n = Exec(mm, params, results)
  PROVE  /\ n \in Machine /\ ~n.stuck /\ n.live /\ n.ctl = mm.ctl
         /\ n.stack = On(b, results)
<1>1. TopN(mm.stack, Len(params)) = params /\ Below(mm.stack, Len(params)) = b
  BY TopOfConcat DEF On
<1>2. Needs(mm, params) = mm
  BY <1>1, NeedsIs
<1>3. PICK s : s = b \o results
  OBVIOUS
<1>4. s \in Seq(StackType)
  BY <1>3, ConcatProperties
<1>5. n = [mm EXCEPT !.stack = s]
  BY <1>1, <1>2, <1>3 DEF Exec
<1> QED
  BY <1>3, <1>4, <1>5 DEF Machine, On

LEMMA KillIs ==
  ASSUME NEW mm \in Machine, NEW n, n = Kill(mm)
  PROVE  n \in Machine /\ n.stuck = mm.stuck /\ n.ctl = mm.ctl /\ ~n.live
<1>1. PICK flag \in BOOLEAN : flag = FALSE
  OBVIOUS
<1>2. PICK s : s = <<>>
  OBVIOUS
<1>3. s \in Seq(StackType)
  BY <1>2, EmptySeq
<1>4. n = [mm EXCEPT !.live = flag, !.stack = s]
  BY <1>1, <1>2 DEF Kill
<1> QED
  BY <1>1, <1>3, <1>4 DEF Machine

-----------------------------------------------------------------------------
(* Steps of the checker and the frames                                      *)

LEMMA FrameIs ==
  ASSUME NEW t, Good(t), NEW ctl \in Seq(FrameType), Frames(t, ctl)
  PROVE  /\ Len(ctl) \in Nat \ {0} /\ DOMAIN ctl = 1 .. Len(ctl)
         /\ Len(ctl) = Len(t.label_stack) /\ DOMAIN ctl = DOMAIN t.label_stack
         /\ \A k \in DOMAIN ctl : ctl[k] \in FrameType
<1>1. Len(ctl) = Len(t.label_stack) /\ Len(t.label_stack) \in Nat \ {0}
      /\ DOMAIN t.label_stack = 1 .. Len(t.label_stack)
  BY GoodLabels DEF Frames
<1>2. DOMAIN ctl = 1 .. Len(ctl)
  BY LenProperties
<1>3. \A k \in DOMAIN ctl : ctl[k] \in FrameType
  BY <1>2, ElementOfSeq
<1> QED
  BY <1>1, <1>2, <1>3

\* What is above the innermost label's limit does not matter, nor whether the
\* rest of the innermost block is unreachable.
LEMMA FramesStay ==
  ASSUME NEW t, Good(t), NEW ctl \in Seq(FrameType), Frames(t, ctl), NEW u, Good(u),
         Len(u.label_stack) = Len(t.label_stack),
         \A k \in DOMAIN t.label_stack : k # Len(t.label_stack) => u.label_stack[k] = t.label_stack[k],
         SameBlock(TopLabel(t), TopLabel(u)),
         TopLabel(u).label_type = "loop" <=> TopLabel(t).label_type = "loop",
         SubSeq(u.type_stack, 1, Lim(t)) = SubSeq(t.type_stack, 1, Lim(t))
  PROVE  Frames(u, ctl)
<1>1. PICK n : n = Len(t.label_stack)
  OBVIOUS
<1>2. /\ n \in Nat \ {0} /\ DOMAIN t.label_stack = 1 .. n /\ DOMAIN u.label_stack = 1 .. n
      /\ Len(ctl) = n /\ DOMAIN ctl = 1 .. n
      /\ TopLabel(t) = t.label_stack[n] /\ TopLabel(u) = u.label_stack[n]
  BY <1>1, GoodLabels, FrameIs
<1>3. \A k \in 1 .. n :
        /\ SameBlock(t.label_stack[k], u.label_stack[k])
        /\ u.label_stack[k].label_type = "loop" <=> t.label_stack[k].label_type = "loop"
        /\ k # n => u.label_stack[k].unreachable = t.label_stack[k].unreachable
  BY <1>1, <1>2 DEF SameBlock
<1>4. \A k \in 1 .. n :
        SubSeq(u.type_stack, 1, t.label_stack[k].type_stack_limit)
          = SubSeq(t.type_stack, 1, t.label_stack[k].type_stack_limit)
  <2> SUFFICES ASSUME NEW k \in 1 .. n
               PROVE  SubSeq(u.type_stack, 1, t.label_stack[k].type_stack_limit)
                        = SubSeq(t.type_stack, 1, t.label_stack[k].type_stack_limit)
    OBVIOUS
  <2>1. PICK j : j = t.label_stack[k].type_stack_limit
    OBVIOUS
  <2>2. j \in Nat /\ j <= Lim(t) /\ Lim(t) \in Nat /\ Lim(t) <= Len(t.type_stack)
    BY <1>2, <2>1, GoodLabels DEF Label
  <2>3. Lim(t) <= Len(u.type_stack)
    <3>1. Lim(u) = Lim(t)
      BY DEF Lim, SameBlock
    <3> QED
      BY <3>1, GoodLabels
  <2>4. t.type_stack \in Seq(StackType) /\ u.type_stack \in Seq(StackType)
    BY GoodLabels DEF Checker
  <2>5. SubSeq(u.type_stack, 1, j) = SubSeq(t.type_stack, 1, j)
    BY <2>2, <2>3, <2>4, LowerPrefix
  <2> QED
    BY <2>1, <2>5
<1>5. \A k \in DOMAIN ctl : FrameAgrees(ctl[k], u.label_stack[k], u.type_stack)
  <2> SUFFICES ASSUME NEW k \in DOMAIN ctl
               PROVE  FrameAgrees(ctl[k], u.label_stack[k], u.type_stack)
    OBVIOUS
  <2>1. FrameAgrees(ctl[k], t.label_stack[k], t.type_stack) /\ k \in 1 .. n
    BY <1>2 DEF Frames
  <2> QED
    BY <1>3, <1>4, <2>1 DEF FrameAgrees, SameBlock
<1>6. \A k, l \in DOMAIN ctl :
        k < l /\ ctl[l].entered => ctl[k].entered /\ ~u.label_stack[k].unreachable
  <2> SUFFICES ASSUME NEW k \in DOMAIN ctl, NEW l \in DOMAIN ctl, k < l, ctl[l].entered
               PROVE  ctl[k].entered /\ ~u.label_stack[k].unreachable
    OBVIOUS
  <2>1. ctl[k].entered /\ ~t.label_stack[k].unreachable
    BY DEF Frames
  <2>2. k \in 1 .. n /\ k # n
    BY <1>2
  <2> QED
    BY <1>3, <2>1, <2>2
<1>7. u.label_stack[1].type_stack_limit = 0
  BY <1>2, <1>3 DEF Frames, SameBlock
<1> QED
  BY <1>2, <1>5, <1>6, <1>7 DEF Frames

LEMMA FramesWithin ==
  ASSUME NEW t, Good(t), NEW ctl \in Seq(FrameType), Frames(t, ctl), NEW u, Within(t, u)
  PROVE  Frames(u, ctl)
<1>1. Good(u) /\ TopLabel(u) = TopLabel(t) /\ u.label_stack = t.label_stack
  BY WithinGood DEF Within
<1>2. SameBlock(TopLabel(t), TopLabel(u))
  BY <1>1 DEF SameBlock
<1>3. SubSeq(u.type_stack, 1, Lim(t)) = SubSeq(t.type_stack, 1, Lim(t))
  BY DEF Within
<1> QED
  BY <1>1, <1>2, <1>3, FramesStay

\* Control leaves, and the rest of the block is unreachable.
LEMMA KillAgrees ==
  ASSUME NEW t, Good(t), NEW mm \in Machine, ~mm.stuck, Frames(t, mm.ctl)
  PROVE  Agree(SetUnreachable(t), Kill(mm))
<1>1. PICK u : u = SetUnreachable(t)
  OBVIOUS
<1>2. PICK n : n = Kill(mm)
  OBVIOUS
<1>3. n \in Machine /\ n.stuck = mm.stuck /\ n.ctl = mm.ctl /\ ~n.live
  BY <1>2, KillIs
<1>4. /\ Good(u) /\ u.type_stack = SubSeq(t.type_stack, 1, Lim(t))
      /\ Len(u.label_stack) = Len(t.label_stack)
      /\ \A k \in DOMAIN t.label_stack : k # Len(t.label_stack) => u.label_stack[k] = t.label_stack[k]
      /\ TopLabel(u).label_type = TopLabel(t).label_type
      /\ SameBlock(TopLabel(t), TopLabel(u))
  BY <1>1, SetUnreachableIs
<1>5. SubSeq(u.type_stack, 1, Lim(t)) = SubSeq(t.type_stack, 1, Lim(t))
  <2>1. t.type_stack \in Seq(StackType) /\ Lim(t) \in Nat /\ Lim(t) <= Len(t.type_stack)
    BY GoodLabels DEF Checker
  <2>2. Lim(t) <= Lim(t)
    BY <2>1
  <2> QED
    BY <1>4, <2>1, <2>2, PrefixOfPrefix
<1>6. mm.ctl \in Seq(FrameType)
  BY DEF Machine
<1>7. Frames(u, mm.ctl)
  BY <1>4, <1>5, <1>6, FramesStay
<1> QED
  BY <1>1, <1>2, <1>3, <1>7 DEF Agree

\* An instruction that takes params off the stack and puts results there.
LEMMA RunsLive ==
  ASSUME NEW t, Good(t), NEW mm, Agree(t, mm), NEW u, Within(t, u), mm.live,
         NEW params \in Seq(StackType), NEW results \in ResultType, NEW b \in ResultType,
         t.type_stack = On(b, params), u.type_stack = On(b, results),
         NEW n, n = Exec(mm, params, results)
  PROVE  Agree(u, n)
<1>1. mm \in Machine /\ ~mm.stuck /\ Frames(t, mm.ctl) /\ mm.ctl \in Seq(FrameType)
  BY DEF Agree, Machine
<1>2. Frames(u, mm.ctl)
  BY <1>1, FramesWithin
<1>3. Running(t, mm)
  BY DEF Agree
<1>4. mm.stack = On(b, params)
  BY <1>3 DEF Running
<1>5. b \in Seq(StackType) /\ results \in Seq(StackType)
  BY ResultsAreOperands
<1>6. n \in Machine /\ ~n.stuck /\ n.live /\ n.ctl = mm.ctl /\ n.stack = On(b, results)
  BY <1>1, <1>4, <1>5, ExecIs
<1>7. u.type_stack \in ResultType
  BY ConcatProperties DEF ResultType, On
<1>8. TopLabel(u) = TopLabel(t)
  BY WithinGood
<1> QED
  BY <1>2, <1>3, <1>6, <1>7, <1>8 DEF Agree, Running

LEMMA RunsTo ==
  ASSUME NEW t, Good(t), NEW mm, Agree(t, mm), NEW u, Within(t, u),
         NEW params \in Seq(StackType), NEW results \in ResultType,
         mm.live => \E b \in ResultType : t.type_stack = On(b, params) /\ u.type_stack = On(b, results),
         NEW n, n = Exec(mm, params, results)
  PROVE  Agree(u, n)
<1>1. CASE ~mm.live
  <2>1. mm \in Machine /\ ~mm.stuck /\ Frames(t, mm.ctl) /\ mm.ctl \in Seq(FrameType)
    BY DEF Agree, Machine
  <2>2. Frames(u, mm.ctl)
    BY <2>1, FramesWithin
  <2>3. n = mm
    BY <1>1 DEF Exec
  <2> QED
    BY <1>1, <2>1, <2>2, <2>3 DEF Agree
<1>2. CASE mm.live
  <2>1. PICK b \in ResultType : t.type_stack = On(b, params) /\ u.type_stack = On(b, results)
    BY <1>2
  <2> QED
    BY <1>2, <2>1, RunsLive
<1> QED
  BY <1>1, <1>2

-----------------------------------------------------------------------------
(* What an accepting checker knows of code that runs                        *)

\* Code that may run, with types none of which was made up.
Typed(t) ==
  Good(t) /\ ~TopLabel(t).unreachable /\ t.type_stack \in ResultType

LEMMA TypedIs ==
  ASSUME NEW t, Good(t), NEW mm, Agree(t, mm), mm.live
  PROVE  Typed(t) /\ mm.stack = t.type_stack
BY DEF Agree, Running, Typed

\* An accepted signature is on the stack, above the block's limit.
LEMMA SigExact ==
  ASSUME NEW t, Typed(t), NEW sig \in ResultType, NEW u, u = CheckSignature(t, sig), u.ok,
         NEW b, b = SubSeq(t.type_stack, 1, Len(t.type_stack) - Len(sig))
  PROVE  /\ b \in ResultType /\ t.type_stack = On(b, sig)
         /\ Lim(t) + Len(sig) <= Len(t.type_stack)
         /\ u.type_stack = t.type_stack
<1>1. /\ Good(t) /\ Lim(t) \in Nat /\ Len(t.type_stack) \in Nat /\ Len(sig) \in Nat
      /\ Lim(t) <= Len(t.type_stack) /\ ~TopLabel(t).unreachable
      /\ t.type_stack \in Seq(ValueType) /\ sig \in Seq(ValueType) /\ DOMAIN sig = 1 .. Len(sig)
  BY GoodLabels, LenProperties DEF Typed, ResultType
<1>2. \A i \in 1 .. Len(sig) : /\ PeekType(t, Len(sig) - i).ok
                               /\ CheckType(PeekType(t, Len(sig) - i).type, sig[i])
  BY <1>1, CheckSignatureWithin
<1>3. \A i \in 1 .. Len(sig) :
        /\ Lim(t) + (Len(sig) - i) < Len(t.type_stack)
        /\ t.type_stack[Len(t.type_stack) - (Len(sig) - i)] = sig[i]
  <2> SUFFICES ASSUME NEW i \in 1 .. Len(sig)
               PROVE  /\ Lim(t) + (Len(sig) - i) < Len(t.type_stack)
                      /\ t.type_stack[Len(t.type_stack) - (Len(sig) - i)] = sig[i]
    OBVIOUS
  <2>1. PICK d : d = Len(sig) - i
    OBVIOUS
  <2>2. d \in Nat /\ PeekType(t, d).ok /\ CheckType(PeekType(t, d).type, sig[i])
    BY <1>1, <1>2, <2>1
  <2>3. Lim(t) + d < Len(t.type_stack) /\ PeekType(t, d).type = t.type_stack[Len(t.type_stack) - d]
    BY <1>1, <2>2, PeekIs
  <2>4. Len(t.type_stack) - d \in 1 .. Len(t.type_stack)
    BY <1>1, <2>2, <2>3
  <2>5. PICK v, w : v = t.type_stack[Len(t.type_stack) - d] /\ w = sig[i]
    OBVIOUS
  <2>6. v \in ValueType /\ w \in ValueType
    BY <1>1, <2>4, <2>5, ElementOfSeq
  <2>7. CheckType(v, w)
    BY <2>2, <2>3, <2>5
  <2>8. v = w
    BY <2>6, <2>7, AnyIsNoValueType DEF CheckType
  <2> QED
    BY <2>1, <2>3, <2>5, <2>8
<1>4. Lim(t) + Len(sig) <= Len(t.type_stack)
  <2>1. CASE Len(sig) = 0
    BY <2>1, <1>1
  <2>2. CASE Len(sig) # 0
    <3>1. 1 \in 1 .. Len(sig)
      BY <2>2, <1>1
    <3>2. Lim(t) + (Len(sig) - 1) < Len(t.type_stack)
      BY <3>1, <1>3
    <3> QED
      BY <3>2, <1>1
  <2> QED
    BY <2>1, <2>2
<1>5. PICK n : n = Len(t.type_stack) - Len(sig)
  OBVIOUS
<1>6. n \in Nat /\ n <= Len(t.type_stack) /\ n + Len(sig) = Len(t.type_stack)
  BY <1>1, <1>4, <1>5
<1>7. b = SubSeq(t.type_stack, 1, n) /\ b \in Seq(ValueType)
  BY <1>1, <1>5, <1>6, Prefix
<1>8. \A i \in 1 .. Len(sig) : t.type_stack[n + i] = sig[i]
  <2> SUFFICES ASSUME NEW i \in 1 .. Len(sig)
               PROVE  t.type_stack[n + i] = sig[i]
    OBVIOUS
  <2>1. Len(t.type_stack) - (Len(sig) - i) = n + i
    BY <1>1, <1>5
  <2> QED
    BY <1>3, <2>1
<1>9. t.type_stack = SubSeq(t.type_stack, 1, n) \o sig
  BY <1>1, <1>6, <1>8, CutSeq
<1>10. u.type_stack = t.type_stack
  BY <1>1, CheckSignatureWithin
<1> QED
  BY <1>4, <1>7, <1>9, <1>10 DEF On, ResultType

\* And popped, it is taken off.
LEMMA PopExact ==
  ASSUME NEW t, Typed(t), NEW sig \in ResultType, NEW u, u = PopAndCheckSignature(t, sig), u.ok
  PROVE  Typed(u) /\ t.type_stack = On(u.type_stack, sig)
<1>1. PICK v : v = CheckSignature(t, sig)
  OBVIOUS
<1>2. Good(t) /\ Within(t, v) /\ Good(v) /\ Lim(v) = Lim(t) /\ v.type_stack = t.type_stack
  BY <1>1, CheckSignatureWithin, WithinGood DEF Typed
<1>3. Len(sig) \in Nat
  BY ResultsAreOperands
<1>4. u = DropTypes(v, Len(sig))
  BY <1>1 DEF PopAndCheckSignature
<1>5. Within(v, u)
  BY <1>2, <1>3, <1>4, DropWithin
<1>6. v.ok
  BY <1>5 DEF Within
<1>7. PICK b : b = SubSeq(t.type_stack, 1, Len(t.type_stack) - Len(sig))
  OBVIOUS
<1>8. /\ b \in ResultType /\ t.type_stack = On(b, sig)
      /\ Lim(t) + Len(sig) <= Len(t.type_stack)
  BY <1>1, <1>6, <1>7, SigExact
<1>9. u.type_stack = b
  <2>1. Lim(v) + Len(sig) <= Len(v.type_stack)
    BY <1>2, <1>8
  <2> QED
    BY <1>2, <1>3, <1>4, <1>7, <2>1, DropWithin
<1>10. Good(u) /\ TopLabel(u) = TopLabel(t)
  BY <1>2, <1>5, WithinGood
<1> QED
  BY <1>8, <1>9, <1>10 DEF Typed

LEMMA CallExact ==
  ASSUME NEW t, Typed(t), NEW params \in ResultType, NEW results \in ResultType,
         NEW u, u = PopAndCheckCall(t, params, results), u.ok
  PROVE  \E b \in ResultType : t.type_stack = On(b, params) /\ u.type_stack = On(b, results)
<1>1. PICK v : v = PopAndCheckSignature(t, params)
  OBVIOUS
<1>2. Good(v) /\ u = PushTypes(v, results)
  BY <1>1, PopWithin, WithinGood DEF PopAndCheckCall, Typed
<1>3. results \in Seq(StackType)
  BY ResultsAreOperands
<1>4. v.ok /\ u.type_stack = v.type_stack \o results
  BY <1>2, <1>3, PushWithin
<1>5. Typed(v) /\ t.type_stack = On(v.type_stack, params)
  BY <1>1, <1>4, PopExact
<1> QED
  BY <1>4, <1>5 DEF Typed, On

\* A call, and every plain instruction.
LEMMA CallAgrees ==
  ASSUME NEW t, Good(t), NEW mm, Agree(t, mm), NEW params \in ResultType, NEW results \in ResultType,
         NEW u, u = PopAndCheckCall(t, params, results), u.ok, NEW n, n = Exec(mm, params, results)
  PROVE  Agree(u, n)
<1>1. Within(t, u)
  BY CallWithin
<1>2. params \in Seq(StackType)
  BY ResultsAreOperands
<1>3. mm.live => \E b \in ResultType : t.type_stack = On(b, params) /\ u.type_stack = On(b, results)
  BY TypedIs, CallExact
<1> QED
  BY <1>1, <1>2, <1>3, RunsTo

\* Whatever the instruction, a machine that does not run says nothing.
LEMMA Rests ==
  ASSUME NEW t, Good(t), NEW mm, Agree(t, mm), NEW u, Within(t, u), ~mm.live,
         NEW params, NEW results, NEW n, n = Exec(mm, params, results)
  PROVE  Agree(u, n)
<1>1. mm \in Machine /\ ~mm.stuck /\ Frames(t, mm.ctl) /\ mm.ctl \in Seq(FrameType)
  BY DEF Agree, Machine
<1>2. Frames(u, mm.ctl)
  BY <1>1, FramesWithin
<1>3. n = mm
  BY DEF Exec
<1> QED
  BY <1>1, <1>2, <1>3 DEF Agree

LEMMA OnNothing ==
  ASSUME NEW b \in ResultType
  PROVE  On(b, <<>>) = b
BY ConcatEmptySeq DEF On, ResultType

\* Operands taken whatever they are.
LEMMA DropExact ==
  ASSUME NEW t, Typed(t), NEW k \in Nat, NEW u, u = DropTypes(t, k), u.ok
  PROVE  /\ Typed(u) /\ Lim(t) + k <= Len(t.type_stack)
         /\ u.type_stack = SubSeq(t.type_stack, 1, Len(t.type_stack) - k)
         /\ TopN(t.type_stack, k) \in ResultType
         /\ t.type_stack = On(u.type_stack, TopN(t.type_stack, k))
         /\ Len(TopN(t.type_stack, k)) = k
         /\ \A i \in 1 .. k : TopN(t.type_stack, k)[i] = t.type_stack[Len(t.type_stack) - k + i]
<1>1. /\ Good(t) /\ Lim(t) \in Nat /\ Len(t.type_stack) \in Nat
      /\ Lim(t) <= Len(t.type_stack) /\ ~TopLabel(t).unreachable
      /\ t.type_stack \in Seq(ValueType)
  BY GoodLabels DEF Typed, ResultType
<1>2. Lim(t) + k <= Len(t.type_stack)
  <2> SUFFICES ASSUME Lim(t) + k > Len(t.type_stack)
               PROVE  FALSE
    BY <1>1
  <2>1. u = Check(ResetTypeStackToLabel(t), TopLabel(t).unreachable)
    BY DEF DropTypes, Lim
  <2>2. PICK c \in BOOLEAN : c = TopLabel(t).unreachable
    BY GoodLabels, <1>1 DEF Label
  <2>3. PICK v : v = ResetTypeStackToLabel(t)
    OBVIOUS
  <2>4. Good(v)
    BY <1>1, <2>3, ResetWithin, WithinGood
  <2>5. u = Check(v, c)
    BY <2>1, <2>2, <2>3
  <2>6. u.ok => c
    BY <2>4, <2>5, CheckIs
  <2> QED
    BY <1>1, <2>2, <2>6
<1>3. PICK n : n = Len(t.type_stack) - k
  OBVIOUS
<1>4. n \in Nat /\ n <= Len(t.type_stack) /\ n + k = Len(t.type_stack)
  BY <1>1, <1>2, <1>3
<1>5. Within(t, u) /\ u.type_stack = SubSeq(t.type_stack, 1, n)
  BY <1>1, <1>2, <1>3, DropWithin
<1>6. u.type_stack \in Seq(ValueType)
  BY <1>1, <1>4, <1>5, Prefix
<1>7. Good(u) /\ TopLabel(u) = TopLabel(t)
  BY <1>1, <1>5, WithinGood
<1>8. PICK x : x = TopN(t.type_stack, k)
  OBVIOUS
<1>9. /\ x \in Seq(ValueType) /\ Len(x) = k
      /\ \A i \in 1 .. k : x[i] = t.type_stack[n + i]
  <2>1. ~(k > Len(t.type_stack))
    BY <1>1, <1>4
  <2>2. PICK p, q : p = n + 1 /\ q = n + k
    OBVIOUS
  <2>3. x = SubSeq(t.type_stack, p, q)
    BY <1>3, <1>4, <1>8, <2>1, <2>2 DEF TopN
  <2>4. p \in Int /\ q \in Int /\ \A i \in p .. q : i \in 1 .. Len(t.type_stack)
    BY <1>1, <1>4, <2>2
  <2>5. \A i \in p .. q : t.type_stack[i] \in ValueType
    BY <1>1, <2>4, ElementOfSeq
  <2>6. /\ x \in Seq(ValueType)
        /\ Len(x) = IF p <= q THEN q - p + 1 ELSE 0
        /\ \A i \in 1 .. q - p + 1 : x[i] = t.type_stack[p + i - 1]
    BY <2>3, <2>4, <2>5, SubSeqProperties
  <2>7. Len(x) = k /\ q - p + 1 = k
    BY <1>4, <2>2, <2>6
  <2>8. \A i \in 1 .. k : p + i - 1 = n + i
    BY <1>4, <2>2
  <2> QED
    BY <2>6, <2>7, <2>8
<1>10. t.type_stack = SubSeq(t.type_stack, 1, n) \o x
  <2>1. n + Len(x) = Len(t.type_stack)
    BY <1>4, <1>9
  <2>2. \A i \in 1 .. Len(x) : t.type_stack[n + i] = x[i]
    BY <1>9
  <2> QED
    BY <1>1, <1>4, <1>9, <2>1, <2>2, CutSeq
<1> QED
  BY <1>2, <1>3, <1>5, <1>6, <1>7, <1>8, <1>9, <1>10 DEF On, Typed, ResultType

\* Drop, and what replaces any operands by others.
LEMMA DropAgrees ==
  ASSUME NEW t, Good(t), NEW mm, Agree(t, mm), NEW k \in Nat, NEW u, u = DropTypes(t, k), u.ok,
         NEW n, n = Exec(mm, TopN(mm.stack, k), <<>>)
  PROVE  Agree(u, n)
<1>1. Within(t, u)
  BY DropWithin
<1>2. CASE ~mm.live
  BY <1>1, <1>2, Rests
<1>3. CASE mm.live
  <2>1. Typed(t) /\ mm.stack = t.type_stack
    BY <1>3, TypedIs
  <2>2. PICK x : x = TopN(t.type_stack, k)
    OBVIOUS
  <2>3. PICK b : b = u.type_stack
    OBVIOUS
  <2>4. b \in ResultType /\ x \in ResultType /\ t.type_stack = On(b, x)
    BY <2>1, <2>2, <2>3, DropExact DEF Typed
  <2>5. x \in Seq(StackType) /\ <<>> \in ResultType /\ u.type_stack = On(b, <<>>)
    BY <2>3, <2>4, ResultsAreOperands, OnNothing, OneType
  <2>6. n = Exec(mm, x, <<>>)
    BY <2>1, <2>2
  <2> QED
    BY <1>1, <1>3, <2>4, <2>5, <2>6, RunsLive
<1> QED
  BY <1>2, <1>3

LEMMA PushAgrees ==
  ASSUME NEW t, Good(t), NEW mm, Agree(t, mm), NEW results \in ResultType,
         NEW u, u = PushTypes(t, results), NEW n, n = Exec(mm, <<>>, results)
  PROVE  Agree(u, n)
<1>1. results \in Seq(StackType) /\ <<>> \in Seq(StackType)
  BY ResultsAreOperands, OneType
<1>2. Within(t, u) /\ u.type_stack = t.type_stack \o results
  BY <1>1, PushWithin
<1>3. CASE ~mm.live
  BY <1>2, <1>3, Rests
<1>4. CASE mm.live
  <2>1. PICK b : b = t.type_stack
    OBVIOUS
  <2>2. b \in ResultType
    BY <1>4, <2>1, TypedIs DEF Typed
  <2>3. t.type_stack = On(b, <<>>) /\ u.type_stack = On(b, results)
    BY <1>2, <2>1, <2>2, OnNothing DEF On
  <2> QED
    BY <1>1, <1>2, <1>4, <2>2, <2>3, RunsLive
<1> QED
  BY <1>3, <1>4

LEMMA ReplaceAgrees ==
  ASSUME NEW t, Good(t), NEW mm, Agree(t, mm), NEW c \in BOOLEAN, NEW k \in Nat,
         NEW results \in ResultType,
         NEW u, u = PushTypes(DropTypes(Check(t, c), k), results), u.ok,
         NEW n, n = Exec(mm, TopN(mm.stack, k), results)
  PROVE  Agree(u, n)
<1>0. results \in Seq(StackType)
  BY ResultsAreOperands
<1>1. PICK v : v = Check(t, c)
  OBVIOUS
<1>2. PICK w : w = DropTypes(v, k)
  OBVIOUS
<1>3. Good(v) /\ Good(w) /\ u = PushTypes(w, results)
  BY <1>1, <1>2, CheckIs, DropWithin, WithinGood
<1>4. w.ok /\ u.type_stack = w.type_stack \o results
  BY <1>0, <1>3, PushWithin
<1>5. v.ok
  BY <1>2, <1>3, <1>4, DropWithin DEF Within
<1>6. v = t
  BY <1>1, <1>5, CheckIs
<1>7. Within(t, u)
  BY <1>0, ReplaceWithin
<1>8. CASE ~mm.live
  BY <1>7, <1>8, Rests
<1>9. CASE mm.live
  <2>1. Typed(t) /\ mm.stack = t.type_stack
    BY <1>9, TypedIs
  <2>2. PICK x : x = TopN(t.type_stack, k)
    OBVIOUS
  <2>3. PICK b : b = w.type_stack
    OBVIOUS
  <2>4. b \in ResultType /\ x \in ResultType /\ t.type_stack = On(b, x)
    BY <1>2, <1>4, <1>6, <2>1, <2>2, <2>3, DropExact DEF Typed
  <2>5. x \in Seq(StackType) /\ u.type_stack = On(b, results)
    BY <1>4, <2>3, <2>4, ResultsAreOperands DEF On
  <2>6. n = Exec(mm, x, results)
    BY <2>1, <2>2
  <2> QED
    BY <1>7, <1>9, <2>4, <2>5, <2>6, RunsLive
<1> QED
  BY <1>8, <1>9

LEMMA TwoAndOne ==
  ASSUME NEW v \in ValueType
  PROVE  (<<v>> \o <<v>>) \o <<"i32">> = <<v, v, "i32">>
<1>1. <<v>> \in Seq(ValueType) /\ <<v, v>> \in Seq(ValueType) /\ <<"i32">> \in Seq(ValueType)
      /\ <<v, v, "i32">> \in Seq(ValueType)
  BY OneType, TypesOf DEF ResultType
<1>2. <<v>> \o <<v>> = <<v, v>>
  <2>1. PICK s : s = <<v>> \o <<v>>
    OBVIOUS
  <2>2. s \in Seq(ValueType) /\ Len(s) = 2 /\ s[1] = v /\ s[2] = v
    BY <1>1, <2>1, ConcatProperties
  <2>3. s = <<v, v>>
    BY <1>1, <2>2, SeqEqual
  <2> QED
    BY <2>1, <2>3
<1>3. <<v, v>> \o <<"i32">> = <<v, v, "i32">>
  <2>1. PICK s : s = <<v, v>> \o <<"i32">>
    OBVIOUS
  <2>2. s \in Seq(ValueType) /\ Len(s) = 3 /\ s[1] = v /\ s[2] = v /\ s[3] = "i32"
    BY <1>1, <2>1, ConcatProperties
  <2>3. s = <<v, v, "i32">>
    BY <1>1, <2>2, SeqEqual
  <2> QED
    BY <2>1, <2>3
<1> QED
  BY <1>2, <1>3

\* Two values of one type and a condition, taken apart as the machine does.
LEMMA ThreeOperands ==
  ASSUME NEW b \in ResultType, NEW v \in ValueType, NEW s, s = On(b, <<v, v, "i32">>)
  PROVE  TopN(Below(s, 1), 1) = <<v>>
<1>1. /\ b \in Seq(ValueType) /\ <<v>> \in Seq(ValueType) /\ <<"i32">> \in Seq(ValueType)
      /\ Len(<<v>>) = 1 /\ Len(<<"i32">>) = 1
  BY OneType DEF ResultType
<1>2. PICK c, d : c = b \o <<v>> /\ d = c \o <<v>>
  OBVIOUS
<1>3. c \in Seq(ValueType) /\ d \in Seq(ValueType) /\ <<v>> \o <<v>> \in Seq(ValueType)
  BY <1>1, <1>2, ConcatProperties
<1>4. d = b \o (<<v>> \o <<v>>)
  BY <1>1, <1>2, ConcatAssociative
<1>5. d \o <<"i32">> = b \o ((<<v>> \o <<v>>) \o <<"i32">>)
  BY <1>1, <1>3, <1>4, ConcatAssociative
<1>6. s = d \o <<"i32">>
  BY <1>5, TwoAndOne DEF On
<1>7. Below(s, 1) = d
  <2>1. Below(d \o <<"i32">>, Len(<<"i32">>)) = d
    BY <1>1, <1>3, TopOfConcat
  <2> QED
    BY <1>1, <1>6, <2>1
<1>8. TopN(d, 1) = <<v>>
  <2>1. TopN(c \o <<v>>, Len(<<v>>)) = <<v>>
    BY <1>1, <1>3, TopOfConcat
  <2> QED
    BY <1>1, <1>2, <2>1
<1> QED
  BY <1>7, <1>8

LEMMA SelectExact ==
  ASSUME NEW t, Typed(t), NEW u, u = OnSelect(t, <<>>), u.ok
  PROVE  \E b \in ResultType, v \in ValueType :
           t.type_stack = On(b, <<v, v, "i32">>) /\ u.type_stack = On(b, <<v>>)
<1>1. PICK c \in BOOLEAN : c = SelectMatch(t, <<>>)
  BY DEF SelectMatch
<1>2. PICK r \in StackType : r = SelectResult(t, <<>>)
  BY PeekIs DEF SelectResult, StackType, Typed
<1>3. PICK p : p = Check(t, c)
  OBVIOUS
<1>4. PICK w : w = DropTypes(p, 3)
  OBVIOUS
<1>5. Good(t) /\ Good(p) /\ Good(w) /\ u = PushTypes(w, <<r>>) /\ <<r>> \in Seq(StackType)
  BY <1>1, <1>2, <1>3, <1>4, CheckIs, DropWithin, WithinGood, SelectIs, OneSeq DEF Typed
<1>6. w.ok /\ u.type_stack = w.type_stack \o <<r>>
  BY <1>5, PushWithin
<1>7. p.ok
  BY <1>4, <1>5, <1>6, DropWithin DEF Within
<1>8. p = t /\ c
  BY <1>3, <1>5, <1>7, CheckIs
<1>9. PICK x, b, k : x = TopN(t.type_stack, 3) /\ b = w.type_stack /\ k = 3
  OBVIOUS
<1>10. /\ b \in ResultType /\ x \in ResultType /\ t.type_stack = On(b, x) /\ Len(x) = 3
       /\ Lim(t) + 3 <= Len(t.type_stack)
       /\ \A i \in 1 .. 3 : x[i] = t.type_stack[Len(t.type_stack) - 3 + i]
  <2>1. k \in Nat /\ x = TopN(t.type_stack, k) /\ w = DropTypes(t, k)
    BY <1>4, <1>8, <1>9
  <2>2. /\ Typed(w) /\ Lim(t) + k <= Len(t.type_stack)
        /\ TopN(t.type_stack, k) \in ResultType
        /\ t.type_stack = On(w.type_stack, TopN(t.type_stack, k))
        /\ Len(TopN(t.type_stack, k)) = k
        /\ \A i \in 1 .. k : TopN(t.type_stack, k)[i] = t.type_stack[Len(t.type_stack) - k + i]
    BY <1>6, <2>1, DropExact
  <2>3. b \in ResultType
    BY <1>9, <2>2 DEF Typed
  <2> QED
    BY <1>9, <2>1, <2>2, <2>3
<1>11. PICK x1, x2, x3 : x1 = x[1] /\ x2 = x[2] /\ x3 = x[3]
  OBVIOUS
<1>12. x1 \in ValueType /\ x2 \in ValueType /\ x3 \in ValueType /\ x = <<x1, x2, x3>>
  <2>1. x \in Seq(ValueType) /\ 1 \in 1 .. Len(x) /\ 2 \in 1 .. Len(x) /\ 3 \in 1 .. Len(x)
    BY <1>10 DEF ResultType
  <2>2. x1 \in ValueType /\ x2 \in ValueType /\ x3 \in ValueType
    BY <1>11, <2>1, ElementOfSeq
  <2> QED
    BY <1>10, <1>11, <2>1, <2>2
<1>13. Len(t.type_stack) \in Nat
  BY <1>5, GoodLabels
<1>14. /\ PeekType(t, 0).ok /\ PeekType(t, 1).ok /\ PeekType(t, 2).ok
       /\ CheckType(PeekType(t, 0).type, "i32")
       /\ CheckType(PeekType(t, 1).type, PeekType(t, 2).type)
       /\ ~IsRef(PeekType(t, 1).type) /\ ~IsRef(PeekType(t, 2).type)
  BY <1>1, <1>8 DEF SelectMatch
<1>15. /\ PeekType(t, 0).type = t.type_stack[Len(t.type_stack) - 0]
       /\ PeekType(t, 1).type = t.type_stack[Len(t.type_stack) - 1]
       /\ PeekType(t, 2).type = t.type_stack[Len(t.type_stack) - 2]
  BY <1>5, <1>14, PeekIs DEF Typed
<1>16. /\ t.type_stack[Len(t.type_stack) - 0] = x3
       /\ t.type_stack[Len(t.type_stack) - 1] = x2
       /\ t.type_stack[Len(t.type_stack) - 2] = x1
  <2>1. /\ Len(t.type_stack) - 3 + 3 = Len(t.type_stack) - 0
        /\ Len(t.type_stack) - 3 + 2 = Len(t.type_stack) - 1
        /\ Len(t.type_stack) - 3 + 1 = Len(t.type_stack) - 2
    BY <1>13
  <2>2. 1 \in 1 .. 3 /\ 2 \in 1 .. 3 /\ 3 \in 1 .. 3
    OBVIOUS
  <2>3. /\ x[1] = t.type_stack[Len(t.type_stack) - 3 + 1]
        /\ x[2] = t.type_stack[Len(t.type_stack) - 3 + 2]
        /\ x[3] = t.type_stack[Len(t.type_stack) - 3 + 3]
    BY <1>10, <2>2
  <2> QED
    BY <1>11, <2>1, <2>3
<1>17. x3 = "i32" /\ x2 = x1
  BY <1>12, <1>14, <1>15, <1>16, AnyIsNoValueType DEF CheckType, AnyType
<1>18. r = x2
  BY <1>2, <1>14, <1>15, <1>16 DEF SelectResult
<1>19. x = <<x1, x1, "i32">> /\ u.type_stack = On(b, <<x1>>)
  BY <1>6, <1>9, <1>12, <1>17, <1>18 DEF On
<1> QED
  BY <1>10, <1>12, <1>19

LEMMA SelectAgrees ==
  ASSUME NEW t, Good(t), NEW mm, Agree(t, mm), NEW u, u = OnSelect(t, <<>>), u.ok,
         NEW type, type = TopN(Below(mm.stack, 1), 1),
         NEW n, n = Exec(mm, type \o type \o <<"i32">>, type)
  PROVE  Agree(u, n)
<1>1. Within(t, u)
  BY SelectWithin
<1>2. CASE ~mm.live
  BY <1>1, <1>2, Rests
<1>3. CASE mm.live
  <2>1. Typed(t) /\ mm.stack = t.type_stack
    BY <1>3, TypedIs
  <2>2. PICK b \in ResultType, v \in ValueType :
          t.type_stack = On(b, <<v, v, "i32">>) /\ u.type_stack = On(b, <<v>>)
    BY <2>1, SelectExact
  <2>3. type = <<v>>
    BY <2>1, <2>2, ThreeOperands
  <2>4. PICK params, results : params = <<v, v, "i32">> /\ results = <<v>>
    OBVIOUS
  <2>5. params \in Seq(StackType) /\ results \in ResultType
    BY <2>4, OneType, TypesOf, ResultsAreOperands
  <2>6. type \o type \o <<"i32">> = params
    BY <2>3, <2>4, TwoAndOne
  <2>7. n = Exec(mm, params, results)
    BY <2>3, <2>4, <2>6
  <2>8. t.type_stack = On(b, params) /\ u.type_stack = On(b, results)
    BY <2>2, <2>4
  <2> QED
    BY <1>1, <1>3, <2>5, <2>7, <2>8, RunsLive
<1> QED
  BY <1>2, <1>3

\* An index on top of the arguments.
LEMMA Above ==
  ASSUME NEW b \in ResultType, NEW params \in ResultType, NEW index \in ValueType
  PROVE  /\ On(On(b, params), <<index>>) = On(b, Append(params, index))
         /\ Append(params, index) \in ResultType
<1>1. b \in Seq(ValueType) /\ params \in Seq(ValueType) /\ <<index>> \in Seq(ValueType)
  BY OneType DEF ResultType
<1>2. Append(params, index) = params \o <<index>>
  BY <1>1, AppendIsConcat
<1>3. (b \o params) \o <<index>> = b \o (params \o <<index>>)
  BY <1>1, ConcatAssociative
<1>4. params \o <<index>> \in Seq(ValueType)
  BY <1>1, ConcatProperties
<1> QED
  BY <1>2, <1>3, <1>4 DEF On, ResultType

LEMMA CallAboveAgrees ==
  ASSUME NEW t, Good(t), NEW mm, Agree(t, mm), NEW params \in ResultType, NEW results \in ResultType,
         NEW index \in ValueType, NEW v, Within(t, v),
         mm.live => Typed(v) /\ t.type_stack = On(v.type_stack, <<index>>),
         NEW u, u = PopAndCheckCall(v, params, results), u.ok,
         NEW n, n = Exec(mm, Append(params, index), results)
  PROVE  Agree(u, n)
<1>1. Good(v)
  BY WithinGood
<1>2. Within(v, u)
  BY <1>1, CallWithin
<1>3. Within(t, u)
  BY <1>2, WithinTransitive
<1>4. CASE ~mm.live
  BY <1>3, <1>4, Rests
<1>5. CASE mm.live
  <2>1. PICK b \in ResultType : v.type_stack = On(b, params) /\ u.type_stack = On(b, results)
    BY <1>5, CallExact
  <2>2. PICK all : all = Append(params, index)
    OBVIOUS
  <2>3. t.type_stack = On(b, all) /\ all \in ResultType
    BY <1>5, <2>1, <2>2, Above
  <2>4. all \in Seq(StackType) /\ n = Exec(mm, all, results)
    BY <2>2, <2>3, ResultsAreOperands
  <2> QED
    BY <1>3, <1>5, <2>1, <2>3, <2>4, RunsLive
<1> QED
  BY <1>4, <1>5

LEMMA CallIndirectAgrees ==
  ASSUME NEW t, Good(t), NEW mm, Agree(t, mm), NEW params \in ResultType, NEW results \in ResultType,
         NEW index \in ValueType, NEW u, u = OnCallIndirect(t, params, results, index), u.ok,
         NEW n, n = Exec(mm, Append(params, index), results)
  PROVE  Agree(u, n)
<1>1. PICK sig : sig = <<index>>
  OBVIOUS
<1>2. sig \in ResultType
  BY <1>1, OneType
<1>3. PICK v : v = PopAndCheckSignature(t, sig)
  OBVIOUS
<1>4. Within(t, v) /\ Good(v)
  BY <1>2, <1>3, PopWithin, WithinGood
<1>5. u = PopAndCheckCall(v, params, results)
  BY <1>1, <1>3 DEF OnCallIndirect
<1>6. v.ok
  BY <1>4, <1>5, CallWithin DEF Within
<1>7. mm.live => Typed(v) /\ t.type_stack = On(v.type_stack, <<index>>)
  BY <1>1, <1>2, <1>3, <1>6, PopExact, TypedIs
<1> QED
  BY <1>4, <1>5, <1>7, CallAboveAgrees

\* The reference a call_ref takes names the type whose function it calls.
LEMMA IndexedExact ==
  ASSUME NEW t, Typed(t), NEW v, v = OnIndexedFuncRef(t), v.ok,
         NEW ref, ref = RefTo(TypeIndexOf(PeekType(t, 0).type))
  PROVE  Typed(v) /\ t.type_stack = On(v.type_stack, <<ref>>)
<1>1. PICK c : c = (PeekType(t, 0).type = AnyType \/ IsReferenceWithIndex(PeekType(t, 0).type))
  OBVIOUS
<1>2. c \in BOOLEAN /\ Good(t) /\ ~TopLabel(t).unreachable
  BY <1>1 DEF Typed
<1>3. v = IF ~PeekType(t, 0).ok THEN Error(t) ELSE DropTypes(Check(t, c), 1)
  BY <1>1 DEF OnIndexedFuncRef
<1>4. PeekType(t, 0).ok
  BY <1>2, <1>3, ErrorIs
<1>5. PICK p, k : p = Check(t, c) /\ k = 1
  OBVIOUS
<1>6. Good(p) /\ v = DropTypes(p, k) /\ k \in Nat
  BY <1>2, <1>3, <1>4, <1>5, CheckIs
<1>7. p.ok
  BY <1>6, DropWithin DEF Within
<1>8. p = t /\ c
  BY <1>2, <1>5, <1>7, CheckIs
<1>9. v = DropTypes(t, k)
  BY <1>6, <1>8
<1>10. /\ Typed(v) /\ TopN(t.type_stack, k) \in ResultType
       /\ t.type_stack = On(v.type_stack, TopN(t.type_stack, k))
       /\ Len(TopN(t.type_stack, k)) = k
       /\ \A i \in 1 .. k : TopN(t.type_stack, k)[i] = t.type_stack[Len(t.type_stack) - k + i]
  BY <1>6, <1>9, DropExact
<1>11. PICK x, e : x = TopN(t.type_stack, k) /\ e = x[1]
  OBVIOUS
<1>12. x \in Seq(ValueType) /\ Len(x) = 1 /\ e \in ValueType /\ x = <<e>>
  <2>1. x \in Seq(ValueType) /\ Len(x) = 1 /\ 1 \in 1 .. Len(x)
    BY <1>5, <1>10, <1>11 DEF ResultType
  <2> QED
    BY <1>11, <2>1, ElementOfSeq
<1>13. e = PeekType(t, 0).type
  <2>1. PeekType(t, 0).type = t.type_stack[Len(t.type_stack) - 0]
    BY <1>2, <1>4, PeekIs
  <2>2. 1 \in 1 .. k /\ Len(t.type_stack) - k + 1 = Len(t.type_stack) - 0
    BY <1>2, <1>5, GoodLabels
  <2> QED
    BY <1>10, <1>11, <2>1, <2>2
<1>14. e \in {"ref0", "ref1"}
  BY <1>1, <1>8, <1>12, <1>13, AnyIsNoValueType DEF IsReferenceWithIndex
<1>15. RefTo(TypeIndexOf(e)) = e
  BY <1>14 DEF RefTo, TypeIndexOf
<1> QED
  BY <1>10, <1>11, <1>12, <1>13, <1>15

-----------------------------------------------------------------------------
(* Branches                                                                 *)

\* The types on the stack are as they were where control is.
LEMMA AgreeWithin ==
  ASSUME NEW t, Good(t), NEW mm, Agree(t, mm), NEW u, Within(t, u),
         mm.live => u.type_stack = t.type_stack
  PROVE  Agree(u, mm)
<1>1. mm \in Machine /\ ~mm.stuck /\ Frames(t, mm.ctl) /\ mm.ctl \in Seq(FrameType)
  BY DEF Agree, Machine
<1>2. Frames(u, mm.ctl) /\ TopLabel(u) = TopLabel(t)
  BY <1>1, FramesWithin, WithinGood
<1> QED
  BY <1>1, <1>2 DEF Agree, Running

\* Control leaves the block f with exactly its results, having entered it.
Leaves(f, hits) == \A h \in hits : f.entered /\ h = On(f.base, f.results)

WithHits(ctl, k, hits) == [ctl EXCEPT ![k].hits = hits]

LEMMA HitFrames ==
  ASSUME NEW t, Good(t), NEW ctl \in Seq(FrameType), Frames(t, ctl),
         NEW k \in DOMAIN ctl, NEW f, f = ctl[k],
         NEW hits, Leaves(f, hits), NEW d, d = WithHits(ctl, k, hits)
  PROVE  d \in Seq(FrameType) /\ Frames(t, d) /\ Len(d) = Len(ctl)
         /\ (ctl[Len(ctl)].entered => d[Len(d)].entered)
<1>1. /\ DOMAIN ctl = 1 .. Len(ctl) /\ Len(ctl) \in Nat \ {0}
      /\ \A j \in DOMAIN ctl : ctl[j] \in FrameType
  BY FrameIs
<1>2. PICK g : g = [f EXCEPT !.hits = hits]
  OBVIOUS
<1>a. d = [ctl EXCEPT ![k] = g]
  BY <1>2 DEF WithHits
<1>3. f \in FrameType /\ hits \subseteq Seq(StackType)
  <2>1. f \in FrameType
    BY <1>1
  <2>2. f.base \in Seq(StackType) /\ f.results \in Seq(StackType)
    BY <2>1, ResultsAreOperands DEF FrameType
  <2>3. f.base \o f.results \in Seq(StackType)
    BY <2>2, ConcatProperties
  <2> QED
    BY <2>1, <2>3 DEF On, Leaves
<1>4. /\ g \in FrameType /\ g.entered = f.entered /\ g.base = f.base /\ g.loop = f.loop
      /\ g.params = f.params /\ g.results = f.results /\ g.hits = hits
  BY <1>2, <1>3 DEF FrameType
<1>b. d \in Seq(FrameType) /\ Len(d) = Len(ctl) /\ \A j \in 1 .. Len(ctl) : d[j] = IF j = k THEN g ELSE ctl[j]
  <2>1. k \in 1 .. Len(ctl)
    BY <1>1
  <2> QED
    BY <1>4, <1>a, <2>1, ExceptSeq
<1>c. DOMAIN d = 1 .. Len(ctl)
  BY <1>b, LenProperties
<1>6. d \in Seq(FrameType) /\ Len(d) = Len(ctl) /\ DOMAIN d = DOMAIN ctl
      /\ d[k] = g /\ \A j \in DOMAIN ctl : j # k => d[j] = ctl[j]
  BY <1>1, <1>b, <1>c
<1>7. \A j \in DOMAIN ctl : d[j].entered = ctl[j].entered
  BY <1>4, <1>6
<1>8. FrameAgrees(g, t.label_stack[k], t.type_stack)
  <2>1. FrameAgrees(f, t.label_stack[k], t.type_stack)
    BY DEF Frames
  <2>2. \A h \in g.hits : g.entered /\ h = g.base \o g.results
    BY <1>4 DEF Leaves, On
  <2> QED
    BY <1>4, <2>1, <2>2 DEF FrameAgrees
<1>9. \A j \in DOMAIN d : FrameAgrees(d[j], t.label_stack[j], t.type_stack)
  BY <1>6, <1>8 DEF Frames
<1>10. \A i, j \in DOMAIN d : i < j /\ d[j].entered => d[i].entered /\ ~t.label_stack[i].unreachable
  BY <1>6, <1>7 DEF Frames
<1>11. Len(d) = Len(t.label_stack) /\ t.label_stack[1].type_stack_limit = 0
  BY <1>6 DEF Frames
<1>12. Frames(t, d)
  BY <1>9, <1>10, <1>11 DEF Frames
<1>13. d[Len(d)].entered = ctl[Len(ctl)].entered
  BY <1>1, <1>6, <1>7
<1> QED
  BY <1>6, <1>12, <1>13

\* Every open block was entered, where control is.
LEMMA AllEntered ==
  ASSUME NEW t, Good(t), NEW mm, Agree(t, mm), mm.live, NEW k \in DOMAIN mm.ctl
  PROVE  mm.ctl[k].entered
<1>1. mm.ctl \in Seq(FrameType) /\ Frames(t, mm.ctl) /\ mm.ctl[Len(mm.ctl)].entered
  BY DEF Agree, Machine, Running
<1>2. DOMAIN mm.ctl = 1 .. Len(mm.ctl) /\ Len(mm.ctl) \in Nat \ {0}
  BY <1>1, FrameIs
<1>3. CASE k = Len(mm.ctl)
  BY <1>1, <1>3
<1>4. CASE k < Len(mm.ctl)
  BY <1>1, <1>2, <1>4 DEF Frames
<1> QED
  BY <1>2, <1>3, <1>4

LEMMA JumpAgrees ==
  ASSUME NEW t, Good(t), NEW mm, Agree(t, mm), NEW k \in DOMAIN t.label_stack,
         NEW types, types = br_types(t.label_stack[k]),
         mm.live => \E b \in ResultType : t.type_stack = On(b, types),
         NEW n, n = Jump(mm, k)
  PROVE  Agree(t, n)
<1>1. mm \in Machine /\ ~mm.stuck /\ Frames(t, mm.ctl) /\ mm.ctl \in Seq(FrameType)
  BY DEF Agree, Machine
<1>2. k \in DOMAIN mm.ctl
  BY <1>1, FrameIs
<1>3. PICK f : f = mm.ctl[k]
  OBVIOUS
<1>4. /\ f \in FrameType /\ f.loop = (t.label_stack[k].label_type = "loop")
      /\ f.params = t.label_stack[k].param_types /\ f.results = t.label_stack[k].result_types
  BY <1>1, <1>2, <1>3, FrameIs DEF Frames, FrameAgrees
<1>5. types = (IF f.loop THEN f.params ELSE f.results) /\ types \in ResultType
  BY <1>4 DEF br_types, FrameType
<1>6. CASE ~mm.live
  BY <1>6 DEF Jump
<1>7. CASE mm.live
  <2>1. PICK b \in ResultType : t.type_stack = On(b, types)
    BY <1>7
  <2>2. mm.stack = t.type_stack
    BY <1>7, TypedIs
  <2>3. TopN(mm.stack, Len(types)) = types
    BY <1>5, <2>1, <2>2, TopOfConcat, ResultsAreOperands DEF On
  <2>4. Needs(mm, types) = mm
    BY <1>1, <2>3, NeedsIs
  <2>5. CASE f.loop
    BY <1>3, <1>5, <1>7, <2>4, <2>5 DEF Jump
  <2>6. CASE ~f.loop
    <3>1. PICK h, ctl : h = f.base \o f.results /\ ctl = mm.ctl
      OBVIOUS
    <3>2. PICK hits, d : hits = f.hits \cup {h} /\ d = WithHits(ctl, k, hits)
      OBVIOUS
    <3>3. ctl \in Seq(FrameType) /\ Frames(t, ctl) /\ k \in DOMAIN ctl /\ f = ctl[k] /\ f.entered
      BY <1>1, <1>2, <1>3, <1>7, <3>1, AllEntered
    <3>4. Leaves(f, hits)
      <4>1. FrameAgrees(f, t.label_stack[k], t.type_stack)
        BY <3>3 DEF Frames
      <4> QED
        BY <3>1, <3>2, <3>3, <4>1 DEF FrameAgrees, Leaves, On
    <3>5. d \in Seq(FrameType) /\ Frames(t, d) /\ Len(d) = Len(ctl)
          /\ (ctl[Len(ctl)].entered => d[Len(d)].entered)
      BY <3>2, <3>3, <3>4, HitFrames
    <3>6. n = [mm EXCEPT !.ctl = d]
      <4>1. n = [mm EXCEPT !.ctl[k].hits = @ \cup {h}]
        BY <1>3, <1>5, <1>7, <2>3, <2>4, <2>6, <3>1 DEF Jump
      <4> QED
        BY <4>1, <1>3, <3>1, <3>2 DEF WithHits
    <3>7. n \in Machine /\ n.stuck = mm.stuck /\ n.live = mm.live /\ n.stack = mm.stack /\ n.ctl = d
      BY <1>1, <3>5, <3>6 DEF Machine
    <3>8. Running(t, mm)
      BY <1>7 DEF Agree
    <3>9. Running(t, n)
      BY <3>1, <3>5, <3>7, <3>8 DEF Running
    <3> QED
      BY <1>1, <3>5, <3>7, <3>9 DEF Agree
  <2> QED
    BY <2>5, <2>6
<1> QED
  BY <1>6, <1>7

LEMMA SigOn ==
  ASSUME NEW t, Good(t), NEW mm, Agree(t, mm), NEW sig \in ResultType,
         NEW u, u = CheckSignature(t, sig), u.ok
  PROVE  mm.live => \E b \in ResultType : t.type_stack = On(b, sig)
<1> SUFFICES ASSUME mm.live
             PROVE  \E b \in ResultType : t.type_stack = On(b, sig)
  OBVIOUS
<1>1. PICK b : b = SubSeq(t.type_stack, 1, Len(t.type_stack) - Len(sig))
  OBVIOUS
<1>2. Typed(t)
  BY TypedIs
<1>3. b \in ResultType /\ t.type_stack = On(b, sig)
  BY <1>1, <1>2, SigExact
<1> QED
  BY <1>3

\* A checked signature leaves the checker as it was.
LEMMA SigSame ==
  ASSUME NEW t, Good(t), NEW sig, NEW u, u = CheckSignature(t, sig), u.ok
  PROVE  u = t
<1>1. PICK c \in BOOLEAN :
        c = \A i \in DOMAIN sig : LET operand == PeekType(t, Len(sig) - i)
                                  IN  operand.ok /\ CheckType(operand.type, sig[i])
  OBVIOUS
<1>2. u = Check(t, c)
  BY <1>1 DEF CheckSignature
<1> QED
  BY <1>2, CheckIs

LEMMA PopAgrees ==
  ASSUME NEW t, Good(t), NEW mm, Agree(t, mm), NEW sig \in ResultType,
         NEW u, u = PopAndCheckSignature(t, sig), u.ok, NEW n, n = Exec(mm, sig, <<>>)
  PROVE  Agree(u, n)
<1>1. Within(t, u)
  BY PopWithin
<1>2. sig \in Seq(StackType)
  BY ResultsAreOperands
<1>3. CASE ~mm.live
  BY <1>1, <1>3, Rests
<1>4. CASE mm.live
  <2>1. Typed(u) /\ t.type_stack = On(u.type_stack, sig)
    BY <1>4, PopExact, TypedIs
  <2>2. PICK b, none : b = u.type_stack /\ none = <<>>
    OBVIOUS
  <2>3. b \in ResultType /\ none \in ResultType /\ u.type_stack = On(b, none) /\ t.type_stack = On(b, sig)
    BY <2>1, <2>2, OnNothing, OneType DEF Typed
  <2>4. n = Exec(mm, sig, none)
    BY <2>2
  <2> QED
    BY <1>1, <1>2, <1>4, <2>3, <2>4, RunsLive
<1> QED
  BY <1>3, <1>4

LEMMA BrAgrees ==
  ASSUME NEW t, Good(t), NEW mm, Agree(t, mm), NEW depth \in Nat, NEW u, u = OnBr(t, depth), u.ok,
         NEW n, n = Kill(Jump(mm, Len(mm.ctl) - depth))
  PROVE  Agree(u, n)
<1>1. HasLabel(t, depth)
  BY ErrorIs DEF OnBr
<1>2. PICK k : k = Len(t.label_stack) - depth
  OBVIOUS
<1>3. PICK types : types = br_types(GetLabel(t, depth))
  OBVIOUS
<1>4. k \in DOMAIN t.label_stack /\ types = br_types(t.label_stack[k]) /\ types \in ResultType
  BY <1>1, <1>2, <1>3, GetLabelIs DEF GetLabel
<1>5. PICK v : v = CheckSignature(t, types)
  OBVIOUS
<1>6. Good(v) /\ u = SetUnreachable(v)
  BY <1>1, <1>3, <1>5, CheckSignatureWithin, WithinGood DEF OnBr
<1>7. v.ok
  BY <1>6, SetUnreachableIs
<1>8. v = t
  BY <1>5, <1>7, SigSame
<1>9. mm.live => \E b \in ResultType : t.type_stack = On(b, types)
  BY <1>4, <1>5, <1>7, SigOn
<1>10. PICK j : j = Jump(mm, k)
  OBVIOUS
<1>11. Agree(t, j)
  BY <1>4, <1>9, <1>10, JumpAgrees
<1>12. Len(mm.ctl) = Len(t.label_stack)
  BY DEF Agree, Frames
<1>13. n = Kill(j)
  BY <1>2, <1>10, <1>12
<1>14. j \in Machine /\ ~j.stuck /\ Frames(t, j.ctl)
  BY <1>11 DEF Agree
<1> QED
  BY <1>6, <1>8, <1>13, <1>14, KillAgrees

LEMMA BrIfAgrees ==
  ASSUME NEW t, Good(t), NEW mm, Agree(t, mm), NEW depth \in Nat, NEW u, u = OnBrIf(t, depth), u.ok,
         NEW n, n = Jump(Exec(mm, <<"i32">>, <<>>), Len(mm.ctl) - depth)
  PROVE  Agree(u, n)
<1>1. PICK one, v : one = <<"i32">> /\ v = PopAndCheckSignature(t, one)
  OBVIOUS
<1>2. one \in ResultType /\ Within(t, v) /\ Good(v)
  BY <1>1, I32, PopWithin, WithinGood
<1>3. HasLabel(t, depth)
  BY <1>1, <1>2, ErrorIs DEF OnBrIf
<1>4. PICK k, types : k = Len(t.label_stack) - depth /\ types = br_types(GetLabel(t, depth))
  OBVIOUS
<1>5. k \in DOMAIN t.label_stack /\ types = br_types(t.label_stack[k]) /\ types \in ResultType
  BY <1>3, <1>4, GetLabelIs DEF GetLabel
<1>6. u = PopAndCheckCall(v, types, types)
  BY <1>1, <1>3, <1>4 DEF OnBrIf, PopAndCheckCall
<1>7. Within(v, u)
  BY <1>2, <1>5, <1>6, CallWithin
<1>8. v.ok
  BY <1>7 DEF Within
<1>9. PICK e : e = Exec(mm, one, <<>>)
  OBVIOUS
<1>10. Agree(v, e)
  BY <1>1, <1>2, <1>8, <1>9, PopAgrees
<1>11. e.live => \E b \in ResultType : v.type_stack = On(b, types) /\ u.type_stack = On(b, types)
  BY <1>2, <1>5, <1>6, <1>10, CallExact, TypedIs
<1>12. e.live => u.type_stack = v.type_stack /\ \E b \in ResultType : v.type_stack = On(b, types)
  BY <1>11
<1>13. Agree(u, e) /\ Good(u) /\ u.label_stack = t.label_stack
  BY <1>2, <1>7, <1>10, <1>12, AgreeWithin, WithinGood DEF Within
<1>14. e.live => \E b \in ResultType : u.type_stack = On(b, types)
  BY <1>11
<1>15. Len(mm.ctl) = Len(t.label_stack)
  BY DEF Agree, Frames
<1>16. n = Jump(e, k)
  BY <1>1, <1>4, <1>9, <1>15
<1> QED
  BY <1>5, <1>13, <1>14, <1>16, JumpAgrees

LEMMA BrTableTargetAgrees ==
  ASSUME NEW t, Good(t), NEW mm, Agree(t, mm), NEW depth \in Nat, NEW first \in BOOLEAN, NEW sig,
         NEW u, u = OnBrTableTarget(t, depth, first, sig), u.ok,
         NEW n, n = Jump(mm, Len(mm.ctl) - depth)
  PROVE  Agree(u, n)
<1>1. HasLabel(t, depth)
  BY ErrorIs DEF OnBrTableTarget
<1>2. PICK k, types : k = Len(t.label_stack) - depth /\ types = br_types(GetLabel(t, depth))
  OBVIOUS
<1>3. k \in DOMAIN t.label_stack /\ types = br_types(t.label_stack[k]) /\ types \in ResultType
  BY <1>1, <1>2, GetLabelIs DEF GetLabel
<1>4. PICK v, c : v = CheckSignature(t, types) /\ c = (first \/ Len(sig) = Len(types))
  OBVIOUS
<1>5. Good(v) /\ c \in BOOLEAN /\ u = Check(v, c)
  BY <1>1, <1>2, <1>4, CheckSignatureWithin, WithinGood DEF OnBrTableTarget
<1>6. u = v
  BY <1>5, CheckIs
<1>7. v.ok
  BY <1>6
<1>8. v = t
  BY <1>4, <1>7, SigSame
<1>9. mm.live => \E b \in ResultType : t.type_stack = On(b, types)
  BY <1>3, <1>4, <1>7, SigOn
<1>10. Len(mm.ctl) = Len(t.label_stack)
  BY DEF Agree, Frames
<1>11. n = Jump(mm, k)
  BY <1>2, <1>10
<1> QED
  BY <1>3, <1>6, <1>8, <1>9, <1>11, JumpAgrees

\* The machine gets what it needs, and control leaves.
LEMMA ThrowAgrees ==
  ASSUME NEW t, Good(t), NEW mm, Agree(t, mm), NEW sig \in ResultType,
         NEW u, u = SetUnreachable(PopAndCheckSignature(t, sig)), u.ok,
         NEW n, n = Kill(Needs(mm, sig))
  PROVE  Agree(u, n)
<1>1. PICK v : v = PopAndCheckSignature(t, sig)
  OBVIOUS
<1>2. Within(t, v) /\ Good(v)
  BY <1>1, PopWithin, WithinGood
<1>3. v.ok
  BY <1>1, <1>2, SetUnreachableIs
<1>4. mm \in Machine /\ ~mm.stuck /\ Frames(t, mm.ctl) /\ mm.ctl \in Seq(FrameType)
  BY DEF Agree, Machine
<1>5. Frames(v, mm.ctl)
  BY <1>2, <1>4, FramesWithin
<1>6. mm.live => TopN(mm.stack, Len(sig)) = sig
  <2> SUFFICES ASSUME mm.live
               PROVE  TopN(mm.stack, Len(sig)) = sig
    OBVIOUS
  <2>1. Typed(t) /\ mm.stack = t.type_stack
    BY TypedIs
  <2>2. Typed(v) /\ t.type_stack = On(v.type_stack, sig)
    BY <1>1, <1>3, <2>1, PopExact
  <2> QED
    BY <2>1, <2>2, TopOfConcat, ResultsAreOperands DEF On, Typed
<1>7. Needs(mm, sig) = mm
  BY <1>4, <1>6, NeedsIs
<1> QED
  BY <1>1, <1>2, <1>4, <1>5, <1>7, KillAgrees

LEMMA FunctionFrame ==
  ASSUME NEW t, Good(t), NEW ctl \in Seq(FrameType), Frames(t, ctl)
  PROVE  ctl[1].results = ThisFunctionLabel(t).result_types /\ ctl[1].results \in ResultType
<1>1. 1 \in DOMAIN ctl
  BY FrameIs
<1>2. FrameAgrees(ctl[1], t.label_stack[1], t.type_stack) /\ ctl[1] \in FrameType
  BY <1>1, FrameIs DEF Frames
<1> QED
  BY <1>2 DEF FrameAgrees, FrameType, ThisFunctionLabel

LEMMA ReturnAgrees ==
  ASSUME NEW t, Good(t), NEW mm, Agree(t, mm), NEW u, u = OnReturn(t), u.ok,
         NEW n, n = Kill(Needs(mm, mm.ctl[1].results))
  PROVE  Agree(u, n)
<1>1. PICK sig : sig = ThisFunctionLabel(t).result_types
  OBVIOUS
<1>2. mm.ctl \in Seq(FrameType) /\ Frames(t, mm.ctl)
  BY DEF Agree, Machine
<1>3. mm.ctl[1].results = sig /\ sig \in ResultType
  BY <1>1, <1>2, FunctionFrame
<1>4. u = SetUnreachable(PopAndCheckSignature(t, sig))
  BY <1>1 DEF OnReturn
<1> QED
  BY <1>3, <1>4, ThrowAgrees

LEMMA LeavesAgrees ==
  ASSUME NEW t, Good(t), NEW mm, Agree(t, mm)
  PROVE  Agree(SetUnreachable(t), Kill(mm))
BY KillAgrees DEF Agree

LEMMA RethrowAgrees ==
  ASSUME NEW t, Good(t), NEW mm, Agree(t, mm), NEW depth \in Nat, NEW u, u = OnRethrow(t, depth), u.ok,
         NEW n, n = Kill(mm)
  PROVE  Agree(u, n)
<1>1. u = SetUnreachable(t)
  BY ErrorIs DEF OnRethrow
<1> QED
  BY <1>1, LeavesAgrees

\* No type is made up on either side, so equal means equal.
LEMMA TypesExact ==
  ASSUME NEW a \in ResultType, NEW b \in ResultType, CheckTypes(a, b)
  PROVE  a = b
<1>1. a \in Seq(ValueType) /\ b \in Seq(ValueType) /\ Len(a) = Len(b)
      /\ DOMAIN a = 1 .. Len(a)
  BY LenProperties DEF ResultType, CheckTypes
<1>2. \A i \in 1 .. Len(a) : a[i] \in ValueType /\ b[i] \in ValueType
  BY <1>1, ElementOfSeq
<1>3. \A i \in 1 .. Len(a) : CheckType(a[i], b[i])
  BY <1>1 DEF CheckTypes
<1>4. \A i \in 1 .. Len(a) : a[i] = b[i]
  BY <1>2, <1>3, AnyIsNoValueType DEF CheckType
<1> QED
  BY <1>1, <1>4, SeqEqual

\* A tail call takes its operands, and hands on the callee's results.
LEMMA TailAgrees ==
  ASSUME NEW t, Good(t), NEW mm, Agree(t, mm), NEW all \in ResultType, NEW results \in ResultType,
         NEW w, Within(t, w), w.ok =>
           (mm.live => \E b \in ResultType : t.type_stack = On(b, all)),
         NEW u, u = SetUnreachable(Check(w, CheckTypes(results, ThisFunctionLabel(w).result_types))),
         u.ok,
         NEW n, n = TailCall(mm, all, results)
  PROVE  Agree(u, n)
<1>1. PICK sig : sig = ThisFunctionLabel(t).result_types
  OBVIOUS
<1>2. mm \in Machine /\ ~mm.stuck /\ mm.ctl \in Seq(FrameType) /\ Frames(t, mm.ctl)
  BY DEF Agree, Machine
<1>3. mm.ctl[1].results = sig /\ sig \in ResultType
  BY <1>1, <1>2, FunctionFrame
<1>4. Good(w) /\ Frames(w, mm.ctl) /\ ThisFunctionLabel(w).result_types = sig
  BY <1>1, <1>2, FramesWithin, WithinGood DEF Within, ThisFunctionLabel
<1>5. PICK c : c = CheckTypes(results, sig)
  OBVIOUS
<1>6. c \in BOOLEAN
  BY <1>5 DEF CheckTypes
<1>7. PICK v : v = Check(w, c)
  OBVIOUS
<1>8. u = SetUnreachable(v) /\ Good(v)
  BY <1>4, <1>5, <1>6, <1>7, CheckIs
<1>9. v.ok
  BY <1>8, SetUnreachableIs
<1>10. v = w /\ c
  BY <1>4, <1>6, <1>7, <1>9, CheckIs
<1>11. results = sig
  BY <1>3, <1>5, <1>10, TypesExact
<1>12. PICK e : e = Exec(mm, all, results)
  OBVIOUS
<1>13. e \in Machine /\ ~e.stuck /\ e.ctl = mm.ctl
       /\ (e.live => TopN(e.stack, Len(results)) = results)
  <2>1. CASE ~mm.live
    <3>1. e = mm
      BY <1>12, <2>1 DEF Exec
    <3> QED
      BY <1>2, <2>1, <3>1
  <2>2. CASE mm.live
    <3>1. PICK b \in ResultType : t.type_stack = On(b, all)
      BY <1>9, <1>10, <2>2
    <3>2. mm.stack = On(b, all)
      BY <2>2, <3>1, TypedIs
    <3>3. b \in Seq(StackType) /\ all \in Seq(StackType) /\ results \in Seq(StackType)
      BY ResultsAreOperands
    <3>4. e \in Machine /\ ~e.stuck /\ e.ctl = mm.ctl /\ e.stack = On(b, results)
      BY <1>2, <1>12, <2>2, <3>2, <3>3, ExecIs
    <3>5. TopN(On(b, results), Len(results)) = results
      BY <3>3, TopOfConcat DEF On
    <3> QED
      BY <3>4, <3>5
  <2> QED
    BY <2>1, <2>2
<1>14. Needs(e, results) = e
  BY <1>13, NeedsIs
<1>15. n = Kill(e)
  BY <1>3, <1>11, <1>12, <1>14 DEF TailCall
<1>16. Agree(SetUnreachable(w), Kill(e))
  BY <1>4, <1>13, KillAgrees
<1> QED
  BY <1>8, <1>10, <1>15, <1>16

LEMMA ReturnCallAgrees ==
  ASSUME NEW t, Good(t), NEW mm, Agree(t, mm), NEW params \in ResultType, NEW results \in ResultType,
         NEW u, u = OnReturnCall(t, params, results), u.ok, NEW n, n = TailCall(mm, params, results)
  PROVE  Agree(u, n)
<1>1. PICK w : w = PopAndCheckSignature(t, params)
  OBVIOUS
<1>2. Within(t, w)
  BY <1>1, PopWithin
<1>3. ThisFunctionLabel(w) = ThisFunctionLabel(t)
  BY <1>2 DEF Within, ThisFunctionLabel
<1>4. u = SetUnreachable(Check(w, CheckTypes(results, ThisFunctionLabel(w).result_types)))
  BY <1>1, <1>3 DEF OnReturnCall
<1>5. w.ok => (mm.live => \E b \in ResultType : t.type_stack = On(b, params))
  <2> SUFFICES ASSUME w.ok, mm.live
               PROVE  \E b \in ResultType : t.type_stack = On(b, params)
    OBVIOUS
  <2>1. Typed(w) /\ t.type_stack = On(w.type_stack, params)
    BY <1>1, PopExact, TypedIs
  <2> QED
    BY <2>1 DEF Typed
<1> QED
  BY <1>2, <1>4, <1>5, TailAgrees

LEMMA ReturnCallIndirectAgrees ==
  ASSUME NEW t, Good(t), NEW mm, Agree(t, mm), NEW params \in ResultType, NEW results \in ResultType,
         NEW u, u = OnReturnCallIndirect(t, params, results), u.ok,
         NEW n, n = TailCall(mm, Append(params, "i32"), results)
  PROVE  Agree(u, n)
<1>1. PICK index, one, v : index = "i32" /\ one = <<index>> /\ v = PopAndCheckSignature(t, one)
  OBVIOUS
<1>2. PICK w : w = PopAndCheckSignature(v, params)
  OBVIOUS
<1>3. one \in ResultType /\ index \in ValueType
  BY <1>1, OneType
<1>4. Within(t, v) /\ Good(v) /\ Within(v, w) /\ Within(t, w)
  <2>1. Within(t, v) /\ Good(v)
    BY <1>1, <1>3, PopWithin, WithinGood
  <2>2. Within(v, w)
    BY <1>2, <2>1, PopWithin
  <2> QED
    BY <2>1, <2>2, WithinTransitive
<1>5. ThisFunctionLabel(w) = ThisFunctionLabel(v)
  BY <1>4 DEF Within, ThisFunctionLabel
<1>6. u = SetUnreachable(Check(w, CheckTypes(results, ThisFunctionLabel(w).result_types)))
  BY <1>1, <1>2, <1>5 DEF OnReturnCallIndirect, OnReturnCall
<1>7. PICK all : all = Append(params, index)
  OBVIOUS
<1>8. all \in ResultType
  <2>1. <<>> \in ResultType
    BY OneType
  <2> QED
    BY <1>3, <1>7, <2>1, Above
<1>9. w.ok => (mm.live => \E b \in ResultType : t.type_stack = On(b, all))
  <2> SUFFICES ASSUME w.ok, mm.live
               PROVE  \E b \in ResultType : t.type_stack = On(b, all)
    OBVIOUS
  <2>1. v.ok
    BY <1>4 DEF Within
  <2>2. Typed(v) /\ t.type_stack = On(v.type_stack, one)
    BY <1>1, <1>3, <2>1, PopExact, TypedIs
  <2>3. Typed(w) /\ v.type_stack = On(w.type_stack, params)
    BY <1>2, <2>2, PopExact
  <2>4. PICK b \in ResultType : b = w.type_stack
    BY <2>3 DEF Typed
  <2>5. On(On(b, params), <<index>>) = On(b, Append(params, index))
    BY <1>3, Above
  <2> QED
    BY <1>1, <1>7, <2>2, <2>3, <2>4, <2>5
<1>10. n = TailCall(mm, all, results)
  BY <1>1, <1>7
<1> QED
  BY <1>4, <1>6, <1>8, <1>9, <1>10, TailAgrees

-----------------------------------------------------------------------------
(* Blocks                                                                   *)

LEMMA WholeSeq ==
  ASSUME NEW S, NEW s \in Seq(S)
  PROVE  SubSeq(s, 1, Len(s)) = s
<1>1. Len(s) \in Nat /\ Len(s) <= Len(s)
  BY LenProperties
<1>2. /\ SubSeq(s, 1, Len(s)) \in Seq(S) /\ Len(SubSeq(s, 1, Len(s))) = Len(s)
      /\ \A i \in 1 .. Len(s) : SubSeq(s, 1, Len(s))[i] = s[i]
  BY <1>1, Prefix
<1> QED
  BY <1>2, SeqEqual

\* A block that is complete and that control gets through has its results on
\* the operands below it.
LEMMA CompleteIs ==
  ASSUME NEW t, Typed(t), Complete(t)
  PROVE  t.type_stack = On(SubSeq(t.type_stack, 1, Lim(t)), TopLabel(t).result_types)
<1>1. PICK sig, v : sig = TopLabel(t).result_types /\ v = PopAndCheckSignature(t, sig)
  OBVIOUS
<1>2. sig \in ResultType /\ Good(t)
  BY <1>1, TopTypes DEF Typed
<1>3. v.ok /\ Len(v.type_stack) = Lim(t)
  BY <1>1 DEF Complete
<1>4. Typed(v) /\ t.type_stack = On(v.type_stack, sig)
  BY <1>1, <1>2, <1>3, PopExact
<1>5. Within(t, v)
  BY <1>1, <1>2, PopWithin
<1>6. SubSeq(v.type_stack, 1, Lim(t)) = SubSeq(t.type_stack, 1, Lim(t))
  BY <1>5 DEF Within
<1>7. v.type_stack \in Seq(ValueType)
  BY <1>4 DEF Typed, ResultType
<1>8. SubSeq(v.type_stack, 1, Lim(t)) = v.type_stack
  BY <1>3, <1>7, WholeSeq
<1> QED
  BY <1>1, <1>4, <1>6, <1>8

\* How control gets behind the innermost block.
LEMMA ArrivalsAre ==
  ASSUME NEW t, Good(t), NEW mm, Agree(t, mm), Complete(t),
         NEW f, f = mm.ctl[Len(mm.ctl)]
  PROVE  /\ Len(mm.ctl) = Len(t.label_stack) /\ Len(mm.ctl) \in DOMAIN mm.ctl
         /\ FrameAgrees(f, TopLabel(t), t.type_stack) /\ f \in FrameType
         /\ Leaves(f, Arrivals(mm))
         /\ f.entered => f.base = SubSeq(t.type_stack, 1, Lim(t)) /\ f.base \in ResultType
<1>1. mm.ctl \in Seq(FrameType) /\ Frames(t, mm.ctl)
  BY DEF Agree, Machine
<1>2. PICK k : k = Len(mm.ctl)
  OBVIOUS
<1>3. k \in DOMAIN mm.ctl /\ k = Len(t.label_stack) /\ f = mm.ctl[k] /\ TopLabel(t) = t.label_stack[k]
  BY <1>1, <1>2, FrameIs, GoodLabels
<1>4. FrameAgrees(f, TopLabel(t), t.type_stack) /\ f \in FrameType
  BY <1>1, <1>3, FrameIs DEF Frames
<1>5. f.entered => f.base = SubSeq(t.type_stack, 1, Lim(t)) /\ f.base \in ResultType
  BY <1>4 DEF FrameAgrees, Lim
<1>6. mm.live => f.entered /\ mm.stack = On(f.base, f.results)
  <2> SUFFICES ASSUME mm.live
               PROVE  f.entered /\ mm.stack = On(f.base, f.results)
    OBVIOUS
  <2>1. f.entered
    BY <1>2, <1>3, AllEntered
  <2>2. Typed(t) /\ mm.stack = t.type_stack
    BY TypedIs
  <2>3. t.type_stack = On(SubSeq(t.type_stack, 1, Lim(t)), TopLabel(t).result_types)
    BY <2>2, CompleteIs
  <2>4. f.results = TopLabel(t).result_types
    BY <1>4 DEF FrameAgrees
  <2> QED
    BY <1>5, <2>1, <2>2, <2>3, <2>4
<1>7. Leaves(f, f.hits)
  BY <1>4 DEF FrameAgrees, Leaves, On
<1>8. Arrivals(mm) = f.hits \cup (IF mm.live THEN {mm.stack} ELSE {})
  BY DEF Arrivals
<1>9. Leaves(f, Arrivals(mm))
  BY <1>6, <1>7, <1>8 DEF Leaves
<1> QED
  BY <1>2, <1>3, <1>4, <1>5, <1>9

\* Else and catch: the next part begins where the block was entered.
LEMMA PartAgrees ==
  ASSUME NEW t, Good(t), NEW mm, Agree(t, mm), Complete(t), NEW u, Good(u),
         TopLabel(t).label_type # "loop", TopLabel(u).label_type # "loop",
         Len(u.label_stack) = Len(t.label_stack),
         \A k \in DOMAIN t.label_stack : k # Len(t.label_stack) => u.label_stack[k] = t.label_stack[k],
         SameBlock(TopLabel(t), TopLabel(u)), ~TopLabel(u).unreachable,
         NEW types \in ResultType,
         u.type_stack = SubSeq(t.type_stack, 1, Lim(t)) \o types,
         NEW n, n = NextPart(mm, types)
  PROVE  Agree(u, n)
<1>1. mm \in Machine /\ ~mm.stuck /\ Frames(t, mm.ctl) /\ mm.ctl \in Seq(FrameType)
  BY DEF Agree, Machine
<1>2. PICK ctl, k, f : ctl = mm.ctl /\ k = Len(ctl) /\ f = ctl[k]
  OBVIOUS
<1>3. /\ k \in DOMAIN ctl /\ FrameAgrees(f, TopLabel(t), t.type_stack) /\ f \in FrameType
      /\ Leaves(f, Arrivals(mm))
      /\ f.entered => f.base = SubSeq(t.type_stack, 1, Lim(t)) /\ f.base \in ResultType
  BY <1>2, ArrivalsAre
<1>4. PICK base : base = SubSeq(t.type_stack, 1, Lim(t))
  OBVIOUS
<1>5. /\ base \in Seq(StackType) /\ types \in Seq(StackType) /\ Lim(t) \in Nat /\ Len(base) = Lim(t)
      /\ Lim(t) <= Len(t.type_stack) /\ t.type_stack \in Seq(StackType)
  BY <1>4, GoodLabels, Prefix, ResultsAreOperands DEF Checker
<1>6. SubSeq(u.type_stack, 1, Lim(t)) = SubSeq(t.type_stack, 1, Lim(t))
  <2>1. Lim(t) <= Len(base)
    BY <1>5
  <2>2. SubSeq(base \o types, 1, Lim(t)) = SubSeq(base, 1, Lim(t))
    BY <1>5, <2>1, PrefixOfConcat
  <2>3. SubSeq(base, 1, Lim(t)) = base
    BY <1>5, WholeSeq
  <2> QED
    BY <1>4, <2>2, <2>3
<1>7. Frames(u, ctl) /\ ctl \in Seq(FrameType)
  BY <1>1, <1>2, <1>6, FramesStay
<1>8. PICK hits, d : hits = Arrivals(mm) /\ d = WithHits(ctl, k, hits)
  OBVIOUS
<1>9. /\ d \in Seq(FrameType) /\ Frames(u, d) /\ Len(d) = Len(ctl)
      /\ (ctl[Len(ctl)].entered => d[Len(d)].entered)
  BY <1>2, <1>3, <1>7, <1>8, HitFrames
<1>10. PICK flag, s : flag = f.entered /\ s = IF flag THEN f.base \o types ELSE <<>>
  OBVIOUS
<1>11. flag \in BOOLEAN /\ s \in Seq(StackType)
  <2>1. f.entered \in BOOLEAN /\ f.base \in Seq(StackType)
    BY <1>3 DEF FrameType
  <2>2. f.base \o types \in Seq(StackType) /\ <<>> \in Seq(StackType)
    BY <1>5, <2>1, ConcatProperties, EmptySeq
  <2> QED
    BY <1>10, <2>1, <2>2
<1>12. n = [mm EXCEPT !.ctl = d, !.live = flag, !.stack = s]
  <2>1. n = [mm EXCEPT !.ctl[k].hits = hits, !.live = flag, !.stack = s]
    BY <1>2, <1>8, <1>10 DEF NextPart
  <2>2. d = [mm.ctl EXCEPT ![k].hits = hits]
    BY <1>2, <1>8 DEF WithHits
  <2> QED
    BY <2>1, <2>2
<1>13. n \in Machine /\ n.stuck = mm.stuck /\ n.ctl = d /\ n.live = flag /\ n.stack = s
  BY <1>1, <1>9, <1>11, <1>12 DEF Machine
<1>14. n.live => Running(u, n)
  <2> SUFFICES ASSUME n.live
               PROVE  Running(u, n)
    OBVIOUS
  <2>1. f.entered /\ s = f.base \o types
    BY <1>10, <1>13
  <2>2. f.base = base /\ base \in ResultType
    BY <1>3, <1>4, <2>1
  <2>3. u.type_stack \in ResultType /\ n.stack = u.type_stack
    BY <1>4, <1>13, <2>1, <2>2, ConcatProperties DEF ResultType
  <2>4. n.ctl[Len(n.ctl)].entered
    BY <1>2, <1>9, <1>13, <2>1
  <2> QED
    BY <2>3, <2>4 DEF Running
<1> QED
  BY <1>1, <1>9, <1>13, <1>14 DEF Agree

\* The innermost block is closed, and leaves its results.
Closes(t, u) ==
  /\ Len(u.label_stack) = Len(t.label_stack) - 1
  /\ \A k \in 1 .. Len(t.label_stack) - 1 : u.label_stack[k] = t.label_stack[k]

\* The blocks around one that is closed are as they were.
LEMMA LeaveFrames ==
  ASSUME NEW t, Good(t), NEW ctl \in Seq(FrameType), Frames(t, ctl), Len(t.label_stack) > 1,
         NEW u, Closes(t, u), NEW results \in ResultType,
         u.type_stack = On(SubSeq(t.type_stack, 1, Lim(t)), results),
         NEW d, d = Below(ctl, 1)
  PROVE  /\ d \in Seq(FrameType) /\ Frames(u, d)
         /\ ctl[Len(ctl)].entered => d[Len(d)].entered /\ ~u.label_stack[Len(u.label_stack)].unreachable
<1>1. PICK n, j : n = Len(ctl) /\ j = n - 1
  OBVIOUS
<1>a. n \in Nat /\ n = Len(t.label_stack) /\ DOMAIN ctl = 1 .. n /\ DOMAIN t.label_stack = 1 .. n
  BY <1>1, FrameIs, GoodLabels
<1>2. /\ n \in Nat /\ n = Len(t.label_stack) /\ DOMAIN ctl = 1 .. n /\ DOMAIN t.label_stack = 1 .. n
      /\ j \in Nat /\ j <= Len(ctl) /\ j # 0 /\ j < n
  <2>1. n \in Nat /\ n > 1
    BY <1>a
  <2>2. j \in Nat /\ j # 0 /\ j < n
    BY <2>1, <1>1
  <2>3. j <= Len(ctl)
    BY <2>1, <1>1
  <2> QED
    BY <1>a, <2>2, <2>3
<1>b. Len(u.label_stack) = j /\ \A k \in 1 .. j : u.label_stack[k] = t.label_stack[k]
  BY <1>1, <1>2 DEF Closes
<1>3. d = SubSeq(ctl, 1, j)
  BY <1>1 DEF Below
<1>4. d \in Seq(FrameType) /\ Len(d) = j /\ \A k \in 1 .. j : d[k] = ctl[k]
  BY <1>2, <1>3, Prefix
<1>5. DOMAIN d = 1 .. j
  BY <1>4, LenProperties
<1>6. PICK base : base = SubSeq(t.type_stack, 1, Lim(t))
  OBVIOUS
<1>7. /\ base \in Seq(StackType) /\ results \in Seq(StackType) /\ Lim(t) \in Nat /\ Len(base) = Lim(t)
      /\ Lim(t) <= Len(t.type_stack) /\ t.type_stack \in Seq(StackType)
  BY <1>6, GoodLabels, Prefix, ResultsAreOperands DEF Checker
<1>8. \A k \in 1 .. j : SubSeq(u.type_stack, 1, t.label_stack[k].type_stack_limit)
                          = SubSeq(t.type_stack, 1, t.label_stack[k].type_stack_limit)
  <2> SUFFICES ASSUME NEW k \in 1 .. j
               PROVE  SubSeq(u.type_stack, 1, t.label_stack[k].type_stack_limit)
                        = SubSeq(t.type_stack, 1, t.label_stack[k].type_stack_limit)
    OBVIOUS
  <2>1. PICK l : l = t.label_stack[k].type_stack_limit
    OBVIOUS
  <2>2. l \in Nat /\ l <= Lim(t)
    BY <1>2, <2>1, GoodLabels DEF Label
  <2>3. SubSeq(base \o results, 1, l) = SubSeq(base, 1, l)
    BY <1>7, <2>2, PrefixOfConcat
  <2>4. SubSeq(base, 1, l) = SubSeq(t.type_stack, 1, l)
    BY <1>6, <1>7, <2>2, PrefixOfPrefix
  <2> QED
    BY <1>6, <2>1, <2>3, <2>4 DEF On
<1>9. \A k \in DOMAIN d : FrameAgrees(d[k], u.label_stack[k], u.type_stack)
  <2> SUFFICES ASSUME NEW k \in DOMAIN d
               PROVE  FrameAgrees(d[k], u.label_stack[k], u.type_stack)
    OBVIOUS
  <2>1. k \in 1 .. j /\ k \in DOMAIN ctl
    BY <1>2, <1>5
  <2>2. FrameAgrees(ctl[k], t.label_stack[k], t.type_stack)
    BY <2>1 DEF Frames
  <2>3. d[k] = ctl[k] /\ u.label_stack[k] = t.label_stack[k]
    BY <1>4, <1>b, <2>1
  <2> QED
    BY <1>8, <2>1, <2>2, <2>3 DEF FrameAgrees
<1>10. \A k, l \in DOMAIN d : k < l /\ d[l].entered => d[k].entered /\ ~u.label_stack[k].unreachable
  <2> SUFFICES ASSUME NEW k \in DOMAIN d, NEW l \in DOMAIN d, k < l, d[l].entered
               PROVE  d[k].entered /\ ~u.label_stack[k].unreachable
    OBVIOUS
  <2>1. k \in 1 .. j /\ l \in 1 .. j /\ k \in DOMAIN ctl /\ l \in DOMAIN ctl
    BY <1>2, <1>5
  <2>2. d[k] = ctl[k] /\ d[l] = ctl[l] /\ u.label_stack[k] = t.label_stack[k]
    BY <1>4, <1>b, <2>1
  <2> QED
    BY <2>1, <2>2 DEF Frames
<1>11. u.label_stack[1].type_stack_limit = 0 /\ Len(d) = Len(u.label_stack)
  <2>1. 1 \in 1 .. j
    BY <1>2
  <2> QED
    BY <1>4, <1>b, <2>1 DEF Frames
<1>12. Frames(u, d)
  BY <1>9, <1>10, <1>11 DEF Frames
<1>13. ctl[Len(ctl)].entered => d[Len(d)].entered /\ ~u.label_stack[Len(u.label_stack)].unreachable
  <2>1. j \in DOMAIN ctl /\ n \in DOMAIN ctl /\ j \in 1 .. j
    BY <1>2
  <2>2. ctl[n].entered => ctl[j].entered /\ ~t.label_stack[j].unreachable
    BY <1>2, <2>1 DEF Frames
  <2>3. Len(u.label_stack) = j /\ u.label_stack[j] = t.label_stack[j] /\ d[j] = ctl[j] /\ Len(d) = j
    BY <1>4, <1>b, <2>1
  <2> QED
    BY <1>1, <2>2, <2>3
<1> QED
  BY <1>4, <1>12, <1>13

LEMMA EndAgrees ==
  ASSUME NEW t, Good(t), NEW mm, Agree(t, mm), Len(t.label_stack) > 1,
         NEW u, u = EndLabel(t), u.ok, NEW n \in Outcomes(mm)
  PROVE  Agree(u, n)
<1>1. mm \in Machine /\ ~mm.stuck /\ Frames(t, mm.ctl) /\ mm.ctl \in Seq(FrameType)
  BY DEF Agree, Machine
<1>2. /\ Shape(u) /\ Complete(t)
      /\ u.type_stack = SubSeq(t.type_stack, 1, Lim(t)) \o TopLabel(t).result_types
      /\ Len(u.label_stack) = Len(t.label_stack) - 1
      /\ \A k \in 1 .. Len(t.label_stack) - 1 : u.label_stack[k] = t.label_stack[k]
  BY EndIs
<1>a. Closes(t, u)
  BY <1>2 DEF Closes
<1>3. PICK results, ctl, d, f : /\ results = TopLabel(t).result_types /\ ctl = mm.ctl
                                /\ d = Below(ctl, 1) /\ f = ctl[Len(ctl)]
  OBVIOUS
<1>4. results \in ResultType
  BY <1>3, TopTypes
<1>5. /\ d \in Seq(FrameType) /\ Frames(u, d)
      /\ f.entered => d[Len(d)].entered /\ ~u.label_stack[Len(u.label_stack)].unreachable
  <2>1. u.type_stack = On(SubSeq(t.type_stack, 1, Lim(t)), results)
    BY <1>2, <1>3 DEF On
  <2>2. ctl \in Seq(FrameType) /\ Frames(t, ctl)
    BY <1>1, <1>3
  <2> QED
    BY <1>a, <1>3, <1>4, <2>1, <2>2, LeaveFrames
<1>6. /\ FrameAgrees(f, TopLabel(t), t.type_stack) /\ Leaves(f, Arrivals(mm))
      /\ f.entered => f.base = SubSeq(t.type_stack, 1, Lim(t)) /\ f.base \in ResultType
  BY <1>2, <1>3, ArrivalsAre
<1>7. PICK left : left = [mm EXCEPT !.ctl = d]
  OBVIOUS
<1>8. left \in Machine /\ left.stuck = mm.stuck /\ left.ctl = d
  BY <1>1, <1>5, <1>7 DEF Machine
<1>9. left = [mm EXCEPT !.ctl = Below(@, 1)]
  BY <1>3, <1>7
<1>10. CASE Arrivals(mm) = {}
  <2>1. n = Kill(left)
    BY <1>9, <1>10 DEF Outcomes
  <2>2. n \in Machine /\ n.stuck = left.stuck /\ n.ctl = left.ctl /\ ~n.live
    BY <1>8, <2>1, KillIs
  <2> QED
    BY <1>1, <1>5, <1>8, <2>2 DEF Agree
<1>11. CASE Arrivals(mm) # {}
  <2>1. PICK s \in Arrivals(mm) : n = [left EXCEPT !.live = TRUE, !.stack = s]
    BY <1>9, <1>11 DEF Outcomes
  <2>2. f.entered /\ s = On(f.base, f.results)
    BY <1>6, <2>1 DEF Leaves
  <2>3. f.results = results
    BY <1>3, <1>6 DEF FrameAgrees
  <2>4. s = u.type_stack
    BY <1>2, <1>3, <1>6, <2>2, <2>3 DEF On
  <2>5. s \in ResultType
    BY <1>4, <1>6, <2>2, <2>3, ConcatProperties DEF On, ResultType
  <2>6. PICK flag \in BOOLEAN : flag = TRUE
    OBVIOUS
  <2>7. s \in Seq(StackType)
    BY <2>5, ResultsAreOperands
  <2>8. n = [left EXCEPT !.live = flag, !.stack = s]
    BY <2>1, <2>6
  <2>9. n \in Machine /\ n.stuck = left.stuck /\ n.ctl = left.ctl /\ n.stack = s
    BY <1>8, <2>7, <2>8 DEF Machine
  <2>10. u.label_stack # <<>> /\ Good(u)
    <3>1. PICK k : k = Len(t.label_stack)
      OBVIOUS
    <3>2. k \in Nat /\ k > 1 /\ Len(u.label_stack) = k - 1
      BY <1>2, <3>1, GoodLabels
    <3> QED
      BY <1>2, <3>2 DEF Good
  <2>11. TopLabel(u) = u.label_stack[Len(u.label_stack)]
    BY <2>10, GoodLabels
  <2>12. Running(u, n)
    BY <1>5, <1>8, <2>2, <2>4, <2>5, <2>9, <2>11 DEF Running
  <2> QED
    BY <1>1, <1>5, <1>8, <2>9, <2>12 DEF Agree
<1> QED
  BY <1>10, <1>11

\* A block is opened: the labels around it are as they were, and the stack is
\* the same, and reaches above its parameters.
Opens(t, u) ==
  /\ Len(u.label_stack) = Len(t.label_stack) + 1
  /\ \A k \in 1 .. Len(t.label_stack) : u.label_stack[k] = t.label_stack[k]

Pushed(ctl, f) == Append(ctl, f)

LEMMA PushFrames ==
  ASSUME NEW t, Good(t), NEW ctl \in Seq(FrameType), Frames(t, ctl),
         NEW v, Within(t, v), NEW u, Opens(t, u), NEW params \in ResultType,
         u.type_stack = On(v.type_stack, params),
         NEW f \in FrameType, FrameAgrees(f, u.label_stack[Len(u.label_stack)], u.type_stack),
         f.entered => ctl[Len(ctl)].entered /\ ~TopLabel(t).unreachable,
         NEW d, d = Pushed(ctl, f)
  PROVE  /\ d \in Seq(FrameType) /\ Frames(u, d) /\ d[Len(d)] = f
<1>1. PICK n, j : n = Len(ctl) /\ j = n + 1
  OBVIOUS
<1>2. /\ n \in Nat \ {0} /\ n = Len(t.label_stack) /\ DOMAIN ctl = 1 .. n
      /\ DOMAIN t.label_stack = 1 .. n /\ TopLabel(t) = t.label_stack[n]
  BY <1>1, FrameIs, GoodLabels
<1>3. j \in Nat /\ n < j /\ n \in 1 .. n /\ 1 \in 1 .. n /\ \A k \in 1 .. j : k \in 1 .. n \/ k = j
  BY <1>1, <1>2
<1>4. Len(u.label_stack) = j /\ \A k \in 1 .. n : u.label_stack[k] = t.label_stack[k]
  BY <1>1, <1>2 DEF Opens
<1>5. /\ d \in Seq(FrameType) /\ Len(d) = j /\ (\A k \in 1 .. n : d[k] = ctl[k]) /\ d[j] = f
  BY <1>1, AppendProperties DEF Pushed
<1>6. DOMAIN d = 1 .. j
  BY <1>5, LenProperties
<1>7. /\ v.type_stack \in Seq(StackType) /\ params \in Seq(StackType) /\ Lim(t) \in Nat
      /\ Lim(t) <= Len(v.type_stack) /\ Frames(v, ctl) /\ v.label_stack = t.label_stack
  <2>1. Good(v) /\ Lim(v) = Lim(t) /\ v.label_stack = t.label_stack
    BY WithinGood DEF Within
  <2>2. v.type_stack \in Seq(StackType) /\ Lim(v) \in Nat /\ Lim(v) <= Len(v.type_stack)
    BY <2>1, GoodLabels DEF Checker
  <2>3. Frames(v, ctl)
    BY FramesWithin
  <2> QED
    BY <2>1, <2>2, <2>3, ResultsAreOperands
<1>8. \A k \in 1 .. n : SubSeq(u.type_stack, 1, t.label_stack[k].type_stack_limit)
                          = SubSeq(v.type_stack, 1, t.label_stack[k].type_stack_limit)
  <2> SUFFICES ASSUME NEW k \in 1 .. n
               PROVE  SubSeq(u.type_stack, 1, t.label_stack[k].type_stack_limit)
                        = SubSeq(v.type_stack, 1, t.label_stack[k].type_stack_limit)
    OBVIOUS
  <2>1. PICK l, s : l = t.label_stack[k].type_stack_limit /\ s = v.type_stack
    OBVIOUS
  <2>2. l \in Nat /\ l <= Lim(t)
    BY <1>2, <2>1, GoodLabels DEF Label
  <2>3. l <= Len(s) /\ s \in Seq(StackType)
    BY <1>7, <2>1, <2>2, LenProperties
  <2>4. SubSeq(s \o params, 1, l) = SubSeq(s, 1, l)
    BY <1>7, <2>2, <2>3, PrefixOfConcat
  <2> QED
    BY <2>1, <2>4 DEF On
<1>9. \A k \in DOMAIN d : FrameAgrees(d[k], u.label_stack[k], u.type_stack)
  <2> SUFFICES ASSUME NEW k \in DOMAIN d
               PROVE  FrameAgrees(d[k], u.label_stack[k], u.type_stack)
    OBVIOUS
  <2>1. CASE k = j
    BY <1>4, <1>5, <2>1
  <2>2. CASE k \in 1 .. n
    <3>1. FrameAgrees(ctl[k], t.label_stack[k], v.type_stack)
      BY <1>2, <1>7, <2>2 DEF Frames
    <3>2. d[k] = ctl[k] /\ u.label_stack[k] = t.label_stack[k]
      BY <1>4, <1>5, <2>2
    <3> QED
      BY <1>8, <2>2, <3>1, <3>2 DEF FrameAgrees
  <2> QED
    BY <1>3, <1>6, <2>1, <2>2
<1>10. \A k, l \in DOMAIN d : k < l /\ d[l].entered => d[k].entered /\ ~u.label_stack[k].unreachable
  <2> SUFFICES ASSUME NEW k \in DOMAIN d, NEW l \in DOMAIN d, k < l, d[l].entered
               PROVE  d[k].entered /\ ~u.label_stack[k].unreachable
    OBVIOUS
  <2>1. k \in 1 .. n
    BY <1>1, <1>2, <1>6
  <2>2. d[k] = ctl[k] /\ u.label_stack[k] = t.label_stack[k]
    BY <1>4, <1>5, <2>1
  <2>3. CASE l \in 1 .. n
    BY <1>2, <1>5, <2>1, <2>2, <2>3 DEF Frames
  <2>4. CASE l = j
    <3>1. ctl[n].entered /\ ~t.label_stack[n].unreachable
      BY <1>1, <1>2, <1>5, <2>4
    <3>2. CASE k = n
      BY <2>2, <3>1, <3>2
    <3>3. CASE k # n
      <4>1. k < n /\ n \in DOMAIN ctl /\ k \in DOMAIN ctl
        BY <1>2, <2>1, <3>3
      <4> QED
        BY <2>2, <3>1, <4>1 DEF Frames
    <3> QED
      BY <3>2, <3>3
  <2> QED
    BY <1>3, <1>6, <2>3, <2>4
<1>11. u.label_stack[1].type_stack_limit = 0 /\ Len(d) = Len(u.label_stack)
  BY <1>3, <1>4, <1>5 DEF Frames
<1>12. Frames(u, d)
  BY <1>9, <1>10, <1>11 DEF Frames
<1> QED
  BY <1>5, <1>12

LEMMA SplitOn ==
  ASSUME NEW S, NEW b \in Seq(S), NEW x \in Seq(S), NEW s, s = On(b, x)
  PROVE  TopN(s, Len(x)) = x /\ Below(s, Len(x)) = b
<1>1. s = b \o x
  BY DEF On
<1>2. TopN(b \o x, Len(x)) = x
  BY TopOfConcat
<1>3. Below(b \o x, Len(x)) = b
  BY TopOfConcat
<1> QED
  BY <1>1, <1>2, <1>3

LEMMA OpenLabelIs ==
  ASSUME NEW t, Good(t), NEW type \in LabelType, NEW params \in ResultType, NEW results \in ResultType,
         NEW u, u = OpenLabel(t, type, params, results), u.ok,
         NEW v, v = PopAndCheckSignature(t, params)
  PROVE  /\ Good(u) /\ Within(t, v) /\ v.ok /\ Good(v)
         /\ u.type_stack = On(v.type_stack, params) /\ Opens(t, u)
         /\ TopLabel(u).label_type = type /\ TopLabel(u).param_types = params
         /\ TopLabel(u).result_types = results /\ TopLabel(u).type_stack_limit = Len(v.type_stack)
         /\ ~TopLabel(u).unreachable
<1>1. Good(u)
  BY OpenIs
<1>2. Within(t, v)
  BY OpenIs
<1>3. u.ok => v.ok
  BY OpenIs
<1>4. u.type_stack = On(v.type_stack, params)
  BY OpenIs
<1>5. Opens(t, u)
  <2>1. Len(u.label_stack) = Len(t.label_stack) + 1
    BY OpenIs
  <2>2. \A k \in 1 .. Len(t.label_stack) : u.label_stack[k] = t.label_stack[k]
    BY OpenIs
  <2> QED
    BY <2>1, <2>2 DEF Opens
<1>6. TopLabel(u) = NewLabel(type, params, results, Len(v.type_stack))
  BY OpenIs
<1>7. Good(v)
  BY <1>2, WithinGood
<1>8. PICK limit : limit = Len(v.type_stack)
  OBVIOUS
<1>9. limit \in Nat
  BY <1>7, <1>8, GoodLabels, LenProperties DEF Checker
<1>10. PICK l : l = NewLabel(type, params, results, limit)
  OBVIOUS
<1>11. /\ l.label_type = type /\ l.param_types = params /\ l.result_types = results
       /\ l.type_stack_limit = limit /\ ~l.unreachable
  BY <1>9, <1>10, NewLabelIs
<1>12. TopLabel(u) = l
  BY <1>6, <1>8, <1>10
<1>14. v.ok
  BY <1>3
<1> QED
  BY <1>1, <1>2, <1>5, <1>7, <1>8, <1>4, <1>11, <1>12, <1>14

LEMMA OpenAgrees ==
  ASSUME NEW t, Good(t), NEW mm, Agree(t, mm), NEW type \in LabelType, NEW loop \in BOOLEAN,
         loop <=> type = "loop", NEW params \in ResultType, NEW results \in ResultType,
         NEW u, u = OpenLabel(t, type, params, results), u.ok,
         NEW n, n = Enter(mm, loop, params, results)
  PROVE  Agree(u, n)
<1>1. mm \in Machine /\ ~mm.stuck /\ Frames(t, mm.ctl) /\ mm.ctl \in Seq(FrameType)
  BY DEF Agree, Machine
<1>2. PICK v, limit : v = PopAndCheckSignature(t, params) /\ limit = Len(v.type_stack)
  OBVIOUS
<1>3. /\ Good(u) /\ Within(t, v) /\ v.ok /\ Good(v)
      /\ u.type_stack = On(v.type_stack, params) /\ Opens(t, u)
  BY <1>2, OpenLabelIs
<1>4. TopLabel(u) = u.label_stack[Len(u.label_stack)] /\ limit \in Nat
      /\ v.type_stack \in Seq(StackType) /\ params \in Seq(StackType)
  BY <1>2, <1>3, GoodLabels, LenProperties, ResultsAreOperands DEF Checker
<1>5. PICK l : l = TopLabel(u)
  OBVIOUS
<1>6. /\ l.label_type = type /\ l.param_types = params /\ l.result_types = results
      /\ l.type_stack_limit = limit /\ ~l.unreachable
  BY <1>2, <1>5, OpenLabelIs
<1>7. mm.live => /\ Typed(t) /\ mm.stack = t.type_stack /\ Typed(v)
                 /\ t.type_stack = On(v.type_stack, params)
  BY <1>2, <1>3, TypedIs, PopExact
<1>8. PICK base, entered : base = Below(mm.stack, Len(params)) /\ entered = mm.live
  OBVIOUS
<1>9. base \in Seq(StackType) /\ entered \in BOOLEAN
  BY <1>1, <1>8, BelowIs, ResultsAreOperands DEF Machine
<1>10. PICK f : f = [base |-> base, loop |-> loop, params |-> params, results |-> results,
                     entered |-> entered, hits |-> {}]
  OBVIOUS
<1>11. /\ f \in FrameType /\ f.base = base /\ f.loop = loop /\ f.params = params
       /\ f.results = results /\ f.entered = entered /\ f.hits = {}
  BY <1>9, <1>10 DEF FrameType
<1>12. Needs(mm, params) = mm
  <2>1. PICK s, w : s = mm.stack /\ w = v.type_stack
    OBVIOUS
  <2>2. mm.live => s = On(w, params)
    BY <1>7, <2>1
  <2>3. w \in Seq(StackType) /\ params \in Seq(StackType)
    BY <1>4, <2>1
  <2>4. mm.live => TopN(s, Len(params)) = params
    BY <2>2, <2>3, SplitOn
  <2>5. mm.live => TopN(mm.stack, Len(params)) = params
    BY <2>1, <2>4
  <2> QED
    BY <1>1, <2>5, NeedsIs
<1>13. PICK ctl, d : ctl = mm.ctl /\ d = Pushed(ctl, f)
  OBVIOUS
<1>14. n = [mm EXCEPT !.ctl = d]
  <2>1. f = Frame(mm, loop, params, results)
    BY <1>8, <1>10 DEF Frame
  <2> QED
    BY <1>12, <1>13, <2>1 DEF Enter, Pushed
<1>15. FrameAgrees(f, l, u.type_stack)
  <2>1. entered => base = SubSeq(u.type_stack, 1, limit) /\ base \in ResultType
    <3> SUFFICES ASSUME mm.live
                 PROVE  base = SubSeq(u.type_stack, 1, limit) /\ base \in ResultType
      BY <1>8
    <3>1. base = v.type_stack
      <4>1. PICK s, w : s = mm.stack /\ w = v.type_stack
        OBVIOUS
      <4>2. s = On(w, params) /\ w \in Seq(StackType) /\ params \in Seq(StackType)
        BY <1>4, <1>7, <4>1
      <4>3. Below(s, Len(params)) = w
        BY <4>2, SplitOn
      <4> QED
        BY <1>8, <4>1, <4>3
    <3>2. limit <= Len(v.type_stack)
      BY <1>2, <1>4
    <3>3. SubSeq(v.type_stack \o params, 1, limit) = SubSeq(v.type_stack, 1, limit)
      BY <1>4, <3>2, PrefixOfConcat
    <3>4. SubSeq(v.type_stack, 1, limit) = v.type_stack
      BY <1>2, <1>4, WholeSeq
    <3> QED
      BY <1>3, <1>7, <3>1, <3>3, <3>4 DEF On, Typed
  <2> QED
    BY <1>6, <1>11, <2>1 DEF FrameAgrees
<1>16. f.entered => ctl[Len(ctl)].entered /\ ~TopLabel(t).unreachable
  BY <1>8, <1>11, <1>13 DEF Agree, Running
<1>17. d \in Seq(FrameType) /\ Frames(u, d) /\ d[Len(d)] = f
  <2>1. FrameAgrees(f, u.label_stack[Len(u.label_stack)], u.type_stack)
    BY <1>4, <1>5, <1>15
  <2>2. ctl \in Seq(FrameType) /\ Frames(t, ctl)
    BY <1>1, <1>13
  <2> QED
    BY <1>3, <1>11, <1>13, <1>16, <2>1, <2>2, PushFrames
<1>18. n \in Machine /\ n.stuck = mm.stuck /\ n.ctl = d /\ n.live = mm.live /\ n.stack = mm.stack
  BY <1>1, <1>14, <1>17 DEF Machine
<1>19. n.live => Running(u, n)
  <2> SUFFICES ASSUME mm.live
               PROVE  Running(u, n)
    BY <1>18
  <2>1. n.stack = u.type_stack /\ u.type_stack \in ResultType
    BY <1>3, <1>7, <1>18 DEF Typed
  <2>2. ~TopLabel(u).unreachable
    BY <1>5, <1>6
  <2>3. n.ctl[Len(n.ctl)].entered
    BY <1>8, <1>11, <1>17, <1>18
  <2> QED
    BY <2>1, <2>2, <2>3 DEF Running
<1> QED
  BY <1>1, <1>17, <1>18, <1>19 DEF Agree

\* An if takes its condition first.
LEMMA IfAgrees ==
  ASSUME NEW t, Good(t), NEW mm, Agree(t, mm), NEW params \in ResultType, NEW results \in ResultType,
         NEW u, u = OnIf(t, params, results), u.ok,
         NEW n, n = Enter(Exec(mm, <<"i32">>, <<>>), FALSE, params, results)
  PROVE  Agree(u, n)
<1>1. PICK sig : sig = <<"i32">>
  OBVIOUS
<1>2. sig \in ResultType
  BY <1>1 DEF ResultType, ValueType
<1>3. PICK v : v = PopAndCheckSignature(t, sig)
  OBVIOUS
<1>4. PICK q : q = Exec(mm, sig, <<>>)
  OBVIOUS
<1>5. PICK kind : kind = "if"
  OBVIOUS
<1>6. PICK loop \in BOOLEAN : loop = FALSE
  OBVIOUS
<1>7. kind \in LabelType /\ loop \in BOOLEAN /\ (loop <=> kind = "loop")
  BY <1>5, <1>6 DEF LabelType
<1>8. Good(v)
  BY <1>2, <1>3, PopWithin, WithinGood
<1>9. u = OpenLabel(v, kind, params, results)
  BY <1>1, <1>3, <1>5 DEF OnIf
<1>10. PICK w : w = PopAndCheckSignature(v, params)
  OBVIOUS
<1>11. Within(v, w) /\ w.ok
  BY <1>7, <1>8, <1>9, <1>10, OpenLabelIs
<1>12. v.ok
  BY <1>11 DEF Within
<1>13. Agree(v, q)
  BY <1>2, <1>3, <1>4, <1>12, PopAgrees
<1>14. n = Enter(q, loop, params, results)
  BY <1>1, <1>4, <1>6
<1> QED
  BY <1>7, <1>8, <1>9, <1>13, <1>14, OpenAgrees

-----------------------------------------------------------------------------
(* A step of an accepting checker, and the machine's                        *)

\* The innermost function label is where the body began.
LEMMA FinishAgrees ==
  ASSUME NEW t, Good(t), NEW mm, Agree(t, mm), Complete(t), Len(t.label_stack) = 1
  PROVE  \A s \in Arrivals(mm) : s = mm.ctl[1].results
<1>1. PICK f : f = mm.ctl[Len(mm.ctl)]
  OBVIOUS
<1>2. /\ Len(mm.ctl) = 1 /\ Leaves(f, Arrivals(mm)) /\ f \in FrameType
      /\ (f.entered => f.base = SubSeq(t.type_stack, 1, Lim(t)))
  BY <1>1, ArrivalsAre
<1>3. TopLabel(t) = t.label_stack[1]
  BY GoodLabels
<1>4. Lim(t) = 0
  BY <1>3 DEF Agree, Frames, Lim
<1>5. PICK types : types = t.type_stack
  OBVIOUS
<1>6. types \in Seq(StackType) /\ 0 <= Len(types) /\ 0 \in Nat
  BY <1>5, GoodLabels, LenProperties DEF Checker
<1>7. SubSeq(types, 1, 0) = <<>>
  BY <1>6, Prefix, EmptySeq
<1>8. SUFFICES ASSUME NEW s \in Arrivals(mm)
               PROVE  s = f.results
  BY <1>1, <1>2
<1>9. f.entered /\ s = On(f.base, f.results)
  BY <1>2 DEF Leaves
<1>10. f.base = <<>>
  BY <1>2, <1>4, <1>5, <1>7, <1>9
<1>11. f.results \in ResultType
  BY <1>2 DEF FrameType
<1> QED
  BY <1>9, <1>10, <1>11, ConcatEmptySeq DEF On, ResultType

\* What the machine is after a step the checker accepts.
Accepts(u, machines) == u.ok => \A n \in machines : Agree(u, n)

LEMMA FollowSound ==
  ASSUME NEW u, NEW machines, Accepts(u, machines), tc' = u, Follow(u, machines), open' # <<>>
  PROVE  SoundInv'
<1> SUFFICES ASSUME u.ok
             PROVE  Agree(u, m')
  BY DEF SoundInv, Idle
<1>1. m' \in machines
  BY DEF Follow
<1> QED
  BY <1>1 DEF Accepts

LEMMA StepSound ==
  ASSUME ~Idle, NEW u, NEW n, u.ok => Agree(u, n), Step(u, n)
  PROVE  SoundInv'
<1>1. PICK machines : machines = {n}
  OBVIOUS
<1>2. Accepts(u, machines)
  BY <1>1 DEF Accepts
<1>3. tc' = u /\ Follow(u, machines) /\ open' # <<>>
  BY <1>1 DEF Step, Idle
<1> QED
  BY <1>2, <1>3, FollowSound

LEMMA OpenedSound ==
  ASSUME ShapeInv, ~Idle, NEW u, NEW kind \in LabelType, NEW n, u.ok => Agree(u, n), Opened(u, kind, n)
  PROVE  SoundInv'
<1>1. PICK machines : machines = {n}
  OBVIOUS
<1>2. Accepts(u, machines)
  BY <1>1 DEF Accepts
<1>3. tc' = u /\ Follow(u, machines) /\ open' = Append(open, kind)
  BY <1>1 DEF Opened
<1>4. open' # <<>>
  BY <1>3, AppendProperties DEF ShapeInv
<1> QED
  BY <1>2, <1>3, <1>4, FollowSound

\* Where the invariant says something.
LEMMA AgreesNow ==
  ASSUME ShapeInv, SoundInv, ~Idle, tc.ok
  PROVE  Good(tc) /\ Agree(tc, m)
BY CoveredGood DEF ShapeInv, SoundInv, Idle

-----------------------------------------------------------------------------
(* Every instruction                                                        *)

\* An instruction whose index was looked up and that was allowed here; t is the
\* checker it starts from.
LEMMA InstrSound ==
  ASSUME ShapeInv, SoundInv, ~Idle, NEW t, Good(t), t.ok => t = tc, NEW u, Follows(t, u), NEW n,
         Agree(t, m) /\ u.ok => Agree(u, n), Step(u, n)
  PROVE  SoundInv'
<1>1. u.ok => t.ok
  BY DEF Follows
<1>2. u.ok => Agree(u, n)
  BY <1>1, AgreesNow
<1> QED
  BY <1>2, StepSound

LEMMA BranchSound ==
  ASSUME ShapeInv, SoundInv, ~Idle, NEW d \in Depths
  PROVE  /\ OnBrInstr(d) => SoundInv'
         /\ OnBrIfInstr(d) => SoundInv'
         /\ OnRethrowInstr(d) => SoundInv'
<1>1. PICK t : t = Instr(tc, FALSE)
  OBVIOUS
<1>2. Good(t) /\ (t.ok => t = tc) /\ d \in Nat
  BY <1>1, PlainInstr, DepthsAre
<1>3. ASSUME OnBrInstr(d)
      PROVE  SoundInv'
  <2>1. PICK u, n : u = OnBr(t, d) /\ n = Kill(Jump(m, Len(m.ctl) - d))
    OBVIOUS
  <2>2. Step(u, n)
    BY <1>1, <1>3, <2>1 DEF OnBrInstr, Target
  <2>3. Follows(t, u)
    BY <1>2, <2>1, BrFollows
  <2>4. Agree(t, m) /\ u.ok => Agree(u, n)
    BY <1>2, <2>1, BrAgrees
  <2> QED
    BY <1>2, <2>2, <2>3, <2>4, InstrSound
<1>4. ASSUME OnBrIfInstr(d)
      PROVE  SoundInv'
  <2>1. PICK u, n : u = OnBrIf(t, d) /\ n = Jump(Exec(m, <<"i32">>, <<>>), Len(m.ctl) - d)
    OBVIOUS
  <2>2. Step(u, n)
    BY <1>1, <1>4, <2>1 DEF OnBrIfInstr, Target
  <2>3. Follows(t, u)
    BY <1>2, <2>1, BrIfWithin, WithinFollows
  <2>4. Agree(t, m) /\ u.ok => Agree(u, n)
    BY <1>2, <2>1, BrIfAgrees
  <2> QED
    BY <1>2, <2>2, <2>3, <2>4, InstrSound
<1>5. ASSUME OnRethrowInstr(d)
      PROVE  SoundInv'
  <2>1. PICK u, n : u = OnRethrow(t, d) /\ n = Kill(m)
    OBVIOUS
  <2>2. Step(u, n)
    BY <1>1, <1>5, <2>1 DEF OnRethrowInstr
  <2>3. Follows(t, u)
    BY <1>2, <2>1, RethrowFollows
  <2>4. Agree(t, m) /\ u.ok => Agree(u, n)
    BY <1>2, <2>1, RethrowAgrees
  <2> QED
    BY <1>2, <2>2, <2>3, <2>4, InstrSound
<1> QED
  BY <1>3, <1>4, <1>5

LEMMA LeaveSound ==
  ASSUME ShapeInv, SoundInv, ~Idle
  PROVE  /\ OnReturnInstr => SoundInv'
         /\ OnUnreachableInstr => SoundInv'
<1>1. PICK t : t = Instr(tc, FALSE)
  OBVIOUS
<1>2. Good(t) /\ (t.ok => t = tc)
  BY <1>1, PlainInstr
<1>3. ASSUME OnReturnInstr
      PROVE  SoundInv'
  <2>1. PICK u, n : u = OnReturn(t) /\ n = Kill(Needs(m, m.ctl[1].results))
    OBVIOUS
  <2>2. Step(u, n)
    BY <1>1, <1>3, <2>1 DEF OnReturnInstr
  <2>3. Follows(t, u)
    BY <1>2, <2>1, ReturnFollows
  <2>4. Agree(t, m) /\ u.ok => Agree(u, n)
    BY <1>2, <2>1, ReturnAgrees
  <2> QED
    BY <1>2, <2>2, <2>3, <2>4, InstrSound
<1>4. ASSUME OnUnreachableInstr
      PROVE  SoundInv'
  <2>1. PICK u, n : u = SetUnreachable(t) /\ n = Kill(m)
    OBVIOUS
  <2>2. Step(u, n)
    BY <1>1, <1>4, <2>1 DEF OnUnreachableInstr, OnUnreachable
  <2>3. Follows(t, u)
    BY <1>2, <2>1, WithinItself, UnreachableFollows
  <2>4. Agree(t, m) /\ u.ok => Agree(u, n)
    BY <1>2, <2>1, LeavesAgrees
  <2> QED
    BY <1>2, <2>2, <2>3, <2>4, InstrSound
<1> QED
  BY <1>3, <1>4

\* The selector is taken, then every target is a branch that may be taken, and
\* control is gone when the last is read.
LEMMA BrTableSound ==
  ASSUME ShapeInv, SoundInv
  PROVE  /\ ~Idle /\ BeginBrTableInstr => SoundInv'
         /\ \A d \in Depths : OnBrTableTargetInstr(d) => SoundInv'
         /\ EndBrTableInstr => SoundInv'
<1>1. PICK sig : sig = <<"i32">>
  OBVIOUS
<1>2. sig \in ResultType
  BY <1>1, I32
<1>3. ASSUME ~Idle, BeginBrTableInstr
      PROVE  SoundInv'
  <2>1. PICK t : t = Instr(tc, FALSE)
    OBVIOUS
  <2>2. Good(t) /\ (t.ok => t = tc)
    BY <1>3, <2>1, PlainInstr
  <2>3. PICK u, n : u = PopAndCheckSignature(t, sig) /\ n = Exec(m, sig, <<>>)
    OBVIOUS
  <2>4. PICK machines : machines = {n}
    OBVIOUS
  <2>5. tc' = u /\ Follow(u, machines) /\ open' # <<>>
    BY <1>1, <1>3, <2>1, <2>3, <2>4 DEF BeginBrTableInstr, BeginBrTable, Idle
  <2>6. u.ok => t.ok
    BY <1>2, <2>2, <2>3, PopWithin DEF Within
  <2>7. u.ok => Agree(u, n)
    BY <1>2, <1>3, <2>2, <2>3, <2>6, AgreesNow, PopAgrees
  <2>8. Accepts(u, machines)
    BY <2>4, <2>7 DEF Accepts
  <2> QED
    BY <2>5, <2>8, FollowSound
<1>4. ASSUME NEW d \in Depths, OnBrTableTargetInstr(d)
      PROVE  SoundInv'
  <2>1. ~Idle /\ d \in Nat /\ Good(tc)
    BY <1>4, DepthsAre, PlainInstr DEF OnBrTableTargetInstr, Going
  <2>2. PICK first, had : first = br_table.first /\ had = br_table.sig
    OBVIOUS
  <2>3. first \in BOOLEAN
    BY <2>2 DEF ShapeInv
  <2>4. PICK u, n : u = OnBrTableTarget(tc, d, first, had) /\ n = Jump(m, Len(m.ctl) - d)
    OBVIOUS
  <2>5. PICK machines : machines = {n}
    OBVIOUS
  <2>6. tc' = u /\ Follow(u, machines) /\ open' # <<>>
    BY <1>4, <2>1, <2>2, <2>4, <2>5 DEF OnBrTableTargetInstr, Idle, Target
  <2>7. u.ok => tc.ok
    BY <2>1, <2>3, <2>4, BrTableTargetWithin DEF Within
  <2>8. u.ok => Agree(u, n)
    BY <2>1, <2>3, <2>4, <2>7, AgreesNow, BrTableTargetAgrees
  <2>9. Accepts(u, machines)
    BY <2>5, <2>8 DEF Accepts
  <2> QED
    BY <2>6, <2>9, FollowSound
<1>5. ASSUME EndBrTableInstr
      PROVE  SoundInv'
  <2>1. ~Idle
    BY <1>5 DEF EndBrTableInstr, Going
  <2>2. PICK t : t = Instr(tc, FALSE)
    OBVIOUS
  <2>3. Good(t) /\ (t.ok => t = tc)
    BY <2>1, <2>2, PlainInstr
  <2>4. PICK u, n : u = SetUnreachable(t) /\ n = Kill(m)
    OBVIOUS
  <2>5. PICK machines : machines = {n}
    OBVIOUS
  <2>6. tc' = u /\ Follow(u, machines) /\ open' # <<>>
    BY <1>5, <2>1, <2>2, <2>4, <2>5 DEF EndBrTableInstr, EndBrTable, Idle
  <2>7. u.ok => t.ok
    BY <2>3, <2>4, SetUnreachableIs
  <2>8. u.ok => Agree(u, n)
    BY <2>1, <2>3, <2>4, <2>7, AgreesNow, LeavesAgrees
  <2>9. Accepts(u, machines)
    BY <2>5, <2>8 DEF Accepts
  <2> QED
    BY <2>6, <2>9, FollowSound
<1> QED
  BY <1>3, <1>4, <1>5

\* What an index past the end of its space is, and is not.
LEMMA IndexTypeIs ==
  ASSUME IsProfile(P), NEW w \in Vars(Tables),
         NEW index, index = IndexType(Lookup(w, Tables, [is_64 |-> FALSE]).is_64)
  PROVE  index \in ValueType
<1>1. PICK default : default = [is_64 |-> FALSE]
  OBVIOUS
<1>2. default.is_64 \in BOOLEAN
  BY <1>1
<1>3. Lookup(w, Tables, default).is_64 \in BOOLEAN
  BY <1>2, TablesAre
<1> QED
  BY <1>1, <1>3, OneType

LEMMA CallSound ==
  ASSUME ShapeInv, SoundInv, ~Idle, NEW v \in Vars(Funcs)
  PROVE  /\ OnCallInstr(v) => SoundInv'
         /\ OnReturnCallInstr(v) => SoundInv'
<1>1. PICK sig : sig = Lookup(v, Funcs, NoSig)
  OBVIOUS
<1>2. PICK c : c = InRange(v, Funcs)
  OBVIOUS
<1>3. PICK t : t = Check(Instr(tc, FALSE), c)
  OBVIOUS
<1>4. PICK params, results : params = sig.params /\ results = sig.results
  OBVIOUS
<1>5. params \in ResultType /\ results \in ResultType /\ c \in BOOLEAN
  BY <1>1, <1>2, <1>4, FuncsAre, ProfileIs DEF ShapeInv
<1>6. Good(t) /\ (t.ok => t = tc)
  BY <1>3, <1>5, CheckedInstr
<1>7. ASSUME OnCallInstr(v)
      PROVE  SoundInv'
  <2>1. PICK u, n : u = PopAndCheckCall(t, params, results) /\ n = Exec(m, params, results)
    OBVIOUS
  <2>2. Step(u, n)
    BY <1>1, <1>2, <1>3, <1>4, <1>7, <2>1 DEF OnCallInstr, OnCall
  <2>3. Follows(t, u)
    BY <1>5, <1>6, <2>1, CallWithin, WithinFollows
  <2>4. Agree(t, m) /\ u.ok => Agree(u, n)
    BY <1>5, <1>6, <2>1, CallAgrees
  <2> QED
    BY <1>6, <2>2, <2>3, <2>4, InstrSound
<1>8. ASSUME OnReturnCallInstr(v)
      PROVE  SoundInv'
  <2>1. PICK u, n : u = OnReturnCall(t, params, results) /\ n = TailCall(m, params, results)
    OBVIOUS
  <2>2. Step(u, n)
    BY <1>1, <1>2, <1>3, <1>4, <1>8, <2>1 DEF OnReturnCallInstr
  <2>3. Follows(t, u)
    BY <1>5, <1>6, <2>1, WithinItself, ReturnCallFollows
  <2>4. Agree(t, m) /\ u.ok => Agree(u, n)
    BY <1>5, <1>6, <2>1, ReturnCallAgrees
  <2> QED
    BY <1>6, <2>2, <2>3, <2>4, InstrSound
<1> QED
  BY <1>7, <1>8

LEMMA CallIndirectSound ==
  ASSUME ShapeInv, SoundInv, ~Idle, Exact(P), NEW v \in Vars(Types), NEW w \in Vars(Tables)
  PROVE  /\ OnCallIndirectInstr(v, w) => SoundInv'
         /\ has("return_call_indirect") /\ OnReturnCallIndirectInstr(v, w) => SoundInv'
<1>1. PICK sig : sig = Lookup(v, Types, NoSig)
  OBVIOUS
<1>2. PICK c : c = (InRange(v, Types) /\ InRange(w, Tables))
  OBVIOUS
<1>3. PICK index : index = IndexType(Lookup(w, Tables, [is_64 |-> FALSE]).is_64)
  OBVIOUS
<1>4. PICK t : t = Check(Instr(tc, FALSE), c)
  OBVIOUS
<1>5. PICK params, results : params = sig.params /\ results = sig.results
  OBVIOUS
<1>6. IsProfile(P)
  BY ProfileIs DEF ShapeInv
<1>7. params \in ResultType /\ results \in ResultType /\ c \in BOOLEAN
  BY <1>1, <1>2, <1>5, <1>6, TypesAre
<1>8. index \in ValueType
  BY <1>3, <1>6, IndexTypeIs
<1>9. Good(t) /\ (t.ok => t = tc /\ c)
  BY <1>4, <1>7, CheckedInstr
<1>10. ASSUME OnCallIndirectInstr(v, w)
       PROVE  SoundInv'
  <2>1. PICK u, n : u = OnCallIndirect(t, params, results, index)
                    /\ n = Exec(m, Append(params, index), results)
    OBVIOUS
  <2>2. Step(u, n)
    BY <1>1, <1>2, <1>3, <1>4, <1>5, <1>10, <2>1 DEF OnCallIndirectInstr
  <2>3. Follows(t, u)
    BY <1>7, <1>8, <1>9, <2>1, CallIndirectWithin, WithinFollows
  <2>4. Agree(t, m) /\ u.ok => Agree(u, n)
    BY <1>7, <1>8, <1>9, <2>1, CallIndirectAgrees
  <2> QED
    BY <1>9, <2>2, <2>3, <2>4, InstrSound
<1>11. ASSUME has("return_call_indirect"), OnReturnCallIndirectInstr(v, w)
       PROVE  SoundInv'
  <2>1. PICK u, n : u = OnReturnCallIndirect(t, params, results)
                    /\ n = TailCall(m, Append(params, index), results)
    OBVIOUS
  <2>2. Step(u, n)
    BY <1>1, <1>2, <1>3, <1>4, <1>5, <1>11, <2>1 DEF OnReturnCallIndirectInstr
  <2>3. Follows(t, u)
    BY <1>7, <1>9, <2>1, ReturnCallIndirectFollows
  <2>4. c => index = "i32"
    <3> SUFFICES ASSUME InRange(w, Tables)
                 PROVE  index = "i32"
      BY <1>2
    <3>1. PICK default : default = [is_64 |-> FALSE]
      OBVIOUS
    <3>2. default.is_64 \in BOOLEAN
      BY <3>1
    <3>3. w + 1 \in DOMAIN Tables /\ Lookup(w, Tables, default) = Tables[w + 1]
      BY <1>6, <3>2, TablesAre
    <3>4. ~Tables[w + 1].is_64
      BY <1>11, <3>3 DEF Exact, has, Tables
    <3> QED
      BY <1>3, <3>1, <3>3, <3>4 DEF IndexType
  <2>5. u.ok => t.ok
    BY <2>3 DEF Follows
  <2>6. Agree(t, m) /\ u.ok => Agree(u, n)
    <3> SUFFICES ASSUME Agree(t, m), u.ok
                 PROVE  Agree(u, n)
      OBVIOUS
    <3>1. n = TailCall(m, Append(params, "i32"), results)
      BY <1>9, <2>1, <2>4, <2>5
    <3> QED
      BY <1>7, <1>9, <2>1, <3>1, ReturnCallIndirectAgrees
  <2> QED
    BY <1>9, <2>2, <2>3, <2>6, InstrSound
<1> QED
  BY <1>10, <1>11

LEMMA ThrowSound ==
  ASSUME ShapeInv, SoundInv, ~Idle, NEW v \in Vars(Tags), OnThrowInstr(v)
  PROVE  SoundInv'
<1>1. PICK sig : sig = Lookup(v, Tags, <<>>)
  OBVIOUS
<1>2. PICK c : c = InRange(v, Tags)
  OBVIOUS
<1>3. PICK t : t = Check(Instr(tc, FALSE), c)
  OBVIOUS
<1>4. sig \in ResultType /\ c \in BOOLEAN
  BY <1>1, <1>2, TagsAre, ProfileIs DEF ShapeInv
<1>5. Good(t) /\ (t.ok => t = tc)
  BY <1>3, <1>4, CheckedInstr
<1>6. PICK u, n : u = SetUnreachable(PopAndCheckSignature(t, sig)) /\ n = Kill(Needs(m, sig))
  OBVIOUS
<1>7. Step(u, n)
  BY <1>1, <1>2, <1>3, <1>6 DEF OnThrowInstr, OnThrow
<1>8. Follows(t, u)
  BY <1>4, <1>5, <1>6, ThrowFollows DEF OnThrow
<1>9. Agree(t, m) /\ u.ok => Agree(u, n)
  BY <1>4, <1>5, <1>6, ThrowAgrees
<1> QED
  BY <1>5, <1>7, <1>8, <1>9, InstrSound

LEMMA OpcodeSound ==
  ASSUME ShapeInv, SoundInv, ~Idle, NEW op \in Opcodes, OnOpcodeInstr(op)
  PROVE  SoundInv'
<1>1. op \in [params : ResultType, result : ResultType, init : BOOLEAN]
  BY ProfileIs DEF ShapeInv, IsProfile, Opcodes
<1>2. PICK t : t = Instr(tc, op.init)
  OBVIOUS
<1>3. PICK params, results : params = op.params /\ results = op.result
  OBVIOUS
<1>4. op.init \in BOOLEAN /\ params \in ResultType /\ results \in ResultType
  BY <1>1, <1>3
<1>5. Good(t) /\ (t.ok => t = tc)
  BY <1>2, <1>4, InstrIs
<1>6. PICK u, n : u = PopAndCheckCall(t, params, results) /\ n = Exec(m, params, results)
  OBVIOUS
<1>7. Step(u, n)
  BY <1>2, <1>3, <1>6 DEF OnOpcodeInstr, CheckOpcode
<1>8. Follows(t, u)
  BY <1>4, <1>5, <1>6, CallWithin, WithinFollows
<1>9. Agree(t, m) /\ u.ok => Agree(u, n)
  BY <1>4, <1>5, <1>6, CallAgrees
<1> QED
  BY <1>5, <1>7, <1>8, <1>9, InstrSound

LEMMA ParametricSound ==
  ASSUME ShapeInv, SoundInv, ~Idle, Exact(P)
  PROVE  /\ OnDropInstr => SoundInv'
         /\ \A expected \in Selects : OnSelectInstr(expected) => SoundInv'
         /\ OnRefIsNullInstr => SoundInv'
<1>1. PICK t : t = Instr(tc, FALSE)
  OBVIOUS
<1>2. Good(t) /\ (t.ok => t = tc)
  BY <1>1, PlainInstr
<1>3. PICK one \in Nat : one = 1
  OBVIOUS
<1>4. ASSUME OnDropInstr
      PROVE  SoundInv'
  <2>1. PICK u, n : u = DropTypes(t, one) /\ n = Exec(m, TopN(m.stack, one), <<>>)
    OBVIOUS
  <2>2. Step(u, n)
    BY <1>1, <1>3, <1>4, <2>1 DEF OnDropInstr, OnDrop
  <2>3. Follows(t, u)
    BY <1>2, <2>1, DropWithin, WithinFollows
  <2>4. Agree(t, m) /\ u.ok => Agree(u, n)
    BY <1>2, <2>1, DropAgrees
  <2> QED
    BY <1>2, <2>2, <2>3, <2>4, InstrSound
<1>5. ASSUME NEW expected \in Selects, OnSelectInstr(expected)
      PROVE  SoundInv'
  <2>1. expected = <<>>
    BY <1>5 DEF Exact, Selects
  <2>2. PICK type : type = TopN(Below(m.stack, 1), 1)
    OBVIOUS
  <2>3. PICK u, n : u = OnSelect(t, <<>>) /\ n = Exec(m, type \o type \o <<"i32">>, type)
    OBVIOUS
  <2>4. Step(u, n)
    BY <1>1, <1>5, <2>1, <2>2, <2>3 DEF OnSelectInstr
  <2>5. Follows(t, u)
    BY <1>2, <2>3, SelectWithin, WithinFollows
  <2>6. Agree(t, m) /\ u.ok => Agree(u, n)
    BY <1>2, <2>2, <2>3, SelectAgrees
  <2> QED
    BY <1>2, <2>4, <2>5, <2>6, InstrSound
<1>6. ASSUME OnRefIsNullInstr
      PROVE  SoundInv'
  <2>1. PICK c : c = (PeekType(t, 0).ok /\ (PeekType(t, 0).type = AnyType \/ IsRef(PeekType(t, 0).type)))
    OBVIOUS
  <2>2. PICK results : results = <<"i32">>
    OBVIOUS
  <2>3. c \in BOOLEAN /\ results \in ResultType
    BY <2>1, <2>2, I32
  <2>4. PICK u, n : u = PushTypes(DropTypes(Check(t, c), one), results)
                    /\ n = Exec(m, TopN(m.stack, one), results)
    OBVIOUS
  <2>5. u = OnRefIsNull(t)
    BY <1>3, <2>1, <2>2, <2>4 DEF OnRefIsNull
  <2>6. Step(u, n)
    BY <1>1, <1>3, <1>6, <2>2, <2>4, <2>5 DEF OnRefIsNullInstr
  <2>7. Follows(t, u)
    BY <1>2, <2>5, RefIsNullWithin, WithinFollows
  <2>8. Agree(t, m) /\ u.ok => Agree(u, n)
    BY <1>2, <2>3, <2>4, ReplaceAgrees
  <2> QED
    BY <1>2, <2>6, <2>7, <2>8, InstrSound
<1> QED
  BY <1>4, <1>5, <1>6

\* call_ref calls a function of the type its operand names.
LEMMA CallRefSound ==
  ASSUME ShapeInv, SoundInv, ~Idle, OnCallRefInstr
  PROVE  SoundInv'
<1>1. IsProfile(P) /\ Good(tc)
  BY ProfileIs, PlainInstr DEF ShapeInv
<1>2. PICK index : index = TypeIndexOf(PeekType(tc, 0).type)
  OBVIOUS
<1>3. index \in Nat
  BY <1>1, <1>2, LenProperties DEF IsProfile, Types, TypeIndexOf
<1>4. PICK ref : ref = RefTo(index)
  OBVIOUS
<1>5. ref \in ValueType
  BY <1>4 DEF RefTo, ValueType, RefType
<1>6. PICK sig : sig = Lookup(index, Types, NoSig)
  OBVIOUS
<1>7. PICK params, results : params = sig.params /\ results = sig.results
  OBVIOUS
<1>8. params \in ResultType /\ results \in ResultType /\ InRange(index, Types) \in BOOLEAN
  BY <1>1, <1>3, <1>6, <1>7, TypeIs
<1>9. PICK flag \in BOOLEAN : flag = TRUE
  OBVIOUS
<1>10. PICK t1 : t1 = [tc EXCEPT !.ok = flag]
  OBVIOUS
<1>11. Good(t1) /\ (tc.ok => t1 = tc)
  <2>1. Good(t1) /\ (flag = tc.ok => t1 = tc)
    BY <1>1, <1>10, Forget
  <2>2. tc.ok \in BOOLEAN
    BY <1>1, GoodLabels DEF Checker
  <2> QED
    BY <1>9, <2>1, <2>2
<1>12. PICK c \in BOOLEAN : c = (in_init_expr => FALSE)
  BY DEF ShapeInv
<1>13. PICK t2 : t2 = Check(t1, c)
  OBVIOUS
<1>14. Within(t1, t2) /\ Good(t2) /\ (t2.ok => t2 = t1)
  BY <1>11, <1>13, CheckIs
<1>15. PICK t : t = OnIndexedFuncRef(t2)
  OBVIOUS
<1>16. Within(t2, t) /\ Good(t)
  BY <1>14, <1>15, IndexedFuncRefWithin, WithinGood
<1>17. PICK d \in BOOLEAN : d = (tc.ok /\ InRange(index, Types))
  BY <1>1, <1>8, GoodLabels DEF Checker
<1>18. PICK v : v = Check(t, d)
  OBVIOUS
<1>19. Good(v) /\ (v.ok => d /\ v = t)
  BY <1>16, <1>18, CheckIs
<1>20. PICK w : w = PopAndCheckCall(v, params, results)
  OBVIOUS
<1>21. w.ok => v.ok
  BY <1>8, <1>19, <1>20, CallWithin DEF Within
<1>22. PICK u, n : u = (IF ~t.ok THEN t ELSE w) /\ n = Exec(m, Append(params, ref), results)
  OBVIOUS
<1>23. Step(u, n)
  <2>1. t = OnIndexedFuncRef(Instr([tc EXCEPT !.ok = TRUE], FALSE))
    BY <1>9, <1>10, <1>12, <1>13, <1>15 DEF Instr
  <2> QED
    BY <1>2, <1>4, <1>6, <1>7, <1>17, <1>18, <1>20, <1>22, <2>1 DEF OnCallRefInstr, OnCall
<1>24. u.ok => Agree(u, n)
  <2> SUFFICES ASSUME u.ok
               PROVE  Agree(u, n)
    OBVIOUS
  <2>1. t.ok /\ u = w
    BY <1>22
  <2>2. v.ok /\ v = t /\ tc.ok
    BY <1>17, <1>19, <1>21, <2>1
  <2>3. t2.ok
    BY <1>16, <2>1 DEF Within
  <2>4. t2 = tc
    BY <1>11, <1>14, <2>2, <2>3
  <2>5. Agree(tc, m)
    BY <2>2, AgreesNow
  <2>6. m.live => Typed(t) /\ tc.type_stack = On(t.type_stack, <<ref>>)
    <3> SUFFICES ASSUME m.live
                 PROVE  Typed(t) /\ tc.type_stack = On(t.type_stack, <<ref>>)
      OBVIOUS
    <3>1. Typed(tc)
      BY <1>1, <2>5, TypedIs
    <3>2. ref = RefTo(TypeIndexOf(PeekType(tc, 0).type))
      BY <1>2, <1>4
    <3>3. t = OnIndexedFuncRef(tc)
      BY <1>15, <2>4
    <3> QED
      BY <2>1, <3>1, <3>2, <3>3, IndexedExact
  <2>7. Within(tc, t)
    BY <1>16, <2>4
  <2>8. w = PopAndCheckCall(t, params, results) /\ w.ok
    BY <1>20, <2>1, <2>2
  <2>9. Agree(w, n)
    BY <1>1, <1>5, <1>8, <1>22, <2>5, <2>6, <2>7, <2>8, CallAboveAgrees
  <2> QED
    BY <2>1, <2>9
<1> QED
  BY <1>23, <1>24, StepSound

\* An instruction whose types come from a table or a global that exists.
LEMMA FromTable ==
  ASSUME ShapeInv, SoundInv, ~Idle, NEW t, Good(t), t.ok => t = tc,
         NEW params \in Seq(StackType), NEW results \in Seq(StackType),
         t.ok => params \in ResultType /\ results \in ResultType,
         NEW u, u = CheckOpcode(t, params, results), NEW n, n = Exec(m, params, results), Step(u, n)
  PROVE  SoundInv'
<1>1. Within(t, u)
  BY CallAnyWithin DEF CheckOpcode
<1>2. Follows(t, u)
  BY <1>1, WithinFollows
<1>3. Agree(t, m) /\ u.ok => Agree(u, n)
  <2> SUFFICES ASSUME Agree(t, m), u.ok
               PROVE  Agree(u, n)
    OBVIOUS
  <2>1. params \in ResultType /\ results \in ResultType
    BY <1>1 DEF Within
  <2>2. u = PopAndCheckCall(t, params, results)
    BY DEF CheckOpcode
  <2> QED
    BY <2>1, <2>2, CallAgrees
<1> QED
  BY <1>2, <1>3, InstrSound

LEMMA FromNothing ==
  ASSUME ShapeInv, SoundInv, ~Idle, NEW t, Good(t), t.ok => t = tc,
         NEW results \in Seq(StackType), t.ok => results \in ResultType, NEW c \in BOOLEAN,
         NEW u, u = Check(PushTypes(t, results), c), NEW n, n = Exec(m, <<>>, results), Step(u, n)
  PROVE  SoundInv'
<1>1. PICK v : v = PushTypes(t, results)
  OBVIOUS
<1>2. Within(t, v) /\ Good(v)
  BY <1>1, PushWithin, WithinGood
<1>3. Within(v, u) /\ (u.ok => u = v)
  BY <1>1, <1>2, CheckIs
<1>4. Within(t, u)
  BY <1>2, <1>3, WithinTransitive
<1>5. Follows(t, u)
  BY <1>4, WithinFollows
<1>6. Agree(t, m) /\ u.ok => Agree(u, n)
  <2> SUFFICES ASSUME Agree(t, m), u.ok
               PROVE  Agree(u, n)
    OBVIOUS
  <2>1. results \in ResultType
    BY <1>4 DEF Within
  <2>2. Agree(v, n)
    BY <1>1, <2>1, PushAgrees
  <2> QED
    BY <1>3, <2>2
<1> QED
  BY <1>5, <1>6, InstrSound

LEMMA GlobalSound ==
  ASSUME ShapeInv, SoundInv, ~Idle, NEW v \in Vars(Globals)
  PROVE  /\ OnGlobalGetInstr(v) => SoundInv'
         /\ OnGlobalSetInstr(v) => SoundInv'
<1>1. IsProfile(P)
  BY ProfileIs DEF ShapeInv
<1>2. PICK c : c = InRange(v, Globals)
  OBVIOUS
<1>3. ASSUME OnGlobalGetInstr(v)
      PROVE  SoundInv'
  <2>1. PICK default : default = [type |-> AnyType, mutable |-> FALSE, imported |-> TRUE]
    OBVIOUS
  <2>2. PICK global : global = Lookup(v, Globals, default)
    OBVIOUS
  <2>3. PICK type : type = global.type
    OBVIOUS
  <2>4. type \in StackType /\ c \in BOOLEAN /\ (c => type \in ValueType)
    <3>1. /\ c \in BOOLEAN
          /\ c => global \in [type : ValueType, mutable : BOOLEAN, imported : BOOLEAN]
          /\ ~c => global = default
      BY <1>1, <1>2, <2>2, GlobalsAre
    <3> QED
      BY <2>1, <2>3, <3>1, AnyOrType
  <2>5. PICK t : t = Check(Instr(tc, TRUE), c)
    OBVIOUS
  <2>6. Good(t) /\ (t.ok => t = tc /\ c)
    BY <2>4, <2>5, ConstInstr
  <2>7. PICK results : results = <<type>>
    OBVIOUS
  <2>8. results \in Seq(StackType) /\ (t.ok => results \in ResultType)
    BY <2>4, <2>6, <2>7, AnyOrType, OneType
  <2>9. PICK d : d = (in_init_expr => global.imported /\ ~global.mutable)
    OBVIOUS
  <2>10. d \in BOOLEAN
    BY <2>9
  <2>11. PICK u, n : u = Check(PushTypes(t, results), d) /\ n = Exec(m, <<>>, results)
    OBVIOUS
  <2>12. Step(u, n)
    BY <1>2, <1>3, <2>1, <2>2, <2>3, <2>5, <2>7, <2>9, <2>11 DEF OnGlobalGetInstr
  <2> QED
    BY <2>6, <2>8, <2>10, <2>11, <2>12, FromNothing
<1>4. ASSUME OnGlobalSetInstr(v)
      PROVE  SoundInv'
  <2>1. PICK flag \in BOOLEAN : flag = FALSE
    OBVIOUS
  <2>2. PICK default : default = [type |-> AnyType, mutable |-> flag]
    OBVIOUS
  <2>3. PICK global : global = Lookup(v, Globals, default)
    OBVIOUS
  <2>4. PICK type : type = global.type
    OBVIOUS
  <2>5. type \in StackType /\ global.mutable \in BOOLEAN /\ c \in BOOLEAN /\ (c => type \in ValueType)
    <3>1. /\ c \in BOOLEAN
          /\ c => global \in [type : ValueType, mutable : BOOLEAN, imported : BOOLEAN]
          /\ ~c => global = default
      BY <1>1, <1>2, <2>3, GlobalsAre
    <3> QED
      BY <2>2, <2>4, <3>1, AnyOrType
  <2>6. PICK d \in BOOLEAN : d = (c /\ global.mutable)
    BY <2>5
  <2>7. PICK t : t = Check(Instr(tc, FALSE), d)
    OBVIOUS
  <2>8. Good(t) /\ (t.ok => t = tc /\ d)
    BY <2>7, CheckedInstr
  <2>9. PICK params : params = <<type>>
    OBVIOUS
  <2>10. PICK results : results = <<>>
    OBVIOUS
  <2>11. params \in Seq(StackType) /\ (t.ok => params \in ResultType)
    BY <2>5, <2>6, <2>8, <2>9, AnyOrType, OneType
  <2>12. results \in Seq(StackType) /\ results \in ResultType
    BY <2>10, AnyOrType, OneType
  <2>13. PICK u, n : u = CheckOpcode(t, params, results) /\ n = Exec(m, params, results)
    OBVIOUS
  <2>14. Step(u, n)
    BY <1>2, <1>4, <2>1, <2>2, <2>3, <2>4, <2>6, <2>7, <2>9, <2>10, <2>13 DEF OnGlobalSetInstr
  <2> QED
    BY <2>8, <2>11, <2>12, <2>13, <2>14, FromTable
<1> QED
  BY <1>3, <1>4

\* ref.func pushes one type, whatever it records.
LEMMA RefFuncSound ==
  ASSUME ShapeInv, SoundInv, ~Idle, NEW v \in Vars(Funcs), OnRefFuncInstr(v)
  PROVE  SoundInv'
<1>1. PICK valid : valid = InRange(v, Funcs)
  OBVIOUS
<1>2. valid \in BOOLEAN
  BY <1>1, FuncsAre, ProfileIs DEF ShapeInv
<1>3. PICK t : t = Check(Instr(tc, TRUE), valid)
  OBVIOUS
<1>4. Good(t) /\ (t.ok => t = tc /\ valid)
  BY <1>2, <1>3, ConstInstr
<1>5. PICK results : results = <<RefFuncType(v)>>
  OBVIOUS
<1>6. results \in ResultType /\ results \in Seq(StackType)
  <2>1. RefFuncType(v) \in ValueType
    BY DEF RefFuncType, RefTo, ValueType, RefType
  <2> QED
    BY <1>5, <2>1, OneType, ResultsAreOperands
<1>7. PICK w : w = PushTypes(t, results)
  OBVIOUS
<1>8. PICK u, n : u = (IF valid THEN w ELSE t) /\ n = Exec(m, <<>>, results)
  OBVIOUS
<1>9. PICK machines : machines = {n}
  OBVIOUS
<1>10. tc' = u /\ Follow(u, machines) /\ open' # <<>>
  BY <1>1, <1>3, <1>5, <1>7, <1>8, <1>9 DEF OnRefFuncInstr, Idle
<1>11. u.ok => Agree(u, n)
  <2> SUFFICES ASSUME u.ok
               PROVE  Agree(u, n)
    OBVIOUS
  <2>1. w.ok => t.ok
    BY <1>4, <1>6, <1>7, PushWithin DEF Within
  <2>2. t.ok
    BY <1>8, <2>1
  <2>3. t = tc /\ u = w
    BY <1>4, <1>8, <2>2
  <2>4. Agree(t, m)
    BY <2>2, <2>3, AgreesNow
  <2> QED
    BY <1>4, <1>6, <1>7, <1>8, <2>3, <2>4, PushAgrees
<1>12. Accepts(u, machines)
  BY <1>9, <1>11 DEF Accepts
<1> QED
  BY <1>10, <1>12, FollowSound

LEMMA TableSound ==
  ASSUME ShapeInv, SoundInv, ~Idle, NEW kind, NEW v \in Vars(Tables), OnTableInstr(kind, v)
  PROVE  SoundInv'
<1>1. PICK c : c = InRange(v, Tables)
  OBVIOUS
<1>2. PICK default : default = [elem |-> AnyType, is_64 |-> FALSE]
  OBVIOUS
<1>3. PICK table : table = Lookup(v, Tables, default)
  OBVIOUS
<1>4. PICK e, i, is_64 : e = table.elem /\ i = IndexType(is_64) /\ is_64 = table.is_64
  OBVIOUS
<1>5. c \in BOOLEAN /\ is_64 \in BOOLEAN /\ e \in StackType /\ (c => e \in ValueType)
  <2>1. default.is_64 \in BOOLEAN /\ default.elem = AnyType
    BY <1>2
  <2>2. /\ c \in BOOLEAN /\ table.is_64 \in BOOLEAN
        /\ c => table.elem \in ValueType
        /\ ~c => table = default
    BY <1>1, <1>3, <2>1, TablesAre, ProfileIs DEF ShapeInv
  <2> QED
    BY <1>4, <2>1, <2>2, AnyOrType
<1>6. i \in ValueType /\ i \in StackType
  BY <1>4, <1>5, OneType, AnyOrType
<1>7. PICK t : t = Check(Instr(tc, FALSE), c)
  OBVIOUS
<1>8. Good(t) /\ (t.ok => t = tc /\ c)
  BY <1>5, <1>7, CheckedInstr
<1>9. /\ <<i>> \in Seq(StackType) /\ <<e>> \in Seq(StackType) /\ <<>> \in Seq(StackType)
      /\ <<i, e>> \in Seq(StackType) /\ <<e, i>> \in Seq(StackType) /\ <<i, e, i>> \in Seq(StackType)
  BY <1>5, <1>6, AnyOrType
<1>10. /\ <<i>> \in ResultType /\ <<>> \in ResultType
       /\ t.ok => /\ <<e>> \in ResultType /\ <<i, e>> \in ResultType /\ <<e, i>> \in ResultType
                  /\ <<i, e, i>> \in ResultType
  BY <1>5, <1>6, <1>8, OneType, TypesOf
<1>11. ASSUME NEW u, u = OnTableGet(t, e, is_64), NEW n, n = Exec(m, <<i>>, <<e>>), Step(u, n)
       PROVE  SoundInv'
  <2>1. PICK params, results : params = <<i>> /\ results = <<e>>
    OBVIOUS
  <2>2. u = CheckOpcode(t, params, results) /\ n = Exec(m, params, results)
    BY <1>4, <1>11, <2>1 DEF OnTableGet
  <2>3. params \in Seq(StackType) /\ results \in Seq(StackType)
    BY <1>9, <2>1
  <2>4. t.ok => params \in ResultType /\ results \in ResultType
    BY <1>10, <2>1
  <2> QED
    BY <1>8, <1>11, <2>2, <2>3, <2>4, FromTable
<1>12. ASSUME NEW u, u = OnTableSet(t, e, is_64), NEW n, n = Exec(m, <<i, e>>, <<>>), Step(u, n)
       PROVE  SoundInv'
  <2>1. PICK params, results : params = <<i, e>> /\ results = <<>>
    OBVIOUS
  <2>2. u = CheckOpcode(t, params, results) /\ n = Exec(m, params, results)
    BY <1>4, <1>12, <2>1 DEF OnTableSet
  <2>3. params \in Seq(StackType) /\ results \in Seq(StackType)
    BY <1>9, <2>1
  <2>4. t.ok => params \in ResultType /\ results \in ResultType
    BY <1>10, <2>1
  <2> QED
    BY <1>8, <1>12, <2>2, <2>3, <2>4, FromTable
<1>13. ASSUME NEW u, u = OnTableGrow(t, e, is_64), NEW n, n = Exec(m, <<e, i>>, <<i>>), Step(u, n)
       PROVE  SoundInv'
  <2>1. PICK params, results : params = <<e, i>> /\ results = <<i>>
    OBVIOUS
  <2>2. u = CheckOpcode(t, params, results) /\ n = Exec(m, params, results)
    BY <1>4, <1>13, <2>1 DEF OnTableGrow
  <2>3. params \in Seq(StackType) /\ results \in Seq(StackType)
    BY <1>9, <2>1
  <2>4. t.ok => params \in ResultType /\ results \in ResultType
    BY <1>10, <2>1
  <2> QED
    BY <1>8, <1>13, <2>2, <2>3, <2>4, FromTable
<1>14. ASSUME NEW u, u = OnSize(t, is_64), NEW n, n = Exec(m, <<>>, <<i>>), Step(u, n)
       PROVE  SoundInv'
  <2>1. PICK results : results = <<i>>
    OBVIOUS
  <2>2. u = PushTypes(t, results) /\ n = Exec(m, <<>>, results)
    BY <1>4, <1>14, <2>1 DEF OnSize
  <2>3. results \in Seq(StackType) /\ results \in ResultType
    BY <1>9, <1>10, <2>1
  <2>4. Follows(t, u)
    BY <1>8, <2>2, <2>3, PushWithin, WithinFollows
  <2>5. Agree(t, m) /\ u.ok => Agree(u, n)
    BY <1>8, <2>2, <2>3, PushAgrees
  <2> QED
    BY <1>8, <1>14, <2>4, <2>5, InstrSound
<1>15. ASSUME NEW u, u = OnFill(t, e, is_64), NEW n, n = Exec(m, <<i, e, i>>, <<>>), Step(u, n)
       PROVE  SoundInv'
  <2>1. PICK params, results : params = <<i, e, i>> /\ results = <<>>
    OBVIOUS
  <2>2. u = CheckOpcode(t, params, results) /\ n = Exec(m, params, results)
    BY <1>4, <1>15, <2>1 DEF OnFill
  <2>3. params \in Seq(StackType) /\ results \in Seq(StackType)
    BY <1>9, <2>1
  <2>4. t.ok => params \in ResultType /\ results \in ResultType
    BY <1>10, <2>1
  <2> QED
    BY <1>8, <1>15, <2>2, <2>3, <2>4, FromTable
<1>16. \/ Step(OnTableGet(t, e, is_64), Exec(m, <<i>>, <<e>>))
       \/ Step(OnTableSet(t, e, is_64), Exec(m, <<i, e>>, <<>>))
       \/ Step(OnTableGrow(t, e, is_64), Exec(m, <<e, i>>, <<i>>))
       \/ Step(OnSize(t, is_64), Exec(m, <<>>, <<i>>))
       \/ Step(OnFill(t, e, is_64), Exec(m, <<i, e, i>>, <<>>))
  BY <1>1, <1>2, <1>3, <1>4, <1>7 DEF OnTableInstr
<1> QED
  BY <1>11, <1>12, <1>13, <1>14, <1>15, <1>16

LEMMA TableCopySound ==
  ASSUME ShapeInv, SoundInv, ~Idle, NEW v \in Vars(Tables), NEW w \in Vars(Tables), OnTableCopyInstr(v, w)
  PROVE  SoundInv'
<1>1. PICK default : default = [elem |-> AnyType, is_64 |-> FALSE]
  OBVIOUS
<1>2. default.is_64 \in BOOLEAN /\ IsProfile(P)
  BY <1>1, ProfileIs DEF ShapeInv
<1>3. PICK dst, src : dst = Lookup(v, Tables, default) /\ src = Lookup(w, Tables, default)
  OBVIOUS
<1>4. PICK c \in BOOLEAN : c = (InRange(v, Tables) /\ InRange(w, Tables))
  BY <1>2, TablesAre
<1>5. dst.is_64 \in BOOLEAN /\ src.is_64 \in BOOLEAN
  BY <1>2, <1>3, TablesAre
<1>6. PICK t : t = Check(Instr(tc, FALSE), c)
  OBVIOUS
<1>7. Good(t) /\ (t.ok => t = tc)
  BY <1>6, CheckedInstr
<1>8. PICK sz : sz = IF dst.is_64 /\ src.is_64 THEN "i64" ELSE "i32"
  OBVIOUS
<1>9. PICK params, results : params = <<IndexType(dst.is_64), IndexType(src.is_64), sz>> /\ results = <<>>
  OBVIOUS
<1>10. params \in ResultType /\ results \in ResultType
  <2>1. IndexType(dst.is_64) \in ValueType /\ IndexType(src.is_64) \in ValueType /\ sz \in ValueType
    BY <1>5, <1>8, OneType
  <2> QED
    BY <1>9, <2>1, TypesOf, OneType
<1>11. PICK q : q = PopAndCheckCall(t, params, results)
  OBVIOUS
<1>12. q = OnCopy(t, dst.is_64, src.is_64)
  <2>1. IndexType(src.is_64 /\ dst.is_64) = sz
    BY <1>8 DEF IndexType
  <2> QED
    BY <1>9, <1>11, <2>1 DEF OnCopy, CheckOpcode
<1>13. PICK d \in BOOLEAN : d = CheckType(src.elem, dst.elem)
  BY DEF CheckType
<1>14. PICK u, n : u = Check(q, d) /\ n = Exec(m, params, results)
  OBVIOUS
<1>15. Step(u, n)
  BY <1>1, <1>3, <1>4, <1>6, <1>8, <1>9, <1>12, <1>13, <1>14 DEF OnTableCopyInstr
<1>16. Within(t, q) /\ Good(q)
  BY <1>7, <1>10, <1>11, CallWithin, WithinGood
<1>17. Within(q, u) /\ (u.ok => u = q)
  BY <1>14, <1>16, CheckIs
<1>18. Within(t, u)
  BY <1>7, <1>16, <1>17, WithinTransitive
<1>19. Follows(t, u)
  BY <1>18, WithinFollows
<1>20. Agree(t, m) /\ u.ok => Agree(u, n)
  <2> SUFFICES ASSUME Agree(t, m), u.ok
               PROVE  Agree(u, n)
    OBVIOUS
  <2>1. q.ok /\ u = q
    BY <1>17
  <2>2. Agree(q, n)
    BY <1>7, <1>10, <1>11, <1>14, <2>1, CallAgrees
  <2> QED
    BY <2>1, <2>2
<1> QED
  BY <1>7, <1>15, <1>19, <1>20, InstrSound

\* A block that OpenLabel opens, from a checker s that takes what the machine q
\* takes.
LEMMA BlockOpens ==
  ASSUME ShapeInv, ~Idle, NEW s, Good(s), NEW kind \in LabelType, NEW loop \in BOOLEAN,
         loop <=> kind = "loop", NEW params \in ResultType, NEW results \in ResultType,
         NEW u, u = OpenLabel(s, kind, params, results),
         s.ok => Agree(s, m), NEW n, n = Enter(m, loop, params, results), Opened(u, kind, n)
  PROVE  SoundInv'
<1>1. u.ok => Agree(u, n)
  <2> SUFFICES ASSUME u.ok
               PROVE  Agree(u, n)
    OBVIOUS
  <2>1. PICK v : v = PopAndCheckSignature(s, params)
    OBVIOUS
  <2>2. Within(s, v) /\ v.ok
    BY <2>1, OpenLabelIs
  <2>3. Agree(s, m)
    BY <2>2 DEF Within
  <2> QED
    BY <2>3, OpenAgrees
<1> QED
  BY <1>1, OpenedSound

LEMMA BlockSound ==
  ASSUME ShapeInv, SoundInv, ~Idle, NEW kind, NEW v \in Vars(Types), OnBlockInstr(kind, v)
  PROVE  SoundInv'
<1>1. PICK sig : sig = Lookup(v, Types, NoSig)
  OBVIOUS
<1>2. PICK c : c = InRange(v, Types)
  OBVIOUS
<1>3. PICK params, results : params = sig.params /\ results = sig.results
  OBVIOUS
<1>4. params \in ResultType /\ results \in ResultType /\ c \in BOOLEAN
  BY <1>1, <1>2, <1>3, TypesAre, ProfileIs DEF ShapeInv
<1>5. PICK t : t = Check(Instr(tc, FALSE), c)
  OBVIOUS
<1>6. Good(t) /\ (t.ok => t = tc)
  BY <1>4, <1>5, CheckedInstr
<1>7. t.ok => Agree(t, m)
  BY <1>6, AgreesNow
<1>8. PICK plain \in BOOLEAN : plain = FALSE
  OBVIOUS
<1>9. PICK round \in BOOLEAN : round = TRUE
  OBVIOUS
<1>10. ASSUME NEW k \in {"block", "try"}, Opened(OpenLabel(t, k, params, results), k, Enter(m, plain, params, results))
       PROVE  SoundInv'
  <2>1. PICK u, n : u = OpenLabel(t, k, params, results) /\ n = Enter(m, plain, params, results)
    OBVIOUS
  <2>2. k \in LabelType /\ (plain <=> k = "loop")
    BY <1>8, BlockLabels
  <2>3. Opened(u, k, n)
    BY <1>10, <2>1
  <2> QED
    BY <1>4, <1>6, <1>7, <2>1, <2>2, <2>3, BlockOpens
<1>11. ASSUME NEW k \in {"loop"}, Opened(OpenLabel(t, k, params, results), k, Enter(m, round, params, results))
       PROVE  SoundInv'
  <2>1. PICK u, n : u = OpenLabel(t, k, params, results) /\ n = Enter(m, round, params, results)
    OBVIOUS
  <2>2. k \in LabelType /\ (round <=> k = "loop")
    BY <1>9, BlockLabels
  <2>3. Opened(u, k, n)
    BY <1>11, <2>1
  <2> QED
    BY <1>4, <1>6, <1>7, <2>1, <2>2, <2>3, BlockOpens
<1>12. ASSUME NEW k \in {"if"}, Opened(OnIf(t, params, results), k, Enter(Exec(m, <<"i32">>, <<>>), plain, params, results))
       PROVE  SoundInv'
  <2>1. PICK u, n : u = OnIf(t, params, results)
                    /\ n = Enter(Exec(m, <<"i32">>, <<>>), FALSE, params, results)
    OBVIOUS
  <2>2. Opened(u, k, n) /\ k \in LabelType
    BY <1>8, <1>12, <2>1, BlockLabels
  <2>3. PICK w : w = PopAndCheckSignature(t, <<"i32">>)
    OBVIOUS
  <2>4. Within(t, w) /\ Good(w)
    BY <1>6, <2>3, I32, PopWithin, WithinGood
  <2>5. u = OpenLabel(w, k, params, results)
    BY <2>1, <2>3 DEF OnIf
  <2>6. PICK x : x = PopAndCheckSignature(w, params)
    OBVIOUS
  <2>7. u.ok => Within(w, x) /\ x.ok
    BY <1>4, <2>2, <2>4, <2>5, <2>6, OpenLabelIs
  <2>8. u.ok => t.ok
    BY <2>4, <2>7 DEF Within
  <2>9. u.ok => Agree(u, n)
    BY <1>4, <1>6, <1>7, <2>1, <2>8, IfAgrees
  <2> QED
    BY <2>2, <2>9, OpenedSound
<1>13. \/ kind = "block" /\ Opened(OpenLabel(t, kind, params, results), kind, Enter(m, plain, params, results))
       \/ kind = "loop" /\ Opened(OpenLabel(t, kind, params, results), kind, Enter(m, round, params, results))
       \/ kind = "try" /\ Opened(OpenLabel(t, kind, params, results), kind, Enter(m, plain, params, results))
       \/ kind = "if" /\ Opened(OnIf(t, params, results), kind, Enter(Exec(m, <<"i32">>, <<>>), plain, params, results))
  BY <1>1, <1>2, <1>3, <1>5, <1>8, <1>9 DEF OnBlockInstr, OnBlock, OnLoop, OnTry
<1> QED
  BY <1>10, <1>11, <1>12, <1>13

\* The innermost label is the caller's innermost block.
LEMMA TopIsOpen ==
  ASSUME ShapeInv, ~Idle, tc.ok
  PROVE  /\ Len(open) \in Nat \ {0} /\ Len(open) \in DOMAIN open
         /\ Len(tc.label_stack) = Len(open)
         /\ TopLabel(tc).label_type = open[Len(open)]
<1>1. Good(tc) /\ open \in Seq(LabelType) /\ open # <<>>
  BY PlainInstr DEF ShapeInv, Idle
<1>2. Len(open) \in Nat \ {0} /\ Len(open) \in DOMAIN open
  BY <1>1, EmptySeq, LenProperties
<1>3. /\ Len(tc.label_stack) = Len(open)
      /\ \A k \in DOMAIN open : tc.label_stack[k].label_type = open[k]
  BY <1>1 DEF ShapeInv, Covered
<1> QED
  BY <1>1, <1>2, <1>3, GoodLabels

LEMMA ElseAgrees ==
  ASSUME NEW t, Good(t), NEW mm, Agree(t, mm), NEW u, u = OnElse(t), u.ok,
         NEW n, n = NextPart(mm, mm.ctl[Len(mm.ctl)].params)
  PROVE  Agree(u, n)
<1>1. PICK types : types = TopLabel(t).param_types
  OBVIOUS
<1>2. /\ Good(u) /\ Complete(t) /\ TopLabel(t).label_type = "if"
      /\ Len(u.label_stack) = Len(t.label_stack)
      /\ \A k \in DOMAIN t.label_stack : k # Len(t.label_stack) => u.label_stack[k] = t.label_stack[k]
      /\ TopLabel(u).label_type = "else"
      /\ ~TopLabel(u).unreachable
      /\ SameBlock(TopLabel(t), TopLabel(u))
  BY ElseIs
<1>3. u.type_stack = SubSeq(t.type_stack, 1, Lim(t)) \o types
  BY <1>1, ElseIs
<1>4. PICK f : f = mm.ctl[Len(mm.ctl)]
  OBVIOUS
<1>5. FrameAgrees(f, TopLabel(t), t.type_stack)
  BY <1>2, <1>4, ArrivalsAre
<1>6. n = NextPart(mm, types)
  BY <1>1, <1>4, <1>5 DEF FrameAgrees
<1>7. types \in ResultType
  BY <1>1, TopTypes
<1>8. TopLabel(t).label_type # "loop" /\ TopLabel(u).label_type # "loop"
  BY <1>2
<1> QED
  BY <1>2, <1>3, <1>6, <1>7, <1>8, PartAgrees

LEMMA PartSound ==
  ASSUME ShapeInv, SoundInv, ~Idle
  PROVE  /\ OnElseInstr => SoundInv'
         /\ \A v \in Vars(Tags), all \in BOOLEAN : OnCatchInstr(v, all) => SoundInv'
<1>1. Good(tc) /\ IsProfile(P) /\ open \in Seq(LabelType) /\ open # <<>>
  BY PlainInstr, ProfileIs DEF ShapeInv, Idle
<1>2. ASSUME NEW kind \in LabelType, SetOpen(kind)
      PROVE  open' # <<>>
  <2>1. DOMAIN open' = DOMAIN open
    BY <1>1, <1>2 DEF SetOpen
  <2>2. 1 \in DOMAIN open /\ 1 \notin DOMAIN << >>
    BY <1>1, EmptySeq, LenProperties
  <2> QED
    BY <2>1, <2>2
<1>3. ASSUME OnElseInstr
      PROVE  SoundInv'
  <2>1. PICK u, n : u = OnElse(tc) /\ n = NextPart(m, m.ctl[Len(m.ctl)].params)
    OBVIOUS
  <2>2. PICK machines : machines = {n}
    OBVIOUS
  <2>3. tc' = u /\ Follow(u, machines) /\ SetOpen("else")
    BY <1>3, <2>1, <2>2 DEF OnElseInstr
  <2>4. u.ok => tc.ok
    BY <1>1, <2>1, ElseIs
  <2>5. u.ok => Agree(u, n)
    BY <1>1, <2>1, <2>4, AgreesNow, ElseAgrees
  <2>6. Accepts(u, machines)
    BY <2>2, <2>5 DEF Accepts
  <2>7. open' # <<>>
    BY <1>2, <2>3, BlockLabels
  <2> QED
    BY <2>3, <2>6, <2>7, FollowSound
<1>4. ASSUME NEW v \in Vars(Tags), NEW all \in BOOLEAN, OnCatchInstr(v, all)
      PROVE  SoundInv'
  <2>1. PICK sig : sig = IF all THEN <<>> ELSE Lookup(v, Tags, <<>>)
    OBVIOUS
  <2>2. PICK c : c = (all \/ InRange(v, Tags))
    OBVIOUS
  <2>3. sig \in ResultType /\ c \in BOOLEAN
    BY <1>1, <2>1, <2>2, TagsAre, OneType
  <2>4. PICK t : t = Check(Instr(tc, FALSE), c)
    OBVIOUS
  <2>5. Good(t) /\ (t.ok => t = tc)
    BY <2>3, <2>4, CheckedInstr
  <2>6. PICK u, n : u = OnCatch(t, sig) /\ n = NextPart(m, sig)
    OBVIOUS
  <2>7. PICK machines : machines = {n}
    OBVIOUS
  <2>8. tc' = u /\ Follow(u, machines) /\ SetOpen("catch")
    BY <1>4, <2>1, <2>2, <2>4, <2>6, <2>7 DEF OnCatchInstr
  <2>9. /\ Good(u)
        /\ u.ok => t.ok /\ Complete(t) /\ TopLabel(t).label_type \in {"try", "catch"}
        /\ Len(u.label_stack) = Len(t.label_stack)
        /\ \A k \in DOMAIN t.label_stack : k # Len(t.label_stack) => u.label_stack[k] = t.label_stack[k]
        /\ TopLabel(u).label_type = "catch"
        /\ ~TopLabel(u).unreachable
        /\ SameBlock(TopLabel(t), TopLabel(u))
    BY <2>3, <2>5, <2>6, CatchIs
  <2>10. u.type_stack = SubSeq(t.type_stack, 1, Lim(t)) \o sig
    BY <2>3, <2>5, <2>6, CatchIs
  <2>11. u.ok => Agree(u, n)
    <3> SUFFICES ASSUME u.ok
                 PROVE  Agree(u, n)
      OBVIOUS
    <3>1. Agree(t, m) /\ Complete(t)
      BY <2>5, <2>9, AgreesNow
    <3>2. TopLabel(t).label_type # "loop" /\ TopLabel(u).label_type # "loop"
      BY <2>9
    <3> QED
      BY <2>3, <2>5, <2>6, <2>9, <2>10, <3>1, <3>2, PartAgrees
  <2>12. Accepts(u, machines)
    BY <2>7, <2>11 DEF Accepts
  <2>13. open' # <<>>
    BY <1>2, <2>8, BlockLabels
  <2> QED
    BY <2>8, <2>12, <2>13, FollowSound
<1> QED
  BY <1>3, <1>4

\* The caller's outermost block is a function or an initializer.
Rooted == ~Idle => open[1] \in {"func", "init"}

\* A block inside the body is not the outermost one.
LEMMA Inside ==
  ASSUME ShapeInv, Rooted, ~Idle, tc.ok, open[Len(open)] \notin {"func", "init"}
  PROVE  Len(tc.label_stack) > 1
<1>1. Len(open) \in Nat \ {0} /\ Len(tc.label_stack) = Len(open)
  BY TopIsOpen
<1>2. Len(open) # 1
  BY DEF Rooted
<1>3. PICK n : n = Len(open)
  OBVIOUS
<1>4. n \in Nat /\ n # 0 /\ n # 1 /\ Len(tc.label_stack) = n
  BY <1>1, <1>2, <1>3
<1> QED
  BY <1>4

LEMMA ClosedSound ==
  ASSUME NEW u, NEW machines, u.ok => \A n \in machines : Agree(u, n), tc' = u, Follow(u, machines)
  PROVE  SoundInv'
<1> SUFFICES ASSUME u.ok
             PROVE  ~m'.stuck /\ Agree(u, m')
  BY DEF SoundInv, Idle
<1>1. m' \in machines
  BY DEF Follow
<1>2. Agree(u, m')
  BY <1>1
<1> QED
  BY <1>2 DEF Agree

LEMMA EndSound ==
  ASSUME ShapeInv, SoundInv, Rooted, ~Idle
  PROVE  /\ OnEndInstr => SoundInv'
         /\ \A d \in Depths : OnDelegateInstr(d) => SoundInv'
<1>1. PICK t : t = Instr(tc, FALSE)
  OBVIOUS
<1>2. Good(t) /\ (t.ok => t = tc)
  BY <1>1, PlainInstr
<1>3. ASSUME OnEndInstr
      PROVE  SoundInv'
  <2>1. PICK u : u = OnEnd(t)
    OBVIOUS
  <2>2. PICK q : q = NextPart(m, m.ctl[Len(m.ctl)].params)
    OBVIOUS
  <2>3. PICK n : n = IF open[Len(open)] = "if" THEN q ELSE m
    OBVIOUS
  <2>4. PICK machines : machines = Outcomes(n)
    OBVIOUS
  <2>5. tc' = u /\ Follow(u, machines) /\ open[Len(open)] \notin {"func", "init"}
    BY <1>1, <1>3, <2>1, <2>2, <2>3, <2>4 DEF OnEndInstr
  <2>6. u.ok => \A o \in machines : Agree(u, o)
    <3> SUFFICES ASSUME u.ok, NEW o \in machines
                 PROVE  Agree(u, o)
      OBVIOUS
    <3>1. t.ok
      BY <1>2, <2>1, OnEndIs
    <3>2. IF TopLabel(t).label_type = "if" THEN OnElse(t).ok /\ u = EndLabel(OnElse(t))
                                            ELSE u = EndLabel(t)
      BY <1>2, <2>1, OnEndIs
    <3>3. t = tc /\ Agree(t, m)
      BY <1>2, <3>1, AgreesNow
    <3>4. Len(t.label_stack) > 1 /\ TopLabel(t).label_type = open[Len(open)]
      BY <2>5, <3>1, <3>3, Inside, TopIsOpen
    <3>5. CASE TopLabel(t).label_type = "if"
      <4>1. PICK e : e = OnElse(t)
        OBVIOUS
      <4>2. e.ok /\ u = EndLabel(e)
        BY <3>2, <3>5, <4>1
      <4>3. Good(e) /\ Len(e.label_stack) = Len(t.label_stack)
        BY <1>2, <4>1, ElseIs
      <4>4. Agree(e, q)
        BY <1>2, <2>2, <3>3, <4>1, <4>2, ElseAgrees
      <4>5. o \in Outcomes(q)
        BY <2>3, <2>4, <3>4, <3>5
      <4> QED
        BY <3>4, <4>2, <4>3, <4>4, <4>5, EndAgrees
    <3>6. CASE TopLabel(t).label_type # "if"
      <4>1. u = EndLabel(t) /\ o \in Outcomes(m)
        BY <2>3, <2>4, <3>2, <3>4, <3>6
      <4> QED
        BY <1>2, <3>3, <3>4, <4>1, EndAgrees
    <3> QED
      BY <3>5, <3>6
  <2> QED
    BY <2>5, <2>6, ClosedSound
<1>4. ASSUME NEW d \in Depths, OnDelegateInstr(d)
      PROVE  SoundInv'
  <2>1. PICK u : u = OnDelegate(t, d)
    OBVIOUS
  <2>2. PICK machines : machines = Outcomes(m)
    OBVIOUS
  <2>3. tc' = u /\ Follow(u, machines) /\ open[Len(open)] = "try"
    BY <1>1, <1>4, <2>1, <2>2 DEF OnDelegateInstr
  <2>4. u.ok => \A o \in machines : Agree(u, o)
    <3> SUFFICES ASSUME u.ok, NEW o \in machines
                 PROVE  Agree(u, o)
      OBVIOUS
    <3>1. d \in Nat
      BY DepthsAre
    <3>2. t.ok /\ u = EndLabel(t)
      BY <1>2, <2>1, <3>1, DelegateIs
    <3>3. t = tc /\ Agree(t, m)
      BY <1>2, <3>2, AgreesNow
    <3>4. Len(t.label_stack) > 1
      BY <2>3, <3>2, <3>3, Inside
    <3>5. o \in Outcomes(m)
      BY <2>2
    <3> QED
      BY <1>2, <3>2, <3>3, <3>4, <3>5, EndAgrees
  <2> QED
    BY <2>3, <2>4, ClosedSound
<1> QED
  BY <1>3, <1>4

\* A body begins with nothing on the stack, and one frame.
LEMMA StartIs ==
  ASSUME NEW t, NEW kind \in {"func", "init"}, NEW results \in ResultType, Fresh(t, kind), t.ok,
         t.label_stack[1] = NewLabel(kind, <<>>, results, 0), tc' = t,
         m' = [live |-> TRUE, stuck |-> FALSE, stack |-> <<>>,
               ctl |-> <<[base |-> <<>>, loop |-> FALSE, params |-> <<>>, results |-> results,
                          entered |-> TRUE, hits |-> {}]>>]
  PROVE  SoundInv'
<1>1. PICK none : none = <<>>
  OBVIOUS
<1>2. none \in ResultType /\ none \in Seq(StackType)
  BY <1>1, OneType, AnyOrType
<1>3. PICK zero \in Nat : zero = 0
  OBVIOUS
<1>4. PICK l : l = NewLabel(kind, none, results, zero)
  OBVIOUS
<1>5. /\ l \in Label /\ l.label_type = kind /\ l.param_types = none /\ l.result_types = results
      /\ l.type_stack_limit = zero /\ ~l.unreachable
  BY <1>2, <1>4, NewLabelIs, BlockLabels
<1>6. t.label_stack[1] = l /\ Len(t.label_stack) = 1 /\ t.type_stack = none /\ t.label_stack \in Seq(Label)
  BY <1>1, <1>3, <1>4 DEF Fresh, Checker
<1>7. PICK yes \in BOOLEAN : yes = TRUE
  OBVIOUS
<1>8. PICK no \in BOOLEAN : no = FALSE
  OBVIOUS
<1>9. PICK f : f = [base |-> none, loop |-> no, params |-> none, results |-> results,
                    entered |-> yes, hits |-> {}]
  OBVIOUS
<1>10. /\ f \in FrameType /\ f.base = none /\ ~f.loop /\ f.params = none /\ f.results = results
       /\ f.entered /\ f.hits = {}
  BY <1>2, <1>7, <1>8, <1>9 DEF FrameType
<1>11. PICK ctl : ctl = <<f>>
  OBVIOUS
<1>12. ctl \in Seq(FrameType) /\ Len(ctl) = 1 /\ ctl[1] = f
  BY <1>10, <1>11, OneSeq
<1>13. PICK mm : mm = [live |-> yes, stuck |-> no, stack |-> none, ctl |-> ctl]
  OBVIOUS
<1>14. mm \in Machine /\ mm.live /\ ~mm.stuck /\ mm.stack = none /\ mm.ctl = ctl
  BY <1>2, <1>7, <1>8, <1>12, <1>13 DEF Machine
<1>15. m' = mm
  BY <1>1, <1>7, <1>8, <1>9, <1>11, <1>13
<1>16. FrameAgrees(f, l, none)
  <2>1. SubSeq(none, 1, 0) = none
    BY <1>1, <1>2, WholeSeq, EmptySeq
  <2>2. f.loop = (l.label_type = "loop")
    <3>1. l.label_type # "loop"
      BY <1>5
    <3>2. f.loop = FALSE
      BY <1>8, <1>9
    <3> QED
      BY <3>1, <3>2
  <2>3. f.params = l.param_types /\ f.results = l.result_types
    BY <1>5, <1>10
  <2>4. f.base = SubSeq(none, 1, l.type_stack_limit) /\ f.base \in ResultType
    BY <1>2, <1>3, <1>5, <1>10, <2>1
  <2>5. \A h \in f.hits : f.entered /\ h = f.base \o f.results
    BY <1>10
  <2> QED
    BY <2>2, <2>3, <2>4, <2>5 DEF FrameAgrees
<1>17. Frames(t, ctl)
  <2>1. DOMAIN ctl = {1}
    BY <1>12, LenProperties
  <2> QED
    BY <1>3, <1>5, <1>6, <1>12, <1>16, <2>1 DEF Frames
<1>18. Running(t, mm)
  <2>1. TopLabel(t) = l
    <3>1. kind \in LabelType
      BY BlockLabels
    <3>2. Shape(t)
      BY <3>1, FreshShape
    <3>3. t.label_stack # <<>>
      BY <1>6, EmptySeq
    <3>4. Good(t)
      BY <3>2, <3>3 DEF Good
    <3> QED
      BY <1>6, <3>4, GoodLabels
  <2> QED
    BY <1>2, <1>5, <1>6, <1>10, <1>12, <1>14, <2>1 DEF Running
<1>19. Agree(t, mm)
  BY <1>14, <1>17, <1>18 DEF Agree
<1> QED
  BY <1>14, <1>15, <1>19 DEF SoundInv, Idle

LEMMA StartSound ==
  ASSUME ShapeInv
  PROVE  /\ \A v \in Vars(Funcs) : BeginFunctionBody(v) => SoundInv'
         /\ \A type \in {"i32", "funcref"} : BeginInit(type) => SoundInv'
<1>1. ASSUME NEW v \in Vars(Funcs), BeginFunctionBody(v)
      PROVE  SoundInv'
  <2>1. PICK results \in ResultType : results = Lookup(v, Funcs, NoSig).results
    BY ProfileIs, FuncsAre DEF ShapeInv
  <2>2. PICK kind \in {"func", "init"} : kind = "func"
    OBVIOUS
  <2>3. PICK t : t = [BeginFunction(results) EXCEPT !.ok = TRUE]
    OBVIOUS
  <2>4. Fresh(t, kind) /\ t.ok /\ t.label_stack[1] = NewLabel(kind, <<>>, results, 0)
    BY <2>1, <2>2, <2>3, BeginIs, BlockLabels
  <2>5. /\ tc' = t
        /\ m' = [live |-> TRUE, stuck |-> FALSE, stack |-> <<>>,
                 ctl |-> <<[base |-> <<>>, loop |-> FALSE, params |-> <<>>, results |-> results,
                            entered |-> TRUE, hits |-> {}]>>]
    BY <1>1, <2>1, <2>3 DEF BeginFunctionBody, Start
  <2> QED
    BY <2>4, <2>5, StartIs
<1>2. ASSUME NEW type \in {"i32", "funcref"}, BeginInit(type)
      PROVE  SoundInv'
  <2>1. PICK results \in ResultType : results = <<type>>
    <3>1. type \in ValueType
      BY DEF ValueType, RefType
    <3> QED
      BY <3>1, OneType
  <2>2. PICK kind \in {"func", "init"} : kind = "init"
    OBVIOUS
  <2>3. PICK t : t = [BeginInitExpr(type) EXCEPT !.ok = TRUE]
    OBVIOUS
  <2>4. Fresh(t, kind) /\ t.ok /\ t.label_stack[1] = NewLabel(kind, <<>>, results, 0)
    <3>1. \E x : results = <<x>> /\ t = [BeginInitExpr(x) EXCEPT !.ok = TRUE]
      BY <2>1, <2>3
    <3>2. kind = "init" /\ kind \in LabelType
      BY <2>2, BlockLabels
    <3> QED
      BY <3>1, <3>2, BeginIs
  <2>5. /\ tc' = t
        /\ m' = [live |-> TRUE, stuck |-> FALSE, stack |-> <<>>,
                 ctl |-> <<[base |-> <<>>, loop |-> FALSE, params |-> <<>>, results |-> results,
                            entered |-> TRUE, hits |-> {}]>>]
    BY <1>2, <2>1, <2>3 DEF BeginInit, Start
  <2> QED
    BY <2>4, <2>5, StartIs
<1> QED
  BY <1>1, <1>2

\* At the end of a body its results, and nothing else, go to the caller.
LEMMA FinishSound ==
  ASSUME ShapeInv, SoundInv
  PROVE  EndFunctionBody \/ EndInit => SoundInv'
<1>1. ASSUME ~Idle, Len(open) = 1, NEW kind \in LabelType, NEW u,
             \/ kind = "func" /\ u = EndFunction(tc)
             \/ kind = "init" /\ u = EndInitExpr(tc),
             Finish(u)
      PROVE  SoundInv'
  <2> SUFFICES ASSUME u.ok
               PROVE  ~m'.stuck
    BY <1>1 DEF Finish, SoundInv, Idle
  <2>1. tc.ok /\ u = EndLabel(tc)
    BY <1>1, FinishIs
  <2>2. Good(tc) /\ Agree(tc, m)
    BY <1>1, <2>1, AgreesNow
  <2>3. Complete(tc)
    BY <2>1, <2>2, EndIs
  <2>4. Len(tc.label_stack) = 1
    BY <1>1, <2>1, TopIsOpen
  <2>5. \A s \in Arrivals(m) : s = m.ctl[1].results
    BY <2>2, <2>3, <2>4, FinishAgrees
  <2>6. ~m.stuck
    BY <2>2 DEF Agree
  <2>7. m' = [Dead EXCEPT !.stuck = m.stuck \/ \E s \in Arrivals(m) : s # m.ctl[1].results]
    BY <1>1 DEF Finish
  <2>8. m'.stuck = (m.stuck \/ \E s \in Arrivals(m) : s # m.ctl[1].results)
    BY <2>7 DEF Dead
  <2> QED
    BY <2>5, <2>6, <2>8
<1>2. ASSUME EndFunctionBody
      PROVE  SoundInv'
  <2>1. ~Idle /\ Len(open) = 1
    BY <1>2 DEF EndFunctionBody, InBody, Going
  <2>2. PICK u : u = EndFunction(tc)
    OBVIOUS
  <2>3. PICK kind \in LabelType : kind = "func"
    BY BlockLabels
  <2>4. Finish(u)
    BY <1>2, <2>2 DEF EndFunctionBody
  <2> QED
    BY <1>1, <2>1, <2>2, <2>3, <2>4
<1>3. ASSUME EndInit
      PROVE  SoundInv'
  <2>1. ~Idle /\ Len(open) = 1
    BY <1>3 DEF EndInit, InBody, Going
  <2>2. PICK u : u = EndInitExpr(tc)
    OBVIOUS
  <2>3. PICK kind \in LabelType : kind = "init"
    BY BlockLabels
  <2>4. Finish(u)
    BY <1>3, <2>2 DEF EndInit
  <2> QED
    BY <1>1, <2>1, <2>2, <2>3, <2>4
<1> QED
  BY <1>2, <1>3

LEMMA BodySound ==
  ASSUME ShapeInv, SoundInv, Rooted, Exact(P), Body
  PROVE  SoundInv'
<1>1. ~Idle
  BY DEF Body, InBody, Going
<1>2. \E d \in Depths : TRUE
  BY LenProperties DEF Depths, ShapeInv
<1> QED
  BY <1>1, <1>2, BlockSound, PartSound, EndSound, BranchSound, LeaveSound, BrTableSound, CallSound,
     CallIndirectSound, CallRefSound, ThrowSound, OpcodeSound, ParametricSound, GlobalSound,
     RefFuncSound, TableSound, TableCopySound
     DEF Body

\* The outermost block stays what it was opened as.
LEMMA RootedStays ==
  ASSUME ShapeInv, Rooted, [Next]_vars
  PROVE  Rooted'
<1>1. ASSUME open' = open
      PROVE  Rooted'
  BY <1>1 DEF Rooted, Idle
<1>2. ASSUME \/ open' = <<>> \/ open' = <<"func">> \/ open' = <<"init">>
      PROVE  Rooted'
  BY <1>2 DEF Rooted, Idle
<1>3. ASSUME ~Idle, NEW kind, open' = Append(open, kind)
      PROVE  Rooted'
  <2>1. open \in Seq(LabelType) /\ open # <<>>
    BY <1>3 DEF ShapeInv, Idle
  <2>2. open'[1] = open[1]
    BY <1>3, <2>1, AppendProperties, EmptySeq, LenProperties
  <2> QED
    BY <1>3, <2>2 DEF Rooted
<1>4. ASSUME ~Idle, NEW kind, SetOpen(kind), open[Len(open)] \notin {"func", "init"}
      PROVE  Rooted'
  <2>1. open \in Seq(LabelType) /\ open # <<>> /\ 1 \in DOMAIN open
    BY <1>4, EmptySeq, LenProperties DEF ShapeInv, Idle
  <2>2. Len(open) # 1
    BY <1>4 DEF Rooted
  <2>3. open'[1] = open[1]
    BY <1>4, <2>1, <2>2 DEF SetOpen
  <2> QED
    BY <1>4, <2>3 DEF Rooted
<1>5. ASSUME ~Idle, open' = Below(open, 1)
      PROVE  Rooted'
  <2>1. open \in Seq(LabelType) /\ open # <<>>
    BY <1>5 DEF ShapeInv, Idle
  <2>2. PICK n : n = Len(open) - 1
    OBVIOUS
  <2>3. n \in Nat /\ n <= Len(open)
    BY <2>1, <2>2, EmptySeq, LenProperties
  <2>4. open' = SubSeq(open, 1, n)
    BY <1>5, <2>2 DEF Below
  <2>5. Len(open') = n /\ \A i \in 1 .. n : open'[i] = open[i]
    BY <2>1, <2>3, <2>4, Prefix
  <2>6. CASE n = 0
    <3>1. open' = <<>>
      BY <2>1, <2>3, <2>4, <2>5, <2>6, Prefix, EmptySeq
    <3> QED
      BY <1>2, <3>1
  <2>7. CASE n # 0
    <3>1. open'[1] = open[1]
      BY <2>3, <2>5, <2>7
    <3> QED
      BY <1>5, <3>1 DEF Rooted
  <2> QED
    BY <2>6, <2>7
<1>6. ASSUME Body
      PROVE  Rooted'
  <2>1. ~Idle
    BY <1>6 DEF Body, InBody, Going
  <2>2. ASSUME NEW kind, NEW v, OnBlockInstr(kind, v)
        PROVE  Rooted'
    BY <1>3, <2>1, <2>2 DEF OnBlockInstr, Opened
  <2>3. OnElseInstr => Rooted'
    BY <1>4, <2>1 DEF OnElseInstr
  <2>4. ASSUME NEW v, NEW all, OnCatchInstr(v, all)
        PROVE  Rooted'
    BY <1>4, <2>1, <2>4 DEF OnCatchInstr
  <2>5. OnEndInstr => Rooted'
    BY <1>5, <2>1 DEF OnEndInstr
  <2>6. ASSUME NEW d, OnDelegateInstr(d)
        PROVE  Rooted'
    BY <1>5, <2>1, <2>6 DEF OnDelegateInstr
  <2> QED
    BY <1>1, <1>6, <2>2, <2>3, <2>4, <2>5, <2>6
       DEF Body, OnBrInstr, OnBrIfInstr, BeginBrTableInstr, OnReturnInstr, OnUnreachableInstr,
           OnRethrowInstr, OnCallInstr, OnCallIndirectInstr, OnCallRefInstr, OnReturnCallInstr,
           OnReturnCallIndirectInstr, OnThrowInstr, OnOpcodeInstr, OnDropInstr, OnSelectInstr,
           OnGlobalGetInstr, OnGlobalSetInstr, OnRefFuncInstr, OnRefIsNullInstr, OnTableInstr,
           OnTableCopyInstr, Step
<1>7. CASE UNCHANGED vars
  BY <1>1, <1>7 DEF vars
<1> QED
  BY <1>1, <1>2, <1>6, <1>7
     DEF Next, BeginFunctionBody, BeginInit, EndFunctionBody, EndInit, Finish, OnBrTableTargetInstr,
         EndBrTableInstr, OnExport

LEMMA NextSound ==
  ASSUME ShapeInv, SoundInv, Rooted, Exact(P), [Next]_vars
  PROVE  SoundInv'
<1>1. ASSUME tc' = tc, m' = m, open' = open
      PROVE  SoundInv'
  BY <1>1 DEF SoundInv, Idle
<1>2. CASE UNCHANGED vars
  BY <1>1, <1>2 DEF vars
<1>3. ASSUME NEW v \in Vars(Funcs), OnExport(v)
      PROVE  SoundInv'
  BY <1>1, <1>3 DEF OnExport
<1> QED
  BY <1>2, <1>3, StartSound, FinishSound, BodySound, BrTableSound DEF Next

LEMMA AgreeingIsSound ==
  ASSUME ShapeInv, SoundInv
  PROVE  Sound
<1>1. CASE ~tc.ok
  BY <1>1 DEF Sound
<1>2. CASE Idle
  BY <1>2 DEF SoundInv, Sound
<1>3. CASE tc.ok /\ ~Idle
  <2>1. Good(tc) /\ Agree(tc, m)
    BY <1>3, AgreesNow
  <2>2. ~m.stuck /\ (m.live => m.stack = tc.type_stack /\ ~TopLabel(tc).unreachable)
    BY <2>1 DEF Agree, Running
  <2>3. ASSUME NEW k \in DOMAIN m.ctl, m.ctl[k].entered
        PROVE  Len(m.ctl[k].base) = tc.label_stack[k].type_stack_limit
    <3>1. PICK n, types : n = tc.label_stack[k].type_stack_limit /\ types = tc.type_stack
      OBVIOUS
    <3>2. Frames(tc, m.ctl) /\ m.ctl \in Seq(FrameType)
      BY <2>1 DEF Agree, Machine
    <3>3. DOMAIN m.ctl = DOMAIN tc.label_stack
      BY <2>1, <3>2, FrameIs
    <3>4. n \in Nat /\ n <= Lim(tc) /\ Lim(tc) \in Nat /\ Lim(tc) <= Len(types) /\ types \in Seq(StackType)
          /\ Len(types) \in Nat
      BY <2>1, <2>3, <3>1, <3>3, GoodLabels DEF Label, Checker
    <3>5. m.ctl[k].base = SubSeq(types, 1, n)
      BY <2>3, <3>1, <3>2 DEF Frames, FrameAgrees
    <3>6. n <= Len(types)
      BY <3>4
    <3> QED
      BY <3>1, <3>4, <3>5, <3>6, Prefix
  <2> QED
    BY <1>3, <2>2, <2>3 DEF Sound
<1> QED
  BY <1>1, <1>2, <1>3

\* Accepted code runs: where the checker has reported nothing, no operand has
\* been missing or of another type, and the machine has the types on the type
\* stack, in every body of every module whose selects carry no annotation and
\* whose return_call_indirects go through 32-bit tables.
THEOREM Soundness ==
  ASSUME \A name \in DOMAIN Profiles : Exact(Profiles[name])
  PROVE  Spec => []Sound
<1>1. Init => SoundInv /\ Rooted
  BY DEF Init, SoundInv, Rooted, Idle, Dead
<1>2. ShapeInv => Exact(P)
  BY DEF ShapeInv, P
<1>3. ShapeInv /\ SoundInv /\ Rooted /\ [Next]_vars => SoundInv' /\ Rooted'
  BY <1>2, NextSound, RootedStays
<1>4. ShapeInv /\ SoundInv => Sound
  BY AgreeingIsSound
<1> QED
  BY <1>1, <1>3, <1>4, ShapeInvariant, PTL DEF Spec

=============================================================================
