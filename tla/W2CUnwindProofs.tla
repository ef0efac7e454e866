-------------------------- MODULE W2CUnwindProofs --------------------------
(***************************************************************************)
(* Proofs about W2CUnwind, for every set of tags, every depth of calls and *)
(* every height of the stack.                                              *)
(***************************************************************************)
EXTENDS W2CUnwind, FiniteSetTheorems, WellFoundedInduction, TLAPS

Kind == {"func", "block", "loop", "try"}
Entry == [kind : Kind, phase : {"body", "catch"}, catches : SUBSET Tag, delegate : Nat,
          saved : Tag \cup {NoTag}, outer : Nat, initialized : BOOLEAN]

TypeInv ==
  /\ stack \in Seq(Entry) /\ mode \in {"run", "dispatch", "abort"} /\ unwind_target \in Nat
  /\ jmp_buf \in BOOLEAN /\ active \in Tag \cup {NoTag}

\* Each running try has kept the target that was there before it.
Outers(s) == \A i \in DOMAIN s : Active(s[i]) => s[i].outer = Innermost(s, i - 1)

\* The buffer of a running try is set, but for the one just jumped to.
Buffers(s, m) == \A i \in DOMAIN s : Active(s[i]) /\ ~(m = "dispatch" /\ i = Len(s)) => s[i].initialized

\* The inductive invariant.  TargetInnermost alone is not inductive: that no
\* jump aborts needs the flags of the buffers, and that a catch clause finds
\* the right target needs to know that the stack ends in the try that handles
\* the exception.
IInv ==
  /\ TypeInv
  /\ mode # "abort"
  /\ stack # <<>> => jmp_buf
  /\ mode = "dispatch" => stack # <<>> /\ Active(stack[Len(stack)])
  /\ mode = "run" /\ jmp_buf => unwind_target = Innermost(stack, Len(stack))
  /\ Outers(stack)
  /\ Buffers(stack, mode)

-----------------------------------------------------------------------------
(* Smallest and largest elements                                            *)

LEMMA MinExists ==
  ASSUME NEW S, S \subseteq Nat, S # {}
  PROVE  \E i \in S : \A j \in S : i <= j
<1>1. \E R : IsWellFoundedOn(R, Nat) /\ \A x, y \in Nat : y < x => <<y, x>> \in R
  <2>1. \A x, y \in Nat : y < x => <<y, x>> \in OpToRel(<, Nat)
    BY DEF OpToRel
  <2> WITNESS OpToRel(<, Nat)
  <2> QED
    BY <2>1, NatLessThanWellFounded
<1>2. PICK R : IsWellFoundedOn(R, Nat) /\ \A x, y \in Nat : y < x => <<y, x>> \in R
  BY <1>1
<1>3. PICK x \in S : \A y \in S : <<y, x>> \notin R
  BY <1>2, WFMin
<1>4. \A y \in S : ~(y < x)
  BY <1>2, <1>3, x \in Nat
<1>5. \A y \in S : x <= y
  BY <1>4, x \in Nat
<1> QED
  BY <1>5

LEMMA MaxExists ==
  ASSUME NEW n \in Nat, NEW S, S \subseteq 0 .. n, S # {}
  PROVE  \E i \in S : \A j \in S : j <= i
<1> DEFINE T == {n - j : j \in S}
<1>1. T \subseteq Nat
  OBVIOUS
<1>2. T # {}
  <2>1. PICK j : j \in S
    OBVIOUS
  <2>2. n - j \in T
    BY <2>1
  <2> QED
    BY <2>2
<1>3. PICK k \in T : \A m \in T : k <= m
  <2> HIDE DEF T
  <2> QED
    BY <1>1, <1>2, MinExists
<1>4. PICK i \in S : k = n - i
  BY <1>3
<1>5. \A j \in S : n - i <= n - j
  BY <1>3, <1>4
<1> QED
  BY <1>4, <1>5

LEMMA BackIsLargest ==
  ASSUME NEW n \in Nat, NEW S, S \subseteq 0 .. n, S # {}
  PROVE  Back_(S) \in S /\ \A j \in S : j <= Back_(S)
BY MaxExists DEF Back_

LEMMA FrontIsSmallest ==
  ASSUME NEW n \in Nat, NEW S, S \subseteq 0 .. n, S # {}
  PROVE  Front_(S) \in S /\ \A j \in S : Front_(S) <= j
<1>1. S \subseteq Nat
  OBVIOUS
<1> QED
  BY <1>1, MinExists DEF Front_

-----------------------------------------------------------------------------
(* The innermost running try                                                *)

\* Innermost, by its properties.
LEMMA InnermostFacts ==
  ASSUME NEW s \in Seq(Entry), NEW n \in Nat
  PROVE  LET k == Innermost(s, n) IN
         /\ k \in 0 .. Len(s) /\ k <= n
         /\ k # 0 => k \in DOMAIN s /\ Active(s[k])
         /\ \A j \in DOMAIN s : j <= n /\ Active(s[j]) => j <= k
<1> DEFINE below == {i \in DOMAIN s : i <= n /\ Active(s[i])}
<1>1. below \subseteq 0 .. Len(s) /\ Len(s) \in Nat
  OBVIOUS
<1>2. CASE below = {}
  <2>1. Innermost(s, n) = 0
    BY <1>2 DEF Innermost, Host
  <2>2. \A j \in DOMAIN s : ~(j <= n /\ Active(s[j]))
    BY <1>2
  <2> QED
    BY <2>1, <2>2
<1>3. CASE below # {}
  <2>1. Innermost(s, n) = Back_(below)
    BY <1>3 DEF Innermost
  <2>2. Back_(below) \in below /\ \A j \in below : j <= Back_(below)
    <3> HIDE DEF below
    <3> QED
      BY <1>1, <1>3, BackIsLargest
  <2> QED
    BY <2>1, <2>2
<1> QED
  BY <1>2, <1>3

\* ... which determine it.
LEMMA InnermostUnique ==
  ASSUME NEW s \in Seq(Entry), NEW n \in Nat, NEW k \in Nat, k <= n,
         k # 0 => k \in DOMAIN s /\ Active(s[k]),
         \A j \in DOMAIN s : j <= n /\ Active(s[j]) => j <= k
  PROVE  Innermost(s, n) = k
<1> DEFINE m == Innermost(s, n)
<1>1. /\ m \in 0 .. Len(s) /\ m <= n
      /\ m # 0 => m \in DOMAIN s /\ Active(s[m])
      /\ \A j \in DOMAIN s : j <= n /\ Active(s[j]) => j <= m
  BY InnermostFacts
<1>2. m \in Nat
  BY <1>1
<1> HIDE DEF m
<1>3. m <= k
  BY <1>1, <1>2
<1>4. k <= m
  BY <1>1, <1>2
<1>5. m = k
  BY <1>2, <1>3, <1>4
<1> QED
  BY <1>5 DEF m

\* It depends on the running trys below only.
LEMMA InnermostSame ==
  ASSUME NEW s \in Seq(Entry), NEW r \in Seq(Entry), NEW n \in Nat,
         n <= Len(s), n <= Len(r), \A j \in 1 .. n : Active(r[j]) <=> Active(s[j])
  PROVE  Innermost(r, n) = Innermost(s, n)
<1>1. {i \in DOMAIN r : i <= n /\ Active(r[i])} = {i \in DOMAIN s : i <= n /\ Active(s[i])}
  OBVIOUS
<1> QED
  BY <1>1 DEF Innermost

LEMMA PrefixFacts ==
  ASSUME NEW s \in Seq(Entry), NEW n \in 0 .. Len(s)
  PROVE  /\ Prefix(s, n) \in Seq(Entry) /\ Len(Prefix(s, n)) = n
         /\ \A j \in 1 .. n : Prefix(s, n)[j] = s[j]
BY DEF Prefix

\* A stack cut short, whose last entry may have stopped being a running try.
LEMMA OutersCut ==
  ASSUME NEW s \in Seq(Entry), Outers(s), NEW r \in Seq(Entry), Len(r) <= Len(s),
         \A j \in 1 .. Len(r) : Active(r[j]) => Active(s[j]) /\ r[j].outer = s[j].outer,
         \A j \in 1 .. Len(r) : j < Len(r) => (Active(r[j]) <=> Active(s[j]))
  PROVE  Outers(r)
<1> SUFFICES ASSUME NEW i \in DOMAIN r, Active(r[i]) PROVE r[i].outer = Innermost(r, i - 1)
  BY DEF Outers
<1>1. i \in 1 .. Len(r) /\ i \in DOMAIN s /\ i - 1 \in Nat /\ Len(r) \in Nat /\ Len(s) \in Nat
  OBVIOUS
<1>2. r[i].outer = s[i].outer /\ s[i].outer = Innermost(s, i - 1)
  BY <1>1 DEF Outers
<1>3. \A j \in 1 .. i - 1 : Active(r[j]) <=> Active(s[j])
  BY <1>1
<1>4. Innermost(r, i - 1) = Innermost(s, i - 1)
  BY <1>1, <1>3, InnermostSame
<1> QED
  BY <1>2, <1>4

\* A stack with one more entry.
LEMMA OutersAppend ==
  ASSUME NEW s \in Seq(Entry), Outers(s), NEW e \in Entry, Active(e) => e.outer = Innermost(s, Len(s))
  PROVE  Outers(Append(s, e))
<1> DEFINE r == Append(s, e)
<1>1. r \in Seq(Entry) /\ Len(r) = Len(s) + 1 /\ r[Len(s) + 1] = e /\ \A j \in 1 .. Len(s) : r[j] = s[j]
  OBVIOUS
<1>2. Len(s) \in Nat
  OBVIOUS
<1> HIDE DEF r
<1>3. ASSUME NEW i \in DOMAIN r, Active(r[i]) PROVE r[i].outer = Innermost(r, i - 1)
  <2>1. i \in 1 .. Len(s) + 1 /\ i - 1 \in Nat /\ i - 1 <= Len(s) /\ i - 1 <= Len(r)
    BY <1>1, <1>2
  <2>2. Innermost(r, i - 1) = Innermost(s, i - 1)
    BY <1>1, <1>2, <2>1, InnermostSame
  <2>3. CASE i = Len(s) + 1
    BY <1>1, <1>2, <1>3, <2>2, <2>3
  <2>4. CASE i \in 1 .. Len(s)
    <3>1. r[i] = s[i] /\ i \in DOMAIN s
      BY <1>1, <2>4
    <3> QED
      BY <1>3, <2>2, <3>1 DEF Outers
  <2> QED
    BY <1>2, <2>1, <2>3, <2>4
<1> QED
  BY <1>3 DEF Outers, r

\* What a new entry does to the innermost try.
LEMMA InnermostAppend ==
  ASSUME NEW s \in Seq(Entry), NEW e \in Entry
  PROVE  Innermost(Append(s, e), Len(s) + 1) = IF Active(e) THEN Len(s) + 1 ELSE Innermost(s, Len(s))
<1> DEFINE r == Append(s, e)  n == Len(s)
<1>1. r \in Seq(Entry) /\ Len(r) = n + 1 /\ r[n + 1] = e /\ \A j \in 1 .. n : r[j] = s[j]
  OBVIOUS
<1>2. n \in Nat /\ DOMAIN r = 1 .. n + 1
  BY <1>1
<1>3. CASE Active(e)
  <2>1. n + 1 \in DOMAIN r /\ Active(r[n + 1]) /\ \A j \in DOMAIN r : j <= n + 1
    BY <1>1, <1>2, <1>3
  <2> HIDE DEF r, n
  <2>2. Innermost(r, n + 1) = n + 1
    BY <1>1, <1>2, <2>1, InnermostUnique
  <2> QED
    BY <1>3, <2>2 DEF r, n
<1>4. CASE ~Active(e)
  <2> DEFINE k == Innermost(s, n)
  <2>1. /\ k \in 0 .. n /\ (k # 0 => k \in DOMAIN s /\ Active(s[k]))
        /\ \A j \in DOMAIN s : j <= n /\ Active(s[j]) => j <= k
    BY <1>2, InnermostFacts
  <2> HIDE DEF k
  <2>2. k # 0 => k \in DOMAIN r /\ Active(r[k])
    BY <1>1, <1>2, <2>1
  <2>3. \A j \in DOMAIN r : j <= n + 1 /\ Active(r[j]) => j <= k
    BY <1>1, <1>2, <1>4, <2>1
  <2>4. k \in Nat /\ k <= n + 1
    BY <1>2, <2>1
  <2> HIDE DEF r, n
  <2>5. Innermost(r, n + 1) = k
    BY <1>1, <1>2, <2>2, <2>3, <2>4, InnermostUnique
  <2> QED
    BY <1>4, <2>5 DEF r, n, k
<1> QED
  BY <1>3, <1>4

LEMMA NoneBetween ==
  ASSUME NEW s \in Seq(Entry), NEW n \in Nat, NEW m \in Nat, n <= m,
         \A j \in DOMAIN s : n < j /\ j <= m => ~Active(s[j])
  PROVE  Innermost(s, m) = Innermost(s, n)
<1> DEFINE k == Innermost(s, n)
<1>1. /\ k \in 0 .. Len(s) /\ k <= n
      /\ k # 0 => k \in DOMAIN s /\ Active(s[k])
      /\ \A j \in DOMAIN s : j <= n /\ Active(s[j]) => j <= k
  BY InnermostFacts
<1> HIDE DEF k
<1>2. k \in Nat /\ k <= m
  BY <1>1
<1>3. \A j \in DOMAIN s : j <= m /\ Active(s[j]) => j <= k
  BY <1>1
<1>4. Innermost(s, m) = k
  BY <1>1, <1>2, <1>3, InnermostUnique
<1> QED
  BY <1>4 DEF k

\* A stack cut to its first n entries keeps its invariants.
LEMMA CutFacts ==
  ASSUME NEW s \in Seq(Entry), Outers(s), NEW n \in 0 .. Len(s)
  PROVE  /\ Prefix(s, n) \in Seq(Entry) /\ Len(Prefix(s, n)) = n
         /\ Outers(Prefix(s, n))
         /\ Innermost(Prefix(s, n), n) = Innermost(s, n)
<1> DEFINE r == Prefix(s, n)
<1>1. r \in Seq(Entry) /\ Len(r) = n /\ \A j \in 1 .. n : r[j] = s[j]
  BY PrefixFacts
<1>2. n \in Nat /\ n <= Len(s) /\ Len(s) \in Nat
  OBVIOUS
<1> HIDE DEF r
<1>3. Outers(r)
  BY <1>1, <1>2, OutersCut
<1>4. Innermost(r, n) = Innermost(s, n)
  BY <1>1, <1>2, InnermostSame
<1> QED
  BY <1>1, <1>3, <1>4 DEF r

LEMMA BuffersCut ==
  ASSUME NEW s \in Seq(Entry), NEW m, Buffers(s, m), NEW n \in 0 .. Len(s), m # "dispatch" \/ n < Len(s), NEW m2
  PROVE  Buffers(Prefix(s, n), m2)
<1>1. Prefix(s, n) \in Seq(Entry) /\ Len(Prefix(s, n)) = n /\ \A j \in 1 .. n : Prefix(s, n)[j] = s[j]
  BY PrefixFacts
<1>2. \A i \in 1 .. n : i \in DOMAIN s /\ (Active(s[i]) => s[i].initialized)
  BY DEF Buffers
<1> QED
  BY <1>1, <1>2 DEF Buffers

-----------------------------------------------------------------------------
(* The writer's view                                                        *)

LEMMA TryStack ==
  ASSUME NEW s \in Seq(Entry)
  PROVE  /\ label_stack_(s) \subseteq DOMAIN s
         /\ try_catch_stack_(s) \subseteq DOMAIN s
         /\ try_catch_stack_(s) \subseteq 0 .. Len(s)
         /\ \A i \in try_catch_stack_(s) : Active(s[i])
         /\ \A q \in label_stack_(s) : \A i \in DOMAIN s : i >= q /\ Active(s[i]) => i \in try_catch_stack_(s)
BY DEF label_stack_, try_catch_stack_, Active

\* The outermost try that a jump leaves has kept the target for its label.
LEMMA UnwindTargetRight ==
  ASSUME IInv, mode = "run", stack # <<>>, NEW q \in label_stack_(stack)
  PROVE  UnwindTarget(stack, q) = Innermost(stack, q - 1)
<1> DEFINE left == {i \in try_catch_stack_(stack) : i >= q}
<1>1. stack \in Seq(Entry) /\ Outers(stack) /\ unwind_target = Innermost(stack, Len(stack))
  BY DEF IInv, TypeInv
<1>2. q \in 1 .. Len(stack) /\ q - 1 \in Nat /\ Len(stack) \in Nat
  BY <1>1, TryStack
<1>3. \A i \in DOMAIN stack : i >= q /\ Active(stack[i]) => i \in left
  BY <1>1, TryStack
<1>4. left \subseteq 0 .. Len(stack) /\ \A i \in left : i \in DOMAIN stack /\ i >= q /\ Active(stack[i])
  BY <1>1, TryStack
<1>5. CASE left = {}
  <2>1. UnwindTarget(stack, q) = unwind_target
    BY <1>5 DEF UnwindTarget
  <2>2. \A j \in DOMAIN stack : q - 1 < j /\ j <= Len(stack) => ~Active(stack[j])
    BY <1>2, <1>3, <1>5
  <2>3. Innermost(stack, Len(stack)) = Innermost(stack, q - 1)
    BY <1>1, <1>2, <2>2, NoneBetween
  <2> QED
    BY <1>1, <2>1, <2>3
<1>6. CASE left # {}
  <2> DEFINE f == Front_(left)
  <2>1. UnwindTarget(stack, q) = stack[f].outer
    BY <1>6 DEF UnwindTarget
  <2>2. f \in left /\ \A j \in left : f <= j
    <3> HIDE DEF left
    <3> QED
      BY <1>2, <1>4, <1>6, FrontIsSmallest
  <2>3. f \in DOMAIN stack /\ f >= q /\ Active(stack[f])
    BY <1>4, <2>2
  <2>4. stack[f].outer = Innermost(stack, f - 1)
    BY <1>1, <2>3 DEF Outers
  <2>5. \A j \in DOMAIN stack : q - 1 < j /\ j <= f - 1 => ~Active(stack[j])
    <3> SUFFICES ASSUME NEW j \in DOMAIN stack, q - 1 < j, j <= f - 1, Active(stack[j]) PROVE FALSE
      OBVIOUS
    <3>1. j \in Nat /\ f \in Nat
      BY <1>1, <2>3
    <3>2. j >= q
      BY <1>2, <3>1
    <3>3. f <= j
      BY <1>3, <2>2, <3>2
    <3> QED
      BY <3>1, <3>3
  <2>6. f - 1 \in Nat /\ q - 1 <= f - 1
    BY <1>1, <1>2, <2>3
  <2> HIDE DEF f
  <2>7. Innermost(stack, f - 1) = Innermost(stack, q - 1)
    BY <1>1, <1>2, <2>5, <2>6, NoneBetween
  <2> QED
    BY <2>1, <2>4, <2>7
<1> QED
  BY <1>5, <1>6

-----------------------------------------------------------------------------
(* The steps                                                                *)

\* A step that goes on after the first n entries.
LEMMA CutRun ==
  ASSUME IInv, mode = "run", stack # <<>>, NEW n \in 0 .. Len(stack),
         stack' = Prefix(stack, n), mode' = "run", jmp_buf' = jmp_buf, unwind_target' = Innermost(stack, n),
         active' = active
  PROVE  IInv'
<1>1. stack \in Seq(Entry) /\ Outers(stack) /\ Buffers(stack, mode) /\ n \in Nat
  BY DEF IInv, TypeInv
<1>2. /\ stack' \in Seq(Entry) /\ Len(stack') = n /\ Outers(stack')
      /\ Innermost(stack', n) = Innermost(stack, n)
  BY <1>1, CutFacts
<1>3. Buffers(stack', mode')
  BY <1>1, BuffersCut
<1>4. Innermost(stack, n) \in Nat
  BY <1>1, InnermostFacts
<1>5. TypeInv'
  BY <1>2, <1>4 DEF IInv, TypeInv
<1>6. unwind_target' = Innermost(stack', Len(stack')) /\ (stack' # <<>> => jmp_buf')
  BY <1>2 DEF IInv
<1> QED
  BY <1>2, <1>3, <1>5, <1>6 DEF IInv

\* A step that enters something.
LEMMA PushRun ==
  ASSUME IInv, mode = "run", jmp_buf, NEW e \in Entry,
         e.outer = unwind_target \/ ~Active(e), Active(e) => e.initialized,
         stack' = Append(stack, e), mode' = "run", jmp_buf' = jmp_buf,
         unwind_target' = IF Active(e) THEN Len(stack) + 1 ELSE unwind_target,
         active' = active
  PROVE  IInv'
<1>1. stack \in Seq(Entry) /\ Outers(stack) /\ Buffers(stack, mode) /\ Len(stack) \in Nat
  BY DEF IInv, TypeInv
<1>2. unwind_target = Innermost(stack, Len(stack))
  BY DEF IInv
<1>3. stack' \in Seq(Entry) /\ Len(stack') = Len(stack) + 1 /\ stack' # <<>>
  BY <1>1
<1>4. Outers(stack')
  BY <1>1, <1>2, OutersAppend
<1>5. unwind_target' = Innermost(stack', Len(stack'))
  BY <1>1, <1>2, <1>3, InnermostAppend
<1>6. Buffers(stack', mode')
  <2> SUFFICES ASSUME NEW i \in DOMAIN stack', Active(stack'[i]) PROVE stack'[i].initialized
    BY DEF Buffers
  <2>1. i \in 1 .. Len(stack) + 1
    BY <1>1, <1>3
  <2>2. CASE i = Len(stack) + 1
    <3>1. stack'[i] = e
      BY <1>1, <2>2
    <3> QED
      BY <3>1 DEF Active
  <2>3. CASE i \in 1 .. Len(stack)
    <3>1. stack'[i] = stack[i] /\ i \in DOMAIN stack
      BY <1>1, <2>3
    <3> QED
      BY <1>1, <3>1 DEF Buffers
  <2> QED
    BY <1>1, <2>1, <2>2, <2>3
<1>7. TypeInv' /\ jmp_buf'
  BY <1>1, <1>3 DEF IInv, TypeInv
<1> QED
  BY <1>3, <1>4, <1>5, <1>6, <1>7 DEF IInv


\* The flag of a buffer is cleared when it is jumped to.
LEMMA ClearFlag ==
  ASSUME NEW d \in Entry, NEW e, e = [d EXCEPT !.initialized = FALSE]
  PROVE  e \in Entry /\ e.kind = d.kind /\ e.phase = d.phase /\ e.outer = d.outer
BY DEF Entry

LEMMA ReplaceEntry ==
  ASSUME NEW s \in Seq(Entry), NEW p \in 1 .. Len(s), NEW e \in Entry, NEW x, x = [s EXCEPT ![p] = e]
  PROVE  /\ x \in Seq(Entry) /\ Len(x) = Len(s) /\ x[p] = e
         /\ \A j \in 1 .. Len(s) : (j # p => x[j] = s[j])
OBVIOUS

\* An exception arrives at the catch blocks of the try p.
LEMMA DispatchAt ==
  ASSUME IInv, stack # <<>>, NEW p \in DOMAIN stack, Active(stack[p]),
         stack' \in Seq(Entry), Len(stack') = p, \A j \in 1 .. p : (j # p => stack'[j] = stack[j]),
         stack'[p].kind = stack[p].kind, stack'[p].phase = stack[p].phase, stack'[p].outer = stack[p].outer,
         mode' = "dispatch", jmp_buf' = jmp_buf, unwind_target' \in Nat, active' \in Tag \cup {NoTag}
  PROVE  IInv'
<1>1. stack \in Seq(Entry) /\ Outers(stack) /\ Buffers(stack, mode) /\ p \in 1 .. Len(stack) /\ Len(stack) \in Nat
  BY DEF IInv, TypeInv
<1>2. PICK x : x = stack'
  OBVIOUS
<1>3. x \in Seq(Entry) /\ Len(x) = p
  BY <1>2
<1>4. \A j \in 1 .. p : (j # p => x[j] = stack[j])
  BY <1>2
<1>5. \A j \in 1 .. p : (Active(x[j]) <=> Active(stack[j])) /\ x[j].outer = stack[j].outer
  <2> SUFFICES ASSUME NEW j \in 1 .. p PROVE (Active(x[j]) <=> Active(stack[j])) /\ x[j].outer = stack[j].outer
    OBVIOUS
  <2>1. CASE j # p
    BY <1>4, <2>1
  <2>2. CASE j = p
    BY <1>2, <2>2 DEF Active
  <2> QED
    BY <2>1, <2>2
<1>6. Outers(x)
  <2>1. PICK s : s = stack
    OBVIOUS
  <2>2. s \in Seq(Entry) /\ Outers(s) /\ x \in Seq(Entry) /\ Len(x) <= Len(s)
    BY <1>1, <1>3, <2>1
  <2>3. \A j \in 1 .. Len(x) : (Active(x[j]) <=> Active(s[j])) /\ x[j].outer = s[j].outer
    BY <1>3, <1>5, <2>1
  <2>4. /\ \A j \in 1 .. Len(x) : Active(x[j]) => Active(s[j]) /\ x[j].outer = s[j].outer
        /\ \A j \in 1 .. Len(x) : j < Len(x) => (Active(x[j]) <=> Active(s[j]))
    BY <2>3, Zenon
  <2> QED
    BY <2>2, <2>4, OutersCut, Zenon
<1>7. Buffers(x, "dispatch")
  <2> SUFFICES ASSUME NEW i \in DOMAIN x, Active(x[i]), i # Len(x) PROVE x[i].initialized
    BY DEF Buffers
  <2>1. i \in 1 .. p /\ i # p /\ i \in DOMAIN stack /\ i # Len(stack)
    BY <1>1, <1>3
  <2>2. x[i] = stack[i] /\ Active(stack[i])
    BY <1>4, <1>5, <2>1
  <2> QED
    BY <1>1, <2>1, <2>2 DEF Buffers
<1>8. Active(x[Len(x)]) /\ x # <<>>
  BY <1>1, <1>3, <1>5
<1>9. jmp_buf /\ jmp_buf \in BOOLEAN
  BY DEF IInv, TypeInv
<1>10. TypeInv'
  BY <1>2, <1>3, <1>9 DEF TypeInv
<1> QED
  BY <1>2, <1>6, <1>7, <1>8, <1>9, <1>10 DEF IInv

\* wasm_rt_impl_try returns again, and the embedder runs.
LEMMA ToHostStep ==
  ASSUME IInv, stack # <<>> \/ jmp_buf, ToHost, unwind_target' \in Nat, active' \in Tag \cup {NoTag}
  PROVE  IInv'
<1>1. jmp_buf
  BY DEF IInv
<1>2. stack' = <<>> /\ mode' = "run" /\ jmp_buf' = FALSE
  BY <1>1 DEF ToHost
<1>3. <<>> \in Seq(Entry) /\ Outers(<<>>) /\ Buffers(<<>>, "run")
  BY DEF Outers, Buffers
<1>4. stack' \in Seq(Entry) /\ Outers(stack') /\ Buffers(stack', mode')
  BY <1>2, <1>3
<1>5. TypeInv'
  BY <1>2, <1>4 DEF TypeInv
<1> QED
  BY <1>2, <1>4, <1>5 DEF IInv

\* A long jump to a target that is the innermost try below n.
LEMMA LongJump ==
  ASSUME IInv, stack # <<>>, NEW n \in 0 .. Len(stack), mode = "dispatch" => n < Len(stack),
         wasm_rt_throw(Innermost(stack, n)), unwind_target' \in Nat,
         active' \in Tag \cup {NoTag}
  PROVE  IInv'
<1> DEFINE t == Innermost(stack, n)
<1>1. stack \in Seq(Entry) /\ Buffers(stack, mode) /\ n \in Nat /\ Len(stack) \in Nat
  BY DEF IInv, TypeInv
<1>2. t \in 0 .. Len(stack) /\ t <= n /\ (t # 0 => t \in DOMAIN stack /\ Active(stack[t]))
  BY <1>1, InnermostFacts
<1> HIDE DEF t
<1>3. CASE t = 0
  <2>1. ToHost
    BY <1>3 DEF wasm_rt_throw, Host, t
  <2> QED
    BY <2>1, ToHostStep
<1>4. CASE t # 0
  <2>1. stack[t].kind = "try" /\ stack[t].initialized
    BY <1>1, <1>2, <1>4 DEF Buffers, Active
  <2>2. PICK r : r = Prefix(stack, t)
    OBVIOUS
  <2>3. r \in Seq(Entry) /\ Len(r) = t /\ t \in 1 .. Len(r) /\ \A j \in 1 .. t : r[j] = stack[j]
    BY <1>1, <1>2, <1>4, <2>2, PrefixFacts
  <2>4. stack' = [r EXCEPT ![t].initialized = FALSE] /\ mode' = "dispatch" /\ jmp_buf' = jmp_buf
    BY <1>2, <1>4, <2>1, <2>2 DEF wasm_rt_throw, Host, t
  <2>5. PICK d : d = r[t]
    OBVIOUS
  <2>6. PICK e : e = [d EXCEPT !.initialized = FALSE]
    OBVIOUS
  <2>7. stack' = [r EXCEPT ![t] = e] /\ mode' = "dispatch" /\ jmp_buf' = jmp_buf
    BY <2>4, <2>5, <2>6, Zenon
  <2>8. d \in Entry
    BY <2>3, <2>5
  <2>9. e \in Entry /\ e.kind = d.kind /\ e.phase = d.phase /\ e.outer = d.outer
    BY <2>6, <2>8, ClearFlag
  <2>10. /\ stack' \in Seq(Entry) /\ Len(stack') = Len(r) /\ stack'[t] = e
         /\ \A j \in 1 .. Len(r) : (j # t => stack'[j] = r[j])
    BY <2>3, <2>7, <2>9, ReplaceEntry
  <2>11. /\ Len(stack') = t /\ \A j \in 1 .. t : (j # t => stack'[j] = stack[j])
         /\ stack'[t].kind = stack[t].kind /\ stack'[t].phase = stack[t].phase /\ stack'[t].outer = stack[t].outer
    BY <2>3, <2>5, <2>9, <2>10
  <2> QED
    BY <1>2, <1>4, <2>7, <2>10, <2>11, DispatchAt
<1> QED
  BY <1>3, <1>4

\* goto to the innermost of some trys that are running.
LEMMA GotoCatchStep ==
  ASSUME IInv, stack # <<>>, NEW ts, ts \subseteq try_catch_stack_(stack), ts # {}, GotoCatch(Back_(ts)),
         unwind_target' \in Nat, active' \in Tag \cup {NoTag}
  PROVE  IInv'
<1>1. stack \in Seq(Entry) /\ Len(stack) \in Nat
  BY DEF IInv, TypeInv
<1>2. ts \subseteq 0 .. Len(stack) /\ \A i \in ts : i \in DOMAIN stack /\ Active(stack[i])
  BY <1>1, TryStack
<1>3. PICK p : p = Back_(ts)
  OBVIOUS
<1>4. p \in DOMAIN stack /\ Active(stack[p])
  BY <1>1, <1>2, <1>3, BackIsLargest
<1>5. stack' = Prefix(stack, p) /\ mode' = "dispatch" /\ jmp_buf' = jmp_buf
  BY <1>3 DEF GotoCatch
<1>6. p \in 1 .. Len(stack) /\ p \in 0 .. Len(stack) /\ p \in 1 .. p
  BY <1>1, <1>4
<1>7. stack' \in Seq(Entry) /\ Len(stack') = p /\ \A j \in 1 .. p : stack'[j] = stack[j]
  BY <1>1, <1>5, <1>6, PrefixFacts
<1>8. stack'[p] = stack[p]
  BY <1>6, <1>7
<1> QED
  BY <1>4, <1>5, <1>7, <1>8, DispatchAt

\* WriteThrow, by goto or by a long jump to the innermost try below n.
LEMMA WriteThrowStep ==
  ASSUME IInv, stack # <<>>, NEW n \in 0 .. Len(stack), mode = "dispatch" => n < Len(stack),
         NEW ts, ts \subseteq try_catch_stack_(stack), WriteThrow(ts, Innermost(stack, n)),
         active' \in Tag \cup {NoTag}
  PROVE  IInv'
<1>1. stack \in Seq(Entry) /\ n \in Nat
  BY DEF IInv, TypeInv
<1>2. Innermost(stack, n) \in Nat
  BY <1>1, InnermostFacts
<1>3. unwind_target' \in Nat
  BY <1>2 DEF WriteThrow
<1>4. CASE ts = {}
  <2>1. wasm_rt_throw(Innermost(stack, n))
    BY <1>4 DEF WriteThrow
  <2> QED
    BY <1>3, <2>1, LongJump
<1>5. CASE ts # {}
  <2>1. GotoCatch(Back_(ts))
    BY <1>5 DEF WriteThrow
  <2> QED
    BY <1>3, <1>5, <2>1, GotoCatchStep
<1> QED
  BY <1>4, <1>5

LEMMA TrapStep ==
  ASSUME IInv, stack # <<>> \/ jmp_buf, wasm_rt_trap
  PROVE  IInv'
<1>1. ToHost /\ unwind_target' = unwind_target /\ active' = active
  BY DEF wasm_rt_trap
<1>2. unwind_target' \in Nat /\ active' \in Tag \cup {NoTag}
  BY <1>1 DEF IInv, TypeInv
<1> QED
  BY <1>1, <1>2, ToHostStep

LEMMA PlainEntry ==
  ASSUME NEW k \in Kind
  PROVE  Plain(k) \in Entry /\ (k # "try" => ~Active(Plain(k)))
BY DEF Kind, Entry, Plain, Active, Host

LEMMA TryStep ==
  ASSUME IInv, wasm_rt_impl_try
  PROVE  IInv'
<1>1. /\ stack = <<>> /\ stack' = <<>> /\ mode = "run" /\ mode' = "run"
      /\ unwind_target' = 0 /\ jmp_buf' = TRUE /\ active' = active
  BY DEF wasm_rt_impl_try, Host
<1>2. <<>> \in Seq(Entry) /\ Outers(<<>>) /\ Buffers(<<>>, "run") /\ Len(<<>>) = 0
  BY DEF Outers, Buffers
<1>3. Innermost(<<>>, 0) = 0
  <2>1. Innermost(<<>>, 0) \in 0 .. Len(<<>>)
    BY <1>2, InnermostFacts
  <2> QED
    BY <1>2, <2>1
<1>4. stack' \in Seq(Entry) /\ Outers(stack') /\ Buffers(stack', mode')
  BY <1>1, <1>2
<1>5. unwind_target' = Innermost(stack', Len(stack'))
  BY <1>1, <1>2, <1>3
<1>6. TypeInv'
  BY <1>1, <1>4 DEF IInv, TypeInv
<1> QED
  BY <1>1, <1>4, <1>5, <1>6 DEF IInv

LEMMA CallStep ==
  ASSUME IInv, Call
  PROVE  IInv'
<1>1. mode = "run" /\ jmp_buf
  BY DEF Call, IInv
<1>2. CASE depth + 1 > MaxDepth
  BY <1>1, <1>2, TrapStep DEF Call
<1>3. CASE ~(depth + 1 > MaxDepth)
  <2>1. /\ stack' = Append(stack, Plain("func")) /\ mode' = mode /\ unwind_target' = unwind_target
        /\ jmp_buf' = jmp_buf /\ active' = active
    BY <1>3 DEF Call
  <2>2. Plain("func") \in Entry /\ ~Active(Plain("func"))
    BY PlainEntry DEF Kind
  <2> QED
    BY <1>1, <2>1, <2>2, PushRun
<1> QED
  BY <1>2, <1>3

LEMMA BlockStep ==
  ASSUME IInv, Block
  PROVE  IInv'
<1>1. mode = "run" /\ jmp_buf
  BY DEF Block, InCode, IInv
<1>2. PICK k \in {"block", "loop"} : stack' = Append(stack, Plain(k))
  BY DEF Block
<1>3. mode' = mode /\ unwind_target' = unwind_target /\ jmp_buf' = jmp_buf /\ active' = active
  BY DEF Block
<1>4. Plain(k) \in Entry /\ ~Active(Plain(k))
  BY PlainEntry DEF Kind
<1> QED
  BY <1>1, <1>2, <1>3, <1>4, PushRun

LEMMA BeginTryStep ==
  ASSUME IInv, NEW C \in SUBSET Tag, NEW q \in Nat, BeginTry(C, q)
  PROVE  IInv'
<1>1. mode = "run" /\ jmp_buf /\ unwind_target \in Nat
  BY DEF BeginTry, InCode, IInv, TypeInv
<1>2. PICK e : e = [Plain("try") EXCEPT !.catches = C, !.delegate = q, !.outer = unwind_target, !.initialized = TRUE]
  OBVIOUS
<1>3. e \in Entry /\ Active(e) /\ e.outer = unwind_target /\ e.initialized
  BY <1>1, <1>2 DEF Entry, Kind, Plain, Active, Host
<1>4. /\ stack' = Append(stack, e) /\ unwind_target' = Len(stack) + 1
      /\ mode' = mode /\ jmp_buf' = jmp_buf /\ active' = active
  BY <1>2, Zenon DEF BeginTry
<1> QED
  BY <1>1, <1>3, <1>4, PushRun

LEMMA TryCatchStep ==
  ASSUME IInv, WriteTryCatch \/ WriteTryDelegate
  PROVE  IInv'
<1>1. CASE WriteTryCatch
  <2>1. PICK C \in SUBSET (Tag \ BigTag) : BeginTry(C, 0)
    BY <1>1 DEF WriteTryCatch
  <2>2. C \in SUBSET Tag /\ 0 \in Nat
    OBVIOUS
  <2> QED
    BY <2>1, <2>2, BeginTryStep
<1>2. CASE WriteTryDelegate
  <2>1. PICK q \in label_stack_(stack) : BeginTry({}, q)
    BY <1>2 DEF WriteTryDelegate
  <2>2. stack \in Seq(Entry)
    BY DEF IInv, TypeInv
  <2>3. q \in Nat /\ {} \in SUBSET Tag
    BY <2>2, TryStack
  <2> QED
    BY <2>1, <2>3, BeginTryStep
<1> QED
  BY <1>1, <1>2

\* A function's own entry, or a loop's, is no running try.
LEMMA KeptEntry ==
  ASSUME NEW s \in Seq(Entry), NEW q \in DOMAIN s, ~Active(s[q])
  PROVE  Innermost(s, q) = Innermost(s, q - 1)
<1>1. q \in Nat /\ q - 1 \in Nat /\ q - 1 <= q
  OBVIOUS
<1>2. \A j \in DOMAIN s : q - 1 < j /\ j <= q => ~Active(s[j])
  <2> SUFFICES ASSUME NEW j \in DOMAIN s, q - 1 < j, j <= q PROVE j = q
    OBVIOUS
  <2> QED
    BY <1>1
<1> QED
  BY <1>1, <1>2, NoneBetween

LEMMA ReturnStep ==
  ASSUME IInv, Return \/ ReturnCall
  PROVE  IInv'
<1>1. mode = "run" /\ stack # <<>> /\ stack \in Seq(Entry) /\ Len(stack) \in Nat
  BY DEF Return, ReturnCall, InCode, IInv, TypeInv
<1>2. mode' = mode /\ jmp_buf' = jmp_buf /\ active' = active
  BY DEF Return, ReturnCall
<1>3. PICK f \in Frames(stack) : /\ FrameOf(stack, f) /\ unwind_target' = UnwindTarget(stack, f)
                                 /\ stack' = Prefix(stack, f - 1) \/ stack' = Prefix(stack, f)
  BY DEF Return, ReturnCall
<1>4. f \in label_stack_(stack) /\ f \in DOMAIN stack /\ ~Active(stack[f])
  BY <1>3 DEF Frames, FrameOf, label_stack_, Active
<1>5. unwind_target' = Innermost(stack, f - 1)
  BY <1>1, <1>3, <1>4, UnwindTargetRight
<1>6. Innermost(stack, f) = Innermost(stack, f - 1)
  BY <1>1, <1>4, KeptEntry
<1>7. f \in 0 .. Len(stack) /\ f - 1 \in 0 .. Len(stack)
  BY <1>1, <1>4
<1>8. CASE stack' = Prefix(stack, f - 1)
  BY <1>1, <1>2, <1>5, <1>7, <1>8, CutRun
<1>9. CASE stack' = Prefix(stack, f)
  BY <1>1, <1>2, <1>5, <1>6, <1>7, <1>9, CutRun
<1> QED
  BY <1>3, <1>8, <1>9

LEMMA EndStep ==
  ASSUME IInv, End
  PROVE  IInv'
<1>1. mode = "run" /\ stack # <<>> /\ stack \in Seq(Entry) /\ Len(stack) \in Nat /\ Outers(stack) /\ jmp_buf
  BY DEF End, InCode, IInv, TypeInv
<1>2. PICK n : n = Len(stack)
  OBVIOUS
<1>3. n \in DOMAIN stack /\ n - 1 \in 0 .. Len(stack)
  BY <1>1, <1>2
<1>4. /\ unwind_target' = IF Active(stack[n]) THEN stack[n].outer ELSE unwind_target
      /\ stack' = Prefix(stack, n - 1) /\ mode' = mode /\ jmp_buf' = jmp_buf /\ active' = active
  BY <1>2 DEF End
<1>5. unwind_target' = Innermost(stack, n - 1)
  <2>1. CASE Active(stack[n])
    BY <1>1, <1>3, <1>4, <2>1 DEF Outers
  <2>2. CASE ~Active(stack[n])
    <3>1. unwind_target = Innermost(stack, n)
      BY <1>1, <1>2 DEF IInv
    <3>2. Innermost(stack, n) = Innermost(stack, n - 1)
      BY <1>1, <1>3, <2>2, KeptEntry
    <3> QED
      BY <1>4, <2>2, <3>1, <3>2
  <2> QED
    BY <2>1, <2>2
<1> QED
  BY <1>1, <1>3, <1>4, <1>5, CutRun

LEMMA GotoStep ==
  ASSUME IInv, GotoLabel
  PROVE  IInv'
<1>1. mode = "run" /\ stack # <<>> /\ stack \in Seq(Entry) /\ Len(stack) \in Nat
  BY DEF GotoLabel, InCode, IInv, TypeInv
<1>2. mode' = mode /\ jmp_buf' = jmp_buf /\ active' = active
  BY DEF GotoLabel
<1>3. PICK q \in label_stack_(stack) :
        /\ unwind_target' = UnwindTarget(stack, q)
        /\ stack' = Prefix(stack, IF stack[q].kind = "loop" THEN q ELSE q - 1)
  BY DEF GotoLabel
<1>4. q \in DOMAIN stack /\ q \in 0 .. Len(stack) /\ q - 1 \in 0 .. Len(stack)
  BY <1>1, TryStack
<1>5. unwind_target' = Innermost(stack, q - 1)
  BY <1>1, <1>3, UnwindTargetRight
<1>6. CASE stack[q].kind = "loop"
  <2>1. stack' = Prefix(stack, q) /\ ~Active(stack[q])
    BY <1>3, <1>6 DEF Active
  <2>2. unwind_target' = Innermost(stack, q)
    BY <1>1, <1>4, <1>5, <2>1, KeptEntry
  <2> QED
    BY <1>1, <1>2, <1>4, <2>1, <2>2, CutRun
<1>7. CASE stack[q].kind # "loop"
  <2>1. stack' = Prefix(stack, q - 1)
    BY <1>3, <1>7
  <2> QED
    BY <1>1, <1>2, <1>4, <1>5, <2>1, CutRun
<1> QED
  BY <1>6, <1>7

LEMMA LoadStep ==
  ASSUME IInv, InCode, NEW t \in Tag \cup {NoTag}, Load(t)
  PROVE  IInv'
<1>1. mode = "run" /\ stack # <<>> /\ stack \in Seq(Entry) /\ Len(stack) \in 0 .. Len(stack) /\ jmp_buf
  BY DEF InCode, IInv, TypeInv
<1>2. CASE t \in BigTag
  BY <1>1, <1>2, TrapStep DEF Load
<1>3. CASE t \notin BigTag
  <2>1. active' = t /\ WriteThrow(try_catch_stack_(stack), unwind_target)
    BY <1>3 DEF Load
  <2>2. unwind_target = Innermost(stack, Len(stack))
    BY <1>1 DEF IInv
  <2>3. WriteThrow(try_catch_stack_(stack), Innermost(stack, Len(stack)))
    BY <2>1, <2>2
  <2> QED
    BY <1>1, <2>1, <2>3, WriteThrowStep
<1> QED
  BY <1>2, <1>3

LEMMA ThrowStep ==
  ASSUME IInv, Throw \/ Rethrow \/ Trap
  PROVE  IInv'
<1>1. CASE Throw
  <2>1. PICK t \in Tag : Load(t)
    BY <1>1 DEF Throw
  <2> QED
    BY <1>1, <2>1, LoadStep DEF Throw
<1>2. CASE Rethrow
  <2>1. PICK p \in label_stack_(stack) : Load(stack[p].saved)
    BY <1>2 DEF Rethrow
  <2>2. stack \in Seq(Entry)
    BY DEF IInv, TypeInv
  <2>3. stack[p] \in Entry
    BY <2>2, TryStack
  <2>4. stack[p].saved \in Tag \cup {NoTag}
    BY <2>3 DEF Entry
  <2> QED
    BY <1>2, <2>1, <2>4, LoadStep DEF Rethrow
<1>3. CASE Trap
  BY <1>3, TrapStep DEF Trap, InCode
<1> QED
  BY <1>1, <1>2, <1>3

\* What is known at the head of the catch blocks.
LEMMA AtHead ==
  ASSUME IInv, mode = "dispatch"
  PROVE  /\ stack # <<>> /\ stack \in Seq(Entry) /\ Outers(stack) /\ Buffers(stack, mode) /\ jmp_buf
         /\ Top \in 1 .. Len(stack) /\ Top = Len(stack) /\ Top \in DOMAIN stack /\ Top - 1 \in 0 .. Len(stack)
         /\ stack[Top] \in Entry /\ Active(stack[Top]) /\ Top \in try_catch_stack_(stack)
         /\ stack[Top].outer = Innermost(stack, Top - 1)
<1>1. stack # <<>> /\ stack \in Seq(Entry) /\ Outers(stack) /\ Buffers(stack, mode) /\ jmp_buf /\ Active(stack[Len(stack)])
  BY DEF IInv, TypeInv
<1>2. Top \in 1 .. Len(stack) /\ Top = Len(stack) /\ Top \in DOMAIN stack /\ Top - 1 \in 0 .. Len(stack)
  BY <1>1 DEF Top
<1>3. stack[Top] \in Entry /\ Active(stack[Top]) /\ stack[Top].outer = Innermost(stack, Top - 1)
  BY <1>1, <1>2 DEF Outers
<1>4. Top \in try_catch_stack_(stack)
  BY <1>1, <1>2, <1>3 DEF try_catch_stack_, label_stack_
<1> QED
  BY <1>1, <1>2, <1>3, <1>4

\* The entry of the try, once its catch block begins.
LEMMA CatchEntry ==
  ASSUME NEW d \in Entry, NEW c, c = [d EXCEPT !.phase = "catch"],
         NEW a \in Tag \cup {NoTag}, NEW e, e = [c EXCEPT !.saved = a]
  PROVE  c \in Entry /\ e \in Entry /\ ~Active(e)
<1>1. c \in Entry /\ c.phase = "catch"
  BY DEF Entry
<1>2. e \in Entry /\ e.phase = "catch"
  BY <1>1 DEF Entry
<1> QED
  BY <1>1, <1>2 DEF Active

LEMMA CatchStep ==
  ASSUME IInv, Catch
  PROVE  IInv'
<1> USE DEF Catch
<1>1. /\ mode = "dispatch" /\ mode' = "run" /\ unwind_target' = stack[Top].outer
      /\ jmp_buf' = jmp_buf /\ active' = active
  BY Zenon
<1>2. stack' = [stack EXCEPT ![Top].phase = "catch", ![Top].saved = active]
  BY Zenon
<1> HIDE DEF Catch
<1>3. /\ stack # <<>> /\ stack \in Seq(Entry) /\ Outers(stack) /\ Buffers(stack, mode) /\ jmp_buf
      /\ Top \in 1 .. Len(stack) /\ Top = Len(stack) /\ Top \in DOMAIN stack /\ Top - 1 \in 0 .. Len(stack)
      /\ stack[Top] \in Entry /\ stack[Top].outer = Innermost(stack, Top - 1)
  BY <1>1, AtHead
<1>4. PICK p : p = Top
  OBVIOUS
<1>5. PICK d : d = stack[p]
  OBVIOUS
<1>6. PICK c : c = [d EXCEPT !.phase = "catch"]
  OBVIOUS
<1>7. PICK s : s = [stack EXCEPT ![p] = c]
  OBVIOUS
<1>8. PICK e : e = [c EXCEPT !.saved = active]
  OBVIOUS
<1>9. d \in Entry /\ active \in Tag \cup {NoTag}
  BY <1>3, <1>4, <1>5 DEF IInv, TypeInv
<1>10. c \in Entry /\ e \in Entry /\ ~Active(e)
  BY <1>6, <1>8, <1>9, CatchEntry
<1>11. /\ s \in Seq(Entry) /\ Len(s) = Len(stack) /\ s[p] = c
       /\ \A j \in 1 .. Len(stack) : (j # p => s[j] = stack[j])
  BY <1>3, <1>4, <1>7, <1>10, ReplaceEntry
<1>12. stack' = [s EXCEPT ![p].saved = active]
  BY <1>2, <1>4, <1>5, <1>6, <1>7, Zenon
<1>13. stack' = [s EXCEPT ![p] = e]
  BY <1>8, <1>11, <1>12, Zenon
<1>14. PICK x : x = stack'
  OBVIOUS
<1>15. p \in 1 .. Len(s)
  BY <1>3, <1>4, <1>11
<1>16. /\ x \in Seq(Entry) /\ Len(x) = Len(s) /\ x[p] = e
       /\ \A j \in 1 .. Len(s) : (j # p => x[j] = s[j])
  BY <1>10, <1>11, <1>13, <1>14, <1>15, ReplaceEntry
<1>17. /\ Len(x) = p /\ p = Len(stack) /\ p \in Nat /\ p - 1 \in Nat /\ p \in DOMAIN x /\ ~Active(x[p])
       /\ \A j \in 1 .. p - 1 : x[j] = stack[j]
  <2>1. PICK l : l = Len(stack)
    OBVIOUS
  <2>2. p = l /\ l \in Nat /\ p \in 1 .. l /\ Len(x) = p
    BY <1>3, <1>4, <1>11, <1>16, <2>1
  <2>3. \A j \in 1 .. p : (j # p => x[j] = stack[j])
    BY <1>11, <1>16, <2>1, <2>2, Zenon
  <2>4. \A j \in 1 .. p - 1 : x[j] = stack[j]
    BY <2>2, <2>3
  <2>5. p \in DOMAIN x
    BY <1>16, <2>2
  <2>6. ~Active(x[p])
    BY <1>10, <1>16, Zenon
  <2> QED
    BY <2>1, <2>2, <2>4, <2>5, <2>6
<1>18. Outers(x)
  <2>1. \A j \in 1 .. Len(x) : j = p \/ j \in 1 .. p - 1
    BY <1>17
  <2>2. \A j \in 1 .. Len(x) : Active(x[j]) => Active(stack[j]) /\ x[j].outer = stack[j].outer
    BY <1>17, <2>1
  <2>3. \A j \in 1 .. Len(x) : j < Len(x) => (Active(x[j]) <=> Active(stack[j]))
    BY <1>17, <2>1
  <2>4. Len(x) <= Len(stack)
    BY <1>17
  <2> QED
    BY <1>3, <1>16, <2>2, <2>3, <2>4, OutersCut
<1>19. Buffers(x, "run")
  <2> SUFFICES ASSUME NEW i \in DOMAIN x, Active(x[i]) PROVE x[i].initialized
    BY DEF Buffers
  <2>1. i \in 1 .. p - 1 /\ i \in DOMAIN stack /\ i # Len(stack)
    BY <1>3, <1>16, <1>17
  <2> QED
    BY <1>3, <1>17, <2>1 DEF Buffers
<1>20. unwind_target' = Innermost(x, Len(x))
  <2>1. Innermost(x, p) = Innermost(x, p - 1)
    BY <1>16, <1>17, KeptEntry
  <2>2. Innermost(x, p - 1) = Innermost(stack, p - 1)
    <3>1. PICK k : k = p - 1
      OBVIOUS
    <3>2. k \in Nat /\ k <= Len(x) /\ k <= Len(stack) /\ \A j \in 1 .. k : x[j] = stack[j]
      BY <1>17, <3>1
    <3> QED
      BY <1>3, <1>16, <3>1, <3>2, InnermostSame
  <2> QED
    BY <1>1, <1>3, <1>4, <1>17, <2>1, <2>2
<1>21. unwind_target' \in Nat
  BY <1>1, <1>3 DEF Entry
<1>22. TypeInv'
  BY <1>1, <1>3, <1>14, <1>16, <1>21 DEF IInv, TypeInv
<1> QED
  BY <1>1, <1>3, <1>14, <1>18, <1>19, <1>20, <1>22 DEF IInv

LEMMA NotCaughtStep ==
  ASSUME IInv, NotCaught
  PROVE  IInv'
<1>1. /\ mode = "dispatch" /\ WriteThrow(try_catch_stack_(stack) \ {Top}, stack[Top].outer) /\ active' = active
  BY DEF NotCaught
<1>2. stack # <<>> /\ Top - 1 \in 0 .. Len(stack) /\ Top - 1 < Len(stack) /\ stack[Top].outer = Innermost(stack, Top - 1)
  BY <1>1, AtHead
<1>3. active' \in Tag \cup {NoTag}
  BY <1>1 DEF IInv, TypeInv
<1>4. try_catch_stack_(stack) \ {Top} \subseteq try_catch_stack_(stack)
  OBVIOUS
<1> QED
  BY <1>1, <1>2, <1>3, <1>4, WriteThrowStep

LEMMA DelegateStep ==
  ASSUME IInv, DelegateToTry \/ DelegateToCaller
  PROVE  IInv'
<1>1. mode = "dispatch" /\ active' = active
  BY DEF DelegateToTry, DelegateToCaller
<1>2. stack # <<>> /\ stack \in Seq(Entry) /\ Outers(stack) /\ Top \in try_catch_stack_(stack) /\ Len(stack) \in Nat
  BY <1>1, AtHead
<1>3. active' \in Tag \cup {NoTag} /\ unwind_target \in Nat
  BY <1>1 DEF IInv, TypeInv
<1>4. CASE DelegateToTry
  <2>1. PICK ts : ts = {i \in try_catch_stack_(stack) : i <= stack[Top].delegate}
    OBVIOUS
  <2>2. ts # {} /\ GotoCatch(Back_(ts)) /\ unwind_target' = unwind_target
    BY <1>4, <2>1 DEF DelegateToTry
  <2>3. ts \subseteq try_catch_stack_(stack)
    BY <2>1
  <2> QED
    BY <1>2, <1>3, <2>2, <2>3, GotoCatchStep
<1>5. CASE DelegateToCaller
  <2>1. PICK f : f = Front_(try_catch_stack_(stack))
    OBVIOUS
  <2>2. f \in DOMAIN stack /\ Active(stack[f])
    BY <1>2, <2>1, TryStack, FrontIsSmallest
  <2>3. stack[f].outer = Innermost(stack, f - 1)
    BY <1>2, <2>2 DEF Outers
  <2>4. f - 1 \in 0 .. Len(stack) /\ f - 1 < Len(stack) /\ stack[f] \in Entry
    BY <1>2, <2>2
  <2>5. unwind_target' = stack[f].outer /\ wasm_rt_throw(stack[f].outer)
    BY <1>5, <2>1 DEF DelegateToCaller
  <2>6. stack[f].outer \in Nat
    BY <2>4 DEF Entry
  <2> QED
    BY <1>2, <1>3, <2>3, <2>4, <2>5, <2>6, LongJump
<1> QED
  BY <1>4, <1>5

-----------------------------------------------------------------------------
(* The theorems                                                             *)

LEMMA InitIInv == Init => IInv
<1> SUFFICES ASSUME Init PROVE IInv
  OBVIOUS
<1>1. stack = <<>> /\ mode = "run" /\ unwind_target = MaxStack + 1 /\ jmp_buf = FALSE /\ active = NoTag
  BY DEF Init, Null
<1>2. stack \in Seq(Entry) /\ Outers(stack) /\ Buffers(stack, mode)
  BY <1>1 DEF Outers, Buffers
<1>3. unwind_target \in Nat
  BY <1>1, UnwindAssumption
<1>4. TypeInv
  BY <1>1, <1>2, <1>3 DEF TypeInv
<1> QED
  BY <1>1, <1>2, <1>4 DEF IInv

LEMMA NextIInv == IInv /\ [Next]_vars => IInv'
<1> SUFFICES ASSUME IInv, [Next]_vars PROVE IInv'
  OBVIOUS
<1>1. CASE wasm_rt_impl_try
  BY <1>1, TryStep
<1>2. CASE Call
  BY <1>2, CallStep
<1>3. CASE Return \/ ReturnCall
  BY <1>3, ReturnStep
<1>4. CASE Block
  BY <1>4, BlockStep
<1>5. CASE WriteTryCatch \/ WriteTryDelegate
  BY <1>5, TryCatchStep
<1>6. CASE End
  BY <1>6, EndStep
<1>7. CASE GotoLabel
  BY <1>7, GotoStep
<1>8. CASE Throw \/ Rethrow \/ Trap
  BY <1>8, ThrowStep
<1>9. CASE Catch
  BY <1>9, CatchStep
<1>10. CASE NotCaught
  BY <1>10, NotCaughtStep
<1>11. CASE DelegateToTry \/ DelegateToCaller
  BY <1>11, DelegateStep
<1>12. CASE UNCHANGED vars
  <2>1. stack' = stack /\ mode' = mode /\ unwind_target' = unwind_target /\ jmp_buf' = jmp_buf /\ active' = active
    BY <1>12 DEF vars
  <2> QED
    BY <2>1 DEF IInv, TypeInv
<1> QED
  BY <1>1, <1>2, <1>3, <1>4, <1>5, <1>6, <1>7, <1>8, <1>9, <1>10, <1>11, <1>12 DEF Next, Dispatch

\* The invariant that the others follow from.
THEOREM UnwindInvariant == Spec => []IInv
BY InitIInv, NextIInv, PTL DEF Spec

\* Whatever mix of calls, returns, tail calls, branches, trys, throws, delegates
\* and traps has run, and however deep: g_unwind_target is the innermost try
\* that is still running, each _outer_target is the one below, and no long jump
\* goes to a dead frame or to a buffer that is not set.
THEOREM TargetCorrect == Spec => []TargetInnermost
<1>1. IInv => TargetInnermost
  BY DEF IInv, TargetInnermost, Outers
<1> QED
  BY <1>1, UnwindInvariant, PTL

-----------------------------------------------------------------------------
(* The depth counter                                                        *)

DepthInv == depth \in Nat /\ saved_depth \in Nat /\ DepthBoundsStack

LEMMA FramesFinite ==
  ASSUME NEW s \in Seq(Entry)
  PROVE  IsFiniteSet(Frames(s)) /\ Cardinality(Frames(s)) \in Nat
<1>1. IsFiniteSet(1 .. Len(s))
  BY FS_Interval
<1>2. Frames(s) \subseteq 1 .. Len(s)
  BY DEF Frames
<1>3. IsFiniteSet(Frames(s))
  BY <1>1, <1>2, FS_Subset
<1> QED
  BY <1>3, FS_CardinalityType

\* A step that counts nothing and enters no function.
LEMMA NoMoreFrames ==
  ASSUME stack \in Seq(Entry), DepthInv, Frames(stack') \subseteq Frames(stack),
         depth' = depth, saved_depth' = saved_depth
  PROVE  DepthInv'
<1>1. IsFiniteSet(Frames(stack)) /\ Cardinality(Frames(stack)) \in Nat
  BY FramesFinite
<1>2. IsFiniteSet(Frames(stack')) /\ Cardinality(Frames(stack')) <= Cardinality(Frames(stack))
  BY <1>1, FS_Subset
<1>3. Cardinality(Frames(stack')) \in Nat
  BY <1>2, FS_CardinalityType
<1> QED
  BY <1>1, <1>2, <1>3, UnwindAssumption DEF DepthInv, DepthBoundsStack

LEMMA FramesEmpty == Frames(<<>>) = {} /\ Cardinality(Frames(<<>>)) = 0
<1>1. Frames(<<>>) = {}
  BY DEF Frames
<1> QED
  BY <1>1, FS_EmptySet

LEMMA FramesPrefix ==
  ASSUME NEW s \in Seq(Entry), NEW n \in 0 .. Len(s)
  PROVE  Frames(Prefix(s, n)) = {i \in Frames(s) : i <= n}
<1>1. PICK r : r = Prefix(s, n)
  OBVIOUS
<1>2. r \in Seq(Entry) /\ Len(r) = n /\ \A j \in 1 .. n : r[j] = s[j]
  BY <1>1, PrefixFacts
<1>3. DOMAIN r = 1 .. n /\ DOMAIN s = 1 .. Len(s) /\ n \in Nat /\ Len(s) \in Nat
  BY <1>2
<1>4. Frames(r) = {i \in Frames(s) : i <= n}
  BY <1>2, <1>3 DEF Frames
<1> QED
  BY <1>1, <1>4

LEMMA FramesAppend ==
  ASSUME NEW s \in Seq(Entry), NEW e \in Entry
  PROVE  Frames(Append(s, e)) = IF e.kind = "func" THEN Frames(s) \cup {Len(s) + 1} ELSE Frames(s)
<1>1. PICK r : r = Append(s, e)
  OBVIOUS
<1>2. r \in Seq(Entry) /\ DOMAIN r = 1 .. Len(s) + 1 /\ r[Len(s) + 1] = e /\ \A j \in 1 .. Len(s) : r[j] = s[j]
  BY <1>1
<1>3. Len(s) \in Nat /\ DOMAIN s = 1 .. Len(s)
  OBVIOUS
<1>4. \A j \in 1 .. Len(s) + 1 : j = Len(s) + 1 \/ j \in 1 .. Len(s)
  BY <1>3
<1>5. CASE e.kind = "func"
  BY <1>1, <1>2, <1>3, <1>4, <1>5 DEF Frames
<1>6. CASE e.kind # "func"
  BY <1>1, <1>2, <1>3, <1>4, <1>6 DEF Frames
<1> QED
  BY <1>5, <1>6

\* An entry that changes, but not its kind.
LEMMA FramesReplace ==
  ASSUME NEW s \in Seq(Entry), NEW p \in 1 .. Len(s), NEW e \in Entry, e.kind = s[p].kind,
         NEW x, x = [s EXCEPT ![p] = e]
  PROVE  Frames(x) = Frames(s)
<1>1. /\ x \in Seq(Entry) /\ Len(x) = Len(s) /\ x[p] = e
      /\ \A j \in 1 .. Len(s) : (j # p => x[j] = s[j])
  BY ReplaceEntry
<1>2. DOMAIN x = 1 .. Len(s) /\ DOMAIN s = 1 .. Len(s)
  BY <1>1
<1>3. \A j \in 1 .. Len(s) : x[j].kind = s[j].kind
  <2> SUFFICES ASSUME NEW j \in 1 .. Len(s) PROVE x[j].kind = s[j].kind
    OBVIOUS
  <2>1. CASE j = p
    BY <1>1, <2>1
  <2>2. CASE j # p
    BY <1>1, <2>2
  <2> QED
    BY <2>1, <2>2
<1> QED
  BY <1>2, <1>3 DEF Frames

LEMMA ThrowFrames ==
  ASSUME stack \in Seq(Entry), NEW t, wasm_rt_throw(t)
  PROVE  Frames(stack') \subseteq Frames(stack)
<1>1. CASE stack' = stack
  BY <1>1
<1>2. CASE stack' = <<>>
  BY <1>2, FramesEmpty
<1>3. CASE t \in DOMAIN stack /\ stack' = [Prefix(stack, t) EXCEPT ![t].initialized = FALSE]
  <2>1. t \in 1 .. Len(stack) /\ t \in 0 .. Len(stack) /\ t \in 1 .. t
    BY <1>3
  <2>2. PICK r : r = Prefix(stack, t)
    OBVIOUS
  <2>3. PICK d : d = r[t]
    OBVIOUS
  <2>4. PICK e : e = [d EXCEPT !.initialized = FALSE]
    OBVIOUS
  <2>5. r \in Seq(Entry) /\ Len(r) = t /\ d \in Entry
    BY <2>1, <2>2, <2>3, PrefixFacts
  <2>6. e \in Entry /\ e.kind = d.kind
    BY <2>4, <2>5, ClearFlag
  <2>7. stack' = [r EXCEPT ![t] = e]
    BY <1>3, <2>2, <2>3, <2>4, Zenon
  <2>8. t \in 1 .. Len(r)
    BY <2>1, <2>5
  <2>9. Frames(stack') = Frames(r)
    <3>1. PICK x : x = stack'
      OBVIOUS
    <3>2. x = [r EXCEPT ![t] = e] /\ e.kind = r[t].kind
      BY <2>3, <2>6, <2>7, <3>1
    <3>3. r \in Seq(Entry) /\ e \in Entry
      BY <2>5, <2>6
    <3>4. Frames(x) = Frames(r)
      BY <2>8, <3>2, <3>3, FramesReplace
    <3> QED
      BY <3>1, <3>4
  <2>10. Frames(r) \subseteq Frames(stack)
    BY <2>1, <2>2, FramesPrefix
  <2> QED
    BY <2>9, <2>10
<1>4. stack' = stack \/ stack' = <<>> \/ (t \in DOMAIN stack /\ stack' = [Prefix(stack, t) EXCEPT ![t].initialized = FALSE])
  BY Zenon DEF wasm_rt_throw, ToHost, Abort
<1> QED
  BY <1>1, <1>2, <1>3, <1>4, Zenon

LEMMA GotoCatchFrames ==
  ASSUME stack \in Seq(Entry), NEW ts, ts \subseteq try_catch_stack_(stack), ts # {}, GotoCatch(Back_(ts))
  PROVE  Frames(stack') \subseteq Frames(stack)
<1>1. ts \subseteq 0 .. Len(stack) /\ ts \subseteq DOMAIN stack /\ Len(stack) \in Nat
  BY TryStack
<1>2. Back_(ts) \in 0 .. Len(stack)
  BY <1>1, BackIsLargest
<1>3. stack' = Prefix(stack, Back_(ts))
  BY DEF GotoCatch
<1> QED
  BY <1>2, <1>3, FramesPrefix

LEMMA WriteThrowFrames ==
  ASSUME stack \in Seq(Entry), NEW ts, ts \subseteq try_catch_stack_(stack), NEW t, WriteThrow(ts, t)
  PROVE  Frames(stack') \subseteq Frames(stack)
<1>1. CASE ts = {}
  BY <1>1, ThrowFrames DEF WriteThrow
<1>2. CASE ts # {}
  BY <1>2, GotoCatchFrames DEF WriteThrow
<1> QED
  BY <1>1, <1>2

LEMMA TrapDepth ==
  ASSUME stack \in Seq(Entry), DepthInv, jmp_buf, wasm_rt_trap
  PROVE  DepthInv'
<1>1. stack' = <<>> /\ depth' = saved_depth /\ saved_depth' = saved_depth
  BY DEF wasm_rt_trap, ToHost
<1>2. Cardinality(Frames(stack)) \in Nat
  BY FramesFinite
<1>3. Cardinality(Frames(stack')) = 0
  BY <1>1, FramesEmpty
<1> QED
  BY <1>1, <1>2, <1>3, UnwindAssumption DEF DepthInv, DepthBoundsStack

LEMMA LoadDepth ==
  ASSUME stack \in Seq(Entry), DepthInv, jmp_buf, NEW t, Load(t)
  PROVE  DepthInv'
<1>1. CASE t \in BigTag
  BY <1>1, TrapDepth DEF Load
<1>2. CASE t \notin BigTag
  <2>1. WriteThrow(try_catch_stack_(stack), unwind_target) /\ depth' = depth /\ saved_depth' = saved_depth
    BY <1>2 DEF Load
  <2>2. Frames(stack') \subseteq Frames(stack)
    BY <2>1, WriteThrowFrames
  <2> QED
    BY <2>1, <2>2, NoMoreFrames
<1> QED
  BY <1>1, <1>2

LEMMA CallDepth ==
  ASSUME IInv, DepthInv, Call
  PROVE  DepthInv'
<1>1. stack \in Seq(Entry) /\ jmp_buf /\ Len(stack) \in Nat
  BY DEF Call, IInv, TypeInv
<1>2. CASE depth + 1 > MaxDepth
  BY <1>1, <1>2, TrapDepth DEF Call
<1>3. CASE ~(depth + 1 > MaxDepth)
  <2>1. stack' = Append(stack, Plain("func")) /\ depth' = depth + 1 /\ saved_depth' = saved_depth
    BY <1>3 DEF Call
  <2>2. Plain("func") \in Entry /\ Plain("func").kind = "func"
    BY PlainEntry DEF Kind, Plain
  <2>3. Frames(stack') = Frames(stack) \cup {Len(stack) + 1}
    BY <1>1, <2>1, <2>2, FramesAppend
  <2>4. Len(stack) + 1 \notin Frames(stack)
    BY <1>1 DEF Frames
  <2>5. IsFiniteSet(Frames(stack)) /\ Cardinality(Frames(stack)) \in Nat
    BY <1>1, FramesFinite
  <2>6. Cardinality(Frames(stack')) = Cardinality(Frames(stack)) + 1
    BY <2>3, <2>4, <2>5, FS_AddElement
  <2> QED
    BY <1>3, <2>1, <2>5, <2>6, UnwindAssumption DEF DepthInv, DepthBoundsStack
<1> QED
  BY <1>2, <1>3

LEMMA ReturnDepth ==
  ASSUME IInv, DepthInv, Return
  PROVE  DepthInv'
<1>1. stack \in Seq(Entry) /\ Len(stack) \in Nat
  BY DEF IInv, TypeInv
<1>2. PICK f \in Frames(stack) : FrameOf(stack, f) /\ stack' = Prefix(stack, f - 1)
  BY DEF Return
<1>3. depth' = depth - 1 /\ saved_depth' = saved_depth
  BY DEF Return
<1>4. f \in 1 .. Len(stack) /\ f - 1 \in 0 .. Len(stack) /\ \A i \in Frames(stack) : i \in Nat /\ i <= f
  BY <1>1, <1>2 DEF Frames, FrameOf
<1>5. Frames(stack') = {i \in Frames(stack) : i <= f - 1}
  BY <1>1, <1>2, <1>4, FramesPrefix
<1>6. Frames(stack') = Frames(stack) \ {f}
  <2>1. f \in Nat /\ \A i \in Frames(stack) : i <= f - 1 <=> i # f
    BY <1>4
  <2>2. {i \in Frames(stack) : i <= f - 1} = Frames(stack) \ {f}
    BY <2>1
  <2> QED
    BY <1>5, <2>2
<1>7. IsFiniteSet(Frames(stack)) /\ Cardinality(Frames(stack)) \in Nat
  BY <1>1, FramesFinite
<1>8. Cardinality(Frames(stack')) = Cardinality(Frames(stack)) - 1 /\ IsFiniteSet(Frames(stack'))
  BY <1>2, <1>6, <1>7, FS_RemoveElement
<1>9. Cardinality(Frames(stack')) \in Nat
  BY <1>8, FS_CardinalityType
<1> QED
  BY <1>3, <1>7, <1>8, <1>9, UnwindAssumption DEF DepthInv, DepthBoundsStack

LEMMA CutDepth ==
  ASSUME IInv, DepthInv, ReturnCall \/ End \/ GotoLabel
  PROVE  DepthInv'
<1>1. stack \in Seq(Entry) /\ Len(stack) \in Nat /\ stack # <<>> /\ depth' = depth /\ saved_depth' = saved_depth
  BY DEF IInv, TypeInv, ReturnCall, End, GotoLabel, InCode
<1>2. \E n \in 0 .. Len(stack) : stack' = Prefix(stack, n)
  <2>1. CASE ReturnCall
    <3>1. PICK f \in Frames(stack) : stack' = Prefix(stack, f)
      BY <2>1 DEF ReturnCall
    <3>2. f \in 0 .. Len(stack)
      BY <1>1 DEF Frames
    <3> QED
      BY <3>1, <3>2
  <2>2. CASE End
    <3>1. stack' = Prefix(stack, Len(stack) - 1)
      BY <2>2 DEF End
    <3>2. Len(stack) - 1 \in 0 .. Len(stack)
      BY <1>1
    <3> QED
      BY <3>1, <3>2
  <2>3. CASE GotoLabel
    <3>1. PICK q \in label_stack_(stack) : stack' = Prefix(stack, q) \/ stack' = Prefix(stack, q - 1)
      BY <2>3 DEF GotoLabel
    <3>2. q \in 0 .. Len(stack) /\ q - 1 \in 0 .. Len(stack)
      BY <1>1, TryStack
    <3> QED
      BY <3>1, <3>2
  <2> QED
    BY <2>1, <2>2, <2>3
<1>3. Frames(stack') \subseteq Frames(stack)
  BY <1>1, <1>2, FramesPrefix
<1> QED
  BY <1>1, <1>3, NoMoreFrames

LEMMA EnterDepth ==
  ASSUME IInv, DepthInv, Block \/ WriteTryCatch \/ WriteTryDelegate
  PROVE  DepthInv'
<1>1. stack \in Seq(Entry) /\ depth' = depth /\ saved_depth' = saved_depth
  BY DEF IInv, TypeInv, Block, WriteTryCatch, WriteTryDelegate, BeginTry
<1>2. \E e \in Entry : e.kind # "func" /\ stack' = Append(stack, e)
  <2>1. CASE Block
    <3>1. PICK k \in {"block", "loop"} : stack' = Append(stack, Plain(k))
      BY <2>1 DEF Block
    <3>2. Plain(k) \in Entry /\ Plain(k).kind # "func"
      BY PlainEntry DEF Kind, Plain
    <3> QED
      BY <3>1, <3>2
  <2>2. ASSUME NEW C \in SUBSET Tag, NEW q \in Nat, BeginTry(C, q)
        PROVE  \E e \in Entry : e.kind # "func" /\ stack' = Append(stack, e)
    <3>1. PICK e : e = [Plain("try") EXCEPT !.catches = C, !.delegate = q, !.outer = unwind_target, !.initialized = TRUE]
      OBVIOUS
    <3>2. unwind_target \in Nat
      BY DEF IInv, TypeInv
    <3>3. e \in Entry /\ e.kind # "func"
      BY <3>1, <3>2 DEF Entry, Kind, Plain, Host
    <3>4. stack' = Append(stack, e)
      BY <2>2, <3>1, Zenon DEF BeginTry
    <3> QED
      BY <3>3, <3>4
  <2>3. CASE WriteTryCatch
    <3>1. PICK C \in SUBSET (Tag \ BigTag) : BeginTry(C, 0)
      BY <2>3 DEF WriteTryCatch
    <3>2. C \in SUBSET Tag /\ 0 \in Nat
      OBVIOUS
    <3> QED
      BY <2>2, <3>1, <3>2
  <2>4. CASE WriteTryDelegate
    <3>1. PICK q \in label_stack_(stack) : BeginTry({}, q)
      BY <2>4 DEF WriteTryDelegate
    <3>2. q \in Nat /\ {} \in SUBSET Tag
      BY <1>1, TryStack
    <3> QED
      BY <2>2, <3>1, <3>2
  <2> QED
    BY <2>1, <2>3, <2>4
<1>3. PICK e \in Entry : e.kind # "func" /\ stack' = Append(stack, e)
  BY <1>2
<1>4. Frames(stack') = Frames(stack)
  BY <1>1, <1>3, FramesAppend
<1> QED
  BY <1>1, <1>4, NoMoreFrames

LEMMA DispatchDepth ==
  ASSUME IInv, DepthInv, Dispatch
  PROVE  DepthInv'
<1>1. mode = "dispatch" /\ depth' = depth /\ saved_depth' = saved_depth
  BY DEF Dispatch, Catch, NotCaught, DelegateToTry, DelegateToCaller
<1>2. stack \in Seq(Entry) /\ Top \in 1 .. Len(stack) /\ stack[Top] \in Entry
  BY <1>1, AtHead
<1>3. CASE Catch
  <2>1. stack' = [stack EXCEPT ![Top].phase = "catch", ![Top].saved = active]
    BY <1>3, Zenon DEF Catch
  <2>2. PICK p : p = Top
    OBVIOUS
  <2>3. PICK d : d = stack[p]
    OBVIOUS
  <2>4. PICK c : c = [d EXCEPT !.phase = "catch"]
    OBVIOUS
  <2>5. PICK s : s = [stack EXCEPT ![p] = c]
    OBVIOUS
  <2>6. PICK e : e = [c EXCEPT !.saved = active]
    OBVIOUS
  <2>7. d \in Entry /\ active \in Tag \cup {NoTag} /\ p \in 1 .. Len(stack)
    BY <1>2, <2>2, <2>3 DEF IInv, TypeInv
  <2>8. c \in Entry /\ e \in Entry
    BY <2>4, <2>6, <2>7, CatchEntry
  <2>9. c.kind = d.kind
    BY <2>4, <2>7 DEF Entry
  <2>10. e.kind = c.kind
    BY <2>6, <2>8 DEF Entry
  <2>11. s \in Seq(Entry) /\ Len(s) = Len(stack) /\ s[p] = c
    BY <1>2, <2>5, <2>7, <2>8, ReplaceEntry
  <2>12. stack' = [s EXCEPT ![p].saved = active]
    BY <2>1, <2>2, <2>3, <2>4, <2>5, Zenon
  <2>13. stack' = [s EXCEPT ![p] = e]
    BY <2>6, <2>11, <2>12, Zenon
  <2>14. Frames(s) = Frames(stack)
    BY <1>2, <2>3, <2>5, <2>7, <2>8, <2>9, FramesReplace
  <2>15. p \in 1 .. Len(s)
    BY <2>7, <2>11
  <2>16. Frames(stack') = Frames(s)
    BY <2>8, <2>10, <2>11, <2>13, <2>15, FramesReplace
  <2> QED
    BY <1>1, <1>2, <2>14, <2>16, NoMoreFrames
<1>4. CASE NotCaught
  <2>1. WriteThrow(try_catch_stack_(stack) \ {Top}, stack[Top].outer)
    BY <1>4 DEF NotCaught
  <2>2. Frames(stack') \subseteq Frames(stack)
    BY <1>2, <2>1, WriteThrowFrames
  <2> QED
    BY <1>1, <1>2, <2>2, NoMoreFrames
<1>5. CASE DelegateToTry
  <2>1. PICK ts : ts = {i \in try_catch_stack_(stack) : i <= stack[Top].delegate}
    OBVIOUS
  <2>2. ts # {} /\ GotoCatch(Back_(ts)) /\ ts \subseteq try_catch_stack_(stack)
    BY <1>5, <2>1 DEF DelegateToTry
  <2>3. Frames(stack') \subseteq Frames(stack)
    BY <1>2, <2>2, GotoCatchFrames
  <2> QED
    BY <1>1, <1>2, <2>3, NoMoreFrames
<1>6. CASE DelegateToCaller
  <2>1. wasm_rt_throw(stack[Front_(try_catch_stack_(stack))].outer)
    BY <1>6 DEF DelegateToCaller
  <2>2. Frames(stack') \subseteq Frames(stack)
    BY <1>2, <2>1, ThrowFrames
  <2> QED
    BY <1>1, <1>2, <2>2, NoMoreFrames
<1> QED
  BY <1>3, <1>4, <1>5, <1>6 DEF Dispatch

LEMMA NextDepth == IInv /\ DepthInv /\ [Next]_vars => DepthInv'
<1> SUFFICES ASSUME IInv, DepthInv, [Next]_vars PROVE DepthInv'
  OBVIOUS
<1>1. stack \in Seq(Entry)
  BY DEF IInv, TypeInv
<1>2. CASE wasm_rt_impl_try
  <2>1. stack = <<>> /\ stack' = <<>> /\ depth' = depth /\ saved_depth' = depth
    BY <1>2 DEF wasm_rt_impl_try
  <2>2. Cardinality(Frames(stack')) = 0
    BY <2>1, FramesEmpty
  <2> QED
    BY <2>1, <2>2, UnwindAssumption DEF DepthInv, DepthBoundsStack
<1>3. CASE Call
  BY <1>3, CallDepth
<1>4. CASE Return
  BY <1>4, ReturnDepth
<1>5. CASE ReturnCall \/ End \/ GotoLabel
  BY <1>5, CutDepth
<1>6. CASE Block \/ WriteTryCatch \/ WriteTryDelegate
  BY <1>6, EnterDepth
<1>7. CASE Throw \/ Rethrow
  <2>1. jmp_buf /\ \E t : Load(t)
    BY <1>7 DEF IInv, Throw, Rethrow, InCode
  <2> QED
    BY <1>1, <2>1, LoadDepth
<1>8. CASE Trap
  <2>1. jmp_buf /\ wasm_rt_trap
    BY <1>8 DEF IInv, Trap, InCode
  <2> QED
    BY <1>1, <2>1, TrapDepth
<1>9. CASE Dispatch
  BY <1>9, DispatchDepth
<1>10. CASE UNCHANGED vars
  BY <1>1, <1>10, NoMoreFrames DEF vars
<1> QED
  BY <1>2, <1>3, <1>4, <1>5, <1>6, <1>7, <1>8, <1>9, <1>10 DEF Next

\* Whatever has left the functions in between (returns, tail calls, long jumps
\* to a try or to the embedder), wasm_rt_call_stack_depth is never less than the
\* calls that are really running, so that FUNC_PROLOGUE bounds them by
\* WASM_RT_MAX_CALL_STACK_DEPTH.
THEOREM DepthCorrect == Spec => []DepthBoundsStack
<1>1. Init => DepthInv
  <2> SUFFICES ASSUME Init PROVE DepthInv
    OBVIOUS
  <2>1. stack = <<>> /\ depth = 0 /\ saved_depth = 0
    BY DEF Init
  <2>2. Cardinality(Frames(stack)) = 0
    BY <2>1, FramesEmpty
  <2> QED
    BY <2>1, <2>2, UnwindAssumption DEF DepthInv, DepthBoundsStack
<1>2. DepthInv => DepthBoundsStack
  BY DEF DepthInv
<1> QED
  BY <1>1, <1>2, NextDepth, UnwindInvariant, PTL DEF Spec

-----------------------------------------------------------------------------
(* The handler of an exception, as WebAssembly defines it                   *)

ControlEntry == [kind : Kind, phase : {"body", "catch"}, catches : SUBSET Tag, delegate : Nat,
                 saved : Tag \cup {NoTag}]

\* A try delegates to a label around it.
Delegating(c) == \A i \in DOMAIN c : Active(c[i]) => c[i].delegate \in 0 .. i - 1

\* The recursive equation of ExnSemantics, for the first n entries.
HandlerStep(c, t, h, p) ==
  IF p = 0 THEN 0
  ELSE IF Active(c[p])
       THEN IF c[p].delegate # 0 THEN h[c[p].delegate]
            ELSE IF t \in c[p].catches THEN p ELSE h[p - 1]
       ELSE h[p - 1]
Handles(c, t, n, h) == \A p \in 0 .. n : h[p] = HandlerStep(c, t, h, p)

\* The handler at a position follows from those below it.
LEMMA StepSame ==
  ASSUME NEW c \in Seq(ControlEntry), NEW d \in Seq(ControlEntry), NEW n \in Nat, n <= Len(c), n <= Len(d),
         \A i \in 1 .. n : d[i] = c[i], Delegating(c), NEW t, NEW g, NEW h,
         NEW p \in 0 .. n, \A q \in 0 .. p - 1 : g[q] = h[q]
  PROVE  HandlerStep(c, t, g, p) = HandlerStep(d, t, h, p)
<1>1. CASE p = 0
  BY <1>1 DEF HandlerStep
<1>2. CASE p # 0
  <2>1. p \in 1 .. n /\ p \in DOMAIN c /\ p - 1 \in 0 .. p - 1
    BY <1>2
  <2>2. d[p] = c[p] /\ g[p - 1] = h[p - 1]
    BY <2>1
  <2>3. Active(c[p]) => g[c[p].delegate] = h[c[p].delegate]
    BY <2>1 DEF Delegating
  <2> QED
    BY <1>2, <2>2, <2>3 DEF HandlerStep
<1> QED
  BY <1>1, <1>2

\* Two solutions agree as far as the stacks do.
LEMMA HandlersAgree ==
  ASSUME NEW c \in Seq(ControlEntry), NEW d \in Seq(ControlEntry), NEW n \in Nat, n <= Len(c), n <= Len(d),
         \A i \in 1 .. n : d[i] = c[i], Delegating(c), NEW t, NEW g, NEW h,
         Handles(c, t, n, g), Handles(d, t, n, h)
  PROVE  \A p \in 0 .. n : g[p] = h[p]
<1> DEFINE B == {p \in 0 .. n : g[p] # h[p]}
<1>1. SUFFICES ASSUME B # {} PROVE FALSE
  OBVIOUS
<1>2. B \subseteq Nat
  OBVIOUS
<1>3. PICK p \in B : \A q \in B : p <= q
  <2> HIDE DEF B
  <2> QED
    BY <1>1, <1>2, MinExists
<1>4. p \in 0 .. n /\ g[p] # h[p] /\ \A q \in 0 .. p - 1 : g[q] = h[q]
  BY <1>3
<1>5. HandlerStep(c, t, g, p) = HandlerStep(d, t, h, p)
  BY <1>4, StepSame
<1>6. g[p] = HandlerStep(c, t, g, p) /\ h[p] = HandlerStep(d, t, h, p)
  BY <1>4 DEF Handles
<1> QED
  BY <1>4, <1>5, <1>6

\* A solution can be carried one entry further.
LEMMA HandlersGrow ==
  ASSUME NEW c \in Seq(ControlEntry), Delegating(c), NEW t, NEW n \in Nat, n > 0, n <= Len(c), NEW g, Handles(c, t, n - 1, g),
         NEW h, h = [p \in 0 .. n |-> IF p = n THEN HandlerStep(c, t, g, n) ELSE g[p]]
  PROVE  Handles(c, t, n, h)
<1>1. n \in 0 .. n /\ \A q \in 0 .. n - 1 : q \in 0 .. n /\ q # n
  OBVIOUS
<1>2. h[n] = HandlerStep(c, t, g, n) /\ \A q \in 0 .. n - 1 : h[q] = g[q]
  BY <1>1, Zenon
<1>3. ASSUME NEW p \in 0 .. n PROVE HandlerStep(c, t, g, p) = HandlerStep(c, t, h, p)
  <2>1. \A q \in 0 .. p - 1 : g[q] = h[q]
    BY <1>2
  <2> QED
    BY <2>1, StepSame
<1>4. ASSUME NEW p \in 0 .. n PROVE h[p] = HandlerStep(c, t, h, p)
  <2>1. CASE p = n
    BY <1>2, <1>3, <2>1
  <2>2. CASE p # n
    <3>1. p \in 0 .. n - 1
      BY <2>2
    <3>2. g[p] = HandlerStep(c, t, g, p)
      BY <3>1 DEF Handles
    <3> QED
      BY <1>2, <1>3, <3>1, <3>2
  <2> QED
    BY <2>1, <2>2
<1> QED
  BY <1>4 DEF Handles

\* There is a solution.
LEMMA HandlersExist ==
  ASSUME NEW c \in Seq(ControlEntry), Delegating(c), NEW t, NEW n \in Nat, n <= Len(c)
  PROVE  \E h : Handles(c, t, n, h)
<1> DEFINE B == {k \in 0 .. n : ~\E h : Handles(c, t, k, h)}
<1>1. SUFFICES ASSUME B # {} PROVE FALSE
  <2>1. n \in 0 .. n
    OBVIOUS
  <2> QED
    BY <2>1, Zenon
<1>2. B \subseteq Nat
  OBVIOUS
<1>3. PICK k \in B : \A q \in B : k <= q
  <2> HIDE DEF B
  <2> QED
    BY <1>1, <1>2, MinExists
<1>4. k \in 0 .. n /\ k \in Nat /\ ~\E h : Handles(c, t, k, h)
  BY <1>3
<1>5. CASE k = 0
  <2>1. PICK h : h = [p \in 0 .. 0 |-> 0]
    OBVIOUS
  <2>2. Handles(c, t, 0, h)
    BY <2>1 DEF Handles, HandlerStep
  <2> QED
    BY <1>4, <1>5, <2>2
<1>6. CASE k # 0
  <2>1. k - 1 \in 0 .. n /\ k > 0 /\ ~(k <= k - 1)
    BY <1>4, <1>6
  <2>2. k - 1 \notin B
    BY <1>3, <2>1
  <2>3. PICK g : Handles(c, t, k - 1, g)
    BY <2>1, <2>2
  <2>4. PICK h : h = [p \in 0 .. k |-> IF p = k THEN HandlerStep(c, t, g, k) ELSE g[p]]
    OBVIOUS
  <2>5. k <= Len(c)
    BY <1>4
  <2>6. Handles(c, t, k, h)
    BY <1>4, <2>1, <2>3, <2>4, <2>5, HandlersGrow
  <2> QED
    BY <1>4, <2>6
<1> QED
  BY <1>5, <1>6

\* ... which is the function that HandlerOf chooses.
LEMMA HandlerOfIs ==
  ASSUME NEW c \in Seq(ControlEntry), Delegating(c), NEW t, NEW h, Handles(c, t, Len(c), h)
  PROVE  Semantics!HandlerOf(c, t) = h[Len(c)]
<1> DEFINE Eq(H) == H = [p \in 0 .. Len(c) |->
             IF p = 0 THEN 0
             ELSE IF c[p].kind = "try" /\ c[p].phase = "body"
                  THEN IF c[p].delegate # 0 THEN H[c[p].delegate]
                       ELSE IF t \in c[p].catches THEN p ELSE H[p - 1]
                  ELSE H[p - 1]]
<1>1. Len(c) \in Nat /\ Len(c) \in 0 .. Len(c)
  OBVIOUS
<1>2. \E H : Eq(H)
  <2>1. PICK g : g = [p \in 0 .. Len(c) |-> h[p]]
    OBVIOUS
  <2>2. \A p \in 0 .. Len(c) : g[p] = h[p]
    BY <2>1
  <2>3. ASSUME NEW p \in 0 .. Len(c) PROVE HandlerStep(c, t, h, p) = HandlerStep(c, t, g, p)
    BY <1>1, <2>2, StepSame
  <2>4. \A p \in 0 .. Len(c) : h[p] = HandlerStep(c, t, g, p)
    BY <2>3 DEF Handles
  <2>5. g = [p \in 0 .. Len(c) |-> HandlerStep(c, t, g, p)]
    BY <2>1, <2>4, Zenon
  <2>6. Eq(g)
    BY <2>5 DEF HandlerStep, Active
  <2> QED
    BY <2>6
<1>3. PICK k : k = (CHOOSE H : Eq(H))
  OBVIOUS
<1>4. Eq(k)
  BY <1>2, <1>3, Zenon
<1>5. Handles(c, t, Len(c), k)
  <2>1. k = [p \in 0 .. Len(c) |-> HandlerStep(c, t, k, p)]
    BY <1>4 DEF HandlerStep, Active
  <2> HIDE DEF Eq
  <2>2. \A p \in 0 .. Len(c) : k[p] = HandlerStep(c, t, k, p)
    BY <2>1, Zenon
  <2> QED
    BY <2>2 DEF Handles
<1>6. Semantics!HandlerOf(c, t) = k[Len(c)]
  BY <1>3 DEF Semantics!HandlerOf
<1>7. h[Len(c)] = k[Len(c)]
  BY <1>1, <1>5, HandlersAgree
<1> QED
  BY <1>6, <1>7

\* The handler of an exception thrown on the first n entries.
LEMMA HandlerAt ==
  ASSUME NEW c \in Seq(ControlEntry), Delegating(c), NEW t, NEW h, Handles(c, t, Len(c), h), NEW n \in 0 .. Len(c)
  PROVE  Semantics!HandlerOf(Semantics!Prefix(c, n), t) = h[n]
<1>1. PICK d : d = Semantics!Prefix(c, n)
  OBVIOUS
<1>2. d \in Seq(ControlEntry) /\ Len(d) = n /\ \A i \in 1 .. n : d[i] = c[i]
  BY <1>1 DEF Semantics!Prefix
<1>3. n \in Nat /\ n <= Len(c) /\ n <= Len(d) /\ DOMAIN d = 1 .. n /\ DOMAIN c = 1 .. Len(c) /\ Len(c) \in Nat
  BY <1>2
<1>4. Delegating(d)
  BY <1>2, <1>3 DEF Delegating
<1>5. ASSUME NEW p \in 0 .. n PROVE h[p] = HandlerStep(d, t, h, p)
  <2>1. p \in 0 .. Len(c)
    BY <1>3
  <2>2. h[p] = HandlerStep(c, t, h, p)
    BY <2>1 DEF Handles
  <2>3. HandlerStep(c, t, h, p) = HandlerStep(d, t, h, p)
    BY <1>2, <1>3, StepSame
  <2> QED
    BY <2>2, <2>3
<1>6. Handles(d, t, Len(d), h)
  BY <1>2, <1>5 DEF Handles
<1>7. Semantics!HandlerOf(d, t) = h[Len(d)]
  BY <1>2, <1>4, <1>6, HandlerOfIs
<1> QED
  BY <1>1, <1>2, <1>7

\* Entries that are no running try do not handle anything.
LEMMA HandlerBelow ==
  ASSUME NEW c \in Seq(ControlEntry), NEW t, NEW h, Handles(c, t, Len(c), h),
         NEW n \in 0 .. Len(c), NEW m \in 0 .. Len(c), n <= m, \A j \in DOMAIN c : n < j /\ j <= m => ~Active(c[j])
  PROVE  h[m] = h[n]
<1> DEFINE B == {k \in n .. m : h[k] # h[n]}
<1>1. SUFFICES ASSUME B # {} PROVE FALSE
  <2>1. m \in n .. m
    OBVIOUS
  <2> QED
    BY <2>1, Zenon
<1>2. B \subseteq Nat
  OBVIOUS
<1>3. PICK k \in B : \A q \in B : k <= q
  <2> HIDE DEF B
  <2> QED
    BY <1>1, <1>2, MinExists
<1>4. k \in n .. m /\ h[k] # h[n] /\ k \in Nat /\ n \in Nat /\ Len(c) \in Nat
  BY <1>3
<1>5. k # n /\ k - 1 \in n .. m /\ k \in DOMAIN c /\ k # 0 /\ k \in 0 .. Len(c) /\ ~(k <= k - 1)
  BY <1>4
<1>6. k - 1 \notin B
  BY <1>3, <1>5
<1>7. h[k - 1] = h[n]
  BY <1>5, <1>6
<1>8. ~Active(c[k])
  BY <1>4, <1>5
<1>9. h[k] = HandlerStep(c, t, h, k)
  BY <1>5 DEF Handles
<1>10. h[k] = h[k - 1]
  BY <1>5, <1>8, <1>9 DEF HandlerStep
<1> QED
  BY <1>4, <1>7, <1>10

-----------------------------------------------------------------------------
(* What WebAssembly sees of the stack                                       *)

Seen(e) == [kind |-> e.kind, phase |-> e.phase, catches |-> e.catches, delegate |-> e.delegate, saved |-> e.saved]

LEMMA SeenFacts ==
  ASSUME NEW e \in Entry
  PROVE  /\ Seen(e) \in ControlEntry /\ (Active(Seen(e)) <=> Active(e))
         /\ Seen(e).kind = e.kind /\ Seen(e).phase = e.phase /\ Seen(e).catches = e.catches
         /\ Seen(e).delegate = e.delegate /\ Seen(e).saved = e.saved
BY DEF Seen, Entry, ControlEntry, Active

LEMMA ControlFacts ==
  ASSUME NEW s \in Seq(Entry)
  PROVE  /\ Control(s) \in Seq(ControlEntry) /\ Len(Control(s)) = Len(s) /\ DOMAIN Control(s) = DOMAIN s
         /\ \A i \in DOMAIN s : Control(s)[i] = Seen(s[i])
<1>1. Control(s) = [i \in 1 .. Len(s) |-> Seen(s[i])]
  BY DEF Control, Seen
<1>2. \A i \in 1 .. Len(s) : Seen(s[i]) \in ControlEntry
  BY SeenFacts
<1>3. Len(s) \in Nat /\ DOMAIN s = 1 .. Len(s)
  OBVIOUS
<1>4. PICK c : c = [i \in 1 .. Len(s) |-> Seen(s[i])]
  OBVIOUS
<1>5. \A i \in 1 .. Len(s) : c[i] = Seen(s[i]) /\ c[i] \in ControlEntry
  BY <1>2, <1>4
<1>6. c \in [1 .. Len(s) -> ControlEntry]
  BY <1>2, <1>4
<1>7. c \in Seq(ControlEntry) /\ Len(c) = Len(s)
  BY <1>3, <1>6
<1>8. DOMAIN c = DOMAIN s
  BY <1>3, <1>4
<1> QED
  BY <1>1, <1>3, <1>4, <1>5, <1>7, <1>8

\* Stacks that look alike.
LEMMA ControlUnique ==
  ASSUME NEW s \in Seq(Entry), NEW c \in Seq(ControlEntry), Len(c) = Len(s), \A i \in 1 .. Len(s) : c[i] = Seen(s[i])
  PROVE  Control(s) = c
<1>1. PICK d : d = Control(s)
  OBVIOUS
<1>2. d \in Seq(ControlEntry) /\ Len(d) = Len(c) /\ \A i \in 1 .. Len(c) : d[i] = c[i]
  BY <1>1, ControlFacts
<1>3. d = c
  BY <1>2
<1> QED
  BY <1>1, <1>3

LEMMA ControlCut ==
  ASSUME NEW s \in Seq(Entry), NEW n \in 0 .. Len(s), NEW r \in Seq(Entry), Len(r) = n,
         \A i \in 1 .. n : Seen(r[i]) = Seen(s[i])
  PROVE  Control(r) = Semantics!Prefix(Control(s), n)
<1>1. PICK c : c = Control(s)
  OBVIOUS
<1>2. c \in Seq(ControlEntry) /\ Len(c) = Len(s) /\ \A i \in 1 .. Len(s) : c[i] = Seen(s[i])
  BY <1>1, ControlFacts
<1>3. PICK d : d = Semantics!Prefix(c, n)
  OBVIOUS
<1>4. d \in Seq(ControlEntry) /\ Len(d) = n /\ \A i \in 1 .. n : d[i] = c[i]
  BY <1>2, <1>3 DEF Semantics!Prefix
<1>5. \A i \in 1 .. n : i \in 1 .. Len(s)
  OBVIOUS
<1>6. \A i \in 1 .. Len(r) : d[i] = Seen(r[i])
  BY <1>2, <1>4, <1>5
<1>7. Control(r) = d
  BY <1>4, <1>6, ControlUnique
<1> QED
  BY <1>1, <1>3, <1>7

LEMMA ControlPrefix ==
  ASSUME NEW s \in Seq(Entry), NEW n \in 0 .. Len(s)
  PROVE  Control(Prefix(s, n)) = Semantics!Prefix(Control(s), n)
<1>1. Prefix(s, n) \in Seq(Entry) /\ Len(Prefix(s, n)) = n /\ \A j \in 1 .. n : Seen(Prefix(s, n)[j]) = Seen(s[j])
  BY PrefixFacts
<1> QED
  BY <1>1, ControlCut

LEMMA ControlAppend ==
  ASSUME NEW s \in Seq(Entry), NEW e \in Entry
  PROVE  Control(Append(s, e)) = Append(Control(s), Seen(e))
<1>1. PICK c : c = Control(s)
  OBVIOUS
<1>2. c \in Seq(ControlEntry) /\ Len(c) = Len(s) /\ \A i \in 1 .. Len(s) : c[i] = Seen(s[i])
  BY <1>1, ControlFacts
<1>3. Seen(e) \in ControlEntry
  BY SeenFacts
<1>4. PICK f \in ControlEntry : f = Seen(e)
  BY <1>3
<1>5. PICK d : d = Append(c, f)
  OBVIOUS
<1>6. PICK r : r = Append(s, e)
  OBVIOUS
<1>7. PICK n : n = Len(s) + 1
  OBVIOUS
<1>8. d \in Seq(ControlEntry) /\ Len(d) = n /\ d[n] = f /\ \A i \in 1 .. n : (i # n => d[i] = c[i])
  BY <1>2, <1>5, <1>7
<1>9. r \in Seq(Entry) /\ Len(r) = n /\ r[n] = e /\ \A i \in 1 .. n : (i # n => r[i] = s[i])
  BY <1>6, <1>7
<1>10. \A i \in 1 .. n : (i # n => i \in 1 .. Len(s))
  BY <1>7
<1>11. \A i \in 1 .. n : d[i] = Seen(r[i])
  <2> SUFFICES ASSUME NEW i \in 1 .. n PROVE d[i] = Seen(r[i])
    OBVIOUS
  <2>1. CASE i = n
    BY <1>4, <1>8, <1>9, <2>1
  <2>2. CASE i # n
    BY <1>2, <1>8, <1>9, <1>10, <2>2
  <2> QED
    BY <2>1, <2>2
<1>12. Control(r) = d
  BY <1>8, <1>9, <1>11, ControlUnique
<1> QED
  BY <1>1, <1>4, <1>5, <1>6, <1>12

LEMMA ControlEmpty == Control(<<>>) = <<>>
<1> <<>> \in Seq(Entry) /\ <<>> \in Seq(ControlEntry)
  OBVIOUS
<1>1. PICK s \in Seq(Entry) : s = <<>>
  BY Zenon
<1>2. PICK c \in Seq(ControlEntry) : c = <<>>
  BY Zenon
<1>3. Len(s) = 0 /\ Len(c) = Len(s)
  BY <1>1, <1>2
<1>4. \A i \in 1 .. Len(s) : c[i] = Seen(s[i])
  BY <1>3
<1>5. Control(s) = c
  BY <1>3, <1>4, ControlUnique
<1> QED
  BY <1>1, <1>2, <1>5

\* The handler of the running try below a position is the handler there.
LEMMA HandlerInnermost ==
  ASSUME NEW s \in Seq(Entry), NEW t, NEW h, Handles(Control(s), t, Len(s), h), NEW n \in 0 .. Len(s)
  PROVE  h[Innermost(s, n)] = h[n]
<1>1. PICK c : c = Control(s)
  OBVIOUS
<1>2. c \in Seq(ControlEntry) /\ Len(c) = Len(s) /\ DOMAIN c = DOMAIN s /\ \A i \in DOMAIN s : c[i] = Seen(s[i])
  BY <1>1, ControlFacts
<1>3. \A i \in DOMAIN s : Active(c[i]) <=> Active(s[i])
  BY <1>2, SeenFacts
<1>4. PICK k : k = Innermost(s, n)
  OBVIOUS
<1>5. k \in 0 .. Len(s) /\ k <= n /\ \A j \in DOMAIN s : j <= n /\ Active(s[j]) => j <= k
  BY <1>4, InnermostFacts
<1>6. \A j \in DOMAIN c : k < j /\ j <= n => ~Active(c[j])
  BY <1>2, <1>3, <1>5
<1>7. k \in 0 .. Len(c) /\ n \in 0 .. Len(c) /\ Handles(c, t, Len(c), h)
  BY <1>1, <1>2, <1>5
<1>8. c \in Seq(ControlEntry) /\ k <= n
  BY <1>2, <1>5
<1>9. h[n] = h[k]
  BY <1>6, <1>7, <1>8, HandlerBelow
<1> QED
  BY <1>4, <1>9

-----------------------------------------------------------------------------
(* Labels and payloads                                                      *)

\* The label of a delegate belongs to the function the try is in, and a catch
\* block has what it caught.
Scoped(c) == \A i \in DOMAIN c :
  /\ Active(c[i]) => c[i].delegate \in 0 .. i - 1
  /\ Active(c[i]) /\ c[i].delegate # 0 => \A j \in DOMAIN c : j < i /\ c[j].kind = "func" => j <= c[i].delegate
  /\ c[i].kind = "try" /\ c[i].phase = "catch" => c[i].saved \in Tag

SemInv == Scoped(Control(stack)) /\ (mode = "dispatch" => active \in Tag)

LEMMA ScopedPrefix ==
  ASSUME NEW c \in Seq(ControlEntry), Scoped(c), NEW n \in 0 .. Len(c)
  PROVE  Scoped(Semantics!Prefix(c, n))
<1>1. PICK d : d = Semantics!Prefix(c, n)
  OBVIOUS
<1>2. d \in Seq(ControlEntry) /\ Len(d) = n /\ \A i \in 1 .. n : d[i] = c[i]
  BY <1>1 DEF Semantics!Prefix
<1>3. DOMAIN d = 1 .. n /\ \A i \in 1 .. n : i \in DOMAIN c
  BY <1>2
<1>4. Scoped(d)
  BY <1>2, <1>3 DEF Scoped
<1> QED
  BY <1>1, <1>4

LEMMA ScopedAppend ==
  ASSUME NEW c \in Seq(ControlEntry), Scoped(c), NEW e \in ControlEntry, e.phase = "body",
         Active(e) => e.delegate \in 0 .. Len(c),
         Active(e) /\ e.delegate # 0 => \A j \in DOMAIN c : c[j].kind = "func" => j <= e.delegate
  PROVE  Scoped(Append(c, e))
<1>1. PICK d : d = Append(c, e)
  OBVIOUS
<1>2. PICK n : n = Len(c)
  OBVIOUS
<1>3. d \in Seq(ControlEntry) /\ DOMAIN d = 1 .. n + 1 /\ d[n + 1] = e /\ \A i \in 1 .. n : d[i] = c[i]
  BY <1>1, <1>2
<1>4. n \in Nat /\ DOMAIN c = 1 .. n /\ n + 1 \notin 1 .. n
  BY <1>2
<1>5. ASSUME NEW i \in 1 .. n
      PROVE  /\ Active(d[i]) => d[i].delegate \in 0 .. i - 1
             /\ Active(d[i]) /\ d[i].delegate # 0 => \A j \in DOMAIN d : j < i /\ d[j].kind = "func" => j <= d[i].delegate
             /\ d[i].kind = "try" /\ d[i].phase = "catch" => d[i].saved \in Tag
  <2>1. d[i] = c[i] /\ i \in DOMAIN c
    BY <1>3, <1>4
  <2>2. \A j \in DOMAIN d : j < i => j \in DOMAIN c /\ d[j] = c[j]
    BY <1>3, <1>4
  <2> QED
    BY <2>1, <2>2 DEF Scoped
<1>6. ASSUME NEW i, i = n + 1
      PROVE  /\ Active(d[i]) => d[i].delegate \in 0 .. i - 1
             /\ Active(d[i]) /\ d[i].delegate # 0 => \A j \in DOMAIN d : j < i /\ d[j].kind = "func" => j <= d[i].delegate
             /\ d[i].kind = "try" /\ d[i].phase = "catch" => d[i].saved \in Tag
  <2>1. d[i] = e /\ i - 1 = n
    BY <1>3, <1>4, <1>6
  <2>2. \A j \in DOMAIN d : j < i => j \in DOMAIN c /\ d[j] = c[j]
    BY <1>3, <1>4, <1>6
  <2> QED
    BY <1>2, <2>1, <2>2
<1>7. \A i \in DOMAIN d : i = n + 1 \/ i \in 1 .. n
  BY <1>3, <1>4
<1>8. Scoped(d)
  BY <1>5, <1>6, <1>7 DEF Scoped
<1> QED
  BY <1>1, <1>8

\* The last entry of c becomes e.
LEMMA ScopedCatch ==
  ASSUME NEW c \in Seq(ControlEntry), Scoped(c), NEW d \in Seq(ControlEntry), Len(d) = Len(c),
         \A i \in 1 .. Len(c) : i # Len(c) => d[i] = c[i],
         ~Active(d[Len(c)]), d[Len(c)].saved \in Tag
  PROVE  Scoped(d)
<1>1. PICK n : n = Len(c)
  OBVIOUS
<1>2. n \in Nat /\ DOMAIN c = 1 .. n /\ DOMAIN d = 1 .. n
  BY <1>1
<1> SUFFICES ASSUME NEW i \in 1 .. n
             PROVE  /\ Active(d[i]) => d[i].delegate \in 0 .. i - 1
                    /\ Active(d[i]) /\ d[i].delegate # 0 => \A j \in DOMAIN d : j < i /\ d[j].kind = "func" => j <= d[i].delegate
                    /\ d[i].kind = "try" /\ d[i].phase = "catch" => d[i].saved \in Tag
  BY <1>2 DEF Scoped
<1>3. CASE i = n
  BY <1>1, <1>3
<1>4. CASE i # n
  <2>1. d[i] = c[i] /\ i \in DOMAIN c
    BY <1>1, <1>2, <1>4
  <2>2. \A j \in 1 .. n : j # n => d[j] = c[j]
    BY <1>1
  <2>3. \A j \in DOMAIN d : j < i => j \in DOMAIN c /\ d[j] = c[j]
    BY <1>2, <2>2
  <2> QED
    BY <2>1, <2>3 DEF Scoped
<1> QED
  BY <1>3, <1>4

LEMMA ScopedDelegating ==
  ASSUME NEW c, Scoped(c)
  PROVE  Delegating(c)
BY DEF Scoped, Delegating

\* The innermost try of this function up to n, if there is one, is the
\* innermost of all.
LEMMA TryOf ==
  ASSUME NEW s \in Seq(Entry), NEW n \in 0 .. Len(s), NEW ts, ts = {i \in try_catch_stack_(s) : i <= n}, ts # {}
  PROVE  Back_(ts) = Innermost(s, n)
<1>1. ts \subseteq 0 .. Len(s) /\ Len(s) \in Nat /\ ts \subseteq try_catch_stack_(s)
  BY TryStack
<1>2. PICK b : b = Back_(ts)
  OBVIOUS
<1>3. b \in ts /\ \A j \in ts : j <= b
  BY <1>1, <1>2, BackIsLargest
<1>4. b \in label_stack_(s) /\ b \in DOMAIN s /\ Active(s[b]) /\ b <= n /\ b \in Nat
  BY <1>3 DEF try_catch_stack_, label_stack_
<1>5. ASSUME NEW j \in DOMAIN s, j <= n, Active(s[j]) PROVE j <= b
  <2>1. CASE j <= b
    BY <2>1
  <2>2. CASE j >= b
    <3>1. j \in try_catch_stack_(s)
      BY <1>4, <1>5, <2>2, TryStack
    <3>2. j \in ts
      BY <1>5, <3>1
    <3> QED
      BY <1>3, <3>2
  <2>3. j \in Nat
    OBVIOUS
  <2> QED
    BY <1>4, <2>1, <2>2, <2>3
<1>6. n \in Nat
  OBVIOUS
<1>7. Innermost(s, n) = b
  BY <1>4, <1>5, <1>6, InnermostUnique
<1> QED
  BY <1>2, <1>7

-----------------------------------------------------------------------------
(* The steps, as WebAssembly sees them                                      *)

\* A branch, a return, the end of a block.
LEMMA CutLeaves ==
  ASSUME IInv, SemInv, mode = "run", NEW n \in 0 .. Len(stack), stack' = Prefix(stack, n), mode' = "run"
  PROVE  Semantics!Leave /\ SemInv'
<1>1. stack \in Seq(Entry)
  BY DEF IInv, TypeInv
<1>2. PICK c : c = Control(stack)
  OBVIOUS
<1>3. c \in Seq(ControlEntry) /\ n \in 0 .. Len(c) /\ Scoped(c)
  BY <1>1, <1>2, ControlFacts DEF SemInv
<1>4. Control(stack') = Semantics!Prefix(c, n)
  BY <1>1, <1>2, ControlPrefix
<1>5. Scoped(Semantics!Prefix(c, n))
  BY <1>3, ScopedPrefix
<1>6. InFlight = NoTag /\ InFlight' = NoTag
  BY DEF InFlight
<1>7. Semantics!Leave
  BY <1>2, <1>3, <1>4, <1>6 DEF Semantics!Leave
<1>8. SemInv'
  BY <1>4, <1>5 DEF SemInv
<1> QED
  BY <1>7, <1>8

\* A trap.
LEMMA TrapLeaves ==
  ASSUME IInv, SemInv, mode = "run", jmp_buf, wasm_rt_trap
  PROVE  Semantics!Leave /\ SemInv'
<1>1. stack \in Seq(Entry)
  BY DEF IInv, TypeInv
<1>2. stack' = <<>> /\ mode' = "run"
  BY DEF wasm_rt_trap, ToHost
<1>3. stack' = Prefix(stack, 0) /\ 0 \in 0 .. Len(stack)
  BY <1>1, <1>2 DEF Prefix
<1> QED
  BY <1>2, <1>3, CutLeaves

\* A call, or the beginning of a block or a try.
LEMMA PushEnters ==
  ASSUME IInv, SemInv, mode = "run", mode' = "run", NEW e \in Entry, stack' = Append(stack, e),
         e.phase = "body", Active(e) => e.delegate \in 0 .. Len(stack),
         Active(e) /\ e.delegate # 0 => \A j \in DOMAIN stack : stack[j].kind = "func" => j <= e.delegate,
         Seen(e) \in Semantics!NewEntry(Len(stack))
  PROVE  Semantics!Enter /\ SemInv'
<1>1. stack \in Seq(Entry)
  BY DEF IInv, TypeInv
<1>2. PICK c : c = Control(stack)
  OBVIOUS
<1>3. /\ c \in Seq(ControlEntry) /\ Len(c) = Len(stack) /\ Scoped(c) /\ DOMAIN c = DOMAIN stack
      /\ \A i \in DOMAIN stack : c[i] = Seen(stack[i])
  BY <1>1, <1>2, ControlFacts DEF SemInv
<1>4. PICK f : f = Seen(e)
  OBVIOUS
<1>5. f \in ControlEntry /\ f.phase = "body" /\ (Active(f) <=> Active(e)) /\ f.delegate = e.delegate
  BY <1>4, SeenFacts
<1>6. Control(stack') = Append(c, f)
  BY <1>1, <1>2, <1>4, ControlAppend
<1>7. \A j \in DOMAIN c : c[j].kind = stack[j].kind
  BY <1>1, <1>3, SeenFacts
<1>8. Active(f) => f.delegate \in 0 .. Len(c)
  BY <1>3, <1>5
<1>9. Active(f) /\ f.delegate # 0 => \A j \in DOMAIN c : c[j].kind = "func" => j <= f.delegate
  BY <1>3, <1>5, <1>7
<1>10. Scoped(Append(c, f))
  BY <1>3, <1>5, <1>8, <1>9, ScopedAppend
<1>11. InFlight = NoTag /\ InFlight' = NoTag
  BY DEF InFlight
<1>12. Semantics!Enter
  BY <1>2, <1>3, <1>4, <1>6, <1>11 DEF Semantics!Enter
<1>13. SemInv'
  BY <1>6, <1>10 DEF SemInv
<1> QED
  BY <1>12, <1>13

\* An exception arrives at the catch blocks of the try p.
LEMMA LandFlies ==
  ASSUME IInv, SemInv, NEW t \in Tag, NEW h, Handles(Control(stack), t, Len(stack), h),
         NEW p \in 0 .. Len(stack), h[p] = h[Len(stack)],
         Control(stack') = Semantics!Prefix(Control(stack), p), mode' = "dispatch", active' = t
  PROVE  Semantics!Fly(t) /\ SemInv'
<1>1. stack \in Seq(Entry)
  BY DEF IInv, TypeInv
<1>2. PICK c : c = Control(stack)
  OBVIOUS
<1>3. c \in Seq(ControlEntry) /\ Len(c) = Len(stack) /\ p \in 0 .. Len(c) /\ Scoped(c) /\ Handles(c, t, Len(c), h) /\ Delegating(c)
  BY <1>1, <1>2, ControlFacts, ScopedDelegating DEF SemInv
<1>4. Semantics!HandlerOf(Semantics!Prefix(c, p), t) = h[p]
  BY <1>3, HandlerAt
<1>5. Semantics!HandlerOf(c, t) = h[Len(c)]
  BY <1>3, HandlerOfIs
<1>6. InFlight' = t
  BY DEF InFlight
<1>7. Semantics!Fly(t)
  BY <1>2, <1>3, <1>4, <1>5, <1>6 DEF Semantics!Fly
<1>8. Scoped(Semantics!Prefix(c, p))
  BY <1>3, ScopedPrefix
<1>9. SemInv'
  BY <1>2, <1>8 DEF SemInv
<1> QED
  BY <1>7, <1>9

\* An exception leaves wasm_rt_impl_try.
LEMMA HostFlies ==
  ASSUME IInv, SemInv, NEW t \in Tag, NEW h, Handles(Control(stack), t, Len(stack), h),
         h[Len(stack)] = 0, stack' = <<>>, mode' = "run"
  PROVE  Semantics!Fly(t) /\ SemInv'
<1>1. stack \in Seq(Entry)
  BY DEF IInv, TypeInv
<1>2. PICK c : c = Control(stack)
  OBVIOUS
<1>3. c \in Seq(ControlEntry) /\ Len(c) = Len(stack) /\ Handles(c, t, Len(c), h) /\ Delegating(c)
  BY <1>1, <1>2, ControlFacts, ScopedDelegating DEF SemInv
<1>4. Semantics!HandlerOf(c, t) = 0
  BY <1>3, HandlerOfIs
<1>5. Control(stack') = <<>> /\ InFlight' = NoTag
  BY ControlEmpty DEF InFlight
<1>6. Semantics!Fly(t)
  BY <1>2, <1>4, <1>5 DEF Semantics!Fly
<1>7. SemInv'
  BY <1>5 DEF SemInv, Scoped
<1> QED
  BY <1>6, <1>7

LEMMA ClearSeen ==
  ASSUME NEW d \in Entry, NEW e, e = [d EXCEPT !.initialized = FALSE]
  PROVE  e \in Entry /\ Seen(e) = Seen(d)
BY DEF Entry, Seen

\* By a long jump to the innermost try below n, or to the embedder.
LEMMA JumpFlies ==
  ASSUME IInv, SemInv, stack # <<>>, NEW t \in Tag, NEW h, Handles(Control(stack), t, Len(stack), h),
         NEW n \in 0 .. Len(stack), mode = "dispatch" => n < Len(stack), h[n] = h[Len(stack)],
         wasm_rt_throw(Innermost(stack, n)), active' = t
  PROVE  Semantics!Fly(t) /\ SemInv'
<1>1. stack \in Seq(Entry) /\ Buffers(stack, mode) /\ n \in Nat /\ Len(stack) \in Nat /\ jmp_buf
  BY DEF IInv, TypeInv
<1>2. PICK k : k = Innermost(stack, n)
  OBVIOUS
<1>3. k \in 0 .. Len(stack) /\ k <= n /\ (k # 0 => k \in DOMAIN stack /\ Active(stack[k]))
  BY <1>1, <1>2, InnermostFacts
<1>4. h[k] = h[Len(stack)]
  BY <1>1, <1>2, HandlerInnermost
<1>5. wasm_rt_throw(k)
  BY <1>2
<1>6. CASE k = 0
  <2>1. stack' = <<>> /\ mode' = "run"
    BY <1>1, <1>5, <1>6 DEF wasm_rt_throw, Host, ToHost
  <2>2. h[0] = 0
    BY <1>1 DEF Handles, HandlerStep
  <2> QED
    BY <1>4, <1>6, <2>1, <2>2, HostFlies
<1>7. CASE k # 0
  <2>1. stack[k].kind = "try" /\ stack[k].initialized
    BY <1>1, <1>3, <1>7 DEF Buffers, Active
  <2>2. PICK r : r = Prefix(stack, k)
    OBVIOUS
  <2>3. r \in Seq(Entry) /\ Len(r) = k /\ k \in 1 .. Len(r) /\ \A j \in 1 .. k : r[j] = stack[j]
    BY <1>1, <1>3, <1>7, <2>2, PrefixFacts
  <2>4. stack' = [r EXCEPT ![k].initialized = FALSE] /\ mode' = "dispatch"
    BY <1>3, <1>5, <1>7, <2>1, <2>2 DEF wasm_rt_throw, Host
  <2>5. PICK d : d = r[k]
    OBVIOUS
  <2>6. PICK e : e = [d EXCEPT !.initialized = FALSE]
    OBVIOUS
  <2>7. stack' = [r EXCEPT ![k] = e]
    BY <2>4, <2>5, <2>6, Zenon
  <2>8. d \in Entry
    BY <2>3, <2>5
  <2>9. e \in Entry /\ Seen(e) = Seen(d)
    BY <2>6, <2>8, ClearSeen
  <2>10. PICK x : x = stack'
    OBVIOUS
  <2>11. /\ x \in Seq(Entry) /\ Len(x) = Len(r) /\ x[k] = e
         /\ \A j \in 1 .. Len(r) : (j # k => x[j] = r[j])
    BY <2>3, <2>7, <2>9, <2>10, ReplaceEntry
  <2>12. \A j \in 1 .. k : Seen(x[j]) = Seen(stack[j])
    <3> SUFFICES ASSUME NEW j \in 1 .. k PROVE Seen(x[j]) = Seen(stack[j])
      OBVIOUS
    <3>1. CASE j = k
      BY <2>3, <2>5, <2>9, <2>11, <3>1
    <3>2. CASE j # k
      BY <2>3, <2>11, <3>2
    <3> QED
      BY <3>1, <3>2
  <2>13. Len(x) = k
    BY <2>3, <2>11
  <2>14. Control(x) = Semantics!Prefix(Control(stack), k)
    BY <1>1, <1>3, <2>11, <2>12, <2>13, ControlCut
  <2> QED
    BY <1>3, <1>4, <2>4, <2>10, <2>14, LandFlies
<1> QED
  BY <1>6, <1>7

\* By goto to the innermost try up to n, one of this function.
LEMMA GotoFlies ==
  ASSUME IInv, SemInv, NEW t \in Tag, NEW h, Handles(Control(stack), t, Len(stack), h),
         NEW n \in 0 .. Len(stack), h[n] = h[Len(stack)],
         NEW ts, ts = {i \in try_catch_stack_(stack) : i <= n}, ts # {}, GotoCatch(Back_(ts)), active' = t
  PROVE  Semantics!Fly(t) /\ SemInv'
<1>1. stack \in Seq(Entry)
  BY DEF IInv, TypeInv
<1>2. PICK k : k = Innermost(stack, n)
  OBVIOUS
<1>3. k \in 0 .. Len(stack)
  BY <1>1, <1>2, InnermostFacts
<1>4. Back_(ts) = k
  BY <1>1, <1>2, TryOf
<1>5. h[k] = h[Len(stack)]
  BY <1>1, <1>2, HandlerInnermost
<1>6. stack' = Prefix(stack, k) /\ mode' = "dispatch"
  BY <1>4 DEF GotoCatch
<1>7. Control(stack') = Semantics!Prefix(Control(stack), k)
  BY <1>1, <1>3, <1>6, ControlPrefix
<1> QED
  BY <1>3, <1>5, <1>6, <1>7, LandFlies

\* WriteThrow, with the writer's view of the trys up to n.
LEMMA ThrowFlies ==
  ASSUME IInv, SemInv, stack # <<>>, NEW t \in Tag, NEW h, Handles(Control(stack), t, Len(stack), h),
         NEW n \in 0 .. Len(stack), mode = "dispatch" => n < Len(stack), h[n] = h[Len(stack)],
         NEW ts, ts = {i \in try_catch_stack_(stack) : i <= n}, WriteThrow(ts, Innermost(stack, n)), active' = t
  PROVE  Semantics!Fly(t) /\ SemInv'
<1>1. CASE ts = {}
  <2>1. wasm_rt_throw(Innermost(stack, n))
    BY <1>1 DEF WriteThrow
  <2> QED
    BY <2>1, JumpFlies
<1>2. CASE ts # {}
  <2>1. GotoCatch(Back_(ts))
    BY <1>2 DEF WriteThrow
  <2> QED
    BY <1>2, <2>1, GotoFlies
<1> QED
  BY <1>1, <1>2

\* There is a handler to speak of.
LEMMA HandlersOfStack ==
  ASSUME IInv, SemInv, NEW t
  PROVE  \E h : Handles(Control(stack), t, Len(stack), h)
<1>1. stack \in Seq(Entry)
  BY DEF IInv, TypeInv
<1>2. Control(stack) \in Seq(ControlEntry) /\ Len(Control(stack)) = Len(stack) /\ Len(stack) \in Nat /\ Delegating(Control(stack))
  BY <1>1, ControlFacts, ScopedDelegating DEF SemInv
<1>3. PICK c \in Seq(ControlEntry) : c = Control(stack)
  BY <1>2
<1>4. PICK n \in Nat : n = Len(stack)
  BY <1>2
<1>5. n <= Len(c) /\ Delegating(c)
  BY <1>2, <1>3, <1>4
<1>6. \E h : Handles(c, t, n, h)
  BY <1>5, HandlersExist
<1> QED
  BY <1>3, <1>4, <1>6

-----------------------------------------------------------------------------
(* Every step implements a step of the semantics                            *)

LEMMA TryImplemented ==
  ASSUME IInv, SemInv, wasm_rt_impl_try
  PROVE  UNCHANGED Semantics!vars /\ SemInv'
<1>1. stack' = stack /\ mode' = mode /\ active' = active
  BY DEF wasm_rt_impl_try
<1>2. Control(stack') = Control(stack) /\ InFlight' = InFlight
  BY <1>1 DEF InFlight
<1> QED
  BY <1>1, <1>2 DEF SemInv, Semantics!vars

LEMMA CallImplemented ==
  ASSUME IInv, SemInv, Call
  PROVE  (Semantics!Enter \/ Semantics!Leave) /\ SemInv'
<1>1. mode = "run" /\ jmp_buf /\ stack \in Seq(Entry)
  BY DEF Call, IInv, TypeInv
<1>2. CASE depth + 1 > MaxDepth
  BY <1>1, <1>2, TrapLeaves DEF Call
<1>3. CASE ~(depth + 1 > MaxDepth)
  <2>1. stack' = Append(stack, Plain("func")) /\ mode' = mode
    BY <1>3 DEF Call
  <2>2. PICK e : e = Plain("func")
    OBVIOUS
  <2>3. e \in Entry /\ ~Active(e) /\ e.phase = "body"
    BY <2>2, PlainEntry DEF Kind, Plain
  <2>4. Seen(e) = Semantics!Entering("func", {}, 0)
    BY <2>2 DEF Seen, Plain, Semantics!Entering
  <2>5. Seen(e) \in Semantics!NewEntry(Len(stack))
    BY <2>4 DEF Semantics!NewEntry
  <2> QED
    BY <1>1, <2>1, <2>2, <2>3, <2>5, PushEnters
<1> QED
  BY <1>2, <1>3

LEMMA BlockImplemented ==
  ASSUME IInv, SemInv, Block
  PROVE  Semantics!Enter /\ SemInv'
<1>1. mode = "run" /\ mode' = mode
  BY DEF Block, InCode
<1>2. PICK k \in {"block", "loop"} : stack' = Append(stack, Plain(k))
  BY DEF Block
<1>3. PICK e : e = Plain(k)
  OBVIOUS
<1>4. e \in Entry /\ ~Active(e) /\ e.phase = "body"
  BY <1>3, PlainEntry DEF Kind, Plain
<1>5. Seen(e) = Semantics!Entering(k, {}, 0)
  BY <1>3 DEF Seen, Plain, Semantics!Entering
<1>6. Seen(e) \in Semantics!NewEntry(Len(stack))
  BY <1>5 DEF Semantics!NewEntry
<1> QED
  BY <1>1, <1>2, <1>3, <1>4, <1>6, PushEnters

NewTry(C, q, o) == [Plain("try") EXCEPT !.catches = C, !.delegate = q, !.outer = o, !.initialized = TRUE]

LEMMA TryEntry ==
  ASSUME NEW C \in SUBSET Tag, NEW q \in Nat, NEW o \in Nat, NEW e, e = NewTry(C, q, o)
  PROVE  e \in Entry /\ e.phase = "body" /\ e.delegate = q /\ Seen(e) = Semantics!Entering("try", C, q)
<1>1. e \in Entry
  BY DEF NewTry, Plain, Entry, Kind
<1>2. e.kind = "try" /\ e.phase = "body" /\ e.catches = C /\ e.delegate = q /\ e.saved = NoTag
  BY DEF NewTry, Plain
<1>3. Seen(e) = Semantics!Entering("try", C, q)
  BY <1>2, Zenon DEF Seen, Semantics!Entering
<1> QED
  BY <1>1, <1>2, <1>3

LEMMA BeginTryImplemented ==
  ASSUME IInv, SemInv, NEW C \in SUBSET Tag, NEW q \in Nat, BeginTry(C, q),
         q = 0 \/ (C = {} /\ q \in label_stack_(stack))
  PROVE  Semantics!Enter /\ SemInv'
<1>1. mode = "run" /\ mode' = mode /\ stack \in Seq(Entry) /\ unwind_target \in Nat /\ Len(stack) \in Nat
  BY DEF BeginTry, InCode, IInv, TypeInv
<1> PICK o \in Nat : o = unwind_target
  BY <1>1
<1>2. PICK e : e = NewTry(C, q, o)
  OBVIOUS
<1>3. e \in Entry /\ e.phase = "body" /\ e.delegate = q /\ Seen(e) = Semantics!Entering("try", C, q)
  BY <1>2, TryEntry
<1>4. stack' = Append(stack, e)
  BY <1>2, Zenon DEF BeginTry, NewTry
<1>5. q # 0 => C = {} /\ q \in 1 .. Len(stack) /\ \A j \in DOMAIN stack : stack[j].kind = "func" => j <= q
  BY <1>1 DEF label_stack_
<1>6. Seen(e) \in Semantics!NewEntry(Len(stack))
  BY <1>3, <1>5 DEF Semantics!NewEntry
<1>7. e.delegate \in 0 .. Len(stack)
  BY <1>1, <1>3, <1>5
<1>8. Active(e) /\ e.delegate # 0 => \A j \in DOMAIN stack : stack[j].kind = "func" => j <= e.delegate
  BY <1>3, <1>5
<1> QED
  BY <1>1, <1>3, <1>4, <1>6, <1>7, <1>8, PushEnters

LEMMA TrysImplemented ==
  ASSUME IInv, SemInv, WriteTryCatch \/ WriteTryDelegate
  PROVE  Semantics!Enter /\ SemInv'
<1>1. CASE WriteTryCatch
  <2>1. PICK C \in SUBSET (Tag \ BigTag) : BeginTry(C, 0)
    BY <1>1 DEF WriteTryCatch
  <2>2. C \in SUBSET Tag /\ 0 \in Nat
    OBVIOUS
  <2> QED
    BY <2>1, <2>2, BeginTryImplemented
<1>2. CASE WriteTryDelegate
  <2>1. PICK q \in label_stack_(stack) : BeginTry({}, q)
    BY <1>2 DEF WriteTryDelegate
  <2>2. stack \in Seq(Entry)
    BY DEF IInv, TypeInv
  <2>3. q \in Nat /\ {} \in SUBSET Tag
    BY <2>2, TryStack
  <2> QED
    BY <2>1, <2>3, BeginTryImplemented
<1> QED
  BY <1>1, <1>2

LEMMA CutImplemented ==
  ASSUME IInv, SemInv, Return \/ ReturnCall \/ End \/ GotoLabel
  PROVE  Semantics!Leave /\ SemInv'
<1>1. stack \in Seq(Entry) /\ Len(stack) \in Nat /\ stack # <<>> /\ mode = "run" /\ mode' = "run"
  BY DEF IInv, TypeInv, Return, ReturnCall, End, GotoLabel, InCode
<1>2. \E n \in 0 .. Len(stack) : stack' = Prefix(stack, n)
  <2>1. CASE Return \/ ReturnCall
    <3>1. PICK f \in Frames(stack) : stack' = Prefix(stack, f) \/ stack' = Prefix(stack, f - 1)
      BY <2>1 DEF Return, ReturnCall
    <3>2. f \in 0 .. Len(stack) /\ f - 1 \in 0 .. Len(stack)
      BY <1>1 DEF Frames
    <3> QED
      BY <3>1, <3>2
  <2>2. CASE End
    <3>1. stack' = Prefix(stack, Len(stack) - 1)
      BY <2>2 DEF End
    <3>2. Len(stack) - 1 \in 0 .. Len(stack)
      BY <1>1
    <3> QED
      BY <3>1, <3>2
  <2>3. CASE GotoLabel
    <3>1. PICK q \in label_stack_(stack) : stack' = Prefix(stack, q) \/ stack' = Prefix(stack, q - 1)
      BY <2>3 DEF GotoLabel
    <3>2. q \in 0 .. Len(stack) /\ q - 1 \in 0 .. Len(stack)
      BY <1>1, TryStack
    <3> QED
      BY <3>1, <3>2
  <2> QED
    BY <2>1, <2>2, <2>3
<1> QED
  BY <1>1, <1>2, CutLeaves

LEMMA LoadImplemented ==
  ASSUME IInv, SemInv, InCode, NEW t \in Tag, Load(t)
  PROVE  (Semantics!Throw \/ Semantics!Leave) /\ SemInv'
<1>1. mode = "run" /\ stack # <<>> /\ stack \in Seq(Entry) /\ Len(stack) \in 0 .. Len(stack) /\ jmp_buf
  BY DEF InCode, IInv, TypeInv
<1>2. CASE t \in BigTag
  BY <1>1, <1>2, TrapLeaves DEF Load
<1>3. CASE t \notin BigTag
  <2>1. active' = t /\ WriteThrow(try_catch_stack_(stack), unwind_target)
    BY <1>3 DEF Load
  <2>2. unwind_target = Innermost(stack, Len(stack))
    BY <1>1 DEF IInv
  <2>3. PICK h : Handles(Control(stack), t, Len(stack), h)
    BY HandlersOfStack
  <2>4. try_catch_stack_(stack) = {i \in try_catch_stack_(stack) : i <= Len(stack)}
    BY <1>1, TryStack
  <2>5. WriteThrow(try_catch_stack_(stack), Innermost(stack, Len(stack)))
    BY <2>1, <2>2
  <2>6. Semantics!Fly(t) /\ SemInv'
    BY <1>1, <2>1, <2>3, <2>4, <2>5, ThrowFlies
  <2>7. InFlight = NoTag
    BY <1>1 DEF InFlight
  <2> QED
    BY <2>6, <2>7 DEF Semantics!Throw
<1> QED
  BY <1>2, <1>3

LEMMA ThrowImplemented ==
  ASSUME IInv, SemInv, Throw \/ Rethrow \/ Trap
  PROVE  (Semantics!Throw \/ Semantics!Leave) /\ SemInv'
<1>1. CASE Throw
  <2>1. PICK t \in Tag : Load(t)
    BY <1>1 DEF Throw
  <2> QED
    BY <1>1, <2>1, LoadImplemented DEF Throw
<1>2. CASE Rethrow
  <2>1. PICK p \in label_stack_(stack) : stack[p].kind = "try" /\ stack[p].phase = "catch" /\ Load(stack[p].saved)
    BY <1>2 DEF Rethrow
  <2>2. stack \in Seq(Entry)
    BY DEF IInv, TypeInv
  <2>3. stack[p] \in Entry /\ p \in DOMAIN stack
    BY <2>2, TryStack
  <2>4. PICK c : c = Control(stack)
    OBVIOUS
  <2>5. c[p] = Seen(stack[p]) /\ p \in DOMAIN c /\ Scoped(c)
    BY <2>2, <2>3, <2>4, ControlFacts DEF SemInv
  <2>6. c[p].kind = "try" /\ c[p].phase = "catch" /\ c[p].saved = stack[p].saved
    BY <2>1, <2>3, <2>5, SeenFacts
  <2>7. stack[p].saved \in Tag
    BY <2>5, <2>6 DEF Scoped
  <2> QED
    BY <1>2, <2>1, <2>7, LoadImplemented DEF Rethrow
<1>3. CASE Trap
  <2>1. mode = "run" /\ jmp_buf /\ wasm_rt_trap
    BY <1>3 DEF Trap, InCode, IInv
  <2> QED
    BY <2>1, TrapLeaves
<1> QED
  BY <1>1, <1>2, <1>3

LEMMA ReplaceControl ==
  ASSUME NEW s \in Seq(ControlEntry), NEW p \in 1 .. Len(s), NEW e \in ControlEntry, NEW x, x = [s EXCEPT ![p] = e]
  PROVE  /\ x \in Seq(ControlEntry) /\ Len(x) = Len(s) /\ x[p] = e
         /\ \A j \in 1 .. Len(s) : (j # p => x[j] = s[j])
OBVIOUS

\* What Catch does to an entry, or to what is seen of it.
Caught(d) == [d EXCEPT !.phase = "catch"]
Saved(d, a) == [d EXCEPT !.saved = a]

LEMMA SeenCatch ==
  ASSUME NEW d \in Entry, NEW a \in Tag \cup {NoTag},
         NEW c, c = Caught(d), NEW e, e = Saved(c, a),
         NEW b, b = Caught(Seen(d)), NEW f, f = Saved(b, a)
  PROVE  /\ b \in ControlEntry /\ f \in ControlEntry /\ f = Seen(e)
         /\ ~Active(f) /\ f.saved = a
<1>1. c \in Entry /\ e \in Entry
  BY CatchEntry DEF Caught, Saved
<1>2. e.kind = d.kind /\ e.phase = "catch" /\ e.catches = d.catches /\ e.delegate = d.delegate /\ e.saved = a
  BY DEF Entry, Caught, Saved
<1>3. Seen(e) = [kind |-> d.kind, phase |-> "catch", catches |-> d.catches, delegate |-> d.delegate, saved |-> a]
  BY <1>2, Zenon DEF Seen
<1>4. f = [kind |-> d.kind, phase |-> "catch", catches |-> d.catches, delegate |-> d.delegate, saved |-> a]
  BY DEF Seen, Caught, Saved
<1>5. b = [kind |-> d.kind, phase |-> "catch", catches |-> d.catches, delegate |-> d.delegate, saved |-> d.saved]
  BY DEF Seen, Caught
<1> d.kind \in Kind /\ d.catches \in SUBSET Tag /\ d.delegate \in Nat /\ d.saved \in Tag \cup {NoTag}
  BY DEF Entry
<1>6. b \in ControlEntry
  BY <1>5 DEF ControlEntry
<1>7. f \in ControlEntry
  BY <1>4 DEF ControlEntry
<1>8. ~Active(f) /\ f.saved = a
  BY <1>4 DEF Active
<1> QED
  BY <1>3, <1>4, <1>6, <1>7, <1>8

LEMMA CatchImplemented ==
  ASSUME IInv, SemInv, Catch
  PROVE  Semantics!Catch /\ SemInv'
<1> USE DEF Catch
<1>1. mode = "dispatch" /\ mode' = "run" /\ stack[Top].delegate = 0 /\ active \in stack[Top].catches
  BY Zenon
<1>2. stack' = [stack EXCEPT ![Top].phase = "catch", ![Top].saved = active]
  BY Zenon
<1> HIDE DEF Catch
<1>3. stack \in Seq(Entry) /\ Top \in 1 .. Len(stack) /\ Top = Len(stack) /\ Top \in DOMAIN stack /\ stack[Top] \in Entry /\ Active(stack[Top])
  BY <1>1, AtHead
<1>4. active \in Tag
  BY <1>1 DEF SemInv
<1>5. PICK p : p = Top
  OBVIOUS
<1>6. PICK d : d = stack[p]
  OBVIOUS
<1>7. PICK c : c = Caught(d)
  OBVIOUS
<1>8. PICK s : s = [stack EXCEPT ![p] = c]
  OBVIOUS
<1>9. PICK a \in Tag \cup {NoTag} : a = active
  BY <1>4
<1>10. PICK e : e = Saved(c, a)
  OBVIOUS
<1>11. PICK x : x = stack'
  OBVIOUS
<1>12. d \in Entry /\ c \in Entry /\ e \in Entry
  BY <1>3, <1>5, <1>6, <1>7, <1>10, CatchEntry DEF Caught, Saved
<1>13. /\ s \in Seq(Entry) /\ Len(s) = Len(stack) /\ s[p] = c
       /\ \A j \in 1 .. Len(stack) : (j # p => s[j] = stack[j])
  BY <1>3, <1>5, <1>8, <1>12, ReplaceEntry
<1>14. x = [s EXCEPT ![p] = e]
  <2>1. x = [s EXCEPT ![p].saved = a]
    BY <1>2, <1>5, <1>6, <1>7, <1>8, <1>9, <1>11, Zenon DEF Caught
  <2> QED
    BY <1>10, <1>13, <2>1, Zenon DEF Saved
<1>15. /\ x \in Seq(Entry) /\ Len(x) = Len(stack) /\ x[p] = e
       /\ \A j \in 1 .. Len(stack) : (j # p => x[j] = stack[j])
  <2>1. p \in 1 .. Len(s)
    BY <1>3, <1>5, <1>13
  <2>2. x \in Seq(Entry) /\ Len(x) = Len(s) /\ x[p] = e /\ \A j \in 1 .. Len(s) : (j # p => x[j] = s[j])
    BY <1>12, <1>13, <1>14, <2>1, ReplaceEntry
  <2> QED
    BY <1>13, <2>2
<1>16. PICK C : C = Control(stack)
  OBVIOUS
<1>17. /\ C \in Seq(ControlEntry) /\ Len(C) = Len(stack) /\ DOMAIN C = DOMAIN stack /\ Scoped(C) /\ Delegating(C)
       /\ \A i \in DOMAIN stack : C[i] = Seen(stack[i])
  BY <1>3, <1>16, ControlFacts, ScopedDelegating DEF SemInv
<1>18. PICK b : b = Caught(Seen(d))
  OBVIOUS
<1>19. PICK f : f = Saved(b, a)
  OBVIOUS
<1>20. b \in ControlEntry /\ f \in ControlEntry /\ f = Seen(e) /\ ~Active(f) /\ f.saved = a
  BY <1>7, <1>10, <1>12, <1>18, <1>19, SeenCatch
<1>21. PICK S : S = [C EXCEPT ![p] = b]
  OBVIOUS
<1>22. p \in 1 .. Len(C) /\ p = Len(C) /\ C[p] = Seen(d)
  BY <1>3, <1>5, <1>6, <1>17
<1>23. S \in Seq(ControlEntry) /\ Len(S) = Len(C) /\ S[p] = b /\ \A j \in 1 .. Len(C) : (j # p => S[j] = C[j])
  BY <1>17, <1>20, <1>21, <1>22, ReplaceControl
<1>24. PICK X : X = [S EXCEPT ![p] = f]
  OBVIOUS
<1>25. /\ X \in Seq(ControlEntry) /\ Len(X) = Len(C) /\ X[p] = f
       /\ \A j \in 1 .. Len(C) : (j # p => X[j] = C[j])
  <2>1. p \in 1 .. Len(S)
    BY <1>22, <1>23
  <2>2. X \in Seq(ControlEntry) /\ Len(X) = Len(S) /\ X[p] = f /\ \A j \in 1 .. Len(S) : (j # p => X[j] = S[j])
    BY <1>20, <1>23, <1>24, <2>1, ReplaceControl
  <2> QED
    BY <1>23, <2>2
<1>26. X = [C EXCEPT ![p].phase = "catch", ![p].saved = a]
  BY <1>18, <1>19, <1>21, <1>22, <1>23, <1>24, Zenon DEF Caught, Saved
<1>27. \A i \in 1 .. Len(x) : X[i] = Seen(x[i])
  <2> SUFFICES ASSUME NEW i \in 1 .. Len(x) PROVE X[i] = Seen(x[i])
    OBVIOUS
  <2>1. i \in 1 .. Len(stack) /\ i \in 1 .. Len(C) /\ i \in DOMAIN stack
    BY <1>3, <1>15, <1>17
  <2>2. CASE i = p
    BY <1>15, <1>20, <1>25, <2>2
  <2>3. CASE i # p
    BY <1>15, <1>17, <1>25, <2>1, <2>3
  <2> QED
    BY <2>2, <2>3
<1>28. Len(X) = Len(x)
  BY <1>15, <1>17, <1>25
<1>29. Control(x) = X
  BY <1>15, <1>25, <1>27, <1>28, ControlUnique
<1>30. Semantics!HandlerOf(C, active) = p
  <2>1. PICK h : Handles(C, active, Len(C), h)
    BY <1>16, <1>17, HandlersOfStack
  <2>2. Semantics!HandlerOf(C, active) = h[Len(C)]
    BY <1>17, <2>1, HandlerOfIs
  <2>3. h[p] = HandlerStep(C, active, h, p)
    BY <1>22, <2>1 DEF Handles
  <2>4. C[p].delegate = d.delegate /\ C[p].catches = d.catches /\ Active(C[p])
    <3>1. Active(d)
      BY <1>3, <1>5, <1>6
    <3>2. Seen(d).delegate = d.delegate /\ Seen(d).catches = d.catches /\ Active(Seen(d))
      BY <1>12, <3>1, SeenFacts
    <3> QED
      BY <1>22, <3>2
  <2>5. d.delegate = 0 /\ active \in d.catches
    BY <1>1, <1>5, <1>6
  <2>6. h[p] = p
    BY <1>22, <2>3, <2>4, <2>5 DEF HandlerStep
  <2> QED
    BY <1>22, <2>2, <2>6
<1>31. Semantics!Prefix(C, p) = C
  BY <1>17, <1>22 DEF Semantics!Prefix
<1>32. InFlight = active /\ active # NoTag /\ InFlight' = NoTag
  BY <1>1, <1>4, UnwindAssumption DEF InFlight
<1>33. p # 0
  BY <1>22
<1>34. Control(stack') = [Semantics!Prefix(C, p) EXCEPT ![p].phase = "catch", ![p].saved = active]
  BY <1>9, <1>11, <1>26, <1>29, <1>31, Zenon
<1>35. Semantics!Catch
  BY <1>16, <1>30, <1>32, <1>33, <1>34, Zenon DEF Semantics!Catch
<1>36. Scoped(X)
  BY <1>4, <1>9, <1>17, <1>20, <1>22, <1>25, ScopedCatch
<1>37. SemInv'
  BY <1>1, <1>11, <1>29, <1>36 DEF SemInv
<1> QED
  BY <1>35, <1>37

LEMMA FlyUnwinds ==
  ASSUME SemInv, mode = "dispatch", Semantics!Fly(active)
  PROVE  Semantics!Unwind
<1>1. InFlight = active /\ active # NoTag
  BY UnwindAssumption DEF SemInv, InFlight
<1> QED
  BY <1>1 DEF Semantics!Unwind

\* What the handler is at the head of the catch blocks.
LEMMA HeadHandles ==
  ASSUME IInv, SemInv, mode = "dispatch", NEW h, Handles(Control(stack), active, Len(stack), h)
  PROVE  /\ stack[Top].delegate # 0 => h[stack[Top].delegate] = h[Len(stack)]
         /\ stack[Top].delegate = 0 /\ active \notin stack[Top].catches => h[Top - 1] = h[Len(stack)]
<1>1. stack \in Seq(Entry) /\ Top \in 1 .. Len(stack) /\ Top = Len(stack) /\ Top \in DOMAIN stack /\ stack[Top] \in Entry /\ Active(stack[Top])
  BY AtHead
<1>2. PICK p : p = Top
  OBVIOUS
<1>3. PICK c : c = Control(stack)
  OBVIOUS
<1>4. c[p] = Seen(stack[p])
  BY <1>1, <1>2, <1>3, ControlFacts
<1>5. c[p].delegate = stack[p].delegate /\ c[p].catches = stack[p].catches /\ Active(c[p])
  BY <1>1, <1>2, <1>4, SeenFacts
<1>6. p \in 0 .. Len(stack) /\ p # 0 /\ p = Len(stack)
  BY <1>1, <1>2
<1>7. h[p] = HandlerStep(c, active, h, p)
  BY <1>3, <1>6 DEF Handles
<1>8. stack[p].delegate # 0 => h[stack[p].delegate] = h[p]
  BY <1>5, <1>6, <1>7 DEF HandlerStep
<1>9. stack[p].delegate = 0 /\ active \notin stack[p].catches => h[p - 1] = h[p]
  BY <1>5, <1>6, <1>7 DEF HandlerStep
<1> QED
  BY <1>2, <1>6, <1>8, <1>9

LEMMA NotCaughtImplemented ==
  ASSUME IInv, SemInv, NotCaught
  PROVE  Semantics!Unwind /\ SemInv'
<1>1. /\ mode = "dispatch" /\ WriteThrow(try_catch_stack_(stack) \ {Top}, stack[Top].outer) /\ active' = active
      /\ stack[Top].delegate = 0 /\ active \notin stack[Top].catches
  BY DEF NotCaught
<1>2. /\ stack # <<>> /\ stack \in Seq(Entry) /\ Top \in 1 .. Len(stack) /\ Top = Len(stack)
      /\ Top - 1 \in 0 .. Len(stack) /\ stack[Top].outer = Innermost(stack, Top - 1)
  BY <1>1, AtHead
<1>3. PICK t \in Tag : t = active
  BY <1>1 DEF SemInv
<1>4. PICK h : Handles(Control(stack), active, Len(stack), h)
  BY HandlersOfStack
<1>5. PICK n : n = Top - 1
  OBVIOUS
<1>6. n \in 0 .. Len(stack) /\ n < Len(stack) /\ h[n] = h[Len(stack)]
  BY <1>1, <1>2, <1>4, <1>5, HeadHandles
<1>7. try_catch_stack_(stack) \ {Top} = {i \in try_catch_stack_(stack) : i <= n}
  <2>1. \A i \in try_catch_stack_(stack) : i \in 1 .. Len(stack)
    BY <1>2, TryStack
  <2>2. \A i \in try_catch_stack_(stack) : i # Top <=> i <= n
    BY <1>2, <1>5, <2>1
  <2> QED
    BY <2>2
<1>8. PICK ts : ts = {i \in try_catch_stack_(stack) : i <= n}
  OBVIOUS
<1>9. WriteThrow(ts, Innermost(stack, n))
  BY <1>1, <1>2, <1>5, <1>7, <1>8
<1>10. Semantics!Fly(t) /\ SemInv'
  BY <1>1, <1>2, <1>3, <1>4, <1>6, <1>8, <1>9, ThrowFlies
<1>11. Semantics!Fly(active)
  BY <1>3, <1>10
<1> QED
  BY <1>1, <1>10, <1>11, FlyUnwinds

\* The label of the delegate that is at its catch blocks.
LEMMA HeadLabel ==
  ASSUME IInv, SemInv, mode = "dispatch", stack[Top].delegate # 0
  PROVE  /\ stack[Top].delegate \in 1 .. Len(stack) /\ stack[Top].delegate < Len(stack)
         /\ \A j \in DOMAIN stack : stack[j].kind = "func" => j <= stack[Top].delegate
<1>1. stack \in Seq(Entry) /\ Top \in 1 .. Len(stack) /\ Top = Len(stack) /\ Top \in DOMAIN stack /\ stack[Top] \in Entry /\ Active(stack[Top])
  BY AtHead
<1>2. PICK p : p = Top
  OBVIOUS
<1>3. PICK c : c = Control(stack)
  OBVIOUS
<1>4. DOMAIN c = DOMAIN stack /\ Scoped(c) /\ \A i \in DOMAIN stack : c[i] = Seen(stack[i])
  BY <1>1, <1>3, ControlFacts DEF SemInv
<1>5. c[p].delegate = stack[p].delegate /\ Active(c[p]) /\ p \in DOMAIN c
  BY <1>1, <1>2, <1>4, SeenFacts
<1>6. \A j \in DOMAIN stack : c[j].kind = stack[j].kind
  BY <1>1, <1>4, SeenFacts
<1>7. c[p].delegate \in 0 .. p - 1 /\ \A j \in DOMAIN c : j < p /\ c[j].kind = "func" => j <= c[p].delegate
  BY <1>2, <1>4, <1>5 DEF Scoped
<1>8. stack[p].kind # "func" /\ DOMAIN stack = 1 .. Len(stack) /\ p = Len(stack) /\ p \in Nat
  BY <1>1, <1>2 DEF Active
<1>9. \A j \in DOMAIN stack : j < p \/ j = p
  BY <1>8
<1> QED
  BY <1>2, <1>4, <1>5, <1>6, <1>7, <1>8, <1>9

LEMMA DelegateToTryImplemented ==
  ASSUME IInv, SemInv, DelegateToTry
  PROVE  Semantics!Unwind /\ SemInv'
<1>1. mode = "dispatch" /\ active' = active /\ stack[Top].delegate # 0
  BY DEF DelegateToTry
<1>2. PICK n : n = stack[Top].delegate
  OBVIOUS
<1>3. PICK ts : ts = {i \in try_catch_stack_(stack) : i <= n}
  OBVIOUS
<1>4. ts # {} /\ GotoCatch(Back_(ts))
  BY <1>2, <1>3 DEF DelegateToTry
<1>5. PICK t \in Tag : t = active
  BY <1>1 DEF SemInv
<1>6. PICK h : Handles(Control(stack), active, Len(stack), h)
  BY HandlersOfStack
<1>7. n \in 0 .. Len(stack) /\ h[n] = h[Len(stack)]
  BY <1>1, <1>2, <1>6, HeadHandles, HeadLabel
<1>8. Semantics!Fly(t) /\ SemInv'
  BY <1>1, <1>3, <1>4, <1>5, <1>6, <1>7, GotoFlies
<1>9. Semantics!Fly(active)
  BY <1>5, <1>8
<1> QED
  BY <1>1, <1>8, <1>9, FlyUnwinds

LEMMA DelegateToCallerImplemented ==
  ASSUME IInv, SemInv, DelegateToCaller
  PROVE  Semantics!Unwind /\ SemInv'
<1>1. mode = "dispatch" /\ active' = active /\ stack[Top].delegate # 0
  BY DEF DelegateToCaller
<1>2. PICK q : q = stack[Top].delegate
  OBVIOUS
<1>3. PICK ts : ts = try_catch_stack_(stack)
  OBVIOUS
<1>4. PICK f : f = Front_(ts)
  OBVIOUS
<1>5. {i \in ts : i <= q} = {} /\ wasm_rt_throw(stack[f].outer)
  BY <1>2, <1>3, <1>4 DEF DelegateToCaller
<1>6. /\ stack # <<>> /\ stack \in Seq(Entry) /\ Outers(stack) /\ Top \in ts /\ Len(stack) \in Nat
      /\ ts \subseteq 0 .. Len(stack) /\ DOMAIN stack = 1 .. Len(stack)
  BY <1>1, <1>3, AtHead, TryStack
<1>7. f \in ts /\ \A j \in ts : f <= j
  BY <1>4, <1>6, FrontIsSmallest
<1>8. f \in DOMAIN stack /\ Active(stack[f]) /\ f \in Nat
  BY <1>3, <1>6, <1>7, TryStack
<1>9. q \in 1 .. Len(stack) /\ q < Len(stack) /\ \A j \in DOMAIN stack : stack[j].kind = "func" => j <= q
  BY <1>1, <1>2, HeadLabel
<1>10. PICK n : n = f - 1
  OBVIOUS
<1>11. n \in 0 .. Len(stack) /\ n < Len(stack) /\ q <= n /\ f = n + 1
  BY <1>5, <1>6, <1>7, <1>8, <1>9, <1>10
<1>12. wasm_rt_throw(Innermost(stack, n))
  BY <1>5, <1>6, <1>8, <1>10 DEF Outers
<1>13. \A j \in DOMAIN stack : q < j /\ j <= n => ~Active(stack[j])
  <2> SUFFICES ASSUME NEW j \in DOMAIN stack, q < j, j <= n, Active(stack[j]) PROVE FALSE
    OBVIOUS
  <2>1. j \in Nat /\ q \in Nat
    BY <1>6, <1>9
  <2>2. j \in label_stack_(stack)
    <3>1. \A i \in DOMAIN stack : i > j => stack[i].kind # "func"
      BY <1>6, <1>9, <2>1
    <3> QED
      BY <3>1 DEF label_stack_
  <2>3. j \in ts
    BY <1>3, <2>2 DEF try_catch_stack_
  <2>4. f <= j
    BY <1>7, <2>3
  <2> QED
    BY <1>8, <1>10, <2>1, <2>4
<1>14. PICK t \in Tag : t = active
  BY <1>1 DEF SemInv
<1>15. PICK h : Handles(Control(stack), active, Len(stack), h)
  BY HandlersOfStack
<1>16. h[q] = h[Len(stack)]
  BY <1>1, <1>2, <1>15, HeadHandles
<1>17. h[n] = h[q]
  <2>1. PICK c : c = Control(stack)
    OBVIOUS
  <2>2. c \in Seq(ControlEntry) /\ Len(c) = Len(stack) /\ DOMAIN c = DOMAIN stack /\ \A i \in DOMAIN stack : c[i] = Seen(stack[i])
    BY <1>6, <2>1, ControlFacts
  <2>3. \A j \in DOMAIN c : q < j /\ j <= n => ~Active(c[j])
    BY <1>6, <1>13, <2>2, SeenFacts
  <2>4. q \in 0 .. Len(c) /\ n \in 0 .. Len(c) /\ Handles(c, active, Len(c), h)
    BY <1>9, <1>11, <1>15, <2>1, <2>2
  <2> QED
    BY <1>11, <2>2, <2>3, <2>4, HandlerBelow
<1>18. Semantics!Fly(t) /\ SemInv'
  BY <1>1, <1>6, <1>11, <1>12, <1>14, <1>15, <1>16, <1>17, JumpFlies
<1>19. Semantics!Fly(active)
  BY <1>14, <1>18
<1> QED
  BY <1>1, <1>18, <1>19, FlyUnwinds

LEMMA NextImplemented == IInv /\ SemInv /\ [Next]_vars => [Semantics!Next]_(Semantics!vars) /\ SemInv'
<1> SUFFICES ASSUME IInv, SemInv, [Next]_vars PROVE [Semantics!Next]_(Semantics!vars) /\ SemInv'
  OBVIOUS
<1> USE DEF Semantics!Next
<1>1. CASE wasm_rt_impl_try
  BY <1>1, TryImplemented
<1>2. CASE Call
  BY <1>2, CallImplemented
<1>3. CASE Return \/ ReturnCall \/ End \/ GotoLabel
  BY <1>3, CutImplemented
<1>4. CASE Block
  BY <1>4, BlockImplemented
<1>5. CASE WriteTryCatch \/ WriteTryDelegate
  BY <1>5, TrysImplemented
<1>6. CASE Throw \/ Rethrow \/ Trap
  BY <1>6, ThrowImplemented
<1>7. CASE Catch
  BY <1>7, CatchImplemented
<1>8. CASE NotCaught
  BY <1>8, NotCaughtImplemented
<1>9. CASE DelegateToTry
  BY <1>9, DelegateToTryImplemented
<1>10. CASE DelegateToCaller
  BY <1>10, DelegateToCallerImplemented
<1>11. CASE UNCHANGED vars
  <2>1. stack' = stack /\ mode' = mode /\ active' = active
    BY <1>11 DEF vars
  <2>2. Control(stack') = Control(stack) /\ InFlight' = InFlight
    BY <2>1 DEF InFlight
  <2> QED
    BY <2>1, <2>2 DEF SemInv, Semantics!vars
<1> QED
  BY <1>1, <1>2, <1>3, <1>4, <1>5, <1>6, <1>7, <1>8, <1>9, <1>10, <1>11 DEF Next, Dispatch

LEMMA InitImplemented == Init => Semantics!Init /\ SemInv
<1> SUFFICES ASSUME Init PROVE Semantics!Init /\ SemInv
  OBVIOUS
<1>1. Control(stack) = <<>> /\ mode = "run"
  BY ControlEmpty DEF Init
<1>2. InFlight = NoTag
  BY <1>1 DEF InFlight
<1> QED
  BY <1>1, <1>2 DEF Semantics!Init, SemInv, Scoped

\* setjmp, longjmp and goto do what WebAssembly says: for every nesting of
\* calls, blocks, trys and delegates, an exception runs the clause of the
\* handler that the semantics defines for it, with its own payload, passes no
\* handler on the way and reaches the embedder only when there is none; traps,
\* branches and returns leave exactly what they are said to leave.
THEOREM SemanticsImplemented == Spec => ImplementsSemantics
BY InitIInv, NextIInv, InitImplemented, NextImplemented, PTL DEF Spec, ImplementsSemantics, Semantics!Spec

=============================================================================
