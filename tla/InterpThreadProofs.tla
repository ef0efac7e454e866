------------------------- MODULE InterpThreadProofs -------------------------
(***************************************************************************)
(* Proofs about InterpThread, for every set of modules and every capacity  *)
(* of the call stack.                                                      *)
(*                                                                         *)
(* The first part is about the calls of a thread and the instance it runs  *)
(* in.  Nothing is assumed there of the code a thread executes or of the   *)
(* reader that generated it, so that the values, offsets and indices a     *)
(* frame holds are arbitrary: what is proved holds also where the          *)
(* generated code is wrong.                                                *)
(*                                                                         *)
(* The second part is about the values: on code that is typed (CodeTyped)  *)
(* a thread finds, and leaves, what the validator computed.  Its invariant *)
(* is that some typing T of the code has the shape of the innermost frame  *)
(* at its offset, and for each frame that waits for a call what it holds   *)
(* until the call returns, or raises an exception.                         *)
(***************************************************************************)
EXTENDS InterpThread, NaturalsInduction, SequenceTheorems, WellFoundedInduction, TLAPS

Fields == {"frames", "values", "exceptions", "inst", "result", "func"}

\* A call stack: a sequence of at most Capacity frames that name an instance.
IsSeq(s) == \E S : s \in Seq(S)
Frames(frames) ==
  /\ IsSeq(frames)
  /\ Len(frames) <= Capacity
  /\ \A k \in 1 .. Len(frames) : "inst" \in DOMAIN frames[k]

Thread(th) == DOMAIN th = Fields /\ Frames(th.frames)

\* It is in a call, and in the instance of the innermost one.
Current(th) == th.frames # <<>> /\ th.inst = Last(th.frames).inst

Running(th) == Thread(th) /\ th.result = "run" /\ Current(th)

\* What is left of the calls of a thread that has ended in one of these ways:
\* nothing.  A trap leaves them as they are.
Ended == {"return", "exception"}
Good(th) ==
  /\ Thread(th)
  /\ th.result = "run" => Current(th)
  /\ th.result \in Ended => th.frames = <<>>

-----------------------------------------------------------------------------
\* Sequences of whatever elements.

LEMMA SeqFacts ==
  ASSUME NEW s, IsSeq(s)
  PROVE  Len(s) \in Nat /\ DOMAIN s = 1 .. Len(s) /\ (s # <<>> => Len(s) \in 1 .. Len(s))
<1>1. PICK S : s \in Seq(S)
  BY DEF IsSeq
<1>2. Len(s) \in Nat /\ DOMAIN s = 1 .. Len(s)
  BY <1>1
<1>3. ASSUME s # <<>> PROVE Len(s) \in 1 .. Len(s)
  BY <1>1, <1>3
<1> QED
  BY <1>2, <1>3

LEMMA AppendFrames ==
  ASSUME NEW s, Frames(s), NEW x, "inst" \in DOMAIN x, Len(s) # Capacity
  PROVE  Frames(Append(s, x)) /\ Append(s, x) # <<>> /\ Last(Append(s, x)) = x
<1>1. PICK S : s \in Seq(S)
  BY DEF Frames, IsSeq
<1>2. s \in Seq(S \cup {x}) /\ Append(s, x) \in Seq(S \cup {x})
  BY <1>1
<1>3. Len(s) \in Nat /\ Len(Append(s, x)) = Len(s) + 1
  BY <1>1
<1>4. /\ \A k \in 1 .. Len(s) : Append(s, x)[k] = s[k]
      /\ Append(s, x)[Len(s) + 1] = x
  BY <1>1
<1>5. Len(s) + 1 <= Capacity
  BY <1>3, CapacityAssumption DEF Frames
<1>6. \A k \in 1 .. Len(s) + 1 : "inst" \in DOMAIN Append(s, x)[k]
  BY <1>3, <1>4 DEF Frames
<1>7. Append(s, x) # <<>>
  BY <1>1
<1> QED
  BY <1>2, <1>3, <1>4, <1>5, <1>6, <1>7 DEF Frames, IsSeq, Last

LEMMA PrefixFrames ==
  ASSUME NEW s, Frames(s), NEW n \in 0 .. Len(s)
  PROVE  /\ Frames(SubSeq(s, 1, n)) /\ Len(SubSeq(s, 1, n)) = n
         /\ \A k \in 1 .. n : SubSeq(s, 1, n)[k] = s[k]
<1>1. PICK S : s \in Seq(S)
  BY DEF Frames, IsSeq
<1>2. Len(s) \in Nat /\ n \in Nat /\ n <= Len(s)
  BY <1>1
<1>3. /\ SubSeq(s, 1, n) \in Seq(S) /\ Len(SubSeq(s, 1, n)) = n
      /\ \A k \in 1 .. n : SubSeq(s, 1, n)[k] = s[k]
  BY <1>1, <1>2
<1>4. n <= Capacity
  BY <1>2, CapacityAssumption DEF Frames
<1>5. \A k \in 1 .. n : "inst" \in DOMAIN s[k]
  BY <1>2 DEF Frames
<1> QED
  BY <1>3, <1>4, <1>5 DEF Frames, IsSeq

LEMMA ReplaceFrame ==
  ASSUME NEW s, Frames(s), NEW j \in 1 .. Len(s), NEW x,
         "inst" \in DOMAIN x, x.inst = s[j].inst
  PROVE  /\ Frames([s EXCEPT ![j] = x]) /\ Len([s EXCEPT ![j] = x]) = Len(s)
         /\ [s EXCEPT ![j] = x] # <<>>
         /\ \A k \in 1 .. Len(s) : [s EXCEPT ![j] = x][k].inst = s[k].inst
<1>1. PICK S : s \in Seq(S)
  BY DEF Frames, IsSeq
<1>2. s \in Seq(S \cup {x})
  BY <1>1
<1>3. PICK u : u = [s EXCEPT ![j] = x]
  OBVIOUS
<1>4. u \in Seq(S \cup {x}) /\ Len(u) = Len(s) /\ u # <<>>
  BY <1>2, <1>3
<1>5. \A k \in 1 .. Len(s) : u[k] = IF k = j THEN x ELSE s[k]
  BY <1>1, <1>3
<1>6. /\ \A k \in 1 .. Len(s) : "inst" \in DOMAIN u[k] /\ u[k].inst = s[k].inst
  BY <1>5 DEF Frames
<1> QED
  BY <1>3, <1>4, <1>6 DEF Frames, IsSeq

-----------------------------------------------------------------------------
\* What the parts of an instruction make of a thread.

LEMMA RunningIsGood ==
  ASSUME NEW th, Running(th)
  PROVE  Good(th) /\ Thread(th)
BY DEF Running, Good, Ended

\* Assigning a field other than frames, inst and result.
LEMMA OtherField ==
  ASSUME NEW th, Running(th), NEW v, NEW u,
         \/ u = [th EXCEPT !.values = v]
         \/ u = [th EXCEPT !.exceptions = v]
  PROVE  Running(u)
<1>1. DOMAIN th = Fields
  BY DEF Running, Thread
<1>2. DOMAIN u = Fields /\ u.frames = th.frames /\ u.inst = th.inst /\ u.result = th.result
  BY <1>1 DEF Fields
<1> QED
  BY <1>2 DEF Running, Thread, Current

LEMMA ResultStops ==
  ASSUME NEW th, Thread(th), NEW res, res = "trap" \/ (res \in Ended /\ th.frames = <<>>)
  PROVE  Good(Result(th, res))
<1>1. PICK u : u = Result(th, res)
  OBVIOUS
<1>2. DOMAIN u = Fields /\ u.frames = th.frames /\ u.result = res
  BY <1>1 DEF Result, Thread, Fields
<1> QED
  BY <1>1, <1>2 DEF Good, Thread, Ended

LEMMA PushRuns ==
  ASSUME NEW th, Running(th), NEW types
  PROVE  Running(Push(th, types))
<1>1. PICK v : v = th.values \o types
  OBVIOUS
<1>2. Push(th, types) = [th EXCEPT !.values = v]
  BY <1>1 DEF Push
<1> QED
  BY <1>2, OtherField

LEMMA PopRuns ==
  ASSUME NEW th, Running(th), NEW n
  PROVE  Running(Pop(th, n))
<1>1. PICK v : v = Drop(th.values, n)
  OBVIOUS
<1>2. Pop(th, n) = [th EXCEPT !.values = v]
  BY <1>1 DEF Pop
<1> QED
  BY <1>2, OtherField

\* Assigning a field of the top frame other than its instance.
LEMMA TopFrame ==
  ASSUME NEW th, Running(th), NEW v, NEW u,
         \/ u = [th EXCEPT !.frames[Len(th.frames)].offset = v]
         \/ u = [th EXCEPT !.frames[Len(th.frames)].func = v]
  PROVE  Running(u)
<1>1. DOMAIN th = Fields /\ Frames(th.frames) /\ th.frames # <<>> /\ th.inst = Last(th.frames).inst
  BY DEF Running, Thread, Current
<1>2. PICK s : s = th.frames
  OBVIOUS
<1>3. IsSeq(s)
  BY <1>1, <1>2 DEF Frames
<1>4. PICK n : n = Len(s)
  OBVIOUS
<1>5. n \in 1 .. Len(s) /\ DOMAIN s = 1 .. Len(s)
  BY <1>1, <1>2, <1>3, <1>4, SeqFacts
<1>6. PICK x : \/ x = [s[n] EXCEPT !.offset = v] /\ u = [th EXCEPT !.frames = [s EXCEPT ![n] = x]]
               \/ x = [s[n] EXCEPT !.func = v] /\ u = [th EXCEPT !.frames = [s EXCEPT ![n] = x]]
  BY <1>2, <1>4, Zenon
<1>7. "inst" \in DOMAIN s[n]
  BY <1>1, <1>2, <1>5 DEF Frames
<1>8. "inst" \in DOMAIN x /\ x.inst = s[n].inst
  BY <1>6, <1>7
<1>9. PICK q : q = [s EXCEPT ![n] = x]
  OBVIOUS
<1>10. Frames(q) /\ Len(q) = Len(s) /\ q # <<>> /\ q[n].inst = s[n].inst
  BY <1>1, <1>2, <1>5, <1>8, <1>9, ReplaceFrame
<1>11. DOMAIN u = Fields /\ u.frames = q /\ u.inst = th.inst /\ u.result = th.result
  BY <1>1, <1>6, <1>9 DEF Fields
<1>12. Last(q).inst = th.inst
  BY <1>1, <1>2, <1>4, <1>10 DEF Last
<1> QED
  BY <1>10, <1>11, <1>12 DEF Running, Thread, Current

LEMMA JumpRuns ==
  ASSUME NEW th, Running(th), NEW offset
  PROVE  Running(Jump(th, offset))
BY TopFrame DEF Jump

LEMMA PushCallGood ==
  ASSUME NEW th, Thread(th), th.result \notin Ended, NEW inst, NEW f
  PROVE  Good(PushCall(th, inst, f))
<1>1. CASE Len(th.frames) = Capacity
  BY <1>1, ResultStops DEF PushCall
<1>2. CASE Len(th.frames) # Capacity
  <2>1. PICK x : x = Frame(th, inst, f, CodeOffset(f))
    OBVIOUS
  <2>2. "inst" \in DOMAIN x /\ x.inst = inst
    BY <2>1 DEF Frame
  <2>3. PICK s : s = Append(th.frames, x)
    OBVIOUS
  <2>4. Frames(s) /\ s # <<>> /\ Last(s) = x
    BY <1>2, <2>2, <2>3, AppendFrames DEF Thread
  <2>5. PICK u : u = PushCall(th, inst, f)
    OBVIOUS
  <2>6. u = [th EXCEPT !.frames = s, !.inst = inst]
    BY <1>2, <2>1, <2>3, <2>5 DEF PushCall
  <2>7. DOMAIN u = Fields /\ u.frames = s /\ u.inst = inst /\ u.result = th.result
    BY <2>6 DEF Thread, Fields
  <2> QED
    BY <2>2, <2>4, <2>5, <2>7 DEF Good, Thread, Current
<1> QED
  BY <1>1, <1>2

\* The call that returns leaves its caller running, or nothing to run.
LEMMA PopCallGood ==
  ASSUME NEW th, Running(th)
  PROVE  /\ Good(PopCall(th)) /\ (PopCall(th).frames = <<>> => PopCall(th).result = "return")
         /\ (PopCall(th).frames # <<>> => Running(PopCall(th)))
<1>1. DOMAIN th = Fields /\ Frames(th.frames) /\ th.frames # <<>>
  BY DEF Running, Thread, Current
<1>2. IsSeq(th.frames)
  BY <1>1 DEF Frames
<1>3. PICK n : n = Len(th.frames)
  OBVIOUS
<1>4. n \in Nat /\ n - 1 \in 0 .. Len(th.frames)
  BY <1>1, <1>2, <1>3, SeqFacts
<1>5. PICK s : s = Front(th.frames)
  OBVIOUS
<1>6. Frames(s)
  BY <1>1, <1>3, <1>4, <1>5, PrefixFrames DEF Front
<1>7. PICK left : left = [th EXCEPT !.frames = s]
  OBVIOUS
<1>8. DOMAIN left = Fields /\ left.frames = s /\ left.result = th.result
  BY <1>1, <1>7 DEF Fields
<1>9. PICK u : u = PopCall(th)
  OBVIOUS
<1>10. CASE s = <<>>
  <2>1. u = Result(left, "return")
    BY <1>5, <1>7, <1>8, <1>9, <1>10 DEF PopCall
  <2>2. Good(u)
    BY <1>6, <1>8, <1>10, <2>1, ResultStops DEF Thread, Ended
  <2>3. u.frames = <<>> /\ u.result = "return"
    BY <1>8, <1>10, <2>1 DEF Result, Fields
  <2> QED
    BY <1>9, <2>2, <2>3
<1>11. CASE s # <<>>
  <2>1. PICK i : i = Last(s).inst
    OBVIOUS
  <2>2. u = [left EXCEPT !.inst = i]
    BY <1>5, <1>7, <1>8, <1>9, <1>11, <2>1 DEF PopCall, Top
  <2>3. DOMAIN u = Fields /\ u.frames = s /\ u.inst = i /\ u.result = th.result
    BY <1>8, <2>2 DEF Fields
  <2> QED
    BY <1>6, <1>9, <1>11, <2>1, <2>3 DEF Good, Running, Thread, Current, Ended
<1> QED
  BY <1>10, <1>11

LEMMA DoCallGood ==
  ASSUME NEW th, Running(th), NEW callee, NEW type, NEW u \in DoCall(th, callee, type)
  PROVE  Good(u)
<1>1. Thread(th) /\ th.result \notin Ended
  BY DEF Running, Ended
<1>2. PICK popped : popped = Pop(th, Len(type.params))
  OBVIOUS
<1>3. Running(popped) /\ Thread(popped)
  BY <1>2, PopRuns, RunningIsGood
<1>4. CASE callee # HostFunc
  BY <1>1, <1>4, PushCallGood DEF DoCall
<1>5. CASE callee = HostFunc
  <2>1. u = Result(popped, "trap") \/ u = Push(popped, type.results)
    BY <1>2, <1>5 DEF DoCall
  <2>2. ASSUME u = Result(popped, "trap") PROVE Good(u)
    BY <1>3, <2>2, ResultStops
  <2>3. ASSUME u = Push(popped, type.results) PROVE Good(u)
    BY <1>3, <2>3, PushRuns, RunningIsGood
  <2> QED
    BY <2>1, <2>2, <2>3
<1> QED
  BY <1>4, <1>5

\* A tail call of a host function out of the last frame ends the run.
LEMMA DoReturnCallGood ==
  ASSUME NEW th, Running(th), NEW callee, NEW type
  PROVE  Good(DoReturnCall(th, callee, type))
<1>1. PICK popped : popped = PopCall(th)
  OBVIOUS
<1>2. /\ Good(popped) /\ (popped.frames = <<>> => popped.result = "return")
      /\ (popped.frames # <<>> => Running(popped))
  BY <1>1, PopCallGood
<1>3. CASE callee # HostFunc
  <2>1. PICK u : u = [popped EXCEPT !.result = "run"]
    OBVIOUS
  <2>2. Thread(u) /\ u.result \notin Ended
    BY <1>2, <2>1 DEF Good, Thread, Fields, Ended
  <2>3. PICK i, f : i = callee.inst /\ f = callee.func
    OBVIOUS
  <2>4. Good(PushCall(u, i, f))
    BY <2>2, PushCallGood
  <2>5. DoReturnCall(th, callee, type) = PushCall(u, i, f)
    BY <1>1, <1>3, <2>1, <2>3 DEF DoReturnCall
  <2> QED
    BY <2>4, <2>5
<1>4. CASE callee = HostFunc
  <2>1. PICK host : host = Push(Pop(popped, Len(type.params)), type.results)
    OBVIOUS
  <2>2. DoReturnCall(th, callee, type) = host
    BY <1>1, <1>4, <2>1 DEF DoReturnCall
  <2>3. PICK v : host = [popped EXCEPT !.values = v]
    <3>1. PICK low : low = Drop(popped.values, Len(type.params))
      OBVIOUS
    <3>2. PICK q : q = [popped EXCEPT !.values = low]
      OBVIOUS
    <3>3. PICK v : v = q.values \o type.results
      OBVIOUS
    <3>4. host = [q EXCEPT !.values = v]
      BY <2>1, <3>1, <3>2, <3>3 DEF Push, Pop
    <3>5. host = [popped EXCEPT !.values = v]
      BY <3>2, <3>4
    <3> QED
      BY <3>5
  <2>4. DOMAIN popped = Fields
    BY <1>2 DEF Good, Thread
  <2>5. DOMAIN host = Fields /\ host.frames = popped.frames /\ host.inst = popped.inst
        /\ host.result = popped.result
    BY <2>3, <2>4 DEF Fields
  <2> QED
    BY <1>2, <2>2, <2>5 DEF Good, Thread, Current, Running, Ended
<1> QED
  BY <1>3, <1>4

-----------------------------------------------------------------------------
\* The frame that catches an exception.

LEMMA MinExists ==
  ASSUME NEW S, S \subseteq Nat, S # {}
  PROVE  \E i \in S : \A j \in S : i <= j
<1>1. \E R : IsWellFoundedOn(R, Nat) /\ \A x, y \in Nat : y < x => <<y, x>> \in R
  <2>1. \A x, y \in Nat : y < x => <<y, x>> \in OpToRel(<, Nat)
    BY DEF OpToRel
  <2> WITNESS OpToRel(<, Nat)
  <2> QED
    BY <2>1, NatLessThanWellFounded
<1>2. PICK R : IsWellFoundedOn(R, Nat) /\ \A x, y \in Nat : y < x => <<y, x>> \in R
  BY <1>1
<1>3. PICK x \in S : \A y \in S : <<y, x>> \notin R
  BY <1>2, WFMin
<1>4. \A y \in S : ~(y < x)
  BY <1>2, <1>3, x \in Nat
<1>5. \A y \in S : x <= y
  BY <1>4, x \in Nat
<1> QED
  BY <1>5

LEMMA Max0IsLargest ==
  ASSUME NEW n \in Nat, NEW S, S \subseteq 1 .. n, S # {}
  PROVE  Max0(S) \in S /\ \A j \in S : j <= Max0(S)
<1> DEFINE T == {n - j : j \in S}
<1>1. T \subseteq Nat
  OBVIOUS
<1>2. T # {}
  <2>1. PICK j : j \in S
    OBVIOUS
  <2>2. n - j \in T
    BY <2>1
  <2> QED
    BY <2>2
<1>3. PICK k \in T : \A m \in T : k <= m
  <2> HIDE DEF T
  <2> QED
    BY <1>1, <1>2, MinExists
<1>4. PICK i \in S : k = n - i
  BY <1>3
<1>5. \A j \in S : n - i <= n - j
  BY <1>3, <1>4
<1>6. \A j \in S : j <= i
  BY <1>5
<1> QED
  BY <1>6 DEF Max0


\* Unwinding to frame k, in the instance of that frame.
LEMMA UnwindRuns ==
  ASSUME NEW th, Thread(th), th.result = "run", NEW k \in 1 .. Len(th.frames), NEW offset, NEW values, NEW exceptions,
         NEW u,
         u = [th EXCEPT !.frames = [SubSeq(@, 1, k) EXCEPT ![k].offset = offset],
                        !.inst = th.frames[k].inst, !.values = values, !.exceptions = exceptions]
  PROVE  Running(u)
<1>1. DOMAIN th = Fields /\ Frames(th.frames)
  BY DEF Thread
<1>2. PICK s : s = th.frames
  OBVIOUS
<1>3. IsSeq(s)
  BY <1>1, <1>2 DEF Frames
<1>4. Len(s) \in Nat /\ k \in 0 .. Len(s) /\ k \in Nat /\ k # 0 /\ k \in 1 .. k
  BY <1>2, <1>3, SeqFacts
<1>5. PICK p : p = SubSeq(s, 1, k)
  OBVIOUS
<1>6. Frames(p) /\ Len(p) = k /\ p[k] = s[k]
  BY <1>1, <1>2, <1>4, <1>5, PrefixFrames
<1>7. PICK x : x = [p[k] EXCEPT !.offset = offset]
  OBVIOUS
<1>8. "inst" \in DOMAIN x /\ x.inst = p[k].inst
  BY <1>4, <1>6, <1>7 DEF Frames
<1>9. PICK q : q = [p EXCEPT ![k] = x]
  OBVIOUS
<1>10. Frames(q) /\ Len(q) = k /\ q # <<>> /\ q[k].inst = p[k].inst
  <2>1. k \in 1 .. Len(p) /\ Frames(p) /\ "inst" \in DOMAIN x /\ x.inst = p[k].inst
    BY <1>4, <1>6, <1>8
  <2>2. Frames(q) /\ Len(q) = Len(p) /\ q # <<>>
    BY <1>9, <2>1, ReplaceFrame
  <2>3. \A i \in 1 .. Len(p) : q[i].inst = p[i].inst
    BY <1>9, <2>1, ReplaceFrame
  <2> QED
    BY <1>6, <2>1, <2>2, <2>3
<1>11. q = [SubSeq(th.frames, 1, k) EXCEPT ![k].offset = offset]
  BY <1>2, <1>5, <1>7, <1>9, Zenon
<1>12. PICK inst : inst = s[k].inst
  OBVIOUS
<1>13. u = [th EXCEPT !.frames = q, !.inst = inst, !.values = values, !.exceptions = exceptions]
  BY <1>2, <1>11, <1>12, Zenon
<1>14. DOMAIN u = Fields /\ u.frames = q /\ u.inst = inst /\ u.result = "run"
  BY <1>1, <1>13 DEF Fields
<1>15. Last(q).inst = inst
  BY <1>6, <1>10, <1>12 DEF Last
<1> QED
  BY <1>10, <1>14, <1>15 DEF Running, Thread, Current

LEMMA DoThrowGood ==
  ASSUME NEW th, Running(th), NEW exn
  PROVE  Good(DoThrow(th, exn))
<1> DEFINE catching == {k \in DOMAIN th.frames : FrameHandler(th.frames[k], exn) # NoHandler}
           k        == Max0(catching)
           frame    == th.frames[k]
           target   == FrameHandler(frame, exn)
           unwound  == [th EXCEPT
                          !.frames = [SubSeq(@, 1, k) EXCEPT ![k].offset = target.offset],
                          !.inst = frame.inst,
                          !.values = Resized(@, frame.values + target.values, "garbage"),
                          !.exceptions = Append(SubSeq(@, 1, frame.exceptions + target.exceptions), exn)]
<1>1. Thread(th) /\ th.result = "run" /\ IsSeq(th.frames)
  BY DEF Running, Thread, Frames
<1>2. Len(th.frames) \in Nat /\ DOMAIN th.frames = 1 .. Len(th.frames)
  BY <1>1, SeqFacts
<1>3. CASE catching = {}
  <2>1. DoThrow(th, exn) = Result([th EXCEPT !.frames = <<>>], "exception")
    BY <1>3 DEF DoThrow
  <2>2. PICK u : u = [th EXCEPT !.frames = <<>>]
    OBVIOUS
  <2>3. DOMAIN u = Fields /\ u.frames = <<>>
    BY <1>1, <2>2 DEF Thread, Fields
  <2>4. Frames(<<>>)
    <3>1. <<>> \in Seq({}) /\ Len(<<>>) = 0
      OBVIOUS
    <3> QED
      BY <3>1, CapacityAssumption DEF Frames, IsSeq
  <2>5. Thread(u)
    BY <2>3, <2>4 DEF Thread
  <2> QED
    BY <2>1, <2>2, <2>3, <2>5, ResultStops DEF Ended
<1>4. CASE catching # {}
  <2>1. catching \subseteq 1 .. Len(th.frames)
    BY <1>2
  <2>2. k \in 1 .. Len(th.frames)
    <3> HIDE DEF catching
    <3>1. Max0(catching) \in catching
      BY <1>2, <1>4, <2>1, Max0IsLargest
    <3> QED
      BY <2>1, <3>1
  <2>3. PICK offset, values, exceptions :
          /\ offset = target.offset
          /\ values = Resized(th.values, frame.values + target.values, "garbage")
          /\ exceptions = Append(SubSeq(th.exceptions, 1, frame.exceptions + target.exceptions), exn)
    BY Zenon
  <2>4. PICK c : c = k
    OBVIOUS
  <2>5. PICK u : u = unwound
    OBVIOUS
  <2>6. u = [th EXCEPT !.frames = [SubSeq(@, 1, c) EXCEPT ![c].offset = offset],
                       !.inst = th.frames[c].inst, !.values = values, !.exceptions = exceptions]
    BY <2>3, <2>4, <2>5, Zenon
  <2>7. Running(u)
    <3> HIDE DEF k, unwound, target, frame, catching
    <3>1. c \in 1 .. Len(th.frames)
      BY <2>2, <2>4
    <3> QED
      BY <1>1, <2>6, <3>1, UnwindRuns
  <2>8. DoThrow(th, exn) \in {Push(unwound, M.tags[exn.tag + 1]), unwound}
    BY <1>4 DEF DoThrow
  <2>9. DoThrow(th, exn) = Push(u, M.tags[exn.tag + 1]) \/ DoThrow(th, exn) = u
    BY <2>5, <2>8
  <2>10. PICK types : types = M.tags[exn.tag + 1]
    OBVIOUS
  <2>11. Running(Push(u, types))
    BY <2>7, PushRuns
  <2>12. Good(u) /\ Good(Push(u, types))
    BY <2>7, <2>11, RunningIsGood
  <2> QED
    BY <2>9, <2>10, <2>12
<1> QED
  BY <1>3, <1>4
-----------------------------------------------------------------------------
\* The inductive invariant.

ThreadInv == Good(t)

LEMMA InitThread == Init => ThreadInv
<1> SUFFICES ASSUME Init PROVE ThreadInv
  OBVIOUS
<1>1. t = NoThread
  BY DEF Init
<1>2. DOMAIN t = Fields /\ t.frames = <<>> /\ t.result = "new"
  BY <1>1 DEF NoThread, Fields
<1>3. <<>> \in Seq({}) /\ Len(<<>>) = 0
  OBVIOUS
<1>4. Frames(<<>>)
  BY <1>3, CapacityAssumption DEF Frames, IsSeq
<1> QED
  BY <1>1, <1>2, <1>4 DEF ThreadInv, Good, Thread, Ended

\* Reading leaves the thread alone.
LEMMA ReadThread ==
  ASSUME Read
  PROVE  t' = t
<1>1. ASSUME NEW name, NEW arg, NEW q, Reads(name, arg, q) PROVE t' = t
  BY <1>1 DEF Reads
<1>2. ASSUME ReadBody \/ ReadEnd PROVE t' = t
  BY <1>2 DEF ReadBody, ReadEnd
<1>3. ASSUME ReadBlock \/ ReadClause \/ ReadBranch PROVE t' = t
  BY <1>1, <1>3 DEF ReadBlock, ReadClause, ReadBranch
<1>4. ASSUME ReadCall \/ ReadThrow \/ ReadLocal PROVE t' = t
  BY <1>1, <1>4 DEF ReadCall, ReadThrow, ReadLocal
<1>5. ASSUME ReadOperand \/ ReadPlain PROVE t' = t
  BY <1>1, <1>5 DEF ReadOperand, ReadPlain
<1> QED
  BY <1>2, <1>3, <1>4, <1>5 DEF Read

\* The first call of a thread is within the capacity.
LEMMA CallThread ==
  ASSUME Call
  PROVE  Good(t')
<1>1. PICK inst \in {1, 2}, f \in M.imports .. Len(M.funcs) - 1 :
        t' = [PushCall(Push(NoThread, FuncType(r, f).params), inst, f) EXCEPT !.result = "run", !.func = f]
  BY DEF Call
<1>2. PICK th : th = Push(NoThread, FuncType(r, f).params)
  OBVIOUS
<1>3. DOMAIN th = Fields /\ th.frames = <<>>
  BY <1>2 DEF Push, NoThread, Fields
<1>4. <<>> \in Seq({}) /\ Len(<<>>) = 0
  OBVIOUS
<1>5. Frames(<<>>) /\ Len(<<>>) # Capacity
  BY <1>4, CapacityAssumption DEF Frames, IsSeq
<1>6. PICK x : x = Frame(th, inst, f, CodeOffset(f))
  OBVIOUS
<1>7. "inst" \in DOMAIN x /\ x.inst = inst
  BY <1>6 DEF Frame
<1>8. PICK s : s = Append(<<>>, x)
  OBVIOUS
<1>9. Frames(s) /\ s # <<>> /\ Last(s) = x
  BY <1>5, <1>7, <1>8, AppendFrames
<1>10. t' = [[th EXCEPT !.frames = s, !.inst = inst] EXCEPT !.result = "run", !.func = f]
  BY <1>1, <1>2, <1>3, <1>5, <1>6, <1>8 DEF PushCall
<1>11. DOMAIN t' = Fields /\ t'.frames = s /\ t'.inst = inst /\ t'.result = "run"
  BY <1>3, <1>10 DEF Fields
<1> QED
  BY <1>7, <1>9, <1>11 DEF Good, Thread, Current, Ended

\* A thread that executes an instruction is running, and stays so while the
\* instruction is read off the code.
LEMMA Executing ==
  ASSUME ThreadInv, t.result = "run"
  PROVE  Running(t) /\ Running(Next0) /\ \A n : Running(Pop(Next0, n))
<1>1. Running(t)
  BY DEF ThreadInv, Good, Running
<1>2. Running(Next0)
  BY <1>1, JumpRuns DEF Next0
<1>3. ASSUME NEW n PROVE Running(Pop(Next0, n))
  <2>1. PICK th : th = Next0
    OBVIOUS
  <2> QED
    BY <1>2, <2>1, PopRuns
<1> QED
  BY <1>1, <1>2, <1>3
LEMMA JumpLength ==
  ASSUME NEW th, Running(th), NEW offset
  PROVE  Len(Jump(th, offset).frames) = Len(th.frames)
<1>1. DOMAIN th = Fields /\ IsSeq(th.frames)
  BY DEF Running, Thread, Frames
<1>2. PICK s : s = th.frames
  OBVIOUS
<1>3. PICK n, x : n = Len(s) /\ x = [s[n] EXCEPT !.offset = offset]
  OBVIOUS
<1>4. PICK q : q = [s EXCEPT ![n] = x]
  OBVIOUS
<1>5. Jump(th, offset) = [th EXCEPT !.frames = q]
  BY <1>2, <1>3, <1>4, Zenon DEF Jump
<1>6. Jump(th, offset).frames = q
  BY <1>1, <1>5 DEF Fields
<1>7. PICK S : s \in Seq(S)
  BY <1>1, <1>2 DEF IsSeq
<1>8. s \in Seq(S \cup {x})
  BY <1>7
<1>9. Len(q) = Len(s)
  BY <1>4, <1>8
<1> QED
  BY <1>2, <1>6, <1>9


LEMMA ExecutesOne ==
  ASSUME NEW name, NEW u, Executes(name, {u}), Good(u)
  PROVE  Good(t')
BY DEF Executes

\* Branches, and what moves values and offsets only.
LEMMA StepBranch ==
  ASSUME ThreadInv, StepBr \/ StepBrUnless \/ StepBrTable
  PROVE  Good(t')
<1>1. t.result = "run"
  BY DEF StepBr, StepBrUnless, StepBrTable, Executes
<1>2. Running(t) /\ Running(Next0) /\ \A n : Running(Pop(Next0, n))
  BY <1>1, Executing
<1>3. CASE StepBr
  BY <1>2, <1>3, JumpRuns, RunningIsGood DEF StepBr, Executes
<1>4. CASE StepBrUnless
  <2>1. Running(Jump(t, imm(1)))
    BY <1>2, JumpRuns
  <2>2. Running(Pop(Jump(t, imm(1)), 1))
    BY <2>1, PopRuns
  <2> QED
    BY <1>2, <1>4, <2>2, RunningIsGood DEF StepBrUnless, Executes
<1>5. CASE StepBrTable
  <2>1. PICK key \in 0 .. imm(1) : t' = Pop(Jump(Next0, Pc + 2 + key * kBrTableEntrySize), 1)
    BY <1>5 DEF StepBrTable, Executes
  <2>2. PICK offset : offset = Pc + 2 + key * kBrTableEntrySize
    OBVIOUS
  <2>3. Running(Jump(Next0, offset))
    BY <1>2, JumpRuns
  <2>4. Running(Pop(Jump(Next0, offset), 1))
    BY <2>3, PopRuns
  <2> QED
    BY <2>1, <2>2, <2>4, RunningIsGood
<1> QED
  BY <1>3, <1>4, <1>5

LEMMA StepCalls ==
  ASSUME ThreadInv, StepReturn \/ StepCall \/ StepCallImport \/ StepCallIndirect \/ StepReturnCallIndirect
  PROVE  Good(t')
<1>1. t.result = "run"
  BY DEF StepReturn, StepCall, StepCallImport, StepCallIndirect, StepReturnCallIndirect, Executes
<1>2. Running(t) /\ Running(Next0) /\ \A n : Running(Pop(Next0, n))
  BY <1>1, Executing
<1>3. CASE StepReturn
  <2>1. t' = PopCall(t)
    BY <1>3 DEF StepReturn, Executes
  <2> QED
    BY <1>2, <2>1, PopCallGood
<1>4. CASE StepCall
  <2>1. t' = PushCall(Next0, t.inst, imm(1))
    BY <1>4 DEF StepCall, Executes
  <2>2. Thread(Next0) /\ Next0.result \notin Ended
    BY <1>2 DEF Running, Ended
  <2> QED
    BY <2>1, <2>2, PushCallGood
<1>5. CASE StepCallImport
  <2>1. t' \in DoCall(Next0, Resolve(t.inst, imm(1)), FuncType(r, imm(1)))
    BY <1>5 DEF StepCallImport, Executes
  <2> QED
    BY <1>2, <2>1, DoCallGood
<1>6. Good(Result(Pop(Next0, 1), "trap"))
  <2>1. Thread(Pop(Next0, 1))
    BY <1>2 DEF Running
  <2> QED
    BY <2>1, ResultStops
<1>7. CASE StepCallIndirect
  <2>1. \/ t' = Result(Pop(Next0, 1), "trap")
        \/ \E e \in Entries(imm(2)) : t' \in DoCall(Pop(Next0, 1), e, FuncType(r, imm(2)))
    BY <1>7 DEF StepCallIndirect, Executes
  <2>2. ASSUME NEW e \in Entries(imm(2)), t' \in DoCall(Pop(Next0, 1), e, FuncType(r, imm(2)))
        PROVE  Good(t')
    BY <1>2, <2>2, DoCallGood
  <2> QED
    BY <1>6, <2>1, <2>2
<1>8. CASE StepReturnCallIndirect
  <2>1. \/ t' = Result(Pop(Next0, 1), "trap")
        \/ \E e \in Entries(imm(2)) : t' = DoReturnCall(Pop(Next0, 1), e, FuncType(r, imm(2)))
    BY <1>8 DEF StepReturnCallIndirect, Executes
  <2>2. ASSUME NEW e \in Entries(imm(2)), t' = DoReturnCall(Pop(Next0, 1), e, FuncType(r, imm(2)))
        PROVE  Good(t')
    BY <1>2, <2>2, DoReturnCallGood
  <2> QED
    BY <1>6, <2>1, <2>2
<1> QED
  BY <1>3, <1>4, <1>5, <1>7, <1>8

LEMMA StepFrame ==
  ASSUME ThreadInv, StepDropKeep \/ StepCatchDrop \/ StepAdjustFrame \/ StepAlloca
  PROVE  Good(t')
<1>1. t.result = "run"
  BY DEF StepDropKeep, StepCatchDrop, StepAdjustFrame, StepAlloca, Executes
<1>2. Running(t) /\ Running(Next0)
  BY <1>1, Executing
<1>3. CASE StepDropKeep
  <2>1. PICK v : v = Drop(Next0.values, imm(1) + imm(2)) \o TopOf(Next0.values, imm(2))
    OBVIOUS
  <2>2. t' = [Next0 EXCEPT !.values = v]
    BY <1>3, <2>1 DEF StepDropKeep, Executes
  <2> QED
    BY <1>2, <2>2, OtherField, RunningIsGood
<1>4. CASE StepCatchDrop
  <2>1. PICK v : v = Drop(Next0.exceptions, imm(1))
    OBVIOUS
  <2>2. t' = [Next0 EXCEPT !.exceptions = v]
    BY <1>4, <2>1 DEF StepCatchDrop, Executes
  <2> QED
    BY <1>2, <2>2, OtherField, RunningIsGood
<1>5. CASE StepAdjustFrame
  <2>1. t' = [Next0 EXCEPT !.frames[Len(t.frames)].func = imm(1)]
    BY <1>5 DEF StepAdjustFrame, Executes
  <2>2. Len(Next0.frames) = Len(t.frames)
    BY <1>2, JumpLength DEF Next0
  <2>3. PICK v : v = imm(1)
    OBVIOUS
  <2>4. t' = [Next0 EXCEPT !.frames[Len(Next0.frames)].func = v]
    BY <2>1, <2>2, <2>3
  <2> QED
    BY <1>2, <2>4, TopFrame, RunningIsGood
<1>6. CASE StepAlloca
  BY <1>2, <1>6, PushRuns, RunningIsGood DEF StepAlloca, Executes
<1> QED
  BY <1>3, <1>4, <1>5, <1>6

LEMMA StepValues ==
  ASSUME ThreadInv, StepLocal \/ StepOperand
  PROVE  Good(t')
<1>1. t.result = "run"
  BY DEF StepLocal, StepOperand, Executes
<1>2. Running(t) /\ Running(Next0) /\ \A n : Running(Pop(Next0, n))
  BY <1>1, Executing
<1>3. CASE StepLocal
  <2>1. PICK j, x : j = Len(t.values) + 1 - imm(1) /\ x = Pick(1)
    OBVIOUS
  <2>2. PICK v : v = [Next0.values EXCEPT ![j] = x]
    OBVIOUS
  <2>3. PICK th : th = [Next0 EXCEPT !.values = v]
    OBVIOUS
  <2>4. Running(th)
    BY <1>2, <2>3, OtherField
  <2>5. Running(Pop(th, 1)) /\ Running(Push(Next0, <<Pick(imm(1))>>))
    BY <1>2, <2>4, PopRuns, PushRuns
  <2>6. th = [Next0 EXCEPT !.values[Len(t.values) + 1 - imm(1)] = Pick(1)]
    BY <2>1, <2>2, <2>3, Zenon
  <2>7. t' \in {Push(Next0, <<Pick(imm(1))>>), Pop(th, 1), th}
    BY <1>3, <2>6 DEF StepLocal, Executes
  <2> QED
    BY <2>4, <2>5, <2>7, RunningIsGood
<1>4. CASE StepOperand
  <2>1. Running(Push(Pop(Next0, 3), <<Pick(2)>>)) /\ Running(Push(Pop(Next0, 3), <<Pick(3)>>))
    BY <1>2, PushRuns
  <2>2. Good(Result(Next0, "trap"))
    BY <1>2, ResultStops DEF Running
  <2>3. t' \in {Pop(Next0, 1), Push(Pop(Next0, 3), <<Pick(2)>>), Push(Pop(Next0, 3), <<Pick(3)>>),
                Result(Next0, "trap")}
    BY <1>4 DEF StepOperand, Executes
  <2> QED
    BY <1>2, <2>1, <2>2, <2>3, RunningIsGood
<1> QED
  BY <1>3, <1>4

LEMMA StepPlain ==
  ASSUME ThreadInv, NEW kinds, Applies(kinds)
  PROVE  Good(t')
<1>1. t.result = "run" /\ t' \in Apply(Next0, PlainOp(op))
  BY DEF Applies
<1>2. Running(Next0)
  BY <1>1, Executing
<1>3. PICK o : o = PlainOp(op)
  OBVIOUS
<1>4. PICK popped : popped = Pop(Next0, Len(o.params))
  OBVIOUS
<1>5. Running(popped)
  BY <1>2, <1>4, PopRuns
<1>6. Running(Push(popped, o.results))
  BY <1>5, PushRuns
<1>7. Good(Result(popped, "trap"))
  BY <1>5, ResultStops DEF Running
<1>8. t' \in {Push(popped, o.results), Result(popped, "trap")}
  BY <1>1, <1>3, <1>4 DEF Apply
<1> QED
  BY <1>6, <1>7, <1>8, RunningIsGood

LEMMA StepRaises ==
  ASSUME ThreadInv, StepThrow \/ StepRethrow
  PROVE  Good(t')
<1>1. t.result = "run"
  BY DEF StepThrow, StepRethrow, Executes
<1>2. Running(Next0) /\ \A n : Running(Pop(Next0, n))
  BY <1>1, Executing
<1>3. CASE StepThrow
  <2>1. PICK exn : exn = [inst |-> t.inst, tag |-> imm(1)]
    OBVIOUS
  <2>2. t' = DoThrow(Pop(Next0, Len(M.tags[imm(1) + 1])), exn)
    BY <1>3, <2>1 DEF StepThrow, Executes
  <2>3. PICK th : th = Pop(Next0, Len(M.tags[imm(1) + 1]))
    OBVIOUS
  <2> QED
    BY <1>2, <2>2, <2>3, DoThrowGood
<1>4. CASE StepRethrow
  <2>1. PICK exn : exn = t.exceptions[Len(t.exceptions) - imm(1)]
    OBVIOUS
  <2>2. t' = DoThrow(Next0, exn)
    BY <1>4, <2>1 DEF StepRethrow, Executes
  <2> QED
    BY <1>2, <2>2, DoThrowGood
<1> QED
  BY <1>3, <1>4

LEMMA NextThread ==
  ASSUME ThreadInv, [Next]_vars
  PROVE  ThreadInv'
<1>1. ASSUME t' = t PROVE ThreadInv'
  BY <1>1 DEF ThreadInv
<1>2. ASSUME Good(t') PROVE ThreadInv'
  BY <1>2 DEF ThreadInv
<1>3. CASE UNCHANGED vars
  BY <1>1, <1>3 DEF vars
<1>4. CASE Read
  BY <1>1, <1>4, ReadThread
<1>5. CASE Call
  BY <1>2, <1>5, CallThread
<1>6. CASE Step
  <2>1. ASSUME NEW kinds, Applies(kinds) PROVE Good(t')
    BY <2>1, StepPlain
  <2>2. CASE StepBr \/ StepBrUnless \/ StepBrTable
    BY <1>2, <2>2, StepBranch
  <2>3. CASE StepReturn \/ StepCall \/ StepCallImport \/ StepCallIndirect \/ StepReturnCallIndirect
    BY <1>2, <2>3, StepCalls
  <2>4. CASE StepDropKeep \/ StepCatchDrop \/ StepAdjustFrame \/ StepAlloca
    BY <1>2, <2>4, StepFrame
  <2>5. CASE StepLocal \/ StepOperand
    BY <1>2, <2>5, StepValues
  <2>6. CASE StepNumeric \/ StepMemory \/ StepBulk \/ StepSimd \/ StepSimdMemory \/ StepAtomic
    BY <1>2, <2>1, <2>6 DEF StepNumeric, StepMemory, StepBulk, StepSimd, StepSimdMemory, StepAtomic
  <2>7. CASE StepThrow \/ StepRethrow
    BY <1>2, <2>7, StepRaises
  <2> QED
    BY <1>6, <2>2, <2>3, <2>4, <2>5, <2>6, <2>7 DEF Step
<1> QED
  BY <1>3, <1>4, <1>5, <1>6 DEF Next

THEOREM ThreadInvariant == Spec => []ThreadInv
<1>1. Init => ThreadInv
  BY InitThread
<1>2. ThreadInv /\ [Next]_vars => ThreadInv'
  BY NextThread
<1> QED
  BY <1>1, <1>2, PTL DEF Spec

-----------------------------------------------------------------------------
\* Whatever code a thread executes, it executes it in the instance of the
\* function it is in: calls, tail calls, returns and caught exceptions all set
\* inst_ when they change the innermost frame (Thread::PushCall, PopCall,
\* DoReturnCall, DoThrow in src/interp/interp.cc).
THEOREM InstanceFollowsCalls == Spec => []InstCurrent
<1>1. ThreadInv => InstCurrent
  BY DEF ThreadInv, Good, Current, InstCurrent, Top
<1> QED
  BY <1>1, ThreadInvariant, PTL

\* Calls never go deeper than frames_.capacity(), so that frames_ is not
\* reallocated, and a thread that has returned or ended in an uncaught
\* exception is in no call; a running one is in some call.
CallsBounded ==
  /\ Len(t.frames) <= Capacity
  /\ t.result \in {"return", "exception"} => t.frames = <<>>
  /\ t.result = "run" => t.frames # <<>>

THEOREM CallDepth == Spec => []CallsBounded
<1>1. ThreadInv => CallsBounded
  BY DEF ThreadInv, Good, Current, CallsBounded, Thread, Frames, Ended
<1> QED
  BY <1>1, ThreadInvariant, PTL

-----------------------------------------------------------------------------
\* Parts of a sequence.

\* What SubSeq, Drop, TopOf, Nth and an update give on sequences over one set.
LEMMA SubSeqParts ==
  ASSUME NEW S, NEW s \in Seq(S), NEW m \in Nat \ {0}, NEW n \in 0 .. Len(s)
  PROVE  /\ SubSeq(s, m, n) \in Seq(S)
         /\ Len(SubSeq(s, m, n)) = IF m <= n THEN n - m + 1 ELSE 0
         /\ \A i \in 1 .. n - m + 1 : SubSeq(s, m, n)[i] = s[m + i - 1]
<1>1. \A i \in m .. n : s[i] \in S
  BY ElementOfSeq
<1> QED
  BY <1>1, SubSeqProperties

LEMMA DropParts ==
  ASSUME NEW S, NEW s \in Seq(S), NEW n \in 0 .. Len(s)
  PROVE  /\ Drop(s, n) \in Seq(S) /\ Len(Drop(s, n)) = Len(s) - n
         /\ \A i \in 1 .. Len(s) - n : Drop(s, n)[i] = s[i]
         /\ TopOf(s, n) \in Seq(S) /\ Len(TopOf(s, n)) = n
         /\ \A i \in 1 .. n : TopOf(s, n)[i] = s[Len(s) - n + i]
<1>1. Len(s) \in Nat /\ Len(s) - n \in 0 .. Len(s) /\ Len(s) - n + 1 \in Nat \ {0}
  BY LenProperties
<1>2. /\ SubSeq(s, 1, Len(s) - n) \in Seq(S)
      /\ Len(SubSeq(s, 1, Len(s) - n)) = Len(s) - n
      /\ \A i \in 1 .. Len(s) - n : SubSeq(s, 1, Len(s) - n)[i] = s[i]
  BY <1>1, SubSeqParts
<1>3. /\ SubSeq(s, Len(s) - n + 1, Len(s)) \in Seq(S)
      /\ Len(SubSeq(s, Len(s) - n + 1, Len(s))) = n
      /\ \A i \in 1 .. n : SubSeq(s, Len(s) - n + 1, Len(s))[i] = s[Len(s) - n + i]
  <2>1. Len(s) \in 0 .. Len(s)
    BY <1>1
  <2> DEFINE m == Len(s) - n + 1
  <2>2. m \in Nat \ {0}
    BY <1>1
  <2>3. /\ SubSeq(s, m, Len(s)) \in Seq(S)
        /\ Len(SubSeq(s, m, Len(s))) = IF m <= Len(s) THEN Len(s) - m + 1 ELSE 0
        /\ \A i \in 1 .. Len(s) - m + 1 : SubSeq(s, m, Len(s))[i] = s[m + i - 1]
    <3> HIDE DEF m
    <3> QED
      BY <2>1, <2>2, SubSeqParts
  <2>4. Len(s) - m + 1 = n /\ (m <= Len(s) \/ n = 0)
    BY <1>1
  <2>5. Len(SubSeq(s, m, Len(s))) = n
    BY <1>1, <2>3, <2>4
  <2>6. \A i \in 1 .. n : m + i - 1 = Len(s) - n + i
    BY <1>1
  <2> QED
    BY <2>3, <2>4, <2>5, <2>6
<1> QED
  BY <1>2, <1>3 DEF Drop, TopOf

LEMMA DropAll ==
  ASSUME NEW S, NEW s \in Seq(S)
  PROVE  Drop(s, 0) = s /\ Drop(s, Len(s)) = <<>> /\ TopOf(s, 0) = <<>>
<1>1. Len(s) \in Nat
  BY LenProperties
<1>2. Len(s) - 0 = Len(s) /\ Len(s) - Len(s) = 0
  BY <1>1
<1>3. SubSeq(s, 1, Len(s)) = s
  BY SubSeqFull
<1>4. SubSeq(s, 1, 0) = <<>> /\ SubSeq(s, Len(s) - 0 + 1, Len(s)) = <<>>
  BY <1>1, SubSeqEmpty
<1> QED
  BY <1>2, <1>3, <1>4 DEF Drop, TopOf

\* What is below is not touched by dropping, or taking, from the top.
LEMMA DropConcat ==
  ASSUME NEW S, NEW u \in Seq(S), NEW s \in Seq(S), NEW n \in 0 .. Len(s)
  PROVE  Drop(u \o s, n) = u \o Drop(s, n) /\ TopOf(u \o s, n) = TopOf(s, n)
<1>1. Len(u) \in Nat /\ Len(s) \in Nat
  BY LenProperties
<1>2. /\ u \o s \in Seq(S) /\ Len(u \o s) = Len(u) + Len(s)
      /\ \A i \in 1 .. Len(u) + Len(s) : (u \o s)[i] = IF i <= Len(u) THEN u[i] ELSE s[i - Len(u)]
  BY ConcatProperties
<1>3. n \in 0 .. Len(u \o s)
  BY <1>1, <1>2
<1>4. /\ Drop(u \o s, n) \in Seq(S) /\ Len(Drop(u \o s, n)) = Len(u) + Len(s) - n
      /\ \A i \in 1 .. Len(u) + Len(s) - n : Drop(u \o s, n)[i] = (u \o s)[i]
      /\ TopOf(u \o s, n) \in Seq(S) /\ Len(TopOf(u \o s, n)) = n
      /\ \A i \in 1 .. n : TopOf(u \o s, n)[i] = (u \o s)[Len(u) + Len(s) - n + i]
  <2> DEFINE w == u \o s
  <2> HIDE DEF w
  <2>1. /\ Drop(w, n) \in Seq(S) /\ Len(Drop(w, n)) = Len(w) - n
        /\ \A i \in 1 .. Len(w) - n : Drop(w, n)[i] = w[i]
        /\ TopOf(w, n) \in Seq(S) /\ Len(TopOf(w, n)) = n
        /\ \A i \in 1 .. n : TopOf(w, n)[i] = w[Len(w) - n + i]
    BY <1>2, <1>3, DropParts DEF w
  <2>2. Len(w) = Len(u) + Len(s)
    BY <1>2 DEF w
  <2> USE DEF w
  <2> QED
    BY <2>1, <2>2
<1>5. /\ Drop(s, n) \in Seq(S) /\ Len(Drop(s, n)) = Len(s) - n
      /\ \A i \in 1 .. Len(s) - n : Drop(s, n)[i] = s[i]
      /\ TopOf(s, n) \in Seq(S) /\ Len(TopOf(s, n)) = n
      /\ \A i \in 1 .. n : TopOf(s, n)[i] = s[Len(s) - n + i]
  BY DropParts
<1>6. /\ u \o Drop(s, n) \in Seq(S) /\ Len(u \o Drop(s, n)) = Len(u) + (Len(s) - n)
      /\ \A i \in 1 .. Len(u) + (Len(s) - n) :
           (u \o Drop(s, n))[i] = IF i <= Len(u) THEN u[i] ELSE Drop(s, n)[i - Len(u)]
  <2> DEFINE d == Drop(s, n)
  <2> HIDE DEF d
  <2>1. d \in Seq(S) /\ Len(d) = Len(s) - n
    BY <1>5 DEF d
  <2>2. /\ u \o d \in Seq(S) /\ Len(u \o d) = Len(u) + Len(d)
        /\ \A i \in 1 .. Len(u) + Len(d) : (u \o d)[i] = IF i <= Len(u) THEN u[i] ELSE d[i - Len(u)]
    BY <2>1, ConcatProperties
  <2> QED
    BY <2>1, <2>2 DEF d
<1>7. ASSUME NEW i \in 1 .. Len(u) + Len(s) - n PROVE Drop(u \o s, n)[i] = (u \o Drop(s, n))[i]
  <2>1. CASE i <= Len(u)
    BY <1>1, <1>2, <1>4, <1>6, <2>1
  <2>2. CASE ~(i <= Len(u))
    <3>1. i - Len(u) \in 1 .. Len(s) - n /\ i \in 1 .. Len(u) + Len(s)
      BY <1>1, <2>2
    <3> QED
      BY <1>1, <1>2, <1>4, <1>5, <1>6, <2>2, <3>1
  <2> QED
    BY <2>1, <2>2
<1>8. Drop(u \o s, n) = u \o Drop(s, n)
  <2>1. Len(u) + Len(s) - n = Len(u) + (Len(s) - n)
    BY <1>1
  <2> QED
    BY <1>4, <1>6, <1>7, <2>1, SeqEqual
<1>9. ASSUME NEW i \in 1 .. n PROVE TopOf(u \o s, n)[i] = TopOf(s, n)[i]
  <2> DEFINE j == Len(u) + Len(s) - n + i
  <2>1. j \in 1 .. Len(u) + Len(s) /\ ~(j <= Len(u)) /\ j - Len(u) = Len(s) - n + i
    BY <1>1
  <2>2. TopOf(u \o s, n)[i] = (u \o s)[j] /\ TopOf(s, n)[i] = s[Len(s) - n + i]
    BY <1>4, <1>5
  <2> HIDE DEF j
  <2>3. (u \o s)[j] = s[j - Len(u)]
    BY <1>2, <2>1
  <2> QED
    BY <2>1, <2>2, <2>3
<1>10. TopOf(u \o s, n) = TopOf(s, n)
  BY <1>4, <1>5, <1>9, SeqEqual
<1> QED
  BY <1>8, <1>10

\* Parts of a concatenation, and parts of parts.
LEMMA SubSeqLow ==
  ASSUME NEW S, NEW u \in Seq(S), NEW s \in Seq(S), NEW b \in 0 .. Len(u), NEW a \in 0 .. b
  PROVE  SubSeq(u \o s, a + 1, b) = SubSeq(u, a + 1, b)
<1>1. Len(u) \in Nat /\ Len(s) \in Nat /\ a + 1 \in Nat \ {0}
  BY LenProperties
<1>2. /\ u \o s \in Seq(S) /\ Len(u \o s) = Len(u) + Len(s)
      /\ \A i \in 1 .. Len(u) + Len(s) : (u \o s)[i] = IF i <= Len(u) THEN u[i] ELSE s[i - Len(u)]
  BY ConcatProperties
<1>3. b \in 0 .. Len(u \o s)
  BY <1>1, <1>2
<1> DEFINE w == u \o s
           m == a + 1
<1>4. /\ SubSeq(w, m, b) \in Seq(S) /\ Len(SubSeq(w, m, b)) = IF m <= b THEN b - m + 1 ELSE 0
      /\ \A i \in 1 .. b - m + 1 : SubSeq(w, m, b)[i] = w[m + i - 1]
  <2> HIDE DEF w, m
  <2>1. w \in Seq(S) /\ b \in 0 .. Len(w) /\ m \in Nat \ {0}
    BY <1>1, <1>2, <1>3 DEF w, m
  <2> QED
    BY <2>1, SubSeqParts
<1>5. /\ SubSeq(u, m, b) \in Seq(S) /\ Len(SubSeq(u, m, b)) = IF m <= b THEN b - m + 1 ELSE 0
      /\ \A i \in 1 .. b - m + 1 : SubSeq(u, m, b)[i] = u[m + i - 1]
  <2> HIDE DEF m
  <2>1. m \in Nat \ {0}
    BY <1>1 DEF m
  <2> QED
    BY <2>1, SubSeqParts
<1>6. \A i \in 1 .. b - m + 1 : m + i - 1 \in 1 .. Len(u) + Len(s) /\ m + i - 1 <= Len(u)
  BY <1>1
<1>7. Len(SubSeq(u, m, b)) = b - m + 1
  BY <1>5
<1>8. \A i \in 1 .. b - m + 1 : SubSeq(w, m, b)[i] = SubSeq(u, m, b)[i]
  <2> TAKE i \in 1 .. b - m + 1
  <2> DEFINE j == m + i - 1
  <2>1. j \in 1 .. Len(u) + Len(s) /\ j <= Len(u)
    BY <1>6
  <2>2. w[j] = u[j]
    <3> HIDE DEF j
    <3> QED
      BY <1>2, <2>1
  <2> QED
    BY <1>4, <1>5, <2>2
<1>9. SubSeq(w, m, b) = SubSeq(u, m, b)
  <2> HIDE DEF w, m
  <2> QED
    BY <1>4, <1>5, <1>7, <1>8, SeqEqual
<1> QED
  BY <1>9

LEMMA SubSeqHigh ==
  ASSUME NEW S, NEW u \in Seq(S), NEW s \in Seq(S)
  PROVE  SubSeq(u \o s, Len(u) + 1, Len(u) + Len(s)) = s
<1>1. Len(u) \in Nat /\ Len(s) \in Nat
  BY LenProperties
<1>2. /\ u \o s \in Seq(S) /\ Len(u \o s) = Len(u) + Len(s)
  BY ConcatProperties
<1>3. TopOf(u \o s, Len(s)) = TopOf(s, Len(s))
  BY <1>1, DropConcat
<1>4. TopOf(s, Len(s)) = SubSeq(s, 1, Len(s))
  BY <1>1 DEF TopOf
<1>5. SubSeq(s, 1, Len(s)) = s
  BY SubSeqFull
<1>6. TopOf(u \o s, Len(s)) = SubSeq(u \o s, Len(u) + 1, Len(u) + Len(s))
  <2>1. Len(u) + Len(s) - Len(s) + 1 = Len(u) + 1
    BY <1>1
  <2> QED
    BY <1>2, <2>1 DEF TopOf
<1> QED
  BY <1>3, <1>4, <1>5, <1>6

LEMMA SubSeqPrefix ==
  ASSUME NEW S, NEW s \in Seq(S), NEW c \in 0 .. Len(s), NEW b \in 0 .. c, NEW a \in 0 .. b
  PROVE  SubSeq(SubSeq(s, 1, c), a + 1, b) = SubSeq(s, a + 1, b)
<1>1. Len(s) \in Nat /\ c \in Nat /\ c + 1 \in Nat
  BY LenProperties
<1>2. SubSeq(s, 1, c) \in Seq(S) /\ Len(SubSeq(s, 1, c)) = c
  BY <1>1, SubSeqParts
<1>3. Len(s) \in 0 .. Len(s)
  BY <1>1
<1>4. SubSeq(s, c + 1, Len(s)) \in Seq(S)
  BY <1>1, <1>3, SubSeqParts
<1>5. SubSeq(s, 1, c) \o SubSeq(s, c + 1, Len(s)) = s
  <2>1. SubSeq(s, 1, c) \o SubSeq(s, c + 1, Len(s)) = SubSeq(s, 1, Len(s))
    <3>1. 1 \in 1 .. Len(s) + 1 /\ c \in 1 - 1 .. Len(s) /\ Len(s) \in c .. Len(s)
      BY <1>1
    <3> QED
      BY <3>1, ConcatAdjacentSubSeq
  <2> QED
    BY <2>1, SubSeqFull
<1>6. b \in 0 .. Len(SubSeq(s, 1, c))
  BY <1>2
<1>7. SubSeq(SubSeq(s, 1, c) \o SubSeq(s, c + 1, Len(s)), a + 1, b) = SubSeq(SubSeq(s, 1, c), a + 1, b)
  BY <1>2, <1>4, <1>6, SubSeqLow
<1> QED
  BY <1>5, <1>7

LEMMA NthConcat ==
  ASSUME NEW S, NEW u \in Seq(S), NEW s \in Seq(S), NEW i \in 1 .. Len(s)
  PROVE  Nth(u \o s, i) = Nth(s, i) /\ Nth(s, i) \in S
<1>1. Len(u) \in Nat /\ Len(s) \in Nat
  BY LenProperties
<1>2. /\ u \o s \in Seq(S) /\ Len(u \o s) = Len(u) + Len(s)
      /\ \A j \in 1 .. Len(u) + Len(s) : (u \o s)[j] = IF j <= Len(u) THEN u[j] ELSE s[j - Len(u)]
  BY ConcatProperties
<1> DEFINE j == Len(u) + Len(s) + 1 - i
<1>3. j \in 1 .. Len(u) + Len(s) /\ ~(j <= Len(u)) /\ j - Len(u) = Len(s) + 1 - i
  BY <1>1
<1>4. (u \o s)[j] = s[Len(s) + 1 - i]
  <2> HIDE DEF j
  <2> QED
    BY <1>2, <1>3
<1>5. Len(s) + 1 - i \in 1 .. Len(s)
  BY <1>1
<1> QED
  BY <1>2, <1>4, <1>5, ElementOfSeq DEF Nth

\* The local a from the top becomes x.
PutAt(s, a, x) == [s EXCEPT ![Len(s) + 1 - a] = x]

LEMMA PutAtParts ==
  ASSUME NEW S, NEW s \in Seq(S), NEW a \in 1 .. Len(s), NEW x \in S
  PROVE  /\ PutAt(s, a, x) \in Seq(S) /\ Len(PutAt(s, a, x)) = Len(s)
         /\ \A j \in 1 .. Len(s) : PutAt(s, a, x)[j] = IF j = Len(s) + 1 - a THEN x ELSE s[j]
<1> DEFINE c == Len(s) + 1 - a
<1>1. c \in 1 .. Len(s)
  BY LenProperties
<1>2. PutAt(s, a, x) = [s EXCEPT ![c] = x]
  BY DEF PutAt
<1>3. /\ [s EXCEPT ![c] = x] \in Seq(S) /\ Len([s EXCEPT ![c] = x]) = Len(s)
      /\ \A j \in 1 .. Len(s) : [s EXCEPT ![c] = x][j] = IF j = c THEN x ELSE s[j]
  <2> HIDE DEF c
  <2> QED
    BY <1>1, ExceptSeq
<1> HIDE DEF c
<1>4. /\ PutAt(s, a, x) \in Seq(S) /\ Len(PutAt(s, a, x)) = Len(s)
      /\ \A j \in 1 .. Len(s) : PutAt(s, a, x)[j] = IF j = c THEN x ELSE s[j]
  BY <1>2, <1>3
<1> QED
  BY <1>4 DEF c

LEMMA PutAtConcat ==
  ASSUME NEW S, NEW u \in Seq(S), NEW s \in Seq(S), NEW a \in 1 .. Len(s), NEW x \in S
  PROVE  PutAt(u \o s, a, x) = u \o PutAt(s, a, x)
<1>1. Len(u) \in Nat /\ Len(s) \in Nat
  BY LenProperties
<1> DEFINE w == u \o s
           v == PutAt(s, a, x)
           z == PutAt(w, a, x)
           c == Len(s) + 1 - a
           d == Len(w) + 1 - a
<1>2. /\ w \in Seq(S) /\ Len(w) = Len(u) + Len(s)
      /\ \A j \in 1 .. Len(u) + Len(s) : w[j] = IF j <= Len(u) THEN u[j] ELSE s[j - Len(u)]
  BY ConcatProperties
<1>3. c \in 1 .. Len(s) /\ d \in 1 .. Len(w) /\ d = Len(u) + c
  BY <1>1, <1>2
<1>4. /\ v \in Seq(S) /\ Len(v) = Len(s)
      /\ \A j \in 1 .. Len(s) : v[j] = IF j = c THEN x ELSE s[j]
  BY PutAtParts
<1>5. /\ z \in Seq(S) /\ Len(z) = Len(w)
      /\ \A j \in 1 .. Len(w) : z[j] = IF j = d THEN x ELSE w[j]
  <2>1. w \in Seq(S) /\ a \in 1 .. Len(w)
    BY <1>1, <1>2
  <2> HIDE DEF w
  <2> QED
    BY <2>1, PutAtParts
<1>6. /\ u \o v \in Seq(S) /\ Len(u \o v) = Len(u) + Len(v)
      /\ \A j \in 1 .. Len(u) + Len(v) : (u \o v)[j] = IF j <= Len(u) THEN u[j] ELSE v[j - Len(u)]
  <2>1. v \in Seq(S)
    BY <1>4
  <2> HIDE DEF v, w, c, d, z
  <2> QED
    BY <2>1, ConcatProperties
<1>7. Len(w) = Len(u) + Len(s)
  BY <1>2
<1>8. ASSUME NEW j \in 1 .. Len(u) + Len(s) PROVE z[j] = (u \o v)[j]
  <2> HIDE DEF c, d, v, z, w
  <2>1. CASE j <= Len(u)
    BY <1>1, <1>2, <1>3, <1>4, <1>5, <1>6, <1>7, <2>1
  <2>2. CASE ~(j <= Len(u))
    <3> DEFINE i == j - Len(u)
    <3>1. i \in 1 .. Len(s) /\ (i = c <=> j = d)
      BY <1>1, <1>3, <2>2
    <3>2. v[i] = IF i = c THEN x ELSE s[i]
      <4> HIDE DEF i
      <4> QED
        BY <1>4, <3>1
    <3> QED
      BY <1>2, <1>4, <1>5, <1>6, <1>7, <2>2, <3>1, <3>2
  <2> QED
    BY <2>1, <2>2
<1>9. z = u \o v
  <2>1. \A j \in 1 .. Len(z) : z[j] = (u \o v)[j]
    BY <1>5, <1>7, <1>8
  <2>2. Len(z) = Len(u \o v) /\ z \in Seq(S) /\ u \o v \in Seq(S)
    BY <1>4, <1>5, <1>6, <1>7
  <2> HIDE DEF z, v, w
  <2> QED
    BY <2>1, <2>2, SeqEqual
<1> QED
  BY <1>9

LEMMA ResizedDown ==
  ASSUME NEW S, NEW s \in Seq(S), NEW n \in 0 .. Len(s), NEW fill
  PROVE  Resized(s, n, fill) = SubSeq(s, 1, n)
<1>1. Len(s) \in Nat /\ n \in Nat
  BY LenProperties
<1>2. \A i \in 1 .. n : i <= Len(s) /\ s[i] \in S
  BY <1>1, ElementOfSeq
<1> DEFINE q == [i \in 1 .. n |-> IF i <= Len(s) THEN s[i] ELSE fill]
<1>3. q = [i \in 1 .. n |-> s[i]]
  BY <1>2
<1>4. q \in Seq(S) /\ Len(q) = n /\ \A i \in 1 .. n : q[i] = s[i]
  BY <1>1, <1>2, <1>3
<1>5. /\ SubSeq(s, 1, n) \in Seq(S) /\ Len(SubSeq(s, 1, n)) = n
      /\ \A i \in 1 .. n : SubSeq(s, 1, n)[i] = s[i]
  BY <1>1, SubSeqParts
<1>6. q = SubSeq(s, 1, n)
  <2> HIDE DEF q
  <2> QED
    BY <1>4, <1>5, SeqEqual
<1> QED
  BY <1>6 DEF Resized

-----------------------------------------------------------------------------
\* A stack of calls that runs typed code.

\* What T is has no bearing on the lemmas up to the steps of the thread: it
\* says of some offsets with which shape a frame is there.

FrameRec == [func : InModule, inst : Nat, offset : Nat, values : Nat, exceptions : Nat]
Exn == [inst : Nat, tag : Indices(M.tags)]
Statuses == {"new", "run", "return", "trap", "exception"}
ThreadRec == [frames : Seq(FrameRec), values : Seq(ValueTypes), exceptions : Seq(Exn), inst : Nat,
              result : Statuses, func : InModule]

Params(f) == FuncType(r, f).params
Results(f) == FuncType(r, f).results

\* n parts of something of size last lie one behind the other.
Bounds(f, n, last) ==
  /\ f \in [1 .. n + 1 -> Nat]
  /\ f[1] = 0 /\ f[n + 1] = last
  /\ \A i, j \in 1 .. n + 1 : i <= j => f[i] <= f[j]

\* Bounds of no part, of one part more, and of the parts below one.
LEMMA BoundsEmpty == \E f : Bounds(f, 0, 0)
<1> DEFINE f == [i \in 1 .. 0 + 1 |-> 0]
<1>1. Bounds(f, 0, 0)
  BY DEF Bounds
<1> QED
  BY <1>1

LEMMA BoundsMore ==
  ASSUME NEW n \in Nat, NEW last \in Nat, NEW f, Bounds(f, n, last), NEW m \in Nat, last <= m
  PROVE  \E g : Bounds(g, n + 1, m) /\ \A i \in 1 .. n + 1 : g[i] = f[i]
<1> DEFINE g == [i \in 1 .. (n + 1) + 1 |-> IF i = n + 2 THEN m ELSE f[i]]
<1>1. /\ f \in [1 .. n + 1 -> Nat] /\ f[1] = 0 /\ f[n + 1] = last
      /\ \A i, j \in 1 .. n + 1 : i <= j => f[i] <= f[j]
  BY DEF Bounds
<1>2. \A i \in 1 .. n + 1 : g[i] = f[i] /\ f[i] \in Nat /\ f[i] <= m
  <2> TAKE i \in 1 .. n + 1
  <2>1. i <= n + 1 /\ n + 1 \in 1 .. n + 1
    OBVIOUS
  <2>2. f[i] \in Nat /\ f[i] <= last
    BY <1>1, <2>1
  <2> QED
    BY <2>2
<1>3. g[n + 2] = m /\ g \in [1 .. (n + 1) + 1 -> Nat]
  <2>1. n + 2 \in 1 .. (n + 1) + 1
    OBVIOUS
  <2>2. \A i \in 1 .. (n + 1) + 1 : i = n + 2 \/ i \in 1 .. n + 1
    OBVIOUS
  <2>3. \A i \in 1 .. (n + 1) + 1 : g[i] \in Nat
    BY <1>2, <2>2
  <2> QED
    BY <2>1, <2>3
<1>4. ASSUME NEW i \in 1 .. (n + 1) + 1, NEW j \in 1 .. (n + 1) + 1, i <= j PROVE g[i] <= g[j]
  <2>1. CASE j \in 1 .. n + 1
    <3>1. i \in 1 .. n + 1
      BY <1>4, <2>1
    <3> HIDE DEF g
    <3> QED
      BY <1>1, <1>2, <1>4, <2>1, <3>1
  <2>2. CASE j = n + 2
    <3>1. i \in 1 .. n + 1 \/ i = n + 2
      OBVIOUS
    <3> HIDE DEF g
    <3> QED
      BY <1>2, <1>3, <2>2, <3>1
  <2> QED
    BY <2>1, <2>2
<1>5. g[1] = 0 /\ g[(n + 1) + 1] = m
  <2>1. 1 \in 1 .. n + 1 /\ (n + 1) + 1 = n + 2
    OBVIOUS
  <2> HIDE DEF g
  <2> QED
    BY <1>1, <1>2, <1>3, <2>1
<1>6. Bounds(g, n + 1, m)
  <2> HIDE DEF g
  <2> QED
    BY <1>3, <1>4, <1>5 DEF Bounds
<1> HIDE DEF g
<1> QED
  BY <1>2, <1>6

LEMMA BoundsLess ==
  ASSUME NEW n \in Nat, NEW last \in Nat, NEW f, Bounds(f, n, last), NEW k \in 1 .. n
  PROVE  \E g : Bounds(g, k - 1, f[k]) /\ \A i \in 1 .. k : g[i] = f[i]
<1> DEFINE g == [i \in 1 .. (k - 1) + 1 |-> f[i]]
<1>1. /\ f \in [1 .. n + 1 -> Nat] /\ f[1] = 0
      /\ \A i, j \in 1 .. n + 1 : i <= j => f[i] <= f[j]
  BY DEF Bounds
<1>2. (k - 1) + 1 = k /\ 1 .. k \subseteq 1 .. n + 1 /\ 1 \in 1 .. k /\ k \in 1 .. k
  OBVIOUS
<1>3. \A i \in 1 .. k : g[i] = f[i]
  BY <1>2
<1>4. g \in [1 .. (k - 1) + 1 -> Nat]
  BY <1>1, <1>2
<1>5. g[1] = 0 /\ g[(k - 1) + 1] = f[k]
  <2> HIDE DEF g
  <2> QED
    BY <1>1, <1>2, <1>3
<1>6. \A i, j \in 1 .. (k - 1) + 1 : i <= j => g[i] <= g[j]
  <2> HIDE DEF g
  <2> QED
    BY <1>1, <1>2, <1>3
<1>7. Bounds(g, k - 1, f[k])
  <2> HIDE DEF g
  <2> QED
    BY <1>4, <1>5, <1>6 DEF Bounds
<1> HIDE DEF g
<1> QED
  BY <1>3, <1>7

\* A frame waits for a call: it is behind the call, keeps held of the value
\* stack, from base on, and gets res on top of that; the callee starts with ne
\* caught exceptions.  An exception from the callee finds the code of its
\* handler typed.
Waits(T, frame, base, held, ne, res) ==
  LET o == frame.offset
  IN  /\ o \in DOMAIN T /\ T[o] \in Shapes
      /\ T[o].func = frame.func
      /\ T[o].stack = held \o res
      /\ frame.exceptions + T[o].exceptions = ne
      /\ Lands(T, Shape(frame.func, held, T[o].exceptions), o)
      /\ Tries => frame.values = base + Len(Params(frame.func))
      /\ IF o \in DOMAIN at THEN Len(res) <= Len(at[o].stack)
         ELSE held = <<>> /\ T[o].exceptions = 0

\* What frame k gets, and the exceptions behind it.
Gets(fs, res, k) == IF k = Len(fs) THEN res ELSE Results(fs[k + 1].func)

WaitAt(T, fs, vs, b, e, res, k) ==
  /\ fs[k].exceptions = e[k]
  /\ Waits(T, fs[k], b[k], SubSeq(vs, b[k] + 1, b[k + 1]), e[k + 1], Gets(fs, res, k))

\* The frames fs wait, with vs on the value stack and ne exceptions caught, for
\* a call that returns res; then the thread returns final.
WaitsBy(T, fs, vs, ne, res, final, b, e) ==
  /\ Bounds(b, Len(fs), Len(vs)) /\ Bounds(e, Len(fs), ne)
  /\ \A k \in 1 .. Len(fs) : WaitAt(T, fs, vs, b, e, res, k)
  /\ final = IF fs = <<>> THEN res ELSE Results(fs[1].func)

AllWait(T, fs, vs, ne, res, final) == \E b, e : WaitsBy(T, fs, vs, ne, res, final, b, e)

\* No frame waits below the first call; a call makes the innermost one wait.
LEMMA AllWaitEmpty ==
  ASSUME NEW T, NEW res
  PROVE  AllWait(T, <<>>, <<>>, 0, res, res)
<1>1. PICK f : Bounds(f, 0, 0)
  BY BoundsEmpty
<1>2. Len(<<>>) = 0 /\ 1 .. Len(<<>>) = {}
  OBVIOUS
<1>3. WaitsBy(T, <<>>, <<>>, 0, res, res, f, f)
  BY <1>1, <1>2 DEF WaitsBy
<1> QED
  BY <1>3 DEF AllWait

LEMMA AllWaitPush ==
  ASSUME NEW T, NEW fs \in Seq(FrameRec), NEW vs \in Seq(ValueTypes), NEW ne \in Nat, NEW final,
         NEW frame \in FrameRec, NEW held \in Seq(ValueTypes), NEW n2 \in Nat, NEW res,
         AllWait(T, fs, vs, ne, Results(frame.func), final),
         Waits(T, frame, Len(vs), held, n2, res), frame.exceptions = ne, ne <= n2
  PROVE  AllWait(T, Append(fs, frame), vs \o held, n2, res, final)
<1>1. PICK b, e : WaitsBy(T, fs, vs, ne, Results(frame.func), final, b, e)
  BY DEF AllWait
<1> DEFINE n == Len(fs)
           gs == Append(fs, frame)
           ws == vs \o held
<1>2. /\ n \in Nat /\ gs \in Seq(FrameRec) /\ Len(gs) = n + 1 /\ gs # <<>>
      /\ \A i \in 1 .. n : gs[i] = fs[i]
      /\ gs[n + 1] = frame
  BY AppendProperties, LenProperties
<1>3. Len(vs) \in Nat /\ Len(held) \in Nat /\ ws \in Seq(ValueTypes) /\ Len(ws) = Len(vs) + Len(held)
  BY ConcatProperties, LenProperties
<1>4. Bounds(b, n, Len(vs)) /\ Bounds(e, n, ne)
  BY <1>1 DEF WaitsBy
<1>5. PICK c : Bounds(c, n + 1, Len(ws)) /\ \A i \in 1 .. n + 1 : c[i] = b[i]
  <2>1. Len(ws) \in Nat /\ Len(vs) <= Len(ws)
    BY <1>3
  <2> QED
    BY <1>2, <1>3, <1>4, <2>1, BoundsMore
<1>6. PICK d : Bounds(d, n + 1, n2) /\ \A i \in 1 .. n + 1 : d[i] = e[i]
  BY <1>2, <1>4, BoundsMore
<1>7. /\ b \in [1 .. n + 1 -> Nat] /\ b[n + 1] = Len(vs) /\ e[n + 1] = ne
      /\ \A i, j \in 1 .. n + 1 : i <= j => b[i] <= b[j]
  BY <1>4 DEF Bounds
<1>8. c[n + 2] = Len(ws) /\ d[n + 2] = n2
  <2>1. (n + 1) + 1 = n + 2
    BY <1>2
  <2> QED
    BY <1>5, <1>6, <2>1 DEF Bounds
<1>9. ASSUME NEW k \in 1 .. n PROVE WaitAt(T, gs, ws, c, d, res, k)
  <2>1. k \in 1 .. n + 1 /\ k + 1 \in 1 .. n + 1 /\ k <= k + 1 /\ k + 1 <= n + 1 /\ n + 1 \in 1 .. n + 1
    BY <1>2
  <2>2. c[k] = b[k] /\ c[k + 1] = b[k + 1] /\ d[k] = e[k] /\ d[k + 1] = e[k + 1]
    BY <1>5, <1>6, <2>1
  <2>3. b[k] \in 0 .. b[k + 1] /\ b[k + 1] \in 0 .. Len(vs)
    <3>1. b[k] \in Nat /\ b[k + 1] \in Nat /\ b[k] <= b[k + 1] /\ b[k + 1] <= b[n + 1]
      BY <1>7, <2>1
    <3> QED
      BY <1>3, <1>7, <3>1
  <2>4. SubSeq(ws, b[k] + 1, b[k + 1]) = SubSeq(vs, b[k] + 1, b[k + 1])
    BY <2>3, SubSeqLow
  <2>5. Gets(gs, res, k) = Gets(fs, Results(frame.func), k)
    <3>1. CASE k = n
      <4>1. k # Len(gs) /\ gs[k + 1] = frame
        BY <1>2, <3>1
      <4> QED
        BY <3>1, <4>1 DEF Gets
    <3>2. CASE k # n
      <4>1. k # Len(gs) /\ k + 1 \in 1 .. n
        BY <1>2, <3>2
      <4>2. gs[k + 1] = fs[k + 1]
        BY <1>2, <4>1
      <4> QED
        BY <3>2, <4>1, <4>2 DEF Gets
    <3> QED
      BY <3>1, <3>2
  <2>6. WaitAt(T, fs, vs, b, e, Results(frame.func), k) /\ gs[k] = fs[k]
    BY <1>1, <1>2 DEF WaitsBy
  <2> HIDE DEF gs, ws
  <2> QED
    BY <2>2, <2>4, <2>5, <2>6 DEF WaitAt
<1>10. WaitAt(T, gs, ws, c, d, res, n + 1)
  <2>1. n + 1 \in 1 .. n + 1 /\ (n + 1) + 1 = n + 2
    BY <1>2
  <2>2. c[n + 1] = Len(vs) /\ d[n + 1] = ne
    BY <1>5, <1>6, <1>7, <2>1
  <2>3. SubSeq(ws, Len(vs) + 1, Len(ws)) = held
    BY <1>3, SubSeqHigh
  <2>4. Gets(gs, res, n + 1) = res
    BY <1>2 DEF Gets
  <2> HIDE DEF gs, ws
  <2> QED
    BY <1>2, <1>8, <2>1, <2>2, <2>3, <2>4 DEF WaitAt
<1>11. final = Results(gs[1].func)
  <2>1. final = IF fs = <<>> THEN Results(frame.func) ELSE Results(fs[1].func)
    BY <1>1 DEF WaitsBy
  <2>2. CASE fs = <<>>
    <3>1. gs[1] = frame
      <4>1. n = 0
        BY <2>2
      <4> QED
        BY <1>2, <4>1
    <3> QED
      BY <2>1, <2>2, <3>1
  <2>3. CASE fs # <<>>
    <3>1. 1 \in 1 .. n
      BY <1>2, <2>3, EmptySeq
    <3> QED
      BY <1>2, <2>1, <2>3, <3>1
  <2> QED
    BY <2>2, <2>3
<1>12. \A k \in 1 .. Len(gs) : WaitAt(T, gs, ws, c, d, res, k)
  <2>1. \A k \in 1 .. Len(gs) : k \in 1 .. n \/ k = n + 1
    BY <1>2
  <2> HIDE DEF gs, ws, n
  <2> QED
    BY <1>9, <1>10, <2>1
<1>13. WaitsBy(T, gs, ws, n2, res, final, c, d)
  <2> HIDE DEF gs, ws, n
  <2> QED
    BY <1>2, <1>5, <1>6, <1>11, <1>12 DEF WaitsBy
<1> QED
  BY <1>13 DEF AllWait

\* Frame k waits with the values from base to top, below n2 caught exceptions,
\* and what is below it waits for its results.
CutAt(T, fs, vs, ne, res, final, k, base, top, n2) ==
  /\ AllWait(T, SubSeq(fs, 1, k - 1), SubSeq(vs, 1, base), fs[k].exceptions, Results(fs[k].func), final)
  /\ Waits(T, fs[k], base, SubSeq(vs, base + 1, top), n2, Gets(fs, res, k))
  /\ k = Len(fs) => top = Len(vs) /\ n2 = ne

\* The frames below frame k wait as they did when it was the innermost one.
LEMMA AllWaitCut ==
  ASSUME NEW T, NEW fs \in Seq(FrameRec), NEW vs \in Seq(ValueTypes), NEW ne \in Nat, NEW res, NEW final,
         AllWait(T, fs, vs, ne, res, final), NEW k \in 1 .. Len(fs)
  PROVE  \E base \in 0 .. Len(vs) : \E top \in base .. Len(vs), n2 \in 0 .. ne :
           CutAt(T, fs, vs, ne, res, final, k, base, top, n2)
<1>1. PICK b, e : WaitsBy(T, fs, vs, ne, res, final, b, e)
  BY DEF AllWait
<1> DEFINE n == Len(fs)
           gs == SubSeq(fs, 1, k - 1)
           ws == SubSeq(vs, 1, b[k])
<1>2. n \in Nat /\ Len(vs) \in Nat /\ k \in 1 .. n + 1 /\ k + 1 \in 1 .. n + 1 /\ n + 1 \in 1 .. n + 1
      /\ k <= k + 1 /\ k + 1 <= n + 1 /\ k - 1 \in 0 .. n
  BY LenProperties
<1>3. Bounds(b, n, Len(vs)) /\ Bounds(e, n, ne)
  BY <1>1 DEF WaitsBy
<1>4. b[k] \in 0 .. Len(vs) /\ b[k + 1] \in b[k] .. Len(vs) /\ e[k + 1] \in 0 .. ne
  <2>1. /\ b \in [1 .. n + 1 -> Nat] /\ b[n + 1] = Len(vs) /\ e \in [1 .. n + 1 -> Nat] /\ e[n + 1] = ne
        /\ \A i, j \in 1 .. n + 1 : i <= j => b[i] <= b[j]
        /\ \A i, j \in 1 .. n + 1 : i <= j => e[i] <= e[j]
    BY <1>3 DEF Bounds
  <2>2. b[k] \in Nat /\ b[k + 1] \in Nat /\ e[k + 1] \in Nat
    BY <1>2, <2>1
  <2>3. b[k] <= b[k + 1] /\ b[k + 1] <= b[n + 1] /\ e[k + 1] <= e[n + 1]
    BY <1>2, <2>1
  <2> QED
    BY <1>2, <2>1, <2>2, <2>3
<1>5. WaitAt(T, fs, vs, b, e, res, k)
  BY <1>1 DEF WaitsBy
<1>6. k = n => b[k + 1] = Len(vs) /\ e[k + 1] = ne
  BY <1>3 DEF Bounds
<1>7. PICK c : Bounds(c, k - 1, b[k]) /\ \A i \in 1 .. k : c[i] = b[i]
  BY <1>2, <1>3, BoundsLess
<1>8. PICK d : Bounds(d, k - 1, e[k]) /\ \A i \in 1 .. k : d[i] = e[i]
  BY <1>2, <1>3, BoundsLess
<1>9. /\ gs \in Seq(FrameRec) /\ Len(gs) = k - 1
      /\ \A i \in 1 .. k - 1 : gs[i] = fs[i]
  BY <1>2, SubSeqParts
<1>10. ws \in Seq(ValueTypes) /\ Len(ws) = b[k]
  <2>1. PICK m : m = b[k]
    OBVIOUS
  <2>2. m \in 0 .. Len(vs) /\ m \in Nat
    BY <1>2, <1>4, <2>1
  <2>3. SubSeq(vs, 1, m) \in Seq(ValueTypes) /\ Len(SubSeq(vs, 1, m)) = m
    BY <2>2, SubSeqParts
  <2> QED
    BY <2>1, <2>3
<1>11. fs[k].exceptions = e[k]
  BY <1>5 DEF WaitAt
<1>12. ASSUME NEW i \in 1 .. Len(gs) PROVE WaitAt(T, gs, ws, c, d, Results(fs[k].func), i)
  <2>1. i \in 1 .. k /\ i + 1 \in 1 .. k /\ i \in 1 .. n /\ i \in 1 .. k - 1 /\ i <= i + 1 /\ i + 1 <= k
        /\ i \in 1 .. n + 1 /\ i + 1 \in 1 .. n + 1 /\ i # n
    BY <1>2, <1>9
  <2>2. c[i] = b[i] /\ c[i + 1] = b[i + 1] /\ d[i] = e[i] /\ d[i + 1] = e[i + 1]
    BY <1>7, <1>8, <2>1
  <2>3. b[i] \in 0 .. b[i + 1] /\ b[i + 1] \in 0 .. b[k]
    <3>1. /\ b \in [1 .. n + 1 -> Nat]
          /\ \A x, y \in 1 .. n + 1 : x <= y => b[x] <= b[y]
      BY <1>3 DEF Bounds
    <3>2. b[i] \in Nat /\ b[i + 1] \in Nat /\ b[i] <= b[i + 1] /\ b[i + 1] <= b[k]
      BY <1>2, <2>1, <3>1
    <3> QED
      BY <1>4, <3>2
  <2>4. SubSeq(ws, b[i] + 1, b[i + 1]) = SubSeq(vs, b[i] + 1, b[i + 1])
    BY <1>4, <2>3, SubSeqPrefix
  <2>5. Gets(gs, Results(fs[k].func), i) = Gets(fs, res, i)
    <3>1. CASE i = k - 1
      <4>1. i + 1 = k
        BY <1>2, <3>1
      <4> QED
        BY <1>9, <2>1, <3>1, <4>1 DEF Gets
    <3>2. CASE i # k - 1
      <4>1. i + 1 \in 1 .. k - 1
        BY <1>2, <2>1, <3>2
      <4>2. gs[i + 1] = fs[i + 1]
        BY <1>9, <4>1
      <4> QED
        BY <1>9, <2>1, <3>2, <4>2 DEF Gets
    <3> QED
      BY <3>1, <3>2
  <2>6. WaitAt(T, fs, vs, b, e, res, i) /\ gs[i] = fs[i]
    BY <1>1, <1>9, <2>1 DEF WaitsBy
  <2> HIDE DEF gs, ws
  <2> QED
    BY <2>2, <2>4, <2>5, <2>6 DEF WaitAt
<1>13. final = IF gs = <<>> THEN Results(fs[k].func) ELSE Results(gs[1].func)
  <2>1. fs # <<>> /\ final = Results(fs[1].func)
    <3>1. fs # <<>>
      BY <1>2, EmptySeq
    <3> QED
      BY <1>1, <3>1 DEF WaitsBy
  <2>2. CASE k = 1
    <3>1. gs = <<>>
      BY <1>9, <2>2, EmptySeq
    <3> QED
      BY <2>1, <2>2, <3>1
  <2>3. CASE k # 1
    <3>1. 1 \in 1 .. k - 1 /\ k - 1 # 0
      BY <1>2, <2>3
    <3>2. gs[1] = fs[1] /\ gs # <<>>
      BY <1>9, <3>1
    <3> QED
      BY <2>1, <3>2
  <2> QED
    BY <2>2, <2>3
<1>14. WaitsBy(T, gs, ws, fs[k].exceptions, Results(fs[k].func), final, c, d)
  <2> HIDE DEF gs, ws, n
  <2> QED
    BY <1>7, <1>8, <1>9, <1>10, <1>11, <1>12, <1>13 DEF WaitsBy
<1>15. AllWait(T, gs, ws, fs[k].exceptions, Results(fs[k].func), final)
  BY <1>14 DEF AllWait
<1>16. Waits(T, fs[k], b[k], SubSeq(vs, b[k] + 1, b[k + 1]), e[k + 1], Gets(fs, res, k))
  BY <1>5 DEF WaitAt
<1>17. CutAt(T, fs, vs, ne, res, final, k, b[k], b[k + 1], e[k + 1])
  BY <1>6, <1>15, <1>16 DEF CutAt
<1> QED
  BY <1>4, <1>17

-----------------------------------------------------------------------------
\* The types of the module that is read.

HasModule == module \in DOMAIN Modules /\ r.mod = BeginModule(M).mod

\* What a module that is read gives its code: types over ValueTypes.
LEMMA ModuleTypes ==
  ASSUME HasModule
  PROVE  /\ InModule \subseteq Indices(M.funcs) /\ Indices(M.funcs) \subseteq Nat
         /\ M.imports \in InModule /\ M.imports \in Nat
         /\ \A f \in Indices(M.funcs) :
              Params(f) \in Seq(ValueTypes) /\ Results(f) \in Seq(ValueTypes) /\ Locals(r, f) \in Seq(ValueTypes)
         /\ \A f \in 0 .. M.imports - 1 : FuncType(r, f) = FuncType(r, M.imports)
         /\ \A tag \in Indices(M.tags) : M.tags[tag + 1] \in Seq(ValueTypes)
<1>1. /\ M.funcs \in Seq([params : Seq(ValueTypes), results : Seq(ValueTypes)])
      /\ M.imports \in 0 .. Len(M.funcs) - 1
      /\ \A f \in 1 .. M.imports : M.funcs[f] = M.funcs[M.imports + 1]
      /\ M.locals \in Seq(Seq(ValueTypes)) /\ Len(M.locals) = Len(M.funcs)
      /\ M.tags \in Seq(Seq(ValueTypes))
  BY ModulesAssumption DEF HasModule, M
<1>2. r.mod.funcs = M.funcs /\ r.mod.imports = M.imports /\ r.mod.locals = M.locals
  BY DEF HasModule, BeginModule
<1>3. Len(M.funcs) \in Nat /\ Len(M.tags) \in Nat /\ M.imports \in Nat
  BY <1>1, LenProperties
<1>4. InModule \subseteq Indices(M.funcs) /\ Indices(M.funcs) \subseteq Nat /\ M.imports \in InModule
  BY <1>1, <1>3 DEF InModule, Indices
<1>5. ASSUME NEW f \in Indices(M.funcs)
      PROVE  Params(f) \in Seq(ValueTypes) /\ Results(f) \in Seq(ValueTypes) /\ Locals(r, f) \in Seq(ValueTypes)
  <2>1. f + 1 \in 1 .. Len(M.funcs)
    BY <1>3 DEF Indices
  <2>2. M.funcs[f + 1] \in [params : Seq(ValueTypes), results : Seq(ValueTypes)]
    BY <1>1, <2>1, ElementOfSeq
  <2>3. M.locals[f + 1] \in Seq(ValueTypes)
    BY <1>1, <2>1, ElementOfSeq
  <2> QED
    BY <1>2, <2>2, <2>3 DEF Params, Results, FuncType, Locals
<1>6. \A f \in 0 .. M.imports - 1 : FuncType(r, f) = FuncType(r, M.imports)
  <2> TAKE f \in 0 .. M.imports - 1
  <2>1. f + 1 \in 1 .. M.imports
    BY <1>3
  <2>2. M.funcs[f + 1] = M.funcs[M.imports + 1]
    BY <1>1, <2>1
  <2> QED
    BY <1>2, <2>2 DEF FuncType
<1>7. ASSUME NEW tag \in Indices(M.tags) PROVE M.tags[tag + 1] \in Seq(ValueTypes)
  <2>1. tag + 1 \in 1 .. Len(M.tags)
    BY <1>3 DEF Indices
  <2> QED
    BY <1>1, <2>1, ElementOfSeq
<1> QED
  BY <1>3, <1>4, <1>5, <1>6, <1>7

-----------------------------------------------------------------------------
\* A running thread: its innermost frame is top, with the shape s on top of low,
\* where the frames fs wait.

Over(T, th, fs, top, s, low) ==
  /\ th \in ThreadRec /\ th.result = "run"
  /\ fs \in Seq(FrameRec) /\ top \in FrameRec /\ th.frames = Append(fs, top)
  /\ s \in Shapes /\ top.func = s.func
  /\ low \in Seq(ValueTypes) /\ th.values = low \o s.stack
  /\ Len(th.exceptions) = top.exceptions + s.exceptions
  /\ AllWait(T, fs, low, top.exceptions, Results(top.func), Results(th.func))
  /\ Tries => top.values = Len(low) + Len(Params(top.func))

\* It is where T says that this is the shape.
RunsTyped(T, th) ==
  \E fs, top, low : top.offset \in DOMAIN T /\ Over(T, th, fs, top, T[top.offset], low)

Fine(T, th) ==
  \/ th.result \in {"trap", "exception"}
  \/ th.result = "run" /\ RunsTyped(T, th)
  \/ th.result = "return" /\ th.values = Results(th.func)

\* The last of a sequence, without it and with another.
LEMMA AppendTop ==
  ASSUME NEW S, NEW s \in Seq(S), NEW x \in S, NEW y \in S
  PROVE  /\ Append(s, x) \in Seq(S) /\ Len(Append(s, x)) = Len(s) + 1 /\ Len(s) \in Nat
         /\ Last(Append(s, x)) = x /\ Front(Append(s, x)) = s
         /\ [Append(s, x) EXCEPT ![Len(Append(s, x))] = y] = Append(s, y)
<1> DEFINE a == Append(s, x)
           n == Len(s)
<1>1. n \in Nat /\ s \in [1 .. n -> S]
  BY LenProperties
<1>2. /\ a \in Seq(S) /\ Len(a) = n + 1 /\ \A i \in 1 .. n : a[i] = s[i]
      /\ a[n + 1] = x
  BY AppendProperties
<1>3. Last(a) = x
  BY <1>2 DEF Last
<1>4. Front(a) = s
  <2>1. Len(a) - 1 = n /\ n \in 0 .. Len(a)
    BY <1>1, <1>2
  <2>2. SubSeq(a, 1, n) \in Seq(S) /\ Len(SubSeq(a, 1, n)) = n /\ \A i \in 1 .. n : SubSeq(a, 1, n)[i] = a[i]
    <3> HIDE DEF a
    <3>1. 1 \in Nat \ {0} /\ n - 1 + 1 = n /\ (n = 0 \/ 1 <= n)
      BY <1>1
    <3>2. /\ SubSeq(a, 1, n) \in Seq(S) /\ Len(SubSeq(a, 1, n)) = IF 1 <= n THEN n - 1 + 1 ELSE 0
          /\ \A i \in 1 .. n - 1 + 1 : SubSeq(a, 1, n)[i] = a[1 + i - 1]
      BY <1>2, <2>1, <3>1, SubSeqParts
    <3>3. Len(SubSeq(a, 1, n)) = n
      BY <1>1, <3>1, <3>2
    <3>4. \A i \in 1 .. n : SubSeq(a, 1, n)[i] = a[i]
      <4> TAKE i \in 1 .. n
      <4>1. 1 + i - 1 = i
        OBVIOUS
      <4> QED
        BY <3>1, <3>2, <4>1
    <3> QED
      BY <3>2, <3>3, <3>4
  <2>3. SubSeq(a, 1, n) = s
    BY <1>2, <2>2, SeqEqual
  <2> QED
    BY <2>1, <2>3 DEF Front
<1>5. [a EXCEPT ![n + 1] = y] = Append(s, y)
  <2>1. /\ Append(s, y) \in Seq(S) /\ Len(Append(s, y)) = n + 1
        /\ \A i \in 1 .. n : Append(s, y)[i] = s[i]
        /\ Append(s, y)[n + 1] = y
    BY AppendProperties
  <2>2. n + 1 \in 1 .. Len(a)
    BY <1>1, <1>2
  <2>3. /\ [a EXCEPT ![n + 1] = y] \in Seq(S) /\ Len([a EXCEPT ![n + 1] = y]) = Len(a)
        /\ \A j \in 1 .. Len(a) : [a EXCEPT ![n + 1] = y][j] = IF j = n + 1 THEN y ELSE a[j]
    <3> HIDE DEF a
    <3> QED
      BY <1>2, <2>2, ExceptSeq
  <2>4. \A j \in 1 .. n + 1 : [a EXCEPT ![n + 1] = y][j] = Append(s, y)[j]
    <3> TAKE j \in 1 .. n + 1
    <3>1. j = n + 1 \/ j \in 1 .. n
      BY <1>1
    <3>2. j # n + 1 => [a EXCEPT ![n + 1] = y][j] = a[j]
      BY <1>2, <2>3
    <3>3. [a EXCEPT ![n + 1] = y][n + 1] = y
      BY <2>2, <2>3
    <3> QED
      BY <1>2, <2>1, <3>1, <3>2, <3>3
  <2>5. Len([a EXCEPT ![n + 1] = y]) = n + 1
    BY <1>2, <2>3
  <2> HIDE DEF a
  <2> QED
    BY <2>1, <2>3, <2>4, <2>5, SeqEqual
<1> QED
  BY <1>1, <1>2, <1>3, <1>4, <1>5

\* What instructions do to the innermost frame and its values.
LEMMA OverTop ==
  ASSUME NEW T, NEW th, NEW fs, NEW top, NEW s, NEW low, Over(T, th, fs, top, s, low)
  PROVE  Top(th) = top /\ Len(th.frames) = Len(fs) + 1 /\ Front(th.frames) = fs
BY AppendTop DEF Over, Top

\* What changes the value stack of the innermost frame only.
LEMMA OverValues ==
  ASSUME NEW T, NEW th, NEW fs, NEW top, NEW s, NEW low, Over(T, th, fs, top, s, low),
         NEW v \in Seq(ValueTypes), NEW u, u = [th EXCEPT !.values = low \o v]
  PROVE  Over(T, u, fs, top, [s EXCEPT !.stack = v], low)
<1>1. th \in ThreadRec /\ s \in Shapes /\ low \in Seq(ValueTypes)
  BY DEF Over
<1>2. low \o v \in Seq(ValueTypes)
  BY <1>1, ConcatProperties
<1>3. /\ u \in ThreadRec /\ u.values = low \o v /\ u.frames = th.frames
      /\ u.exceptions = th.exceptions /\ u.result = th.result /\ u.func = th.func
  BY <1>1, <1>2 DEF ThreadRec
<1>4. PICK x : x = [s EXCEPT !.stack = v]
  OBVIOUS
<1>5. x \in Shapes /\ x.func = s.func /\ x.stack = v /\ x.exceptions = s.exceptions
  BY <1>1, <1>4 DEF Shapes
<1>6. Over(T, u, fs, top, x, low)
  BY <1>3, <1>5 DEF Over
<1> QED
  BY <1>4, <1>6

LEMMA OverReplace ==
  ASSUME NEW T, NEW th, NEW fs, NEW top, NEW s, NEW low, Over(T, th, fs, top, s, low),
         NEW n \in 0 .. Len(s.stack), NEW types \in Seq(ValueTypes)
  PROVE  /\ Over(T, Push(Pop(th, n), types), fs, top, Replaced(s, n, types), low)
         /\ Over(T, Pop(th, n), fs, top, Replaced(s, n, <<>>), low)
         /\ Over(T, Push(th, types), fs, top, Replaced(s, 0, types), low)
<1>1. th \in ThreadRec /\ s \in Shapes /\ low \in Seq(ValueTypes) /\ th.values = low \o s.stack
  BY DEF Over
<1>2. s.stack \in Seq(ValueTypes)
  BY <1>1 DEF Shapes
<1>3. DOMAIN th = {"frames", "values", "exceptions", "inst", "result", "func"}
  BY <1>1 DEF ThreadRec
<1>4. ASSUME NEW m \in 0 .. Len(s.stack), NEW u, NEW kinds \in Seq(ValueTypes),
             u = [th EXCEPT !.values = Drop(th.values, m) \o kinds]
      PROVE  Over(T, u, fs, top, Replaced(s, m, kinds), low)
  <2>1. PICK v : v = Drop(s.stack, m) \o kinds
    OBVIOUS
  <2>2. Drop(s.stack, m) \in Seq(ValueTypes)
    BY <1>2, DropParts
  <2>3. v \in Seq(ValueTypes)
    BY <2>1, <2>2, ConcatProperties
  <2>4. Drop(th.values, m) = low \o Drop(s.stack, m)
    BY <1>1, <1>2, DropConcat
  <2>5. Drop(th.values, m) \o kinds = low \o v
    <3>1. (low \o Drop(s.stack, m)) \o kinds = low \o (Drop(s.stack, m) \o kinds)
      BY <1>1, <2>2, ConcatAssociative, SMTT(30)
    <3> QED
      BY <2>1, <2>4, <3>1
  <2>6. u = [th EXCEPT !.values = low \o v]
    BY <1>4, <2>5
  <2>7. Over(T, u, fs, top, [s EXCEPT !.stack = v], low)
    BY <2>3, <2>6, OverValues
  <2>8. Replaced(s, m, kinds) = [s EXCEPT !.stack = v]
    BY <2>1 DEF Replaced
  <2> QED
    BY <2>7, <2>8
<1>5. 0 \in 0 .. Len(s.stack) /\ <<>> \in Seq(ValueTypes)
  BY <1>2, LenProperties
<1>6. th.values \in Seq(ValueTypes)
  BY <1>1 DEF ThreadRec
<1>7. Push(Pop(th, n), types) = [th EXCEPT !.values = Drop(th.values, n) \o types]
  <2>1. PICK a : a = Drop(th.values, n)
    OBVIOUS
  <2>2. PICK q : q = [th EXCEPT !.values = a]
    OBVIOUS
  <2>3. q.values = a
    BY <1>3, <2>2
  <2>4. Push(q, types) = [th EXCEPT !.values = a \o types]
    BY <2>2, <2>3 DEF Push
  <2> QED
    BY <2>1, <2>2, <2>4 DEF Pop
<1>8. Pop(th, n) = [th EXCEPT !.values = Drop(th.values, n) \o <<>>]
  <2>1. Drop(th.values, n) \in Seq(ValueTypes)
    <3>1. n \in 0 .. Len(th.values)
      <4>1. Len(th.values) = Len(low) + Len(s.stack) /\ Len(low) \in Nat /\ Len(s.stack) \in Nat
        BY <1>1, <1>2, ConcatProperties, LenProperties
      <4> QED
        BY <4>1
    <3> QED
      BY <1>6, <3>1, DropParts
  <2>2. Drop(th.values, n) \o <<>> = Drop(th.values, n)
    BY <2>1, ConcatEmptySeq
  <2> QED
    BY <2>2 DEF Pop
<1>9. Push(th, types) = [th EXCEPT !.values = Drop(th.values, 0) \o types]
  BY <1>6, DropAll DEF Push
<1> QED
  BY <1>4, <1>5, <1>7, <1>8, <1>9

LEMMA OverJump ==
  ASSUME NEW T, NEW th, NEW fs, NEW top, NEW s, NEW low, Over(T, th, fs, top, s, low), NEW o \in Nat
  PROVE  Over(T, Jump(th, o), fs, [top EXCEPT !.offset = o], s, low)
<1>1. th \in ThreadRec /\ fs \in Seq(FrameRec) /\ top \in FrameRec /\ th.frames = Append(fs, top)
  BY DEF Over
<1>2. PICK x : x = [top EXCEPT !.offset = o]
  OBVIOUS
<1>3. /\ x \in FrameRec /\ x.func = top.func /\ x.exceptions = top.exceptions /\ x.values = top.values
  BY <1>1, <1>2 DEF FrameRec
<1>4. PICK q : q = Append(fs, x)
  OBVIOUS
<1>5. q \in Seq(FrameRec)
  BY <1>1, <1>3, <1>4, AppendTop
<1>6. th.frames[Len(th.frames)] = top /\ [th.frames EXCEPT ![Len(th.frames)] = x] = q
  <2>1. Last(th.frames) = top
    BY <1>1, AppendTop
  <2> QED
    BY <1>1, <1>3, <1>4, <2>1, AppendTop DEF Last
<1>7. PICK u : u = Jump(th, o)
  OBVIOUS
<1>8. u = [th EXCEPT !.frames = q]
  <2>1. PICK n, a : n = Len(th.frames) /\ a = th.frames
    OBVIOUS
  <2>2. u = [th EXCEPT !.frames = [a EXCEPT ![n] = [a[n] EXCEPT !.offset = o]]]
    BY <1>7, <2>1 DEF Jump
  <2>3. [a[n] EXCEPT !.offset = o] = x
    BY <1>2, <1>6, <2>1
  <2> QED
    BY <1>6, <2>1, <2>2, <2>3
<1>9. /\ u \in ThreadRec /\ u.values = th.values /\ u.frames = q
      /\ u.exceptions = th.exceptions /\ u.result = th.result /\ u.func = th.func
  BY <1>1, <1>5, <1>8 DEF ThreadRec
<1>10. Over(T, u, fs, x, s, low)
  BY <1>3, <1>4, <1>9 DEF Over
<1> QED
  BY <1>2, <1>7, <1>10

LEMMA OverFunc ==
  ASSUME NEW T, NEW th, NEW fs, NEW top, NEW s, NEW low, Over(T, th, fs, top, s, low),
         NEW f \in InModule, Results(f) = Results(s.func),
         Tries => Len(Params(f)) = Len(Params(s.func))
  PROVE  Over(T, [th EXCEPT !.frames[Len(th.frames)].func = f], fs, [top EXCEPT !.func = f],
              [s EXCEPT !.func = f], low)
<1>1. th \in ThreadRec /\ fs \in Seq(FrameRec) /\ top \in FrameRec /\ th.frames = Append(fs, top)
      /\ s \in Shapes /\ top.func = s.func
  BY DEF Over
<1>2. PICK x : x = [top EXCEPT !.func = f]
  OBVIOUS
<1>3. /\ x \in FrameRec /\ x.func = f /\ x.exceptions = top.exceptions /\ x.values = top.values
  BY <1>1, <1>2 DEF FrameRec
<1>4. PICK q : q = Append(fs, x)
  OBVIOUS
<1>5. q \in Seq(FrameRec)
  BY <1>1, <1>3, <1>4, AppendTop
<1>6. th.frames[Len(th.frames)] = top /\ [th.frames EXCEPT ![Len(th.frames)] = x] = q
  <2>1. Last(th.frames) = top
    BY <1>1, AppendTop
  <2> QED
    BY <1>1, <1>3, <1>4, <2>1, AppendTop DEF Last
<1>7. PICK u : u = [th EXCEPT !.frames[Len(th.frames)].func = f]
  OBVIOUS
<1>8. u = [th EXCEPT !.frames = q]
  <2>1. PICK n, a : n = Len(th.frames) /\ a = th.frames
    OBVIOUS
  <2>2. u = [th EXCEPT !.frames = [a EXCEPT ![n] = [a[n] EXCEPT !.func = f]]]
    BY <1>7, <2>1
  <2>3. [a[n] EXCEPT !.func = f] = x
    BY <1>2, <1>6, <2>1
  <2> QED
    BY <1>6, <2>1, <2>2, <2>3
<1>9. /\ u \in ThreadRec /\ u.values = th.values /\ u.frames = q
      /\ u.exceptions = th.exceptions /\ u.result = th.result /\ u.func = th.func
  BY <1>1, <1>5, <1>8 DEF ThreadRec
<1>10. PICK y : y = [s EXCEPT !.func = f]
  OBVIOUS
<1>11. y \in Shapes /\ y.func = f /\ y.stack = s.stack /\ y.exceptions = s.exceptions
  BY <1>1, <1>10 DEF Shapes
<1>12. Over(T, u, fs, x, y, low)
  <2>1. /\ AllWait(T, fs, low, x.exceptions, Results(x.func), Results(u.func))
        /\ Tries => x.values = Len(low) + Len(Params(x.func))
    BY <1>1, <1>3, <1>9 DEF Over
  <2>2. /\ u.result = "run" /\ low \in Seq(ValueTypes) /\ u.values = low \o y.stack
        /\ Len(u.exceptions) = x.exceptions + y.exceptions
    BY <1>3, <1>9, <1>11 DEF Over
  <2> QED
    BY <1>1, <1>3, <1>4, <1>9, <1>11, <2>1, <2>2 DEF Over
<1> QED
  BY <1>2, <1>7, <1>10, <1>12

LEMMA OverCatchDrop ==
  ASSUME NEW T, NEW th, NEW fs, NEW top, NEW s, NEW low, Over(T, th, fs, top, s, low),
         NEW a \in 0 .. s.exceptions
  PROVE  Over(T, [th EXCEPT !.exceptions = Drop(@, a)], fs, top, [s EXCEPT !.exceptions = @ - a], low)
<1>1. th \in ThreadRec /\ top \in FrameRec /\ s \in Shapes /\ Len(th.exceptions) = top.exceptions + s.exceptions
  BY DEF Over
<1>2. th.exceptions \in Seq(Exn) /\ top.exceptions \in Nat /\ s.exceptions \in Nat
  BY <1>1 DEF ThreadRec, FrameRec, Shapes
<1>3. PICK v : v = Drop(th.exceptions, a)
  OBVIOUS
<1>4. a \in 0 .. Len(th.exceptions)
  BY <1>1, <1>2
<1>5. v \in Seq(Exn) /\ Len(v) = Len(th.exceptions) - a
  <2>1. PICK es : es = th.exceptions
    OBVIOUS
  <2>2. es \in Seq(Exn) /\ a \in 0 .. Len(es)
    BY <1>2, <1>4, <2>1
  <2>3. Drop(es, a) \in Seq(Exn) /\ Len(Drop(es, a)) = Len(es) - a
    BY <2>2, DropParts
  <2> QED
    BY <1>3, <2>1, <2>3
<1>6. PICK u : u = [th EXCEPT !.exceptions = v]
  OBVIOUS
<1>7. /\ u \in ThreadRec /\ u.values = th.values /\ u.frames = th.frames
      /\ u.exceptions = v /\ u.result = th.result /\ u.func = th.func
  BY <1>1, <1>5, <1>6 DEF ThreadRec
<1>8. PICK x : x = [s EXCEPT !.exceptions = s.exceptions - a]
  OBVIOUS
<1>9. s.exceptions - a \in Nat
  BY <1>2
<1>10. x \in Shapes /\ x.func = s.func /\ x.stack = s.stack /\ x.exceptions = s.exceptions - a
  BY <1>1, <1>8, <1>9 DEF Shapes
<1>11. Len(u.exceptions) = top.exceptions + x.exceptions
  BY <1>1, <1>2, <1>5, <1>7, <1>10
<1>12. Over(T, u, fs, top, x, low)
  BY <1>7, <1>10, <1>11 DEF Over
<1> QED
  BY <1>3, <1>6, <1>8, <1>12

LEMMA Arrives ==
  ASSUME NEW T, NEW th, NEW fs, NEW top, NEW s, NEW low, Over(T, th, fs, top, s, low),
         top.offset \in DOMAIN T, T[top.offset] = s
  PROVE  Fine(T, th)
<1>1. RunsTyped(T, th)
  BY DEF RunsTyped
<1>2. th.result = "run"
  BY DEF Over
<1> QED
  BY <1>1, <1>2 DEF Fine

-----------------------------------------------------------------------------
\* Calls and returns.

\* A sequence is its front and its last.
LEMMA FrontAndLast ==
  ASSUME NEW S, NEW s \in Seq(S), s # <<>>
  PROVE  /\ Len(s) \in 1 .. Len(s) /\ Front(s) = SubSeq(s, 1, Len(s) - 1) /\ Last(s) = s[Len(s)]
         /\ Front(s) \in Seq(S) /\ Last(s) \in S /\ s = Append(Front(s), Last(s))
<1>1. PICK q \in Seq(S), x \in S : s = Append(q, x)
  BY SequenceEmptyOrAppend
<1>2. Last(s) = x /\ Front(s) = q
  BY <1>1, AppendTop
<1>3. Len(s) \in 1 .. Len(s)
  BY EmptySeq
<1> QED
  BY <1>1, <1>2, <1>3 DEF Front, Last

\* The code of a function starts with its arguments and nothing caught.
LEMMA EntryTyped ==
  ASSUME HasModule, NEW T, WellTyped(T), NEW f \in InModule
  PROVE  /\ CodeOffset(f) \in Nat /\ CodeOffset(f) \in DOMAIN T /\ T[CodeOffset(f)] = Entry(f)
         /\ Entry(f) \in Shapes /\ Entry(f).func = f /\ Entry(f).stack = Params(f) /\ Entry(f).exceptions = 0
<1>1. CodeOffset(f) \in DOMAIN T /\ T[CodeOffset(f)] = Entry(f)
  BY DEF WellTyped, CodeOffset
<1>2. CodeOffset(f) \in 0 .. end(r) - 1
  BY <1>1 DEF WellTyped
<1>3. CodeOffset(f) \in Nat
  BY <1>2
<1>4. Params(f) \in Seq(ValueTypes)
  BY ModuleTypes
<1>5. Entry(f) \in Shapes /\ Entry(f).func = f /\ Entry(f).stack = Params(f) /\ Entry(f).exceptions = 0
  BY <1>4 DEF Entry, Shape, Shapes, Params
<1> QED
  BY <1>1, <1>3, <1>5

\* A call of f by a thread all of whose frames wait for it.
LEMMA EnterTyped ==
  ASSUME HasModule, NEW T, WellTyped(T), NEW f \in InModule, NEW inst \in Nat,
         NEW th \in ThreadRec, th.result = "run", NEW base \in Seq(ValueTypes), th.values = base \o Params(f),
         AllWait(T, th.frames, base, Len(th.exceptions), Results(f), Results(th.func))
  PROVE  Fine(T, PushCall(th, inst, f))
<1>1. CASE Len(th.frames) = Capacity
  <2>1. PushCall(th, inst, f).result = "trap"
    BY <1>1 DEF PushCall, Result, ThreadRec
  <2> QED
    BY <2>1 DEF Fine
<1>2. CASE Len(th.frames) # Capacity
  <2>1. PICK fr : fr = Frame(th, inst, f, CodeOffset(f))
    OBVIOUS
  <2>2. /\ th.frames \in Seq(FrameRec) /\ th.values \in Seq(ValueTypes) /\ th.exceptions \in Seq(Exn)
        /\ Len(th.values) \in Nat /\ Len(th.exceptions) \in Nat
    BY LenProperties DEF ThreadRec
  <2>3. /\ CodeOffset(f) \in Nat /\ CodeOffset(f) \in DOMAIN T /\ T[CodeOffset(f)] = Entry(f)
        /\ Entry(f) \in Shapes /\ Entry(f).func = f /\ Entry(f).stack = Params(f) /\ Entry(f).exceptions = 0
    BY EntryTyped
  <2>4. /\ fr \in FrameRec /\ fr.func = f /\ fr.offset = CodeOffset(f) /\ fr.values = Len(th.values)
        /\ fr.exceptions = Len(th.exceptions)
    BY <2>1, <2>2, <2>3 DEF Frame, FrameRec
  <2>5. PICK q : q = Append(th.frames, fr)
    OBVIOUS
  <2>6. q \in Seq(FrameRec)
    BY <2>2, <2>4, <2>5, AppendTop
  <2>7. PICK u : u = PushCall(th, inst, f)
    OBVIOUS
  <2>8. u = [th EXCEPT !.frames = q, !.inst = inst]
    BY <1>2, <2>1, <2>5, <2>7 DEF PushCall
  <2>9. /\ u \in ThreadRec /\ u.frames = q /\ u.values = th.values /\ u.exceptions = th.exceptions
        /\ u.result = "run" /\ u.func = th.func
    BY <2>6, <2>8 DEF ThreadRec
  <2>10. Len(th.values) = Len(base) + Len(Params(f))
    BY ModuleTypes, ConcatProperties
  <2>11. Over(T, u, th.frames, fr, Entry(f), base)
    <3>1. Len(u.exceptions) = fr.exceptions + Entry(f).exceptions
      BY <2>2, <2>3, <2>4, <2>9
    <3>2. AllWait(T, th.frames, base, fr.exceptions, Results(fr.func), Results(u.func))
      BY <2>4, <2>9
    <3>3. Tries => fr.values = Len(base) + Len(Params(fr.func))
      BY <2>4, <2>10
    <3> QED
      BY <2>2, <2>3, <2>4, <2>5, <2>9, <3>1, <3>2, <3>3 DEF Over
  <2> QED
    BY <2>3, <2>4, <2>7, <2>11, Arrives
<1> QED
  BY <1>1, <1>2

\* The innermost frame calls f and waits for it.
LEMMA PushCallTyped ==
  ASSUME HasModule, NEW T, WellTyped(T), NEW f \in InModule, NEW inst \in Nat,
         NEW th, NEW fs, NEW top, NEW s, NEW low, Over(T, th, fs, top, s, low),
         NEW held \in Seq(ValueTypes), s.stack = held \o Params(f),
         Waits(T, top, Len(low), held, Len(th.exceptions), Results(f))
  PROVE  Fine(T, PushCall(th, inst, f))
<1>1. /\ th \in ThreadRec /\ th.result = "run" /\ fs \in Seq(FrameRec) /\ top \in FrameRec
      /\ th.frames = Append(fs, top) /\ low \in Seq(ValueTypes) /\ th.values = low \o s.stack
      /\ Len(th.exceptions) = top.exceptions + s.exceptions
      /\ AllWait(T, fs, low, top.exceptions, Results(top.func), Results(th.func))
      /\ s \in Shapes
  BY DEF Over
<1>2. Params(f) \in Seq(ValueTypes)
  BY ModuleTypes
<1>3. low \o held \in Seq(ValueTypes)
  BY <1>1, ConcatProperties
<1>4. th.values = (low \o held) \o Params(f)
  BY <1>1, <1>2, ConcatAssociative, SMTT(30)
<1>5. top.exceptions \in Nat /\ s.exceptions \in Nat
  BY <1>1 DEF FrameRec, Shapes
<1>6. Len(th.exceptions) \in Nat /\ top.exceptions <= Len(th.exceptions)
  BY <1>1, <1>5
<1>7. AllWait(T, Append(fs, top), low \o held, Len(th.exceptions), Results(f), Results(th.func))
  BY <1>1, <1>5, <1>6, AllWaitPush
<1> QED
  BY <1>1, <1>3, <1>4, <1>7, EnterTyped

\* When no frame waits nothing is below the innermost one.
LEMMA NothingBelow ==
  ASSUME NEW T, NEW low \in Seq(ValueTypes), NEW ne, NEW res, NEW final, AllWait(T, <<>>, low, ne, res, final)
  PROVE  low = <<>> /\ ne = 0 /\ final = res
<1>1. PICK b, e : WaitsBy(T, <<>>, low, ne, res, final, b, e)
  BY DEF AllWait
<1>2. Len(<<>>) = 0 /\ 0 + 1 = 1
  OBVIOUS
<1>3. Len(low) = 0 /\ ne = 0 /\ final = res
  BY <1>1, <1>2 DEF WaitsBy, Bounds
<1> QED
  BY <1>3, EmptySeq

\* What PopCall makes of a thread.
LEMMA PopCallParts ==
  ASSUME NEW T, NEW th, NEW fs, NEW top, NEW s, NEW low, Over(T, th, fs, top, s, low),
         NEW u, u = PopCall(th)
  PROVE  /\ u \in ThreadRec /\ u.frames = fs /\ u.values = th.values /\ u.exceptions = th.exceptions
         /\ u.func = th.func
         /\ u.result = IF fs = <<>> THEN "return" ELSE "run"
<1>1. th \in ThreadRec /\ fs \in Seq(FrameRec) /\ th.result = "run" /\ Front(th.frames) = fs
  <2>1. Front(th.frames) = fs
    BY OverTop
  <2> QED
    BY <2>1 DEF Over
<1>2. PICK left : left = [th EXCEPT !.frames = fs]
  OBVIOUS
<1>3. /\ left \in ThreadRec /\ left.frames = fs /\ left.values = th.values
      /\ left.exceptions = th.exceptions /\ left.func = th.func /\ left.result = "run"
  BY <1>1, <1>2 DEF ThreadRec
<1>4. CASE fs = <<>>
  <2>1. u = [left EXCEPT !.result = "return"]
    BY <1>1, <1>2, <1>3, <1>4 DEF PopCall, Result
  <2> QED
    BY <1>3, <1>4, <2>1 DEF ThreadRec, Statuses
<1>5. CASE fs # <<>>
  <2>1. Last(fs) \in FrameRec
    BY <1>1, <1>5, FrontAndLast
  <2>2. PICK i : i = Last(fs).inst
    OBVIOUS
  <2>3. i \in Nat
    BY <2>1, <2>2 DEF FrameRec
  <2>4. u = [left EXCEPT !.inst = i]
    BY <1>1, <1>2, <1>3, <1>5, <2>2 DEF PopCall, Top
  <2> QED
    BY <1>3, <1>5, <2>3, <2>4 DEF ThreadRec
<1> QED
  BY <1>4, <1>5

\* A return leaves the results to the frame that waits for them, or ends the thread.
LEMMA PopCallTyped ==
  ASSUME HasModule, NEW T, NEW th, NEW fs, NEW top, NEW s, NEW low, Over(T, th, fs, top, s, low),
         s.stack = Results(s.func), s.exceptions = 0
  PROVE  Fine(T, PopCall(th))
<1>1. /\ th \in ThreadRec /\ fs \in Seq(FrameRec) /\ top \in FrameRec
      /\ low \in Seq(ValueTypes) /\ th.values = low \o Results(top.func) /\ top.func \in InModule
      /\ Len(th.exceptions) = top.exceptions
      /\ AllWait(T, fs, low, top.exceptions, Results(top.func), Results(th.func))
  <2>1. top \in FrameRec /\ Len(th.exceptions) = top.exceptions + 0
    BY DEF Over
  <2>2. top.exceptions \in Nat /\ top.func \in InModule
    BY <2>1 DEF FrameRec
  <2>3. Len(th.exceptions) = top.exceptions
    BY <2>1, <2>2
  <2> QED
    BY <2>2, <2>3 DEF Over
<1>2. Results(top.func) \in Seq(ValueTypes) /\ top.exceptions \in Nat
  BY <1>1, ModuleTypes DEF FrameRec
<1>3. PICK u : u = PopCall(th)
  OBVIOUS
<1>4. /\ u \in ThreadRec /\ u.frames = fs /\ u.values = th.values /\ u.exceptions = th.exceptions
      /\ u.func = th.func
      /\ u.result = IF fs = <<>> THEN "return" ELSE "run"
  BY <1>3, PopCallParts
<1>5. CASE fs = <<>>
  <2>1. low = <<>> /\ Results(th.func) = Results(top.func)
    BY <1>1, <1>5, NothingBelow
  <2>2. u.values = Results(u.func)
    BY <1>1, <1>2, <1>4, <2>1, ConcatEmptySeq
  <2> QED
    BY <1>3, <1>4, <1>5, <2>2 DEF Fine
<1>6. CASE fs # <<>>
  <2> DEFINE n == Len(fs)
             fr == fs[n]
  <2>1. /\ n \in 1 .. Len(fs) /\ fs = Append(SubSeq(fs, 1, n - 1), fr) /\ fr \in FrameRec
        /\ SubSeq(fs, 1, n - 1) \in Seq(FrameRec)
    BY <1>1, <1>6, FrontAndLast
  <2>2. PICK base \in 0 .. Len(low) : \E x \in base .. Len(low), n2 \in 0 .. top.exceptions :
           /\ AllWait(T, SubSeq(fs, 1, n - 1), SubSeq(low, 1, base), fr.exceptions, Results(fr.func),
                      Results(th.func))
           /\ Waits(T, fr, base, SubSeq(low, base + 1, x), n2, Gets(fs, Results(top.func), n))
           /\ n = Len(fs) => x = Len(low) /\ n2 = top.exceptions
    <3>1. PICK k : k = n
      OBVIOUS
    <3>2. k \in 1 .. Len(fs)
      BY <2>1, <3>1
    <3>3. \E base \in 0 .. Len(low) : \E x \in base .. Len(low), n2 \in 0 .. top.exceptions :
            /\ AllWait(T, SubSeq(fs, 1, k - 1), SubSeq(low, 1, base), fs[k].exceptions, Results(fs[k].func),
                       Results(th.func))
            /\ Waits(T, fs[k], base, SubSeq(low, base + 1, x), n2, Gets(fs, Results(top.func), k))
            /\ k = Len(fs) => x = Len(low) /\ n2 = top.exceptions
      <4>1. PICK ne, res, final : ne = top.exceptions /\ res = Results(top.func) /\ final = Results(th.func)
        OBVIOUS
      <4>2. ne \in Nat /\ AllWait(T, fs, low, ne, res, final) /\ fs \in Seq(FrameRec) /\ low \in Seq(ValueTypes)
        BY <1>1, <1>2, <4>1
      <4>3. \E base \in 0 .. Len(low) : \E x \in base .. Len(low), n2 \in 0 .. ne :
              CutAt(T, fs, low, ne, res, final, k, base, x, n2)
        BY <3>2, <4>2, AllWaitCut
      <4> QED
        BY <4>1, <4>3 DEF CutAt
    <3> QED
      BY <3>1, <3>3
  <2>3. PICK held : held = SubSeq(low, base + 1, Len(low))
    OBVIOUS
  <2>4. PICK down : down = SubSeq(low, 1, base)
    OBVIOUS
  <2>5. /\ AllWait(T, SubSeq(fs, 1, n - 1), down, fr.exceptions, Results(fr.func), Results(th.func))
        /\ Waits(T, fr, base, held, top.exceptions, Results(top.func))
    BY <2>2, <2>3, <2>4 DEF Gets
  <2>6. Len(low) \in Nat /\ base \in Nat /\ Len(low) \in 0 .. Len(low) /\ base + 1 \in Nat \ {0} /\ 1 \in Nat \ {0}
    BY <1>1, LenProperties
  <2>7. held \in Seq(ValueTypes) /\ down \in Seq(ValueTypes) /\ Len(down) = base
    BY <1>1, <2>3, <2>4, <2>6, SubSeqParts
  <2>8. low = down \o held
    <3>1. 1 \in 1 .. Len(low) + 1 /\ base \in 1 - 1 .. Len(low) /\ Len(low) \in base .. Len(low)
      BY <2>6
    <3>2. down \o held = SubSeq(low, 1, Len(low))
      BY <1>1, <2>3, <2>4, <3>1, ConcatAdjacentSubSeq
    <3> QED
      BY <1>1, <3>2, SubSeqFull
  <2> DEFINE o == fr.offset
  <2>9. /\ o \in DOMAIN T /\ T[o] \in Shapes /\ T[o].func = fr.func
        /\ T[o].stack = held \o Results(top.func)
        /\ fr.exceptions + T[o].exceptions = top.exceptions
        /\ Tries => fr.values = base + Len(Params(fr.func))
    BY <2>5 DEF Waits
  <2>10. u.values = down \o T[o].stack
    <3>1. (down \o held) \o Results(top.func) = down \o (held \o Results(top.func))
      BY <1>2, <2>7, ConcatAssociative, SMTT(30)
    <3> QED
      BY <1>1, <1>4, <2>8, <2>9, <3>1
  <2>11. Over(T, u, SubSeq(fs, 1, n - 1), fr, T[o], down)
    <3>1. u.result = "run"
      BY <1>4, <1>6
    <3>2. AllWait(T, SubSeq(fs, 1, n - 1), down, fr.exceptions, Results(fr.func), Results(u.func))
      BY <1>4, <2>5
    <3>3. Len(u.exceptions) = fr.exceptions + T[o].exceptions
      BY <1>1, <1>4, <2>9
    <3>4. Tries => fr.values = Len(down) + Len(Params(fr.func))
      BY <2>7, <2>9
    <3> HIDE DEF n, fr, o
    <3> QED
      BY <1>4, <2>1, <2>7, <2>9, <2>10, <3>1, <3>2, <3>3, <3>4 DEF Over
  <2> QED
    BY <1>3, <2>9, <2>11, Arrives
<1> QED
  BY <1>5, <1>6

\* The innermost frame gives way to a call of f.
LEMMA TailCallTyped ==
  ASSUME HasModule, NEW T, WellTyped(T), NEW f \in InModule, NEW inst \in Nat,
         NEW th, NEW fs, NEW top, NEW s, NEW low, Over(T, th, fs, top, s, low),
         s.stack = Params(f), s.exceptions = 0, Results(f) = Results(s.func)
  PROVE  Fine(T, PushCall([PopCall(th) EXCEPT !.result = "run"], inst, f))
<1>1. /\ low \in Seq(ValueTypes) /\ th.values = low \o Params(f) /\ Results(top.func) = Results(f)
      /\ AllWait(T, fs, low, top.exceptions, Results(f), Results(th.func))
      /\ Len(th.exceptions) = top.exceptions + 0 /\ top \in FrameRec
  BY DEF Over
<1>2. Len(th.exceptions) = top.exceptions
  BY <1>1 DEF FrameRec
<1>3. PICK popped : popped = PopCall(th)
  OBVIOUS
<1>4. /\ popped \in ThreadRec /\ popped.frames = fs /\ popped.values = th.values
      /\ popped.exceptions = th.exceptions /\ popped.func = th.func
  BY <1>3, PopCallParts
<1>5. PICK u : u = [popped EXCEPT !.result = "run"]
  OBVIOUS
<1>6. /\ u \in ThreadRec /\ u.frames = fs /\ u.values = th.values /\ u.exceptions = th.exceptions
      /\ u.func = th.func /\ u.result = "run"
  BY <1>4, <1>5 DEF ThreadRec, Statuses
<1>7. Fine(T, PushCall(u, inst, f))
  BY <1>1, <1>2, <1>6, EnterTyped
<1> QED
  BY <1>3, <1>5, <1>7

-----------------------------------------------------------------------------
\* Exceptions.

\* Parts and fields that a handler keeps.
LEMMA PrefixConcat ==
  ASSUME NEW S, NEW u \in Seq(S), NEW s \in Seq(S), NEW c \in 0 .. Len(s)
  PROVE  SubSeq(u \o s, 1, Len(u) + c) = u \o SubSeq(s, 1, c)
<1>1. Len(u) \in Nat /\ Len(s) \in Nat /\ Len(u \o s) = Len(u) + Len(s)
  BY LenProperties, ConcatProperties
<1> DEFINE n == Len(s) - c
<1>2. n \in 0 .. Len(s)
  BY <1>1
<1>3. Drop(u \o s, n) = u \o Drop(s, n)
  <2> HIDE DEF n
  <2> QED
    BY <1>2, DropConcat
<1>4. Len(u \o s) - n = Len(u) + c /\ Len(s) - n = c
  BY <1>1
<1> HIDE DEF n
<1> QED
  BY <1>3, <1>4 DEF Drop

LEMMA ShapeParts ==
  ASSUME NEW f \in InModule, NEW v \in Seq(ValueTypes), NEW e \in Nat
  PROVE  /\ Shape(f, v, e) \in Shapes
         /\ Shape(f, v, e).func = f /\ Shape(f, v, e).stack = v /\ Shape(f, v, e).exceptions = e
         /\ \A w : [Shape(f, v, e) EXCEPT !.stack = w] = Shape(f, w, e)
BY DEF Shape, Shapes

\* An exception gets to the frame fr, which keeps held on top of down, and ex
\* exceptions; up is above.
Unwinds(T, th, fr, down, held, up, ex) ==
  /\ th \in ThreadRec /\ th.result = "run" /\ fr \in FrameRec
  /\ down \in Seq(ValueTypes) /\ held \in Seq(ValueTypes) /\ up \in Seq(ValueTypes) /\ ex \in Nat
  /\ th.values = (down \o held) \o up
  /\ fr.exceptions + ex <= Len(th.exceptions)
  /\ Tries => fr.values = Len(down) + Len(Params(fr.func))
  /\ Lands(T, Shape(fr.func, held, ex), fr.offset)

LandsWith(T, th, exn, fr, down, h, v, e) ==
  /\ v \in Seq(ValueTypes) /\ e \in Nat
  /\ Resized(th.values, fr.values + h.values, "garbage") = down \o v
  /\ LET q == Append(SubSeq(th.exceptions, 1, fr.exceptions + h.exceptions), exn)
     IN  q \in Seq(Exn) /\ Len(q) = fr.exceptions + e
  /\ h.offset \in DOMAIN T
  /\ T[h.offset] = Shape(fr.func, IF h.payload THEN v \o M.tags[exn.tag + 1] ELSE v, e)

\* The heights of the handler that the frame fr has for an exception are those
\* of the values and the exceptions that its code expects.
LEMMA LandHeights ==
  ASSUME HasModule, NEW T, NEW th, NEW exn \in Exn, NEW fr, NEW down, NEW held, NEW up, NEW ex,
         Unwinds(T, th, fr, down, held, up, ex),
         NEW h, h = FrameHandler(fr, exn), h # NoHandler
  PROVE  \E v, e : LandsWith(T, th, exn, fr, down, h, v, e)
<1> DEFINE S == Shape(fr.func, held, ex)
           tag == IF exn.inst = fr.inst THEN exn.tag ELSE -1
           n == Len(Params(fr.func))
           c == n + h.values
           v == SubSeq(held, 1, c)
           types == M.tags[exn.tag + 1]
<1>0. /\ th \in ThreadRec /\ th.result = "run" /\ fr \in FrameRec
      /\ down \in Seq(ValueTypes) /\ held \in Seq(ValueTypes) /\ up \in Seq(ValueTypes) /\ ex \in Nat
      /\ th.values = (down \o held) \o up
      /\ fr.exceptions + ex <= Len(th.exceptions)
      /\ Tries => fr.values = Len(down) + Len(Params(fr.func))
      /\ Lands(T, Shape(fr.func, held, ex), fr.offset)
  BY DEF Unwinds
<1> USE <1>0
<1>1. exn.tag \in Indices(M.tags) /\ types \in Seq(ValueTypes)
  BY ModuleTypes DEF Exn
<1>2. tag \in Tags
  <2>1. PICK m : m = Len(M.tags)
    OBVIOUS
  <2>2. exn.tag \in 0 .. m - 1
    BY <1>1, <2>1 DEF Indices
  <2>3. m - 1 \in Int
    <3>1. M.tags \in Seq(Seq(ValueTypes))
      BY ModulesAssumption DEF HasModule, M
    <3> QED
      BY <2>1, <3>1, LenProperties
  <2>4. tag \in -1 .. m - 1
    BY <2>2, <2>3
  <2> QED
    BY <2>1, <2>4 DEF Tags
<1>3. /\ S.func = fr.func /\ S.stack = held /\ S.exceptions = ex
  BY DEF Shape
<1>4. HandlerOf(S, fr.offset, tag) = h /\ Bottom(S) = n
  BY <1>3 DEF HandlerOf, FrameHandler, Bottom, Params
<1>5. /\ Tries /\ (h.payload => tag # -1)
      /\ h.values \in 0 .. Len(held) - n /\ h.exceptions \in 0 .. ex
      /\ h.offset \in DOMAIN T /\ T[h.offset] = Landed(S, h, tag)
  <2>1. Lands(T, S, fr.offset)
    OBVIOUS
  <2> HIDE DEF S, tag, n
  <2>2. LET g == HandlerOf(S, fr.offset, tag)
        IN  \/ g = NoHandler
            \/ /\ Tries /\ (g.payload => tag # -1)
               /\ g.values \in 0 .. Len(S.stack) - Bottom(S) /\ g.exceptions \in 0 .. S.exceptions
               /\ g.offset \in DOMAIN T /\ T[g.offset] = Landed(S, g, tag)
    BY <1>2, <2>1 DEF Lands
  <2> QED
    BY <1>3, <1>4, <2>2
<1>6. fr.func \in InModule /\ fr.exceptions \in Nat /\ fr.inst \in Nat /\ fr.offset \in Nat
  BY DEF FrameRec
<1>7. n \in Nat /\ Len(held) \in Nat /\ Len(down) \in Nat /\ Len(th.exceptions) \in Nat
      /\ th.exceptions \in Seq(Exn)
  BY <1>6, ModuleTypes, LenProperties DEF ThreadRec
<1>8. c \in 0 .. Len(held) /\ fr.values + h.values = Len(down) + c /\ c \in Nat
  <2>1. fr.values = Len(down) + n
    BY <1>5
  <2>2. h.values \in 0 .. Len(held) - n /\ n \in Nat /\ Len(held) \in Nat /\ Len(down) \in Nat
    BY <1>5, <1>7
  <2> HIDE DEF n
  <2>3. n + h.values \in 0 .. Len(held)
    BY <2>2
  <2>4. (Len(down) + n) + h.values = Len(down) + (n + h.values)
    BY <2>2
  <2> QED
    BY <2>1, <2>3, <2>4
<1>9. v \in Seq(ValueTypes)
  <2> HIDE DEF c
  <2>1. 1 \in Nat \ {0}
    OBVIOUS
  <2> QED
    BY <1>8, <2>1, SubSeqParts
<1>10. Resized(th.values, fr.values + h.values, "garbage") = down \o v
  <2> DEFINE w == down \o held
             b == Len(down) + c
  <2>1. w \in Seq(ValueTypes) /\ Len(w) = Len(down) + Len(held)
    BY ConcatProperties
  <2>2. th.values \in Seq(ValueTypes) /\ Len(th.values) = Len(w) + Len(up) /\ Len(up) \in Nat
    <3> HIDE DEF w
    <3> QED
      BY <2>1, ConcatProperties, LenProperties DEF w, ThreadRec
  <2>3. b \in 0 .. Len(w) /\ b \in 0 .. Len(th.values) /\ b \in Nat
    <3> HIDE DEF w, c
    <3> QED
      BY <1>7, <1>8, <2>1, <2>2
  <2>4. Resized(th.values, b, "garbage") = SubSeq(th.values, 1, b)
    <3> HIDE DEF b
    <3> QED
      BY <2>2, <2>3, ResizedDown
  <2>5. SubSeq(w \o up, 1, b) = SubSeq(w, 1, b)
    <3> HIDE DEF w, b
    <3>1. 0 \in 0 .. b /\ 0 + 1 = 1
      BY <2>3
    <3>2. SubSeq(w \o up, 0 + 1, b) = SubSeq(w, 0 + 1, b)
      BY <2>1, <2>3, <3>1, SubSeqLow
    <3> QED
      BY <3>1, <3>2
  <2>6. SubSeq(w, 1, b) = down \o v
    <3>1. c \in 0 .. Len(held)
      BY <1>8
    <3> HIDE DEF c
    <3>2. SubSeq(down \o held, 1, Len(down) + c) = down \o SubSeq(held, 1, c)
      BY <3>1, PrefixConcat
    <3> QED
      BY <3>2
  <2> QED
    BY <1>8, <2>4, <2>5, <2>6
<1>11. PICK q : q = Append(SubSeq(th.exceptions, 1, fr.exceptions + h.exceptions), exn)
  OBVIOUS
<1>12. q \in Seq(Exn) /\ Len(q) = fr.exceptions + (h.exceptions + 1)
  <2> DEFINE m == fr.exceptions + h.exceptions
  <2>1. m \in 0 .. Len(th.exceptions) /\ m \in Nat
    <3>1. PICK hx, fx, len : hx = h.exceptions /\ fx = fr.exceptions /\ len = Len(th.exceptions)
      OBVIOUS
    <3>2. hx \in 0 .. ex
      BY <1>5, <3>1
    <3>3. fx \in Nat /\ len \in Nat /\ ex \in Nat /\ fx + ex <= len
      BY <1>6, <1>7, <3>1
    <3>4. fx + hx \in 0 .. len /\ fx + hx \in Nat
      BY <3>2, <3>3
    <3> QED
      BY <3>1, <3>4
  <2>2. SubSeq(th.exceptions, 1, m) \in Seq(Exn) /\ Len(SubSeq(th.exceptions, 1, m)) = m
    <3> HIDE DEF m
    <3>1. 1 \in Nat \ {0} /\ (m = 0 \/ 1 <= m) /\ m - 1 + 1 = m
      BY <2>1
    <3> QED
      BY <1>7, <2>1, <3>1, SubSeqParts
  <2>3. q \in Seq(Exn) /\ Len(q) = m + 1
    BY <1>11, <2>2, AppendProperties
  <2>4. m + 1 = fr.exceptions + (h.exceptions + 1)
    BY <1>5, <1>6
  <2> QED
    BY <2>3, <2>4
<1>13. T[h.offset] = Shape(fr.func, IF h.payload THEN v \o types ELSE v, h.exceptions + 1)
  <2>1. T[h.offset] = Landed(S, h, tag)
    BY <1>5
  <2>2. CASE h.payload
    <3>1. tag = exn.tag
      BY <1>5, <2>2 DEF tag
    <3> HIDE DEF tag, S
    <3>2. Landed(S, h, tag) = Shape(fr.func, v \o types, h.exceptions + 1)
      BY <1>3, <1>4, <2>2, <3>1 DEF Landed, v, c, types
    <3> QED
      BY <2>1, <2>2, <3>2
  <2>3. CASE ~h.payload
    <3> HIDE DEF tag, S
    <3>1. Landed(S, h, tag) = Shape(fr.func, v \o <<>>, h.exceptions + 1)
      BY <1>3, <1>4, <2>3 DEF Landed, v, c
    <3>2. v \o <<>> = v
      BY <1>9, ConcatEmptySeq
    <3> QED
      BY <2>1, <2>3, <3>1, <3>2
  <2> QED
    BY <2>2, <2>3
<1>14. h.exceptions + 1 \in Nat /\ h.offset \in DOMAIN T
  BY <1>5
<1> HIDE DEF v
<1>15. PICK e : e = h.exceptions + 1
  OBVIOUS
<1>16. /\ Resized(th.values, fr.values + h.values, "garbage") = down \o v
       /\ q \in Seq(Exn) /\ Len(q) = fr.exceptions + e
       /\ h.offset \in DOMAIN T
       /\ T[h.offset] = Shape(fr.func, IF h.payload THEN v \o M.tags[exn.tag + 1] ELSE v, e)
  BY <1>10, <1>12, <1>13, <1>14, <1>15
<1>17. v \in Seq(ValueTypes) /\ e \in Nat
  BY <1>9, <1>14, <1>15
<1> QED
  BY <1>11, <1>16, <1>17 DEF LandsWith

\* The frame fr has a handler for the exception and goes on there.
LEMMA LandTyped ==
  ASSUME HasModule, NEW T, DOMAIN T \subseteq Nat, NEW th, NEW exn \in Exn, NEW gs \in Seq(FrameRec),
         NEW fr, NEW down, NEW held, NEW up, NEW ex,
         Unwinds(T, th, fr, down, held, up, ex),
         AllWait(T, gs, down, fr.exceptions, Results(fr.func), Results(th.func)),
         NEW h, h = FrameHandler(fr, exn), h # NoHandler
  PROVE  LET u == [th EXCEPT !.frames = Append(gs, [fr EXCEPT !.offset = h.offset]),
                             !.inst = fr.inst,
                             !.values = Resized(th.values, fr.values + h.values, "garbage"),
                             !.exceptions = Append(SubSeq(th.exceptions, 1, fr.exceptions + h.exceptions),
                                                   exn)]
         IN  Fine(T, IF h.payload THEN Push(u, M.tags[exn.tag + 1]) ELSE u)
<1> DEFINE types == M.tags[exn.tag + 1]
           x == [fr EXCEPT !.offset = h.offset]
<1>0. /\ th \in ThreadRec /\ th.result = "run" /\ fr \in FrameRec
      /\ down \in Seq(ValueTypes) /\ held \in Seq(ValueTypes)
      /\ Tries => fr.values = Len(down) + Len(Params(fr.func))
  BY DEF Unwinds
<1>1. PICK v, e : LandsWith(T, th, exn, fr, down, h, v, e)
  BY LandHeights
<1>1a. /\ v \in Seq(ValueTypes) /\ e \in Nat
       /\ Resized(th.values, fr.values + h.values, "garbage") = down \o v
       /\ h.offset \in DOMAIN T
       /\ T[h.offset] = Shape(fr.func, IF h.payload THEN v \o M.tags[exn.tag + 1] ELSE v, e)
  BY <1>1 DEF LandsWith
<1> USE <1>0, <1>1a
<1>2. PICK q : q = Append(SubSeq(th.exceptions, 1, fr.exceptions + h.exceptions), exn)
  OBVIOUS
<1>3. q \in Seq(Exn) /\ Len(q) = fr.exceptions + e
  BY <1>1, <1>2 DEF LandsWith
<1>4. h.offset \in DOMAIN T /\ h.offset \in Nat
  BY <1>1
<1>5. x \in FrameRec /\ x.func = fr.func /\ x.offset = h.offset /\ x.values = fr.values
      /\ x.exceptions = fr.exceptions /\ fr.inst \in Nat /\ fr.func \in InModule
  BY <1>4 DEF FrameRec
<1>6. PICK fs : fs = Append(gs, x)
  OBVIOUS
<1> DEFINE S == Shape(fr.func, v, e)
<1>7. S \in Shapes /\ S.func = fr.func /\ S.stack = v /\ S.exceptions = e
      /\ \A w : [S EXCEPT !.stack = w] = Shape(fr.func, w, e)
  <2>1. PICK f : f = fr.func
    OBVIOUS
  <2>2. f \in InModule
    BY <1>5, <2>1
  <2>3. /\ Shape(f, v, e) \in Shapes
        /\ Shape(f, v, e).func = f /\ Shape(f, v, e).stack = v /\ Shape(f, v, e).exceptions = e
        /\ \A w : [Shape(f, v, e) EXCEPT !.stack = w] = Shape(f, w, e)
    BY <2>2, ShapeParts
  <2> QED
    BY <2>1, <2>3
<1> DEFINE w == [th EXCEPT !.frames = Append(gs, [fr EXCEPT !.offset = h.offset]),
                           !.inst = fr.inst,
                           !.values = Resized(th.values, fr.values + h.values, "garbage"),
                           !.exceptions = Append(SubSeq(th.exceptions, 1, fr.exceptions + h.exceptions),
                                                 exn)]
<1>8. w = [th EXCEPT !.frames = fs, !.inst = fr.inst, !.values = down \o v, !.exceptions = q]
  <2>1. Resized(th.values, fr.values + h.values, "garbage") = down \o v
    BY <1>1
  <2> QED
    BY <1>2, <1>6, <2>1, Zenon
<1> HIDE DEF x, S, types, w
<1>9. PICK u : u = w
  OBVIOUS
<1>10. fs \in Seq(FrameRec)
  BY <1>5, <1>6, AppendTop
<1>11. PICK a : a = down \o v
  OBVIOUS
<1>12. a \in Seq(ValueTypes)
  BY <1>11, ConcatProperties
<1>13. /\ u \in ThreadRec /\ u.frames = fs /\ u.values = a /\ u.exceptions = q
       /\ u.result = "run" /\ u.func = th.func
  <2>1. PICK i : i = fr.inst
    OBVIOUS
  <2>2. u = [th EXCEPT !.frames = fs, !.inst = i, !.values = a, !.exceptions = q]
    BY <1>8, <1>9, <1>11, <2>1
  <2>3. i \in Nat
    BY <1>5, <2>1
  <2> QED
    BY <1>3, <1>10, <1>12, <2>2, <2>3 DEF ThreadRec
<1>14. Over(T, u, gs, x, S, down)
  <2>1. /\ AllWait(T, gs, down, x.exceptions, Results(x.func), Results(u.func))
        /\ Tries => x.values = Len(down) + Len(Params(x.func))
    BY <1>5, <1>13
  <2>2. Len(u.exceptions) = x.exceptions + S.exceptions
    BY <1>3, <1>5, <1>7, <1>13
  <2>3. u.values = down \o S.stack
    BY <1>7, <1>11, <1>13
  <2> QED
    BY <1>5, <1>6, <1>7, <1>13, <2>1, <2>2, <2>3 DEF Over
<1>15. ASSUME h.payload PROVE Fine(T, Push(u, types))
  <2>1. types \in Seq(ValueTypes)
    BY ModuleTypes DEF Exn, types
  <2>2. Over(T, Push(u, types), gs, x, Replaced(S, 0, types), down)
    <3>1. 0 \in 0 .. Len(S.stack)
      BY <1>7, LenProperties
    <3> QED
      BY <1>14, <2>1, <3>1, OverReplace
  <2>3. Replaced(S, 0, types) = Shape(fr.func, v \o types, e)
    <3>1. Drop(v, 0) = v
      BY DropAll
    <3> QED
      BY <1>7, <3>1 DEF Replaced
  <2>4. T[h.offset] = Shape(fr.func, v \o types, e)
    BY <1>1, <1>15 DEF types
  <2>5. Fine(T, Push(u, types))
    BY <1>4, <1>5, <2>2, <2>3, <2>4, Arrives
  <2> QED
    BY <1>15, <2>5
<1>16. ASSUME ~h.payload PROVE Fine(T, u)
  <2>1. T[h.offset] = S
    BY <1>1, <1>16 DEF S
  <2>2. Fine(T, u)
    BY <1>4, <1>5, <1>14, <2>1, Arrives
  <2> QED
    BY <1>16, <2>2
<1>17. Fine(T, IF h.payload THEN Push(w, types) ELSE w)
  BY <1>15, <1>16, <1>9
<1> QED
  BY <1>17 DEF w, types

\* The unwound stack of frames: those below the one that catches, and that one.
LEMMA PrefixReplaced ==
  ASSUME NEW S, NEW q \in Seq(S), NEW k \in 1 .. Len(q), NEW y
  PROVE  [SubSeq(q, 1, k) EXCEPT ![k] = y] = Append(SubSeq(q, 1, k - 1), y)
<1> DEFINE V == S \cup {y}
           p == SubSeq(q, 1, k)
<1>1. Len(q) \in Nat /\ k - 1 \in 0 .. Len(q) /\ k \in 0 .. Len(q) /\ q \in Seq(V)
      /\ 1 \in Nat \ {0} /\ k - 1 + 1 = k /\ k \in Nat
  BY LenProperties, SeqMonotonic
<1>2. /\ p \in Seq(V) /\ Len(p) = k
      /\ \A i \in 1 .. k : p[i] = q[i]
  <2>1. /\ SubSeq(q, 1, k) \in Seq(V) /\ Len(SubSeq(q, 1, k)) = IF 1 <= k THEN k - 1 + 1 ELSE 0
        /\ \A i \in 1 .. k - 1 + 1 : SubSeq(q, 1, k)[i] = q[1 + i - 1]
    <3> HIDE DEF V
    <3> QED
      BY <1>1, SubSeqParts
  <2>2. \A i \in 1 .. k : 1 + i - 1 = i
    OBVIOUS
  <2> QED
    BY <1>1, <2>1, <2>2
<1>3. /\ SubSeq(q, 1, k - 1) \in Seq(V) /\ Len(SubSeq(q, 1, k - 1)) = k - 1
      /\ \A i \in 1 .. k - 1 : SubSeq(q, 1, k - 1)[i] = q[i]
  <2> DEFINE m == k - 1
  <2>1. m \in 0 .. Len(q) /\ m \in Nat
    BY <1>1
  <2>2. /\ SubSeq(q, 1, m) \in Seq(V) /\ Len(SubSeq(q, 1, m)) = IF 1 <= m THEN m - 1 + 1 ELSE 0
        /\ \A i \in 1 .. m - 1 + 1 : SubSeq(q, 1, m)[i] = q[1 + i - 1]
    <3> HIDE DEF V, m
    <3> QED
      BY <1>1, <2>1, SubSeqParts
  <2>3. \A i \in 1 .. m : 1 + i - 1 = i
    OBVIOUS
  <2>4. m - 1 + 1 = m /\ (m = 0 \/ 1 <= m)
    BY <2>1
  <2> HIDE DEF m
  <2>5. /\ SubSeq(q, 1, m) \in Seq(V) /\ Len(SubSeq(q, 1, m)) = m
        /\ \A i \in 1 .. m : SubSeq(q, 1, m)[i] = q[i]
    BY <2>1, <2>2, <2>3, <2>4
  <2> QED
    BY <2>5 DEF m
<1>4. /\ [p EXCEPT ![k] = y] \in Seq(V) /\ Len([p EXCEPT ![k] = y]) = k
      /\ \A j \in 1 .. k : [p EXCEPT ![k] = y][j] = IF j = k THEN y ELSE p[j]
  <2>1. k \in 1 .. Len(p) /\ y \in V
    BY <1>1, <1>2
  <2> HIDE DEF p, V
  <2> QED
    BY <1>2, <2>1, ExceptSeq
<1> DEFINE d == SubSeq(q, 1, k - 1)
<1>5. /\ Append(d, y) \in Seq(V) /\ Len(Append(d, y)) = k
      /\ \A i \in 1 .. k - 1 : Append(d, y)[i] = d[i]
      /\ Append(d, y)[k] = y
  <2>1. y \in V /\ d \in Seq(V) /\ Len(d) = k - 1
    BY <1>3
  <2> HIDE DEF d, V
  <2> QED
    BY <1>1, <2>1, AppendProperties
<1>6. \A i \in 1 .. k : [p EXCEPT ![k] = y][i] = Append(d, y)[i]
  <2> TAKE i \in 1 .. k
  <2> HIDE DEF p, d
  <2>1. CASE i = k
    BY <1>4, <1>5, <2>1
  <2>2. CASE i # k
    <3>1. i \in 1 .. k - 1
      BY <1>1, <2>2
    <3>2. p[i] = q[i] /\ d[i] = q[i]
      BY <1>2, <1>3, <3>1 DEF d
    <3> QED
      BY <1>4, <1>5, <2>2, <3>1, <3>2
  <2> QED
    BY <2>1, <2>2
<1>7. [p EXCEPT ![k] = y] = Append(d, y)
  <2> HIDE DEF p, d, V
  <2> QED
    BY <1>4, <1>5, <1>6, SeqEqual
<1> QED
  BY <1>7

\* Where an exception goes that this thread raises.
LEMMA UnwindsTop ==
  ASSUME NEW T, NEW th, NEW fs, NEW top, NEW s, NEW low, Over(T, th, fs, top, s, low),
         Lands(T, s, top.offset)
  PROVE  Unwinds(T, th, top, low, s.stack, <<>>, s.exceptions)
<1>1. /\ th \in ThreadRec /\ th.result = "run" /\ top \in FrameRec /\ s \in Shapes /\ top.func = s.func
      /\ low \in Seq(ValueTypes) /\ th.values = low \o s.stack
      /\ Len(th.exceptions) = top.exceptions + s.exceptions
      /\ Tries => top.values = Len(low) + Len(Params(top.func))
  BY DEF Over
<1>2. s.stack \in Seq(ValueTypes) /\ s.exceptions \in Nat /\ <<>> \in Seq(ValueTypes) /\ top.exceptions \in Nat
  BY <1>1 DEF Shapes, FrameRec
<1>3. s = Shape(top.func, s.stack, s.exceptions)
  BY <1>1 DEF Shapes, Shape
<1>4. th.values = (low \o s.stack) \o <<>>
  <2>1. low \o s.stack \in Seq(ValueTypes)
    BY <1>1, <1>2, ConcatProperties
  <2> QED
    BY <1>1, <2>1, ConcatEmptySeq
<1>5. Lands(T, Shape(top.func, s.stack, s.exceptions), top.offset)
  BY <1>3
<1>6. top.exceptions + s.exceptions <= Len(th.exceptions)
  BY <1>1, <1>2
<1> QED
  BY <1>1, <1>2, <1>4, <1>5, <1>6 DEF Unwinds

\* A frame that waits for a call can be unwound to.
LEMMA UnwindsBelow ==
  ASSUME NEW T, NEW th, NEW fs, NEW top, NEW s, NEW low, Over(T, th, fs, top, s, low), NEW k \in 1 .. Len(fs)
  PROVE  \E down, held, up, ex :
           /\ Unwinds(T, th, fs[k], down, held, up, ex)
           /\ AllWait(T, SubSeq(fs, 1, k - 1), down, fs[k].exceptions, Results(fs[k].func), Results(th.func))
<1>1. /\ th \in ThreadRec /\ th.result = "run" /\ fs \in Seq(FrameRec) /\ top \in FrameRec /\ s \in Shapes
      /\ low \in Seq(ValueTypes) /\ th.values = low \o s.stack
      /\ Len(th.exceptions) = top.exceptions + s.exceptions
      /\ AllWait(T, fs, low, top.exceptions, Results(top.func), Results(th.func))
  BY DEF Over
<1>2. s.stack \in Seq(ValueTypes) /\ s.exceptions \in Nat /\ top.exceptions \in Nat /\ Len(low) \in Nat
      /\ fs[k] \in FrameRec
  <2>1. s.stack \in Seq(ValueTypes) /\ s.exceptions \in Nat
    BY <1>1 DEF Shapes
  <2>2. top.exceptions \in Nat
    BY <1>1 DEF FrameRec
  <2>3. Len(low) \in Nat
    BY <1>1, LenProperties
  <2>4. fs[k] \in FrameRec
    BY <1>1, ElementOfSeq
  <2> QED
    BY <2>1, <2>2, <2>3, <2>4
<1>3. PICK ne, res, final : ne = top.exceptions /\ res = Results(top.func) /\ final = Results(th.func)
  OBVIOUS
<1>4. ne \in Nat /\ AllWait(T, fs, low, ne, res, final)
  BY <1>1, <1>2, <1>3
<1>5. PICK base \in 0 .. Len(low) : \E x \in base .. Len(low), n2 \in 0 .. ne :
        CutAt(T, fs, low, ne, res, final, k, base, x, n2)
  <2>1. fs \in Seq(FrameRec) /\ low \in Seq(ValueTypes)
    BY <1>1
  <2> QED
    BY <1>4, <2>1, AllWaitCut
<1>6. PICK x \in base .. Len(low), n2 \in 0 .. ne : CutAt(T, fs, low, ne, res, final, k, base, x, n2)
  BY <1>5
<1>7. /\ AllWait(T, SubSeq(fs, 1, k - 1), SubSeq(low, 1, base), fs[k].exceptions, Results(fs[k].func), final)
      /\ Waits(T, fs[k], base, SubSeq(low, base + 1, x), n2, Gets(fs, res, k))
  BY <1>6 DEF CutAt
<1>8. PICK down, held, rest, up : /\ down = SubSeq(low, 1, base) /\ held = SubSeq(low, base + 1, x)
                                  /\ rest = SubSeq(low, x + 1, Len(low)) /\ up = rest \o s.stack
  OBVIOUS
<1>9. /\ base \in Nat /\ x \in 0 .. Len(low) /\ 1 \in Nat \ {0} /\ base + 1 \in Nat \ {0} /\ x + 1 \in Nat \ {0}
      /\ Len(low) \in 0 .. Len(low)
  BY <1>2
<1>10. down \in Seq(ValueTypes) /\ Len(down) = base /\ held \in Seq(ValueTypes) /\ rest \in Seq(ValueTypes)
  <2>1. down \in Seq(ValueTypes) /\ Len(down) = base
    BY <1>1, <1>8, <1>9, SubSeqParts
  <2>2. held \in Seq(ValueTypes) /\ rest \in Seq(ValueTypes)
    BY <1>1, <1>8, <1>9, SubSeqParts
  <2> QED
    BY <2>1, <2>2
<1>11. up \in Seq(ValueTypes)
  BY <1>2, <1>8, <1>10, ConcatProperties
<1>12. th.values = (down \o held) \o up
  <2>1. 1 \in 1 .. Len(low) + 1 /\ base \in 1 - 1 .. Len(low) /\ x \in 1 - 1 .. Len(low) /\ x \in base .. Len(low)
        /\ Len(low) \in x .. Len(low)
    BY <1>2, <1>9
  <2>2. down \o held = SubSeq(low, 1, x)
    BY <1>1, <1>8, <2>1, ConcatAdjacentSubSeq
  <2>3. SubSeq(low, 1, x) \o rest = SubSeq(low, 1, Len(low))
    BY <1>1, <1>8, <2>1, ConcatAdjacentSubSeq
  <2>4. low = (down \o held) \o rest
    BY <1>1, <2>2, <2>3, SubSeqFull
  <2>5. down \o held \in Seq(ValueTypes)
    BY <1>10, ConcatProperties
  <2>6. PICK a, ss : a = down \o held /\ ss = s.stack
    OBVIOUS
  <2>7. (a \o rest) \o ss = a \o (rest \o ss)
    <3>1. a \in Seq(ValueTypes) /\ rest \in Seq(ValueTypes) /\ ss \in Seq(ValueTypes)
      BY <1>2, <1>10, <2>5, <2>6
    <3> QED
      BY <3>1, ConcatAssociative, SMTT(30)
  <2>8. th.values = (a \o rest) \o ss /\ up = rest \o ss
    BY <1>1, <1>8, <2>4, <2>6
  <2>9. th.values = a \o up
    BY <2>7, <2>8
  <2> QED
    BY <2>6, <2>9
<1>13. /\ T[fs[k].offset] \in Shapes
       /\ fs[k].exceptions + T[fs[k].offset].exceptions = n2
       /\ Lands(T, Shape(fs[k].func, held, T[fs[k].offset].exceptions), fs[k].offset)
       /\ Tries => fs[k].values = base + Len(Params(fs[k].func))
  BY <1>7, <1>8 DEF Waits
<1>14. PICK ex : ex = T[fs[k].offset].exceptions
  OBVIOUS
<1>15. ex \in Nat /\ fs[k].exceptions + ex <= Len(th.exceptions)
  <2>1. ex \in Nat
    BY <1>13, <1>14 DEF Shapes
  <2>2. n2 <= Len(th.exceptions)
    BY <1>1, <1>2, <1>3
  <2> QED
    BY <1>13, <1>14, <2>1, <2>2
<1>16. PICK fr : fr = fs[k]
  OBVIOUS
<1>17. Unwinds(T, th, fr, down, held, up, ex)
  BY <1>1, <1>2, <1>10, <1>11, <1>12, <1>13, <1>14, <1>15, <1>16 DEF Unwinds
<1>18. AllWait(T, SubSeq(fs, 1, k - 1), down, fs[k].exceptions, Results(fs[k].func), Results(th.func))
  BY <1>3, <1>7, <1>8
<1> QED
  BY <1>16, <1>17, <1>18

\* An exception goes on where the code has what the handler leaves, or ends the thread.
LEMMA DoThrowTyped ==
  ASSUME HasModule, NEW T, DOMAIN T \subseteq Nat,
         NEW th, NEW fs, NEW top, NEW s, NEW low, Over(T, th, fs, top, s, low),
         Lands(T, s, top.offset), NEW exn \in Exn
  PROVE  Fine(T, DoThrow(th, exn))
<1> DEFINE catching == {k \in DOMAIN th.frames : FrameHandler(th.frames[k], exn) # NoHandler}
           k        == Max0(catching)
           frame    == th.frames[k]
           target   == FrameHandler(frame, exn)
           unwound  == [th EXCEPT
                          !.frames = [SubSeq(@, 1, k) EXCEPT ![k].offset = target.offset],
                          !.inst = frame.inst,
                          !.values = Resized(@, frame.values + target.values, "garbage"),
                          !.exceptions = Append(SubSeq(@, 1, frame.exceptions + target.exceptions), exn)]
<1>1. /\ th \in ThreadRec /\ fs \in Seq(FrameRec) /\ top \in FrameRec /\ th.frames = Append(fs, top)
      /\ AllWait(T, fs, low, top.exceptions, Results(top.func), Results(th.func))
  BY DEF Over
<1>2. PICK n : n = Len(fs)
  OBVIOUS
<1>3. /\ n \in Nat /\ th.frames \in Seq(FrameRec) /\ Len(th.frames) = n + 1 /\ DOMAIN th.frames = 1 .. n + 1
      /\ \A i \in 1 .. n : th.frames[i] = fs[i]
      /\ th.frames[n + 1] = top
  <2>1. n \in Nat
    BY <1>1, <1>2, LenProperties
  <2>2. /\ th.frames \in Seq(FrameRec) /\ Len(th.frames) = n + 1
        /\ \A i \in 1 .. n : th.frames[i] = fs[i]
        /\ th.frames[n + 1] = top
    BY <1>1, <1>2, AppendProperties
  <2> QED
    BY <2>1, <2>2, LenProperties
<1>4. CASE catching = {}
  <2>1. DoThrow(th, exn) = Result([th EXCEPT !.frames = <<>>], "exception")
    BY <1>4 DEF DoThrow
  <2>2. DoThrow(th, exn).result = "exception"
    BY <1>1, <2>1 DEF Result, ThreadRec
  <2> QED
    BY <2>2 DEF Fine
<1>5. CASE catching # {}
  <2>1. k \in 1 .. n + 1 /\ target # NoHandler
    <3>1. catching \subseteq 1 .. n + 1
      BY <1>3
    <3>2. k \in catching
      <4>1. n + 1 \in Nat
        BY <1>3
      <4> HIDE DEF catching
      <4> QED
        BY <1>5, <3>1, <4>1, Max0IsLargest
    <3> QED
      BY <1>3, <3>2
  <2>2. DoThrow(th, exn) = IF target.payload THEN Push(unwound, M.tags[exn.tag + 1]) ELSE unwound
    BY <1>5 DEF DoThrow
  <2>3. PICK c : c = k
    OBVIOUS
  <2>4. PICK fr, h, gs : fr = th.frames[c] /\ h = FrameHandler(fr, exn) /\ gs = SubSeq(th.frames, 1, c - 1)
    OBVIOUS
  <2>5. h = target /\ fr = frame /\ h # NoHandler /\ c \in 1 .. n + 1
    BY <2>1, <2>3, <2>4
  <2> DEFINE w == [th EXCEPT !.frames = Append(gs, [fr EXCEPT !.offset = h.offset]),
                             !.inst = fr.inst,
                             !.values = Resized(th.values, fr.values + h.values, "garbage"),
                             !.exceptions = Append(SubSeq(th.exceptions, 1, fr.exceptions + h.exceptions),
                                                   exn)]
  <2>6. unwound = w
    <3>1. PICK y : y = [fr EXCEPT !.offset = h.offset]
      OBVIOUS
    <3>2. [SubSeq(th.frames, 1, c) EXCEPT ![c] = y] = Append(gs, y)
      <4>1. c \in 1 .. Len(th.frames)
        BY <1>3, <2>5
      <4> QED
        <5>1. th.frames \in Seq(FrameRec)
          BY <1>3
        <5>2. PICK q : q = th.frames
          OBVIOUS
        <5>3. [SubSeq(q, 1, c) EXCEPT ![c] = y] = Append(SubSeq(q, 1, c - 1), y)
          <6>1. q \in Seq(FrameRec) /\ c \in 1 .. Len(q)
            BY <4>1, <5>1, <5>2
          <6> QED
            BY <6>1, PrefixReplaced, SMTT(30)
        <5> QED
          BY <2>4, <5>2, <5>3
    <3>3. SubSeq(th.frames, 1, c)[c] = fr
      <4>1. c \in 0 .. Len(th.frames) /\ 1 \in Nat \ {0} /\ c \in 1 .. c - 1 + 1 /\ 1 + c - 1 = c
        BY <1>3, <2>5
      <4>2. \A i \in 1 .. c - 1 + 1 : SubSeq(th.frames, 1, c)[i] = th.frames[1 + i - 1]
        BY <1>3, <4>1, SubSeqParts
      <4> QED
        BY <2>4, <4>1, <4>2
    <3>4. PICK p : p = SubSeq(th.frames, 1, c)
      OBVIOUS
    <3>5. [p EXCEPT ![c].offset = h.offset] = Append(gs, y)
      <4>1. [p EXCEPT ![c].offset = h.offset] = [p EXCEPT ![c] = [p[c] EXCEPT !.offset = h.offset]]
        BY Zenon
      <4> QED
        BY <3>1, <3>2, <3>3, <3>4, <4>1
    <3>6. unwound = [th EXCEPT !.frames = [p EXCEPT ![c].offset = h.offset],
                               !.inst = fr.inst,
                               !.values = Resized(th.values, fr.values + h.values, "garbage"),
                               !.exceptions = Append(SubSeq(th.exceptions, 1, fr.exceptions + h.exceptions),
                                                     exn)]
      BY <2>3, <2>5, <3>4, Zenon
    <3> QED
      BY <3>1, <3>5, <3>6, Zenon
  <2>7. Fine(T, IF h.payload THEN Push(w, M.tags[exn.tag + 1]) ELSE w)
    <3>1. CASE c = n + 1
      <4>1. fr = top /\ gs = fs
        <5>1. Front(th.frames) = fs
          BY OverTop
        <5> QED
          BY <1>3, <2>4, <3>1, <5>1 DEF Front
      <4>2. Unwinds(T, th, fr, low, s.stack, <<>>, s.exceptions)
        BY <4>1, UnwindsTop
      <4>3. AllWait(T, gs, low, fr.exceptions, Results(fr.func), Results(th.func))
        BY <1>1, <4>1
      <4> QED
        BY <1>1, <2>4, <2>5, <4>1, <4>2, <4>3, LandTyped
    <3>2. CASE c # n + 1
      <4>1. c \in 1 .. n
        BY <1>3, <2>5, <3>2
      <4>2. fr = fs[c] /\ gs = SubSeq(fs, 1, c - 1) /\ gs \in Seq(FrameRec)
        <5>1. fr = fs[c]
          BY <1>3, <2>4, <4>1
        <5>2. SubSeq(fs, 1, c - 1) = SubSeq(th.frames, 1, c - 1)
          <6>1. th.frames = fs \o <<top>>
            BY <1>1, AppendIsConcat
          <6>2. <<top>> \in Seq(FrameRec) /\ c - 1 \in 0 .. Len(fs) /\ 0 \in 0 .. c - 1 /\ 0 + 1 = 1
            BY <1>1, <1>2, <1>3, <4>1
          <6>3. SubSeq(fs \o <<top>>, 0 + 1, c - 1) = SubSeq(fs, 0 + 1, c - 1)
            BY <1>1, <6>2, SubSeqLow
          <6> QED
            BY <6>1, <6>2, <6>3
        <5>3. SubSeq(fs, 1, c - 1) \in Seq(FrameRec)
          <6>1. c - 1 \in 0 .. Len(fs) /\ 1 \in Nat \ {0}
            BY <1>2, <1>3, <4>1
          <6> QED
            BY <1>1, <6>1, SubSeqParts
        <5> QED
          BY <2>4, <5>1, <5>2, <5>3
      <4>3. PICK down, held, up, ex :
              /\ Unwinds(T, th, fr, down, held, up, ex)
              /\ AllWait(T, gs, down, fr.exceptions, Results(fr.func), Results(th.func))
        BY <1>2, <4>1, <4>2, UnwindsBelow
      <4> QED
        BY <2>4, <2>5, <4>2, <4>3, LandTyped
    <3> QED
      BY <3>1, <3>2
  <2>8. DoThrow(th, exn) = IF h.payload THEN Push(w, M.tags[exn.tag + 1]) ELSE w
    BY <2>2, <2>5, <2>6
  <2> QED
    BY <2>7, <2>8
<1> QED
  BY <1>4, <1>5

-----------------------------------------------------------------------------
\* The steps of a thread.

\* The arms of Flows.
LEMMA FlowsOf ==
  ASSUME NEW o, NEW s, NEW c, c = CodeOp(o), NEW a, a = Imm(o, 1)
  PROVE  /\ c = "br" => <<a, s>> \in Flows(o, s)
         /\ c = "br_unless" => \A x \in {a, Behind(o)} : <<x, Replaced(s, 1, <<>>)>> \in Flows(o, s)
         /\ c = "br_table" => \A key \in 0 .. a :
              <<o + 2 + key * kBrTableEntrySize, Replaced(s, 1, <<>>)>> \in Flows(o, s)
         /\ c \in {"call", "call_import"} =>
              <<Behind(o), Replaced(s, Len(Params(a)), Results(a))>> \in Flows(o, s)
         /\ c = "call_indirect" =>
              <<Behind(o), Replaced(s, Len(Params(Imm(o, 2))) + 1, Results(Imm(o, 2)))>> \in Flows(o, s)
         /\ c = "drop_keep" =>
              <<Behind(o), Replaced(s, a + Imm(o, 2), TopOf(s.stack, Imm(o, 2)))>> \in Flows(o, s)
         /\ c = "catch_drop" => <<Behind(o), [s EXCEPT !.exceptions = @ - a]>> \in Flows(o, s)
         /\ c = "adjust_frame" => <<Behind(o), [s EXCEPT !.func = a]>> \in Flows(o, s)
         /\ c = "alloca" => <<Behind(o), Replaced(s, 0, Locals(r, s.func))>> \in Flows(o, s)
<1>1. c = "br" => <<a, s>> \in Flows(o, s)
  BY DEF Flows
<1>2. c = "br_unless" => \A x \in {a, Behind(o)} : <<x, Replaced(s, 1, <<>>)>> \in Flows(o, s)
  BY DEF Flows
<1>3. c = "br_table" => \A key \in 0 .. a :
              <<o + 2 + key * kBrTableEntrySize, Replaced(s, 1, <<>>)>> \in Flows(o, s)
  BY DEF Flows
<1>4. c \in {"call", "call_import"} =>
              <<Behind(o), Replaced(s, Len(Params(a)), Results(a))>> \in Flows(o, s)
  BY DEF Flows, Params, Results
<1>5. c = "call_indirect" =>
              <<Behind(o), Replaced(s, Len(Params(Imm(o, 2))) + 1, Results(Imm(o, 2)))>> \in Flows(o, s)
  BY DEF Flows, Params, Results, Called
<1>6. c = "drop_keep" =>
              <<Behind(o), Replaced(s, a + Imm(o, 2), TopOf(s.stack, Imm(o, 2)))>> \in Flows(o, s)
  BY DEF Flows
<1>7. c = "catch_drop" => <<Behind(o), [s EXCEPT !.exceptions = @ - a]>> \in Flows(o, s)
  BY DEF Flows
<1>8. c = "adjust_frame" => <<Behind(o), [s EXCEPT !.func = a]>> \in Flows(o, s)
  BY DEF Flows
<1>9. c = "alloca" => <<Behind(o), Replaced(s, 0, Locals(r, s.func))>> \in Flows(o, s)
  BY DEF Flows
<1> QED
  BY <1>1, <1>2, <1>3, <1>4, <1>5, <1>6, <1>7, <1>8, <1>9

LEMMA FlowsOfOperands ==
  ASSUME NEW o, NEW s, NEW c, c = CodeOp(o), NEW a, a = Imm(o, 1)
  PROVE  /\ c = "local.get" => <<Behind(o), Replaced(s, 0, <<Nth(s.stack, a)>>)>> \in Flows(o, s)
         /\ c = "local.set" =>
              <<Behind(o), [s EXCEPT !.stack = Drop([s.stack EXCEPT ![Len(s.stack) + 1 - a] = Nth(s.stack, 1)], 1)]>>
                \in Flows(o, s)
         /\ c = "local.tee" =>
              <<Behind(o), [s EXCEPT !.stack = [s.stack EXCEPT ![Len(s.stack) + 1 - a] = Nth(s.stack, 1)]]>>
                \in Flows(o, s)
         /\ c = "drop" => <<Behind(o), Replaced(s, 1, <<>>)>> \in Flows(o, s)
         /\ c = "select" => \A i \in {2, 3} :
              <<Behind(o), Replaced(s, 3, <<Nth(s.stack, i)>>)>> \in Flows(o, s)
         /\ c \in PlainKinds =>
              <<Behind(o), Replaced(s, Len(PlainOp(c).params), PlainOp(c).results)>> \in Flows(o, s)
<1>1. c = "local.get" => <<Behind(o), Replaced(s, 0, <<Nth(s.stack, a)>>)>> \in Flows(o, s)
  BY DEF Flows
<1>2. c = "local.set" =>
              <<Behind(o), [s EXCEPT !.stack = Drop([s.stack EXCEPT ![Len(s.stack) + 1 - a] = Nth(s.stack, 1)], 1)]>>
                \in Flows(o, s)
  BY DEF Flows
<1>3. c = "local.tee" =>
              <<Behind(o), [s EXCEPT !.stack = [s.stack EXCEPT ![Len(s.stack) + 1 - a] = Nth(s.stack, 1)]]>>
                \in Flows(o, s)
  BY DEF Flows
<1>4. c = "drop" => <<Behind(o), Replaced(s, 1, <<>>)>> \in Flows(o, s)
  BY DEF Flows
<1>5. c = "select" => \A i \in {2, 3} :
              <<Behind(o), Replaced(s, 3, <<Nth(s.stack, i)>>)>> \in Flows(o, s)
  BY DEF Flows
<1>6. c \in PlainKinds =>
              <<Behind(o), Replaced(s, Len(PlainOp(c).params), PlainOp(c).results)>> \in Flows(o, s)
  <2> SUFFICES ASSUME c \in PlainKinds
               PROVE  <<Behind(o), Replaced(s, Len(PlainOp(c).params), PlainOp(c).results)>> \in Flows(o, s)
    OBVIOUS
  <2>1. c \notin {"br", "br_unless", "br_table", "return", "unreachable", "throw", "rethrow",
                  "return_call_indirect", "call", "call_import", "call_indirect", "drop_keep",
                  "catch_drop", "adjust_frame", "alloca", "local.get", "local.set", "local.tee", "drop",
                  "select"}
    BY DEF PlainKinds, NumericKinds, MemoryKinds, BulkKinds, SimdKinds, SimdMemoryKinds, AtomicKinds
  <2> QED
    BY <2>1 DEF Flows
<1> QED
  BY <1>1, <1>2, <1>3, <1>4, <1>5, <1>6

\* The operand types of an instruction that only computes.
LEMMA PlainTyped ==
  ASSUME NEW c \in PlainKinds
  PROVE  PlainOp(c).params \in Seq(ValueTypes) /\ PlainOp(c).results \in Seq(ValueTypes)
<1> DEFINE Fixed(x) == x.params \in Seq(ValueTypes) /\ x.results \in Seq(ValueTypes)
           Few(p) == p \in Seq(ValueTypes)
<1>1. ASSUME NEW p, NEW q, Few(p), Few(q) PROVE \A n, b : Fixed(Op(p, q, n, b))
  BY <1>1 DEF Op
<1>2. ASSUME NEW x \in ValueTypes, NEW y \in ValueTypes, NEW z \in ValueTypes
      PROVE  Few(<<>>) /\ Few(<<x>>) /\ Few(<<x, y>>) /\ Few(<<x, y, z>>)
  <2>1. ASSUME NEW S, NEW a \in S, NEW b \in S, NEW d \in S
        PROVE  <<>> \in Seq(S) /\ <<a>> \in Seq(S) /\ <<a, b>> \in Seq(S) /\ <<a, b, d>> \in Seq(S)
    OBVIOUS
  <2> QED
    BY <2>1, Zenon
<1>3. \A x \in {"i32", "i64", "f32", "v128", "funcref"} : x \in ValueTypes
  BY DEF ValueTypes, RefType
<1> HIDE DEF Fixed, Few
<1>4. \A x \in DOMAIN NumericOps : Fixed(NumericOps[x])
  <2>1. /\ Few(<<"i32", "i32", "i32">>) /\ Few(<<"i32", "i32">>) /\ Few(<<"i32", "v128">>)
        /\ Few(<<"i32">>) /\ Few(<<"v128", "i32">>) /\ Few(<<"v128", "v128", "v128">>)
        /\ Few(<<"v128", "v128">>) /\ Few(<<"v128">>) /\ Few(<<>>)
    BY <1>2, <1>3
  <2>2. \A n, b :
          /\ Fixed(Op(<<"i32", "i32", "i32">>, <<"i32">>, n, b))
          /\ Fixed(Op(<<"i32", "i32">>, <<"i32">>, n, b))
          /\ Fixed(Op(<<"i32", "i32">>, <<>>, n, b))
          /\ Fixed(Op(<<"i32", "v128">>, <<"v128">>, n, b))
          /\ Fixed(Op(<<"i32", "v128">>, <<>>, n, b))
          /\ Fixed(Op(<<"i32">>, <<"i32">>, n, b))
          /\ Fixed(Op(<<"i32">>, <<"v128">>, n, b))
          /\ Fixed(Op(<<"v128", "i32">>, <<"v128">>, n, b))
          /\ Fixed(Op(<<"v128", "v128", "v128">>, <<"v128">>, n, b))
          /\ Fixed(Op(<<"v128", "v128">>, <<"v128">>, n, b))
          /\ Fixed(Op(<<"v128">>, <<"i32">>, n, b))
    BY <1>1, <2>1, Zenon
  <2>3. DOMAIN NumericOps = {"unary", "binary", "ternary", "lane", "replace_lane", "load_lane", "store_lane",
            "shuffle", "load_splat", "atomic_load", "atomic_store", "atomic_rmw", "cmpxchg"}
    BY DEF NumericOps
  <2>4. /\ Fixed(NumericOps["unary"]) /\ Fixed(NumericOps["binary"])
        /\ Fixed(NumericOps["ternary"]) /\ Fixed(NumericOps["lane"])
        /\ Fixed(NumericOps["replace_lane"]) /\ Fixed(NumericOps["load_lane"])
        /\ Fixed(NumericOps["store_lane"]) /\ Fixed(NumericOps["shuffle"])
        /\ Fixed(NumericOps["load_splat"]) /\ Fixed(NumericOps["atomic_load"])
        /\ Fixed(NumericOps["atomic_store"]) /\ Fixed(NumericOps["atomic_rmw"])
        /\ Fixed(NumericOps["cmpxchg"])
    BY <2>2, Zenon DEF NumericOps
  <2> QED
    BY <2>3, <2>4
<1>5. \A x \in DOMAIN ConstOps : Fixed(ConstOps[x])
  <2>1. /\ Few(<<"f32", "f32">>) /\ Few(<<"f32">>) /\ Few(<<"funcref">>) /\ Few(<<"i32">>)
        /\ Few(<<"v128">>) /\ Few(<<>>)
    BY <1>2, <1>3
  <2>2. \A n, b :
          /\ Fixed(Op(<<"f32", "f32">>, <<"i32">>, n, b))
          /\ Fixed(Op(<<"f32">>, <<"i32">>, n, b))
          /\ Fixed(Op(<<"funcref">>, <<>>, n, b))
          /\ Fixed(Op(<<>>, <<"f32">>, n, b))
          /\ Fixed(Op(<<>>, <<"funcref">>, n, b))
          /\ Fixed(Op(<<>>, <<"i32">>, n, b))
          /\ Fixed(Op(<<>>, <<"v128">>, n, b))
    BY <1>1, <2>1, Zenon
  <2>3. DOMAIN ConstOps = {"compare", "convert", "i32_const", "f32_const", "v128_const", "global_get", "global_set"}
    BY DEF ConstOps
  <2>4. /\ Fixed(ConstOps["compare"]) /\ Fixed(ConstOps["convert"]) /\ Fixed(ConstOps["i32_const"])
        /\ Fixed(ConstOps["f32_const"]) /\ Fixed(ConstOps["v128_const"])
        /\ Fixed(ConstOps["global_get"]) /\ Fixed(ConstOps["global_set"])
    BY <2>2, Zenon DEF ConstOps
  <2> QED
    BY <2>3, <2>4
<1>6. \A x \in DOMAIN MemoryOps : Fixed(MemoryOps[x])
  <2>1. /\ Few(<<"f32">>) /\ Few(<<"funcref", "i32">>) /\ Few(<<"funcref">>)
        /\ Few(<<"i32", "f32">>) /\ Few(<<"i32", "funcref", "i32">>) /\ Few(<<"i32">>) /\ Few(<<>>)
    BY <1>2, <1>3
  <2>2. \A n, b :
          /\ Fixed(Op(<<"funcref", "i32">>, <<"i32">>, n, b))
          /\ Fixed(Op(<<"funcref">>, <<"i32">>, n, b))
          /\ Fixed(Op(<<"i32", "f32">>, <<>>, n, b))
          /\ Fixed(Op(<<"i32", "funcref", "i32">>, <<>>, n, b))
          /\ Fixed(Op(<<"i32">>, <<"f32">>, n, b))
          /\ Fixed(Op(<<"i32">>, <<"i32">>, n, b))
          /\ Fixed(Op(<<>>, <<"funcref">>, n, b))
          /\ Fixed(Op(<<>>, <<"i32">>, n, b))
    BY <1>1, <2>1, Zenon
  <2>3. DOMAIN MemoryOps = {"load", "store", "memory_grow", "memory_size", "table_grow", "table_size",
            "table_fill", "ref_func", "ref_null", "ref_is_null"}
    BY DEF MemoryOps
  <2>4. /\ Fixed(MemoryOps["load"]) /\ Fixed(MemoryOps["store"]) /\ Fixed(MemoryOps["memory_grow"])
        /\ Fixed(MemoryOps["memory_size"]) /\ Fixed(MemoryOps["table_grow"])
        /\ Fixed(MemoryOps["table_size"]) /\ Fixed(MemoryOps["table_fill"])
        /\ Fixed(MemoryOps["ref_func"]) /\ Fixed(MemoryOps["ref_null"])
        /\ Fixed(MemoryOps["ref_is_null"])
    BY <2>2, Zenon DEF MemoryOps
  <2> QED
    BY <2>3, <2>4
<1>7. \A x \in DOMAIN BulkOps : Fixed(BulkOps[x])
  <2>1. /\ Few(<<"funcref">>) /\ Few(<<"i32", "funcref">>) /\ Few(<<"i32", "i32", "i32">>)
        /\ Few(<<"i32", "i32", "i64">>) /\ Few(<<"i32", "i32">>) /\ Few(<<"i32">>) /\ Few(<<>>)
    BY <1>2, <1>3
  <2>2. \A n, b :
          /\ Fixed(Op(<<"i32", "funcref">>, <<>>, n, b))
          /\ Fixed(Op(<<"i32", "i32", "i32">>, <<>>, n, b))
          /\ Fixed(Op(<<"i32", "i32", "i64">>, <<"i32">>, n, b))
          /\ Fixed(Op(<<"i32", "i32">>, <<"i32">>, n, b))
          /\ Fixed(Op(<<"i32">>, <<"funcref">>, n, b))
          /\ Fixed(Op(<<>>, <<>>, n, b))
    BY <1>1, <2>1, Zenon
  <2>3. DOMAIN BulkOps = {"atomic_wait", "atomic_notify", "memory_copy", "data_drop", "memory_fill",
            "memory_init", "table_get", "table_set", "table_copy", "elem_drop", "table_init"}
    BY DEF BulkOps
  <2>4. /\ Fixed(BulkOps["atomic_wait"]) /\ Fixed(BulkOps["atomic_notify"])
        /\ Fixed(BulkOps["memory_copy"]) /\ Fixed(BulkOps["data_drop"])
        /\ Fixed(BulkOps["memory_fill"]) /\ Fixed(BulkOps["memory_init"])
        /\ Fixed(BulkOps["table_get"]) /\ Fixed(BulkOps["table_set"])
        /\ Fixed(BulkOps["table_copy"]) /\ Fixed(BulkOps["elem_drop"])
        /\ Fixed(BulkOps["table_init"])
    BY <2>2, Zenon DEF BulkOps
  <2> QED
    BY <2>3, <2>4
<1>8. c \in DOMAIN NumericOps \/ c \in DOMAIN ConstOps \/ c \in DOMAIN MemoryOps \/ c \in DOMAIN BulkOps
  BY DEF PlainKinds, NumericKinds, MemoryKinds, BulkKinds, SimdKinds, SimdMemoryKinds, AtomicKinds,
         NumericOps, ConstOps, MemoryOps, BulkOps
<1>9. Fixed(PlainOp(c))
  BY <1>4, <1>5, <1>6, <1>7, <1>8 DEF PlainOp
<1> QED
  BY <1>9 DEF Fixed

\* The thread is at the offset o, where T says s.
Stands(T, fs, top, s, low, o) ==
  /\ Over(T, t, fs, top, s, low)
  /\ o = top.offset /\ o \in DOMAIN T /\ s = T[o]

\* A thread at o: what it is about to execute.
LEMMA StandsParts ==
  ASSUME NEW T, WellTyped(T), NEW fs, NEW top, NEW s, NEW low, NEW o, Stands(T, fs, top, s, low, o)
  PROVE  /\ o \in Nat /\ DOMAIN T \subseteq Nat
         /\ Pc = o /\ op = CodeOp(o) /\ imm(1) = Imm(o, 1) /\ imm(2) = Imm(o, 2)
         /\ Next0 = Jump(t, Behind(o))
         /\ t \in ThreadRec /\ s \in Shapes /\ s.stack \in Seq(ValueTypes) /\ Len(s.stack) \in Nat /\ s.exceptions \in Nat
         /\ s.func \in InModule
         /\ Fits(T, o, s)
         /\ \A x, y : <<x, y>> \in Flows(o, s) => x \in DOMAIN T /\ T[x] = y
<1>1. /\ \A x \in DOMAIN T : x \in 0 .. end(r) - 1
      /\ Fits(T, o, s)
      /\ \A e \in Flows(o, s) : e[1] \in DOMAIN T /\ T[e[1]] = e[2]
  BY DEF WellTyped, Stands
<1>2. Over(T, t, fs, top, s, low) /\ o = top.offset /\ o \in DOMAIN T
  BY DEF Stands
<1>3. Top(t) = top
  BY <1>2, OverTop
<1>4. Pc = o /\ op = CodeOp(o) /\ imm(1) = Imm(o, 1) /\ imm(2) = Imm(o, 2)
  BY <1>2, <1>3 DEF Pc, op, imm, CodeOp, Imm
<1>5. Next0 = Jump(t, Behind(o))
  BY <1>4 DEF Next0, Behind
<1>6. t \in ThreadRec /\ s \in Shapes
  BY <1>2 DEF Over
<1>7. s.stack \in Seq(ValueTypes) /\ Len(s.stack) \in Nat /\ s.exceptions \in Nat /\ s.func \in InModule
  <2>1. s.stack \in Seq(ValueTypes) /\ s.exceptions \in Nat /\ s.func \in InModule
    BY <1>6 DEF Shapes
  <2> QED
    BY <2>1, LenProperties
<1>8. DOMAIN T \subseteq Nat
  BY <1>1
<1>9. \A x, y : <<x, y>> \in Flows(o, s) => x \in DOMAIN T /\ T[x] = y
  <2> TAKE x, y
  <2> HAVE <<x, y>> \in Flows(o, s)
  <2>1. <<x, y>>[1] \in DOMAIN T /\ T[<<x, y>>[1]] = <<x, y>>[2]
    BY <1>1
  <2> QED
    BY <2>1
<1> QED
  BY <1>1, <1>2, <1>4, <1>5, <1>6, <1>7, <1>8, <1>9

\* The frame when the thread has jumped.
LEMMA JumpTyped ==
  ASSUME NEW T, NEW th, NEW fs, NEW top, NEW s, NEW low, Over(T, th, fs, top, s, low), NEW a \in Nat
  PROVE  \E x \in FrameRec :
           /\ x.offset = a /\ x.func = top.func /\ x.exceptions = top.exceptions /\ x.values = top.values
           /\ Over(T, Jump(th, a), fs, x, s, low)
<1>1. top \in FrameRec
  BY DEF Over
<1>2. PICK x : x = [top EXCEPT !.offset = a]
  OBVIOUS
<1>3. /\ x \in FrameRec /\ x.offset = a /\ x.func = top.func /\ x.exceptions = top.exceptions
      /\ x.values = top.values
  BY <1>1, <1>2 DEF FrameRec
<1>4. Over(T, Jump(th, a), fs, x, s, low)
  BY <1>2, OverJump
<1> QED
  BY <1>3, <1>4

\* What each instruction finds.
LEMMA FitsParts ==
  ASSUME NEW T, NEW o, NEW s, Fits(T, o, s), NEW c, c = CodeOp(o), NEW a, a = Imm(o, 1),
         NEW n, n = Len(s.stack)
  PROVE  /\ c \in Pops1 => n >= 1
         /\ c \in {"local.get", "local.set", "local.tee"} => a \in 1 .. n
         /\ c = "select" => n >= 3
         /\ c = "drop_keep" => a \in 0 .. n /\ Imm(o, 2) \in 0 .. n - a
         /\ c = "catch_drop" => a \in 0 .. s.exceptions
         /\ c = "rethrow" => a \in 0 .. s.exceptions - 1
         /\ c = "throw" => a \in Indices(M.tags) /\ Len(M.tags[a + 1]) <= n
         /\ c \in PlainKinds => Len(PlainOp(c).params) <= n
         /\ c = "return" => s.stack = Results(s.func) /\ s.exceptions = 0
         /\ c = "call" => a \in InModule
         /\ c = "call_import" => a \in 0 .. M.imports - 1
         /\ c \in {"call_indirect", "return_call_indirect"} => Imm(o, 2) \in Indices(M.funcs)
         /\ c = "return_call_indirect" =>
              Params(Imm(o, 2)) = Drop(s.stack, 1) /\ Results(Imm(o, 2)) = Results(s.func) /\ s.exceptions = 0
         /\ c = "adjust_frame" =>
              /\ a \in InModule /\ Results(a) = Results(s.func)
              /\ Tries => Len(Params(a)) = Len(Params(s.func))
         /\ c \in CallOps \cup {"throw", "rethrow"} => Lands(T, Rest(o, s), Behind(o))
<1>1. c = "call_indirect" \/ c = "return_call_indirect" => Called(o) = Imm(o, 2)
  BY DEF Called
<1> QED
  BY <1>1 DEF Fits, Params, Results

\* A call at o, which holds what Rest leaves.
LEMMA ReplacedParts ==
  ASSUME NEW s \in Shapes, NEW n \in 0 .. Len(s.stack), NEW types \in Seq(ValueTypes)
  PROVE  /\ Replaced(s, n, types) \in Shapes
         /\ Replaced(s, n, types).func = s.func
         /\ Replaced(s, n, types).stack = Drop(s.stack, n) \o types
         /\ Replaced(s, n, types).exceptions = s.exceptions
         /\ Drop(s.stack, n) \in Seq(ValueTypes)
         /\ Replaced(s, n, <<>>).stack = Drop(s.stack, n)
<1>1. s.stack \in Seq(ValueTypes)
  BY DEF Shapes
<1>2. Drop(s.stack, n) \in Seq(ValueTypes)
  BY <1>1, DropParts
<1>3. Drop(s.stack, n) \o types \in Seq(ValueTypes)
  BY <1>2, ConcatProperties
<1>4. Drop(s.stack, n) \o <<>> = Drop(s.stack, n)
  BY <1>2, ConcatEmptySeq
<1>5. PICK v : v = Drop(s.stack, n) \o types
  OBVIOUS
<1>6. Replaced(s, n, types) = [s EXCEPT !.stack = v]
  BY <1>5 DEF Replaced
<1>7. /\ Replaced(s, n, types) \in Shapes
      /\ Replaced(s, n, types).func = s.func
      /\ Replaced(s, n, types).stack = v
      /\ Replaced(s, n, types).exceptions = s.exceptions
  BY <1>3, <1>5, <1>6 DEF Shapes
<1>8. Replaced(s, n, <<>>).stack = Drop(s.stack, n)
  <2>1. PICK w : w = Drop(s.stack, n)
    OBVIOUS
  <2>2. Replaced(s, n, <<>>) = [s EXCEPT !.stack = w]
    BY <1>4, <2>1 DEF Replaced
  <2>3. Replaced(s, n, <<>>).stack = w
    BY <2>2 DEF Shapes
  <2> QED
    BY <2>1, <2>3
<1> QED
  BY <1>2, <1>5, <1>7, <1>8

\* n values go, types come, and the thread goes on at a.
LEMMA MovesTyped ==
  ASSUME NEW T, DOMAIN T \subseteq Nat,
         NEW th, NEW fs, NEW top, NEW s, NEW low, Over(T, th, fs, top, s, low),
         NEW a \in DOMAIN T, NEW n \in 0 .. Len(s.stack), NEW types \in Seq(ValueTypes),
         T[a] = Replaced(s, n, types)
  PROVE  /\ Fine(T, Push(Pop(Jump(th, a), n), types))
         /\ types = <<>> => Fine(T, Pop(Jump(th, a), n))
         /\ n = 0 => Fine(T, Push(Jump(th, a), types))
<1>1. a \in Nat
  OBVIOUS
<1>2. PICK x \in FrameRec : x.offset = a /\ Over(T, Jump(th, a), fs, x, s, low)
  BY <1>1, JumpTyped
<1>3. PICK u : u = Jump(th, a)
  OBVIOUS
<1>4. Over(T, u, fs, x, s, low)
  BY <1>2, <1>3
<1>5. /\ Over(T, Push(Pop(u, n), types), fs, x, Replaced(s, n, types), low)
      /\ Over(T, Pop(u, n), fs, x, Replaced(s, n, <<>>), low)
      /\ Over(T, Push(u, types), fs, x, Replaced(s, 0, types), low)
  BY <1>4, OverReplace
<1>6. Fine(T, Push(Pop(u, n), types))
  BY <1>2, <1>5, Arrives
<1>7. types = <<>> => Fine(T, Pop(u, n))
  BY <1>2, <1>5, Arrives
<1>8. n = 0 => Fine(T, Push(u, types))
  BY <1>2, <1>5, Arrives
<1> QED
  BY <1>3, <1>6, <1>7, <1>8

\* A trap ends the thread.
LEMMA TrapFine ==
  ASSUME NEW T, NEW th, NEW fs, NEW top, NEW s, NEW low, Over(T, th, fs, top, s, low)
  PROVE  Fine(T, Result(th, "trap"))
<1>1. th \in ThreadRec
  BY DEF Over
<1>2. Result(th, "trap").result = "trap"
  BY <1>1 DEF Result, ThreadRec
<1> QED
  BY <1>2 DEF Fine

\* Branches and returns.
LEMMA BrTyped ==
  ASSUME NEW T, WellTyped(T), NEW fs, NEW top, NEW s, NEW low, NEW o, Stands(T, fs, top, s, low, o),
         StepBr
  PROVE  Fine(T, t')
<1>1. op = "br" /\ t' = Jump(t, imm(1))
  BY DEF StepBr, Executes
<1>2. PICK a : a = Imm(o, 1)
  OBVIOUS
<1>3. CodeOp(o) = "br" /\ t' = Jump(t, a)
  BY <1>1, <1>2, StandsParts
<1>4. <<a, s>> \in Flows(o, s)
  BY <1>2, <1>3, FlowsOf
<1>5. a \in DOMAIN T /\ T[a] = s /\ a \in Nat
  BY <1>4, StandsParts
<1>6. Over(T, t, fs, top, s, low)
  BY DEF Stands
<1>7. PICK x \in FrameRec : x.offset = a /\ Over(T, Jump(t, a), fs, x, s, low)
  BY <1>5, <1>6, JumpTyped
<1>8. Fine(T, Jump(t, a))
  BY <1>5, <1>7, Arrives
<1> QED
  BY <1>3, <1>8

LEMMA BrUnlessTyped ==
  ASSUME NEW T, WellTyped(T), NEW fs, NEW top, NEW s, NEW low, NEW o, Stands(T, fs, top, s, low, o),
         StepBrUnless
  PROVE  Fine(T, t')
<1>1. op = "br_unless" /\ t' \in {Pop(Next0, 1), Pop(Jump(t, imm(1)), 1)}
  BY DEF StepBrUnless, Executes
<1>2. CodeOp(o) = "br_unless" /\ Next0 = Jump(t, Behind(o)) /\ imm(1) = Imm(o, 1) /\ DOMAIN T \subseteq Nat
      /\ Fits(T, o, s) /\ Len(s.stack) \in Nat
  BY <1>1, StandsParts
<1>3. PICK a \in {Imm(o, 1), Behind(o)} : t' = Pop(Jump(t, a), 1)
  BY <1>1, <1>2
<1>4. <<a, Replaced(s, 1, <<>>)>> \in Flows(o, s)
  BY <1>2, FlowsOf
<1>5. a \in DOMAIN T /\ T[a] = Replaced(s, 1, <<>>)
  BY <1>4, StandsParts
<1>6. 1 \in 0 .. Len(s.stack) /\ <<>> \in Seq(ValueTypes)
  <2>1. Len(s.stack) >= 1
    BY <1>2, FitsParts DEF Pops1
  <2> QED
    BY <1>2, <2>1
<1>7. Over(T, t, fs, top, s, low)
  BY DEF Stands
<1>8. Fine(T, Pop(Jump(t, a), 1))
  BY <1>2, <1>5, <1>6, <1>7, MovesTyped
<1> QED
  BY <1>3, <1>8

LEMMA BrTableTyped ==
  ASSUME NEW T, WellTyped(T), NEW fs, NEW top, NEW s, NEW low, NEW o, Stands(T, fs, top, s, low, o),
         StepBrTable
  PROVE  Fine(T, t')
<1>1. op = "br_table" /\ \E key \in 0 .. imm(1) : t' = Pop(Jump(Next0, Pc + 2 + key * kBrTableEntrySize), 1)
  BY DEF StepBrTable, Executes
<1>2. CodeOp(o) = "br_table" /\ Next0 = Jump(t, Behind(o)) /\ imm(1) = Imm(o, 1) /\ DOMAIN T \subseteq Nat
      /\ Fits(T, o, s) /\ Len(s.stack) \in Nat /\ Pc = o /\ o \in Nat
  BY <1>1, StandsParts
<1>3. PICK key \in 0 .. Imm(o, 1) : t' = Pop(Jump(Next0, Pc + 2 + key * kBrTableEntrySize), 1)
  BY <1>1, <1>2
<1>4. PICK a : a = o + 2 + key * kBrTableEntrySize
  OBVIOUS
<1>5. t' = Pop(Jump(Next0, a), 1)
  BY <1>2, <1>3, <1>4
<1>6. <<a, Replaced(s, 1, <<>>)>> \in Flows(o, s)
  BY <1>2, <1>4, FlowsOf
<1>7. a \in DOMAIN T /\ T[a] = Replaced(s, 1, <<>>)
  BY <1>6, StandsParts
<1>8. 1 \in 0 .. Len(s.stack) /\ <<>> \in Seq(ValueTypes)
  <2>1. Len(s.stack) >= 1
    BY <1>2, FitsParts DEF Pops1
  <2> QED
    BY <1>2, <2>1
<1>9. Over(T, t, fs, top, s, low)
  BY DEF Stands
<1>10. Behind(o) \in Nat
  BY <1>2 DEF Behind, Immediates, Imm0, Imm1
<1>11. PICK x \in FrameRec : Over(T, Next0, fs, x, s, low)
  BY <1>2, <1>9, <1>10, JumpTyped
<1>12. Fine(T, Pop(Jump(Next0, a), 1))
  BY <1>2, <1>7, <1>8, <1>11, MovesTyped
<1> QED
  BY <1>5, <1>12

LEMMA ReturnTyped ==
  ASSUME HasModule, NEW T, WellTyped(T), NEW fs, NEW top, NEW s, NEW low, NEW o,
         Stands(T, fs, top, s, low, o),
         StepReturn
  PROVE  Fine(T, t')
<1>1. op = "return" /\ t' = PopCall(t)
  BY DEF StepReturn, Executes
<1>2. CodeOp(o) = "return" /\ Fits(T, o, s)
  BY <1>1, StandsParts
<1>3. s.stack = Results(s.func) /\ s.exceptions = 0
  BY <1>2, SMTT(30) DEF Fits, Results
<1>4. Over(T, t, fs, top, s, low)
  BY DEF Stands
<1>5. Fine(T, PopCall(t))
  BY <1>3, <1>4, PopCallTyped
<1> QED
  BY <1>1, <1>5

\* The thread and its frame behind the instruction at o.
LEMMA BehindTyped ==
  ASSUME NEW T, WellTyped(T), NEW fs, NEW top, NEW s, NEW low, NEW o, Stands(T, fs, top, s, low, o),
         Behind(o) \in Nat
  PROVE  \E x \in FrameRec :
           /\ x.offset = Behind(o) /\ x.func = top.func /\ x.exceptions = top.exceptions
           /\ x.values = top.values
           /\ Over(T, Next0, fs, x, s, low)
<1>1. Over(T, t, fs, top, s, low)
  BY DEF Stands
<1>2. Next0 = Jump(t, Behind(o))
  BY StandsParts
<1> QED
  BY <1>1, <1>2, JumpTyped

\* Instructions that the code generator adds: drop_keep, catch_drop, adjust_frame, alloca.
LEMMA DropKeepTyped ==
  ASSUME NEW T, WellTyped(T), NEW fs, NEW top, NEW s, NEW low, NEW o, Stands(T, fs, top, s, low, o),
         StepDropKeep
  PROVE  Fine(T, t')
<1>1. op = "drop_keep" /\ t' = [Next0 EXCEPT !.values = Drop(@, imm(1) + imm(2)) \o TopOf(@, imm(2))]
  BY DEF StepDropKeep, Executes
<1>2. PICK a, b, v : a = Imm(o, 1) /\ b = Imm(o, 2) /\ v = s.stack
  OBVIOUS
<1>3. CodeOp(o) = "drop_keep" /\ Next0 = Jump(t, Behind(o)) /\ imm(1) = a /\ imm(2) = b
      /\ DOMAIN T \subseteq Nat /\ Fits(T, o, s) /\ Len(v) \in Nat /\ v \in Seq(ValueTypes)
  BY <1>1, <1>2, StandsParts
<1>4. a + b \in 0 .. Len(v) /\ b \in 0 .. Len(v)
  <2>1. a \in 0 .. Len(v) /\ b \in 0 .. Len(v) - a
    BY <1>2, <1>3, FitsParts
  <2> QED
    BY <1>3, <2>1
<1>5. PICK types : types = TopOf(v, b)
  OBVIOUS
<1>6. types \in Seq(ValueTypes)
  BY <1>3, <1>4, <1>5, DropParts
<1>7. <<Behind(o), Replaced(s, a + b, types)>> \in Flows(o, s)
  BY <1>2, <1>3, <1>5, FlowsOf
<1>8. Behind(o) \in DOMAIN T /\ T[Behind(o)] = Replaced(s, a + b, types)
  BY <1>7, StandsParts
<1>9. Over(T, t, fs, top, s, low)
  BY DEF Stands
<1>10. Fine(T, Push(Pop(Next0, a + b), types))
  <2>1. PICK n : n = a + b
    OBVIOUS
  <2>2. n \in 0 .. Len(s.stack) /\ T[Behind(o)] = Replaced(s, n, types)
    BY <1>2, <1>4, <1>8, <2>1
  <2>3. Fine(T, Push(Pop(Jump(t, Behind(o)), n), types))
    BY <1>3, <1>6, <1>8, <1>9, <2>2, MovesTyped
  <2> QED
    BY <1>3, <2>1, <2>3
<1>11. Push(Pop(Next0, a + b), types) = [Next0 EXCEPT !.values = Drop(Next0.values, a + b) \o types]
  <2>1. Behind(o) \in Nat
    BY <1>3, <1>8
  <2>2. PICK x \in FrameRec : Over(T, Next0, fs, x, s, low)
    BY <2>1, BehindTyped
  <2>3. Next0 \in ThreadRec
    BY <2>2 DEF Over
  <2>4. PICK th, d : th = Next0 /\ d = Drop(Next0.values, a + b)
    OBVIOUS
  <2>5. PICK q : q = [th EXCEPT !.values = d]
    OBVIOUS
  <2>6. q.values = d
    BY <2>3, <2>4, <2>5 DEF ThreadRec
  <2>7. Push(q, types) = [th EXCEPT !.values = d \o types]
    BY <2>5, <2>6 DEF Push
  <2> QED
    BY <2>4, <2>5, <2>7 DEF Pop
<1>12. TopOf(Next0.values, b) = types
  <2>1. Behind(o) \in Nat
    BY <1>3, <1>8
  <2>2. PICK x \in FrameRec : Over(T, Next0, fs, x, s, low)
    BY <2>1, BehindTyped
  <2>3. Next0.values = low \o v /\ low \in Seq(ValueTypes)
    BY <1>2, <2>2 DEF Over
  <2> QED
    BY <1>3, <1>4, <1>5, <2>3, DropConcat
<1>13. t' = [Next0 EXCEPT !.values = Drop(Next0.values, a + b) \o types]
  BY <1>1, <1>3, <1>12
<1> QED
  BY <1>10, <1>11, <1>13

LEMMA CatchDropTyped ==
  ASSUME NEW T, WellTyped(T), NEW fs, NEW top, NEW s, NEW low, NEW o, Stands(T, fs, top, s, low, o),
         StepCatchDrop
  PROVE  Fine(T, t')
<1>1. op = "catch_drop" /\ t' = [Next0 EXCEPT !.exceptions = Drop(@, imm(1))]
  BY DEF StepCatchDrop, Executes
<1>2. PICK a : a = Imm(o, 1)
  OBVIOUS
<1>3. CodeOp(o) = "catch_drop" /\ imm(1) = a /\ DOMAIN T \subseteq Nat /\ Fits(T, o, s)
  BY <1>1, <1>2, StandsParts
<1>4. a \in 0 .. s.exceptions
  BY <1>2, <1>3, FitsParts
<1>5. PICK y : y = [s EXCEPT !.exceptions = @ - a]
  OBVIOUS
<1>6. <<Behind(o), y>> \in Flows(o, s)
  BY <1>2, <1>3, <1>5, FlowsOf
<1>7. Behind(o) \in DOMAIN T /\ T[Behind(o)] = y /\ Behind(o) \in Nat
  BY <1>3, <1>6, StandsParts
<1>8. PICK x \in FrameRec : x.offset = Behind(o) /\ Over(T, Next0, fs, x, s, low)
  BY <1>7, BehindTyped
<1>9. Over(T, [Next0 EXCEPT !.exceptions = Drop(@, a)], fs, x, y, low)
  BY <1>4, <1>5, <1>8, OverCatchDrop
<1>10. Over(T, t', fs, x, y, low)
  BY <1>1, <1>3, <1>9
<1> QED
  BY <1>7, <1>8, <1>10, Arrives

LEMMA AdjustFrameTyped ==
  ASSUME NEW T, WellTyped(T), NEW fs, NEW top, NEW s, NEW low, NEW o, Stands(T, fs, top, s, low, o),
         StepAdjustFrame
  PROVE  Fine(T, t')
<1>1. op = "adjust_frame" /\ t' = [Next0 EXCEPT !.frames[Len(t.frames)].func = imm(1)]
  BY DEF StepAdjustFrame, Executes
<1>2. PICK a : a = Imm(o, 1)
  OBVIOUS
<1>3. CodeOp(o) = "adjust_frame" /\ imm(1) = a /\ DOMAIN T \subseteq Nat /\ Fits(T, o, s)
  BY <1>1, <1>2, StandsParts
<1>4. /\ a \in InModule /\ Results(a) = Results(s.func)
      /\ Tries => Len(Params(a)) = Len(Params(s.func))
  BY <1>2, <1>3 DEF Fits, Params, Results
<1>5. PICK y : y = [s EXCEPT !.func = a]
  OBVIOUS
<1>6. <<Behind(o), y>> \in Flows(o, s)
  BY <1>2, <1>3, <1>5, FlowsOf
<1>7. Behind(o) \in DOMAIN T /\ T[Behind(o)] = y /\ Behind(o) \in Nat
  BY <1>3, <1>6, StandsParts
<1>8. PICK x \in FrameRec : x.offset = Behind(o) /\ Over(T, Next0, fs, x, s, low)
  BY <1>7, BehindTyped
<1>9. Len(t.frames) = Len(Next0.frames)
  <2>1. Over(T, t, fs, top, s, low)
    BY DEF Stands
  <2>2. Len(t.frames) = Len(fs) + 1
    BY <2>1, OverTop
  <2>3. Len(Next0.frames) = Len(fs) + 1
    BY <1>8, OverTop
  <2> QED
    BY <2>2, <2>3
<1>10. PICK z : z = [x EXCEPT !.func = a]
  OBVIOUS
<1>11. z.offset = Behind(o)
  BY <1>8, <1>10 DEF FrameRec
<1>12. PICK th, n : th = Next0 /\ n = Len(th.frames)
  OBVIOUS
<1>13. Over(T, [th EXCEPT !.frames[Len(th.frames)].func = a], fs, z, y, low)
  <2>1. Over(T, th, fs, x, s, low)
    BY <1>8, <1>12
  <2> QED
    BY <1>4, <1>5, <1>10, <2>1, OverFunc
<1>14. t' = [th EXCEPT !.frames[Len(th.frames)].func = a]
  BY <1>1, <1>3, <1>9, <1>12
<1>15. Over(T, t', fs, z, y, low)
  BY <1>13, <1>14
<1> QED
  BY <1>7, <1>11, <1>15, Arrives

LEMMA AllocaTyped ==
  ASSUME HasModule, NEW T, WellTyped(T), NEW fs, NEW top, NEW s, NEW low, NEW o,
         Stands(T, fs, top, s, low, o),
         StepAlloca
  PROVE  Fine(T, t')
<1>1. op = "alloca" /\ t' = Push(Next0, Locals(r, Top(t).func))
  BY DEF StepAlloca, Executes
<1>2. CodeOp(o) = "alloca" /\ Next0 = Jump(t, Behind(o)) /\ DOMAIN T \subseteq Nat /\ s.func \in InModule
      /\ Len(s.stack) \in Nat
  BY <1>1, StandsParts
<1>3. Over(T, t, fs, top, s, low)
  BY DEF Stands
<1>4. Top(t).func = s.func
  <2>1. Top(t) = top
    BY <1>3, OverTop
  <2>2. top.func = s.func
    BY <1>3 DEF Over
  <2> QED
    BY <2>1, <2>2
<1>5. PICK types : types = Locals(r, s.func)
  OBVIOUS
<1>6. types \in Seq(ValueTypes)
  BY <1>2, <1>5, ModuleTypes
<1>7. <<Behind(o), Replaced(s, 0, types)>> \in Flows(o, s)
  BY <1>2, <1>5, FlowsOf
<1>8. Behind(o) \in DOMAIN T /\ T[Behind(o)] = Replaced(s, 0, types)
  BY <1>7, StandsParts
<1>9. 0 \in 0 .. Len(s.stack)
  BY <1>2
<1>10. Fine(T, Push(Jump(t, Behind(o)), types))
  BY <1>2, <1>3, <1>6, <1>8, <1>9, MovesTyped
<1> QED
  BY <1>1, <1>2, <1>4, <1>5, <1>10

\* Locals and operands that an instruction picks are of the innermost frame.
LEMMA PickTyped ==
  ASSUME NEW T, NEW fs, NEW top, NEW s, NEW low, Over(T, t, fs, top, s, low), NEW i \in 1 .. Len(s.stack)
  PROVE  Pick(i) = Nth(s.stack, i) /\ Nth(s.stack, i) \in ValueTypes
<1>1. t.values = low \o s.stack /\ low \in Seq(ValueTypes) /\ s \in Shapes
  BY DEF Over
<1>2. PICK v : v = s.stack
  OBVIOUS
<1>3. v \in Seq(ValueTypes) /\ i \in 1 .. Len(v)
  BY <1>1, <1>2 DEF Shapes
<1>4. Nth(low \o v, i) = Nth(v, i) /\ Nth(v, i) \in ValueTypes
  BY <1>1, <1>3, NthConcat
<1>5. Pick(i) = Nth(t.values, i)
  BY DEF Pick, Nth
<1> QED
  BY <1>1, <1>2, <1>4, <1>5

LEMMA LocalGetTyped ==
  ASSUME NEW T, WellTyped(T), NEW fs, NEW top, NEW s, NEW low, NEW o, Stands(T, fs, top, s, low, o),
         Executes("local.get", {Push(Next0, <<Pick(imm(1))>>)})
  PROVE  Fine(T, t')
<1>1. op = "local.get" /\ t' = Push(Next0, <<Pick(imm(1))>>)
  BY DEF Executes
<1>2. PICK a : a = Imm(o, 1)
  OBVIOUS
<1>3. CodeOp(o) = "local.get" /\ Next0 = Jump(t, Behind(o)) /\ DOMAIN T \subseteq Nat /\ imm(1) = a
      /\ Len(s.stack) \in Nat /\ Fits(T, o, s)
  BY <1>1, <1>2, StandsParts
<1>4. a \in 1 .. Len(s.stack)
  BY <1>2, <1>3, FitsParts
<1>5. Over(T, t, fs, top, s, low)
  BY DEF Stands
<1>6. PICK y : y = Nth(s.stack, a)
  OBVIOUS
<1>7. Pick(a) = y /\ y \in ValueTypes
  BY <1>4, <1>5, <1>6, PickTyped
<1>8. <<y>> \in Seq(ValueTypes)
  BY <1>7
<1>9. <<Behind(o), Replaced(s, 0, <<y>>)>> \in Flows(o, s)
  BY <1>2, <1>3, <1>6, FlowsOfOperands
<1>10. Behind(o) \in DOMAIN T /\ T[Behind(o)] = Replaced(s, 0, <<y>>)
  BY <1>9, StandsParts
<1>11. 0 \in 0 .. Len(s.stack)
  BY <1>3
<1>12. Fine(T, Push(Jump(t, Behind(o)), <<y>>))
  BY <1>3, <1>5, <1>8, <1>10, <1>11, MovesTyped
<1> QED
  BY <1>1, <1>3, <1>7, <1>12

\* The frame when a local has got the value on top.
PutLocal(a) == [Next0 EXCEPT !.values[Len(t.values) + 1 - a] = Pick(1)]
WithStack(s, v) == [s EXCEPT !.stack = v]

\* A value put at a local's position.
LEMMA LocalPut ==
  ASSUME NEW T, WellTyped(T), NEW fs, NEW top, NEW s, NEW low, NEW o, Stands(T, fs, top, s, low, o),
         Behind(o) \in Nat, NEW a \in 1 .. Len(s.stack), NEW v, v = PutAt(s.stack, a, Nth(s.stack, 1))
  PROVE  /\ v \in Seq(ValueTypes) /\ Len(v) = Len(s.stack)
         /\ \E x \in FrameRec : x.offset = Behind(o) /\ Over(T, PutLocal(a), fs, x, WithStack(s, v), low)
<1>1. Over(T, t, fs, top, s, low)
  BY DEF Stands
<1>2. t.values = low \o s.stack /\ low \in Seq(ValueTypes)
  BY <1>1 DEF Over
<1>3. s.stack \in Seq(ValueTypes) /\ Len(s.stack) \in Nat
  BY StandsParts
<1>4. 1 \in 1 .. Len(s.stack)
  BY <1>3
<1>5. PICK y : y = Pick(1)
  OBVIOUS
<1>6. y = Nth(s.stack, 1) /\ y \in ValueTypes
  BY <1>1, <1>4, <1>5, PickTyped
<1>7. PICK w : w = s.stack
  OBVIOUS
<1>8. v = PutAt(w, a, y) /\ w \in Seq(ValueTypes) /\ a \in 1 .. Len(w)
  BY <1>3, <1>6, <1>7
<1>9. v \in Seq(ValueTypes) /\ Len(v) = Len(w)
  BY <1>6, <1>8, PutAtParts
<1>10. PutAt(low \o w, a, y) = low \o v
  <2>1. low \in Seq(ValueTypes) /\ w \in Seq(ValueTypes) /\ a \in 1 .. Len(w) /\ y \in ValueTypes
    BY <1>2, <1>6, <1>8
  <2>2. PutAt(low \o w, a, y) = low \o PutAt(w, a, y)
    BY <2>1, PutAtConcat
  <2> QED
    BY <1>8, <2>2
<1>11. PICK x \in FrameRec : x.offset = Behind(o) /\ Over(T, Next0, fs, x, s, low)
  BY BehindTyped
<1>12. PICK th, z, n : th = Next0 /\ z = low \o w /\ n = Len(z) + 1 - a
  OBVIOUS
<1>13. Over(T, th, fs, x, s, low)
  BY <1>11, <1>12
<1>14. th.values = z
  BY <1>7, <1>12, <1>13 DEF Over
<1>15. [th EXCEPT !.values[n] = y] = [th EXCEPT !.values = [z EXCEPT ![n] = y]]
  <2>1. [th EXCEPT !.values[n] = y] = [th EXCEPT !.values = [th.values EXCEPT ![n] = y]]
    BY Zenon
  <2> QED
    BY <1>14, <2>1
<1>16. [z EXCEPT ![n] = y] = low \o v
  BY <1>10, <1>12 DEF PutAt
<1>17. PICK u : u = [th EXCEPT !.values = low \o v]
  OBVIOUS
<1>18. Over(T, u, fs, x, [s EXCEPT !.stack = v], low)
  BY <1>9, <1>13, <1>17, OverValues
<1>19. PutLocal(a) = u
  <2>1. Len(t.values) + 1 - a = n
    BY <1>2, <1>7, <1>12
  <2> QED
    BY <1>5, <1>12, <1>15, <1>16, <1>17, <2>1 DEF PutLocal
<1>20. WithStack(s, v) = [s EXCEPT !.stack = v]
  BY DEF WithStack
<1> QED
  BY <1>7, <1>9, <1>11, <1>18, <1>19, <1>20

\* Locals.
LEMMA LocalSetTyped ==
  ASSUME NEW T, WellTyped(T), NEW fs, NEW top, NEW s, NEW low, NEW o, Stands(T, fs, top, s, low, o),
         \/ Executes("local.set", {Pop([Next0 EXCEPT !.values[Len(t.values) + 1 - imm(1)] = Pick(1)], 1)})
         \/ Executes("local.tee", {[Next0 EXCEPT !.values[Len(t.values) + 1 - imm(1)] = Pick(1)]})
  PROVE  Fine(T, t')
<1>1. op \in {"local.set", "local.tee"}
  BY DEF Executes
<1>2. PICK a, c, v : a = Imm(o, 1) /\ c = CodeOp(o) /\ v = PutAt(s.stack, a, Nth(s.stack, 1))
  OBVIOUS
<1>3. c = op /\ imm(1) = a /\ Fits(T, o, s) /\ o \in Nat /\ Len(s.stack) \in Nat /\ s.stack \in Seq(ValueTypes)
      /\ s \in Shapes
  BY <1>2, StandsParts
<1>4. a \in 1 .. Len(s.stack)
  BY <1>1, <1>2, <1>3 DEF Fits
<1>5. Behind(o) \in Nat
  BY <1>1, <1>2, <1>3 DEF Behind, Immediates, Imm0, Imm1
<1>6. PICK w : w = PutLocal(a)
  OBVIOUS
<1>7. /\ v \in Seq(ValueTypes) /\ Len(v) = Len(s.stack)
      /\ \E x \in FrameRec : x.offset = Behind(o) /\ Over(T, w, fs, x, WithStack(s, v), low)
  <2>1. v = PutAt(s.stack, a, Nth(s.stack, 1))
    BY <1>2
  <2> QED
    BY <1>4, <1>5, <1>6, <2>1, LocalPut
<1>8. PICK x \in FrameRec : x.offset = Behind(o) /\ Over(T, w, fs, x, WithStack(s, v), low)
  BY <1>7
<1>9. PICK q : q = WithStack(s, v)
  OBVIOUS
<1>10. Over(T, w, fs, x, q, low)
  BY <1>8, <1>9
<1>11. q.stack = v /\ q \in Shapes
  BY <1>3, <1>7, <1>9 DEF Shapes, WithStack
<1>12. CASE op = "local.set"
  <2>1. t' = Pop(w, 1)
    BY <1>3, <1>6, <1>12 DEF Executes, PutLocal
  <2>2. 1 \in 0 .. Len(q.stack) /\ <<>> \in Seq(ValueTypes)
    BY <1>3, <1>4, <1>7, <1>11
  <2>3. Over(T, Pop(w, 1), fs, x, Replaced(q, 1, <<>>), low)
    BY <1>10, <2>2, OverReplace
  <2>4. PICK y : y = Drop(v, 1)
    OBVIOUS
  <2>5. Replaced(q, 1, <<>>) = [s EXCEPT !.stack = y]
    <3>1. y \in Seq(ValueTypes)
      BY <1>11, <2>2, <2>4, <1>7, DropParts
    <3>2. y \o <<>> = y
      BY <3>1, ConcatEmptySeq
    <3>3. Replaced(q, 1, <<>>) = [q EXCEPT !.stack = y]
      BY <1>11, <2>4, <3>2 DEF Replaced
    <3>4. [q EXCEPT !.stack = y] = [s EXCEPT !.stack = y]
      BY <1>3, <1>9 DEF Shapes, WithStack
    <3> QED
      BY <3>3, <3>4
  <2>6. <<Behind(o), [s EXCEPT !.stack = y]>> \in Flows(o, s)
    <3>1. y = Drop([s.stack EXCEPT ![Len(s.stack) + 1 - a] = Nth(s.stack, 1)], 1)
      BY <1>2, <2>4 DEF PutAt
    <3>2. c = "local.set" =>
            <<Behind(o), [s EXCEPT !.stack = Drop([s.stack EXCEPT ![Len(s.stack) + 1 - a] = Nth(s.stack, 1)], 1)]>>
              \in Flows(o, s)
      BY <1>2, FlowsOfOperands
    <3> QED
      BY <1>3, <1>12, <3>1, <3>2
  <2>7. Behind(o) \in DOMAIN T /\ T[Behind(o)] = [s EXCEPT !.stack = y]
    BY <2>6, StandsParts
  <2>8. PICK y2, w2 : y2 = Replaced(q, 1, <<>>) /\ w2 = Pop(w, 1)
    OBVIOUS
  <2>9. Over(T, w2, fs, x, y2, low)
    BY <2>3, <2>8, Zenon
  <2>10. x.offset \in DOMAIN T /\ T[x.offset] = y2
    BY <1>8, <2>5, <2>7, <2>8, Zenon
  <2>11. Fine(T, w2)
    BY <2>9, <2>10, Arrives, Zenon
  <2> QED
    BY <2>1, <2>8, <2>11
<1>13. CASE op = "local.tee"
  <2>1. t' = w
    BY <1>3, <1>6, <1>13 DEF Executes, PutLocal
  <2>2. <<Behind(o), q>> \in Flows(o, s)
    <3>1. v = [s.stack EXCEPT ![Len(s.stack) + 1 - a] = Nth(s.stack, 1)]
      BY <1>2 DEF PutAt
    <3>2. c = "local.tee" =>
            <<Behind(o), [s EXCEPT !.stack = [s.stack EXCEPT ![Len(s.stack) + 1 - a] = Nth(s.stack, 1)]]>>
              \in Flows(o, s)
      BY <1>2, FlowsOfOperands
    <3> QED
      BY <1>3, <1>9, <1>13, <3>1, <3>2 DEF WithStack
  <2>3. Behind(o) \in DOMAIN T /\ T[Behind(o)] = q
    BY <2>2, StandsParts
  <2>4. Fine(T, w)
    BY <1>8, <1>10, <2>3, Arrives
  <2> QED
    BY <2>1, <2>4
<1> QED
  BY <1>1, <1>12, <1>13

LEMMA LocalTyped ==
  ASSUME NEW T, WellTyped(T), NEW fs, NEW top, NEW s, NEW low, NEW o, Stands(T, fs, top, s, low, o),
         StepLocal
  PROVE  Fine(T, t')
BY LocalGetTyped, LocalSetTyped DEF StepLocal

\* drop, select and unreachable.
LEMMA DropSelectTyped ==
  ASSUME NEW T, WellTyped(T), NEW fs, NEW top, NEW s, NEW low, NEW o, Stands(T, fs, top, s, low, o),
         StepOperand
  PROVE  Fine(T, t')
<1>1. Over(T, t, fs, top, s, low)
  BY DEF Stands
<1>2. PICK c, n : c = CodeOp(o) /\ n = Len(s.stack)
  OBVIOUS
<1>3. c = op /\ Next0 = Jump(t, Behind(o)) /\ DOMAIN T \subseteq Nat /\ Fits(T, o, s) /\ o \in Nat /\ n \in Nat
  BY <1>2, StandsParts
<1>4. CASE Executes("drop", {Pop(Next0, 1)})
  <2>1. c = "drop" /\ t' = Pop(Next0, 1)
    BY <1>3, <1>4 DEF Executes
  <2>2. 1 \in 0 .. Len(s.stack) /\ <<>> \in Seq(ValueTypes)
    <3>1. n >= 1
      BY <1>2, <1>3, <2>1, Zenon DEF Fits, Pops1
    <3> QED
      BY <1>2, <1>3, <3>1
  <2>3. <<Behind(o), Replaced(s, 1, <<>>)>> \in Flows(o, s)
    BY <1>2, <2>1, FlowsOfOperands
  <2>4. Behind(o) \in DOMAIN T /\ T[Behind(o)] = Replaced(s, 1, <<>>)
    BY <2>3, StandsParts
  <2>5. Fine(T, Pop(Jump(t, Behind(o)), 1))
    BY <1>1, <1>3, <2>2, <2>4, MovesTyped
  <2> QED
    BY <1>3, <2>1, <2>5
<1>5. CASE Executes("select", {Push(Pop(Next0, 3), <<Pick(2)>>), Push(Pop(Next0, 3), <<Pick(3)>>)})
  <2>1. c = "select" /\ \E i \in {2, 3} : t' = Push(Pop(Next0, 3), <<Pick(i)>>)
    BY <1>3, <1>5 DEF Executes
  <2>2. PICK i \in {2, 3} : t' = Push(Pop(Next0, 3), <<Pick(i)>>)
    BY <2>1
  <2>3. n >= 3
    BY <1>2, <1>3, <2>1, Zenon DEF Fits
  <2>4. 3 \in 0 .. Len(s.stack) /\ i \in 1 .. Len(s.stack)
    BY <1>2, <1>3, <2>3
  <2>5. PICK y : y = Nth(s.stack, i)
    OBVIOUS
  <2>6. Pick(i) = y /\ y \in ValueTypes
    BY <1>1, <2>4, <2>5, PickTyped
  <2>7. <<y>> \in Seq(ValueTypes)
    BY <2>6
  <2>8. <<Behind(o), Replaced(s, 3, <<y>>)>> \in Flows(o, s)
    BY <1>2, <2>1, <2>5, FlowsOfOperands
  <2>9. Behind(o) \in DOMAIN T /\ T[Behind(o)] = Replaced(s, 3, <<y>>)
    BY <2>8, StandsParts
  <2>10. Fine(T, Push(Pop(Jump(t, Behind(o)), 3), <<y>>))
    BY <1>1, <1>3, <2>4, <2>7, <2>9, MovesTyped
  <2> QED
    BY <1>3, <2>2, <2>6, <2>10
<1>6. CASE Executes("unreachable", {Result(Next0, "trap")})
  <2>1. c = "unreachable" /\ t' = Result(Next0, "trap")
    BY <1>3, <1>6 DEF Executes
  <2>2. Behind(o) \in Nat
    BY <1>2, <1>3, <2>1 DEF Behind, Immediates, Imm0
  <2>3. PICK x \in FrameRec : Over(T, Next0, fs, x, s, low)
    BY <2>2, BehindTyped
  <2> QED
    BY <2>1, <2>3, TrapFine
<1> QED
  BY <1>4, <1>5, <1>6 DEF StepOperand

\* Instructions that only compute, or trap.
LEMMA PlainStepTyped ==
  ASSUME NEW T, WellTyped(T), NEW fs, NEW top, NEW s, NEW low, NEW o, Stands(T, fs, top, s, low, o),
         StepNumeric \/ StepMemory \/ StepBulk \/ StepSimd \/ StepSimdMemory \/ StepAtomic
  PROVE  Fine(T, t')
<1>1. op \in PlainKinds /\ t' \in Apply(Next0, PlainOp(op))
  BY DEF StepNumeric, StepMemory, StepBulk, StepSimd, StepSimdMemory, StepAtomic, Applies, PlainKinds
<1>2. Over(T, t, fs, top, s, low)
  BY DEF Stands
<1>3. PICK c, p : c = CodeOp(o) /\ p = PlainOp(c)
  OBVIOUS
<1>4. c = op /\ Next0 = Jump(t, Behind(o)) /\ DOMAIN T \subseteq Nat /\ Fits(T, o, s) /\ Len(s.stack) \in Nat
  BY <1>3, StandsParts
<1>5. PICK n, types : n = Len(p.params) /\ types = p.results
  OBVIOUS
<1>6. n \in 0 .. Len(s.stack) /\ types \in Seq(ValueTypes)
  <2>1. p.params \in Seq(ValueTypes) /\ types \in Seq(ValueTypes)
    BY <1>1, <1>3, <1>4, <1>5, PlainTyped
  <2>2. n \in Nat
    BY <1>5, <2>1, LenProperties
  <2>3. n <= Len(s.stack)
    BY <1>1, <1>3, <1>4, <1>5, FitsParts
  <2> QED
    BY <1>4, <2>1, <2>2, <2>3
<1>7. t' = Push(Pop(Next0, n), types) \/ t' = Result(Pop(Next0, n), "trap")
  BY <1>1, <1>3, <1>4, <1>5 DEF Apply
<1>8. <<Behind(o), Replaced(s, n, types)>> \in Flows(o, s)
  BY <1>1, <1>3, <1>4, <1>5, FlowsOfOperands
<1>9. Behind(o) \in DOMAIN T /\ T[Behind(o)] = Replaced(s, n, types) /\ Behind(o) \in Nat
  BY <1>4, <1>8, StandsParts
<1>10. Fine(T, Push(Pop(Jump(t, Behind(o)), n), types))
  BY <1>2, <1>4, <1>6, <1>9, MovesTyped
<1>11. Fine(T, Result(Pop(Next0, n), "trap"))
  <2>1. PICK x \in FrameRec : Over(T, Next0, fs, x, s, low)
    BY <1>9, BehindTyped
  <2>2. Over(T, Pop(Next0, n), fs, x, Replaced(s, n, <<>>), low)
    BY <1>6, <2>1, OverReplace
  <2> QED
    BY <2>2, TrapFine
<1> QED
  BY <1>4, <1>7, <1>10, <1>11

\* Instructions that raise an exception.
LEMMA ThrowTyped ==
  ASSUME HasModule, NEW T, WellTyped(T), NEW fs, NEW top, NEW s, NEW low, NEW o,
         Stands(T, fs, top, s, low, o),
         StepThrow
  PROVE  Fine(T, t')
<1>1. op = "throw" /\ t' = DoThrow(Pop(Next0, Len(M.tags[imm(1) + 1])), [inst |-> t.inst, tag |-> imm(1)])
  BY DEF StepThrow, Executes
<1>2. PICK c, a, n : c = CodeOp(o) /\ a = Imm(o, 1) /\ n = Len(M.tags[a + 1])
  OBVIOUS
<1>3. c = "throw" /\ imm(1) = a /\ DOMAIN T \subseteq Nat /\ Fits(T, o, s) /\ o \in Nat /\ Len(s.stack) \in Nat
      /\ t \in ThreadRec
  BY <1>1, <1>2, StandsParts
<1>4. a \in Indices(M.tags) /\ n <= Len(s.stack) /\ Lands(T, Rest(o, s), Behind(o))
  BY <1>2, <1>3, FitsParts
<1>5. n \in 0 .. Len(s.stack)
  <2>1. M.tags[a + 1] \in Seq(ValueTypes)
    BY <1>4, ModuleTypes
  <2>2. n \in Nat
    BY <1>2, <2>1, LenProperties
  <2> QED
    BY <1>3, <1>4, <2>2
<1>6. PICK y, exn : y = Replaced(s, n, <<>>) /\ exn = [inst |-> t.inst, tag |-> a]
  OBVIOUS
<1>7. Rest(o, s) = y
  BY <1>2, <1>3, <1>6 DEF Rest
<1>8. exn \in Exn
  BY <1>3, <1>4, <1>6 DEF Exn, ThreadRec
<1>9. Behind(o) \in Nat
  BY <1>2, <1>3 DEF Behind, Immediates, Imm0, Imm1
<1>10. PICK x \in FrameRec : x.offset = Behind(o) /\ Over(T, Next0, fs, x, s, low)
  BY <1>9, BehindTyped
<1>11. Over(T, Pop(Next0, n), fs, x, y, low)
  BY <1>5, <1>6, <1>10, EmptySeq, OverReplace
<1>12. Lands(T, y, x.offset)
  BY <1>4, <1>7, <1>10
<1>13. Fine(T, DoThrow(Pop(Next0, n), exn))
  BY <1>3, <1>8, <1>11, <1>12, DoThrowTyped
<1> QED
  BY <1>1, <1>2, <1>3, <1>6, <1>13

LEMMA RethrowTyped ==
  ASSUME HasModule, NEW T, WellTyped(T), NEW fs, NEW top, NEW s, NEW low, NEW o,
         Stands(T, fs, top, s, low, o),
         StepRethrow
  PROVE  Fine(T, t')
<1>1. op = "rethrow" /\ t' = DoThrow(Next0, t.exceptions[Len(t.exceptions) - imm(1)])
  BY DEF StepRethrow, Executes
<1>2. PICK c, a : c = CodeOp(o) /\ a = Imm(o, 1)
  OBVIOUS
<1>3. c = "rethrow" /\ imm(1) = a /\ DOMAIN T \subseteq Nat /\ Fits(T, o, s) /\ o \in Nat
      /\ t \in ThreadRec /\ s.stack \in Seq(ValueTypes) /\ s.exceptions \in Nat /\ s \in Shapes
  BY <1>1, <1>2, StandsParts
<1>4. a \in 0 .. s.exceptions - 1 /\ Lands(T, Rest(o, s), Behind(o))
  BY <1>2, <1>3 DEF Fits
<1>5. Rest(o, s) = s
  <2>1. Rest(o, s) = Replaced(s, 0, <<>>)
    BY <1>2, <1>3 DEF Rest
  <2>2. PICK v : v = s.stack
    OBVIOUS
  <2>3. Drop(v, 0) \o <<>> = v
    <3>1. v \in Seq(ValueTypes)
      BY <1>3, <2>2
    <3>2. Drop(v, 0) = v
      BY <3>1, DropAll
    <3> QED
      BY <3>1, <3>2, ConcatEmptySeq
  <2>4. Replaced(s, 0, <<>>) = [s EXCEPT !.stack = v]
    BY <2>2, <2>3 DEF Replaced
  <2>5. [s EXCEPT !.stack = v] = s
    BY <1>3, <2>2 DEF Shapes
  <2> QED
    BY <2>1, <2>4, <2>5
<1>6. PICK exn : exn = t.exceptions[Len(t.exceptions) - a]
  OBVIOUS
<1>7. exn \in Exn
  <2>1. Over(T, t, fs, top, s, low)
    BY DEF Stands
  <2>2. Len(t.exceptions) = top.exceptions + s.exceptions /\ top.exceptions \in Nat
    BY <2>1 DEF Over, FrameRec
  <2>3. Len(t.exceptions) - a \in 1 .. Len(t.exceptions)
    BY <1>3, <1>4, <2>2
  <2>4. t.exceptions \in Seq(Exn)
    BY <1>3 DEF ThreadRec
  <2> QED
    BY <1>6, <2>3, <2>4, ElementOfSeq
<1>8. Behind(o) \in Nat
  BY <1>2, <1>3 DEF Behind, Immediates, Imm0, Imm1
<1>9. PICK x \in FrameRec : x.offset = Behind(o) /\ Over(T, Next0, fs, x, s, low)
  BY <1>8, BehindTyped
<1>10. Lands(T, s, x.offset)
  BY <1>4, <1>5, <1>9
<1>11. Fine(T, DoThrow(Next0, exn))
  BY <1>3, <1>7, <1>9, <1>10, DoThrowTyped
<1> QED
  BY <1>1, <1>3, <1>6, <1>11

\* A callee has the type of the call: it is a function of the module, or the host's.
Callee(e, f) ==
  e # HostFunc => /\ e.inst \in Nat /\ e.func \in InModule
                  /\ Params(e.func) = Params(f) /\ Results(e.func) = Results(f)

\* Imports have the type of what they are linked to.
LEMMA ResolveTyped ==
  ASSUME HasModule, NEW i \in Nat, NEW g \in Indices(M.funcs), NEW f, FuncType(r, g) = FuncType(r, f)
  PROVE  Callee(Resolve(i, g), f)
<1>1. CASE g >= M.imports
  <2>1. Resolve(i, g) = [inst |-> i, func |-> g]
    BY <1>1 DEF Resolve
  <2>2. g \in InModule
    BY <1>1, ModuleTypes DEF InModule, Indices
  <2> QED
    BY <2>1, <2>2 DEF Callee, Params, Results
<1>2. CASE ~(g >= M.imports) /\ i = 2
  <2>1. Resolve(i, g) = [inst |-> 1, func |-> M.imports]
    BY <1>2 DEF Resolve
  <2>2. g \in 0 .. M.imports - 1
    BY <1>2, ModuleTypes DEF Indices
  <2>3. M.imports \in InModule /\ FuncType(r, M.imports) = FuncType(r, f)
    BY <2>2, ModuleTypes
  <2> QED
    BY <2>1, <2>3 DEF Callee, Params, Results
<1>3. CASE ~(g >= M.imports) /\ i # 2
  BY <1>3 DEF Resolve, Callee
<1> QED
  BY <1>1, <1>2, <1>3

\* The arguments of a call are on the stack.
LEMMA HeldLength ==
  ASSUME NEW S, NEW v \in Seq(S), NEW p \in Seq(S), NEW k \in {0, 1}, k <= Len(v),
         Drop(v, Len(p) + k) \o p = Drop(v, k)
  PROVE  Len(p) + k \in 0 .. Len(v)
<1>1. Len(v) \in Nat /\ Len(p) \in Nat
  BY LenProperties
<1>2. SUFFICES ASSUME Len(p) + k > Len(v) PROVE FALSE
  BY <1>1
<1>3. Drop(v, Len(p) + k) = <<>>
  <2>1. Len(v) - (Len(p) + k) \in Int /\ Len(v) - (Len(p) + k) < 1
    BY <1>1, <1>2
  <2> QED
    BY <2>1, SubSeqEmpty DEF Drop
<1>4. p = Drop(v, k)
  BY <1>3, ConcatEmptySeq
<1>5. Len(Drop(v, k)) = Len(v) - k
  BY <1>1, DropParts
<1> QED
  BY <1>1, <1>2, <1>4, <1>5

\* A thread about to call f: its innermost frame waits behind the call, with
\* the arguments on top of what it keeps.
Ready(T, th, fs, x, q, low, held, f) ==
  /\ Over(T, th, fs, x, q, low)
  /\ f \in Indices(M.funcs)
  /\ held \in Seq(ValueTypes) /\ q.stack = held \o Params(f)
  /\ Waits(T, x, Len(low), held, Len(th.exceptions), Results(f))

\* A call: of a function of the module, or of the host.
LEMMA DoCallTyped ==
  ASSUME HasModule, NEW T, WellTyped(T), NEW th, NEW fs, NEW x, NEW q, NEW low, NEW held, NEW f,
         Ready(T, th, fs, x, q, low, held, f),
         NEW callee, Callee(callee, f), NEW u \in DoCall(th, callee, FuncType(r, f))
  PROVE  Fine(T, u)
<1>1. Over(T, th, fs, x, q, low) /\ f \in Indices(M.funcs) /\ held \in Seq(ValueTypes)
      /\ q.stack = held \o Params(f) /\ Waits(T, x, Len(low), held, Len(th.exceptions), Results(f))
  BY DEF Ready
<1>2. CASE callee # HostFunc
  <2>1. u = PushCall(th, callee.inst, callee.func)
    BY <1>2 DEF DoCall
  <2>2. PICK g, i : g = callee.func /\ i = callee.inst
    OBVIOUS
  <2>3. g \in InModule /\ i \in Nat /\ Params(g) = Params(f) /\ Results(g) = Results(f)
    BY <1>2, <2>2 DEF Callee
  <2>4. q.stack = held \o Params(g) /\ Waits(T, x, Len(low), held, Len(th.exceptions), Results(g))
    BY <1>1, <2>3
  <2>5. Fine(T, PushCall(th, i, g))
    BY <1>1, <2>3, <2>4, PushCallTyped
  <2> QED
    BY <2>1, <2>2, <2>5
<1>3. CASE callee = HostFunc
  <2>1. PICK n, types : n = Len(Params(f)) /\ types = Results(f)
    OBVIOUS
  <2>2. u = Result(Pop(th, n), "trap") \/ u = Push(Pop(th, n), types)
    BY <1>3, <2>1 DEF DoCall, Params, Results
  <2>3. PICK p : p = Params(f)
    OBVIOUS
  <2>4. p \in Seq(ValueTypes) /\ types \in Seq(ValueTypes)
    BY <1>1, <2>1, <2>3, ModuleTypes
  <2>5. n \in 0 .. Len(p) /\ n = Len(p)
    BY <2>1, <2>3, <2>4, LenProperties
  <2>6. PICK v : v = q.stack
    OBVIOUS
  <2>7. v = held \o p
    BY <1>1, <2>3, <2>6
  <2>8. Len(v) = Len(held) + Len(p) /\ Len(held) \in Nat
    BY <1>1, <2>4, <2>7, ConcatProperties, LenProperties
  <2>9. n \in 0 .. Len(q.stack)
    BY <2>5, <2>6, <2>8
  <2>10. Drop(v, n) = held
    <3>1. Drop(held \o p, n) = held \o Drop(p, n)
      BY <1>1, <2>4, <2>5, DropConcat
    <3>2. Drop(p, n) = <<>>
      BY <2>4, <2>5, DropAll
    <3> QED
      BY <1>1, <2>7, <3>1, <3>2, ConcatEmptySeq
  <2>11. Over(T, Push(Pop(th, n), types), fs, x, Replaced(q, n, types), low)
         /\ Over(T, Pop(th, n), fs, x, Replaced(q, n, <<>>), low)
    BY <1>1, <2>4, <2>9, OverReplace
  <2>12. CASE u = Result(Pop(th, n), "trap")
    BY <2>11, <2>12, TrapFine
  <2>13. CASE u = Push(Pop(th, n), types)
    <3>1. q \in Shapes /\ x.func = q.func /\ Len(th.exceptions) = x.exceptions + q.exceptions
          /\ x.exceptions \in Nat
      BY <1>1 DEF Over, FrameRec
    <3>2. PICK y : y = Replaced(q, n, types)
      OBVIOUS
    <3>3. y \in Shapes /\ y.func = q.func /\ y.stack = held \o types /\ y.exceptions = q.exceptions
      BY <2>4, <2>6, <2>9, <2>10, <3>1, <3>2, ReplacedParts
    <3>4. PICK o, z : o = x.offset /\ z = T[o]
      OBVIOUS
    <3>5. o \in DOMAIN T /\ z \in Shapes /\ z.func = x.func /\ z.stack = held \o types
          /\ x.exceptions + z.exceptions = Len(th.exceptions)
      BY <1>1, <2>1, <3>4 DEF Waits
    <3>6. y.exceptions \in Nat /\ z.exceptions \in Nat
      BY <3>3, <3>5 DEF Shapes
    <3>7. y.exceptions = z.exceptions
      BY <3>1, <3>3, <3>5, <3>6
    <3>8. y = z
      <4>1. y.func = z.func /\ y.stack = z.stack /\ y.exceptions = z.exceptions
        BY <3>1, <3>3, <3>5, <3>7
      <4>2. y = Shape(y.func, y.stack, y.exceptions)
        BY <3>3 DEF Shapes, Shape
      <4>3. z = Shape(z.func, z.stack, z.exceptions)
        BY <3>5 DEF Shapes, Shape
      <4> QED
        BY <4>1, <4>2, <4>3
    <3>9. x.offset \in DOMAIN T /\ T[x.offset] = y
      BY <3>4, <3>5, <3>8
    <3>10. Over(T, u, fs, x, y, low)
      BY <2>11, <2>13, <3>2
    <3> QED
      BY <3>9, <3>10, Arrives
  <2> QED
    BY <2>2, <2>12, <2>13
<1> QED
  BY <1>2, <1>3

\* What an instruction that calls pops besides the arguments.
Extra(c) == IF c = "call_indirect" THEN 1 ELSE 0

\* What waits at b can be read off there: the operands, or nothing.
Resumes(b, types, held, ex) ==
  IF b \in DOMAIN at THEN Len(types) <= Len(at[b].stack) ELSE held = <<>> /\ ex = 0

\* The call at o is of f: it pops m types and pushes these, and b is behind it.
CallAt(o, f, k, m, b, types) ==
  /\ CodeOp(o) \in CallOps /\ f = Called(o) /\ k = Extra(CodeOp(o))
  /\ m = Len(Params(f)) + k /\ b = Behind(o) /\ types = Results(f)
Held(T, s, o, f, k, m, b, types, held) ==
  /\ f \in Indices(M.funcs) /\ k \in 0 .. Len(s.stack) /\ m \in 0 .. Len(s.stack)
  /\ Rest(o, s) = Replaced(s, m, <<>>)
  /\ held = Drop(s.stack, m) /\ held \in Seq(ValueTypes) /\ held \o Params(f) = Drop(s.stack, k)
  /\ <<b, Replaced(s, m, types)>> \in Flows(o, s)
  /\ Lands(T, Rest(o, s), b)
  /\ Resumes(b, types, held, s.exceptions)

\* What is below the arguments of a call.
LEMMA CallHeld ==
  ASSUME HasModule, NEW T, WellTyped(T), NEW fs, NEW top, NEW s, NEW low, NEW o,
         Stands(T, fs, top, s, low, o),
         NEW f, NEW k, NEW m, NEW b, NEW types, CallAt(o, f, k, m, b, types)
  PROVE  \E held : Held(T, s, o, f, k, m, b, types, held)
<1>0. /\ CodeOp(o) \in CallOps /\ f = Called(o) /\ k = Extra(CodeOp(o))
      /\ m = Len(Params(f)) + k /\ b = Behind(o) /\ types = Results(f)
  BY DEF CallAt
<1>1. PICK c, a : c = CodeOp(o) /\ a = Imm(o, 1)
  OBVIOUS
<1>2. c \in {"call", "call_import", "call_indirect"}
  BY <1>0, <1>1 DEF CallOps
<1>3. Fits(T, o, s) /\ s \in Shapes /\ s.stack \in Seq(ValueTypes) /\ Len(s.stack) \in Nat
  BY StandsParts
<1>4. f \in Indices(M.funcs)
  <2>1. CASE c = "call"
    <3>1. f = a /\ a \in InModule
      BY <1>0, <1>1, <1>3, <2>1, FitsParts DEF Called
    <3> QED
      BY <3>1, ModuleTypes
  <2>2. CASE c = "call_import"
    <3>1. f = a /\ a \in 0 .. M.imports - 1
      BY <1>0, <1>1, <1>3, <2>2, FitsParts DEF Called
    <3>2. M.imports \in 0 .. Len(M.funcs) - 1 /\ Len(M.funcs) \in Int
      BY ModulesAssumption, LenProperties DEF HasModule, M
    <3> QED
      BY <3>1, <3>2 DEF Indices
  <2>3. CASE c = "call_indirect"
    <3>1. f = Imm(o, 2)
      BY <1>0, <1>1, <2>3 DEF Called
    <3> QED
      BY <1>0, <1>1, <1>3, <2>3, <3>1, FitsParts
  <2> QED
    BY <1>2, <2>1, <2>2, <2>3
<1>5. PICK p, v : p = Params(f) /\ v = s.stack
  OBVIOUS
<1>6. p \in Seq(ValueTypes) /\ types \in Seq(ValueTypes) /\ v \in Seq(ValueTypes) /\ Len(v) \in Nat
      /\ m = Len(p) + k /\ Len(p) \in Nat
  BY <1>0, <1>3, <1>4, <1>5, ModuleTypes, LenProperties
<1>7. k \in {0, 1} /\ k <= Len(v)
  <2>1. c = "call_indirect" => Len(s.stack) >= 1
    BY <1>0, <1>1, <1>3, FitsParts DEF Pops1
  <2> QED
    BY <1>0, <1>1, <1>3, <1>5, <2>1 DEF Extra
<1>8. PICK y : y = Rest(o, s)
  OBVIOUS
<1>9. y = Replaced(s, m, <<>>)
  <2>1. CASE c \in {"call", "call_import"}
    <3>1. k = 0
      BY <1>0, <1>1, <2>1 DEF Extra
    <3>2. p = FuncType(r, Called(o)).params
      BY <1>0, <1>5 DEF Params
    <3>3. m = Len(FuncType(r, Called(o)).params)
      BY <1>6, <3>1, <3>2
    <3> QED
      BY <1>0, <1>1, <1>8, <2>1, <3>3 DEF Rest
  <2>2. CASE c = "call_indirect"
    <3>1. k = 1
      BY <1>0, <1>1, <2>2 DEF Extra
    <3>2. p = FuncType(r, Called(o)).params
      BY <1>0, <1>5 DEF Params
    <3>3. m = Len(FuncType(r, Called(o)).params) + 1
      BY <1>6, <3>1, <3>2
    <3> QED
      BY <1>0, <1>1, <1>8, <2>2, <3>3 DEF Rest
  <2> QED
    BY <1>2, <2>1, <2>2
<1>10. PICK held : held = y.stack
  OBVIOUS
<1>11. held = Drop(v, m) \o <<>>
  BY <1>3, <1>5, <1>9, <1>10 DEF Replaced, Shapes
<1>12. held = Drop(v, m) /\ held \in Seq(ValueTypes)
  <2>1. Drop(v, m) \in Seq(ValueTypes)
    <3>1. \A i \in 1 .. Len(v) - m : v[i] \in ValueTypes
      BY <1>6, <1>7, ElementOfSeq
    <3> QED
      BY <1>6, <1>7, <3>1, SubSeqProperties DEF Drop
  <2> QED
    BY <1>11, <2>1, ConcatEmptySeq
<1>13. /\ c \in {"call", "call_import"} => held \o p = v
       /\ c = "call_indirect" => held \o p = Drop(v, 1)
       /\ Resumes(b, types, held, s.exceptions)
  <2>1. held = Rest(o, s).stack /\ c = CodeOp(o)
    BY <1>0, <1>1, <1>8, <1>10
  <2>2. CodeOp(o) \in {"call", "call_import"} => held \o Params(f) = s.stack
    BY <1>0, <1>3, <2>1 DEF Fits, Params
  <2>3. CodeOp(o) = "call_indirect" => held \o Params(f) = Drop(s.stack, 1)
    BY <1>0, <1>3, <2>1 DEF Fits, Params
  <2>4. Resumes(Behind(o), Results(f), held, s.exceptions)
    BY <1>0, <1>3, <2>1 DEF Fits, Results, Resumes
  <2> QED
    BY <1>0, <1>5, <2>1, <2>2, <2>3, <2>4
<1>14. held \o p = Drop(v, k)
  <2>1. Drop(v, 0) = v
    BY <1>6, DropAll
  <2> QED
    BY <1>0, <1>1, <1>2, <1>13, <2>1 DEF Extra
<1>15. m \in 0 .. Len(v)
  BY <1>6, <1>7, <1>12, <1>14, HeldLength
<1>16. <<b, Replaced(s, m, types)>> \in Flows(o, s)
  <2>1. CASE c \in {"call", "call_import"}
    <3>1. f = a /\ k = 0
      BY <1>0, <1>1, <2>1 DEF Called, Extra
    <3>2. <<Behind(o), Replaced(s, Len(Params(a)), Results(a))>> \in Flows(o, s)
      BY <1>0, <1>1, <2>1, FlowsOf
    <3>3. m = Len(Params(a)) /\ types = Results(a)
      BY <1>0, <1>5, <1>6, <3>1
    <3> QED
      BY <1>0, <3>2, <3>3
  <2>2. CASE c = "call_indirect"
    <3>1. f = Imm(o, 2) /\ k = 1
      BY <1>0, <1>1, <2>2 DEF Called, Extra
    <3>2. <<Behind(o), Replaced(s, Len(Params(Imm(o, 2))) + 1, Results(Imm(o, 2)))>> \in Flows(o, s)
      BY <1>0, <1>1, <2>2, FlowsOf
    <3> QED
      BY <1>0, <1>5, <1>6, <3>1, <3>2
  <2> QED
    BY <1>2, <2>1, <2>2
<1>17. Lands(T, Rest(o, s), b)
  BY <1>0, <1>1, <1>3, FitsParts
<1> QED
  BY <1>4, <1>5, <1>6, <1>7, <1>8, <1>9, <1>12, <1>13, <1>14, <1>15, <1>16, <1>17 DEF Held

\* A frame waits behind its call as T has it there.
LEMMA WaitsThere ==
  ASSUME NEW T, WellTyped(T), NEW s \in Shapes, NEW m \in 0 .. Len(s.stack), NEW o, NEW types \in Seq(ValueTypes),
         NEW held, held = Drop(s.stack, m), NEW b, b \in DOMAIN T, T[b] = Replaced(s, m, types),
         Lands(T, Replaced(s, m, <<>>), b),
         Resumes(b, types, held, s.exceptions),
         NEW x \in FrameRec, x.offset = b, x.func = s.func, NEW base, NEW ne, ne = x.exceptions + s.exceptions,
         Tries => x.values = base + Len(Params(x.func))
  PROVE  Waits(T, x, base, held, ne, types)
<1>1. PICK z : z = T[b]
  OBVIOUS
<1>2. z \in Shapes /\ z.func = s.func /\ z.stack = held \o types /\ z.exceptions = s.exceptions
  <2>1. PICK y : y = Replaced(s, m, types)
    OBVIOUS
  <2>2. y \in Shapes /\ y.func = s.func /\ y.stack = Drop(s.stack, m) \o types /\ y.exceptions = s.exceptions
    BY <2>1, ReplacedParts
  <2> QED
    BY <1>1, <2>1, <2>2
<1>3. Replaced(s, m, <<>>) = Shape(x.func, held, z.exceptions)
  <2>1. PICK y : y = Replaced(s, m, <<>>)
    OBVIOUS
  <2>2. <<>> \in Seq(ValueTypes)
    BY EmptySeq
  <2>3. y \in Shapes /\ y.func = s.func /\ y.stack = held /\ y.exceptions = s.exceptions
    BY <2>1, <2>2, ReplacedParts
  <2>4. y = Shape(y.func, y.stack, y.exceptions)
    BY <2>3 DEF Shapes, Shape
  <2> QED
    BY <1>2, <2>1, <2>3, <2>4
<1>4. Lands(T, Shape(x.func, held, z.exceptions), b)
  BY <1>3
<1>5. x.offset \in DOMAIN T /\ T[x.offset] = z
  BY <1>1
<1>6. Lands(T, Shape(x.func, held, T[x.offset].exceptions), x.offset)
  BY <1>1, <1>4
<1>7. IF x.offset \in DOMAIN at THEN Len(types) <= Len(at[x.offset].stack)
      ELSE held = <<>> /\ T[x.offset].exceptions = 0
  BY <1>2, <1>5 DEF Resumes
<1>8. T[x.offset] \in Shapes /\ T[x.offset].func = x.func /\ T[x.offset].stack = held \o types
      /\ x.exceptions + T[x.offset].exceptions = ne
  BY <1>2, <1>5
<1> QED
  BY <1>5, <1>6, <1>7, <1>8 DEF Waits

\* Calls, with the index popped when they are indirect.
LEMMA CallReady ==
  ASSUME HasModule, NEW T, WellTyped(T), NEW fs, NEW top, NEW s, NEW low, NEW o,
         Stands(T, fs, top, s, low, o),
         CodeOp(o) \in CallOps, NEW f, f = Called(o), NEW k, k = Extra(CodeOp(o))
  PROVE  /\ f \in Indices(M.funcs)
         /\ \E x, q, held : Ready(T, Pop(Next0, k), fs, x, q, low, held, f)
<1>1. PICK m, b, types : CallAt(o, f, k, m, b, types)
  BY DEF CallAt
<1>0. PICK held : Held(T, s, o, f, k, m, b, types, held)
  BY <1>1, CallHeld
<1>2. /\ f \in Indices(M.funcs) /\ k \in 0 .. Len(s.stack) /\ m \in 0 .. Len(s.stack)
      /\ Rest(o, s) = Replaced(s, m, <<>>) /\ held = Drop(s.stack, m)
      /\ held \in Seq(ValueTypes) /\ held \o Params(f) = Drop(s.stack, k)
      /\ <<b, Replaced(s, m, types)>> \in Flows(o, s)
      /\ Lands(T, Rest(o, s), b)
      /\ Resumes(b, types, held, s.exceptions)
  BY <1>0 DEF Held
<1>13. b = Behind(o) /\ types = Results(f)
  BY <1>1 DEF CallAt
<1>3. b \in DOMAIN T /\ T[b] = Replaced(s, m, types) /\ s \in Shapes /\ DOMAIN T \subseteq Nat
  BY <1>2, StandsParts
<1>4. types \in Seq(ValueTypes)
  BY <1>2, <1>13, ModuleTypes
<1>5. b \in Nat
  BY <1>3
<1>6. PICK x \in FrameRec : x.offset = b /\ Over(T, Next0, fs, x, s, low)
  BY <1>13, <1>5, BehindTyped
<1>7. PICK th, q, ne : th = Pop(Next0, k) /\ q = Replaced(s, k, <<>>) /\ ne = Len(th.exceptions)
  OBVIOUS
<1>8. Over(T, th, fs, x, q, low)
  <2>1. Over(T, Pop(Next0, k), fs, x, Replaced(s, k, <<>>), low)
    BY <1>2, <1>6, EmptySeq, OverReplace
  <2> QED
    BY <1>7, <2>1
<1>9. q.stack = held \o Params(f) /\ q.exceptions = s.exceptions /\ q.func = s.func
  <2>1. <<>> \in Seq(ValueTypes)
    BY EmptySeq
  <2>2. /\ Replaced(s, k, <<>>).func = s.func
        /\ Replaced(s, k, <<>>).exceptions = s.exceptions
        /\ Replaced(s, k, <<>>).stack = Drop(s.stack, k)
    BY <1>2, <1>3, <2>1, ReplacedParts
  <2> QED
    BY <1>2, <1>7, <2>2
<1>10. ne = x.exceptions + s.exceptions /\ x.func = s.func
       /\ (Tries => x.values = Len(low) + Len(Params(x.func)))
  BY <1>7, <1>8, <1>9 DEF Over
<1>11. Waits(T, x, Len(low), held, ne, types)
  <2>1. Lands(T, Replaced(s, m, <<>>), b)
    BY <1>2
  <2>2. PICK base : base = Len(low)
    OBVIOUS
  <2>3. Tries => x.values = base + Len(Params(x.func))
    BY <1>10, <2>2
  <2>4. Waits(T, x, base, held, ne, types)
    BY <1>2, <1>3, <1>4, <1>6, <1>10, <2>1, <2>3, WaitsThere
  <2> QED
    BY <2>2, <2>4
<1>12. Ready(T, th, fs, x, q, low, held, f)
  BY <1>2, <1>7, <1>8, <1>9, <1>11, <1>13 DEF Ready
<1> QED
  BY <1>2, <1>7, <1>12

LEMMA CallTyped ==
  ASSUME HasModule, NEW T, WellTyped(T), NEW fs, NEW top, NEW s, NEW low, NEW o,
         Stands(T, fs, top, s, low, o),
         StepCall \/ StepCallImport
  PROVE  Fine(T, t')
<1>1. PICK c, f : c = CodeOp(o) /\ f = Imm(o, 1)
  OBVIOUS
<1>2. c = op /\ imm(1) = f /\ Fits(T, o, s) /\ t \in ThreadRec
  BY <1>1, StandsParts
<1>3. \/ c = "call" /\ t' = PushCall(Next0, t.inst, f)
      \/ c = "call_import" /\ t' \in DoCall(Next0, Resolve(t.inst, f), FuncType(r, f))
  BY <1>2 DEF StepCall, StepCallImport, Executes
<1>4. CodeOp(o) \in CallOps /\ f = Called(o) /\ Extra(CodeOp(o)) = 0
  BY <1>1, <1>3 DEF CallOps, Called, Extra
<1>5. PICK k : k = Extra(CodeOp(o))
  OBVIOUS
<1>6. f \in Indices(M.funcs) /\ \E x, q, held : Ready(T, Pop(Next0, k), fs, x, q, low, held, f)
  BY <1>4, <1>5, CallReady
<1>7. PICK x, q, held : Ready(T, Pop(Next0, k), fs, x, q, low, held, f)
  BY <1>6
<1>8. Pop(Next0, k) = Next0
  <2>1. PICK th : th = Next0
    OBVIOUS
  <2>2. th.values \in Seq(ValueTypes) /\ th \in ThreadRec
    <3>1. PICK y : Over(T, Next0, fs, y, s, low)
      <4>1. Behind(o) \in Nat
        BY <1>1, <1>3, StandsParts DEF Behind, Immediates, Imm0, Imm1
      <4> QED
        BY <4>1, BehindTyped
    <3> QED
      BY <2>1, <3>1 DEF Over, ThreadRec
  <2>3. Drop(th.values, 0) = th.values
    BY <2>2, DropAll
  <2>4. k = 0
    BY <1>4, <1>5
  <2>5. Pop(th, 0) = [th EXCEPT !.values = th.values]
    BY <2>3, Zenon DEF Pop
  <2>6. [th EXCEPT !.values = th.values] = th
    BY <2>2 DEF ThreadRec
  <2> QED
    BY <2>1, <2>4, <2>5, <2>6
<1>9. Ready(T, Next0, fs, x, q, low, held, f)
  BY <1>7, <1>8
<1>10. t.inst \in Nat
  BY <1>2 DEF ThreadRec
<1>11. CASE c = "call"
  <2>1. f \in InModule
    BY <1>1, <1>2, <1>11, FitsParts
  <2>2. PICK i, th : i = t.inst /\ th = Next0
    OBVIOUS
  <2>3. Fine(T, PushCall(th, i, f))
    BY <1>9, <1>10, <2>1, <2>2, PushCallTyped DEF Ready
  <2> QED
    BY <1>3, <1>11, <2>2, <2>3
<1>12. CASE c = "call_import"
  <2>1. PICK callee : callee = Resolve(t.inst, f)
    OBVIOUS
  <2>2. Callee(callee, f)
    BY <1>6, <1>10, <2>1, ResolveTyped
  <2>3. t' \in DoCall(Next0, callee, FuncType(r, f))
    BY <1>3, <1>12, <2>1
  <2> QED
    BY <1>9, <2>2, <2>3, DoCallTyped
<1> QED
  BY <1>3, <1>11, <1>12

\* Calls through a table.
LEMMA EntriesTyped ==
  ASSUME HasModule, NEW f, NEW e \in Entries(f)
  PROVE  Callee(e, f)
<1>1. PICK i \in {1, 2}, g \in Indices(M.funcs) : e = Resolve(i, g) /\ FuncType(r, g) = FuncType(r, f)
  BY DEF Entries
<1>2. i \in Nat
  OBVIOUS
<1> QED
  BY <1>1, <1>2, ResolveTyped

LEMMA CallIndirectTyped ==
  ASSUME HasModule, NEW T, WellTyped(T), NEW fs, NEW top, NEW s, NEW low, NEW o,
         Stands(T, fs, top, s, low, o),
         StepCallIndirect
  PROVE  Fine(T, t')
<1>1. PICK c, f, k : c = CodeOp(o) /\ f = Called(o) /\ k = Extra(CodeOp(o))
  OBVIOUS
<1>2. c = op /\ imm(2) = Imm(o, 2)
  BY <1>1, StandsParts
<1>3. c = "call_indirect"
  BY <1>2 DEF StepCallIndirect, Executes
<1>4. f = imm(2) /\ k = 1 /\ CodeOp(o) \in CallOps
  BY <1>1, <1>2, <1>3 DEF Called, Extra, CallOps
<1>5. PICK th : th = Pop(Next0, 1)
  OBVIOUS
<1>6. \/ t' = Result(th, "trap")
      \/ \E e \in Entries(f) : t' \in DoCall(th, e, FuncType(r, f))
  BY <1>4, <1>5 DEF StepCallIndirect, Executes
<1>7. PICK x, q, held : Ready(T, th, fs, x, q, low, held, f)
  BY <1>1, <1>4, <1>5, CallReady
<1>8. CASE t' = Result(th, "trap")
  BY <1>7, <1>8, TrapFine DEF Ready
<1>9. CASE \E e \in Entries(f) : t' \in DoCall(th, e, FuncType(r, f))
  <2>1. PICK e \in Entries(f) : t' \in DoCall(th, e, FuncType(r, f))
    BY <1>9
  <2>2. Callee(e, f)
    BY EntriesTyped
  <2> QED
    BY <1>7, <2>1, <2>2, DoCallTyped
<1> QED
  BY <1>6, <1>8, <1>9

\* Popping a frame commutes with what a host function does to the values.
LEMMA PopCallLater ==
  ASSUME NEW th \in ThreadRec, NEW v
  PROVE  [PopCall(th) EXCEPT !.values = v] = PopCall([th EXCEPT !.values = v])
<1>1. PICK q : q = Front(th.frames)
  OBVIOUS
<1>2. PICK left : left = [th EXCEPT !.frames = q]
  OBVIOUS
<1>3. left.frames = q
  BY <1>2 DEF ThreadRec
<1>4. PICK i : i = Last(q).inst
  OBVIOUS
<1>5. PopCall(th) = IF q = <<>> THEN [left EXCEPT !.result = "return"] ELSE [left EXCEPT !.inst = i]
  BY <1>1, <1>2, <1>3, <1>4 DEF PopCall, Result, Top
<1>6. PICK u : u = [th EXCEPT !.values = v]
  OBVIOUS
<1>7. u.frames = th.frames
  BY <1>6 DEF ThreadRec
<1>8. PICK rest : rest = [u EXCEPT !.frames = q]
  OBVIOUS
<1>9. rest.frames = q
  BY <1>6, <1>8 DEF ThreadRec
<1>10. PopCall(u) = IF q = <<>> THEN [rest EXCEPT !.result = "return"] ELSE [rest EXCEPT !.inst = i]
  BY <1>1, <1>4, <1>7, <1>8, <1>9 DEF PopCall, Result, Top
<1>11. CASE q = <<>>
  <2>1. [[left EXCEPT !.result = "return"] EXCEPT !.values = v] = [rest EXCEPT !.result = "return"]
    BY <1>2, <1>6, <1>8 DEF ThreadRec
  <2> QED
    BY <1>5, <1>6, <1>10, <1>11, <2>1
<1>12. CASE q # <<>>
  <2>1. [[left EXCEPT !.inst = i] EXCEPT !.values = v] = [rest EXCEPT !.inst = i]
    BY <1>2, <1>6, <1>8 DEF ThreadRec
  <2> QED
    BY <1>5, <1>6, <1>10, <1>12, <2>1
<1> QED
  BY <1>11, <1>12

\* Tail calls, of the host and of the module.
LEMMA HostReturnTyped ==
  ASSUME HasModule, NEW T, NEW th, NEW fs, NEW top, NEW s, NEW low, Over(T, th, fs, top, s, low),
         NEW f \in Indices(M.funcs), s.stack = Params(f), s.exceptions = 0, Results(f) = Results(s.func)
  PROVE  Fine(T, DoReturnCall(th, HostFunc, FuncType(r, f)))
<1>1. PICK p, types, n : p = Params(f) /\ types = Results(f) /\ n = Len(p)
  OBVIOUS
<1>2. p \in Seq(ValueTypes) /\ types \in Seq(ValueTypes)
  BY <1>1, ModuleTypes
<1>3. n \in Nat /\ n \in 0 .. Len(s.stack)
  BY <1>1, <1>2, LenProperties
<1>4. PICK popped, v : popped = PopCall(th) /\ v = Drop(th.values, n) \o types
  OBVIOUS
<1>5. popped \in ThreadRec /\ popped.values = th.values /\ th \in ThreadRec
  <2>1. popped \in ThreadRec /\ popped.values = th.values
    BY <1>4, PopCallParts
  <2> QED
    BY <2>1 DEF Over
<1>6. DoReturnCall(th, HostFunc, FuncType(r, f)) = Push(Pop(popped, n), types)
  BY <1>1, <1>4 DEF DoReturnCall, Params, Results
<1>7. Push(Pop(popped, n), types) = [popped EXCEPT !.values = v]
  <2>1. PICK w : w = Drop(popped.values, n)
    OBVIOUS
  <2>2. Pop(popped, n) = [popped EXCEPT !.values = w]
    BY <2>1, Zenon DEF Pop
  <2>3. PICK u : u = [popped EXCEPT !.values = w]
    OBVIOUS
  <2>4. u.values = w
    BY <1>5, <2>3 DEF ThreadRec
  <2>5. w \o types = v
    BY <1>4, <1>5, <2>1
  <2>6. Push(u, types) = [u EXCEPT !.values = v]
    BY <2>4, <2>5 DEF Push
  <2>7. [u EXCEPT !.values = v] = [popped EXCEPT !.values = v]
    BY <1>5, <2>3 DEF ThreadRec
  <2> QED
    BY <2>2, <2>3, <2>6, <2>7
<1>8. PICK u : u = [th EXCEPT !.values = v]
  OBVIOUS
<1>9. [popped EXCEPT !.values = v] = PopCall(u)
  BY <1>4, <1>5, <1>8, PopCallLater
<1>10. u = Push(Pop(th, n), types)
  <2>1. PICK w : w = Drop(th.values, n)
    OBVIOUS
  <2>2. Pop(th, n) = [th EXCEPT !.values = w]
    BY <2>1, Zenon DEF Pop
  <2>3. PICK z : z = [th EXCEPT !.values = w]
    OBVIOUS
  <2>4. z.values = w
    BY <1>5, <2>3 DEF ThreadRec
  <2>5. Push(z, types) = [z EXCEPT !.values = v]
    BY <1>4, <2>1, <2>4 DEF Push
  <2>6. [z EXCEPT !.values = v] = u
    BY <1>5, <1>8, <2>3 DEF ThreadRec
  <2> QED
    BY <2>2, <2>3, <2>5, <2>6
<1>11. PICK y : y = Replaced(s, n, types)
  OBVIOUS
<1>12. Over(T, u, fs, top, y, low)
  BY <1>2, <1>3, <1>10, <1>11, OverReplace
<1>13. s \in Shapes
  BY DEF Over
<1>14. y.func = s.func /\ y.exceptions = 0 /\ y.stack = Drop(p, n) \o types
  <2>1. /\ Replaced(s, n, types).func = s.func
        /\ Replaced(s, n, types).stack = Drop(s.stack, n) \o types
        /\ Replaced(s, n, types).exceptions = s.exceptions
    BY <1>2, <1>3, <1>13, ReplacedParts
  <2> QED
    BY <1>1, <1>11, <2>1
<1>15. Drop(p, n) \o types = types
  <2>1. Drop(p, n) = <<>>
    BY <1>1, <1>2, DropAll
  <2> QED
    BY <1>2, <2>1, ConcatEmptySeq
<1>16. y.stack = Results(y.func)
  BY <1>1, <1>14, <1>15
<1>17. Fine(T, PopCall(u))
  BY <1>12, <1>14, <1>16, PopCallTyped
<1> QED
  BY <1>6, <1>7, <1>9, <1>17

LEMMA ReturnCallTyped ==
  ASSUME HasModule, NEW T, WellTyped(T), NEW fs, NEW top, NEW s, NEW low, NEW o,
         Stands(T, fs, top, s, low, o),
         StepReturnCallIndirect
  PROVE  Fine(T, t')
<1>1. PICK c, f : c = CodeOp(o) /\ f = Imm(o, 2)
  OBVIOUS
<1>2. c = op /\ imm(2) = f /\ Fits(T, o, s) /\ o \in Nat /\ s \in Shapes /\ s.stack \in Seq(ValueTypes)
      /\ Len(s.stack) \in Nat
  BY <1>1, StandsParts
<1>3. c = "return_call_indirect"
  BY <1>2 DEF StepReturnCallIndirect, Executes
<1>4. PICK th : th = Pop(Next0, 1)
  OBVIOUS
<1>5. \/ t' = Result(th, "trap")
      \/ \E e \in Entries(f) : t' = DoReturnCall(th, e, FuncType(r, f))
  BY <1>2, <1>4 DEF StepReturnCallIndirect, Executes
<1>6. f \in Indices(M.funcs) /\ Params(f) = Drop(s.stack, 1) /\ Results(f) = Results(s.func)
      /\ s.exceptions = 0 /\ Len(s.stack) >= 1
  <2>1. CodeOp(o) = "return_call_indirect" =>
          Params(Imm(o, 2)) = Drop(s.stack, 1) /\ Results(Imm(o, 2)) = Results(s.func) /\ s.exceptions = 0
    BY <1>2, FitsParts
  <2>2. CodeOp(o) \in {"call_indirect", "return_call_indirect"} => Imm(o, 2) \in Indices(M.funcs)
    BY <1>2, FitsParts
  <2>3. CodeOp(o) \in Pops1 => Len(s.stack) >= 1
    BY <1>2, FitsParts
  <2> QED
    BY <1>1, <1>3, <2>1, <2>2, <2>3 DEF Pops1
<1>7. Behind(o) \in Nat
  BY <1>1, <1>2, <1>3 DEF Behind, Immediates, Imm0, Imm1, Imm2
<1>8. PICK x \in FrameRec : Over(T, Next0, fs, x, s, low)
  BY <1>7, BehindTyped
<1>9. PICK q : q = Replaced(s, 1, <<>>)
  OBVIOUS
<1>10. 1 \in 0 .. Len(s.stack) /\ <<>> \in Seq(ValueTypes)
  BY <1>2, <1>6
<1>11. Over(T, th, fs, x, q, low)
  <2>1. Over(T, Pop(Next0, 1), fs, x, Replaced(s, 1, <<>>), low)
    BY <1>8, <1>10, OverReplace
  <2> QED
    BY <1>4, <1>9, <2>1
<1>12. q.stack = Params(f) /\ q.exceptions = 0 /\ Results(f) = Results(q.func)
  <2>1. /\ Replaced(s, 1, <<>>).func = s.func
        /\ Replaced(s, 1, <<>>).exceptions = s.exceptions
        /\ Replaced(s, 1, <<>>).stack = Drop(s.stack, 1)
    BY <1>2, <1>10, ReplacedParts
  <2> QED
    BY <1>6, <1>9, <2>1
<1>13. CASE t' = Result(th, "trap")
  BY <1>11, <1>13, TrapFine
<1>14. CASE \E e \in Entries(f) : t' = DoReturnCall(th, e, FuncType(r, f))
  <2>1. PICK e \in Entries(f) : t' = DoReturnCall(th, e, FuncType(r, f))
    BY <1>14
  <2>2. Callee(e, f)
    BY EntriesTyped
  <2>3. CASE e = HostFunc
    BY <1>6, <1>11, <1>12, <2>1, <2>3, HostReturnTyped
  <2>4. CASE e # HostFunc
    <3>1. t' = PushCall([PopCall(th) EXCEPT !.result = "run"], e.inst, e.func)
      BY <2>1, <2>4 DEF DoReturnCall
    <3>2. PICK g, i : g = e.func /\ i = e.inst
      OBVIOUS
    <3>3. g \in InModule /\ i \in Nat /\ Params(g) = Params(f) /\ Results(g) = Results(f)
      BY <2>2, <2>4, <3>2 DEF Callee
    <3>4. q.stack = Params(g) /\ Results(g) = Results(q.func)
      BY <1>12, <3>3
    <3>5. Fine(T, PushCall([PopCall(th) EXCEPT !.result = "run"], i, g))
      BY <1>11, <1>12, <3>3, <3>4, TailCallTyped
    <3> QED
      BY <3>1, <3>2, <3>5
  <2> QED
    BY <2>3, <2>4
<1> QED
  BY <1>5, <1>13, <1>14

\* Every step of a thread whose innermost frame is as T says leaves it so.
LEMMA StepTyped ==
  ASSUME HasModule, NEW T, WellTyped(T), Fine(T, t), Step
  PROVE  Fine(T, t')
<1>1. t.result = "run"
  BY DEF Step, StepBr, StepBrUnless, StepBrTable, StepReturn, StepCall, StepCallImport, StepCallIndirect,
         StepReturnCallIndirect, StepDropKeep, StepCatchDrop, StepAdjustFrame, StepAlloca, StepLocal,
         StepOperand, StepNumeric, StepMemory, StepBulk, StepSimd, StepSimdMemory, StepAtomic, StepThrow,
         StepRethrow, Executes, Applies
<1>2. RunsTyped(T, t)
  BY <1>1 DEF Fine
<1>3. PICK fs, top, low : top.offset \in DOMAIN T /\ Over(T, t, fs, top, T[top.offset], low)
  BY <1>2 DEF RunsTyped
<1>4. PICK o, s : o = top.offset /\ s = T[o]
  OBVIOUS
<1>5. Stands(T, fs, top, s, low, o)
  BY <1>3, <1>4 DEF Stands
<1>6. CASE StepBr \/ StepBrUnless \/ StepBrTable \/ StepReturn
  BY <1>5, <1>6, BrTyped, BrUnlessTyped, BrTableTyped, ReturnTyped
<1>7. CASE StepCall \/ StepCallImport \/ StepCallIndirect \/ StepReturnCallIndirect
  BY <1>5, <1>7, CallTyped, CallIndirectTyped, ReturnCallTyped
<1>8. CASE StepDropKeep \/ StepCatchDrop \/ StepAdjustFrame \/ StepAlloca
  BY <1>5, <1>8, DropKeepTyped, CatchDropTyped, AdjustFrameTyped, AllocaTyped
<1>9. CASE StepLocal \/ StepOperand
  BY <1>5, <1>9, LocalTyped, DropSelectTyped
<1>10. CASE StepNumeric \/ StepMemory \/ StepBulk \/ StepSimd \/ StepSimdMemory \/ StepAtomic
  BY <1>5, <1>10, PlainStepTyped
<1>11. CASE StepThrow \/ StepRethrow
  BY <1>5, <1>11, ThrowTyped, RethrowTyped
<1> QED
  BY <1>6, <1>7, <1>8, <1>9, <1>10, <1>11 DEF Step

\* The code stays while a thread runs, and with it what is said of it.
SameCode == r' = r /\ at' = at /\ module' = module

\* The module, its instructions and its handlers.
LEMMA SameModule ==
  ASSUME SameCode
  PROVE  /\ M' = M /\ InModule' = InModule /\ Tags' = Tags
         /\ \A f : Params(f)' = Params(f) /\ Results(f)' = Results(f)
         /\ \A o, k : CodeOp(o)' = CodeOp(o) /\ Imm(o, k)' = Imm(o, k)
<1>1. M' = M
  BY DEF SameCode, M
<1>2. InModule' = InModule /\ Tags' = Tags
  BY <1>1 DEF InModule, Tags
<1>3. \A f : Params(f)' = Params(f) /\ Results(f)' = Results(f)
  BY DEF SameCode, Params, Results
<1>4. \A o, k : CodeOp(o)' = CodeOp(o) /\ Imm(o, k)' = Imm(o, k)
  BY DEF SameCode, CodeOp, Imm
<1> QED
  BY <1>1, <1>2, <1>3, <1>4

LEMMA SameCalls ==
  ASSUME SameCode
  PROVE  /\ \A o : Behind(o)' = Behind(o) /\ Called(o)' = Called(o)
         /\ \A o, s : Rest(o, s)' = Rest(o, s)
<1>1. \A o : Behind(o)' = Behind(o)
  BY SameModule DEF Behind
<1>2. \A o : Called(o)' = Called(o)
  BY SameModule DEF Called
<1>3. ASSUME NEW o, NEW s PROVE Rest(o, s)' = Rest(o, s)
  BY SameModule DEF Rest, SameCode, CodeOp, Imm, Called, M
<1> QED
  BY <1>1, <1>2, <1>3

LEMMA SameLandings ==
  ASSUME SameCode
  PROVE  /\ \A s, pc, tag : HandlerOf(s, pc, tag)' = HandlerOf(s, pc, tag)
         /\ \A s : Bottom(s)' = Bottom(s)
         /\ \A s, h, tag : Landed(s, h, tag)' = Landed(s, h, tag)
         /\ Tries' = Tries
         /\ \A T, s, pc : Lands(T, s, pc)' = Lands(T, s, pc)
<1>1. \A s, pc, tag : HandlerOf(s, pc, tag)' = HandlerOf(s, pc, tag)
  BY DEF SameCode, HandlerOf
<1>2. \A s : Bottom(s)' = Bottom(s)
  BY DEF SameCode, Bottom
<1>3. \A s, h, tag : Landed(s, h, tag)' = Landed(s, h, tag)
  BY <1>2, SameModule DEF Landed
<1>4. Tries' = Tries
  BY DEF SameCode, Tries
<1>5. ASSUME NEW T, NEW s, NEW pc PROVE Lands(T, s, pc)' = Lands(T, s, pc)
  BY <1>1, <1>2, <1>3, <1>4, SameModule DEF Lands
<1> QED
  BY <1>1, <1>2, <1>3, <1>4, <1>5

\* What the instructions ask for and leave, and so the typing.
LEMMA SameFlows ==
  ASSUME SameCode, NEW o, NEW s
  PROVE  Flows(o, s)' = Flows(o, s)
<1>1. Locals(r, s.func)' = Locals(r, s.func)
  BY DEF SameCode
<1>2. FuncType(r, Called(o))' = FuncType(r, Called(o)) /\ FuncType(r, Imm(o, 1))' = FuncType(r, Imm(o, 1))
  BY SameModule, SameCalls DEF SameCode
<1> QED
  BY <1>1, <1>2, SameModule, SameCalls DEF Flows, SameCode, CodeOp, Imm, Behind, Called

LEMMA SameFits ==
  ASSUME SameCode, NEW T, NEW o, NEW s
  PROVE  Fits(T, o, s)' = Fits(T, o, s)
<1>1. /\ CodeOp(o)' = CodeOp(o) /\ Imm(o, 1)' = Imm(o, 1) /\ Imm(o, 2)' = Imm(o, 2)
      /\ M' = M /\ InModule' = InModule
  BY SameModule
<1>2. Behind(o)' = Behind(o) /\ Called(o)' = Called(o) /\ Rest(o, s)' = Rest(o, s)
  BY SameCalls
<1>3. /\ FuncType(r, Called(o))' = FuncType(r, Called(o)) /\ FuncType(r, Imm(o, 1))' = FuncType(r, Imm(o, 1))
      /\ FuncType(r, s.func)' = FuncType(r, s.func)
  BY <1>1, <1>2 DEF SameCode
<1>4. Lands(T, Rest(o, s), Behind(o))' = Lands(T, Rest(o, s), Behind(o))
  BY <1>2, SameModule, SameLandings DEF Lands
<1>5. Tries' = Tries /\ at' = at
  BY SameLandings DEF SameCode
<1> QED
  BY <1>1, <1>2, <1>3, <1>4, <1>5 DEF Fits

LEMMA SameShapes ==
  ASSUME SameCode
  PROVE  /\ Shapes' = Shapes
         /\ \A f : Entry(f)' = Entry(f)
         /\ \A o : Known(o)' = Known(o)
<1>1. Shapes' = Shapes
  BY SameModule DEF Shapes
<1>2. \A f : Entry(f)' = Entry(f)
  BY DEF SameCode, Entry
<1>3. \A o : Known(o)' = Known(o)
  BY DEF SameCode, Known
<1> QED
  BY <1>1, <1>2, <1>3

LEMMA SameTyping ==
  ASSUME SameCode, NEW T, WellTyped(T)
  PROVE  WellTyped(T)'
BY SameModule, SameShapes, SameFits, SameFlows DEF WellTyped, SameCode

\* The frames.
LEMMA SameWaits ==
  ASSUME SameCode, NEW T, NEW fs, NEW vs, NEW ne, NEW res, NEW final, AllWait(T, fs, vs, ne, res, final)
  PROVE  AllWait(T, fs, vs, ne, res, final)'
<1>1. PICK b, e : WaitsBy(T, fs, vs, ne, res, final, b, e)
  BY DEF AllWait
<1>2. ASSUME NEW frame, NEW base, NEW held, NEW n2, NEW types, Waits(T, frame, base, held, n2, types)
      PROVE  Waits(T, frame, base, held, n2, types)'
  BY <1>2, SameModule, SameShapes, SameLandings DEF Waits, SameCode
<1>3. ASSUME NEW k PROVE Gets(fs, res, k)' = Gets(fs, res, k)
  BY SameModule DEF Gets
<1>4. ASSUME NEW k, WaitAt(T, fs, vs, b, e, res, k) PROVE WaitAt(T, fs, vs, b, e, res, k)'
  BY <1>2, <1>3, <1>4 DEF WaitAt
<1>5. WaitsBy(T, fs, vs, ne, res, final, b, e)'
  BY <1>1, <1>4, SameModule DEF WaitsBy
<1> QED
  BY <1>5 DEF AllWait

LEMMA SameFine ==
  ASSUME SameCode, NEW T, NEW u, Fine(T, u)
  PROVE  Fine(T, u)'
<1>1. Results(u.func)' = Results(u.func)
  BY SameModule
<1>2. CASE u.result = "run" /\ RunsTyped(T, u)
  <2>1. PICK fs, top, low : top.offset \in DOMAIN T /\ Over(T, u, fs, top, T[top.offset], low)
    BY <1>2 DEF RunsTyped
  <2>2. PICK s : s = T[top.offset]
    OBVIOUS
  <2>3. Over(T, u, fs, top, s, low)'
    <3>1. FrameRec' = FrameRec
      BY SameModule DEF FrameRec
    <3>2. Exn' = Exn
      BY SameModule DEF Exn
    <3>3. ThreadRec' = ThreadRec
      BY <3>1, <3>2, SameModule DEF ThreadRec
    <3>4. AllWait(T, fs, low, top.exceptions, Results(top.func), Results(u.func))'
      <4>1. PICK res, final : res = Results(top.func) /\ final = Results(u.func)
        OBVIOUS
      <4>2. AllWait(T, fs, low, top.exceptions, res, final)
        BY <2>1, <2>2, <4>1 DEF Over
      <4>3. AllWait(T, fs, low, top.exceptions, res, final)'
        BY <4>2, SameWaits
      <4>4. Results(top.func)' = res /\ Results(u.func)' = final
        BY <4>1, SameModule
      <4> QED
        BY <4>3, <4>4 DEF AllWait, WaitsBy, WaitAt, Gets
    <3> QED
      BY <2>1, <2>2, <3>1, <3>3, <3>4, SameModule, SameShapes, SameLandings DEF Over
  <2>4. RunsTyped(T, u)'
    BY <2>1, <2>2, <2>3 DEF RunsTyped
  <2> QED
    BY <1>2, <2>4 DEF Fine
<1> QED
  BY <1>1, <1>2 DEF Fine

\* The invariant: a thread that runs is as some typing of the code says.
Typed(T) == WellTyped(T) /\ Fine(T, t)
TypedInv ==
  /\ module \in DOMAIN Modules
  /\ t.result = "new" => t = NoThread
  /\ t.result # "new" => AllRead /\ HasModule /\ \E T : Typed(T)

\* A step, the call of the embedder and the reading of the module keep it.
LEMMA StepKeepsTyped ==
  ASSUME TypedInv, Step
  PROVE  TypedInv'
<1>1. t.result = "run"
  BY DEF Step, StepBr, StepBrUnless, StepBrTable, StepReturn, StepCall, StepCallImport, StepCallIndirect,
         StepReturnCallIndirect, StepDropKeep, StepCatchDrop, StepAdjustFrame, StepAlloca, StepLocal,
         StepOperand, StepNumeric, StepMemory, StepBulk, StepSimd, StepSimdMemory, StepAtomic, StepThrow,
         StepRethrow, Executes, Applies
<1>2. SameCode
  BY DEF SameCode, Step, StepBr, StepBrUnless, StepBrTable, StepReturn, StepCall, StepCallImport, StepCallIndirect,
         StepReturnCallIndirect, StepDropKeep, StepCatchDrop, StepAdjustFrame, StepAlloca, StepLocal,
         StepOperand, StepNumeric, StepMemory, StepBulk, StepSimd, StepSimdMemory, StepAtomic, StepThrow,
         StepRethrow, Executes, Applies
<1>3. AllRead /\ HasModule
  BY <1>1 DEF TypedInv
<1>4. PICK T : WellTyped(T) /\ Fine(T, t)
  BY <1>1 DEF TypedInv, Typed
<1>5. PICK u : u = t'
  OBVIOUS
<1>6. Fine(T, u)
  BY <1>3, <1>4, <1>5, StepTyped
<1>7. WellTyped(T)' /\ Fine(T, u)'
  BY <1>2, <1>4, <1>6, SameTyping, SameFine
<1>8. Fine(T, t)'
  BY <1>5, <1>7 DEF Fine, RunsTyped, Over
<1>9. t'.result # "new"
  BY <1>5, <1>6 DEF Fine
<1>10. AllRead' /\ HasModule'
  BY <1>2, <1>3, SameModule DEF AllRead, HasModule, SameCode
<1>11. module' \in DOMAIN Modules
  BY <1>2 DEF SameCode, TypedInv
<1>12. Typed(T)'
  BY <1>7, <1>8 DEF Typed
<1> QED
  BY <1>9, <1>10, <1>11, <1>12 DEF TypedInv

\* No thread runs at first, nor while the module is read.
LEMMA InitTyped == Init => TypedInv
BY DEF Init, TypedInv, NoThread

LEMMA ReadWaits ==
  ASSUME TypedInv, Read
  PROVE  t.result = "new" /\ t' = t /\ module' = module
<1>1. ~AllRead
  <2>1. CASE ReadBody
    BY <2>1 DEF ReadBody, AllRead
  <2>2. CASE ReadEnd
    BY <2>2 DEF ReadEnd, AllRead
  <2>3. CASE ~ReadBody /\ ~ReadEnd
    <3>1. r.fn # NoFunc
      BY <2>3 DEF Read, ReadBlock, ReadClause, ReadBranch, ReadCall, ReadThrow, ReadLocal, ReadOperand, ReadPlain,
                  Reading
    <3> QED
      BY <3>1 DEF AllRead
  <2> QED
    BY <2>1, <2>2, <2>3
<1>2. t' = t
  BY ReadThread
<1>3. module' = module
  BY DEF Read, ReadBody, ReadEnd, ReadBlock, ReadClause, ReadBranch, ReadCall, ReadThrow, ReadLocal, ReadOperand,
         ReadPlain, Reads
<1> QED
  BY <1>1, <1>2, <1>3 DEF TypedInv

\* The embedder calls a function on a new thread.
LEMMA EnteringTyped ==
  ASSUME HasModule, NEW T, WellTyped(T), NEW inst \in Nat, NEW f \in InModule, NEW u,
         u = [PushCall(Push(NoThread, FuncType(r, f).params), inst, f) EXCEPT !.result = "run", !.func = f]
  PROVE  Fine(T, u)
<1>1. PICK p : p = Params(f)
  OBVIOUS
<1>2. p \in Seq(ValueTypes) /\ f \in Indices(M.funcs)
  BY <1>1, ModuleTypes
<1>3. PICK th : th = [frames |-> <<>>, values |-> p, exceptions |-> <<>>, inst |-> 0, result |-> "run", func |-> f]
  OBVIOUS
<1>4. th \in ThreadRec
  <2>1. <<>> \in Seq(FrameRec) /\ <<>> \in Seq(Exn)
    BY EmptySeq
  <2> QED
    BY <1>2, <1>3, <2>1 DEF ThreadRec, Statuses
<1>5. PICK old : old = [frames |-> <<>>, values |-> p, exceptions |-> <<>>, inst |-> 0, result |-> "new", func |-> NoFunc]
  OBVIOUS
<1>6. Push(NoThread, FuncType(r, f).params) = old
  <2>1. <<>> \o p = p
    BY <1>2, ConcatEmptySeq
  <2> QED
    BY <1>1, <1>5, <2>1 DEF Push, NoThread, Params
<1>7. PICK fr : fr = Frame(th, inst, f, CodeOffset(f))
  OBVIOUS
<1>8. Frame(old, inst, f, CodeOffset(f)) = fr
  BY <1>3, <1>5, <1>7 DEF Frame
<1>9. Len(<<>>) # Capacity
  BY CapacityAssumption
<1>10. PICK q : q = Append(<<>>, fr)
  OBVIOUS
<1>11. PushCall(old, inst, f) = [old EXCEPT !.frames = q, !.inst = inst]
  BY <1>5, <1>8, <1>9, <1>10 DEF PushCall
<1>12. PushCall(th, inst, f) = [th EXCEPT !.frames = q, !.inst = inst]
  BY <1>3, <1>7, <1>9, <1>10 DEF PushCall
<1>13. u = PushCall(th, inst, f)
  <2>1. PICK z : z = PushCall(old, inst, f)
    OBVIOUS
  <2>2. u = [z EXCEPT !.result = "run", !.func = f]
    BY <1>6, <2>1, Zenon
  <2>3. z = [frames |-> q, values |-> p, exceptions |-> <<>>, inst |-> inst, result |-> "new", func |-> NoFunc]
    BY <1>5, <1>11, <2>1
  <2>4. u = [frames |-> q, values |-> p, exceptions |-> <<>>, inst |-> inst, result |-> "run", func |-> f]
    BY <2>2, <2>3
  <2>5. PushCall(th, inst, f)
          = [frames |-> q, values |-> p, exceptions |-> <<>>, inst |-> inst, result |-> "run", func |-> f]
    BY <1>3, <1>12
  <2> QED
    BY <2>4, <2>5
<1>14. AllWait(T, <<>>, <<>>, 0, Results(f), Results(f))
  BY AllWaitEmpty
<1>15. <<>> \in Seq(ValueTypes) /\ <<>> \o p = p
  BY <1>2, EmptySeq, ConcatEmptySeq
<1>16. th.values = <<>> \o Params(f) /\ th.frames = <<>> /\ Len(th.exceptions) = 0 /\ th.func = f
       /\ th.result = "run"
  BY <1>1, <1>3, <1>15
<1>17. AllWait(T, th.frames, <<>>, Len(th.exceptions), Results(f), Results(th.func))
  BY <1>14, <1>16
<1>18. Fine(T, PushCall(th, inst, f))
  BY <1>4, <1>15, <1>16, <1>17, EnterTyped
<1> QED
  BY <1>13, <1>18

LEMMA CallKeepsTyped ==
  ASSUME TypedInv, Complete => CodeTyped, Call
  PROVE  TypedInv'
<1>1. SameCode /\ Complete
  BY DEF Call, SameCode, Complete
<1>2. AllRead /\ HasModule /\ WellTyped(Typing)
  BY <1>1 DEF Complete, CodeTyped, HasModule, TypedInv
<1>3. PICK T : WellTyped(T)
  BY <1>2
<1>4. PICK inst \in {1, 2}, f \in InModule :
         t' = [PushCall(Push(NoThread, FuncType(r, f).params), inst, f) EXCEPT !.result = "run", !.func = f]
  BY DEF Call, InModule
<1>5. PICK u : u = t'
  OBVIOUS
<1>6. inst \in Nat
  OBVIOUS
<1>7. u = [PushCall(Push(NoThread, FuncType(r, f).params), inst, f) EXCEPT !.result = "run", !.func = f]
  BY <1>4, <1>5
<1>8. Fine(T, u)
  BY <1>2, <1>3, <1>6, <1>7, EnteringTyped
<1>9. WellTyped(T)' /\ Fine(T, u)'
  BY <1>1, <1>3, <1>8, SameTyping, SameFine
<1>10. Fine(T, t)'
  BY <1>5, <1>9 DEF Fine, RunsTyped, Over
<1>11. t'.result # "new"
  BY <1>5, <1>8 DEF Fine
<1>12. AllRead' /\ HasModule'
  BY <1>1, <1>2, SameModule DEF AllRead, HasModule, SameCode
<1>13. module' \in DOMAIN Modules
  BY <1>1 DEF SameCode, TypedInv
<1>14. Typed(T)'
  BY <1>9, <1>10 DEF Typed
<1> QED
  BY <1>11, <1>12, <1>13, <1>14 DEF TypedInv

LEMMA NextTyped ==
  ASSUME TypedInv, Complete => CodeTyped, [Next]_vars
  PROVE  TypedInv'
<1>1. CASE Read
  <2>1. t.result = "new" /\ t' = t /\ module' = module
    BY <1>1, ReadWaits
  <2> QED
    BY <2>1 DEF TypedInv
<1>2. CASE Call
  BY <1>2, CallKeepsTyped
<1>3. CASE Step
  BY <1>3, StepKeepsTyped
<1>4. CASE UNCHANGED vars
  <2>1. SameCode /\ t' = t
    BY <1>4 DEF vars, SameCode
  <2>2. CASE t.result = "new"
    BY <2>1, <2>2 DEF TypedInv, SameCode
  <2>3. CASE t.result # "new"
    <3>1. AllRead /\ HasModule
      BY <2>3 DEF TypedInv
    <3>2. PICK T : WellTyped(T) /\ Fine(T, t)
      BY <2>3 DEF TypedInv, Typed
    <3>3. PICK u : u = t
      OBVIOUS
    <3>4. WellTyped(T)' /\ Fine(T, u)'
      BY <2>1, <3>2, <3>3, SameTyping, SameFine
    <3>5. u = t'
      BY <2>1, <3>3
    <3>6. Fine(T, t)'
      BY <3>4, <3>5 DEF Fine, RunsTyped, Over
    <3>7. AllRead' /\ HasModule'
      BY <2>1, <3>1, SameModule DEF AllRead, HasModule, SameCode
    <3>8. Typed(T)'
      BY <3>4, <3>6 DEF Typed
    <3> QED
      BY <2>1, <2>3, <3>7, <3>8 DEF TypedInv, SameCode
  <2> QED
    BY <2>2, <2>3
<1> QED
  BY <1>1, <1>2, <1>3, <1>4 DEF Next

\* As long as the code generator makes code that is typed, a thread that runs
\* stays as a typing of the code says, from the call of the embedder on.
THEOREM TypedRuns == Spec /\ [](Complete => CodeTyped) => []TypedInv
<1>1. Init => TypedInv
  BY InitTyped
<1>2. TypedInv /\ (Complete => CodeTyped) /\ [Next]_vars => TypedInv'
  BY NextTyped
<1> QED
  BY <1>1, <1>2, PTL DEF Spec

\* F[i] is the concatenation of the first i of seqs.
Flattens(seqs, F) == \A i \in 1 .. Len(seqs) : F[i] = IF i = 1 THEN seqs[i] ELSE F[i - 1] \o seqs[i]

\* FlattenSeq computes such an F.
LEMMA FlattensAgree ==
  ASSUME NEW seqs, Len(seqs) \in Nat \ {0}, NEW g, Flattens(seqs, g), NEW h, Flattens(seqs, h)
  PROVE  g[Len(seqs)] = h[Len(seqs)]
<1> DEFINE B == {i \in 1 .. Len(seqs) : g[i] # h[i]}
<1>1. SUFFICES ASSUME B # {} PROVE FALSE
  <2>1. Len(seqs) \in 1 .. Len(seqs)
    OBVIOUS
  <2> QED
    BY <2>1, Zenon
<1>2. B \subseteq Nat
  OBVIOUS
<1>3. PICK k \in B : \A q \in B : k <= q
  <2> HIDE DEF B
  <2> QED
    BY <1>1, <1>2, MinExists
<1>4. k \in 1 .. Len(seqs) /\ g[k] # h[k]
  OBVIOUS
<1>5. g[k] = (IF k = 1 THEN seqs[k] ELSE g[k - 1] \o seqs[k])
      /\ h[k] = (IF k = 1 THEN seqs[k] ELSE h[k - 1] \o seqs[k])
  BY <1>4 DEF Flattens
<1>6. k # 1
  BY <1>4, <1>5
<1>7. k - 1 \in 1 .. Len(seqs) /\ ~(k <= k - 1)
  BY <1>4, <1>6
<1>8. g[k - 1] = h[k - 1]
  BY <1>3, <1>7
<1> QED
  BY <1>4, <1>5, <1>6, <1>8

LEMMA FlattenIs ==
  ASSUME NEW seqs, Len(seqs) \in Nat \ {0}, NEW h, Flattens(seqs, h)
  PROVE  FlattenSeq(seqs) = h[Len(seqs)]
<1> DEFINE Eq(H) == H = [i \in 1 .. Len(seqs) |-> IF i = 1 THEN seqs[i] ELSE H[i - 1] \o seqs[i]]
<1>1. \E H : Eq(H)
  <2>1. PICK g : g = [i \in 1 .. Len(seqs) |-> h[i]]
    OBVIOUS
  <2>2. \A i \in 1 .. Len(seqs) : g[i] = h[i]
    BY <2>1
  <2>3. ASSUME NEW i \in 1 .. Len(seqs) PROVE h[i] = IF i = 1 THEN seqs[i] ELSE g[i - 1] \o seqs[i]
    <3>1. i # 1 => g[i - 1] = h[i - 1]
      <4>1. i # 1 => i - 1 \in 1 .. Len(seqs)
        OBVIOUS
      <4> QED
        BY <2>2, <4>1
    <3> QED
      BY <3>1 DEF Flattens
  <2>4. g = [i \in 1 .. Len(seqs) |-> IF i = 1 THEN seqs[i] ELSE g[i - 1] \o seqs[i]]
    BY <2>1, <2>3, Zenon
  <2> QED
    BY <2>4
<1>2. PICK k : k = (CHOOSE H : Eq(H))
  OBVIOUS
<1>3. Eq(k)
  BY <1>1, <1>2, Zenon
<1>4. Flattens(seqs, k)
  BY <1>3, Zenon DEF Flattens
<1>5. FlattenSeq(seqs) = k[Len(seqs)]
  BY <1>2 DEF FlattenSeq
<1>6. h[Len(seqs)] = k[Len(seqs)]
  BY <1>4, FlattensAgree
<1> QED
  BY <1>5, <1>6

\* A sequence is its parts one after the other.
LEMMA FlattenParts ==
  ASSUME NEW S, NEW v \in Seq(S), NEW n \in Nat \ {0}, NEW c, Bounds(c, n, Len(v)),
         NEW seqs, seqs = [k \in 1 .. n |-> SubSeq(v, c[k] + 1, c[k + 1])]
  PROVE  FlattenSeq(seqs) = v
<1>1. Len(v) \in Nat
  BY LenProperties
<1>2. Len(seqs) = n
  OBVIOUS
<1>3. ASSUME NEW k \in 1 .. n
      PROVE  c[k] \in Nat /\ c[k + 1] \in Nat /\ c[k] <= c[k + 1] /\ c[k + 1] <= Len(v)
             /\ k \in 1 .. n + 1
  <2>1. k \in 1 .. n + 1 /\ k + 1 \in 1 .. n + 1 /\ n + 1 \in 1 .. n + 1 /\ k <= k + 1 /\ k + 1 <= n + 1
    OBVIOUS
  <2>2. c[k] <= c[k + 1] /\ c[k + 1] <= c[n + 1]
    BY <2>1 DEF Bounds
  <2> QED
    BY <2>1, <2>2 DEF Bounds
<1>4. PICK g : g = [k \in 1 .. n |-> SubSeq(v, 1, c[k + 1])]
  OBVIOUS
<1>5. ASSUME NEW k \in 1 .. n PROVE g[k] = IF k = 1 THEN seqs[k] ELSE g[k - 1] \o seqs[k]
  <2>1. CASE k = 1
    <3>1. c[1] = 0
      BY DEF Bounds
    <3>2. c[k] + 1 = 1
      BY <2>1, <3>1
    <3> QED
      BY <1>4, <2>1, <3>2
  <2>2. CASE k # 1
    <3>1. k - 1 \in 1 .. n /\ (k - 1) + 1 = k
      BY <2>2
    <3>2. g[k - 1] = SubSeq(v, 1, c[k]) /\ g[k] = SubSeq(v, 1, c[k + 1])
          /\ seqs[k] = SubSeq(v, c[k] + 1, c[k + 1])
      BY <1>4, <3>1
    <3>3. PICK a, b : a = c[k] /\ b = c[k + 1]
      OBVIOUS
    <3>4. a \in Nat /\ b \in Nat /\ a <= b /\ b <= Len(v)
      BY <1>3, <3>3
    <3>5. SubSeq(v, 1, a) \o SubSeq(v, a + 1, b) = SubSeq(v, 1, b)
      BY <1>1, <3>4, ConcatAdjacentSubSeq
    <3> QED
      BY <2>2, <3>2, <3>3, <3>5
  <2> QED
    BY <2>1, <2>2
<1>6. Flattens(seqs, g)
  BY <1>2, <1>5 DEF Flattens
<1>7. FlattenSeq(seqs) = g[n]
  BY <1>2, <1>6, FlattenIs
<1>8. g[n] = SubSeq(v, 1, Len(v))
  <2>1. n \in 1 .. n
    OBVIOUS
  <2>2. g[n] = SubSeq(v, 1, c[n + 1])
    BY <1>4, <2>1
  <2>3. c[n + 1] = Len(v)
    BY DEF Bounds
  <2> QED
    BY <2>2, <2>3
<1>9. SubSeq(v, 1, Len(v)) = v
  BY SubSeqFull
<1> QED
  BY <1>7, <1>8, <1>9

\* What the validator knew at an offset that T types.
LEMMA KnownParts ==
  ASSUME NEW T, WellTyped(T), NEW o \in DOMAIN T, o \in DOMAIN at
  PROVE  /\ at[o].live /\ at[o].stack \in Seq(ValueTypes) /\ T[o] \in Shapes
         /\ T[o].func = at[o].func /\ T[o].exceptions = at[o].exceptions
         /\ T[o].stack = (Params(at[o].func) \o Locals(r, at[o].func)) \o at[o].stack
<1>1. PICK p, z : p = at[o] /\ z = T[o]
  OBVIOUS
<1>2. p.live /\ p.stack \in Seq(ValueTypes) /\ z \in Shapes /\ z = Known(o)
  BY <1>1 DEF WellTyped
<1>3. PICK v : v = (Params(p.func) \o Locals(r, p.func)) \o p.stack
  OBVIOUS
<1>4. Known(o) = Shape(p.func, v, p.exceptions)
  BY <1>1, <1>3 DEF Known, Params
<1>5. z.func = p.func /\ z.exceptions = p.exceptions /\ z.stack = v
  BY <1>2, <1>4 DEF Shape
<1> QED
  BY <1>1, <1>2, <1>3, <1>5

\* A frame that waits for a call has on the value stack what the validator
\* knew behind the call, but for the results.
HasLeft(frame, held, ne, res) ==
  LET o == frame.offset
  IN  /\ o \in DOMAIN at => at[o].func = frame.func
      /\ frame.exceptions + (IF o \in DOMAIN at THEN at[o].exceptions ELSE 0) = ne
      /\ held = IF o \notin DOMAIN at THEN <<>>
                ELSE (Params(frame.func) \o Locals(r, frame.func)) \o Drop(at[o].stack, Len(res))

LEMMA WaitingStack ==
  ASSUME HasModule, NEW T, WellTyped(T), NEW frame, NEW base, NEW held \in Seq(ValueTypes), NEW ne,
         NEW res \in Seq(ValueTypes), Waits(T, frame, base, held, ne, res)
  PROVE  HasLeft(frame, held, ne, res)
<1>0. PICK o : o = frame.offset
  OBVIOUS
<1>1. PICK z : z = T[o]
  OBVIOUS
<1>2. /\ o \in DOMAIN T /\ z \in Shapes /\ z.func = frame.func /\ z.stack = held \o res
      /\ frame.exceptions + z.exceptions = ne
  BY <1>0, <1>1 DEF Waits
<1>3. IF o \in DOMAIN at THEN Len(res) <= Len(at[o].stack) ELSE held = <<>> /\ z.exceptions = 0
  BY <1>0, <1>1 DEF Waits
<1>4. CASE o \notin DOMAIN at
  BY <1>0, <1>2, <1>3, <1>4 DEF HasLeft
<1>5. CASE o \in DOMAIN at
  <2>1. PICK p, l, st : p = Params(frame.func) /\ l = Locals(r, frame.func) /\ st = at[o].stack
    OBVIOUS
  <2>2. st \in Seq(ValueTypes) /\ z.func = at[o].func /\ z.exceptions = at[o].exceptions
    BY <1>1, <1>2, <1>5, <2>1, KnownParts
  <2>3. z.stack = (p \o l) \o st
    <3>1. T[o].stack = (Params(at[o].func) \o Locals(r, at[o].func)) \o at[o].stack
      BY <1>2, <1>5, KnownParts
    <3>2. at[o].func = frame.func
      BY <1>2, <2>2
    <3> QED
      BY <1>1, <2>1, <3>1, <3>2
  <2>4. frame.func \in InModule
    BY <1>2 DEF Shapes
  <2>5. p \in Seq(ValueTypes) /\ l \in Seq(ValueTypes)
    BY <2>1, <2>4, ModuleTypes
  <2>6. PICK u, n : u = p \o l /\ n = Len(res)
    OBVIOUS
  <2>7. u \in Seq(ValueTypes)
    BY <2>5, <2>6, ConcatProperties
  <2>8. n \in 0 .. Len(res) /\ n \in 0 .. Len(st)
    BY <1>3, <1>5, <2>1, <2>2, <2>6, LenProperties
  <2>9. u \o st = held \o res
    BY <1>2, <2>3, <2>6
  <2>10. Drop(u \o st, n) = u \o Drop(st, n)
    <3>1. st \in Seq(ValueTypes) /\ n \in 0 .. Len(st)
      BY <2>2, <2>8
    <3> QED
      BY <2>7, <3>1, DropConcat
  <2>11. Drop(held \o res, n) = held \o Drop(res, n)
    BY <2>8, DropConcat
  <2>12. Drop(res, n) = <<>>
    BY <2>6, DropAll
  <2>13. held = u \o Drop(st, n)
    BY <2>9, <2>10, <2>11, <2>12, ConcatEmptySeq
  <2> QED
    BY <1>0, <1>2, <1>5, <2>1, <2>2, <2>6, <2>13 DEF HasLeft
<1> QED
  BY <1>4, <1>5

\* Frame k of a thread that stands at o: what the properties say of it.
FrameRight(k) ==
  /\ t.frames[k].offset \in DOMAIN at => at[t.frames[k].offset].func = t.frames[k].func
  /\ Catching(k) = (IF k = Len(t.frames) THEN Len(t.exceptions) ELSE t.frames[k + 1].exceptions)
                     - t.frames[k].exceptions

\* The innermost frame, and those that wait.
LEMMA TopRight ==
  ASSUME HasModule, NEW T, WellTyped(T), NEW fs, NEW top, NEW s, NEW low, NEW o,
         Stands(T, fs, top, s, low, o),
         o \in DOMAIN at
  PROVE  /\ at[o].live /\ FrameRight(Len(t.frames)) /\ OnStack(Len(t.frames)) = s.stack
<1>1. Over(T, t, fs, top, s, low) /\ o = top.offset /\ o \in DOMAIN T /\ s = T[o]
  BY DEF Stands
<1>2. PICK frames, n : frames = t.frames /\ n = Len(frames)
  OBVIOUS
<1>3. frames[n] = top
  <2>1. fs \in Seq(FrameRec) /\ top \in FrameRec /\ frames = Append(fs, top)
    BY <1>1, <1>2 DEF Over
  <2>2. n = Len(fs) + 1
    BY <1>2, <2>1
  <2> QED
    BY <2>1, <2>2
<1>4. /\ at[o].live /\ at[o].stack \in Seq(ValueTypes)
      /\ s.func = at[o].func /\ s.exceptions = at[o].exceptions
      /\ s.stack = (Params(at[o].func) \o Locals(r, at[o].func)) \o at[o].stack
  BY <1>1, KnownParts
<1>5. /\ top.func = s.func /\ Len(t.exceptions) = top.exceptions + s.exceptions
      /\ top.exceptions \in Nat /\ s.exceptions \in Nat
  BY <1>1 DEF Over, FrameRec, Shapes
<1>6. FrameRight(n)
  <2>1. Catching(n) = s.exceptions
    BY <1>1, <1>2, <1>3, <1>4 DEF Catching
  <2>2. Len(t.exceptions) - frames[n].exceptions = s.exceptions
    BY <1>3, <1>5
  <2> QED
    BY <1>1, <1>2, <1>3, <1>4, <1>5, <2>1, <2>2 DEF FrameRight
<1>7. OnStack(n) = s.stack
  <2>1. PICK st : st = at[o].stack
    OBVIOUS
  <2>2. Drop(st, 0) = st
    BY <1>4, <2>1, DropAll
  <2>3. OnStack(n) = (Params(top.func) \o Locals(r, top.func)) \o Drop(st, 0)
    BY <1>1, <1>2, <1>3, <2>1 DEF OnStack, Params
  <2> QED
    BY <1>4, <1>5, <2>1, <2>2, <2>3
<1> QED
  BY <1>2, <1>4, <1>6, <1>7

\* Frame k waits on the values between the bounds b, which are what its code expects.
WaitsRight(b, k) == FrameRight(k) /\ OnStack(k) = SubSeq(t.values, b[k] + 1, b[k + 1])

LEMMA WaitingRight ==
  ASSUME HasModule, NEW T, WellTyped(T), NEW fs, NEW top, NEW s, NEW low, NEW o,
         Stands(T, fs, top, s, low, o),
         NEW b, NEW e,
         NEW exns, exns = top.exceptions, NEW out, out = Results(top.func), NEW final, WaitsBy(T, fs, low, exns, out, final, b, e),
         NEW k \in 1 .. Len(fs)
  PROVE  WaitsRight(b, k)
<1>1. /\ fs \in Seq(FrameRec) /\ top \in FrameRec /\ t.frames = Append(fs, top)
      /\ low \in Seq(ValueTypes) /\ t.values = low \o s.stack /\ s \in Shapes
  BY DEF Stands, Over
<1>2. PICK frames, n, x, y : frames = t.frames /\ n = Len(fs) /\ x = fs[k] /\ y = frames[k + 1]
  OBVIOUS
<1>3. Len(frames) = n + 1 /\ n \in Nat /\ frames[k] = x /\ k # n + 1 /\ x \in FrameRec
      /\ y = IF k = n THEN top ELSE fs[k + 1]
  BY <1>1, <1>2
<1>4. WaitAt(T, fs, low, b, e, Results(top.func), k)
  BY DEF WaitsBy
<1>5. PICK a, c, held, res, ne : a = b[k] /\ c = b[k + 1] /\ held = SubSeq(low, a + 1, c)
                           /\ res = Results(y.func) /\ ne = e[k + 1]
  OBVIOUS
<1>6. Gets(fs, Results(top.func), k) = res
  BY <1>2, <1>3, <1>5 DEF Gets
<1>7. x.exceptions = e[k] /\ Waits(T, x, a, held, ne, res)
  BY <1>2, <1>4, <1>5, <1>6 DEF WaitAt
<1>8. k \in 1 .. n + 1 /\ k + 1 \in 1 .. n + 1 /\ k <= k + 1 /\ k + 1 <= n + 1 /\ n + 1 \in 1 .. n + 1
  BY <1>2, <1>3
<1>9. Bounds(b, n, Len(low)) /\ Bounds(e, n, top.exceptions)
  BY <1>2 DEF WaitsBy
<1>10. a \in Nat /\ c \in Nat /\ a <= c /\ c <= Len(low) /\ ne \in Nat
  <2>1. b[k] <= b[k + 1] /\ b[k + 1] <= b[n + 1]
    BY <1>8, <1>9 DEF Bounds
  <2> QED
    BY <1>5, <1>8, <1>9, <2>1 DEF Bounds
<1>11. y.exceptions = ne
  <2>1. CASE k = n
    <3>1. e[n + 1] = top.exceptions
      BY <1>9 DEF Bounds
    <3> QED
      BY <1>3, <1>5, <2>1, <3>1
  <2>2. CASE k # n
    <3>1. k + 1 \in 1 .. Len(fs)
      BY <1>2, <1>8, <2>2
    <3>2. WaitAt(T, fs, low, b, e, Results(top.func), k + 1)
      BY <3>1 DEF WaitsBy
    <3> QED
      BY <1>3, <1>5, <2>2, <3>2 DEF WaitAt
  <2> QED
    BY <2>1, <2>2
<1>12. held \in Seq(ValueTypes)
  <2>1. a + 1 \in Nat \ {0} /\ c \in 0 .. Len(low)
    BY <1>10
  <2> QED
    BY <1>1, <1>5, <2>1, SubSeqParts
<1>13. res \in Seq(ValueTypes)
  <2>1. y \in FrameRec
    BY <1>1, <1>2, <1>3, <1>8
  <2>2. y.func \in InModule
    BY <2>1 DEF FrameRec
  <2> QED
    BY <1>5, <2>2, ModuleTypes
<1>14. PICK z : z = x.offset
  OBVIOUS
<1>15. /\ z \in DOMAIN at => at[z].func = x.func
       /\ x.exceptions + (IF z \in DOMAIN at THEN at[z].exceptions ELSE 0) = ne
       /\ held = IF z \notin DOMAIN at THEN <<>>
                 ELSE (Params(x.func) \o Locals(r, x.func)) \o Drop(at[z].stack, Len(res))
  <2>1. HasLeft(x, held, ne, res)
    BY <1>7, <1>12, <1>13, WaitingStack
  <2> QED
    BY <1>14, <2>1 DEF HasLeft
<1>16. FrameRight(k)
  <2>1. PICK d : d = (IF z \in DOMAIN at THEN at[z].exceptions ELSE 0)
    OBVIOUS
  <2>2. Catching(k) = d
    BY <1>2, <1>3, <1>14, <2>1 DEF Catching
  <2>3. d \in Nat
    <3>1. z \in DOMAIN T /\ T[z] \in Shapes
      BY <1>7, <1>14 DEF Waits
    <3>2. z \in DOMAIN at => T[z].exceptions = at[z].exceptions
      BY <3>1, KnownParts
    <3> QED
      BY <2>1, <3>1, <3>2 DEF Shapes
  <2>4. x.exceptions \in Nat
    BY <1>3 DEF FrameRec
  <2>5. d = ne - x.exceptions
    BY <1>10, <1>15, <2>1, <2>3, <2>4
  <2>6. k # Len(t.frames) /\ t.frames[k] = x /\ t.frames[k + 1] = y
    BY <1>2, <1>3
  <2> QED
    BY <1>11, <1>14, <1>15, <2>2, <2>5, <2>6 DEF FrameRight
<1>17. OnStack(k) = held
  <2>1. k # Len(t.frames) /\ t.frames[k] = x /\ t.frames[k + 1] = y
    BY <1>2, <1>3
  <2>2. OnStack(k) = IF z \notin DOMAIN at THEN <<>>
                     ELSE (Params(x.func) \o Locals(r, x.func)) \o Drop(at[z].stack, Len(res))
    BY <1>5, <1>14, <2>1 DEF OnStack, Params, Results
  <2> QED
    BY <1>15, <2>2
<1>18. SubSeq(t.values, a + 1, c) = held
  <2>1. PICK v : v = s.stack
    OBVIOUS
  <2>2. v \in Seq(ValueTypes) /\ t.values = low \o v
    BY <1>1, <2>1 DEF Shapes
  <2>3. c \in 0 .. Len(low) /\ a \in 0 .. c
    BY <1>10
  <2>4. SubSeq(low \o v, a + 1, c) = SubSeq(low, a + 1, c)
    BY <1>1, <2>2, <2>3, SubSeqLow
  <2> QED
    BY <1>5, <2>2, <2>4
<1> QED
  BY <1>5, <1>16, <1>17, <1>18 DEF WaitsRight

\* The whole stack.
LEMMA StackRight ==
  ASSUME HasModule, NEW T, WellTyped(T), NEW fs, NEW top, NEW s, NEW low, NEW o,
         Stands(T, fs, top, s, low, o),
         o \in DOMAIN at
  PROVE  /\ at[o].live /\ \A k \in DOMAIN t.frames : FrameRight(k)
         /\ t.frames[1].exceptions = 0
         /\ t.values = FlattenSeq([k \in DOMAIN t.frames |-> OnStack(k)])
<1>1. /\ fs \in Seq(FrameRec) /\ top \in FrameRec /\ t.frames = Append(fs, top)
      /\ low \in Seq(ValueTypes) /\ t.values = low \o s.stack /\ s.stack \in Seq(ValueTypes)
      /\ AllWait(T, fs, low, top.exceptions, Results(top.func), Results(t.func))
  BY DEF Stands, Over, Shapes
<1>2. PICK n, v : n = Len(fs) /\ v = s.stack
  OBVIOUS
<1>3. n \in Nat /\ DOMAIN t.frames = 1 .. n + 1 /\ Len(t.frames) = n + 1
  BY <1>1, <1>2
<1>4. PICK exns, out, final, b, e :
         exns = top.exceptions /\ out = Results(top.func) /\ WaitsBy(T, fs, low, exns, out, final, b, e)
  BY <1>1 DEF AllWait
<1>5. Bounds(b, n, Len(low)) /\ Bounds(e, n, top.exceptions)
  BY <1>2, <1>4 DEF WaitsBy
<1>6. \A k \in 1 .. n : FrameRight(k) /\ OnStack(k) = SubSeq(t.values, b[k] + 1, b[k + 1])
  <2>1. ASSUME NEW k \in 1 .. Len(fs) PROVE WaitsRight(b, k)
    BY <1>4, WaitingRight
  <2> QED
    BY <1>2, <2>1 DEF WaitsRight
<1>7. at[o].live /\ FrameRight(n + 1) /\ OnStack(n + 1) = v
  BY <1>2, <1>3, TopRight
<1>8. \A k \in DOMAIN t.frames : FrameRight(k)
  BY <1>3, <1>6, <1>7
<1>9. t.frames[1].exceptions = 0
  <2>1. CASE n = 0
    <3>1. t.frames[1] = top
      <4>1. PICK frames : frames = t.frames
        OBVIOUS
      <4>2. fs \in Seq(FrameRec) /\ top \in FrameRec /\ frames = Append(fs, top) /\ Len(fs) = 0
        BY <1>1, <1>2, <2>1, <4>1
      <4>3. frames[1] = top
        BY <4>2
      <4> QED
        BY <4>1, <4>3
    <3>2. e[1] = 0 /\ e[n + 1] = top.exceptions
      BY <1>5 DEF Bounds
    <3> QED
      BY <2>1, <3>1, <3>2
  <2>2. CASE n # 0
    <3>1. 1 \in 1 .. Len(fs) /\ t.frames[1] = fs[1]
      BY <1>1, <1>2, <1>3, <2>2
    <3>2. WaitAt(T, fs, low, b, e, Results(top.func), 1)
      BY <1>4, <3>1 DEF WaitsBy
    <3>3. e[1] = 0
      BY <1>5 DEF Bounds
    <3> QED
      BY <3>1, <3>2, <3>3 DEF WaitAt
  <2> QED
    BY <2>1, <2>2
<1>10. PICK vs, m : vs = t.values /\ m = Len(vs)
  OBVIOUS
<1>11. vs = low \o v /\ v \in Seq(ValueTypes)
  BY <1>1, <1>2, <1>10
<1>12. vs \in Seq(ValueTypes) /\ m = Len(low) + Len(v) /\ Len(low) \in Nat /\ Len(v) \in Nat /\ m \in Nat
  BY <1>1, <1>10, <1>11, ConcatProperties, LenProperties
<1>13. PICK c : Bounds(c, n + 1, m) /\ \A i \in 1 .. n + 1 : c[i] = b[i]
  BY <1>3, <1>5, <1>12, BoundsMore
<1>14. c[n + 1] = Len(low) /\ c[(n + 1) + 1] = m
  <2>1. n + 1 \in 1 .. n + 1
    BY <1>3
  <2>2. b[n + 1] = Len(low)
    BY <1>5 DEF Bounds
  <2> QED
    BY <1>13, <2>1, <2>2 DEF Bounds
<1>15. ASSUME NEW k \in 1 .. n + 1 PROVE OnStack(k) = SubSeq(vs, c[k] + 1, c[k + 1])
  <2>1. CASE k = n + 1
    <3>1. SubSeq(low \o v, Len(low) + 1, Len(low) + Len(v)) = v
      BY <1>1, <1>11, SubSeqHigh
    <3> QED
      BY <1>7, <1>11, <1>12, <1>14, <2>1, <3>1
  <2>2. CASE k # n + 1
    <3>1. k \in 1 .. n /\ k + 1 \in 1 .. n + 1
      BY <1>3, <2>2
    <3> QED
      BY <1>6, <1>10, <1>13, <3>1
  <2> QED
    BY <2>1, <2>2
<1>16. PICK seqs : seqs = [k \in 1 .. n + 1 |-> SubSeq(vs, c[k] + 1, c[k + 1])]
  OBVIOUS
<1>17. [k \in DOMAIN t.frames |-> OnStack(k)] = seqs
  BY <1>3, <1>15, <1>16
<1>18. FlattenSeq(seqs) = vs
  <2>1. n + 1 \in Nat \ {0} /\ Bounds(c, n + 1, Len(vs))
    BY <1>3, <1>10, <1>13
  <2> QED
    BY <1>12, <1>16, <2>1, FlattenParts, SMTT(30)
<1> QED
  BY <1>7, <1>8, <1>9, <1>10, <1>17, <1>18

LEMMA TypedStacks == TypedInv => StackTyped
<1> SUFFICES ASSUME TypedInv PROVE StackTyped
  OBVIOUS
<1>1. CASE t.result = "run"
  <2>1. HasModule
    BY <1>1 DEF TypedInv
  <2>2. PICK T : WellTyped(T) /\ Fine(T, t)
    BY <1>1 DEF TypedInv, Typed
  <2>3. PICK fs, top, low : top.offset \in DOMAIN T /\ Over(T, t, fs, top, T[top.offset], low)
    BY <1>1, <2>2 DEF Fine, RunsTyped
  <2>4. PICK o, s : o = top.offset /\ s = T[o]
    OBVIOUS
  <2>5. Stands(T, fs, top, s, low, o)
    BY <2>3, <2>4 DEF Stands
  <2>6. Pc = o /\ op = CodeOp(o) /\ Fits(T, o, s)
    BY <2>2, <2>5, StandsParts
  <2>7. AtInstruction =>
          /\ at[Pc].live /\ \A k \in DOMAIN t.frames : FrameRight(k)
          /\ t.frames[1].exceptions = 0
          /\ t.values = FlattenSeq([k \in DOMAIN t.frames |-> OnStack(k)])
    BY <2>1, <2>2, <2>5, <2>6, StackRight DEF AtInstruction
  <2>8. op = "return" => Top(t).exceptions = Len(t.exceptions)
    <3>1. op = "return" => s.exceptions = 0
      BY <2>6, Zenon DEF Fits
    <3>2. Top(t) = top
      BY <2>3, OverTop
    <3>3. Len(t.exceptions) = top.exceptions + s.exceptions /\ top.exceptions \in Nat
      BY <2>3, <2>4 DEF Over, FrameRec
    <3> QED
      BY <3>1, <3>2, <3>3
  <2> QED
    BY <1>1, <2>7, <2>8 DEF StackTyped, FrameRight
<1>2. CASE t.result # "run"
  <2>1. t.result = "return" => t.values = FuncType(r, t.func).results
    <3>1. t.result = "return" => \E T : Fine(T, t)
      BY DEF TypedInv, Typed
    <3> QED
      BY <3>1 DEF Fine, Results
  <2> QED
    BY <1>2, <2>1 DEF StackTyped, AtInstruction
<1> QED
  BY <1>1, <1>2

\* On typed code a thread finds, before every instruction and however many
\* calls are open, the arguments, locals and operands that the validator
\* computed there, reaches no code called unreachable, has one caught exception
\* for every catch block that is executed, and leaves the results of the
\* function: for every module, every capacity and every path, exceptions and
\* tail calls across instances included (Thread::StepInternal, DoThrow,
\* PushCall, PopCall).  That the code is typed is what HandlersRight says.
THEOREM TypedCodeRuns == Spec /\ [](Complete => CodeTyped) => []StackTyped
<1>1. Spec /\ [](Complete => CodeTyped) => []TypedInv
  BY TypedRuns
<1>2. TypedInv => StackTyped
  BY TypedStacks
<1> QED
  BY <1>1, <1>2, PTL
=============================================================================
