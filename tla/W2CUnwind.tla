----------------------------- MODULE W2CUnwind -----------------------------
(***************************************************************************)
(* Non-local control in the C that wasm2c writes: calls and their depth    *)
(* counter, try/catch/delegate on setjmp and longjmp, traps.  The stack is *)
(* that of one thread while the embedder has it inside wasm code; what the *)
(* writer knows at an instruction (label_stack_, try_catch_stack_) is what *)
(* the innermost call has entered and not left, so both are read off it.   *)
(***************************************************************************)
EXTENDS Naturals, Sequences, FiniteSets

CONSTANTS
    Tag,        \* exception tags
    BigTag,     \* those whose payload exceeds MAX_EXCEPTION_SIZE
    NoTag,
    MaxDepth,   \* WASM_RT_MAX_CALL_STACK_DEPTH
    MaxStack    \* bound: entries on the stack

ASSUME UnwindAssumption ==
    /\ BigTag \subseteq Tag
    /\ NoTag \notin Tag
    /\ MaxDepth \in Nat \ {0}
    /\ MaxStack \in Nat

VARIABLES
    stack,          \* entries, innermost last; empty while the embedder runs
    mode,           \* "run"; "dispatch" at the head of the catch blocks of the
                    \* innermost try; "abort" after abort() or a wild longjmp
    unwind_target,  \* g_unwind_target: a try's position, Host, or Null
    jmp_buf,        \* g_wasm_rt_jmp_buf.initialized
    active,         \* g_active_exception_tag
    depth,          \* wasm_rt_call_stack_depth
    saved_depth     \* wasm_rt_saved_call_stack_depth

vars == <<stack, mode, unwind_target, jmp_buf, active, depth, saved_depth>>

Host == 0             \* &g_wasm_rt_jmp_buf
Null == MaxStack + 1  \* g_unwind_target before the first wasm_rt_impl_try

-----------------------------------------------------------------------------
(* Entries.  A try keeps its C locals: outer (_outer_target), initialized  *)
(* (of _unwind_target) and saved (_tag, _size and the copied payload).     *)

Plain(k) == [kind |-> k, phase |-> "body", catches |-> {}, delegate |-> 0,
             saved |-> NoTag, outer |-> Host, initialized |-> FALSE]

Prefix(s, n) == SubSeq(s, 1, n)

(* The calls on stack s, and the position of the innermost one. *)
Frames(s) == {i \in DOMAIN s : s[i].kind = "func"}
FrameOf(s, i) == s[i].kind = "func" /\ \A j \in DOMAIN s : j > i => s[j].kind # "func"

(* label_stack_: the function's own label and all labels inside of it. *)
label_stack_(s) == {j \in DOMAIN s : \A i \in DOMAIN s : i > j => s[i].kind # "func"}

(* A try is in try_catch_stack_ until its catch blocks begin. *)
Active(e) == e.kind = "try" /\ e.phase = "body"
try_catch_stack_(s) == {j \in label_stack_(s) : Active(s[j])}

Front_(S) == CHOOSE i \in S : \A j \in S : i <= j
Back_(S)  == CHOOSE i \in S : \A j \in S : j <= i

(* Mutant: only the innermost try is unwound. *)
UnwindTarget_Innermost(s, q) ==
    LET left == {i \in try_catch_stack_(s) : i >= q}
    IN  IF left = {} THEN unwind_target ELSE s[Back_(left)].outer

(* WriteUnwindTryCatchStack(label q): the outermost try that q leaves. *)
UnwindTarget(s, q) ==
    LET left == {i \in try_catch_stack_(s) : i >= q}
    IN  IF left = {} THEN unwind_target ELSE s[Front_(left)].outer

-----------------------------------------------------------------------------
(* Leaving the C code.  Every long jump is checked: a buffer not set stops *)
(* the process, and one whose frame is gone may do anything.               *)

Abort == /\ mode' = "abort"
         /\ UNCHANGED <<stack, jmp_buf>>

(* WASM_RT_LONGJMP(g_wasm_rt_jmp_buf): wasm_rt_impl_try returns again. *)
ToHost == IF jmp_buf
          THEN /\ stack' = <<>>
               /\ mode' = "run"
               /\ jmp_buf' = FALSE
          ELSE Abort

wasm_rt_trap == /\ depth' = saved_depth
                /\ ToHost
                /\ UNCHANGED <<unwind_target, active, saved_depth>>

(* wasm_rt_throw: WASM_RT_LONGJMP to the buffer at t.  wasm_rt_try returns *)
(* again and the catch blocks of that try begin.                           *)
wasm_rt_throw(t) ==
    IF t = Host THEN ToHost
    ELSE IF t \in DOMAIN stack /\ stack[t].kind = "try" /\ stack[t].initialized
         THEN /\ stack' = [Prefix(stack, t) EXCEPT ![t].initialized = FALSE]
              /\ mode' = "dispatch"
              /\ UNCHANGED jmp_buf
         ELSE Abort

(* goto <label>_catch *)
GotoCatch(p) == /\ stack' = Prefix(stack, p)
                /\ mode' = "dispatch"
                /\ UNCHANGED jmp_buf

(* WriteThrow, where the writer's try_catch_stack_ is ts and the unwind    *)
(* target is t when the code runs.                                         *)
WriteThrow(ts, t) ==
    /\ unwind_target' = t
    /\ IF ts = {} THEN wasm_rt_throw(t) ELSE GotoCatch(Back_(ts))

-----------------------------------------------------------------------------

Init == /\ stack = <<>>
        /\ mode = "run"
        /\ unwind_target = Null
        /\ jmp_buf = FALSE
        /\ active = NoTag
        /\ depth = 0
        /\ saved_depth = 0

(* The embedder evaluates wasm_rt_impl_try(). *)
wasm_rt_impl_try == /\ mode = "run"
                    /\ stack = <<>>
                    /\ saved_depth' = depth
                    /\ unwind_target' = Host
                    /\ jmp_buf' = TRUE
                    /\ UNCHANGED <<stack, mode, active, depth>>

(* A call, by the embedder (only after wasm_rt_impl_try, as it is told to) *)
(* or by wasm code, and the callee's FUNC_PROLOGUE.                        *)
Call == /\ mode = "run"
        /\ Len(stack) < MaxStack
        /\ stack = <<>> => jmp_buf
        /\ IF depth + 1 > MaxDepth
           THEN wasm_rt_trap
           ELSE /\ depth' = depth + 1
                /\ stack' = Append(stack, Plain("func"))
                /\ UNCHANGED <<mode, unwind_target, jmp_buf, active, saved_depth>>

InCode == mode = "run" /\ stack # <<>>

(* return, or the end of the body: GotoLabel to the function's label, then *)
(* FUNC_EPILOGUE.                                                          *)
Return == /\ InCode
          /\ \E f \in Frames(stack) :
                /\ FrameOf(stack, f)
                /\ unwind_target' = UnwindTarget(stack, f)
                /\ stack' = Prefix(stack, f - 1)
          /\ depth' = depth - 1
          /\ UNCHANGED <<mode, jmp_buf, active, saved_depth>>

(* Mutant: the epilogue runs before the trampoline. *)
ReturnCall_Epilogue ==
    /\ InCode
    /\ \E f \in Frames(stack) :
          /\ FrameOf(stack, f)
          /\ unwind_target' = UnwindTarget(stack, f)
          /\ stack' = Prefix(stack, f)
    /\ depth' = depth - 1
    /\ UNCHANGED <<mode, jmp_buf, active, saved_depth>>

(* return_call to a function with a tail callee: the trys are unwound and  *)
(* the trampoline runs the callee on behalf of this call, which stays      *)
(* counted once.  To any other function it is a branch to the function's   *)
(* label around an ordinary Call.                                          *)
ReturnCall == /\ InCode
              /\ \E f \in Frames(stack) :
                    /\ FrameOf(stack, f)
                    /\ unwind_target' = UnwindTarget(stack, f)
                    /\ stack' = Prefix(stack, f)
              /\ UNCHANGED <<mode, jmp_buf, active, depth, saved_depth>>

Block == /\ InCode
         /\ Len(stack) < MaxStack
         /\ \E k \in {"block", "loop"} : stack' = Append(stack, Plain(k))
         /\ UNCHANGED <<mode, unwind_target, jmp_buf, active, depth, saved_depth>>

(* Mutant: the target is set before wasm_rt_try initializes the buffer and *)
(* the flag is lost.                                                       *)
BeginTry_FlagLost(catches, delegate) ==
    /\ InCode
    /\ Len(stack) < MaxStack
    /\ stack' = Append(stack, [Plain("try") EXCEPT !.catches = catches,
                                  !.delegate = delegate, !.outer = unwind_target])
    /\ unwind_target' = Len(stack) + 1
    /\ UNCHANGED <<mode, jmp_buf, active, depth, saved_depth>>

(* BeginTry: keep the outer target, wasm_rt_try, set the new one. *)
BeginTry(catches, delegate) ==
    /\ InCode
    /\ Len(stack) < MaxStack
    /\ stack' = Append(stack, [Plain("try") EXCEPT !.catches = catches,
                                  !.delegate = delegate, !.outer = unwind_target,
                                  !.initialized = TRUE])
    /\ unwind_target' = Len(stack) + 1
    /\ UNCHANGED <<mode, jmp_buf, active, depth, saved_depth>>

(* A clause for a tag in BigTag never runs: throwing such a tag traps. *)
WriteTryCatch == \E C \in SUBSET (Tag \ BigTag) : BeginTry(C, 0)
WriteTryDelegate == \E q \in label_stack_(stack) : BeginTry({}, q)

(* The last instruction of the innermost block, try or catch block. *)
End == /\ InCode
       /\ LET top == stack[Len(stack)] IN
            /\ top.kind # "func"
            /\ unwind_target' = IF Active(top) THEN top.outer ELSE unwind_target
       /\ stack' = Prefix(stack, Len(stack) - 1)
       /\ UNCHANGED <<mode, jmp_buf, active, depth, saved_depth>>

(* br, br_if, br_table to a label of this function. *)
GotoLabel == /\ InCode
             /\ \E q \in label_stack_(stack) :
                    /\ stack[q].kind # "func"
                    /\ unwind_target' = UnwindTarget(stack, q)
                    /\ stack' = Prefix(stack, IF stack[q].kind = "loop" THEN q ELSE q - 1)
             /\ UNCHANGED <<mode, jmp_buf, active, depth, saved_depth>>

(* wasm_rt_load_exception, then WriteThrow. *)
Load(t) == IF t \in BigTag
           THEN wasm_rt_trap
           ELSE /\ active' = t
                /\ WriteThrow(try_catch_stack_(stack), unwind_target)
                /\ UNCHANGED <<depth, saved_depth>>

Throw == InCode /\ \E t \in Tag : Load(t)

Rethrow == /\ InCode
           /\ \E p \in label_stack_(stack) :
                 stack[p].kind = "try" /\ stack[p].phase = "catch" /\ Load(stack[p].saved)

Trap == InCode /\ wasm_rt_trap

-----------------------------------------------------------------------------
(* The head of the catch blocks of the innermost try. *)

Top == Len(stack)

(* The exception is saved and a clause matches its tag. *)
Catch == /\ mode = "dispatch"
         /\ stack[Top].delegate = 0
         /\ active \in stack[Top].catches
         /\ unwind_target' = stack[Top].outer
         /\ stack' = [stack EXCEPT ![Top].phase = "catch", ![Top].saved = active]
         /\ mode' = "run"
         /\ UNCHANGED <<jmp_buf, active, depth, saved_depth>>

(* No clause matches and there is no catch_all: thrown again. *)
NotCaught == /\ mode = "dispatch"
             /\ stack[Top].delegate = 0
             /\ active \notin stack[Top].catches
             /\ WriteThrow(try_catch_stack_(stack) \ {Top}, stack[Top].outer)
             /\ UNCHANGED <<active, depth, saved_depth>>

(* Mutant: the exception goes to the next try out, whatever the label.     *)
DelegateToTry_NextOut ==
    /\ mode = "dispatch"
    /\ stack[Top].delegate # 0
    /\ LET ts == {i \in try_catch_stack_(stack) : i <= stack[Top].delegate}
       IN  /\ ts # {}
           /\ GotoCatch(Back_(try_catch_stack_(stack) \ {Top}))
    /\ UNCHANGED <<unwind_target, active, depth, saved_depth>>

(* Mutant: try_catch_stack_.at(size) for the try around a block. *)
DelegateToTry_OffByOne ==
    /\ mode = "dispatch"
    /\ stack[Top].delegate # 0
    /\ LET q == stack[Top].delegate
           ts == {i \in try_catch_stack_(stack) : i <= q}
       IN  /\ ts # {}
           /\ GotoCatch(Front_({i \in try_catch_stack_(stack) : i >= q}))
    /\ UNCHANGED <<unwind_target, active, depth, saved_depth>>

(* The exception goes to a try of this function: to the label itself when  *)
(* it is a try still in its body, or to the innermost try around it.       *)
DelegateToTry ==
    /\ mode = "dispatch"
    /\ stack[Top].delegate # 0
    /\ LET q == stack[Top].delegate
           ts == {i \in try_catch_stack_(stack) : i <= q}
       IN  /\ ts # {}
           /\ GotoCatch(Back_(ts))
    /\ UNCHANGED <<unwind_target, active, depth, saved_depth>>

(* No try of this function is around the label: thrown to the caller. *)
DelegateToCaller ==
    /\ mode = "dispatch"
    /\ stack[Top].delegate # 0
    /\ {i \in try_catch_stack_(stack) : i <= stack[Top].delegate} = {}
    /\ LET t == stack[Front_(try_catch_stack_(stack))].outer
       IN  unwind_target' = t /\ wasm_rt_throw(t)
    /\ UNCHANGED <<active, depth, saved_depth>>

Dispatch == Catch \/ NotCaught \/ DelegateToTry \/ DelegateToCaller

Next == \/ wasm_rt_impl_try \/ Call \/ Return \/ ReturnCall
        \/ Block \/ WriteTryCatch \/ WriteTryDelegate \/ End \/ GotoLabel
        \/ Throw \/ Rethrow \/ Trap
        \/ Dispatch

Spec == Init /\ [][Next]_vars

(* Dispatch is straight-line code. *)
FairSpec == Spec /\ WF_vars(Dispatch)

-----------------------------------------------------------------------------

(* The try below position n, of any call, whose body is still running. *)
Innermost(s, n) ==
    LET below == {i \in DOMAIN s : i <= n /\ Active(s[i])}
    IN  IF below = {} THEN Host ELSE Back_(below)

(* Every exit from a try, by its end, a branch, a return, a tail call, a   *)
(* throw or a delegate, leaves g_unwind_target at the innermost try that   *)
(* is still running, of this or of a calling function, or at the           *)
(* embedder's buffer; and each try's _outer_target is the one below it.    *)
(* So no throw ever jumps to a buffer that is not set or whose frame has   *)
(* returned: the abort() in WASM_RT_LONGJMP is not reached.                *)
TargetInnermost ==
    /\ mode # "abort"
    /\ mode = "run" /\ stack # <<>> => unwind_target = Innermost(stack, Len(stack))
    /\ \A i \in DOMAIN stack :
          Active(stack[i]) => stack[i].outer = Innermost(stack, i - 1)

(* The counter never falls behind the real number of calls, so that the    *)
(* check in FUNC_PROLOGUE does bound the C stack, whatever has left the    *)
(* functions in between.                                                   *)
DepthBoundsStack ==
    /\ depth >= saved_depth + Cardinality(Frames(stack))
    /\ depth <= MaxDepth

(* What WebAssembly sees of the stack, and the exception in flight. *)
Control(s) == [i \in DOMAIN s |->
                 [kind |-> s[i].kind, phase |-> s[i].phase, catches |-> s[i].catches,
                  delegate |-> s[i].delegate, saved |-> s[i].saved]]
InFlight == IF mode = "dispatch" THEN active ELSE NoTag

(* A thrown exception runs the clause that WebAssembly's semantics gives   *)
(* it, with the payload it was thrown with, and no other.                  *)
Semantics == INSTANCE ExnSemantics WITH ctl <- Control(stack), exc <- InFlight
ImplementsSemantics == Semantics!Spec

(* A thrown exception is not passed around forever: some catch block, or   *)
(* the embedder, gets it.                                                  *)
DispatchEnds == mode = "dispatch" ~> mode # "dispatch"
=============================================================================
