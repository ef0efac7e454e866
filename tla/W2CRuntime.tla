----------------------------- MODULE W2CRuntime -----------------------------
(***************************************************************************)
(* The start and end of the wasm2c runtime (src/wasm2c/wasm-rt-impl.c) in  *)
(* the build that turns stack exhaustion into a trap: one signal handler   *)
(* for the process, and for each thread an alternate stack that it runs    *)
(* on.  The embedder keeps to wasm-rt.h: one thread, Main, calls           *)
(* wasm_rt_init before and wasm_rt_free after everything else, the others  *)
(* call wasm_rt_init_thread and wasm_rt_free_thread, once each.            *)
(***************************************************************************)
EXTENDS Naturals

CONSTANTS Thread, Main
ASSUME MainIsThread == Main \in Thread

VARIABLES g_signal_handler_installed,
          handler,      \* what the kernel does on SIGSEGV: "default" or "trap"
          g_alt_stack,  \* the thread's variable: has it been set
          sigaltstack,  \* has the kernel an alternate stack for the thread
          stacks,       \* threads whose alternate stack is allocated
          where,        \* where the embedder is, per thread: out, in, left
          rt_failed     \* an assertion failed, or the kernel killed the process
rtvars == <<g_signal_handler_installed, handler, g_alt_stack, sigaltstack, stacks, where, rt_failed>>

RtInit ==
  /\ g_signal_handler_installed = FALSE /\ handler = "default"
  /\ g_alt_stack = [t \in Thread |-> FALSE] /\ sigaltstack = [t \in Thread |-> FALSE] /\ stacks = {}
  /\ where = [t \in Thread |-> "out"] /\ rt_failed = FALSE

wasm_rt_is_initialized(t) == sigaltstack[t] /\ g_signal_handler_installed

os_allocate_and_install_altstack(t) ==
  /\ g_alt_stack' = [g_alt_stack EXCEPT ![t] = TRUE]
  /\ stacks' = stacks \cup {t}
  /\ sigaltstack' = [sigaltstack EXCEPT ![t] = TRUE]
\* The variable keeps the address of the freed stack.
os_disable_and_deallocate_altstack(t) ==
  /\ sigaltstack' = [sigaltstack EXCEPT ![t] = FALSE]
  /\ stacks' = stacks \ {t}
  /\ UNCHANGED g_alt_stack

wasm_rt_init(t) ==
  /\ t = Main /\ where[t] = "out"
  /\ rt_failed' = g_alt_stack[t]
  /\ os_allocate_and_install_altstack(t)
  /\ g_signal_handler_installed' = TRUE
  /\ handler' = IF g_signal_handler_installed THEN handler ELSE "trap"
  /\ where' = [where EXCEPT ![t] = "in"]
\* The embedder has joined its threads.
wasm_rt_free(t) ==
  /\ t = Main /\ where[t] = "in" /\ \A u \in Thread \ {t} : where[u] # "in"
  /\ rt_failed' = ~(wasm_rt_is_initialized(t) /\ g_alt_stack[t])
  /\ handler' = "default" /\ g_signal_handler_installed' = FALSE
  /\ os_disable_and_deallocate_altstack(t)
  /\ where' = [where EXCEPT ![t] = "left"]
wasm_rt_init_thread(t) ==
  /\ t # Main /\ where[Main] = "in" /\ where[t] = "out"
  /\ rt_failed' = g_alt_stack[t]
  /\ os_allocate_and_install_altstack(t)
  /\ where' = [where EXCEPT ![t] = "in"]
  /\ UNCHANGED <<g_signal_handler_installed, handler>>
\* Mutated: a thread that ends takes the handler of the process with it.
wasm_rt_free_thread_Handler(t) ==
  /\ t # Main /\ where[t] = "in"
  /\ rt_failed' = ~g_alt_stack[t]
  /\ os_disable_and_deallocate_altstack(t)
  /\ where' = [where EXCEPT ![t] = "left"]
  /\ g_signal_handler_installed' = FALSE /\ handler' = "default"
wasm_rt_free_thread(t) ==
  /\ t # Main /\ where[t] = "in"
  /\ rt_failed' = ~g_alt_stack[t]
  /\ os_disable_and_deallocate_altstack(t)
  /\ where' = [where EXCEPT ![t] = "left"]
  /\ UNCHANGED <<g_signal_handler_installed, handler>>
\* Code of a module runs out of stack: the kernel runs the handler on the
\* alternate stack, and it traps; without either the process is killed.
StackOverflow(t) ==
  /\ where[t] = "in"
  /\ rt_failed' = ~(handler = "trap" /\ sigaltstack[t] /\ t \in stacks)
  /\ UNCHANGED <<g_signal_handler_installed, handler, g_alt_stack, sigaltstack, stacks, where>>
=============================================================================
