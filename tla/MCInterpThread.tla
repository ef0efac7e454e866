--------------------------- MODULE MCInterpThread ---------------------------
(***************************************************************************)
(* Modules for the runs of InterpThread: each makes one kind of            *)
(* instruction meet the others it interacts with.                          *)
(***************************************************************************)
EXTENDS InterpThread

Sig(params, results) == [params |-> params, results |-> results]
F(params, results) == Sig(params, results)
Void == Sig(<<>>, <<>>)

\* Branches that carry and drop operands, over arguments and locals.
Branches ==
  [funcs |-> <<F(<<"f32">>, <<"i32">>)>>, imports |-> 0, tags |-> <<>>, locals |-> <<<<"i32">>>>,
   sigs |-> <<Sig(<<>>, <<"i32">>), Sig(<<"f32">>, <<"i32">>)>>,
   instrs |-> {"block", "loop", "if", "else", "end", "br", "br_if", "br_table", "return",
               "local.get", "local.set"},
   max |-> 5, stack |-> 3, exact |-> TRUE, apart |-> TRUE]

\* Calls, imports, tail calls and locals.
Calls ==
  [funcs |-> <<F(<<"i32">>, <<"f32">>), F(<<"i32">>, <<"f32">>)>>, imports |-> 1, tags |-> <<>>,
   locals |-> <<<<>>, <<"f32">>>>, sigs |-> <<Void>>,
   instrs |-> {"call", "call_indirect", "return_call", "return_call_indirect", "local.get", "local.tee", "drop",
               "select", "unreachable", "nop"},
   max |-> 4, stack |-> 3, exact |-> TRUE, apart |-> TRUE]

TailCalls ==
  [funcs |-> <<F(<<"i32">>, <<"f32">>), F(<<"i32", "f32">>, <<"f32">>)>>, imports |-> 0,
   tags |-> <<>>, locals |-> <<<<"f32">>, <<>>>>, sigs |-> <<Void>>,
   instrs |-> {"call", "return_call", "local.get"},
   max |-> 3, stack |-> 3, exact |-> TRUE, apart |-> TRUE]

\* Exceptions, in a caller and a callee of two instances.
Exceptions ==
  [funcs |-> <<F(<<>>, <<>>), F(<<>>, <<>>)>>, imports |-> 1, tags |-> <<<<>>>>,
   locals |-> <<<<>>, <<>>>>, sigs |-> <<Void>>,
   instrs |-> {"try", "catch", "catch_all", "delegate", "end", "throw", "rethrow", "call", "br",
               "return"},
   max |-> 6, stack |-> 1, exact |-> TRUE, apart |-> TRUE]

\* Payloads on the value stack of the handler.
Payloads ==
  [funcs |-> <<F(<<"i32">>, <<"f32">>)>>, imports |-> 0, tags |-> <<<<"f32">>>>,
   locals |-> <<<<>>>>, sigs |-> <<Sig(<<>>, <<"f32">>)>>,
   instrs |-> {"try", "catch", "catch_all", "end", "throw", "f32_const", "drop", "br"},
   max |-> 7, stack |-> 2, exact |-> TRUE, apart |-> TRUE]

\* Catch blocks within catch blocks.
Rethrows ==
  [funcs |-> <<F(<<>>, <<>>)>>, imports |-> 0, tags |-> <<<<>>>>, locals |-> <<<<>>>>,
   sigs |-> <<Void>>, instrs |-> {"try", "catch_all", "end", "throw", "rethrow", "br"},
   max |-> 8, stack |-> 1, exact |-> TRUE, apart |-> TRUE]

\* Every plain instruction, on arguments of every type.
Plain ==
  [funcs |-> <<F(<<"i32", "f32", "v128", "funcref", "i64">>, <<>>)>>, imports |-> 0, tags |-> <<>>,
   locals |-> <<<<>>>>, sigs |-> <<Void>>,
   instrs |-> {"local.get", "drop"} \cup DOMAIN NumericOps \cup DOMAIN ConstOps
                \cup DOMAIN MemoryOps \cup DOMAIN BulkOps,
   max |-> 4, stack |-> 3, exact |-> TRUE, apart |-> TRUE]

AllModules == [branches |-> Branches, calls |-> Calls, tail_calls |-> TailCalls,
               exceptions |-> Exceptions, payloads |-> Payloads, rethrows |-> Rethrows,
               plain |-> Plain]
=============================================================================
