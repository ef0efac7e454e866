# Verification of wasm2c-memorytrace

wasm2c-memorytrace is a fork of WABT, the WebAssembly Binary Toolkit, whose `wasm2c` can
write C that prints the address of every load and store. This project models its own logic:
the formats a module is read from and written to, the validator that every tool relies on, the
interpreter with its code generator and its heap, and wasm2c, from the C it writes to the
run time that C is linked with. `PROJECT.json` is the index: components, runs, mutants,
source lines of each definition, findings, hazards and theorems.

## 1. The system

| Part | Source | State it keeps | Operations |
|---|---|---|---|
| Binary reader, its IR delegate | `binary-reader.cc`, `binary-reader-ir.cc` | a cursor, section bounds, a label stack | callbacks in file order |
| Binary writer | `binary-writer.cc`, `stream.cc`, `leb128.cc` | an output buffer, size fixups, relocations | write, move, backpatch |
| Text format | `wast-parser.cc`, `wat-writer.cc` | two tokens of lookahead, errors, inline fields | parse, recover, print, fold |
| Names | `generate-names.cc`, `apply-names.cc`, `resolve-names.cc` | label stack of the walk, bindings | name, apply, resolve |
| Validator | `type-checker.cc`, `shared-validator.cc`, `validator.cc` | type stack, label stack, declared functions | a method per instruction, a pass over a module |
| Interpreter code generation | `binary-reader-interp.cc`, `istream.cc` | label stack, fixups, handler table | a callback per instruction read |
| Interpreter execution | `interp.cc` | frames, values, exceptions of a thread | one step per instruction, `DoThrow`, `Call` |
| Interpreter store | `interp.cc`, `interp.h`, `interp-inl.h` | `objects_`, `roots_` (two `FreeList`s), threads, GC marks | `Alloc`, `NewRoot`, `RefPtr` copy/move/reset, `Collect`, `Mark` |
| wasm2c writer | `c-writer.cc`, `template/*` | label, type and try stacks while it writes, symbol sets | a function per kind of expression and per part of a module |
| wasm2c run time: memory | `wasm-rt-mem-impl*`, `template/wasm2c.declarations.c` | `wasm_rt_memory_t`, host blocks | allocate, grow, free, access |
| wasm2c run time: control | `wasm-rt-impl.c`, `wasm-rt-exceptions-impl.c` | unwind target, `jmp_buf`, active exception, call depth | try, throw, trap, call, return |
| wasm2c run time: tables, start | `wasm-rt-impl-tableops.inc`, `wasm-rt-impl.c` | tables, signal handler, alternate stacks | init, free, grow, copy |
| Memory trace | `mem-trace.cc`, `c-writer.cc` | `log_file` | a line before each load and store |

How they interact. A tool reads a module through `BinaryReader`, which calls back a consumer:
`BinaryReaderIR` (builds the IR), `BinaryReaderInterp` (writes interpreter code) or a printer; or it
parses text, in which case the type uses are completed and the names resolved afterwards.
An IR goes through `Validator`; the interpreter's reader calls `SharedValidator` for each instruction
and reads operand counts off its type stack, so that a validator that is wrong about a height
makes the interpreter drop the wrong values. `CWriter` trusts a validated IR. Its output
runs later, in a process of an embedder, against the run time in `wasm2c/`; embedder and wasm
code call each other, traps and exceptions leave calls by `longjmp`, threads share memories, and
modules are linked by the C names of what they import and export.
In the interpreter an embedder holds objects by `RefPtr` while threads hold bare `Ref`s that only
the collector sees.

What is hard here, and why tests hardly reach it (`hazards` in `PROJECT.json` gives each its line):

* *Orders of deletion and allocation*: free slots of a `FreeList` hold their own chain.
* *Deep and cyclic object graphs*: `Store::Mark` bounds its recursion and defers objects.
* *Ways out of a try*: end, branch, return, tail call, throw, delegate are written by different
  functions and must leave the same global in the same state.
* *Recovery*: the validator goes on after an error with whatever is on its stacks, the text parser
  skips to the next field; a file ends too early; a growth, an allocation or an instantiation fails half way.
* *Numbers fixed before they are known*: section sizes, relocation offsets, branch targets, drop and keep counts.
* *Two accounts of one stack*: operands become C variables or interpreter slots by depth, on every path to a label.
* *Names*: generated, made unique, mangled, and matched between modules.
* *Edges of 32 and 64 bits*: addresses plus offsets, page counts times page size.
* *Threads*: `pages`, `size` and `data` of a shared memory are read without the lock under which
  they are written; one signal handler serves all threads.

What makes each part correct: nothing reachable is freed and all garbage is (store); accepted code
never gets stuck and operand counts are exact (validator, interpreter); a long jump goes to the handler
WebAssembly names and never into a dead frame (exceptions); every access is inside of the memory
or traps, and a memory looks like one sequence of bytes whatever the host (memory); racing
growths and accesses are safe (shared memory); what is written is read back, and what is not well-formed
is refused (formats, text); the C computes what the module says and modules are linked to what they import
(wasm2c); the trace prints the address accessed (trace).

## 2. Modules

| Module | Models | Kind |
|---|---|---|
| `SlotPool` | what the store needs of a slot allocator | abstract specification |
| `FreeList` | `FreeList<T>` with its chain of free slots | component, refines `SlotPool` |
| `InterpStore` | `Store`, `RefPtr`, every `Mark`, `Collect`; two `SlotPool`s composed | component |
| `TypeCheckerOps` | `TypeChecker`: a method is an operator from checker to checker | operators |
| `SharedValidator` | `SharedValidator` and its callers, beside a machine that runs the code | component |
| `InterpCode` | `BinaryReaderInterp` and `Istream`: the interpreter's code generator | operators |
| `InterpThread` | validator, code generator and `Thread` composed | component |
| `WasmIR` | `ir.h`, the opcode table, look-ups | operators |
| `Leb128` | `leb128.cc` on bytes | operators |
| `BinaryWriter`, `BinaryReader`, `BinaryReaderIR` | the binary format, both ways | operators |
| `Validator` | the pass of `validator.cc` over a module | operators |
| `Formats` | writer, a file that gets damaged, reader, validator composed | component |
| `WatWriter`, `WastParser` | the text format, both ways, on tokens | operators |
| `Names` | `GenerateNames`, `ApplyNames`, `ResolveNames`, `ResolveFuncTypes` | operators |
| `Text` | names, writer, an edited text, parser, resolver composed | component |
| `ExnSemantics` | what WebAssembly says of try, catch, delegate, throw | abstract specification |
| `W2CUnwind` | calls, trys, traps and long jumps of the generated C | component, refines `ExnSemantics` |
| `LinearMemory` | what WebAssembly says of a memory | abstract specification |
| `W2CMemory` | one memory in the generated C and the run time | component, refines `LinearMemory` |
| `W2CSharedMemory` | threads that access and grow a shared memory | component |
| `CWriter` | the C statements that wasm2c writes for a function body | operators |
| `WasmSemantics` | what WebAssembly says a body computes | reference definition |
| `W2CBody` | that C, run statement by statement | component, against `WasmSemantics` |
| `W2CNames` | C identifiers: mangling, prefixes, uniqueness | operators |
| `W2CRuntime` | start and end of the run time by several threads | component |
| `ModuleStore` | what WebAssembly says of linked instances | abstract specification |
| `W2CModule` | linked modules in C, over `W2CRuntime` | component, refines `ModuleStore` |
| `FreeListProofs`, `InterpStoreProofs`, `SharedValidatorProofs`, `InterpThreadProofs`, `W2CUnwindProofs`, `W2CMemoryProofs`, `W2CSharedMemoryProofs`, `W2CModuleProofs` | theorems about the component each is named after | proofs |
| `MCSharedValidator`, `MCInterpThread`, `MCFormats`, `MCText`, `MCW2CMemory`, `MCW2CBody`, `MCW2CModule` | modules, programs and builds to check with | instances |

Names are those of the source where TLA+ allows it. Operators whose name ends in `_Something` after
the name of another are mutated forms of it, and are used by the mutants of `PROJECT.json` only. The passes over
a whole module (writers, readers, parser, validator, C writer) are sequential code: they are operators on a
record that holds the object's members. The components that compose them take their results as parameters
(`Written`, `SectionRead`, `Validates` in `Formats`; `Generated`, `Applied`, `FieldParsed`, `FieldsResolved`, `Resolved`,
`HasErrors` in `Text`; `CCode` in `W2CBody`; `Build` in `W2CModule`), and the `MC` modules bind each one to the
operator of that component, so that TLC evaluates them once and not in every formula that mentions them.

**FreeList.** `list_` is a sequence of words, as in the code: an item, or a free slot that holds
the index of the next free one. `New` and `Delete` are the two actions. The mapping to `SlotPool`
forgets the chain.

**InterpStore.** `objects` and `roots` are slot pools, `handle` the embedder's `RefPtr`
variables, `thread` what running threads hold. Collecting is modelled call by call: `pending` is the
recursion of `Mark`, one level per call, `untraced` the deferred objects. The embedder's
operations happen between collections, since `Collect` is synchronous. Object fields are sets of
`Ref`s; finalizers and `host_info` are left out.

**SharedValidator.** `tc` is the checker (type stack, label stack, `ok`); `open` is what the caller
has opened. `m` is a machine of its own that never reads the checker: per block it keeps the operands below,
the types a branch carries and the stacks with which branches left. The properties compare the
two. `TypeCheckerOps` says what each method leaves on the stacks when it fails, because `Validator`
carries on, whereas the binary readers stop; a profile says which of the two the caller is.

**InterpCode, InterpThread.** A module is made up while it is read: each step hands the reader one more instruction that the
validator accepts. `r` is the reader: the stream (a cell per opcode and immediate, so that offsets are offsets), label stack,
fixups by label depth and by function, handlers with their ranges. Once the module is complete a thread `t` runs an exported function in one of two instances;
a value is its type, and a condition, table entry or index is any that the type allows. `at` and `src` are histories: what the validator
knew at each offset, and the instructions as they came. The properties compare the run with them.

**Formats.** `file` is a sequence of bytes. `Write` writes the module of the profile, `Cut` and `Flip` damage the file, `ReadStep` reads one
section (`BinaryReader` over `BinaryReaderIR`), `Validate` runs `Validator`. A failed read clears `ok` and skips the rest of
its section, which is what the chain of early returns does.

**Text.** The stages of `wasm2wat` followed by `wat2wasm`: generate names, apply them, print, edit, parse field by field,
complete type uses, resolve names. A text is the sequence of its tokens. `WastParser` keeps two things apart that the code keeps
apart: whether the last operation succeeded, and whether an error was recorded.

**W2CUnwind.** `stack` holds calls, blocks and trys together, innermost last. The writer's
`label_stack_` and `try_catch_stack_` at an instruction are functions of it: they contain what the
innermost call has entered. A try entry keeps the C locals that `BeginTry` declares. `mode = "dispatch"`
is the code between a `longjmp` (or `goto`) and the catch clause. Every jump checks that its buffer
is set and its frame still exists; otherwise the model goes to `mode = "abort"`.

**W2CMemory.** `mem` is `wasm_rt_memory_t`, `block` what `data` points to, with its bytes. `build`, chosen at first and never changed, is
the generated module with its host and options: the index type, the allocation strategy, checks or guard pages, the byte order,
the trace, the limits, the bytes the host can provide, and which operands its instructions have. An
instruction is fetched with arbitrary operands, then executed by the action of its kind: the address
sum with its width, the check, the position in the block, and, with guard pages, the fault.
`last` is its outcome, `Wild` if the C program's behaviour is undefined. 2^32, 2^64
and the page size are constants, scaled down for TLC (8, 32 and 2).

**W2CSharedMemory.** Each read or write of a member of `wasm_rt_shared_memory_t` is a step. Assignments
in `grow_memory_impl` happen in any order, since the members are plain. `heap` gives the accessible bytes of each live block;
`realloc` may extend a block in place or move it. `granted` is a history of the pages that growths returned.

**CWriter, W2CBody.** `CWriter` is `Write(ExprList)` with its type and label stacks: it yields the C statements of a
function and of its tail-callee version, with braces flattened to labels. `W2CBody` runs them: `frames` are C frames, a variable
not yet written is undefined, and so is a part of `tail_call_stack`; reading one, or undefined arithmetic, is a fault. When the entry function ends its results
are compared with `WasmSemantics`, which evaluates the body directly.

**W2CModule.** `cells` are the instance structs, by the C names of their members, so that a clash of names is a clash of members. A step
executes one statement of `<module>_instantiate`, one table or reference instruction, or one call by the embedder, who starts the run time, opens
logs, makes instances in the order of their imports, and frees them. `wild` records that a pointer was followed that leads nowhere.

**W2CRuntime.** One handler of the process, one alternate stack per thread; a stack overflow in a thread that runs wasm code without either ends the process.

## 3. Runs

Runs end in half a minute to three minutes on two workers. Each property has a mutant: a plausible
bug of the code which the same run rejects.

| Run | Shows | Bounds and why they are enough |
|---|---|---|
| `free_list` | the counter of free slots; refinement of `SlotPool` | 4 slots: chains of length 0 to 3, deletion of head, middle and end |
| `store` | ownership of roots, nothing reachable freed, all garbage collected, `Collect` ends | 2 objects of 5 kinds and the null object, 2 handles, one thread, recursion limit 1, so that a chain of 2 defers |
| `unwind` | unwind targets, depth bound, refinement of `ExnSemantics` (no wild jump among it), dispatch ends | 5 entries: two calls with a try in each and one more entry, or a delegate past a block to an outer try; 3 tags, one with a payload that does not fit the buffer; depth limit 2 |
| `validator` | soundness, limits of the label stack, nesting, declared references | two profiles: blocks, branches and unreachable code with a caller that carries on after errors; calls, tail calls, references, globals, tables of both index types and initializers with one that stops |
| `interp` | branches land, code and stacks typed, handlers and current instance right | the modules of `MCInterpThread`, each making one kind of instruction meet those it interacts with; at most 3 frames, so that calls and tail calls nest and overflow |
| `formats` | round trip, relocation offsets, truncation, closure of what is accepted | five modules (control with exceptions and names; memory, SIMD and atomic; segments, tables and references; long sizes with relocations; code metadata); every cut, every byte replaced by its successor or by 255; custom-section errors fatal or not |
| `text` | round trip, names, recovery, type uses | four modules; folded or flat, imports and exports inline or not, names generated or not; on the small one every edit of one token (dropped, doubled, swapped, an extra `)`, another type, another name) |
| `w2c_body` | labels, no undefined behaviour, results, C frames of tail calls | i32 has 4 bits and i64 8, every pair of operands; branches of every kind past 0 to 2 operands and blocks, loops with operands, calls with 0 to 2 results, tail calls |
| `w2c_module` | pointers, run time, symbols and links, refinement of `ModuleStore` | seven programs (a dropped segment, growth, copies, two instances of a module, a chain of re-exports, a trapping instantiation, a traced module), operands 0, 1 and 7 of 3 bits, 2 threads, up to 2 instructions |
| `memory` | refinement of `LinearMemory`, no access out of bounds, no undefined behaviour | four builds: malloc with a maximum; big-endian with failing reallocs; mmap with guard pages, widths up to 4 at the largest address and offset; a 64-bit memory. Every address and length of the index type, pages of 2 bytes, up to 4 of them |
| `shared_memory` | accesses against growth, growth against growth | 2 threads, 0 to 2 pages, every access end, blocks that move or grow in place |
| `memory_trace` | a disagreement, see below | the traced build |

`MaxStack`, `Block`, `Capacity`, `host_memory`, the sizes of made-up bodies and the number of instructions in `w2c_module` are the
artificial bounds. Deadlock checking is off where a run really ends: a validated body, a module that has been read, a program that has returned.

### A run that shows a disagreement

`memory_trace`: the traced address lacks the static offset of the instruction (`c-writer.cc:5099`), although the comment above says "print memory addresses".

### Met while modelling

Where a definition covers such a case it follows the code, but the builds, modules and bounds of the runs leave them out, because the properties above do not hold there.

Memory and calls of generated C:

* address plus static offset wraps at 64 bits before the check of a 64-bit memory (`c-writer.cc:5115`; build `Wide` has no offsets);
* `memory_fill`, `memory_copy` and `memory_init` truncate the operands of a 64-bit memory to 32 bits (`wasm2c.declarations.c:547`; `Wide` has no bulk instructions);
* growing a 64-bit memory of p pages by 2^64 - p returns 0, the answer of an empty memory, instead of -1 (`wasm-rt-mem-impl-helper.inc:100`; `Wide` has no such growth);
* growing a 64-bit memory without a maximum to 2^48 pages computes size 0 and frees it (`wasm-rt-mem-impl-helper.inc:107`; `Wide` has a maximum); on a 32-bit host growing any memory to 65536 pages does the same, as `realloc` gets its size as `size_t` (`wasm-rt-mem-impl-helper.inc:116`). `ValidBuild` leaves both out;
* a failed `calloc` is not noticed (`wasm-rt-mem-impl-helper.inc:92`, and for tables `wasm-rt-impl-tableops.inc`);
* without mmap a growth frees a shared memory under an access of another thread (`wasm-rt-mem-impl-helper.inc:116`; `wasm-rt.h:479` calls growth threadsafe). `AccessInside` is the part that holds: an access is inside of its block as long as the block lives;
* `wasm_rt_throw` leaves the frames it skips on `wasm_rt_call_stack_depth` (`wasm-rt-exceptions-impl.c:47`; `wasm-rt.h:304` says "Current call stack depth"). `DepthBoundsStack` is the part that holds: the counter only errs upwards.

Function bodies in C:

* `return_call` and `return_call_indirect` with operands below the arguments leave the results above index 0, and the `goto` to the end does not move them (`c-writer.cc:3000-3018`, `4010-4015`);
* `return_call_indirect` in a tail callee, to a function without a tail-callee version, does not copy the results to `tail_call_stack`;
* dead code behind `throw` or `rethrow` is still written, and can underflow `type_stack_`;
* `WriteTailCallWeakImports` passes `params`, not its address, to `wasm_rt_memcpy`; `ReturnCall` of an import names the member without `instance->`.

Modules in C:

* an element `ref.func` of an imported function stores the address of the member that holds the pointer (`c-writer.cc:2378`), for `module_offset` is added to the instance;
* `import_module_sym_map_` has no index space in its key; `DefineImportName` replaces an existing symbol, so that a module that imports from one of its own name clashes with its own exports;
* `wasm_rt_free` does not reset `g_alt_stack`: `wasm_rt_init` after it meets its assertion (`wasm-rt-impl.c:226`);
* `Mangle` is not injective: `0_` and `00x5F` become one name (`c-writer.cc:745` says it is; `SymbolsDistinct` leaves out names with `00x`);
* active element segments are copied before memories exist: if a later one traps, functions already in a table of another module run in an instance without memories;
* a traced start function writes to `log_file` before the examples open it (`rot13/main.c:49`); the declarations of `file_open` and `file_close` are written without `--trace` too.

Interpreter:

* the range of a handler starts right behind the instruction before its `try`, where the return address of a call lies: an exception of that call is caught (`interp.cc:2618`);
* the drop and keep counts of `return_call` are taken after the validator popped the arguments: operands below leak (`binary-reader-interp.cc:1152`);
* the height of a handler lacks the declared locals and has the block's parameters (`interp.cc:2670`);
* `func_fixups_` is filled by function index and resolved by defined index: a forward `return_call` in a module with imports is never patched;
* `InterpAdjustFrameForReturnCall` leaves the frame's base when the parameter counts differ; `DoReturnCall` ignores the trap of a host function;
* `refs_` goes stale (`interp.cc:1118`); `catch` behind `catch_all` is accepted.

Validator:

* a select annotated with a type pushes `Any` (`type-checker.cc:859`), so that the f32 it selects is accepted as an i32; `man/wasm-validate.1:13` promises that the module is validated;
* `return_call_indirect` takes an i32 index from a 64-bit table; `call_ref` in unreachable code asks a bottom type for its index, against an assert of `type.h:132`;
* an empty element expression is asked for its first instruction (`validator.cc:850`); `v128.const` needs no feature as an initializer;
* `catch_all`, `ref.func`, `table.fill` and `v128.load32_zero` are enabled whatever the features (`opcode.cc`, `IsEnabled`).

Binary format:

* the index of a local name is not bounded, against an assert of `ir.cc:584`; the function index of code metadata is read as a count; metadata before an opcode with a prefix is not found;
* relocations move with a size fixup by the section of an earlier reloc section; a named global or table that has a symbol too is renamed;
* the flag for an explicit memory index of a data segment is written without the index, unless multi-memory is on; skipping bodies sets the offset past the end of the section;
* with errors in custom sections to be ignored, they still end in failure (`binary-reader.cc:2999`, against the help of `wasm2wat.cc:85`);
* a file cut right before its data section is accepted, whatever DataCount says. `ValidatedClosed` states the count for files that have the section.

Text format:

* not printed: the table of `return_call_indirect`, the memory of atomic, splat and zero instructions; printed so that it cannot be read: folded code metadata, initializers of several instructions, names of locals and labels with odd characters, `memory.init` of another memory than 0;
* `nan:canonical` as an integer constant is dropped silently (`wast-parser.cc:2784`); a stray `(` behind folded catch clauses is accepted (`3205`); both edits are left out of the run;
* a label that is shadowed is applied to the wrong block by wat-desugar; duplicate names of data segments are accepted; SIMD loads, stores and comparisons need no feature;
* `ParseModuleCommand` uses a null module when a quoted one fails; `ParseOffsetExprOpt` returns true on an error; `ParseTextList` fails without a message; `wasm2wat` overwrites a failed validation with the result of `GenerateNames`.

## 4. Fairness

Two properties need it. `CollectTerminates` assumes weak fairness of the steps of a collection: `Collect` is
one synchronous call with no wait in it. `DispatchEnds` assumes weak fairness of `Dispatch`, straight-line C
between a jump and a catch clause. Neither assumes that the embedder or wasm code does anything.

## 5. Proofs

TLAPS proves the following for every value of the constants that the named assumptions of the modules allow.

*FreeListProofs.* Inductive invariant `IInv == TypeOK /\ ChainOK`. `ChainOK` says that there is a sequence without
repetition of exactly the free slots, linked from `free_head_` by the words stored in them (`ChainCorrect`). `New` removes its first element,
`Delete` puts a new one in front. The counter (`CountCorrect`), the asserts of `New` (`NewAssertsCorrect`) and the refinement of
`SlotPool` (`ImplementsPool`) follow from it.

*InterpStoreProofs.* `IInv` joins types, ownership of roots, that nothing reachable has been freed, and the invariant of
marking: a marked object is either traced (its fields are marked or pending) or deferred. Reachability is
defined as the least closed set, so that the proofs use closure and leastness rather than induction. From `IInv`: `RefPtrsCorrect`,
`NoDanglingCorrect`, `MarksExactCorrect`, and the action properties `DeletesOnlyGarbageCorrect` and `CollectsAllGarbageCorrect`. The
recursion limit is arbitrary.

*W2CSharedMemoryProofs.* `Inv` says that the lock has at most one thread inside of `grow_memory_impl` (`Mutex`), that the members agree when
nobody is (`Settled`), and how far the growth of the holder has come (`Growing`). It gives `GrantsCorrect`, `ShrinkCorrect` and `LockCorrect` for both
allocators. `Allocated` adds the allocator: there is one block, the one of `data` or the one a growth just got, `size` never exceeds it, and what an access
checked stays below `size`, which never shrinks. It gives `AccessCorrect` for both allocators and, with `UseMmap` (needed, for `realloc` may free the block under an access), `MmapAccessCorrect`:
the block under an access always lives.

*W2CUnwindProofs.* `TargetInnermost` alone is not inductive: what restores `g_unwind_target` is a C local of the try that is left. `IInv` adds types, that no
jump has failed, that the embedder's buffer is set while code runs, that dispatch happens at a try that runs, that the `_outer_target` of each running try is the
innermost one below it (`Outers`), and that the buffers of running trys are set (`Buffers`). `Innermost` is a CHOOSE of the largest running try, so that a dozen
lemmas (push, pop, cut at a label, leave a try) replace an induction over the stack. `UnwindInvariant` is the invariant, `TargetCorrect` follows. `DepthInv` gives `DepthCorrect`: the
counter is at least the saved depth plus the calls on the stack, since every way to leave calls takes at least as many entries off the stack as it takes off the counter.

`SemanticsImplemented` is the refinement of `ExnSemantics`, without any hypothesis. The abstract machine has no buffers and no targets; where an exception goes is a recursive
function of its control stack, and the code gets there by a chain of `goto`, dispatch and `longjmp`. `SemInv` adds to `IInv` what that needs: the label of a delegate is that of an entry below the try, not
below its function, and a try in a catch block has the tag it caught. That the recursive function exists and that each of its values is the one the code computes is shown by a smallest
height of the stack at which they differ; each step of the code is then one of the abstract machine or none.

*W2CMemoryProofs.* `MemInv` says that between allocation and release the block lives and has `size` bytes, `size` is `pages` times the page size, and `pages` is
within `max_pages`; and that an instruction only waits in an instance that exists. The argument is one of widths: a page sum that wraps is less than `pages` and refused, one that
does not is within the maximum, whose bytes fit `size_t` (`ValidBuild`); a sum of address and offset that passed its check did not wrap in the check, so that it ends inside of the block on
either byte order; with guard pages it starts below 2^33, where everything from `size` on is reserved, and its first byte beyond `size` faults. This gives `DataCorrect` and `WildCorrect` for every
build, page size and word size, with the offsets and bulk operands of 64-bit memories that the run leaves out: these instructions may access another address than WebAssembly says, but none outside of the memory.

`LinearImplemented` is the refinement of `LinearMemory`, step by step. The mapping turns the block of a big-endian host around (`ByAddress`), so that
growth, which moves the bytes there, has to be shown to leave every byte at its address and zeros above. The instructions are shown to do on the block what they do on
that sequence: a load or store of w bytes at one end or the other, fill, copy and init as a sequence of bytes, the outcome of each check as the outcome WebAssembly prescribes.
It needs `ExactBuild` for every build, which asks of 64-bit memories what section 3 says the code gets wrong there: no static offsets, bulk instructions or growths that wrap. 32-bit
memories need nothing. The builds of the run are exact, which TLC evaluates (`ExactBuilds`).

*SharedValidatorProofs.* `ShapeInv` says that the stacks of the checker hold types and labels, that the limits of the labels are ordered and within the type stack, and that the labels cover the blocks that the caller has
open, one for one until something fails; it holds after errors too. It gives `LimitsNested`, `BlocksCovered` and `ReferencesDeclared`. `Soundness` needs more:
`SoundInv` puts the checker beside the machine that runs the code. Until an error is reported each frame of the machine has the types of its label and, if it was entered, below it the type stack up to the label's limit, without `Any`;
every branch that left it carried its results; a machine that runs has the very type stack, no `Any` on it, under a label that is not unreachable. `Rooted` says that the outermost block is a body or an initializer. For
each instruction there is a lemma on what its method pops and pushes, and one that the machine does the same. `Exact` says which code is meant: selects without an annotation and
32-bit tables for `return_call_indirect`, for the validator is wrong about the others (section 3). TLC evaluates it for the profiles of the run (`ExactProfiles`), and `ProfilesAssumption` says what a profile is.

*InterpThreadProofs.* `ThreadInv` makes no assumption on the code that runs: offsets and operands may be anything. It says that there are at most `Capacity` frames, that a thread that runs is in a call, in the
instance of the innermost frame, and that one that ended by a return or an exception has no frame. `InstanceFollowsCalls` (`InstCurrent`) and `CallDepth` follow: what a tail call into another instance, a return over it or a handler
found three frames down does to `inst_` and `mod_` does not depend on what the validator accepted.

`TypedCodeRuns` proves `StackTyped` for every set of modules, every capacity and every path through typed code. Its hypothesis is `[](Complete => CodeTyped)`: once read, the module is typed offset by
offset. A typing `T` gives offsets a shape: function, types on the stack from the frame's arguments on, caught exceptions. `WellTyped(T)` says that functions start with their arguments, that `T` is what the validator
knew where it knew anything, and that each instruction finds what it needs (`Fits`), goes on at offsets where `T` has what it leaves (`Flows`) and, if it can raise an exception, is in the range of
handlers only that restore heights the frame has and start where `T` has what they leave (`Lands`). No thread occurs in it: it is about the code alone, one instruction at a time. `HandlersRight` checks it with the typing
that `Typing` computes for every complete module of the run. That `StackTyped` follows needs the invariant `TypedInv` (theorem `TypedRuns`), since a thread is more than its innermost frame: `T` has the shape of the innermost frame at its offset (`Over`), and there is a division
of the values below it, and one of the exceptions, that gives each waiting frame what `T` has at its return offset without the results it waits for (`AllWait`). A call adds a part to the division, a return takes one off, and a
tail call replaces the innermost frame in an instance that may be another. An exception is the hard step: `DoThrow` may find its handler in any waiting frame, whose values it cuts at the handler's height; that cuts only what the
frame holds and what is above it, since `Lands` holds of the frame without the results (the clause in `Waits`), which no instruction ever checked when the frame called. A tail call to a function with
another number of parameters leaves the frame's base wrong, which matters to handlers only: such code is typed in modules without any `try`, and not in others, where the code does go wrong (section 3). Whether the parts of the division are the stack as `StackTyped` writes it is a lemma about `FlattenSeq` (`FlattenParts`): prefixes of a sequence satisfy the recursion that defines it, and
a smallest difference shows that nothing else does.

*W2CModuleProofs.* `ModuleInv` has four parts. `RtInv`: where each thread is in its life determines its alternate stack, and where Main is the handler of the process. `LogInv`: logs are open only while the run time is. `Struct`: what an instance owns is in its struct once
its statement has been executed, all of it when the instance is ready, dead when it is freed; a table or memory is only changed in its data and size; the member for an imported global leads to a global, so that `global.set` through it
cannot bring a freed table back to life. `WellLinked`: what this asks of the linked modules, that members of different sorts have different names, that the statements of instantiate contain one for each table and memory and end in a return, and that indices are those of declarations. From these
`RuntimeReleases` proves `RuntimeStands` for any number of threads, instances and instructions. `WellLinked` is a hypothesis and not a theorem since it is about the output of `SymbolsOf` and of filters of sequences,
whose value takes induction; the run evaluates it in `SymbolsDistinct` for its programs.

Only model-checked:

* the two liveness properties (fairness and ENABLED are beyond the prover);
* `Formats`, `Text`, `W2CBody` and `SymbolsDistinct`: they are about what recursive functions over bytes, tokens, expressions and names compute, which takes induction over data;
* `BranchesLand` and `HandlersRight` of `InterpThread`, of which the hypothesis `CodeTyped` of `TypedCodeRuns` is a part, for the same reason: the offsets of the code, the counts in it and the heights of handlers are those that the generator computed while it read a body;
* `PointersLead`: a function in a table of another module may run before its own instance is complete (section 3), so that it holds only of programs that avoid it, which is a condition on all of what they execute; and the refinement of
  `ModuleStore`, where each reference has to be followed through the wrappers of its exports.

## 6. Not modelled

* Floating point, SIMD arithmetic, literals, UTF-8, SHA-256: full-width computation without state. Integer instructions of wasm2c are modelled at 4 and 8 bits.
* The lexer: a text is its tokens. Commands of wast scripts (`assert_return` and the like) and the tools that run them.
* The decompiler, the disassembler, objdump, strip, stats and other printers; options and drivers beyond the order in which they call the parts above.
* WASI wrappers and the wasm C API, which forward to external libraries or to `RefPtr` and `Store`.
* Atomic read-modify-write and fences of wasm2c, which are single C11 operations; wait and notify, which it does not implement. Segue.
* What instructions of the interpreter compute (a value is its type there), the contents of its memories and tables, and `refs_`.
* Values of C locals across `longjmp`, and the size of the C stack.
* Host functions that enter wasm code again under a `wasm_rt_impl_try` of their own: embedder code.
* Finalizers, which are arbitrary code of the embedder; `src/mem-trace.cc`, a command that loads a library and prints.

`PROJECT.json` has the reason for each component.

## 7. What could come next

1. `refs_` of a thread in `InterpThread`, with `InterpStore` as its heap.
2. Host functions that re-enter, in `W2CUnwind`.
3. The lexer, and the commands of scripts.
4. Proofs: `PointersLead` of programs without element segments into imported tables; that the code generator makes typed code (`CodeTyped`), for bodies as far as they have been read.
