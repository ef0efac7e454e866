----------------------------- MODULE W2CMemory -----------------------------
(***************************************************************************)
(* A linear memory in the C that wasm2c writes: the runtime's allocation   *)
(* and growth, the checks of loads, stores and bulk instructions, the host *)
(* allocator, and the lines that wasm2c --trace adds.  One thread.         *)
(***************************************************************************)
EXTENDS Integers, Sequences

CONSTANTS
    PageSize,           \* WASM_PAGE_SIZE
    U32, U64,           \* 2^32 and 2^64
    SizeT,              \* range of the host's size_t: U32 or U64
    NoMax,              \* in place of a maximum, when none is declared
    Byte, Segment,
    Builds              \* generated modules, hosts and options, see below

(* A build: is64, the index type is i64; use_mmap, WASM_RT_USE_MMAP;       *)
(* guard_pages, WASM_RT_MEMCHECK_GUARD_PAGES; big_endian,                  *)
(* WABT_BIG_ENDIAN; trace, wasm2c --trace; initial and declared_max, pages *)
(* in the module; host_memory, the bytes that the host can provide; and    *)
(* the instructions of the module: width and static offset of its          *)
(* accesses, delta, the operands of its memory.grow, and bulk, whether it  *)
(* has bulk instructions.                                                  *)
IndexRange(b) == IF b.is64 THEN U64 ELSE U32
Index(b) == 0 .. IndexRange(b) - 1

(* Instructions: address and offset, or destination and source; length;    *)
(* the bytes of a store.                                                   *)
BulkInstr(b) ==
         [op : {"fill"}, a : Index(b), b : {0}, n : Index(b), s : [1 .. 1 -> Byte]]
    \cup [op : {"copy", "init"}, a : Index(b), b : Index(b), n : Index(b), s : {<<>>}]
    \cup [op : {"drop"}, a : {0}, b : {0}, n : {0}, s : {<<>>}]
Instr(b) ==
         [op : {"load"}, a : Index(b), b : b.offset, n : b.width, s : {<<>>}]
    \cup (UNION {[op : {"store"}, a : Index(b), b : b.offset, n : {w}, s : [1 .. w -> Byte]] :
                 w \in b.width})
    \cup [op : {"grow"}, a : b.delta, b : {0}, n : {0}, s : {<<>>}]
    \cup [op : {"size"}, a : {0}, b : {0}, n : {0}, s : {<<>>}]
    \cup (IF b.bulk THEN BulkInstr(b) ELSE {})
AnyInstr == UNION {Instr(b) : b \in Builds}
NoInstr == [op |-> "none", a |-> 0, b |-> 0, n |-> 0, s |-> <<>>]

(* max_pages of init_memories. *)
MaxOf(b) == IF b.declared_max # NoMax THEN b.declared_max ELSE IndexRange(b) \div PageSize

(* A valid module, whose first pages can be had.  Its maximum is less than *)
(* the range of size_t: new_size wraps to 0 there, and the memory is freed *)
(* (65536 pages on a 32-bit host, 2^48 pages of a 64-bit memory).          *)
ValidBuild(b) ==
    /\ {b.is64, b.use_mmap, b.guard_pages, b.big_endian, b.trace, b.bulk} \subseteq BOOLEAN
    /\ b.use_mmap => ~b.is64 /\ SizeT = U64
    /\ b.guard_pages => b.use_mmap /\ ~b.big_endian
    /\ b.initial \in Nat /\ MaxOf(b) \in Nat /\ b.initial <= MaxOf(b)
    /\ MaxOf(b) * PageSize <= IndexRange(b) /\ MaxOf(b) * PageSize < SizeT
    /\ b.host_memory \in Nat /\ b.initial * PageSize <= b.host_memory
    /\ b.width \subseteq 1 .. U32 /\ b.offset \subseteq Index(b) /\ b.delta \subseteq Index(b)

ASSUME MemoryAssumption ==
    /\ PageSize \in Nat \ {0} /\ U32 \in Nat \ {0} /\ U64 \in Nat /\ 4 * U32 <= U64
    /\ SizeT \in {U32, U64}
    /\ 0 \in Byte /\ Segment \in Seq(Byte)
    /\ \A b \in Builds : ValidBuild(b)

VARIABLES
    build,      \* the build that runs, one of Builds
    mem,        \* wasm_rt_memory_t without the data pointer
    block,      \* what the data pointer points to
    dropped,    \* instance->data_segment_dropped_<segment>
    ins,        \* the instruction the wasm code is about to execute
    last        \* outcome of the last one

vars == <<build, mem, block, dropped, ins, last>>

Zeros(n) == [i \in 1 .. n |-> 0]
Garbage == -1

Trap == [t |-> "trap", v |-> <<>>]
Done == [t |-> "done", v |-> <<>>]
Wild == [t |-> "wild", v |-> <<>>]     \* the C program's behaviour is undefined
Returns(s) == [t |-> "value", v |-> s]

(* What an instruction did, and the address its trace prints next to the   *)
(* one it accesses.                                                        *)
NoLog == <<>>
Outcome(r) == [res |-> r, log |-> NoLog]

None  == [state |-> "none", bytes |-> <<>>]    \* before allocation
Null  == [state |-> "null", bytes |-> <<>>]
Freed == [state |-> "freed", bytes |-> <<>>]
Block(s) == [state |-> "live", bytes |-> s]

-----------------------------------------------------------------------------
(* init_memories and the allocator *)

max_pages == MaxOf(build)

(* Mutant: half of the range of 32-bit address plus 32-bit offset. *)
get_alloc_size_for_mmap_Short ==
    IF build.guard_pages THEN U32 ELSE IF max_pages # 0 THEN max_pages * PageSize ELSE U32

get_alloc_size_for_mmap ==
    IF build.guard_pages THEN 2 * U32 ELSE IF max_pages # 0 THEN max_pages * PageSize ELSE U32

(* calloc's result is not looked at.  With mmap a failure aborts. *)
wasm_rt_allocate_memory ==
    LET byte_length == (build.initial * PageSize) % U64
    IN  /\ block.state = "none"
        /\ build.use_mmap => byte_length <= build.host_memory
        /\ mem' = [size |-> byte_length, pages |-> build.initial, max_pages |-> max_pages]
        /\ block' = IF ~build.use_mmap /\ byte_length % SizeT > build.host_memory THEN Null
                    ELSE Block(Zeros(byte_length % SizeT))
        /\ dropped' = FALSE
        /\ last' = Outcome(Done)
        /\ UNCHANGED <<build, ins>>

(* The members keep their values; the next instance assigns them. *)
wasm_rt_free_memory ==
    /\ block.state # "none"
    /\ ins = NoInstr
    /\ block' = None
    /\ last' = Outcome(IF block.state = "freed" THEN Wild ELSE Done)
    /\ UNCHANGED <<build, mem, dropped, ins>>

Fetch == /\ block.state # "none"
         /\ ins = NoInstr
         /\ last.res # Wild
         /\ ins' \in Instr(build)
         /\ last' = Outcome(Done)
         /\ UNCHANGED <<build, mem, block, dropped>>

Execute(op) == ins.op = op /\ ins' = NoInstr /\ UNCHANGED build

-----------------------------------------------------------------------------
(* Addresses *)

(* MEM_ADDR: position of an object of n bytes at address a in the block. *)
MEM_ADDR(a, n) == IF build.big_endian THEN mem.size - a - n ELSE a

(* RANGE_CHECK: a u64 sum, with __builtin_add_overflow in 64-bit builds. *)
RANGE_CHECK(a, n) == /\ build.is64 => a + n < U64
                     /\ (a + n) % U64 <= mem.size

MEMCHECK(a, n) == build.guard_pages \/ RANGE_CHECK(a, n)

(* The n bytes at position p belong to the block. *)
Owned(p, n) == \/ n = 0
               \/ block.state = "live" /\ p >= 0 /\ p + n <= Len(block.bytes)

(* The access meets a page that is reserved and not accessible; the signal *)
(* handler, there with guard pages only, turns it into a trap.             *)
Faults(p, n) == /\ build.guard_pages
                /\ \E i \in p .. p + n - 1 :
                      Len(block.bytes) <= i /\ i < get_alloc_size_for_mmap

(* block with s written at position p. *)
Put(p, s) == [block EXCEPT !.bytes =
                 [i \in 1 .. Len(@) |-> IF i - p \in 1 .. Len(s) THEN s[i - p] ELSE @[i]]]

Flip(s) == [i \in 1 .. Len(s) |-> s[Len(s) + 1 - i]]
Native(s) == IF build.big_endian THEN Flip(s) ELSE s

(* s, in memory order, written to address a if checked: the block and the  *)
(* outcome.                                                                *)
StoreAt(a, s, checked, log) ==
    LET p == MEM_ADDR(a, Len(s))
        res == IF ~checked THEN Trap
               ELSE IF Owned(p, Len(s)) THEN Done
               ELSE IF Faults(p, Len(s)) THEN Trap ELSE Wild
    IN  /\ block' = IF res = Done THEN Put(p, Native(s)) ELSE block
        /\ last' = [res |-> res, log |-> log]
        /\ UNCHANGED <<mem, dropped>>

-----------------------------------------------------------------------------
(* Loads and stores.  The writer adds the offset to the address as a u64,  *)
(* and the trace prints the address without it.                            *)

Effective(a, o) == (a + o) % U64
Logged(a, o) == IF build.trace THEN <<a, a + o>> ELSE NoLog

Load ==
    LET n == ins.n
        e == Effective(ins.a, ins.b)
        p == MEM_ADDR(e, n)
        res == IF ~MEMCHECK(e, n) THEN Trap
               ELSE IF Owned(p, n) THEN Returns(Native(SubSeq(block.bytes, p + 1, p + n)))
               ELSE IF Faults(p, n) THEN Trap ELSE Wild
    IN  /\ Execute("load")
        /\ last' = [res |-> res, log |-> Logged(ins.a, ins.b)]
        /\ UNCHANGED <<mem, block, dropped>>

Store ==
    LET e == Effective(ins.a, ins.b)
    IN  /\ Execute("store")
        /\ StoreAt(e, ins.s, MEMCHECK(e, ins.n), Logged(ins.a, ins.b))

(* Bulk instructions take u32 arguments whatever the index type. *)
memory_fill ==
    LET d == ins.a % U32
        n == ins.n % U32
    IN  /\ Execute("fill")
        /\ StoreAt(d, [i \in 1 .. n |-> ins.s[1]], RANGE_CHECK(d, n), NoLog)

memory_copy ==
    LET d == ins.a % U32
        s == ins.b % U32
        n == ins.n % U32
        p == MEM_ADDR(s, n)
        checked == RANGE_CHECK(d, n) /\ RANGE_CHECK(s, n)
    IN  /\ Execute("copy")
        /\ StoreAt(d, IF checked /\ Owned(p, n) THEN Native(SubSeq(block.bytes, p + 1, p + n))
                      ELSE Zeros(n),
                   checked, NoLog)

(* memory_init, and LOAD_DATA, which reverses the bytes on big-endian. *)
memory_init ==
    LET d == ins.a % U32
        s == ins.b % U32
        n == ins.n % U32
        fits == s + n <= (IF dropped THEN 0 ELSE Len(Segment))
    IN  /\ Execute("init")
        /\ StoreAt(d, IF fits THEN SubSeq(Segment, s + 1, s + n) ELSE <<>>,
                   fits /\ RANGE_CHECK(d, n), NoLog)

DataDrop == /\ Execute("drop")
            /\ dropped' = TRUE
            /\ last' = Outcome(Done)
            /\ UNCHANGED <<mem, block>>

MemorySize == /\ Execute("size")
              /\ last' = Outcome(Returns(<<mem.pages>>))
              /\ UNCHANGED <<mem, block, dropped>>

-----------------------------------------------------------------------------
(* memory.grow *)

Minus1 == (U64 - 1) % IndexRange(build)

GrowFails == /\ last' = Outcome(Returns(<<Minus1>>))
             /\ UNCHANGED mem

(* Mutant: on big-endian the bytes do not move before the front is cleared. *)
Extended_MoveLost(s, delta_size) ==
    LET s2 == s \o [i \in 1 .. delta_size |-> IF build.use_mmap THEN 0 ELSE Garbage]
    IN  IF build.big_endian THEN [i \in 1 .. Len(s2) |-> IF i <= delta_size THEN 0 ELSE s2[i]]
        ELSE s \o Zeros(delta_size)

(* The bytes after realloc or mprotect, and then the memset or, on         *)
(* big-endian, the memmove to the end and the memset of the front.         *)
Extended(s, delta_size) ==
    LET new_size == Len(s) + delta_size
        raw == s \o [i \in 1 .. delta_size |-> IF build.use_mmap THEN 0 ELSE Garbage]
        moved == [i \in 1 .. new_size |-> IF i > delta_size THEN raw[i - delta_size] ELSE raw[i]]
    IN  IF build.big_endian
        THEN [i \in 1 .. new_size |-> IF i <= delta_size THEN 0 ELSE moved[i]]
        ELSE [i \in 1 .. new_size |-> IF i > Len(s) /\ ~build.use_mmap THEN 0 ELSE raw[i]]

(* realloc to zero bytes frees the block; it may return NULL or a block    *)
(* of no bytes, into which grow_memory_impl would then write.              *)
ReallocZero == \/ block' = Freed /\ GrowFails
               \/ /\ block' = Block(<<>>)
                  /\ last' = Outcome(Wild)
                  /\ UNCHANGED mem

Refused(new_pages) == new_pages < mem.pages \/ new_pages > mem.max_pages

(* Mutant: pages is updated and size is not. *)
Resize_PagesOnly(new_pages, new_size) == mem' = [mem EXCEPT !.pages = new_pages]

Resize(new_pages, new_size) == mem' = [mem EXCEPT !.pages = new_pages, !.size = new_size]

grow_memory_impl(delta) ==
    LET old_pages == mem.pages
        new_pages == (mem.pages + delta) % U64
        new_size == (new_pages * PageSize) % U64
        delta_size == (delta * PageSize) % U64
    IN  IF new_pages = 0
        THEN last' = Outcome(Returns(<<0>>)) /\ UNCHANGED <<mem, block>>
        ELSE IF Refused(new_pages)
        THEN GrowFails /\ UNCHANGED block
        ELSE IF ~build.use_mmap /\ new_size % SizeT = 0
        THEN ReallocZero
        ELSE IF (IF build.use_mmap THEN new_size ELSE new_size % SizeT) > build.host_memory
        THEN GrowFails /\ UNCHANGED block
        ELSE /\ block' = Block(Extended(block.bytes, delta_size))
             /\ Resize(new_pages, new_size)
             /\ last' = Outcome(Returns(<<old_pages>>))

wasm_rt_grow_memory == /\ Execute("grow")
                       /\ grow_memory_impl(ins.a)
                       /\ UNCHANGED dropped

Init == /\ build \in Builds
        /\ mem = [size |-> 0, pages |-> 0, max_pages |-> 0]
        /\ block = None
        /\ dropped = FALSE
        /\ ins = NoInstr
        /\ last = Outcome(Done)

Next == \/ wasm_rt_allocate_memory \/ wasm_rt_free_memory \/ wasm_rt_grow_memory
        \/ Fetch \/ Load \/ Store \/ memory_fill \/ memory_copy \/ memory_init
        \/ DataDrop \/ MemorySize

Spec == Init /\ [][Next]_vars

-----------------------------------------------------------------------------

(* "The linear memory data, with a byte length of size": after any growth, *)
(* failed growths included, the data pointer owns the bytes that accesses  *)
(* are checked against, which are the pages that memory.size reports, no   *)
(* more than the maximum.                                                  *)
DataHasSize ==
    block.state # "none" => /\ block.state = "live"
                            /\ Len(block.bytes) = mem.size
                            /\ mem.size = mem.pages * PageSize
                            /\ mem.pages <= max_pages

(* No instruction that passed its check, or relied on guard pages, leaves  *)
(* the memory reserved for it, and nothing is freed twice.                 *)
NeverWild == last.res # Wild

(* The address in the trace of a load or store is the one it accesses. *)
TraceExact == last.log # NoLog => last.log[1] = last.log[2]

(* The memory as addresses see it: on big-endian it lies in the block      *)
(* backwards.                                                              *)
ByAddress(s) == [i \in 1 .. Len(s) |-> s[IF build.big_endian THEN Len(s) + 1 - i ELSE i]]

(* A build whose memory is exactly one of WebAssembly.  A 64-bit memory    *)
(* needs care: its static offsets are added in 64 bits without a check,    *)
(* its bulk instructions cut their operands to 32 bits, and a growth whose *)
(* page count wraps to 0 returns 0.                                        *)
ExactBuild(b) ==
    b.is64 => /\ b.offset \subseteq {0}
              /\ ~b.bulk
              /\ \A d \in b.delta, p \in 0 .. MaxOf(b) : p + d # U64

(* The bytes, whatever the byte order and the allocator, are those of a    *)
(* WebAssembly memory: each instruction returns, writes or traps as it     *)
(* says, growth keeps old bytes and adds zeros.                            *)
Linear == INSTANCE LinearMemory WITH
    bytes <- ByAddress(block.bytes),
    dropped <- dropped /\ block.state # "none",
    exists <- block.state # "none",
    out <- last.res,
    Instruction <- AnyInstr,
    type <- [max |-> max_pages, minus1 |-> Minus1]
ImplementsLinear == Linear!Spec
=============================================================================
