-------------------------- MODULE W2CMemoryProofs --------------------------
(***************************************************************************)
(* A memory of any size in any build: the data pointer owns size bytes,    *)
(* and no access leaves them, or what is reserved behind them.             *)
(***************************************************************************)
EXTENDS W2CMemory, SequenceTheorems, TLAPS

Cell == Byte \cup {Garbage}

\* The data pointer owns the pages of the memory.
HasData ==
  /\ block.state = "live"
  /\ block.bytes \in Seq(Cell) /\ Len(block.bytes) = mem.size
  /\ mem.pages \in Nat /\ mem.size = mem.pages * PageSize
  /\ mem.pages <= MaxOf(build) /\ mem.max_pages = MaxOf(build)

\* The inductive invariant: types, and what there is between allocation and
\* release.
MemInv ==
  /\ build \in Builds
  /\ ins \in Instr(build) \cup {NoInstr}
  /\ mem \in [size : Nat, pages : Nat, max_pages : Nat]
  /\ block \in [state : {"none", "null", "freed", "live"}, bytes : Seq(Cell)]
  /\ block.state # "none" => HasData
  /\ ins # NoInstr => block.state # "none"
  /\ last.res # Wild

-----------------------------------------------------------------------------
(* Arithmetic                                                               *)

LEMMA ModSmall ==
  ASSUME NEW x \in Nat, NEW m \in Nat, x < m
  PROVE  x % m = x
OBVIOUS

LEMMA ModRange ==
  ASSUME NEW x \in Nat, NEW m \in Nat \ {0}
  PROVE  x % m \in 0 .. m - 1
OBVIOUS

LEMMA ModOnce ==
  ASSUME NEW x \in Nat, NEW m \in Nat, m <= x, x < 2 * m
  PROVE  x % m = x - m
OBVIOUS

LEMMA TimesOrder ==
  ASSUME NEW p \in Nat, NEW q \in Nat, NEW k \in Nat, p <= q
  PROVE  p * k \in Nat /\ q * k \in Nat /\ p * k <= q * k
OBVIOUS

LEMMA TimesSum ==
  ASSUME NEW p \in Nat, NEW q \in Nat, NEW k \in Nat
  PROVE  (p + q) * k = p * k + q * k
OBVIOUS

LEMMA TimesZero ==
  ASSUME NEW p \in Nat, NEW k \in Nat \ {0}, p * k = 0
  PROVE  p = 0
OBVIOUS

LEMMA TimesGrow ==
  ASSUME NEW p \in Nat, NEW k \in Nat \ {0}
  PROVE  p <= p * k
<1>1. k = 1 + (k - 1) /\ k - 1 \in Nat
  OBVIOUS
<1>2. p * k = p + p * (k - 1) /\ p * (k - 1) \in Nat
  BY <1>1
<1> QED
  BY <1>2

LEMMA AsSeq ==
  ASSUME NEW S, NEW n \in Nat, NEW f \in [1 .. n -> S]
  PROVE  f \in Seq(S) /\ Len(f) = n
OBVIOUS

-----------------------------------------------------------------------------
(* Facts about builds and instructions                                      *)

LEMMA Ranges ==
  /\ PageSize \in Nat /\ PageSize # 0 /\ U32 \in Nat /\ U32 > 0 /\ U64 \in Nat /\ 4 * U32 <= U64
  /\ SizeT \in Nat /\ SizeT <= U64 /\ U64 > 0
<1>1. PageSize \in Nat \ {0} /\ U32 \in Nat \ {0} /\ U64 \in Nat /\ 4 * U32 <= U64 /\ SizeT \in {U32, U64}
  BY MemoryAssumption
<1> QED
  BY <1>1

LEMMA Mod32 ==
  ASSUME NEW x \in Nat
  PROVE  x % U32 \in Nat /\ x % U32 < U32
<1>1. U32 \in Nat \ {0}
  BY MemoryAssumption
<1> QED
  BY <1>1, ModRange

LEMMA IndexFacts ==
  ASSUME NEW b \in Builds
  PROVE  /\ IndexRange(b) \in Nat /\ IndexRange(b) > 0 /\ IndexRange(b) <= U64
         /\ ~b.is64 => IndexRange(b) = U32
         /\ Index(b) \subseteq Nat /\ \A i \in Index(b) : i < IndexRange(b)
<1>1. IndexRange(b) = U32 \/ IndexRange(b) = U64
  BY DEF IndexRange
<1>2. ~b.is64 => IndexRange(b) = U32
  BY DEF IndexRange
<1> QED
  BY <1>1, <1>2, Ranges DEF Index

\* The bytes of a memory of p pages, p within the maximum.
LEMMA PagesFit ==
  ASSUME NEW b \in Builds, NEW p \in Nat, p <= MaxOf(b)
  PROVE  /\ p * PageSize \in Nat /\ p * PageSize < SizeT /\ p * PageSize < U64
         /\ b.guard_pages => p * PageSize <= U32
<1>1. /\ MaxOf(b) \in Nat /\ MaxOf(b) * PageSize < SizeT /\ MaxOf(b) * PageSize <= IndexRange(b)
      /\ b.use_mmap => ~b.is64 
      /\ b.guard_pages => b.use_mmap
  BY MemoryAssumption DEF ValidBuild
<1>2. p * PageSize \in Nat /\ MaxOf(b) * PageSize \in Nat /\ p * PageSize <= MaxOf(b) * PageSize
  BY <1>1, Ranges, TimesOrder
<1>3. IndexRange(b) \in Nat /\ (~b.is64 => IndexRange(b) = U32)
  BY IndexFacts
<1> QED
  BY <1>1, <1>2, <1>3, Ranges

\* The operands of an instruction, by its kind.
LEMMA Operands ==
  ASSUME NEW b \in Builds, NEW i \in Instr(b)
  PROVE  /\ i.op = "load" => i.a \in Index(b) /\ i.b \in Index(b) /\ i.n \in 1 .. U32
         /\ i.op = "store" => i.a \in Index(b) /\ i.b \in Index(b) /\ i.n \in 1 .. U32 /\ i.s \in [1 .. i.n -> Byte]
         /\ i.op = "grow" => i.a \in Index(b)
         /\ i.op = "fill" => i.a \in Index(b) /\ i.n \in Index(b) /\ i.s \in [1 .. 1 -> Byte]
         /\ i.op \in {"copy", "init"} => i.a \in Index(b) /\ i.b \in Index(b) /\ i.n \in Index(b)
<1>1. b.width \subseteq 1 .. U32 /\ b.offset \subseteq Index(b) /\ b.delta \subseteq Index(b)
  BY MemoryAssumption DEF ValidBuild
<1>2. CASE i \in [op : {"load"}, a : Index(b), b : b.offset, n : b.width, s : {<<>>}]
  BY <1>1, <1>2
<1>3. CASE i \in UNION {[op : {"store"}, a : Index(b), b : b.offset, n : {w}, s : [1 .. w -> Byte]] : w \in b.width}
  <2>1. PICK w \in b.width : i \in [op : {"store"}, a : Index(b), b : b.offset, n : {w}, s : [1 .. w -> Byte]]
    BY <1>3
  <2>2. i.op = "store" /\ i.a \in Index(b) /\ i.b \in b.offset /\ i.n = w /\ i.s \in [1 .. w -> Byte]
    BY <2>1
  <2>3. i.s \in [1 .. i.n -> Byte]
    BY <2>2
  <2> QED
    BY <1>1, <2>2, <2>3
<1>4. CASE i \in [op : {"grow"}, a : b.delta, b : {0}, n : {0}, s : {<<>>}]
  BY <1>1, <1>4
<1>5. CASE i \in [op : {"size"}, a : {0}, b : {0}, n : {0}, s : {<<>>}]
  BY <1>5
<1>6. CASE i \in [op : {"fill"}, a : Index(b), b : {0}, n : Index(b), s : [1 .. 1 -> Byte]]
  BY <1>6
<1>7. CASE i \in [op : {"copy", "init"}, a : Index(b), b : Index(b), n : Index(b), s : {<<>>}]
  BY <1>7
<1>8. CASE i \in [op : {"drop"}, a : {0}, b : {0}, n : {0}, s : {<<>>}]
  BY <1>8
<1>9. \/ i \in [op : {"load"}, a : Index(b), b : b.offset, n : b.width, s : {<<>>}]
      \/ i \in UNION {[op : {"store"}, a : Index(b), b : b.offset, n : {w}, s : [1 .. w -> Byte]] : w \in b.width}
      \/ i \in [op : {"grow"}, a : b.delta, b : {0}, n : {0}, s : {<<>>}]
      \/ i \in [op : {"size"}, a : {0}, b : {0}, n : {0}, s : {<<>>}]
      \/ i \in BulkInstr(b)
  BY Zenon DEF Instr
<1>10. i \in BulkInstr(b) =>
         \/ i \in [op : {"fill"}, a : Index(b), b : {0}, n : Index(b), s : [1 .. 1 -> Byte]]
         \/ i \in [op : {"copy", "init"}, a : Index(b), b : Index(b), n : Index(b), s : {<<>>}]
         \/ i \in [op : {"drop"}, a : {0}, b : {0}, n : {0}, s : {<<>>}]
  BY Zenon DEF BulkInstr
<1> QED
  BY <1>2, <1>3, <1>4, <1>5, <1>6, <1>7, <1>8, <1>9, <1>10, Zenon

LEMMA NoOperands == NoInstr.op = "none"
BY DEF NoInstr

-----------------------------------------------------------------------------
(* Accesses                                                                 *)

\* What a range check lets through is inside of the block, on either byte order.
LEMMA CheckedOwned ==
  ASSUME MemInv, HasData, NEW a \in Nat, NEW n \in Nat, RANGE_CHECK(a, n), build.is64 \/ a + n < U64
  PROVE  Owned(MEM_ADDR(a, n), n)
<1>1. a + n < U64 /\ (a + n) % U64 <= mem.size
  BY DEF RANGE_CHECK
<1>2. (a + n) % U64 = a + n
  BY <1>1, Ranges, ModSmall
<1>3. block.state = "live" /\ Len(block.bytes) = mem.size /\ mem.size \in Nat
  BY DEF HasData, MemInv
<1>4. CASE build.big_endian
  <2>1. MEM_ADDR(a, n) = mem.size - a - n
    BY <1>4 DEF MEM_ADDR
  <2> QED
    BY <1>1, <1>2, <1>3, <2>1 DEF Owned
<1>5. CASE ~build.big_endian
  <2>1. MEM_ADDR(a, n) = a
    BY <1>5 DEF MEM_ADDR
  <2> QED
    BY <1>1, <1>2, <1>3, <2>1 DEF Owned
<1> QED
  BY <1>4, <1>5

\* With guard pages an access that is not checked meets one, or is inside.
LEMMA GuardedFaults ==
  ASSUME MemInv, HasData, build.guard_pages, NEW a \in Nat, a < 2 * U32, NEW n \in 1 .. U32
  PROVE  Owned(MEM_ADDR(a, n), n) \/ Faults(MEM_ADDR(a, n), n)
<1>1. build \in Builds /\ block.state = "live" /\ Len(block.bytes) = mem.size /\ mem.size = mem.pages * PageSize
      /\ mem.pages \in Nat /\ mem.pages <= MaxOf(build)
  BY DEF HasData, MemInv
<1>2. ~build.big_endian
  BY <1>1, MemoryAssumption DEF ValidBuild
<1>3. mem.size \in Nat /\ mem.size <= U32
  BY <1>1, PagesFit
<1>4. MEM_ADDR(a, n) = a /\ get_alloc_size_for_mmap = 2 * U32
  BY <1>2 DEF MEM_ADDR, get_alloc_size_for_mmap
<1>5. CASE a + n <= mem.size
  BY <1>1, <1>3, <1>4, <1>5 DEF Owned
<1>6. CASE a >= mem.size
  <2>1. a \in a .. a + n - 1
    BY Ranges
  <2>2. \E i \in a .. a + n - 1 : mem.size <= i /\ i < 2 * U32
    BY <1>6, <2>1
  <2> QED
    BY <1>1, <1>4, <2>2 DEF Faults
<1>7. CASE a < mem.size /\ a + n > mem.size
  <2>1. mem.size \in a .. a + n - 1 /\ mem.size < 2 * U32
    BY <1>3, <1>7, Ranges
  <2>2. \E i \in a .. a + n - 1 : mem.size <= i /\ i < 2 * U32
    BY <1>3, <2>1
  <2> QED
    BY <1>1, <1>4, <2>2 DEF Faults
<1> QED
  BY <1>3, <1>5, <1>6, <1>7

\* The sum of address and offset, as the writer forms it.
LEMMA EffectiveFacts ==
  ASSUME MemInv, NEW a \in Index(build), NEW o \in Index(build), NEW n \in 1 .. U32
  PROVE  /\ Effective(a, o) \in Nat
         /\ ~build.is64 => Effective(a, o) < 2 * U32 /\ Effective(a, o) + n < U64
<1>1. build \in Builds
  BY DEF MemInv
<1>2. a \in Nat /\ o \in Nat /\ (~build.is64 => a < U32 /\ o < U32)
  BY <1>1, IndexFacts
<1>3. (a + o) % U64 \in 0 .. U64 - 1
  BY <1>2, Ranges, ModRange
<1>4. CASE build.is64
  BY <1>3, <1>4 DEF Effective
<1>5. CASE ~build.is64
  <2>1. a + o < 2 * U32 /\ a + o < U64 /\ a + o + n < U64
    BY <1>2, <1>5, Ranges
  <2>2. (a + o) % U64 = a + o
    BY <1>2, <2>1, Ranges, ModSmall
  <2> QED
    BY <1>2, <2>1, <2>2 DEF Effective
<1> QED
  BY <1>4, <1>5

\* A load or store that goes on is inside of the block or meets a guard page.
LEMMA AccessSafe ==
  ASSUME MemInv, HasData, NEW a \in Index(build), NEW o \in Index(build), NEW n \in 1 .. U32,
         MEMCHECK(Effective(a, o), n)
  PROVE  LET p == MEM_ADDR(Effective(a, o), n) IN Owned(p, n) \/ Faults(p, n)
<1>1. PICK e : e = Effective(a, o)
  OBVIOUS
<1>2. e \in Nat /\ (~build.is64 => e < 2 * U32 /\ e + n < U64)
  BY <1>1, EffectiveFacts
<1>3. CASE build.guard_pages
  <2>1. build \in Builds
    BY DEF MemInv
  <2>2. ~build.is64
    BY <1>3, <2>1, MemoryAssumption DEF ValidBuild
  <2> QED
    BY <1>1, <1>2, <1>3, <2>2, GuardedFaults
<1>4. CASE ~build.guard_pages
  <2>1. RANGE_CHECK(e, n)
    BY <1>1, <1>4 DEF MEMCHECK
  <2>2. n \in Nat /\ (build.is64 \/ e + n < U64)
    BY <1>2, Ranges
  <2> QED
    BY <1>1, <1>2, <2>1, <2>2, CheckedOwned
<1> QED
  BY <1>3, <1>4

\* Operands of the bulk instructions, cut to 32 bits, and their check.
LEMMA BulkSafe ==
  ASSUME MemInv, HasData, NEW a \in Index(build), NEW m \in Index(build), RANGE_CHECK(a % U32, m % U32)
  PROVE  Owned(MEM_ADDR(a % U32, m % U32), m % U32)
<1>1. build \in Builds
  BY DEF MemInv
<1>2. a \in Nat /\ m \in Nat
  BY <1>1, IndexFacts
<1>3. a % U32 \in 0 .. U32 - 1 /\ m % U32 \in 0 .. U32 - 1
  BY <1>2, Ranges, ModRange
<1>4. a % U32 \in Nat /\ m % U32 \in Nat /\ (a % U32) + (m % U32) < U64
  BY <1>3, Ranges
<1> QED
  BY <1>4, CheckedOwned

-----------------------------------------------------------------------------
(* Steps                                                                    *)

\* A step that leaves the members of the memory alone.
LEMMA KeepsMemory ==
  ASSUME MemInv, block.state # "none", build' = build, ins' \in Instr(build) \cup {NoInstr}, mem' = mem, last'.res # Wild,
         \/ block' = block
         \/ /\ block' \in [state : {"live"}, bytes : Seq(Cell)]
            /\ Len(block'.bytes) = Len(block.bytes)
  PROVE  MemInv'
<1>1. HasData
  BY DEF MemInv
<1>2. CASE block' = block
  BY <1>1, <1>2 DEF MemInv, HasData
<1>3. CASE block' \in [state : {"live"}, bytes : Seq(Cell)] /\ Len(block'.bytes) = Len(block.bytes)
  <2>1. block'.state = "live" /\ block'.bytes \in Seq(Cell) /\ Len(block'.bytes) = mem'.size
    BY <1>1, <1>3 DEF HasData
  <2>2. HasData'
    BY <1>1, <2>1 DEF HasData
  <2>3. block' \in [state : {"none", "null", "freed", "live"}, bytes : Seq(Cell)]
    BY <1>3
  <2> QED
    BY <2>1, <2>2, <2>3 DEF MemInv
<1> QED
  BY <1>2, <1>3

LEMMA NativeSeq ==
  ASSUME NEW s \in Seq(Cell)
  PROVE  Native(s) \in Seq(Cell) /\ Len(Native(s)) = Len(s)
<1>1. Len(s) \in Nat
  OBVIOUS
<1>2. Flip(s) \in [1 .. Len(s) -> Cell]
  BY <1>1 DEF Flip
<1>3. Flip(s) \in Seq(Cell) /\ Len(Flip(s)) = Len(s)
  BY <1>1, <1>2, AsSeq
<1> QED
  BY <1>3 DEF Native

LEMMA PutSeq ==
  ASSUME MemInv, block.state = "live", NEW p \in Int, NEW s \in Seq(Cell)
  PROVE  Put(p, s) \in [state : {"live"}, bytes : Seq(Cell)] /\ Len(Put(p, s).bytes) = Len(block.bytes)
<1>1. block \in [state : {"none", "null", "freed", "live"}, bytes : Seq(Cell)]
  BY DEF MemInv
<1>2. PICK d : d = block.bytes
  OBVIOUS
<1>3. d \in Seq(Cell) /\ Len(d) \in Nat
  BY <1>1, <1>2
<1>4. PICK f : f = [i \in 1 .. Len(d) |-> IF i - p \in 1 .. Len(s) THEN s[i - p] ELSE d[i]]
  OBVIOUS
<1>5. f \in [1 .. Len(d) -> Cell]
  BY <1>3, <1>4
<1>6. f \in Seq(Cell) /\ Len(f) = Len(d)
  BY <1>3, <1>5, AsSeq
<1>7. Put(p, s) = [block EXCEPT !.bytes = f]
  BY <1>2, <1>4 DEF Put
<1> QED
  BY <1>1, <1>2, <1>6, <1>7

\* Bytes are written where the check allows it, or the instruction traps.
LEMMA StoreAtStep ==
  ASSUME MemInv, block.state # "none", build' = build, ins' = NoInstr,
         NEW a \in Nat, NEW s \in Seq(Cell), NEW checked, NEW log, StoreAt(a, s, checked, log),
         checked => Owned(MEM_ADDR(a, Len(s)), Len(s)) \/ Faults(MEM_ADDR(a, Len(s)), Len(s))
  PROVE  MemInv'
<1>1. HasData
  BY DEF MemInv
<1>2. PICK p : p = MEM_ADDR(a, Len(s))
  OBVIOUS
<1>3. p \in Int
  BY <1>1, <1>2 DEF MEM_ADDR, MemInv
<1>4. PICK res : res = IF ~checked THEN Trap ELSE IF Owned(p, Len(s)) THEN Done ELSE IF Faults(p, Len(s)) THEN Trap ELSE Wild
  OBVIOUS
<1>5. res = Trap \/ res = Done
  BY <1>2, <1>4
<1>6. Trap # Wild /\ Done # Wild /\ Trap # Done
  BY DEF Trap, Done, Wild
<1>7. /\ block' = IF res = Done THEN Put(p, Native(s)) ELSE block
      /\ last' = [res |-> res, log |-> log] /\ mem' = mem
  BY <1>2, <1>4 DEF StoreAt
<1>8. last'.res # Wild
  BY <1>5, <1>6, <1>7
<1>9. Native(s) \in Seq(Cell)
  BY NativeSeq
<1>10. block.state = "live"
  BY <1>1 DEF HasData
<1>11. \/ block' = block
       \/ /\ block' \in [state : {"live"}, bytes : Seq(Cell)]
          /\ Len(block'.bytes) = Len(block.bytes)
  BY <1>3, <1>7, <1>9, <1>10, PutSeq
<1> QED
  BY <1>7, <1>8, <1>11, KeepsMemory

LEMMA CellFacts == Byte \subseteq Cell /\ 0 \in Cell /\ Garbage \in Cell
BY MemoryAssumption DEF Cell

\* A block of n equal bytes.
LEMMA ZerosSeq ==
  ASSUME NEW n \in Nat, NEW c \in Cell
  PROVE  [i \in 1 .. n |-> c] \in Seq(Cell) /\ Len([i \in 1 .. n |-> c]) = n
<1>1. [i \in 1 .. n |-> c] \in [1 .. n -> Cell]
  OBVIOUS
<1> QED
  BY <1>1, AsSeq

\* An instruction is executed in an instance that exists.
LEMMA Executing ==
  ASSUME MemInv, NEW op, op # "none", Execute(op)
  PROVE  /\ build \in Builds /\ ins \in Instr(build) /\ ins.op = op /\ ins' = NoInstr /\ build' = build
         /\ block.state # "none" /\ HasData
<1>1. ins.op = op /\ ins' = NoInstr /\ build' = build
  BY DEF Execute
<1>2. ins # NoInstr
  BY <1>1, NoOperands
<1> QED
  BY <1>1, <1>2 DEF MemInv

LEMMA LoadStep ==
  ASSUME MemInv, Load
  PROVE  MemInv'
<1>1. Execute("load")
  BY DEF Load
<1>2. /\ build \in Builds /\ ins \in Instr(build) /\ ins.op = "load" /\ ins' = NoInstr /\ build' = build
      /\ block.state # "none" /\ HasData
  BY <1>1, Executing
<1>3. ins.a \in Index(build) /\ ins.b \in Index(build) /\ ins.n \in 1 .. U32
  BY <1>2, Operands
<1>4. PICK e : e = Effective(ins.a, ins.b)
  OBVIOUS
<1>5. PICK p : p = MEM_ADDR(e, ins.n)
  OBVIOUS
<1>6. MEMCHECK(e, ins.n) => Owned(p, ins.n) \/ Faults(p, ins.n)
  BY <1>2, <1>3, <1>4, <1>5, AccessSafe
<1>7. PICK v : v = Native(SubSeq(block.bytes, p + 1, p + ins.n))
  OBVIOUS
<1>8. last'.res = IF ~MEMCHECK(e, ins.n) THEN Trap
                  ELSE IF Owned(p, ins.n) THEN Returns(v)
                  ELSE IF Faults(p, ins.n) THEN Trap ELSE Wild
  BY <1>4, <1>5, <1>7 DEF Load
<1>9. Trap # Wild /\ Returns(v) # Wild
  BY DEF Trap, Wild, Returns
<1>10. last'.res # Wild
  BY <1>6, <1>8, <1>9
<1>11. mem' = mem /\ block' = block
  BY DEF Load
<1> QED
  BY <1>2, <1>10, <1>11, KeepsMemory

LEMMA StoreStep ==
  ASSUME MemInv, Store
  PROVE  MemInv'
<1>1. Execute("store")
  BY DEF Store
<1>2. /\ build \in Builds /\ ins \in Instr(build) /\ ins.op = "store" /\ ins' = NoInstr /\ build' = build
      /\ block.state # "none" /\ HasData
  BY <1>1, Executing
<1>3. ins.a \in Index(build) /\ ins.b \in Index(build) /\ ins.n \in 1 .. U32 /\ ins.s \in [1 .. ins.n -> Byte]
  BY <1>2, Operands
<1>4. ins.n \in Nat /\ ins.s \in [1 .. ins.n -> Cell]
  BY <1>3, CellFacts, Ranges
<1>5. ins.s \in Seq(Cell) /\ Len(ins.s) = ins.n
  BY <1>4, AsSeq
<1>6. PICK e : e = Effective(ins.a, ins.b)
  OBVIOUS
<1>7. e \in Nat
  BY <1>3, <1>6, EffectiveFacts
<1>8. MEMCHECK(e, ins.n) => Owned(MEM_ADDR(e, ins.n), ins.n) \/ Faults(MEM_ADDR(e, ins.n), ins.n)
  BY <1>2, <1>3, <1>6, AccessSafe
<1>9. StoreAt(e, ins.s, MEMCHECK(e, ins.n), Logged(ins.a, ins.b))
  BY <1>6 DEF Store
<1> QED
  BY <1>2, <1>5, <1>7, <1>8, <1>9, StoreAtStep

\* What a bulk instruction works with.
LEMMA BulkOperands ==
  ASSUME MemInv, ins \in Instr(build), ins.op \in {"fill", "copy", "init"}
  PROVE  /\ ins.a % U32 \in Nat /\ ins.n % U32 \in Nat
         /\ RANGE_CHECK(ins.a % U32, ins.n % U32) => Owned(MEM_ADDR(ins.a % U32, ins.n % U32), ins.n % U32)
<1>1. build \in Builds /\ ins.a \in Index(build) /\ ins.n \in Index(build)
  BY Operands DEF MemInv
<1>2. ins.a \in Nat /\ ins.n \in Nat
  BY <1>1, IndexFacts
<1>3. ins.a % U32 \in Nat /\ ins.n % U32 \in Nat
  BY <1>2, Mod32
<1>4. ins # NoInstr
  BY NoOperands
<1>5. HasData
  BY <1>4 DEF MemInv
<1> QED
  BY <1>1, <1>3, <1>5, BulkSafe

LEMMA FillStep ==
  ASSUME MemInv, memory_fill
  PROVE  MemInv'
<1>1. Execute("fill")
  BY DEF memory_fill
<1>2. /\ build \in Builds /\ ins \in Instr(build) /\ ins.op = "fill" /\ ins' = NoInstr /\ build' = build
      /\ block.state # "none" /\ HasData
  BY <1>1, Executing
<1>3. PICK d, n : d = ins.a % U32 /\ n = ins.n % U32
  OBVIOUS
<1>4. d \in Nat /\ n \in Nat /\ (RANGE_CHECK(d, n) => Owned(MEM_ADDR(d, n), n))
  BY <1>2, <1>3, BulkOperands
<1>5. ins.s \in [1 .. 1 -> Byte]
  BY <1>2, Operands
<1>6. PICK c : c = ins.s[1]
  OBVIOUS
<1>7. c \in Cell
  BY <1>5, <1>6, CellFacts
<1>8. PICK s : s = [i \in 1 .. n |-> c]
  OBVIOUS
<1>9. s \in Seq(Cell) /\ Len(s) = n
  BY <1>4, <1>7, <1>8, ZerosSeq
<1>10. StoreAt(d, s, RANGE_CHECK(d, n), NoLog)
  BY <1>3, <1>6, <1>8 DEF memory_fill
<1> QED
  BY <1>2, <1>4, <1>9, <1>10, StoreAtStep

LEMMA CopyStep ==
  ASSUME MemInv, memory_copy
  PROVE  MemInv'
<1>1. Execute("copy")
  BY DEF memory_copy
<1>2. /\ build \in Builds /\ ins \in Instr(build) /\ ins.op = "copy" /\ ins' = NoInstr /\ build' = build
      /\ block.state # "none" /\ HasData
  BY <1>1, Executing
<1>3. PICK d, s, n : d = ins.a % U32 /\ s = ins.b % U32 /\ n = ins.n % U32
  OBVIOUS
<1>4. d \in Nat /\ n \in Nat /\ (RANGE_CHECK(d, n) => Owned(MEM_ADDR(d, n), n))
  BY <1>2, <1>3, BulkOperands
<1>5. PICK p : p = MEM_ADDR(s, n)
  OBVIOUS
<1>6. PICK checked : checked = (RANGE_CHECK(d, n) /\ RANGE_CHECK(s, n))
  OBVIOUS
<1>7. PICK v : v = IF checked /\ Owned(p, n) THEN Native(SubSeq(block.bytes, p + 1, p + n)) ELSE Zeros(n)
  OBVIOUS
<1>8. StoreAt(d, v, checked, NoLog)
  BY <1>3, <1>5, <1>6, <1>7 DEF memory_copy
<1>9. v \in Seq(Cell) /\ Len(v) = n
  <2>1. CASE checked /\ Owned(p, n)
    <3>1. block.bytes \in Seq(Cell) /\ block.state = "live" /\ Len(block.bytes) \in Nat /\ mem.size \in Nat
      BY <1>2 DEF HasData, MemInv
    <3>2. ins.b \in Nat
      BY <1>2, Operands, IndexFacts
    <3>3. s \in Nat
      BY <1>3, <3>2, Mod32
    <3>4. p \in Int
      BY <1>4, <1>5, <3>1, <3>3 DEF MEM_ADDR
    <3>5. PICK c : c = SubSeq(block.bytes, p + 1, p + n)
      OBVIOUS
    <3>6. c \in Seq(Cell) /\ Len(c) = n
      <4>1. CASE n = 0
        BY <3>1, <3>4, <3>5, <4>1
      <4>2. CASE n # 0
        <5>1. p >= 0 /\ p + n <= Len(block.bytes)
          BY <2>1, <4>2 DEF Owned
        <5> QED
          BY <1>4, <3>1, <3>4, <3>5, <5>1
      <4> QED
        BY <4>1, <4>2
    <3> QED
      BY <1>7, <2>1, <3>5, <3>6, NativeSeq
  <2>2. CASE ~(checked /\ Owned(p, n))
    BY <1>4, <1>7, <2>2, ZerosSeq, CellFacts DEF Zeros
  <2> QED
    BY <2>1, <2>2
<1>10. checked => Owned(MEM_ADDR(d, Len(v)), Len(v))
  BY <1>4, <1>6, <1>9
<1> QED
  BY <1>2, <1>4, <1>8, <1>9, <1>10, StoreAtStep

LEMMA InitStep ==
  ASSUME MemInv, memory_init
  PROVE  MemInv'
<1>1. Execute("init")
  BY DEF memory_init
<1>2. /\ build \in Builds /\ ins \in Instr(build) /\ ins.op = "init" /\ ins' = NoInstr /\ build' = build
      /\ block.state # "none" /\ HasData
  BY <1>1, Executing
<1>3. PICK d, s, n : d = ins.a % U32 /\ s = ins.b % U32 /\ n = ins.n % U32
  OBVIOUS
<1>4. d \in Nat /\ n \in Nat /\ (RANGE_CHECK(d, n) => Owned(MEM_ADDR(d, n), n))
  BY <1>2, <1>3, BulkOperands
<1>5. PICK fits : fits = (s + n <= (IF dropped THEN 0 ELSE Len(Segment)))
  OBVIOUS
<1>6. PICK v : v = IF fits THEN SubSeq(Segment, s + 1, s + n) ELSE <<>>
  OBVIOUS
<1>7. StoreAt(d, v, fits /\ RANGE_CHECK(d, n), NoLog)
  BY <1>3, <1>5, <1>6 DEF memory_init
<1>8. ins.b \in Nat
  BY <1>2, Operands, IndexFacts
<1>9. s \in Nat
  BY <1>3, <1>8, Mod32
<1>10. Segment \in Seq(Cell) /\ Len(Segment) \in Nat
  <2>1. Segment \in Seq(Byte)
    BY MemoryAssumption
  <2> QED
    BY <2>1, CellFacts
<1>11. v \in Seq(Cell) /\ (fits => Len(v) = n)
  <2>1. CASE fits
    <3>1. s + n <= Len(Segment)
      <4>1. s + n <= (IF dropped THEN 0 ELSE Len(Segment))
        BY <1>5, <2>1, Zenon
      <4> QED
        BY <1>4, <1>9, <1>10, <4>1
    <3>2. v = SubSeq(Segment, s + 1, s + n)
      BY <1>6, <2>1
    <3> QED
      BY <1>4, <1>9, <1>10, <3>1, <3>2
  <2>2. CASE ~fits
    BY <1>6, <2>2
  <2> QED
    BY <2>1, <2>2
<1>12. fits /\ RANGE_CHECK(d, n) => Owned(MEM_ADDR(d, Len(v)), Len(v))
  BY <1>4, <1>11
<1> QED
  BY <1>2, <1>4, <1>7, <1>11, <1>12, StoreAtStep

LEMMA OtherSteps ==
  ASSUME MemInv, DataDrop \/ MemorySize
  PROVE  MemInv'
<1>1. Execute("drop") \/ Execute("size")
  BY DEF DataDrop, MemorySize
<1>2. block.state # "none" /\ ins' = NoInstr /\ build' = build
  BY <1>1, Executing
<1>3. mem' = mem /\ block' = block /\ (last' = Outcome(Done) \/ last' = Outcome(Returns(<<mem.pages>>)))
  BY DEF DataDrop, MemorySize
<1>4. last'.res # Wild
  BY <1>3 DEF Outcome, Done, Returns, Wild
<1> QED
  BY <1>2, <1>3, <1>4, KeepsMemory


LEMMA AllocateStep ==
  ASSUME MemInv, wasm_rt_allocate_memory
  PROVE  MemInv'
<1>1. build \in Builds /\ build' = build /\ ins' = ins /\ block.state = "none"
  BY DEF MemInv, wasm_rt_allocate_memory
<1>2. ins' = NoInstr
  BY <1>1 DEF MemInv
<1>3. PICK g, h : g = build.initial /\ h = build.host_memory
  OBVIOUS
<1>4. g \in Nat /\ g <= MaxOf(build) /\ MaxOf(build) \in Nat /\ h \in Nat /\ g * PageSize <= h
  BY <1>1, <1>3, MemoryAssumption DEF ValidBuild
<1>5. PICK z : z = g * PageSize
  OBVIOUS
<1>6. z \in Nat /\ z < SizeT /\ z < U64 /\ z <= h
  BY <1>1, <1>4, <1>5, PagesFit
<1>7. z % U64 = z /\ z % SizeT = z
  BY <1>6, Ranges, ModSmall
<1>8. mem' = [size |-> z, pages |-> g, max_pages |-> MaxOf(build)]
  BY <1>3, <1>5, <1>7 DEF wasm_rt_allocate_memory, max_pages
<1>9. block' = Block(Zeros(z))
  <2>1. block' = IF ~build.use_mmap /\ z > h THEN Null ELSE Block(Zeros(z))
    BY <1>3, <1>5, <1>7 DEF wasm_rt_allocate_memory
  <2>2. ~(z > h)
    BY <1>4, <1>6
  <2> QED
    BY <2>1, <2>2
<1>10. PICK s : s = Zeros(z)
  OBVIOUS
<1>11. s \in Seq(Cell) /\ Len(s) = z
  BY <1>6, <1>10, ZerosSeq, CellFacts DEF Zeros
<1>12. block' = [state |-> "live", bytes |-> s]
  BY <1>9, <1>10 DEF Block
<1>13. last'.res # Wild
  BY DEF wasm_rt_allocate_memory, Outcome, Done, Wild
<1>14. HasData'
  BY <1>1, <1>4, <1>5, <1>8, <1>11, <1>12 DEF HasData
<1>15. /\ mem' \in [size : Nat, pages : Nat, max_pages : Nat]
       /\ block' \in [state : {"none", "null", "freed", "live"}, bytes : Seq(Cell)]
       /\ block'.state # "none"
  BY <1>4, <1>6, <1>8, <1>11, <1>12
<1> QED
  BY <1>1, <1>2, <1>13, <1>14, <1>15 DEF MemInv

LEMMA FreeStep ==
  ASSUME MemInv, wasm_rt_free_memory
  PROVE  MemInv'
<1>1. /\ block.state = "live" /\ build' = build /\ mem' = mem /\ ins' = NoInstr /\ block' = None
      /\ last' = Outcome(IF block.state = "freed" THEN Wild ELSE Done)
  BY DEF MemInv, HasData, wasm_rt_free_memory
<1>2. last' = Outcome(Done)
  BY <1>1
<1>3. last'.res # Wild
  BY <1>2 DEF Outcome, Done, Wild
<1>4. None.state = "none" /\ None \in [state : {"none", "null", "freed", "live"}, bytes : Seq(Cell)]
  BY DEF None
<1> QED
  BY <1>1, <1>3, <1>4 DEF MemInv

LEMMA FetchStep ==
  ASSUME MemInv, Fetch
  PROVE  MemInv'
<1>1. block.state # "none" /\ build' = build /\ mem' = mem /\ block' = block /\ ins' \in Instr(build) /\ last' = Outcome(Done)
  BY DEF Fetch
<1>2. last'.res # Wild
  BY <1>1 DEF Outcome, Done, Wild
<1> QED
  BY <1>1, <1>2, KeepsMemory

\* The pages after a growth that is not refused: the sum did not wrap.
LEMMA GrownPages ==
  ASSUME MemInv, HasData, NEW delta \in Index(build), NEW m, m = (mem.pages + delta) % U64, ~Refused(m)
  PROVE  m = mem.pages + delta /\ m \in Nat /\ m <= MaxOf(build)
<1>1. PICK p : p = mem.pages
  OBVIOUS
<1>2. build \in Builds /\ p \in Nat /\ p <= MaxOf(build) /\ mem.max_pages = MaxOf(build)
  BY <1>1 DEF MemInv, HasData
<1>3. MaxOf(build) \in Nat
  BY <1>2, MemoryAssumption DEF ValidBuild
<1>4. p <= p * PageSize /\ p * PageSize < U64 /\ p * PageSize \in Nat
  <2>1. PageSize \in Nat \ {0}
    BY MemoryAssumption
  <2> QED
    BY <1>2, <2>1, PagesFit, TimesGrow
<1>5. delta \in Nat /\ delta < U64
  BY <1>2, IndexFacts, Ranges
<1>6. p + delta \in Nat /\ p + delta < 2 * U64
  BY <1>2, <1>4, <1>5, Ranges
<1>7. m = (p + delta) % U64
  BY <1>1
<1>8. CASE p + delta < U64
  <2>1. m = p + delta
    BY <1>6, <1>7, <1>8, Ranges, ModSmall
  <2>2. ~(m > mem.max_pages)
    BY DEF Refused
  <2> QED
    BY <1>1, <1>2, <1>3, <1>6, <2>1, <2>2
<1>9. CASE p + delta >= U64
  <2>1. m = (p + delta) - U64
    <3>1. PICK t : t = p + delta
      OBVIOUS
    <3>2. t \in Nat /\ U64 <= t /\ t < 2 * U64 /\ m = t % U64
      BY <1>6, <1>7, <1>9, <3>1, Ranges
    <3>3. t % U64 = t - U64
      <4>1. U64 \in Nat
        BY Ranges
      <4> QED
        BY <3>2, <4>1, ModOnce
    <3>4. m = t - U64
      BY <3>2, <3>3, Zenon
    <3> QED
      BY <3>1, <3>4, Zenon
  <2>2. m < p
    BY <1>2, <1>5, <2>1, Ranges
  <2> QED
    BY <1>1, <2>2 DEF Refused
<1> QED
  BY <1>6, <1>8, <1>9, Ranges

LEMMA ExtendedSeq ==
  ASSUME NEW s \in Seq(Cell), NEW k \in Nat
  PROVE  Extended(s, k) \in Seq(Cell) /\ Len(Extended(s, k)) = Len(s) + k
<1>1. PICK l : l = Len(s)
  OBVIOUS
<1>2. l \in Nat /\ l + k \in Nat
  BY <1>1
<1>3. PICK t : t = [i \in 1 .. k |-> IF build.use_mmap THEN 0 ELSE Garbage]
  OBVIOUS
<1>4. t \in [1 .. k -> Cell]
  BY <1>3, CellFacts
<1>5. t \in Seq(Cell) /\ Len(t) = k
  BY <1>4, AsSeq
<1>6. PICK raw : raw = s \o t
  OBVIOUS
<1>7. raw \in Seq(Cell) /\ Len(raw) = l + k
  <2>1. s \o t \in Seq(Cell) /\ Len(s \o t) = Len(s) + Len(t)
    BY <1>5, ConcatProperties
  <2> QED
    BY <1>1, <1>5, <1>6, <2>1
<1>8. PICK moved : moved = [i \in 1 .. l + k |-> IF i > k THEN raw[i - k] ELSE raw[i]]
  OBVIOUS
<1>9. moved \in [1 .. l + k -> Cell]
  <2>1. ASSUME NEW i \in 1 .. l + k
        PROVE  (IF i > k THEN raw[i - k] ELSE raw[i]) \in Cell
    BY <1>2, <1>7
  <2> QED
    BY <1>8, <2>1
<1>10. PICK x : x = Extended(s, k)
  OBVIOUS
<1>11. x = IF build.big_endian
           THEN [i \in 1 .. l + k |-> IF i <= k THEN 0 ELSE moved[i]]
           ELSE [i \in 1 .. l + k |-> IF i > l /\ ~build.use_mmap THEN 0 ELSE raw[i]]
  BY <1>1, <1>3, <1>6, <1>8, <1>10 DEF Extended
<1>12. x \in [1 .. l + k -> Cell]
  <2>1. CASE build.big_endian
    <3>1. x = [i \in 1 .. l + k |-> IF i <= k THEN 0 ELSE moved[i]]
      BY <1>11, <2>1
    <3> QED
      BY <1>9, <3>1, CellFacts
  <2>2. CASE ~build.big_endian
    <3>1. x = [i \in 1 .. l + k |-> IF i > l /\ ~build.use_mmap THEN 0 ELSE raw[i]]
      BY <1>11, <2>2
    <3>2. ASSUME NEW i \in 1 .. l + k
          PROVE  raw[i] \in Cell
      BY <1>2, <1>7
    <3> QED
      BY <3>1, <3>2, CellFacts
  <2> QED
    BY <2>1, <2>2
<1>13. x \in Seq(Cell) /\ Len(x) = l + k
  BY <1>2, <1>12, AsSeq
<1> QED
  BY <1>1, <1>10, <1>13

LEMMA GrowStep ==
  ASSUME MemInv, wasm_rt_grow_memory
  PROVE  MemInv'
<1>1. Execute("grow") /\ grow_memory_impl(ins.a)
  BY DEF wasm_rt_grow_memory
<1>2. /\ build \in Builds /\ ins \in Instr(build) /\ ins.op = "grow" /\ ins' = NoInstr /\ build' = build
      /\ block.state # "none" /\ HasData
  BY <1>1, Executing
<1>3. PICK delta : delta = ins.a
  OBVIOUS
<1>4. delta \in Index(build) /\ delta \in Nat
  BY <1>2, <1>3, Operands, IndexFacts
<1>5. PICK m : m = (mem.pages + delta) % U64
  OBVIOUS
<1>6. PICK z, w : z = (m * PageSize) % U64 /\ w = (delta * PageSize) % U64
  OBVIOUS
<1>7. IF m = 0
      THEN last' = Outcome(Returns(<<0>>)) /\ UNCHANGED <<mem, block>>
      ELSE IF Refused(m)
      THEN GrowFails /\ UNCHANGED block
      ELSE IF ~build.use_mmap /\ z % SizeT = 0
      THEN ReallocZero
      ELSE IF (IF build.use_mmap THEN z ELSE z % SizeT) > build.host_memory
      THEN GrowFails /\ UNCHANGED block
      ELSE /\ block' = Block(Extended(block.bytes, w))
           /\ Resize(m, z)
           /\ last' = Outcome(Returns(<<mem.pages>>))
  BY <1>1, <1>3, <1>5, <1>6 DEF grow_memory_impl
<1>8. ASSUME NEW v, last' = Outcome(Returns(v))
      PROVE  last'.res # Wild
  BY <1>8 DEF Outcome, Returns, Wild
<1>9. CASE mem' = mem /\ block' = block /\ \E v : last' = Outcome(Returns(v))
  BY <1>2, <1>8, <1>9, KeepsMemory
<1>10. CASE ~(m = 0) /\ ~Refused(m)
  <2>1. m = mem.pages + delta /\ m \in Nat /\ m <= MaxOf(build)
    BY <1>2, <1>4, <1>5, <1>10, GrownPages
  <2>2. m * PageSize \in Nat /\ m * PageSize < SizeT /\ m * PageSize < U64
    BY <1>2, <2>1, PagesFit
  <2>3. z = m * PageSize /\ z % SizeT = z /\ z \in Nat
    BY <1>6, <2>2, Ranges, ModSmall
  <2>4. z # 0
    <3>1. PageSize \in Nat \ {0}
      BY MemoryAssumption
    <3> QED
      BY <1>10, <2>1, <2>3, <3>1, TimesZero
  <2>5. PICK p : p = mem.pages
    OBVIOUS
  <2>6. p \in Nat /\ mem.size = p * PageSize /\ p * PageSize \in Nat /\ delta * PageSize \in Nat
    <3>1. p \in Nat /\ mem.size = p * PageSize
      BY <1>2, <2>5 DEF HasData
    <3> QED
      BY <1>4, <3>1, Ranges, TimesOrder
  <2>7. m * PageSize = p * PageSize + delta * PageSize
    BY <1>4, <2>1, <2>5, <2>6, Ranges, TimesSum
  <2>8. w = delta * PageSize
    <3>1. delta * PageSize < U64
      BY <2>2, <2>6, <2>7, Ranges
    <3> QED
      BY <1>6, <2>6, <3>1, Ranges, ModSmall
  <2>9. \/ GrowFails /\ block' = block
        \/ /\ block' = Block(Extended(block.bytes, w))
           /\ Resize(m, z)
           /\ last' = Outcome(Returns(<<mem.pages>>))
    BY <1>7, <1>10, <2>3, <2>4
  <2>10. CASE GrowFails /\ block' = block
    BY <1>9, <2>10 DEF GrowFails
  <2>11. CASE /\ block' = Block(Extended(block.bytes, w))
              /\ Resize(m, z)
              /\ last' = Outcome(Returns(<<mem.pages>>))
    <3>1. PICK x : x = Extended(block.bytes, w)
      OBVIOUS
    <3>2. block.bytes \in Seq(Cell) /\ Len(block.bytes) = mem.size /\ mem.max_pages = MaxOf(build)
      BY <1>2 DEF HasData
    <3>3. w \in Nat
      BY <2>6, <2>8
    <3>4. x \in Seq(Cell) /\ Len(x) = z
      BY <2>3, <2>6, <2>7, <2>8, <3>1, <3>2, <3>3, ExtendedSeq
    <3>5. block' = [state |-> "live", bytes |-> x]
      BY <2>11, <3>1 DEF Block
    <3>6. mem \in [size : Nat, pages : Nat, max_pages : Nat]
      BY DEF MemInv
    <3>7. mem' = [mem EXCEPT !.pages = m, !.size = z]
      BY <2>11 DEF Resize
    <3>8. /\ mem' \in [size : Nat, pages : Nat, max_pages : Nat]
          /\ mem'.pages = m /\ mem'.size = z /\ mem'.max_pages = mem.max_pages
      BY <2>1, <2>3, <3>6, <3>7
    <3>9. HasData'
      BY <1>2, <2>1, <2>3, <3>2, <3>4, <3>5, <3>8 DEF HasData
    <3>10. block' \in [state : {"none", "null", "freed", "live"}, bytes : Seq(Cell)] /\ block'.state # "none"
      BY <3>4, <3>5
    <3>11. last'.res # Wild
      BY <1>8, <2>11
    <3> QED
      BY <1>2, <3>8, <3>9, <3>10, <3>11 DEF MemInv
  <2> QED
    BY <2>9, <2>10, <2>11
<1>11. CASE m = 0 \/ Refused(m)
  <2>1. \/ last' = Outcome(Returns(<<0>>)) /\ UNCHANGED <<mem, block>>
        \/ GrowFails /\ UNCHANGED block
    BY <1>7, <1>11
  <2> QED
    BY <1>9, <2>1 DEF GrowFails
<1> QED
  BY <1>10, <1>11

LEMMA InitMemInv == Init => MemInv
<1> SUFFICES ASSUME Init PROVE MemInv
  OBVIOUS
<1>1. /\ build \in Builds /\ mem = [size |-> 0, pages |-> 0, max_pages |-> 0]
      /\ block = [state |-> "none", bytes |-> <<>>] /\ ins = NoInstr /\ last = Outcome(Done)
  BY DEF Init, None
<1>2. last.res # Wild
  BY <1>1 DEF Outcome, Done, Wild
<1> QED
  BY <1>1, <1>2 DEF MemInv

LEMMA NextMemInv == MemInv /\ [Next]_vars => MemInv'
<1> SUFFICES ASSUME MemInv, [Next]_vars PROVE MemInv'
  OBVIOUS
<1>1. CASE UNCHANGED vars
  BY <1>1 DEF MemInv, HasData, vars
<1> QED
  BY <1>1, AllocateStep, FreeStep, GrowStep, FetchStep, LoadStep, StoreStep, FillStep, CopyStep, InitStep, OtherSteps DEF Next

-----------------------------------------------------------------------------

\* Between allocation and release the data pointer owns size bytes, size is the
\* pages that memory.size reports, and these are within the maximum: for every
\* build (byte order, allocator, index type, limits), after every sequence of
\* growths, those that wrap or that the host refuses included.
THEOREM DataCorrect == Spec => []DataHasSize
<1>1. MemInv => DataHasSize
  BY DEF MemInv, HasData, DataHasSize, max_pages
<1> QED
  BY InitMemInv, NextMemInv, <1>1, PTL DEF Spec

\* For every build, address, offset, width and length: an instruction whose check
\* passes, or that relies on guard pages, touches the bytes of the memory or a
\* page that faults, and nothing is freed twice.
THEOREM WildCorrect == Spec => []NeverWild
<1>1. MemInv => NeverWild
  BY DEF MemInv, NeverWild
<1> QED
  BY InitMemInv, NextMemInv, <1>1, PTL DEF Spec

-----------------------------------------------------------------------------
(* The memory as addresses see it                                           *)

\* What is in the block at an address, and where.
At(a, n) == Native(SubSeq(block.bytes, MEM_ADDR(a, n) + 1, MEM_ADDR(a, n) + n))

LEMMA ByAddressSeq ==
  ASSUME NEW s \in Seq(Cell)
  PROVE  /\ ByAddress(s) \in Seq(Cell) /\ Len(ByAddress(s)) = Len(s)
         /\ build.big_endian => \A i \in 1 .. Len(s) : ByAddress(s)[i] = s[Len(s) + 1 - i]
         /\ ~build.big_endian => \A i \in 1 .. Len(s) : ByAddress(s)[i] = s[i]
<1>1. PICK n : n = Len(s)
  OBVIOUS
<1>2. n \in Nat /\ s \in [1 .. n -> Cell]
  BY <1>1
<1>3. PICK f : f = ByAddress(s)
  OBVIOUS
<1>4. f = [i \in 1 .. n |-> s[IF build.big_endian THEN n + 1 - i ELSE i]]
  BY <1>1, <1>3 DEF ByAddress
<1>5. CASE build.big_endian
  <2>1. f = [i \in 1 .. n |-> s[n + 1 - i]]
    BY <1>4, <1>5
  <2>2. f \in [1 .. n -> Cell]
    BY <1>2, <2>1
  <2> QED
    BY <1>1, <1>2, <1>3, <1>5, <2>1, <2>2, AsSeq
<1>6. CASE ~build.big_endian
  <2>1. f = [i \in 1 .. n |-> s[i]]
    BY <1>4, <1>6
  <2>2. f \in [1 .. n -> Cell]
    BY <1>2, <2>1
  <2> QED
    BY <1>1, <1>2, <1>3, <1>6, <2>1, <2>2, AsSeq
<1> QED
  BY <1>5, <1>6

LEMMA NativeAt ==
  ASSUME NEW s \in Seq(Cell), NEW i \in 1 .. Len(s)
  PROVE  /\ build.big_endian => Native(s)[i] = s[Len(s) + 1 - i]
         /\ ~build.big_endian => Native(s)[i] = s[i]
BY DEF Native, Flip

\* A part of a sequence.
LEMMA PartOf ==
  ASSUME NEW S, NEW s \in Seq(S), NEW p \in Nat, NEW n \in Nat, p + n <= Len(s)
  PROVE  /\ SubSeq(s, p + 1, p + n) \in Seq(S) /\ Len(SubSeq(s, p + 1, p + n)) = n
         /\ \A i \in 1 .. n : SubSeq(s, p + 1, p + n)[i] = s[p + i]
OBVIOUS

\* Two sequences, one after the other.
LEMMA Joined ==
  ASSUME NEW S, NEW s \in Seq(S), NEW t \in Seq(S)
  PROVE  /\ s \o t \in Seq(S) /\ Len(s \o t) = Len(s) + Len(t)
         /\ \A i \in 1 .. Len(s) : (s \o t)[i] = s[i]
         /\ \A i \in Len(s) + 1 .. Len(s) + Len(t) : (s \o t)[i] = t[i - Len(s)]
OBVIOUS

\* n bytes read from the block are those of the memory from address a on.
LEMMA ReadBytes ==
  ASSUME MemInv, HasData, NEW a \in Nat, NEW n \in Nat, a + n <= mem.size
  PROVE  /\ At(a, n) = SubSeq(ByAddress(block.bytes), a + 1, a + n)
         /\ At(a, n) \in Seq(Cell) /\ Len(At(a, n)) = n
<1>1. PICK d, z, p : d = block.bytes /\ z = mem.size /\ p = MEM_ADDR(a, n)
  OBVIOUS
<1>2. d \in Seq(Cell) /\ Len(d) = z /\ z \in Nat
  BY <1>1 DEF HasData, MemInv
<1>3. (build.big_endian => p = z - a - n) /\ (~build.big_endian => p = a)
  BY <1>1 DEF MEM_ADDR
<1>4. p \in Nat /\ p + n <= Len(d)
  BY <1>1, <1>2, <1>3
<1>5. PICK x : x = SubSeq(d, p + 1, p + n)
  OBVIOUS
<1>6. x \in Seq(Cell) /\ Len(x) = n /\ \A i \in 1 .. n : x[i] = d[p + i]
  BY <1>2, <1>4, <1>5, PartOf
<1>7. PICK y : y = Native(x)
  OBVIOUS
<1>8. y \in Seq(Cell) /\ Len(y) = n
  BY <1>6, <1>7, NativeSeq
<1>9. PICK m : m = ByAddress(d)
  OBVIOUS
<1>10. m \in Seq(Cell) /\ Len(m) = z
  BY <1>2, <1>9, ByAddressSeq
<1>11. PICK r : r = SubSeq(m, a + 1, a + n)
  OBVIOUS
<1>12. r \in Seq(Cell) /\ Len(r) = n /\ \A i \in 1 .. n : r[i] = m[a + i]
  BY <1>1, <1>10, <1>11, PartOf
<1>13. ASSUME NEW i \in 1 .. n
       PROVE  y[i] = r[i]
  <2>1. r[i] = m[a + i] /\ a + i \in 1 .. z
    BY <1>1, <1>2, <1>12
  <2>2. CASE build.big_endian
    <3>1. y[i] = x[n + 1 - i] /\ n + 1 - i \in 1 .. n
      BY <1>6, <1>7, <2>2, NativeAt
    <3>2. x[n + 1 - i] = d[p + (n + 1 - i)]
      BY <1>6, <3>1
    <3>3. p + (n + 1 - i) = z + 1 - (a + i)
      BY <1>2, <1>3, <2>2
    <3>4. m[a + i] = d[z + 1 - (a + i)]
      BY <1>2, <1>9, <2>1, <2>2, ByAddressSeq
    <3> QED
      BY <2>1, <3>1, <3>2, <3>3, <3>4
  <2>3. CASE ~build.big_endian
    <3>1. y[i] = x[i] /\ x[i] = d[a + i]
      BY <1>3, <1>6, <1>7, <2>3, NativeAt
    <3>2. m[a + i] = d[a + i]
      BY <1>2, <1>9, <2>1, <2>3, ByAddressSeq
    <3> QED
      BY <2>1, <3>1, <3>2
  <2> QED
    BY <2>2, <2>3
<1>14. y = r
  BY <1>8, <1>12, <1>13, SeqEqual
<1>15. At(a, n) = y
  BY <1>1, <1>5, <1>7 DEF At
<1> QED
  BY <1>1, <1>8, <1>9, <1>11, <1>14, <1>15

\* Bytes written to the block appear in the memory from address a on.
LEMMA WrittenBytes ==
  ASSUME MemInv, HasData, NEW a \in Nat, NEW v \in Seq(Cell), a + Len(v) <= mem.size
  PROVE  ByAddress(Put(MEM_ADDR(a, Len(v)), Native(v)).bytes)
           = [i \in 1 .. mem.size |-> IF i - a \in 1 .. Len(v) THEN v[i - a] ELSE ByAddress(block.bytes)[i]]
<1>1. PICK d, z, n, p : d = block.bytes /\ z = mem.size /\ n = Len(v) /\ p = MEM_ADDR(a, n)
  OBVIOUS
<1>2. d \in Seq(Cell) /\ Len(d) = z /\ z \in Nat /\ n \in Nat /\ block \in [state : {"none", "null", "freed", "live"}, bytes : Seq(Cell)]
  BY <1>1 DEF HasData, MemInv
<1>3. (build.big_endian => p = z - a - n) /\ (~build.big_endian => p = a)
  BY <1>1 DEF MEM_ADDR
<1>4. p \in Nat /\ p + n <= z
  BY <1>1, <1>2, <1>3
<1>5. PICK x : x = Native(v)
  OBVIOUS
<1>6. x \in Seq(Cell) /\ Len(x) = n
  BY <1>1, <1>5, NativeSeq
<1>7. PICK e : e = [i \in 1 .. z |-> IF i - p \in 1 .. n THEN x[i - p] ELSE d[i]]
  OBVIOUS
<1>8. e \in [1 .. z -> Cell]
  BY <1>2, <1>4, <1>6, <1>7
<1>9. e \in Seq(Cell) /\ Len(e) = z
  BY <1>2, <1>8, AsSeq
<1>10. Put(p, x).bytes = e
  <2>1. Put(p, x) = [block EXCEPT !.bytes = e]
    BY <1>1, <1>2, <1>6, <1>7 DEF Put
  <2> QED
    BY <1>2, <2>1
<1>11. PICK m, w : m = ByAddress(d) /\ w = ByAddress(e)
  OBVIOUS
<1>12. m \in Seq(Cell) /\ Len(m) = z /\ w \in Seq(Cell) /\ Len(w) = z
  BY <1>2, <1>9, <1>11, ByAddressSeq
<1>13. ASSUME NEW i \in 1 .. z
       PROVE  w[i] = IF i - a \in 1 .. n THEN v[i - a] ELSE m[i]
  <2>1. CASE build.big_endian
    <3>1. PICK j : j = z + 1 - i
      OBVIOUS
    <3>2. j \in 1 .. z /\ (j - p \in 1 .. n <=> i - a \in 1 .. n) /\ n + 1 - (j - p) = i - a
      BY <1>2, <1>3, <1>4, <2>1, <3>1
    <3>3. w[i] = e[j] /\ m[i] = d[j]
      <4>1. i \in 1 .. Len(e) /\ j = Len(e) + 1 - i /\ i \in 1 .. Len(d) /\ j = Len(d) + 1 - i
        BY <1>2, <1>9, <3>1
      <4>2. w[i] = e[Len(e) + 1 - i]
        BY <1>9, <1>11, <2>1, <4>1, ByAddressSeq
      <4>3. m[i] = d[Len(d) + 1 - i]
        BY <1>2, <1>11, <2>1, <4>1, ByAddressSeq
      <4> QED
        BY <4>1, <4>2, <4>3
    <3>4. i - a \in 1 .. n => x[j - p] = v[i - a]
      BY <1>1, <1>5, <2>1, <3>2, NativeAt
    <3> QED
      BY <1>7, <3>2, <3>3, <3>4
  <2>2. CASE ~build.big_endian
    <3>1. w[i] = e[i] /\ m[i] = d[i]
      BY <1>2, <1>9, <1>11, <2>2, ByAddressSeq
    <3>2. i - a \in 1 .. n => x[i - a] = v[i - a]
      BY <1>1, <1>5, <2>2, NativeAt
    <3> QED
      BY <1>3, <1>7, <2>2, <3>1, <3>2
  <2> QED
    BY <2>1, <2>2
<1>14. w = [i \in 1 .. z |-> IF i - a \in 1 .. n THEN v[i - a] ELSE m[i]]
  <2>1. w = [i \in 1 .. z |-> w[i]]
    BY <1>12
  <2> QED
    BY <1>13, <2>1
<1> QED
  BY <1>1, <1>5, <1>10, <1>11, <1>14

\* Growth adds zeros at the end of the memory.
LEMMA GrownBytes ==
  ASSUME NEW s \in Seq(Cell), NEW k \in Nat
  PROVE  ByAddress(Extended(s, k)) = ByAddress(s) \o Zeros(k)
<1>1. PICK l : l = Len(s)
  OBVIOUS
<1>2. l \in Nat /\ l + k \in Nat
  BY <1>1
<1>3. PICK t : t = [i \in 1 .. k |-> IF build.use_mmap THEN 0 ELSE Garbage]
  OBVIOUS
<1>4. t \in [1 .. k -> Cell]
  BY <1>3, CellFacts
<1>5. t \in Seq(Cell) /\ Len(t) = k
  BY <1>4, AsSeq
<1>6. PICK raw : raw = s \o t
  OBVIOUS
<1>7. /\ raw \in Seq(Cell) /\ Len(raw) = l + k
      /\ \A i \in 1 .. l : raw[i] = s[i]
      /\ \A i \in l + 1 .. l + k : raw[i] = t[i - l]
  BY <1>1, <1>5, <1>6, Joined
<1>8. PICK moved : moved = [i \in 1 .. l + k |-> IF i > k THEN raw[i - k] ELSE raw[i]]
  OBVIOUS
<1>9. PICK x : x = Extended(s, k)
  OBVIOUS
<1>10. x = IF build.big_endian
           THEN [i \in 1 .. l + k |-> IF i <= k THEN 0 ELSE moved[i]]
           ELSE [i \in 1 .. l + k |-> IF i > l /\ ~build.use_mmap THEN 0 ELSE raw[i]]
  BY <1>1, <1>3, <1>6, <1>8, <1>9 DEF Extended
<1>11. x \in Seq(Cell) /\ Len(x) = l + k
  BY <1>1, <1>9, ExtendedSeq
<1>12. PICK w, m, o : w = ByAddress(x) /\ m = ByAddress(s) /\ o = Zeros(k)
  OBVIOUS
<1>13. m \in Seq(Cell) /\ Len(m) = l /\ w \in Seq(Cell) /\ Len(w) = l + k
  BY <1>1, <1>11, <1>12, ByAddressSeq
<1>14. o \in Seq(Cell) /\ Len(o) = k /\ \A i \in 1 .. k : o[i] = 0
  BY <1>12, ZerosSeq, CellFacts DEF Zeros
<1>15. PICK c : c = m \o o
  OBVIOUS
<1>16. /\ c \in Seq(Cell) /\ Len(c) = l + k
       /\ \A i \in 1 .. l : c[i] = m[i]
       /\ \A i \in l + 1 .. l + k : c[i] = o[i - l]
  BY <1>13, <1>14, <1>15, Joined
<1>17. ASSUME NEW i \in 1 .. l + k
       PROVE  w[i] = c[i]
  <2>1. i \in 1 .. l \/ (i \in l + 1 .. l + k /\ i - l \in 1 .. k)
    BY <1>2
  <2>2. CASE build.big_endian
    <3>1. PICK j : j = l + k + 1 - i
      OBVIOUS
    <3>2. j \in 1 .. l + k /\ (j <= k <=> i > l)
      BY <1>2, <3>1
    <3>3. w[i] = x[j]
      BY <1>11, <1>12, <2>2, <3>1, ByAddressSeq
    <3>4. x[j] = IF j <= k THEN 0 ELSE moved[j]
      BY <1>10, <2>2, <3>2
    <3>5. CASE i \in 1 .. l
      <4>1. x[j] = raw[j - k] /\ j - k = l + 1 - i /\ j - k \in 1 .. l
        BY <1>2, <1>8, <3>1, <3>2, <3>4, <3>5
      <4>2. m[i] = s[l + 1 - i]
        BY <1>1, <1>12, <2>2, <3>5, ByAddressSeq
      <4> QED
        BY <1>7, <1>16, <3>3, <3>5, <4>1, <4>2
    <3>6. CASE i \in l + 1 .. l + k /\ i - l \in 1 .. k
      BY <1>2, <1>14, <1>16, <3>2, <3>3, <3>4, <3>6
    <3> QED
      BY <2>1, <3>5, <3>6
  <2>3. CASE ~build.big_endian
    <3>1. w[i] = x[i]
      BY <1>11, <1>12, <2>3, ByAddressSeq
    <3>2. x[i] = IF i > l /\ ~build.use_mmap THEN 0 ELSE raw[i]
      BY <1>10, <2>3
    <3>3. CASE i \in 1 .. l
      <4>1. x[i] = s[i]
        BY <1>2, <1>7, <3>2, <3>3
      <4>2. m[i] = s[i]
        BY <1>1, <1>12, <2>3, <3>3, ByAddressSeq
      <4> QED
        BY <1>16, <3>1, <3>3, <4>1, <4>2
    <3>4. CASE i \in l + 1 .. l + k /\ i - l \in 1 .. k
      <4>1. raw[i] = t[i - l]
        BY <1>7, <3>4
      <4>2. build.use_mmap => t[i - l] = 0
        BY <1>3, <3>4
      <4>3. x[i] = 0
        BY <1>2, <3>2, <3>4, <4>1, <4>2
      <4> QED
        BY <1>14, <1>16, <3>1, <3>4, <4>3
    <3> QED
      BY <2>1, <3>3, <3>4
  <2> QED
    BY <2>2, <2>3
<1>18. w = c
  BY <1>13, <1>16, <1>17, SeqEqual
<1> QED
  BY <1>9, <1>12, <1>15, <1>18

-----------------------------------------------------------------------------
(* Refinement of LinearMemory                                               *)

\* Before allocation there is no block.  build is one that is exact.
Exactly ==
  /\ MemInv
  /\ ExactBuild(build)
  /\ block.state = "none" => block = None

LEMMA MappedBytes ==
  ASSUME Exactly, HasData
  PROVE  /\ ByAddress(block.bytes) \in Seq(Cell) /\ Len(ByAddress(block.bytes)) = mem.size /\ mem.size \in Nat
         /\ Linear!pages = mem.pages
<1>1. block.bytes \in Seq(Cell) /\ Len(block.bytes) = mem.size /\ mem.size \in Nat
  BY DEF Exactly, HasData, MemInv
<1>2. ByAddress(block.bytes) \in Seq(Cell) /\ Len(ByAddress(block.bytes)) = mem.size
  BY <1>1, ByAddressSeq
<1>3. PICK p : p = mem.pages
  OBVIOUS
<1>4. p \in Nat /\ mem.size = p * PageSize
  BY <1>3 DEF HasData
<1>5. PageSize \in Nat \ {0}
  BY MemoryAssumption
<1>6. (p * PageSize) \div PageSize = p
  BY <1>4, <1>5
<1>7. Linear!pages = mem.size \div PageSize
  BY <1>2 DEF Linear!pages
<1> QED
  BY <1>1, <1>2, <1>3, <1>4, <1>6, <1>7

LEMMA SameBytes ==
  ASSUME block' = block, build' = build
  PROVE  ByAddress(block.bytes)' = ByAddress(block.bytes)
BY DEF ByAddress

LEMMA MappedBlock ==
  ASSUME NEW s, block'.bytes = s, build' = build
  PROVE  ByAddress(block.bytes)' = ByAddress(s)
BY DEF ByAddress

LEMMA ReadImplemented ==
  ASSUME Exactly, HasData, build' = build, block' = block, dropped' = dropped, NEW a \in Nat, NEW n \in Nat,
         last'.res = IF a + n > mem.size THEN Trap ELSE Returns(At(a, n))
  PROVE  Linear!Read(a, n)
<1>1. Len(ByAddress(block.bytes)) = mem.size /\ mem.size \in Nat
  BY MappedBytes
<1>2. ~(a + n > mem.size) => At(a, n) = SubSeq(ByAddress(block.bytes), a + 1, a + n)
  BY <1>1, ReadBytes DEF Exactly
<1>3. ByAddress(block.bytes)' = ByAddress(block.bytes)
  BY SameBytes
<1>4. last'.res = IF a + n > Len(ByAddress(block.bytes)) THEN Trap
                  ELSE Returns(SubSeq(ByAddress(block.bytes), a + 1, a + n))
  BY <1>1, <1>2
<1>5. (dropped /\ block.state # "none")' = (dropped /\ block.state # "none")
  OBVIOUS
<1> QED
  BY <1>3, <1>4, <1>5 DEF Linear!Read, Linear!Trap, Linear!Returns, Trap, Returns

\* n bytes of s from b on are written to a, or the instruction traps.
LEMMA WriteImplemented ==
  ASSUME Exactly, HasData, build' = build, block'.state # "none", dropped' = dropped, NEW a \in Nat, NEW b \in Nat, NEW n \in Nat,
         NEW S, NEW s \in Seq(S), NEW v \in Seq(Cell), Len(v) = n,
         NEW done, done <=> a + n <= mem.size /\ b + n <= Len(s),
         done => /\ last'.res = Done /\ block' = Put(MEM_ADDR(a, n), Native(v))
                 /\ \A i \in 1 .. n : v[i] = s[b + i],
         ~done => last'.res = Trap /\ block' = block
  PROVE  Linear!Write(a, s, b, n)
<1>1. PICK m : m = ByAddress(block.bytes)
  OBVIOUS
<1>2. m \in Seq(Cell) /\ Len(m) = mem.size /\ mem.size \in Nat
  BY <1>1, MappedBytes
<1>3. (dropped /\ block.state # "none")' = (dropped /\ block.state # "none")
  BY DEF HasData
<1>4. CASE done
  <2>1. ~(a + n > Len(m) \/ b + n > Len(s))
    BY <1>2, <1>4
  <2>2. PICK e : e = Put(MEM_ADDR(a, n), Native(v)).bytes
    OBVIOUS
  <2>3. ByAddress(e) = [i \in 1 .. mem.size |-> IF i - a \in 1 .. n THEN v[i - a] ELSE m[i]]
    <3>1. MemInv /\ a + Len(v) <= mem.size
      BY <1>4 DEF Exactly
    <3>2. PICK f : f = ByAddress(Put(MEM_ADDR(a, Len(v)), Native(v)).bytes)
      OBVIOUS
    <3>3. f = [i \in 1 .. mem.size |-> IF i - a \in 1 .. Len(v) THEN v[i - a] ELSE m[i]]
      <4>1. ByAddress(Put(MEM_ADDR(a, Len(v)), Native(v)).bytes)
              = [i \in 1 .. mem.size |-> IF i - a \in 1 .. Len(v) THEN v[i - a] ELSE ByAddress(block.bytes)[i]]
        BY <3>1, WrittenBytes
      <4> QED
        BY <1>1, <3>2, <4>1
    <3>4. f = ByAddress(e)
      BY <2>2, <3>2
    <3> QED
      BY <3>3, <3>4
  <2>4. ASSUME NEW i \in 1 .. mem.size
        PROVE  (IF i - a \in 1 .. n THEN v[i - a] ELSE m[i]) = (IF i - a \in 1 .. n THEN s[b + i - a] ELSE m[i])
    <3>1. CASE i - a \in 1 .. n
      <4>1. v[i - a] = s[b + (i - a)]
        BY <1>4, <3>1
      <4>2. b + (i - a) = b + i - a
        BY <1>2
      <4> QED
        BY <3>1, <4>1, <4>2
    <3>2. CASE ~(i - a \in 1 .. n)
      BY <3>2
    <3> QED
      BY <3>1, <3>2
  <2>5. ByAddress(e) = [i \in 1 .. Len(m) |-> IF i - a \in 1 .. n THEN s[b + i - a] ELSE m[i]]
    BY <1>2, <2>3, <2>4
  <2>6. ByAddress(block.bytes)' = ByAddress(e)
    BY <1>4, <2>2, MappedBlock
  <2>7. last'.res = Done
    BY <1>4
  <2> QED
    BY <1>1, <1>3, <2>1, <2>5, <2>6, <2>7 DEF Linear!Write, Linear!Done, Done
<1>5. CASE ~done
  <2>1. a + n > Len(m) \/ b + n > Len(s)
    BY <1>2, <1>5
  <2>2. ByAddress(block.bytes)' = m
    BY <1>1, <1>5, SameBytes
  <2>3. last'.res = Trap
    BY <1>5
  <2> QED
    BY <1>1, <1>3, <2>1, <2>2, <2>3 DEF Linear!Write, Linear!Trap, Trap
<1> QED
  BY <1>4, <1>5

\* Which loads and stores are done: those that end inside of the memory.
LEMMA AccessExact ==
  ASSUME Exactly, HasData, NEW a \in Index(build), NEW o \in build.offset, NEW n \in build.width
  PROVE  LET e == Effective(a, o)
         IN  /\ e = a + o /\ e \in Nat /\ n \in 1 .. U32
             /\ MEMCHECK(e, n) => Owned(MEM_ADDR(e, n), n) \/ Faults(MEM_ADDR(e, n), n)
             /\ (MEMCHECK(e, n) /\ Owned(MEM_ADDR(e, n), n)) <=> a + o + n <= mem.size
<1>1. build \in Builds /\ ValidBuild(build)
  BY MemoryAssumption DEF Exactly, MemInv
<1>2. o \in Index(build) /\ n \in 1 .. U32 /\ n \in Nat /\ n > 0
  BY <1>1, Ranges DEF ValidBuild
<1>3. a \in Nat /\ o \in Nat /\ a < IndexRange(build) /\ o < IndexRange(build)
  BY <1>1, <1>2, IndexFacts
<1>4. a + o < U64 /\ (~build.is64 => a + o + n < U64)
  <2>1. CASE build.is64
    <3>1. o = 0
      BY <2>1 DEF Exactly, ExactBuild
    <3> QED
      BY <1>1, <1>3, <2>1, <3>1, IndexFacts, Ranges
  <2>2. CASE ~build.is64
    <3>1. a < U32 /\ o < U32
      BY <1>1, <1>3, <2>2, IndexFacts
    <3> QED
      BY <1>2, <1>3, <2>2, <3>1, Ranges
  <2> QED
    BY <2>1, <2>2
<1>5. PICK e : e = Effective(a, o)
  OBVIOUS
<1>6. e = a + o /\ e \in Nat
  <2>1. (a + o) % U64 = a + o
    BY <1>3, <1>4, Ranges, ModSmall
  <2> QED
    BY <1>3, <1>5, <2>1 DEF Effective
<1>7. PICK p : p = MEM_ADDR(e, n)
  OBVIOUS
<1>8. MEMCHECK(e, n) => Owned(p, n) \/ Faults(p, n)
  BY <1>2, <1>5, <1>7, AccessSafe DEF Exactly
<1>9. /\ mem.size \in Nat /\ block.state = "live" /\ Len(block.bytes) = mem.size
      /\ mem.size < U64
  BY <1>1, PagesFit DEF HasData, Exactly, MemInv
<1>10. (build.big_endian => p = mem.size - e - n) /\ (~build.big_endian => p = e)
  BY <1>7 DEF MEM_ADDR
<1>11. Owned(p, n) <=> p >= 0 /\ p + n <= mem.size
  BY <1>2, <1>9 DEF Owned
<1>12. Owned(p, n) <=> e + n <= mem.size
  BY <1>2, <1>6, <1>9, <1>10, <1>11
<1>13. e + n <= mem.size => MEMCHECK(e, n)
  <2> SUFFICES ASSUME e + n <= mem.size PROVE RANGE_CHECK(e, n)
    BY DEF MEMCHECK
  <2>1. e + n \in Nat /\ e + n < U64
    BY <1>2, <1>6, <1>9, Ranges
  <2>2. (e + n) % U64 = e + n
    BY <2>1, Ranges, ModSmall
  <2> QED
    BY <2>1, <2>2 DEF RANGE_CHECK
<1> QED
  BY <1>2, <1>5, <1>6, <1>7, <1>8, <1>12, <1>13

LEMMA ExecutingExactly ==
  ASSUME Exactly, NEW op, op # "none", Execute(op)
  PROVE  /\ build \in Builds /\ ins \in Instr(build) /\ ins.op = op /\ ins' = NoInstr /\ build' = build
         /\ ins # NoInstr /\ block.state # "none" /\ HasData
BY Executing, NoOperands DEF Exactly

LEMMA StoreAtIs ==
  ASSUME Exactly, HasData, NEW a \in Nat, NEW v \in Seq(Cell), NEW n, n = Len(v), NEW checked \in BOOLEAN, NEW log, StoreAt(a, v, checked, log),
         checked => Owned(MEM_ADDR(a, n), n) \/ Faults(MEM_ADDR(a, n), n)
  PROVE  /\ dropped' = dropped /\ block'.state # "none"
         /\ checked /\ Owned(MEM_ADDR(a, n), n) => last'.res = Done /\ block' = Put(MEM_ADDR(a, n), Native(v))
         /\ ~(checked /\ Owned(MEM_ADDR(a, n), n)) => last'.res = Trap /\ block' = block
<1>1. PICK p, w : p = MEM_ADDR(a, n) /\ w = Put(p, Native(v))
  OBVIOUS
<1>2. PICK res : res = IF ~checked THEN Trap ELSE IF Owned(p, n) THEN Done ELSE IF Faults(p, n) THEN Trap ELSE Wild
  OBVIOUS
<1>3. /\ block' = IF res = Done THEN w ELSE block
      /\ last' = [res |-> res, log |-> log] /\ dropped' = dropped
  BY <1>1, <1>2 DEF StoreAt
<1>4. Trap # Done
  BY DEF Trap, Done
<1>5. block.state = "live" /\ w.state = "live"
  <2>1. block \in [state : {"none", "null", "freed", "live"}, bytes : Seq(Cell)] /\ block.state = "live"
    BY DEF Exactly, MemInv, HasData
  <2> QED
    BY <1>1, <2>1 DEF Put
<1>6. CASE checked /\ Owned(p, n)
  <2>1. res = Done
    BY <1>2, <1>6
  <2> QED
    BY <1>1, <1>3, <1>5, <1>6, <2>1
<1>7. CASE ~(checked /\ Owned(p, n))
  <2>1. res = Trap
    BY <1>1, <1>2, <1>7
  <2> QED
    BY <1>1, <1>3, <1>4, <1>5, <1>7, <2>1
<1> QED
  BY <1>6, <1>7

\* The operands of loads, stores and bulk instructions.
LEMMA AccessOperands ==
  ASSUME NEW b \in Builds, NEW i \in Instr(b)
  PROVE  /\ i.op \in {"load", "store"} => i.a \in Index(b) /\ i.b \in b.offset /\ i.n \in b.width
         /\ i.op = "store" => i.s \in [1 .. i.n -> Byte]
         /\ i.op \in {"fill", "copy", "init"} => b.bulk
         /\ i.op = "grow" => i.a \in b.delta
<1>1. CASE i \in [op : {"load"}, a : Index(b), b : b.offset, n : b.width, s : {<<>>}]
  BY <1>1
<1>2. CASE i \in UNION {[op : {"store"}, a : Index(b), b : b.offset, n : {w}, s : [1 .. w -> Byte]] : w \in b.width}
  <2>1. PICK w \in b.width : i \in [op : {"store"}, a : Index(b), b : b.offset, n : {w}, s : [1 .. w -> Byte]]
    BY <1>2
  <2>2. i.op = "store" /\ i.a \in Index(b) /\ i.b \in b.offset /\ i.n = w /\ i.s \in [1 .. w -> Byte]
    BY <2>1
  <2>3. i.s \in [1 .. i.n -> Byte]
    BY <2>2
  <2> QED
    BY <2>2, <2>3
<1>3. CASE i \in [op : {"grow"}, a : b.delta, b : {0}, n : {0}, s : {<<>>}]
  BY <1>3
<1>4. CASE i \in [op : {"size"}, a : {0}, b : {0}, n : {0}, s : {<<>>}]
  BY <1>4
<1>5. CASE b.bulk /\ i \in BulkInstr(b)
  <2>1. i.op \in {"fill", "copy", "init", "drop"}
    BY <1>5 DEF BulkInstr
  <2> QED
    BY <1>5, <2>1
<1>6. \/ i \in [op : {"load"}, a : Index(b), b : b.offset, n : b.width, s : {<<>>}]
      \/ i \in UNION {[op : {"store"}, a : Index(b), b : b.offset, n : {w}, s : [1 .. w -> Byte]] : w \in b.width}
      \/ i \in [op : {"grow"}, a : b.delta, b : {0}, n : {0}, s : {<<>>}]
      \/ i \in [op : {"size"}, a : {0}, b : {0}, n : {0}, s : {<<>>}]
      \/ b.bulk /\ i \in BulkInstr(b)
  BY Zenon DEF Instr
<1> QED
  BY <1>1, <1>2, <1>3, <1>4, <1>5, <1>6, Zenon

LEMMA LoadImplemented ==
  ASSUME Exactly, Load
  PROVE  Linear!Execute
<1>1. Execute("load")
  BY DEF Load
<1>2. /\ build \in Builds /\ ins \in Instr(build) /\ ins.op = "load" /\ ins' = NoInstr /\ build' = build
      /\ ins # NoInstr /\ block.state # "none" /\ HasData
  BY <1>1, ExecutingExactly
<1>3. ins.a \in Index(build) /\ ins.b \in build.offset /\ ins.n \in build.width
  BY <1>2, AccessOperands
<1>4. PICK a, o, n : a = ins.a /\ o = ins.b /\ n = ins.n
  OBVIOUS
<1>5. PICK e : e = Effective(a, o)
  OBVIOUS
<1>6. /\ e = a + o /\ e \in Nat /\ n \in 1 .. U32
      /\ MEMCHECK(e, n) => Owned(MEM_ADDR(e, n), n) \/ Faults(MEM_ADDR(e, n), n)
      /\ (MEMCHECK(e, n) /\ Owned(MEM_ADDR(e, n), n)) <=> a + o + n <= mem.size
  BY <1>2, <1>3, <1>4, <1>5, AccessExact
<1>7. PICK p : p = MEM_ADDR(e, n)
  OBVIOUS
<1>8. last'.res = IF ~MEMCHECK(e, n) THEN Trap
                  ELSE IF Owned(p, n) THEN Returns(Native(SubSeq(block.bytes, p + 1, p + n)))
                  ELSE IF Faults(p, n) THEN Trap ELSE Wild
  BY <1>4, <1>5, <1>7 DEF Load
<1>9. Native(SubSeq(block.bytes, p + 1, p + n)) = At(e, n)
  BY <1>7 DEF At
<1>10. n \in Nat /\ mem.size \in Nat /\ e + n = a + o + n
  BY <1>2, <1>6, Ranges, MappedBytes
<1>11. last'.res = IF e + n > mem.size THEN Trap ELSE Returns(At(e, n))
  <2>1. CASE e + n > mem.size
    <3>1. ~(MEMCHECK(e, n) /\ Owned(p, n))
      BY <1>6, <1>7, <1>10, <2>1
    <3> QED
      BY <1>6, <1>7, <1>8, <2>1, <3>1
  <2>2. CASE ~(e + n > mem.size)
    <3>1. MEMCHECK(e, n) /\ Owned(p, n)
      BY <1>6, <1>7, <1>10, <2>2
    <3> QED
      BY <1>8, <1>9, <2>2, <3>1
  <2> QED
    BY <2>1, <2>2
<1>12. block' = block /\ dropped' = dropped
  BY DEF Load
<1>13. Linear!Read(e, n)
  BY <1>2, <1>6, <1>10, <1>11, <1>12, ReadImplemented
<1>14. Linear!Read(ins.a + ins.b, ins.n)
  BY <1>4, <1>6, <1>13
<1> QED
  BY <1>2, <1>12, <1>14 DEF Linear!Execute

LEMMA StoreImplemented ==
  ASSUME Exactly, Store
  PROVE  Linear!Execute
<1>1. Execute("store")
  BY DEF Store
<1>2. /\ build \in Builds /\ ins \in Instr(build) /\ ins.op = "store" /\ ins' = NoInstr /\ build' = build
      /\ ins # NoInstr /\ block.state # "none" /\ HasData
  BY <1>1, ExecutingExactly
<1>3. ins.a \in Index(build) /\ ins.b \in build.offset /\ ins.n \in build.width /\ ins.s \in [1 .. ins.n -> Byte]
  BY <1>2, AccessOperands
<1>4. PICK a, o, n, s : a = ins.a /\ o = ins.b /\ n = ins.n /\ s = ins.s
  OBVIOUS
<1>5. PICK e : e = Effective(a, o)
  OBVIOUS
<1>6. /\ e = a + o /\ e \in Nat /\ n \in 1 .. U32
      /\ MEMCHECK(e, n) => Owned(MEM_ADDR(e, n), n) \/ Faults(MEM_ADDR(e, n), n)
      /\ (MEMCHECK(e, n) /\ Owned(MEM_ADDR(e, n), n)) <=> a + o + n <= mem.size
  BY <1>2, <1>3, <1>4, <1>5, AccessExact
<1>7. n \in Nat /\ mem.size \in Nat /\ a \in Nat /\ o \in Nat /\ e + n = a + o + n
  <2>1. ValidBuild(build)
    BY <1>2, MemoryAssumption
  <2>2. a \in Nat /\ o \in Nat
    BY <1>2, <1>3, <1>4, <2>1, IndexFacts DEF ValidBuild
  <2> QED
    BY <1>2, <1>6, <2>2, Ranges, MappedBytes
<1>8. s \in [1 .. n -> Cell]
  BY <1>3, <1>4, CellFacts
<1>9. s \in Seq(Cell) /\ Len(s) = n
  BY <1>7, <1>8, AsSeq
<1>10. PICK checked \in BOOLEAN : checked <=> MEMCHECK(e, n)
  <2>1. MEMCHECK(e, n) \/ ~MEMCHECK(e, n)
    OBVIOUS
  <2> QED
    BY <2>1
<1>11. StoreAt(e, s, MEMCHECK(e, n), Logged(a, o))
  BY <1>4, <1>5 DEF Store
<1>12. StoreAt(e, s, checked, Logged(a, o))
  BY <1>10, <1>11 DEF StoreAt
<1>13. PICK done \in BOOLEAN : done <=> checked /\ Owned(MEM_ADDR(e, n), n)
  OBVIOUS
<1>14. /\ dropped' = dropped /\ block'.state # "none"
       /\ done => last'.res = Done /\ block' = Put(MEM_ADDR(e, n), Native(s))
       /\ ~done => last'.res = Trap /\ block' = block
  BY <1>2, <1>6, <1>9, <1>10, <1>12, <1>13, StoreAtIs
<1>15. done <=> e + n <= mem.size /\ 0 + n <= Len(s)
  BY <1>6, <1>7, <1>9, <1>10, <1>13
<1>16. \A i \in 1 .. n : s[i] = s[0 + i]
  BY <1>7
<1>17. Linear!Write(e, s, 0, n)
  BY <1>2, <1>6, <1>7, <1>9, <1>14, <1>15, <1>16, WriteImplemented
<1>18. Linear!Write(ins.a + ins.b, ins.s, 0, ins.n)
  BY <1>4, <1>6, <1>17
<1> QED
  BY <1>2, <1>14, <1>18 DEF Linear!Execute

\* A bulk instruction of an exact build: its operands are whole, and it is done
\* if what it writes ends inside of the memory.
LEMMA BulkExact ==
  ASSUME Exactly, HasData, ins \in Instr(build), ins.op \in {"fill", "copy", "init"}
  PROVE  /\ ins.a % U32 = ins.a /\ ins.n % U32 = ins.n /\ ins.a \in Nat /\ ins.n \in Nat
         /\ RANGE_CHECK(ins.a, ins.n) <=> ins.a + ins.n <= mem.size
         /\ RANGE_CHECK(ins.a, ins.n) => Owned(MEM_ADDR(ins.a, ins.n), ins.n)
         /\ ins.op # "fill" => /\ ins.b % U32 = ins.b /\ ins.b \in Nat
                               /\ RANGE_CHECK(ins.b, ins.n) <=> ins.b + ins.n <= mem.size
                               /\ RANGE_CHECK(ins.b, ins.n) => Owned(MEM_ADDR(ins.b, ins.n), ins.n)
<1>1. build \in Builds /\ ~build.is64
  <2>1. build \in Builds /\ build.bulk
    BY AccessOperands DEF Exactly, MemInv
  <2> QED
    BY <2>1 DEF Exactly, ExactBuild
<1>2. ASSUME NEW x \in Index(build)
      PROVE  x \in Nat /\ x < U32 /\ x % U32 = x
  <2>1. x \in Nat /\ x < U32
    BY <1>1, IndexFacts
  <2> QED
    BY <2>1, Ranges, ModSmall
<1>3. ASSUME NEW x \in Nat, NEW y \in Nat, x < U32, y < U32
      PROVE  /\ RANGE_CHECK(x, y) <=> x + y <= mem.size
             /\ RANGE_CHECK(x, y) => Owned(MEM_ADDR(x, y), y)
  <2>1. x + y < U64 /\ x + y \in Nat
    BY <1>3, Ranges
  <2>2. (x + y) % U64 = x + y
    BY <2>1, Ranges, ModSmall
  <2>3. RANGE_CHECK(x, y) <=> x + y <= mem.size
    BY <1>1, <2>2 DEF RANGE_CHECK
  <2>4. RANGE_CHECK(x, y) => Owned(MEM_ADDR(x, y), y)
    BY <2>1, CheckedOwned DEF Exactly
  <2> QED
    BY <2>3, <2>4
<1>4. ins.a \in Index(build) /\ ins.n \in Index(build) /\ (ins.op # "fill" => ins.b \in Index(build))
  BY <1>1, Operands
<1>5. /\ ins.a \in Nat /\ ins.a < U32 /\ ins.a % U32 = ins.a
      /\ ins.n \in Nat /\ ins.n < U32 /\ ins.n % U32 = ins.n
  BY <1>2, <1>4
<1>6. ins.op # "fill" => ins.b \in Nat /\ ins.b < U32 /\ ins.b % U32 = ins.b
  BY <1>2, <1>4
<1>7. /\ RANGE_CHECK(ins.a, ins.n) <=> ins.a + ins.n <= mem.size
      /\ RANGE_CHECK(ins.a, ins.n) => Owned(MEM_ADDR(ins.a, ins.n), ins.n)
  BY <1>3, <1>5
<1>8. CASE ins.op = "fill"
  BY <1>5, <1>7, <1>8
<1>9. CASE ins.op # "fill"
  <2>1. /\ RANGE_CHECK(ins.b, ins.n) <=> ins.b + ins.n <= mem.size
        /\ RANGE_CHECK(ins.b, ins.n) => Owned(MEM_ADDR(ins.b, ins.n), ins.n)
    BY <1>3, <1>5, <1>6, <1>9
  <2> QED
    BY <1>5, <1>6, <1>7, <1>9, <2>1
<1> QED
  BY <1>8, <1>9

LEMMA FillImplemented ==
  ASSUME Exactly, memory_fill
  PROVE  Linear!Execute
<1>1. Execute("fill")
  BY DEF memory_fill
<1>2. /\ build \in Builds /\ ins \in Instr(build) /\ ins.op = "fill" /\ ins' = NoInstr /\ build' = build
      /\ ins # NoInstr /\ block.state # "none" /\ HasData
  BY <1>1, ExecutingExactly
<1>3. PICK a, n : a = ins.a /\ n = ins.n
  OBVIOUS
<1>4. /\ a % U32 = a /\ n % U32 = n /\ a \in Nat /\ n \in Nat
      /\ RANGE_CHECK(a, n) <=> a + n <= mem.size
      /\ RANGE_CHECK(a, n) => Owned(MEM_ADDR(a, n), n)
  BY <1>2, <1>3, BulkExact
<1>5. PICK c : c = ins.s[1]
  OBVIOUS
<1>6. c \in Cell
  <2>1. ins.s \in [1 .. 1 -> Byte]
    BY <1>2, Operands
  <2> QED
    BY <1>5, <2>1, CellFacts
<1>7. PICK s : s = [i \in 1 .. n |-> c]
  OBVIOUS
<1>8. s \in Seq(Cell) /\ Len(s) = n
  BY <1>4, <1>6, <1>7, ZerosSeq
<1>9. PICK checked \in BOOLEAN : checked <=> RANGE_CHECK(a, n)
  <2>1. RANGE_CHECK(a, n) \/ ~RANGE_CHECK(a, n)
    OBVIOUS
  <2> QED
    BY <2>1
<1>10. StoreAt(a, s, RANGE_CHECK(a, n), NoLog)
  BY <1>3, <1>4, <1>5, <1>7 DEF memory_fill
<1>11. StoreAt(a, s, checked, NoLog)
  BY <1>9, <1>10 DEF StoreAt
<1>12. PICK done \in BOOLEAN : done <=> checked /\ Owned(MEM_ADDR(a, n), n)
  OBVIOUS
<1>13. /\ dropped' = dropped /\ block'.state # "none"
       /\ done => last'.res = Done /\ block' = Put(MEM_ADDR(a, n), Native(s))
       /\ ~done => last'.res = Trap /\ block' = block
  BY <1>2, <1>4, <1>8, <1>9, <1>11, <1>12, StoreAtIs
<1>14. done <=> a + n <= mem.size /\ 0 + n <= Len(s)
  BY <1>4, <1>8, <1>9, <1>12
<1>15. \A i \in 1 .. n : s[i] = s[0 + i]
  BY <1>4
<1>16. Linear!Write(a, s, 0, n)
  BY <1>2, <1>4, <1>8, <1>13, <1>14, <1>15, WriteImplemented
<1>17. Linear!Write(ins.a, [i \in 1 .. ins.n |-> ins.s[1]], 0, ins.n)
  BY <1>3, <1>5, <1>7, <1>16
<1> QED
  BY <1>2, <1>13, <1>17 DEF Linear!Execute

LEMMA CopyImplemented ==
  ASSUME Exactly, memory_copy
  PROVE  Linear!Execute
<1>1. Execute("copy")
  BY DEF memory_copy
<1>2. /\ build \in Builds /\ ins \in Instr(build) /\ ins.op = "copy" /\ ins' = NoInstr /\ build' = build
      /\ ins # NoInstr /\ block.state # "none" /\ HasData
  BY <1>1, ExecutingExactly
<1>3. PICK a, b, n : a = ins.a /\ b = ins.b /\ n = ins.n
  OBVIOUS
<1>4. /\ a % U32 = a /\ n % U32 = n /\ b % U32 = b /\ a \in Nat /\ n \in Nat /\ b \in Nat
      /\ RANGE_CHECK(a, n) <=> a + n <= mem.size
      /\ RANGE_CHECK(b, n) <=> b + n <= mem.size
      /\ RANGE_CHECK(a, n) => Owned(MEM_ADDR(a, n), n)
      /\ RANGE_CHECK(b, n) => Owned(MEM_ADDR(b, n), n)
  BY <1>2, <1>3, BulkExact
<1>5. PICK checked \in BOOLEAN : checked <=> RANGE_CHECK(a, n) /\ RANGE_CHECK(b, n)
  <2>1. (RANGE_CHECK(a, n) /\ RANGE_CHECK(b, n)) \/ ~(RANGE_CHECK(a, n) /\ RANGE_CHECK(b, n))
    OBVIOUS
  <2> QED
    BY <2>1
<1>6. PICK v : v = IF checked /\ Owned(MEM_ADDR(b, n), n) THEN At(b, n) ELSE Zeros(n)
  OBVIOUS
<1>7. StoreAt(a, v, checked, NoLog)
  <2>1. PICK w : w = IF RANGE_CHECK(a, n) /\ RANGE_CHECK(b, n) /\ Owned(MEM_ADDR(b, n), n) THEN At(b, n) ELSE Zeros(n)
    OBVIOUS
  <2>2. StoreAt(a, w, RANGE_CHECK(a, n) /\ RANGE_CHECK(b, n), NoLog)
    BY <1>3, <1>4, <2>1 DEF memory_copy, At
  <2>3. v = w
    BY <1>5, <1>6, <2>1
  <2> QED
    BY <1>5, <2>2, <2>3 DEF StoreAt
<1>8. PICK m : m = ByAddress(block.bytes)
  OBVIOUS
<1>9. m \in Seq(Cell) /\ Len(m) = mem.size /\ mem.size \in Nat
  BY <1>2, <1>8, MappedBytes
<1>10. v \in Seq(Cell) /\ Len(v) = n /\ (checked => \A i \in 1 .. n : v[i] = m[b + i])
  <2>1. CASE checked
    <3>1. v = At(b, n) /\ b + n <= mem.size
      BY <1>4, <1>5, <1>6, <2>1
    <3>2. At(b, n) = SubSeq(m, b + 1, b + n) /\ At(b, n) \in Seq(Cell) /\ Len(At(b, n)) = n
      BY <1>2, <1>4, <1>8, <3>1, ReadBytes DEF Exactly
    <3>3. \A i \in 1 .. n : SubSeq(m, b + 1, b + n)[i] = m[b + i]
      BY <1>4, <1>9, <3>1, PartOf
    <3> QED
      BY <3>1, <3>2, <3>3
  <2>2. CASE ~checked
    <3>1. v = Zeros(n)
      BY <1>6, <2>2
    <3> QED
      BY <1>4, <2>2, <3>1, ZerosSeq, CellFacts DEF Zeros
  <2> QED
    BY <2>1, <2>2
<1>11. PICK done \in BOOLEAN : done <=> checked /\ Owned(MEM_ADDR(a, n), n)
  OBVIOUS
<1>12. /\ dropped' = dropped /\ block'.state # "none"
       /\ done => last'.res = Done /\ block' = Put(MEM_ADDR(a, n), Native(v))
       /\ ~done => last'.res = Trap /\ block' = block
  BY <1>2, <1>4, <1>5, <1>7, <1>10, <1>11, StoreAtIs
<1>13. done <=> a + n <= mem.size /\ b + n <= Len(m)
  BY <1>4, <1>5, <1>9, <1>11
<1>14. done => \A i \in 1 .. n : v[i] = m[b + i]
  BY <1>10, <1>11
<1>15. Linear!Write(a, m, b, n)
  BY <1>2, <1>4, <1>9, <1>10, <1>12, <1>13, <1>14, WriteImplemented
<1>16. Linear!Write(ins.a, ByAddress(block.bytes), ins.b, ins.n)
  BY <1>3, <1>8, <1>15
<1> QED
  BY <1>2, <1>12, <1>16 DEF Linear!Execute

LEMMA InitImplemented ==
  ASSUME Exactly, memory_init
  PROVE  Linear!Execute
<1>1. Execute("init")
  BY DEF memory_init
<1>2. /\ build \in Builds /\ ins \in Instr(build) /\ ins.op = "init" /\ ins' = NoInstr /\ build' = build
      /\ ins # NoInstr /\ block.state # "none" /\ HasData
  BY <1>1, ExecutingExactly
<1>3. PICK a, b, n : a = ins.a /\ b = ins.b /\ n = ins.n
  OBVIOUS
<1>4. /\ a % U32 = a /\ n % U32 = n /\ b % U32 = b /\ a \in Nat /\ n \in Nat /\ b \in Nat
      /\ RANGE_CHECK(a, n) <=> a + n <= mem.size
      /\ RANGE_CHECK(a, n) => Owned(MEM_ADDR(a, n), n)
  BY <1>2, <1>3, BulkExact
<1>5. PICK s : s = IF dropped THEN <<>> ELSE Segment
  OBVIOUS
<1>6. s \in Seq(Byte) /\ Len(s) \in Nat /\ (dropped => Len(s) = 0) /\ (~dropped => s = Segment)
  <2>1. Segment \in Seq(Byte)
    BY MemoryAssumption
  <2> QED
    BY <1>5, <2>1
<1>7. PICK fits \in BOOLEAN : fits <=> b + n <= Len(s)
  OBVIOUS
<1>8. PICK v : v = IF fits THEN SubSeq(Segment, b + 1, b + n) ELSE <<>>
  OBVIOUS
<1>9. Len(s) = IF dropped THEN 0 ELSE Len(Segment)
  BY <1>5, <1>6
<1>10. PICK checked \in BOOLEAN : checked <=> fits /\ RANGE_CHECK(a, n)
  <2>1. (fits /\ RANGE_CHECK(a, n)) \/ ~(fits /\ RANGE_CHECK(a, n))
    OBVIOUS
  <2> QED
    BY <2>1
<1>11. StoreAt(a, v, checked, NoLog)
  <2>1. PICK room : room = IF dropped THEN 0 ELSE Len(Segment)
    OBVIOUS
  <2>2. StoreAt(a, IF b + n <= room THEN SubSeq(Segment, b + 1, b + n) ELSE <<>>, b + n <= room /\ RANGE_CHECK(a, n), NoLog)
    BY <1>3, <1>4, <2>1 DEF memory_init
  <2>3. fits <=> b + n <= room
    BY <1>7, <1>9, <2>1
  <2>4. v = IF b + n <= room THEN SubSeq(Segment, b + 1, b + n) ELSE <<>>
    BY <1>8, <2>3
  <2>5. checked <=> b + n <= room /\ RANGE_CHECK(a, n)
    BY <1>10, <2>3
  <2>6. StoreAt(a, v, b + n <= room /\ RANGE_CHECK(a, n), NoLog)
    BY <2>2, <2>4
  <2> QED
    BY <2>5, <2>6 DEF StoreAt
<1>12. ASSUME fits
       PROVE  Linear!Write(a, s, b, n) /\ block'.state # "none"
  <2>1. ~dropped \/ n = 0
    BY <1>4, <1>6, <1>7, <1>12
  <2>2. v = SubSeq(Segment, b + 1, b + n)
    BY <1>8, <1>12
  <2>3. v \in Seq(Byte) /\ Len(v) = n /\ \A i \in 1 .. n : v[i] = s[b + i]
    <3>1. CASE ~dropped
      <4>1. s = Segment /\ b + n <= Len(Segment) /\ Segment \in Seq(Byte)
        BY <1>6, <1>7, <1>12, <3>1
      <4> QED
        BY <1>4, <2>2, <4>1, PartOf
    <3>2. CASE n = 0
      <4>1. v = <<>>
        BY <1>4, <2>2, <3>2, MemoryAssumption
      <4> QED
        BY <3>2, <4>1
    <3> QED
      BY <2>1, <3>1, <3>2
  <2>4. v \in Seq(Cell)
    BY <2>3, CellFacts
  <2>5. PICK done \in BOOLEAN : done <=> checked /\ Owned(MEM_ADDR(a, n), n)
    OBVIOUS
  <2>6. /\ dropped' = dropped /\ block'.state # "none"
        /\ done => last'.res = Done /\ block' = Put(MEM_ADDR(a, n), Native(v))
        /\ ~done => last'.res = Trap /\ block' = block
    BY <1>2, <1>4, <1>10, <1>11, <2>3, <2>4, <2>5, StoreAtIs
  <2>7. done <=> a + n <= mem.size /\ b + n <= Len(s)
    BY <1>4, <1>7, <1>10, <1>12, <2>5
  <2>8. Linear!Write(a, s, b, n)
    BY <1>2, <1>4, <1>6, <2>3, <2>4, <2>6, <2>7, WriteImplemented
  <2> QED
    BY <2>6, <2>8
<1>13. ASSUME ~fits
       PROVE  Linear!Write(a, s, b, n) /\ block'.state # "none"
  <2>1. ~checked /\ v = <<>> /\ v \in Seq(Cell) /\ Len(v) = 0
    BY <1>8, <1>10, <1>13
  <2>2. last'.res = Trap /\ block' = block /\ dropped' = dropped
    BY <1>2, <1>4, <1>11, <2>1, StoreAtIs
  <2>3. ByAddress(block.bytes)' = ByAddress(block.bytes)
    BY <1>2, <2>2, SameBytes
  <2>4. b + n > Len(s)
    BY <1>4, <1>6, <1>7, <1>13
  <2>5. (dropped /\ block.state # "none")' = (dropped /\ block.state # "none")
    BY <2>2
  <2>6. Linear!Write(a, s, b, n)
    BY <2>2, <2>3, <2>4, <2>5 DEF Linear!Write, Linear!Trap, Trap
  <2> QED
    BY <1>2, <2>2, <2>6
<1>14. Linear!Write(a, s, b, n) /\ block'.state # "none"
  BY <1>12, <1>13, <1>2
<1>15. s = IF dropped /\ block.state # "none" THEN <<>> ELSE Segment
  BY <1>2, <1>5
<1>16. Linear!Write(ins.a, IF dropped /\ block.state # "none" THEN <<>> ELSE Segment, ins.b, ins.n)
  BY <1>3, <1>14, <1>15
<1> QED
  BY <1>2, <1>14, <1>16 DEF Linear!Execute

LEMMA OthersImplemented ==
  ASSUME Exactly, DataDrop \/ MemorySize
  PROVE  Linear!Execute
<1>1. PICK op \in {"drop", "size"} : Execute(op) /\ op = IF DataDrop THEN "drop" ELSE "size"
  BY DEF DataDrop, MemorySize
<1>2. /\ build \in Builds /\ ins.op = op /\ ins' = NoInstr /\ build' = build
      /\ ins # NoInstr /\ block.state # "none" /\ HasData
  BY <1>1, ExecutingExactly
<1>3. block' = block
  BY DEF DataDrop, MemorySize
<1>4. ByAddress(block.bytes)' = ByAddress(block.bytes)
  BY <1>2, <1>3, SameBytes
<1>5. CASE DataDrop
  <2>1. ins.op = "drop" /\ dropped' = TRUE /\ last'.res = Done
    BY <1>1, <1>2, <1>5 DEF DataDrop, Outcome
  <2>2. (dropped /\ block.state # "none")' = TRUE
    BY <1>2, <1>3, <2>1
  <2> QED
    BY <1>2, <1>3, <1>4, <2>1, <2>2 DEF Linear!Execute, Linear!Done, Done
<1>6. CASE MemorySize /\ ~DataDrop
  <2>1. ins.op = "size" /\ dropped' = dropped /\ last'.res = Returns(<<mem.pages>>)
    BY <1>1, <1>2, <1>6 DEF MemorySize, Outcome
  <2>2. Linear!pages = mem.pages
    BY <1>2, MappedBytes
  <2> QED
    BY <1>2, <1>3, <1>4, <2>1, <2>2 DEF Linear!Execute, Linear!Returns, Returns
<1> QED
  BY <1>5, <1>6

\* A growth that does not wrap: it is refused, or the host cannot, or the
\* memory gets the pages.
LEMMA GrowOutcomes ==
  ASSUME MemInv, HasData, NEW delta \in Index(build), mem.pages + delta # U64, grow_memory_impl(delta)
  PROVE  \/ GrowFails /\ block' = block
         \/ /\ mem.pages + delta <= MaxOf(build)
            /\ last' = Outcome(Returns(<<mem.pages>>))
            /\ \/ delta = 0 /\ block' = block
               \/ block' = Block(Extended(block.bytes, delta * PageSize))
<1>1. PICK p, m : p = mem.pages /\ m = (mem.pages + delta) % U64
  OBVIOUS
<1>2. build \in Builds /\ p \in Nat /\ p <= MaxOf(build) /\ mem.size = p * PageSize /\ delta \in Nat /\ delta < U64
  BY <1>1, IndexFacts, Ranges DEF MemInv, HasData
<1>3. PICK z, w : z = (m * PageSize) % U64 /\ w = (delta * PageSize) % U64
  OBVIOUS
<1>4. IF m = 0
      THEN last' = Outcome(Returns(<<0>>)) /\ UNCHANGED <<mem, block>>
      ELSE IF Refused(m)
      THEN GrowFails /\ UNCHANGED block
      ELSE IF ~build.use_mmap /\ z % SizeT = 0
      THEN ReallocZero
      ELSE IF (IF build.use_mmap THEN z ELSE z % SizeT) > build.host_memory
      THEN GrowFails /\ UNCHANGED block
      ELSE /\ block' = Block(Extended(block.bytes, w))
           /\ Resize(m, z)
           /\ last' = Outcome(Returns(<<mem.pages>>))
  BY <1>1, <1>3 DEF grow_memory_impl
<1>5. CASE m = 0
  <2>1. p < U64
    <3>1. PageSize \in Nat \ {0}
      BY MemoryAssumption
    <3>2. p <= p * PageSize /\ p * PageSize < U64 /\ p * PageSize \in Nat
      BY <1>2, <3>1, PagesFit, TimesGrow
    <3> QED
      BY <1>2, <3>2, Ranges
  <2>2. PICK t : t = p + delta
    OBVIOUS
  <2>3. t \in Nat /\ t < 2 * U64 /\ t # U64 /\ m = t % U64
    BY <1>1, <1>2, <2>1, <2>2, Ranges
  <2>4. t = 0
    <3>1. CASE t < U64
      <4>1. m = t
        BY <2>3, <3>1, Ranges, ModSmall
      <4> QED
        BY <1>5, <4>1
    <3>2. CASE U64 <= t
      <4>1. U64 \in Nat
        BY Ranges
      <4>2. t % U64 = t - U64
        BY <2>3, <3>2, <4>1, ModOnce
      <4> QED
        BY <1>5, <2>3, <4>1, <4>2
    <3> QED
      BY <2>3, <3>1, <3>2, Ranges
  <2>5. p = 0 /\ delta = 0
    BY <1>2, <2>2, <2>4
  <2>6. last' = Outcome(Returns(<<0>>)) /\ block' = block
    BY <1>4, <1>5
  <2>7. p + delta <= MaxOf(build)
    BY <1>2, <2>5
  <2> QED
    BY <1>1, <2>5, <2>6, <2>7
<1>6. CASE m # 0 /\ Refused(m)
  BY <1>4, <1>6
<1>7. CASE m # 0 /\ ~Refused(m)
  <2>1. m = p + delta /\ m \in Nat /\ m <= MaxOf(build)
    BY <1>1, <1>7, GrownPages
  <2>2. m * PageSize \in Nat /\ m * PageSize < SizeT /\ m * PageSize < U64
    BY <1>2, <2>1, PagesFit
  <2>3. z = m * PageSize /\ z % SizeT = z /\ z \in Nat
    BY <1>3, <2>2, Ranges, ModSmall
  <2>4. z # 0
    <3>1. PageSize \in Nat \ {0}
      BY MemoryAssumption
    <3> QED
      BY <1>7, <2>1, <2>3, <3>1, TimesZero
  <2>5. p * PageSize \in Nat /\ delta * PageSize \in Nat /\ m * PageSize = p * PageSize + delta * PageSize
    BY <1>2, <2>1, Ranges, TimesOrder, TimesSum
  <2>6. w = delta * PageSize
    <3>1. delta * PageSize < U64
      BY <2>2, <2>5, Ranges
    <3> QED
      BY <1>3, <2>5, <3>1, Ranges, ModSmall
  <2>7. \/ GrowFails /\ block' = block
        \/ block' = Block(Extended(block.bytes, w)) /\ last' = Outcome(Returns(<<mem.pages>>))
    BY <1>4, <1>7, <2>3, <2>4
  <2> QED
    BY <1>1, <2>1, <2>6, <2>7
<1> QED
  BY <1>5, <1>6, <1>7

LEMMA GrowImplemented ==
  ASSUME Exactly, wasm_rt_grow_memory
  PROVE  Linear!Execute
<1>1. Execute("grow") /\ grow_memory_impl(ins.a) /\ dropped' = dropped
  BY DEF wasm_rt_grow_memory
<1>2. /\ build \in Builds /\ ins \in Instr(build) /\ ins.op = "grow" /\ ins' = NoInstr /\ build' = build
      /\ ins # NoInstr /\ block.state # "none" /\ HasData
  BY <1>1, ExecutingExactly
<1>3. PICK delta, p : delta = ins.a /\ p = mem.pages
  OBVIOUS
<1>4. delta \in Index(build) /\ delta \in build.delta /\ delta \in Nat
  BY <1>2, <1>3, Operands, AccessOperands, IndexFacts
<1>5. p \in 0 .. MaxOf(build)
  <2>1. p \in Nat /\ p <= MaxOf(build) /\ MaxOf(build) \in Nat
    BY <1>2, <1>3, MemoryAssumption DEF HasData, ValidBuild
  <2> QED
    BY <2>1
<1>6. p + delta # U64
  <2>1. CASE build.is64
    BY <1>4, <1>5, <2>1 DEF Exactly, ExactBuild
  <2>2. CASE ~build.is64
    <3>1. delta < U32
      BY <1>2, <1>4, <2>2, IndexFacts
    <3>2. PageSize \in Nat \ {0} /\ p \in Nat
      BY <1>5, MemoryAssumption
    <3>3. MaxOf(build) * PageSize <= U32 /\ MaxOf(build) \in Nat
      BY <1>2, <2>2, IndexFacts, MemoryAssumption DEF ValidBuild
    <3>4. p <= MaxOf(build) /\ MaxOf(build) <= MaxOf(build) * PageSize /\ MaxOf(build) * PageSize \in Nat
      BY <1>5, <3>2, <3>3, TimesGrow
    <3>5. p <= U32
      BY <3>2, <3>3, <3>4, Ranges
    <3> QED
      BY <1>4, <3>1, <3>2, <3>5, Ranges
  <2> QED
    BY <2>1, <2>2
<1>7. PICK m : m = ByAddress(block.bytes)
  OBVIOUS
<1>8. m \in Seq(Cell) /\ Linear!pages = p
  BY <1>2, <1>3, <1>7, MappedBytes
<1>9. \/ GrowFails /\ block' = block
      \/ /\ p + delta <= MaxOf(build)
         /\ last' = Outcome(Returns(<<p>>))
         /\ \/ delta = 0 /\ block' = block
            \/ block' = Block(Extended(block.bytes, delta * PageSize))
  BY <1>1, <1>2, <1>3, <1>4, <1>6, GrowOutcomes DEF Exactly
<1>10. CASE GrowFails /\ block' = block
  <2>1. last'.res = Returns(<<Minus1>>)
    BY <1>10 DEF GrowFails, Outcome
  <2>2. ByAddress(block.bytes)' = ByAddress(block.bytes)
    BY <1>2, <1>10, SameBytes
  <2>3. (dropped /\ block.state # "none")' = (dropped /\ block.state # "none")
    BY <1>1, <1>10
  <2>4. Linear!Grow(ins.a)
    BY <2>1, <2>2, <2>3 DEF Linear!Grow, Linear!Returns, Returns
  <2> QED
    BY <1>2, <1>10, <2>4 DEF Linear!Execute
<1>11. CASE /\ p + delta <= MaxOf(build)
            /\ last' = Outcome(Returns(<<p>>))
            /\ \/ delta = 0 /\ block' = block
               \/ block' = Block(Extended(block.bytes, delta * PageSize))
  <2>1. PICK k : k = delta * PageSize
    OBVIOUS
  <2>2. k \in Nat
    BY <1>4, <2>1, Ranges, TimesOrder
  <2>3. ByAddress(block.bytes)' = m \o Zeros(k) /\ block'.state # "none"
    <3>1. CASE delta = 0 /\ block' = block
      <4>1. k = 0
        BY <2>1, <3>1, Ranges
      <4>2. ByAddress(block.bytes)' = m
        BY <1>2, <1>7, <3>1, SameBytes
      <4>3. Zeros(k) = <<>>
        BY <4>1 DEF Zeros
      <4>4. m \o <<>> = m
        BY <1>8, ConcatEmptySeq
      <4> QED
        BY <1>2, <3>1, <4>2, <4>3, <4>4
    <3>2. CASE block' = Block(Extended(block.bytes, delta * PageSize))
      <4>1. PICK x : x = Extended(block.bytes, k)
        OBVIOUS
      <4>2. block'.bytes = x /\ block'.state = "live"
        BY <2>1, <3>2, <4>1 DEF Block
      <4>3. ByAddress(block.bytes)' = ByAddress(x)
        BY <1>2, <4>2, MappedBlock
      <4>4. block.bytes \in Seq(Cell)
        BY <1>2 DEF HasData
      <4>5. ByAddress(x) = m \o Zeros(k)
        BY <1>7, <2>2, <4>1, <4>4, GrownBytes
      <4> QED
        BY <4>2, <4>3, <4>5
    <3> QED
      BY <1>11, <3>1, <3>2
  <2>4. (dropped /\ block.state # "none")' = (dropped /\ block.state # "none")
    BY <1>1, <1>2, <2>3
  <2>5. last'.res = Returns(<<p>>)
    BY <1>11 DEF Outcome
  <2>6. Linear!pages + ins.a <= max_pages
    BY <1>3, <1>8, <1>11 DEF max_pages
  <2>7. ByAddress(block.bytes)' = ByAddress(block.bytes) \o Linear!Zeros(ins.a * PageSize)
    BY <1>3, <1>7, <2>1, <2>3 DEF Linear!Zeros, Zeros
  <2>8. Linear!Grow(ins.a)
    BY <1>8, <2>4, <2>5, <2>6, <2>7 DEF Linear!Grow, Linear!Returns, Returns
  <2> QED
    BY <1>2, <2>3, <2>8 DEF Linear!Execute
<1> QED
  BY <1>9, <1>10, <1>11

LEMMA AllocateImplemented ==
  ASSUME Exactly, wasm_rt_allocate_memory
  PROVE  Linear!Instantiate
<1>1. build \in Builds /\ build' = build /\ ins' = ins /\ block.state = "none" /\ dropped' = FALSE /\ last'.res = Done
  BY DEF Exactly, MemInv, wasm_rt_allocate_memory, Outcome
<1>2. PICK g, z : g = build.initial /\ z = g * PageSize
  OBVIOUS
<1>3. g \in Nat /\ g <= MaxOf(build) /\ MaxOf(build) \in Nat /\ build.host_memory \in Nat /\ z <= build.host_memory
  BY <1>1, <1>2, MemoryAssumption DEF ValidBuild
<1>4. z \in Nat /\ z < SizeT /\ z < U64
  BY <1>1, <1>2, <1>3, PagesFit
<1>5. z % U64 = z /\ z % SizeT = z
  BY <1>4, Ranges, ModSmall
<1>6. PICK s : s = Zeros(z)
  OBVIOUS
<1>7. block' = Block(s)
  <2>1. block' = IF ~build.use_mmap /\ z > build.host_memory THEN Null ELSE Block(s)
    BY <1>2, <1>5, <1>6 DEF wasm_rt_allocate_memory
  <2>2. ~(z > build.host_memory)
    BY <1>3, <1>4
  <2> QED
    BY <2>1, <2>2
<1>8. block'.state = "live" /\ block'.bytes = s
  BY <1>7 DEF Block
<1>9. ByAddress(block.bytes)' = s
  <2>1. ByAddress(block.bytes)' = ByAddress(s)
    BY <1>1, <1>8, MappedBlock
  <2>2. s \in Seq(Cell) /\ Len(s) = z /\ \A i \in 1 .. z : s[i] = 0
    BY <1>4, <1>6, ZerosSeq, CellFacts DEF Zeros
  <2>3. PICK w : w = ByAddress(s)
    OBVIOUS
  <2>4. w \in Seq(Cell) /\ Len(w) = z
    BY <2>2, <2>3, ByAddressSeq
  <2>5. ASSUME NEW i \in 1 .. z
        PROVE  w[i] = s[i]
    <3>1. CASE build.big_endian
      <4>1. w[i] = s[z + 1 - i] /\ z + 1 - i \in 1 .. z
        BY <1>4, <2>2, <2>3, <3>1, ByAddressSeq
      <4> QED
        BY <2>2, <4>1
    <3>2. CASE ~build.big_endian
      BY <2>2, <2>3, <3>2, ByAddressSeq
    <3> QED
      BY <3>1, <3>2
  <2>6. w = s
    BY <2>2, <2>4, <2>5, SeqEqual
  <2> QED
    BY <2>1, <2>3, <2>6
<1>10. (dropped /\ block.state # "none")' = FALSE /\ (dropped /\ block.state # "none") = FALSE
  BY <1>1
<1>11. g \in 0 .. max_pages /\ s = Linear!Zeros(g * PageSize)
  BY <1>2, <1>3, <1>6 DEF max_pages, Linear!Zeros, Zeros
<1> QED
  BY <1>1, <1>8, <1>9, <1>10, <1>11 DEF Linear!Instantiate, Linear!Done, Done

LEMMA FreeImplemented ==
  ASSUME Exactly, wasm_rt_free_memory
  PROVE  Linear!Free
<1>1. /\ block.state # "none" /\ block.state = "live" /\ ins = NoInstr /\ ins' = ins /\ build' = build /\ block' = None
      /\ last' = Outcome(IF block.state = "freed" THEN Wild ELSE Done)
  BY DEF Exactly, MemInv, HasData, wasm_rt_free_memory
<1>2. last'.res = Done
  BY <1>1 DEF Outcome
<1>3. block'.bytes = <<>> /\ block'.state = "none"
  BY <1>1 DEF None
<1>4. ByAddress(block.bytes)' = <<>>
  BY <1>3 DEF ByAddress
<1> QED
  BY <1>1, <1>2, <1>3, <1>4 DEF Linear!Free, Linear!Done, Done

LEMMA FetchImplemented ==
  ASSUME Exactly, Fetch
  PROVE  Linear!Fetch
<1>1. /\ block.state # "none" /\ ins = NoInstr /\ build' = build /\ block' = block /\ dropped' = dropped
      /\ ins' \in Instr(build) /\ last'.res = Done /\ build \in Builds
  BY DEF Fetch, Outcome, Exactly, MemInv
<1>2. ins' \in AnyInstr
  BY <1>1 DEF AnyInstr
<1>3. ByAddress(block.bytes)' = ByAddress(block.bytes)
  BY <1>1, SameBytes
<1> QED
  BY <1>1, <1>2, <1>3 DEF Linear!Fetch, Linear!Done, Done

LEMMA InitLinear ==
  ASSUME \A b \in Builds : ExactBuild(b), Init
  PROVE  Exactly /\ Linear!Init
<1>1. build \in Builds /\ block = None /\ ins = NoInstr /\ last.res = Done
  BY DEF Init, Outcome
<1>2. Exactly
  BY <1>1, InitMemInv DEF Exactly
<1>3. block.bytes = <<>> /\ block.state = "none"
  BY <1>1 DEF None
<1>4. ByAddress(block.bytes) = <<>>
  BY <1>3 DEF ByAddress
<1>5. max_pages \in Nat
  BY <1>1, MemoryAssumption DEF ValidBuild, max_pages
<1>6. Minus1 \in Nat
  <2>1. IndexRange(build) \in Nat \ {0} /\ U64 - 1 \in Nat
    BY <1>1, IndexFacts, Ranges
  <2>2. (U64 - 1) % IndexRange(build) \in 0 .. IndexRange(build) - 1
    BY <2>1, ModRange
  <2> QED
    BY <2>1, <2>2 DEF Minus1
<1>7. [max |-> max_pages, minus1 |-> Minus1] \in [max : Nat, minus1 : Nat]
  BY <1>5, <1>6
<1> QED
  BY <1>1, <1>2, <1>3, <1>4, <1>7 DEF Linear!Init, Linear!Done, Done

LEMMA NextExactly ==
  ASSUME Exactly, [Next]_vars
  PROVE  Exactly' /\ build' = build
<1>1. build' = build
  BY DEF Next, vars, wasm_rt_allocate_memory, wasm_rt_free_memory, wasm_rt_grow_memory, Fetch, Load, Store,
         memory_fill, memory_copy, memory_init, DataDrop, MemorySize, Execute
<1>2. MemInv'
  BY NextMemInv DEF Exactly
<1>3. ExactBuild(build)'
  BY <1>1 DEF Exactly, ExactBuild, MaxOf, IndexRange
<1>4. block'.state = "none" => block' = None
  <2>1. CASE UNCHANGED vars
    BY <2>1 DEF Exactly, vars
  <2>2. CASE wasm_rt_allocate_memory
    BY <2>2 DEF wasm_rt_allocate_memory, Null, Block
  <2>3. CASE wasm_rt_free_memory
    BY <2>3 DEF wasm_rt_free_memory
  <2>4. CASE Fetch
    BY <2>4 DEF Fetch, Exactly
  <2>5. CASE \/ wasm_rt_grow_memory \/ Load \/ Store \/ memory_fill \/ memory_copy \/ memory_init
             \/ DataDrop \/ MemorySize
    <3>1. block.state # "none"
      BY <2>5, ExecutingExactly DEF wasm_rt_grow_memory, Load, Store, memory_fill, memory_copy, memory_init, DataDrop, MemorySize
    <3>2. Linear!Execute
      BY <2>5, LoadImplemented, StoreImplemented, FillImplemented, CopyImplemented, InitImplemented, OthersImplemented,
         GrowImplemented
    <3>3. (block.state # "none")' = (block.state # "none")
      BY <3>2 DEF Linear!Execute
    <3> QED
      BY <3>1, <3>3
  <2> QED
    BY <2>1, <2>2, <2>3, <2>4, <2>5 DEF Next
<1> QED
  BY <1>1, <1>2, <1>3, <1>4 DEF Exactly

LEMMA NextLinear ==
  ASSUME Exactly, [Next]_vars
  PROVE  [Linear!Next]_Linear!vars
<1>1. build' = build
  BY NextExactly
<1>2. [max |-> max_pages, minus1 |-> Minus1]' = [max |-> max_pages, minus1 |-> Minus1]
  BY <1>1 DEF max_pages, Minus1, MaxOf, IndexRange
<1>3. CASE UNCHANGED vars
  <2>1. ByAddress(block.bytes)' = ByAddress(block.bytes)
    BY <1>1, <1>3, SameBytes DEF vars
  <2> QED
    BY <1>2, <1>3, <2>1 DEF Linear!vars, vars
<1>4. CASE Next
  <2>1. Linear!Instantiate \/ Linear!Free \/ Linear!Fetch \/ Linear!Execute
    BY <1>4, AllocateImplemented, FreeImplemented, FetchImplemented, LoadImplemented, StoreImplemented, FillImplemented,
       CopyImplemented, InitImplemented, OthersImplemented, GrowImplemented DEF Next
  <2> QED
    BY <1>2, <2>1 DEF Linear!Next
<1> QED
  BY <1>3, <1>4

\* The bytes of a memory, in any build that is exact, behave as WebAssembly says:
\* on either byte order and with any allocator, checked or with guard pages, every
\* load, store, fill, copy, init and growth returns, writes or traps as it should.
THEOREM LinearImplemented ==
  ASSUME \A b \in Builds : ExactBuild(b)
  PROVE  Spec => ImplementsLinear
<1>1. Init => Exactly /\ Linear!Init
  BY InitLinear
<1>2. Exactly /\ [Next]_vars => Exactly'
  BY NextExactly
<1>3. Exactly /\ [Next]_vars => [Linear!Next]_Linear!vars
  BY NextLinear
<1> QED
  BY <1>1, <1>2, <1>3, PTL DEF Spec, ImplementsLinear, Linear!Spec

=============================================================================
