---------------------------- MODULE LinearMemory ----------------------------
(***************************************************************************)
(* What WebAssembly promises of one linear memory and one passive data     *)
(* segment: a sequence of bytes of whole pages, accesses that read or      *)
(* write it or trap, and a size that only memory.grow changes.             *)
(***************************************************************************)
EXTENDS Integers, Sequences

CONSTANTS
    PageSize,
    Instruction,    \* [op, a, b, n, s], see Execute
    NoInstr,
    Segment         \* the data segment's bytes

VARIABLES
    type,       \* largest number of pages, and -1 of the index type
    bytes,      \* the memory; <<>> when there is none
    exists,     \* an instance with the memory exists
    dropped,    \* data.drop was executed
    ins,        \* the instruction to be executed
    out         \* what the last one returned

vars == <<type, bytes, exists, dropped, ins, out>>

Trap == [t |-> "trap", v |-> <<>>]
Done == [t |-> "done", v |-> <<>>]
Returns(s) == [t |-> "value", v |-> s]

Zeros(n) == [i \in 1 .. n |-> 0]

Init == /\ type \in [max : Nat, minus1 : Nat]
        /\ bytes = <<>> /\ exists = FALSE /\ dropped = FALSE
        /\ ins = NoInstr /\ out = Done

Instantiate == /\ ~exists
               /\ exists' = TRUE
               /\ \E n \in 0 .. type.max : bytes' = Zeros(n * PageSize)
               /\ out' = Done
               /\ UNCHANGED <<dropped, ins>>

Free == /\ exists
        /\ ins = NoInstr
        /\ exists' = FALSE /\ bytes' = <<>> /\ dropped' = FALSE /\ out' = Done
        /\ UNCHANGED ins

Fetch == exists /\ ins = NoInstr /\ ins' \in Instruction /\ out' = Done
         /\ UNCHANGED <<bytes, exists, dropped>>

-----------------------------------------------------------------------------

pages == Len(bytes) \div PageSize

(* n bytes from address a on are returned, or the instruction traps. *)
Read(a, n) == /\ out' = IF a + n > Len(bytes) THEN Trap
                        ELSE Returns(SubSeq(bytes, a + 1, a + n))
              /\ UNCHANGED <<bytes, dropped>>

(* n bytes of s from b on are written to a, or nothing is. *)
Write(a, s, b, n) ==
    /\ IF a + n > Len(bytes) \/ b + n > Len(s)
       THEN out' = Trap /\ UNCHANGED bytes
       ELSE /\ out' = Done
            /\ bytes' = [i \in 1 .. Len(bytes) |->
                            IF i - a \in 1 .. n THEN s[b + i - a] ELSE bytes[i]]
    /\ UNCHANGED dropped

(* New pages are zero, old ones keep their bytes.  Growing may always fail. *)
Grow(delta) ==
    /\ \/ /\ pages + delta <= type.max
          /\ bytes' = bytes \o Zeros(delta * PageSize)
          /\ out' = Returns(<<pages>>)
       \/ out' = Returns(<<type.minus1>>) /\ UNCHANGED bytes
    /\ UNCHANGED dropped

Execute == /\ ins # NoInstr
           /\ ins' = NoInstr
           /\ UNCHANGED exists
           /\ \/ ins.op = "load" /\ Read(ins.a + ins.b, ins.n)
              \/ ins.op = "store" /\ Write(ins.a + ins.b, ins.s, 0, ins.n)
              \/ ins.op = "fill" /\ Write(ins.a, [i \in 1 .. ins.n |-> ins.s[1]], 0, ins.n)
              \/ ins.op = "copy" /\ Write(ins.a, bytes, ins.b, ins.n)
              \/ ins.op = "init" /\ Write(ins.a, IF dropped THEN <<>> ELSE Segment, ins.b, ins.n)
              \/ ins.op = "drop" /\ dropped' = TRUE /\ out' = Done /\ UNCHANGED bytes
              \/ ins.op = "size" /\ out' = Returns(<<pages>>) /\ UNCHANGED <<bytes, dropped>>
              \/ ins.op = "grow" /\ Grow(ins.a)

Next == (Instantiate \/ Free \/ Fetch \/ Execute) /\ UNCHANGED type

Spec == Init /\ [][Next]_vars
=============================================================================
