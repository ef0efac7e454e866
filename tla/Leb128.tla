------------------------------- MODULE Leb128 -------------------------------
(***************************************************************************)
(* The variable-length integers of the binary format (src/leb128.cc) on    *)
(* real bytes.  A reader returns how many bytes it consumed, n, 0 on an     *)
(* error.  The values stay below 2^31, TLC's range; the top byte of a       *)
(* 32-bit value keeps its width check.                                     *)
(***************************************************************************)
EXTENDS Integers, Sequences

MaxU32Bytes == 5
MaxU64Bytes == 10

RECURSIVE U32Leb128(_)
U32Leb128(v) == IF v \div 128 = 0 THEN <<v>> ELSE <<(v % 128) + 128>> \o U32Leb128(v \div 128)

U32Leb128Length(v) == Len(U32Leb128(v))

\* LEB128_LOOP_UNTIL of WriteS32Leb128: stop when the rest is the sign that
\* bit 6 of the byte already shows.
RECURSIVE S32Leb128(_)
S32Leb128(v) ==
  LET byte == v % 128
      rest == v \div 128
  IN  IF (rest = 0 /\ byte < 64) \/ (rest = -1 /\ byte >= 64)
      THEN <<byte>> ELSE <<byte + 128>> \o S32Leb128(rest)

\* WriteFixedU32Leb128Raw: always five bytes.
FixedU32Leb128(v) ==
  <<128 + (v % 128), 128 + ((v \div 128) % 128), 128 + ((v \div 16384) % 128),
    128 + ((v \div 2097152) % 128), (v \div 268435456) % 16>>

FixedS32Leb128(v) ==
  LET u == FixedU32Leb128(v) IN IF v < 0 THEN [u EXCEPT ![5] = (@ % 16) + 112] ELSE u

-----------------------------------------------------------------------------
\* How many bytes the value at p of bytes (p from 0, end exclusive) takes.
LebSize(bytes, p, end, max) ==
  LET ends == {i \in 0 .. max - 1 : p + i < end /\ bytes[p + i + 1] < 128}
  IN  IF ends = {} THEN 0 ELSE 1 + CHOOSE i \in ends : \A j \in ends : i <= j

\* Values from Huge up are represented by Huge: they exceed every count,
\* size and offset they are compared with.
Huge == 10 ^ 9
Cap(v) == IF v > Huge THEN Huge ELSE v
Group(b, i) ==
  IF b = 0 THEN 0 ELSE IF i <= 3 \/ (i = 4 /\ b < 4) THEN b * 128 ^ i ELSE Huge

RECURSIVE LebValue(_, _, _)
LebValue(bytes, p, n) ==
  IF n = 0 THEN 0 ELSE Cap(LebValue(bytes, p, n - 1) + Group(bytes[p + n] % 128, n - 1))

ReadU32Leb128(bytes, p, end) ==
  LET n == LebSize(bytes, p, end, MaxU32Bytes)
  IN  IF n = 0 \/ (n = MaxU32Bytes /\ bytes[p + n] \div 16 # 0)
      THEN [n |-> 0, v |-> 0] ELSE [n |-> n, v |-> LebValue(bytes, p, n)]

ReadU64Leb128(bytes, p, end) ==
  LET n == LebSize(bytes, p, end, MaxU64Bytes)
  IN  IF n = 0 \/ (n = MaxU64Bytes /\ bytes[p + n] \div 2 # 0)
      THEN [n |-> 0, v |-> 0] ELSE [n |-> n, v |-> LebValue(bytes, p, n)]

\* The sign is bit 6 of the last byte; in a fifth byte the bits above bit 3
\* must repeat it.
ReadS32Leb128(bytes, p, end) ==
  LET n == LebSize(bytes, p, end, MaxU32Bytes)
      last == bytes[p + n]
      bad  == n = MaxU32Bytes /\ (last % 128) \div 16 # (IF (last \div 8) % 2 = 1 THEN 7 ELSE 0)
      top  == (last % 128) - (IF (last % 128) >= 64 THEN 128 ELSE 0)
  IN  IF n = 0 THEN [n |-> 0, v |-> 0]
      ELSE IF bad THEN [n |-> 0, v |-> 0]
      ELSE [n |-> n, v |-> LebValue(bytes, p, n - 1) + top * 128 ^ (n - 1)]

ReadS64Leb128(bytes, p, end) ==
  LET n == LebSize(bytes, p, end, MaxU64Bytes)
      last == bytes[p + n]
      top  == (last % 128) - (IF (last % 128) >= 64 THEN 128 ELSE 0)
  IN  IF n = 0 THEN [n |-> 0, v |-> 0]
      ELSE IF n = MaxU64Bytes /\ last \notin {0, 127} THEN [n |-> 0, v |-> 0]
      ELSE [n |-> n, v |-> IF n < MaxU32Bytes THEN LebValue(bytes, p, n - 1) + top * 128 ^ (n - 1)
                           ELSE IF top < 0 THEN -Huge ELSE LebValue(bytes, p, n)]

=============================================================================
