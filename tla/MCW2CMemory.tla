---------------------------- MODULE MCW2CMemory ----------------------------
(* Builds for TLC, and a data segment of two bytes. *)
EXTENDS W2CMemory

TwoBytes == <<1, 0>>

(* A 32-bit memory on malloc, checked. *)
Malloc == [is64 |-> FALSE, use_mmap |-> FALSE, guard_pages |-> FALSE, big_endian |-> FALSE,
           trace |-> FALSE, initial |-> 1, declared_max |-> 2, host_memory |-> 8,
           width |-> {1, 2}, offset |-> {0, 1, 7}, delta |-> 0 .. 7, bulk |-> TRUE]

(* On a big-endian host, with the default maximum and failing reallocs. *)
Backwards == [Malloc EXCEPT !.big_endian = TRUE, !.declared_max = NoMax,
                            !.host_memory = 6, !.offset = {0, 1}]

(* On mmap, with accesses that are not checked. *)
Guarded == [Malloc EXCEPT !.use_mmap = TRUE, !.guard_pages = TRUE, !.declared_max = NoMax,
                          !.host_memory = 6, !.width = {1, 2, 4}, !.offset = {0, 7}]

(* A 64-bit memory: accesses without static offset, growths whose page     *)
(* count does not wrap to zero, no bulk instructions.                      *)
Wide == [Malloc EXCEPT !.is64 = TRUE, !.width = {1, 2, 4}, !.offset = {0},
                       !.delta = 0 .. 29, !.bulk = FALSE]

AllBuilds == {Malloc, Backwards, Guarded, Wide}

ASSUME ExactBuilds == \A b \in AllBuilds : ExactBuild(b)

Traced == {[Malloc EXCEPT !.trace = TRUE]}
=============================================================================
