------------------------------ MODULE FreeList ------------------------------
(***************************************************************************)
(* wabt::interp::FreeList<T> (include/wabt/interp/interp.h:407-442 and     *)
(* interp-inl.h:142-243): the slot allocator behind Store::objects_ and    *)
(* Store::roots_.                                                          *)
(*                                                                         *)
(* list_ is a std::vector whose slots hold either a payload or, once       *)
(* deleted, a link to the next free slot.  Both C++ specialisations tell   *)
(* the two apart with one bit stolen from the word (refFreeBit for Refs,   *)
(* ptrFreeBit for pointers), so a slot is the pair of that bit and the     *)
(* remaining word.  A link is "index + 1", 0 ending the chain.             *)
(***************************************************************************)
EXTENDS Integers, FiniteSets

CONSTANTS Payload,     \* what a used slot can hold (Refs, or object pointers)
          MaxSize      \* bound on list_.size(); SIZE_MAX / 2 in the code

ASSUME PayloadAssumption == Payload \subseteq Nat
ASSUME MaxSizeAssumption == MaxSize \in Nat

VARIABLES list,        \* list_ : 0 .. size-1 -> slot
          size,        \* list_.size()
          free_head,   \* free_head_ : 0, or 1 + the first free slot
          free_items   \* free_items_

vars == <<list, size, free_head, free_items>>

Slot == [free : BOOLEAN, word : Nat]

\* The slots of list_ are numbered from 0.
Indexes == 0 .. size - 1

IsUsed(i) == ~list[i].free

\* FreeList::count(): the number of used elements, from the cached counter.
count == size - free_items

-----------------------------------------------------------------------------
Init ==
  /\ list = [i \in {} |-> [free |-> FALSE, word |-> 0]]
  /\ size = 0
  /\ free_head = 0
  /\ free_items = 0

\* FreeList::New when no slot is free: push_back.
NewAtEnd(v) ==
  /\ free_head = 0
  /\ size < MaxSize
  /\ list' = [i \in 0 .. size |-> IF i = size THEN [free |-> FALSE, word |-> v]
                                              ELSE list[i]]
  /\ size' = size + 1
  /\ UNCHANGED <<free_head, free_items>>

\* Mutated forms of NewFromChain: free_items_ not counted down, and "index = free_head_" without the - 1.
NewFromChain_KeepsItems(v) ==
  /\ free_head # 0
  /\ free_head' = list[free_head - 1].word
  /\ list' = [list EXCEPT ![free_head - 1] = [free |-> FALSE, word |-> v]]
  /\ UNCHANGED <<size, free_items>>

NewFromChain_OffByOne(v) ==
  /\ free_head \in Indexes \ {0}
  /\ free_head' = list[free_head - 1].word
  /\ list' = [list EXCEPT ![free_head] = [free |-> FALSE, word |-> v]]
  /\ free_items' = free_items - 1
  /\ UNCHANGED size

\* FreeList::New when free_head_ names a slot: unlink the head of the chain
\* and overwrite it.
NewFromChain(v) ==
  /\ free_head # 0
  /\ free_head' = list[free_head - 1].word
  /\ list' = [list EXCEPT ![free_head - 1] = [free |-> FALSE, word |-> v]]
  /\ free_items' = free_items - 1
  /\ UNCHANGED size

New(v) == NewAtEnd(v) \/ NewFromChain(v)

\* FreeList::Delete: the slot becomes the head of the chain.  The assert
\* IsUsed(index) is the caller's obligation, so only used slots are deleted.
Delete(i) ==
  /\ IsUsed(i)
  /\ list' = [list EXCEPT ![i] = [free |-> TRUE, word |-> free_head]]
  /\ free_head' = i + 1
  /\ free_items' = free_items + 1
  /\ UNCHANGED size

Next == \/ \E v \in Payload : New(v)
        \/ \E i \in Indexes : Delete(i)

Spec == Init /\ [][Next]_vars

-----------------------------------------------------------------------------
TypeOK ==
  /\ size \in 0 .. MaxSize
  /\ list \in [Indexes -> Slot]
  /\ free_head \in 0 .. size
  /\ free_items \in Nat

\* The links of the free slots form one chain: c[free_items] is the slot
\* free_head names, each slot links to the one deleted before it, c[1] ends
\* the chain, no slot is on it twice, and a slot is on it exactly when its
\* free bit is set.
IsChain(c) ==
  /\ free_head = IF free_items = 0 THEN 0 ELSE c[free_items] + 1
  /\ \A k \in 1 .. free_items :
       /\ list[c[k]].free
       /\ list[c[k]].word = IF k = 1 THEN 0 ELSE c[k - 1] + 1
  /\ \A k, l \in 1 .. free_items : c[k] = c[l] => k = l
  /\ \A i \in Indexes : list[i].free => \E k \in 1 .. free_items : c[k] = i

\* No slot is lost and none is linked twice, whatever the order of New and
\* Delete: following free_head_ visits every deleted slot once and stops.
ChainOK == \E c \in [1 .. free_items -> Indexes] : IsChain(c)

\* FreeList::count() ("the number of used elements", interp.h:422), computed
\* from the cached free_items_, agrees with the slots' free bits.
CountExact == count = Cardinality({i \in Indexes : IsUsed(i)})

\* The two asserts of FreeList::New never fire: the slot free_head_ names is
\* a free slot of the list, and free_items_ is positive.
NewAssertsHold ==
  free_head # 0 => /\ free_head - 1 \in Indexes
                   /\ ~IsUsed(free_head - 1)
                   /\ free_items > 0

\* FreeList implements the pool its users rely on, a free slot being one the
\* pool does not know.
Pool == INSTANCE SlotPool
          WITH Index <- 0 .. MaxSize - 1,
               held <- [i \in {j \in Indexes : IsUsed(j)} |-> list[i].word]

PoolSpec == Pool!Spec
=============================================================================
