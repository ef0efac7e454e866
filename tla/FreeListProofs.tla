--------------------------- MODULE FreeListProofs ---------------------------
(***************************************************************************)
(* Proofs about FreeList, for every payload set and every bound on the     *)
(* size of the list.                                                       *)
(***************************************************************************)
EXTENDS FreeList, FiniteSetTheorems, FunctionTheorems, TLAPS

\* The inductive invariant.  TypeOK alone is not inductive: that NewFromChain
\* keeps free_head inside the list is a fact about the link stored in the
\* slot it unlinks, and that free_items stays natural is a fact about the
\* length of the chain.
IInv == TypeOK /\ ChainOK

LEMMA InitIInv == Init => IInv
<1> SUFFICES ASSUME Init PROVE IInv
  OBVIOUS
<1>1. Indexes = {} /\ 1 .. free_items = {}
  BY DEF Init, Indexes
<1>2. TypeOK
  BY <1>1, MaxSizeAssumption DEF Init, TypeOK, Indexes
<1>3. ChainOK
  <2> DEFINE c == [k \in 1 .. free_items |-> 0]
  <2>1. c \in [1 .. free_items -> Indexes]
    BY <1>1
  <2>2. IsChain(c)
    BY <1>1 DEF Init, IsChain
  <2> QED
    BY <2>1, <2>2 DEF ChainOK
<1> QED
  BY <1>2, <1>3 DEF IInv

\* A non-empty chain: the head names a free slot of the list.
LEMMA HeadIsFree ==
  ASSUME TypeOK, NEW c \in [1 .. free_items -> Indexes], IsChain(c),
         free_head # 0
  PROVE  /\ free_items > 0
         /\ c[free_items] = free_head - 1
         /\ free_head - 1 \in Indexes
         /\ list[free_head - 1].free
<1>1. free_items > 0
  BY DEF TypeOK, IsChain
<1>2. free_items \in 1 .. free_items /\ c[free_items] \in Indexes
  BY <1>1 DEF TypeOK
<1>3. c[free_items] = free_head - 1
  BY <1>1, <1>2 DEF TypeOK, IsChain, Indexes
<1>4. list[c[free_items]].free
  BY <1>2 DEF IsChain
<1> QED
  BY <1>1, <1>2, <1>3, <1>4

LEMMA NewAtEndIInv ==
  ASSUME IInv, NEW v \in Payload, NewAtEnd(v)
  PROVE  IInv'
<1> USE PayloadAssumption, MaxSizeAssumption
<1>1. PICK c \in [1 .. free_items -> Indexes] : IsChain(c)
  BY DEF IInv, ChainOK
<1>2. size \in Nat /\ size' = size + 1 /\ Indexes' = 0 .. size /\ Indexes \subseteq Indexes'
  BY DEF IInv, TypeOK, NewAtEnd, Indexes
<1>3. TypeOK'
  BY <1>2 DEF IInv, TypeOK, NewAtEnd, Indexes, Slot
<1>4. free_items = 0 /\ free_items' = 0
  <2>1. free_items # 0 => c[free_items] + 1 = 0 /\ c[free_items] \in Nat
    BY <1>1 DEF IInv, TypeOK, NewAtEnd, IsChain, Indexes
  <2> QED
    BY <2>1 DEF NewAtEnd
<1>5. \A i \in Indexes : ~list[i].free
  BY <1>1, <1>4 DEF IsChain
<1>6. \A i \in Indexes' : ~list'[i].free
  BY <1>2, <1>5 DEF NewAtEnd, Indexes
<1>7. c \in [1 .. free_items' -> Indexes'] /\ IsChain(c)'
  <2>1. 1 .. free_items' = {}
    BY <1>4
  <2> QED
    BY <1>1, <1>2, <1>4, <1>6, <2>1 DEF IsChain, NewAtEnd
<1> QED
  BY <1>3, <1>7 DEF IInv, ChainOK

LEMMA NewFromChainIInv ==
  ASSUME IInv, NEW v \in Payload, NewFromChain(v)
  PROVE  IInv'
<1> USE PayloadAssumption, MaxSizeAssumption
<1>1. PICK c \in [1 .. free_items -> Indexes] : IsChain(c)
  BY DEF IInv, ChainOK
<1> DEFINE h == free_head - 1
           m == free_items
<1>0. PICK d : d = [k \in 1 .. m - 1 |-> c[k]]
  OBVIOUS
<1>2. m \in Nat /\ m > 0 /\ c[m] = h /\ h \in Indexes /\ list[h].free
  BY <1>1, HeadIsFree DEF IInv, TypeOK, NewFromChain
<1>3. list[h].word = IF m = 1 THEN 0 ELSE c[m - 1] + 1
  <2>1. m \in 1 .. m
    BY <1>2
  <2>2. list[c[m]].word = IF m = 1 THEN 0 ELSE c[m - 1] + 1
    BY <1>1, <2>1 DEF IsChain
  <2> QED
    BY <1>2, <2>2
<1>4. Indexes' = Indexes /\ size' = size /\ free_items' = m - 1
  BY DEF NewFromChain, Indexes
<1>5. m # 1 => c[m - 1] \in Indexes /\ c[m - 1] + 1 \in 0 .. size
  BY <1>2 DEF Indexes, IInv, TypeOK
<1>6. TypeOK'
  <2>1. list' \in [Indexes' -> Slot]
    BY <1>2, <1>4 DEF IInv, TypeOK, NewFromChain, Slot
  <2>2. free_head' \in 0 .. size'
    BY <1>3, <1>4, <1>5 DEF NewFromChain, IInv, TypeOK
  <2> QED
    BY <1>2, <1>4, <2>1, <2>2 DEF IInv, TypeOK, NewFromChain
<1>7. d \in [1 .. free_items' -> Indexes']
  BY <1>0, <1>2, <1>4
<1>8. \A k \in 1 .. m - 1 : d[k] = c[k] /\ c[k] # h /\ list'[c[k]] = list[c[k]]
  <2> SUFFICES ASSUME NEW k \in 1 .. m - 1
               PROVE  d[k] = c[k] /\ c[k] # h /\ list'[c[k]] = list[c[k]]
    OBVIOUS
  <2>1. k \in 1 .. m /\ m \in 1 .. m /\ k # m
    BY <1>2
  <2>2. c[k] # c[m] /\ c[k] \in Indexes
    BY <1>1, <2>1 DEF IsChain
  <2> QED
    BY <1>0, <1>2, <2>2 DEF NewFromChain, IInv, TypeOK
<1>9. IsChain(d)'
  <2>1. free_head' = IF m - 1 = 0 THEN 0 ELSE d[m - 1] + 1
    BY <1>0, <1>2, <1>3 DEF NewFromChain
  <2>2. ASSUME NEW k \in 1 .. m - 1
        PROVE  /\ list'[d[k]].free
               /\ list'[d[k]].word = IF k = 1 THEN 0 ELSE d[k - 1] + 1
    <3>1. k \in 1 .. m /\ (k # 1 => k - 1 \in 1 .. m - 1)
      BY <1>2
    <3> QED
      BY <1>1, <1>8, <3>1 DEF IsChain
  <2>3. \A k, l \in 1 .. m - 1 : d[k] = d[l] => k = l
    <3>1. \A k \in 1 .. m - 1 : k \in 1 .. m
      BY <1>2
    <3> QED
      BY <1>1, <1>8, <3>1 DEF IsChain
  <2>4. ASSUME NEW i \in Indexes, list'[i].free
        PROVE  \E k \in 1 .. m - 1 : d[k] = i
    <3>1. i # h /\ list[i].free
      BY <1>2, <2>4 DEF NewFromChain, IInv, TypeOK
    <3>2. PICK k \in 1 .. m : c[k] = i
      BY <1>1, <3>1 DEF IsChain
    <3>3. k \in 1 .. m - 1
      BY <1>2, <3>1, <3>2
    <3> QED
      BY <1>8, <3>2, <3>3
  <2> QED
    BY <1>4, <2>1, <2>2, <2>3, <2>4 DEF IsChain
<1> QED
  BY <1>6, <1>7, <1>9 DEF IInv, ChainOK

LEMMA DeleteIInv ==
  ASSUME IInv, NEW i \in Indexes, Delete(i)
  PROVE  IInv'
<1> USE PayloadAssumption, MaxSizeAssumption
<1>1. PICK c \in [1 .. free_items -> Indexes] : IsChain(c)
  BY DEF IInv, ChainOK
<1> DEFINE m == free_items
<1>0. PICK d : d = [k \in 1 .. m + 1 |-> IF k = m + 1 THEN i ELSE c[k]]
  OBVIOUS
<1>2. m \in Nat /\ Indexes' = Indexes /\ size' = size /\ free_items' = m + 1 /\ size \in Nat
  BY DEF Delete, Indexes, IInv, TypeOK
<1>3. \A k \in 1 .. m : d[k] = c[k] /\ c[k] \in Indexes /\ c[k] # i /\ list'[c[k]] = list[c[k]]
  BY <1>0, <1>1, <1>2 DEF IsChain, Delete, IsUsed, IInv, TypeOK
<1>4. d[m + 1] = i /\ d \in [1 .. m + 1 -> Indexes]
  BY <1>0, <1>2
<1>5. list' \in [Indexes' -> Slot] /\ free_head' \in 0 .. size'
  BY <1>2 DEF Delete, Slot, Indexes, IInv, TypeOK
<1>6. IsChain(d)'
  <2>1. free_head' = d[m + 1] + 1 /\ m + 1 # 0
    BY <1>2, <1>4 DEF Delete
  <2>2. ASSUME NEW k \in 1 .. m + 1
        PROVE  /\ list'[d[k]].free
               /\ list'[d[k]].word = IF k = 1 THEN 0 ELSE d[k - 1] + 1
    <3>1. CASE k = m + 1
      <4>1. list'[i].free /\ list'[i].word = free_head
        BY DEF Delete, IInv, TypeOK
      <4>2. m # 0 => m \in 1 .. m /\ (m + 1) - 1 = m
        BY <1>2
      <4>3. free_head = IF m + 1 = 1 THEN 0 ELSE d[(m + 1) - 1] + 1
        BY <1>1, <1>2, <1>3, <4>2 DEF IsChain
      <4> QED
        BY <3>1, <1>4, <4>1, <4>3
    <3>2. CASE k # m + 1
      <4>1. k \in 1 .. m /\ (k # 1 => k - 1 \in 1 .. m)
        BY <1>2, <3>2
      <4> QED
        BY <1>1, <1>3, <4>1 DEF IsChain
    <3> QED
      BY <3>1, <3>2
  <2>3. \A k, l \in 1 .. m + 1 : d[k] = d[l] => k = l
    <3>1. \A k \in 1 .. m + 1 : k \in 1 .. m \/ k = m + 1
      BY <1>2
    <3> QED
      BY <1>1, <1>3, <1>4, <3>1 DEF IsChain
  <2>4. ASSUME NEW j \in Indexes, list'[j].free
        PROVE  \E k \in 1 .. m + 1 : d[k] = j
    <3>1. CASE j = i
      BY <1>2, <1>4, <3>1
    <3>2. CASE j # i
      <4>1. list[j].free
        BY <2>4, <3>2 DEF Delete, IInv, TypeOK
      <4>2. PICK k \in 1 .. m : c[k] = j
        BY <1>1, <4>1 DEF IsChain
      <4>3. k \in 1 .. m + 1
        BY <1>2
      <4> QED
        BY <1>3, <4>2, <4>3
    <3> QED
      BY <3>1, <3>2
  <2> QED
    BY <1>2, <2>1, <2>2, <2>3, <2>4 DEF IsChain
<1> QED
  BY <1>2, <1>4, <1>5, <1>6 DEF IInv, ChainOK, TypeOK

LEMMA NextIInv == IInv /\ [Next]_vars => IInv'
<1> SUFFICES ASSUME IInv, [Next]_vars PROVE IInv'
  OBVIOUS
<1>1. ASSUME NEW v \in Payload, New(v) PROVE IInv'
  BY <1>1, NewAtEndIInv, NewFromChainIInv DEF New
<1>2. ASSUME NEW i \in Indexes, Delete(i) PROVE IInv'
  BY <1>2, DeleteIInv
<1>3. CASE UNCHANGED vars
  <2>1. list' = list /\ size' = size /\ free_head' = free_head /\ free_items' = free_items
    BY <1>3 DEF vars
  <2>2. TypeOK'
    BY <2>1 DEF IInv, TypeOK, Indexes
  <2>3. PICK c \in [1 .. free_items -> Indexes] : IsChain(c)
    BY DEF IInv, ChainOK
  <2>4. IsChain(c)' /\ c \in [1 .. free_items' -> Indexes']
    BY <2>1, <2>3 DEF IsChain, Indexes
  <2> QED
    BY <2>2, <2>4 DEF IInv, ChainOK
<1> QED
  BY <1>1, <1>2, <1>3 DEF Next

THEOREM Inductive == Spec => []IInv
  BY InitIInv, NextIInv, PTL DEF Spec

\* list_, free_head_ and free_items_ keep their types: in particular
\* free_head_ never names a slot outside the vector.
THEOREM TypeCorrect == Spec => []TypeOK
<1>1. IInv => TypeOK
  BY DEF IInv
<1> QED
  BY Inductive, <1>1, PTL

\* The free slots form one duplicate-free chain from free_head_.
THEOREM ChainCorrect == Spec => []ChainOK
<1>1. IInv => ChainOK
  BY DEF IInv
<1> QED
  BY Inductive, <1>1, PTL

\* The asserts of FreeList::New hold on every call.
THEOREM NewAssertsCorrect == Spec => []NewAssertsHold
<1>1. IInv => NewAssertsHold
  BY HeadIsFree DEF IInv, ChainOK, NewAssertsHold, IsUsed
<1> QED
  BY Inductive, <1>1, PTL

LEMMA ChainCounts == IInv => CountExact
<1> SUFFICES ASSUME IInv PROVE CountExact
  OBVIOUS
<1> DEFINE F == {i \in Indexes : list[i].free}
           U == {i \in Indexes : IsUsed(i)}
<1>1. PICK c \in [1 .. free_items -> Indexes] : IsChain(c)
  BY DEF IInv, ChainOK
<1>2. size \in Nat /\ free_items \in Nat
  BY DEF IInv, TypeOK
<1>3. c \in Bijection(1 .. free_items, F)
  <2>1. \A k \in 1 .. free_items : c[k] \in F
    BY <1>1 DEF IsChain
  <2>2. c \in [1 .. free_items -> F]
    BY <2>1
  <2>3. \A k, l \in 1 .. free_items : c[k] = c[l] => k = l
    BY <1>1 DEF IsChain
  <2>4. \A i \in F : \E k \in 1 .. free_items : c[k] = i
    BY <1>1 DEF IsChain
  <2> QED
    BY <2>2, <2>3, <2>4 DEF Bijection, Injection, IsInjective, Surjection
<1>4. IsFiniteSet(1 .. free_items) /\ Cardinality(1 .. free_items) = free_items
  BY <1>2, FS_Interval
<1>5. IsFiniteSet(F) /\ Cardinality(F) = free_items
  BY <1>3, <1>4, FS_Bijection DEF ExistsBijection
<1>6. IsFiniteSet(Indexes) /\ Cardinality(Indexes) = size
  BY <1>2, FS_Interval DEF Indexes
<1>7. U = Indexes \ F /\ Indexes \cap F = F
  BY DEF IsUsed
<1>8. Cardinality(U) = Cardinality(Indexes) - Cardinality(Indexes \cap F)
  BY <1>6, <1>7, FS_Difference
<1> QED
  BY <1>5, <1>6, <1>7, <1>8 DEF CountExact, count

\* FreeList::count() is the number of used slots, which bounds free_items_ by
\* the size of the vector.
THEOREM CountCorrect == Spec => []CountExact
  BY Inductive, ChainCounts, PTL

-----------------------------------------------------------------------------
\* The refinement: the used slots of list_, with their words, are the pool.

used == {j \in Indexes : IsUsed(j)}
pool == [i \in used |-> list[i].word]

LEMMA InitRefines == Init => Pool!Init
<1> SUFFICES ASSUME Init PROVE pool = [i \in {} |-> 0]
  BY DEF Pool!Init, pool, used
<1>1. used = {}
  BY DEF Init, Indexes, used
<1> QED
  BY <1>1 DEF pool

\* Adding or overwriting one slot acquires one index of the pool.
LEMMA NewRefines ==
  ASSUME IInv, NEW v \in Payload, New(v)
  PROVE  \E i \in 0 .. MaxSize - 1 : Pool!Acquire(i, v)
<1> USE MaxSizeAssumption
<1>1. PICK i \in 0 .. MaxSize - 1 :
        /\ i \notin used
        /\ used' = used \cup {i}
        /\ list'[i].word = v
        /\ \A j \in used : list'[j] = list[j]
  <2>1. CASE NewAtEnd(v)
    <3>1. size \in 0 .. MaxSize - 1 /\ size \notin used
      BY <2>1 DEF NewAtEnd, IInv, TypeOK, used, Indexes
    <3>2. Indexes' = Indexes \cup {size} /\ size \notin Indexes
      BY <2>1 DEF NewAtEnd, IInv, TypeOK, Indexes
    <3>3. list'[size].word = v /\ ~list'[size].free
      BY <2>1 DEF NewAtEnd, IInv, TypeOK
    <3>4. \A j \in Indexes : list'[j] = list[j]
      BY <2>1 DEF NewAtEnd, IInv, TypeOK, Indexes
    <3>5. used' = used \cup {size}
      BY <3>2, <3>3, <3>4 DEF used, IsUsed
    <3> QED
      BY <3>1, <3>3, <3>4, <3>5 DEF used
  <2>2. CASE NewFromChain(v)
    <3> DEFINE h == free_head - 1
    <3>1. h \in Indexes /\ list[h].free
      BY <2>2, HeadIsFree DEF IInv, ChainOK, NewFromChain
    <3>2. h \in 0 .. MaxSize - 1 /\ h \notin used
      BY <3>1 DEF IInv, TypeOK, Indexes, used, IsUsed
    <3>3. Indexes' = Indexes
      BY <2>2 DEF NewFromChain, Indexes
    <3>4. list'[h].word = v /\ ~list'[h].free /\ \A j \in Indexes \ {h} : list'[j] = list[j]
      BY <2>2, <3>1 DEF NewFromChain, IInv, TypeOK
    <3>5. used' = used \cup {h}
      BY <3>1, <3>3, <3>4 DEF used, IsUsed
    <3>6. \A j \in used : list'[j] = list[j]
      BY <3>2, <3>4 DEF used
    <3> QED
      BY <3>2, <3>4, <3>5, <3>6
  <2> QED
    BY <2>1, <2>2 DEF New
<1>2. DOMAIN pool = used
  BY DEF pool
<1>3. pool' = [j \in used \cup {i} |-> IF j = i THEN v ELSE pool[j]]
  BY <1>1 DEF pool
<1>4. Pool!Acquire(i, v)
  BY <1>1, <1>2, <1>3 DEF Pool!Acquire, pool, used
<1> QED
  BY <1>4

LEMMA DeleteRefines ==
  ASSUME IInv, NEW i \in Indexes, Delete(i)
  PROVE  i \in 0 .. MaxSize - 1 /\ Pool!Release(i)
<1> USE MaxSizeAssumption
<1>1. i \in 0 .. MaxSize - 1
  BY DEF IInv, TypeOK, Indexes
<1>2. i \in used /\ Indexes' = Indexes
  BY DEF Delete, used, Indexes
<1>3. list'[i].free /\ \A j \in Indexes \ {i} : list'[j] = list[j]
  BY DEF Delete, IInv, TypeOK
<1>4. used' = used \ {i}
  BY <1>2, <1>3 DEF used, IsUsed
<1>5. DOMAIN pool = used
  BY DEF pool
<1>6. \A j \in used \ {i} : list'[j] = list[j]
  BY <1>3 DEF used
<1>7. pool' = [j \in used \ {i} |-> pool[j]]
  BY <1>4, <1>6 DEF pool
<1> QED
  BY <1>1, <1>2, <1>5, <1>7 DEF Pool!Release, pool, used

\* FreeList implements SlotPool: New hands out an index nobody holds, Delete
\* frees the one it is given, and neither touches any other.
THEOREM ImplementsPool == Spec => PoolSpec
<1>1. IInv /\ [Next]_vars => [Pool!Next]_pool
  <2> SUFFICES ASSUME IInv, [Next]_vars PROVE [Pool!Next]_pool
    OBVIOUS
  <2>1. ASSUME NEW v \in Payload, New(v) PROVE Pool!Next
    BY <2>1, NewRefines DEF Pool!Next
  <2>2. ASSUME NEW i \in Indexes, Delete(i) PROVE Pool!Next
    BY <2>2, DeleteRefines DEF Pool!Next
  <2>3. CASE UNCHANGED vars
    BY <2>3 DEF vars, pool, used, Indexes, IsUsed
  <2> QED
    BY <2>1, <2>2, <2>3 DEF Next
<1> QED
  BY <1>1, InitRefines, Inductive, PTL DEF Spec, PoolSpec, Pool!Spec, pool, used
=============================================================================
