----------------------- MODULE W2CSharedMemoryProofs -----------------------
(***************************************************************************)
(* Growth of a shared memory for any set of threads and any sizes.  Inv    *)
(* says what the members of the memory are at each point of a growth, and  *)
(* Allocated what the allocator's blocks are, for the accesses of others.  *)
(***************************************************************************)
EXTENDS W2CSharedMemory, TLAPS

Types == /\ pages \in 0 .. MaxPages
         /\ lock \in Threads \cup {NoThread}
         /\ pc \in [Threads -> Label]
         /\ upto \in [Threads -> Nat] /\ delta \in [Threads -> Nat]
         /\ old_pages \in [Threads -> 0 .. MaxPages]
         /\ todo \subseteq Members

(* Whoever is between lock and unlock holds the lock, and nobody else does. *)
Mutex == \A t \in Threads : pc[t] \in Locked <=> lock = t

(* No growth has begun to assign the members. *)
Quiet == \A t \in Threads : pc[t] # "commit"

Settled == Quiet => /\ size = Bytes(pages)
                    /\ Initial <= pages
                    /\ granted = Initial .. pages - 1

(* Where a growth that has computed its new size stands. *)
Computed(t) == /\ old_pages[t] = pages
               /\ new_pages(t) <= MaxPages

Committing(t) ==
    /\ new_pages(t) <= MaxPages
    /\ Initial <= old_pages[t]
    /\ granted = Initial .. old_pages[t] - 1
    /\ pages = IF "pages" \in todo THEN old_pages[t] ELSE new_pages(t)
    /\ size = Bytes(IF "size" \in todo THEN old_pages[t] ELSE new_pages(t))

Growing == \A t \in Threads : /\ pc[t] = "alloc" => Computed(t)
                              /\ pc[t] = "commit" => Committing(t)

Inv == Types /\ Mutex /\ Settled /\ Growing

-----------------------------------------------------------------------------

LEMMA BytesNat == \A n \in Nat : Bytes(n) \in Nat
  BY SharedAssumption DEF Bytes

LEMMA BytesMonotone == \A m, n \in Nat : m <= n => Bytes(m) <= Bytes(n)
  <1> SUFFICES ASSUME NEW m \in Nat, NEW n \in Nat, m <= n PROVE m * PageSize <= n * PageSize
    BY DEF Bytes
  <1>1. PICK k \in Nat : n = m + k
    <2> WITNESS n - m \in Nat
    <2> QED OBVIOUS
  <1>2. n * PageSize = m * PageSize + k * PageSize
    BY <1>1, SharedAssumption
  <1>3. k * PageSize \in Nat /\ m * PageSize \in Nat
    BY SharedAssumption
  <1> QED BY <1>2, <1>3

(* The lock is exclusive: at most one thread is inside. *)
LEMMA OneInside == Mutex => \A t, u \in Threads :
                      pc[t] \in Locked /\ pc[u] \in Locked => t = u
  BY DEF Mutex

(* Inv is inductive. *)
LEMMA InvInit == Init => Inv
  <1> SUFFICES ASSUME Init PROVE Inv
    OBVIOUS
  <1> USE SharedAssumption DEF Init
  <1>1. Types
    BY DEF Types, Label, Locked, Members
  <1>2. Mutex
    BY DEF Mutex, Locked
  <1>3. Settled
    BY DEF Settled
  <1>4. Growing
    BY DEF Growing
  <1> QED BY <1>1, <1>2, <1>3, <1>4 DEF Inv

LEMMA InvStep == Inv /\ [Next]_vars => Inv'
  <1> SUFFICES ASSUME Inv, [Next]_vars PROVE Inv'
    OBVIOUS
  <1> USE SharedAssumption DEF Goto, shared, locals
  <1>0. Types /\ Mutex /\ Settled /\ Growing
    BY DEF Inv
  <1>1. CASE UNCHANGED vars
    BY <1>0, <1>1 DEF Inv, vars, Types, Mutex, Settled, Growing, Quiet, Computed, Committing, new_pages
  <1>2. CASE Next
    <2>1. PICK t \in Threads :
             \/ Access(t) \/ MemCheck(t) \/ MemAddr(t) \/ Touch(t)
             \/ Grow(t) \/ Lock(t) \/ Critical(t) \/ GrowFailedHandler(t)
      BY <1>2 DEF Next
    <2>2. CASE Access(t) \/ MemCheck(t) \/ MemAddr(t) \/ Touch(t) \/ GrowFailedHandler(t)
      <3>1. /\ UNCHANGED <<pages, size, lock, delta, old_pages, todo, granted>>
            /\ upto' \in [Threads -> Nat]
            /\ pc[t] \notin Locked
            /\ \E l \in Label \ Locked : pc' = [pc EXCEPT ![t] = l]
        BY <1>0, <2>2, BytesNat DEF Types, Label, Locked, Access, MemCheck, MemAddr, Touch, GrowFailedHandler
      <3>2. PICK l \in Label \ Locked : pc' = [pc EXCEPT ![t] = l]
        BY <3>1
      <3>3. Types'
        BY <1>0, <3>1, <3>2 DEF Types
      <3>4. Mutex'
        BY <1>0, <3>1, <3>2 DEF Types, Mutex
      <3>5. \A u \in Threads : \A k \in Locked : pc'[u] = k <=> pc[u] = k
        BY <1>0, <3>1, <3>2 DEF Types
      <3>6. Settled'
        BY <1>0, <3>1, <3>5 DEF Settled, Quiet, Locked
      <3>7. Growing'
        BY <1>0, <3>1, <3>5 DEF Growing, Computed, Committing, new_pages, Locked
      <3> QED BY <3>3, <3>4, <3>6, <3>7 DEF Inv
    <2>3. CASE Grow(t)
      <3>1. /\ UNCHANGED <<pages, size, lock, upto, old_pages, todo, granted>>
            /\ pc[t] = "idle" /\ pc' = [pc EXCEPT ![t] = "lock"]
        BY <2>3 DEF Grow
      <3>2. PICK d \in 0 .. MaxPages + 1 : delta' = [delta EXCEPT ![t] = d]
        BY <2>3 DEF Grow
      <3>3. Types'
        BY <1>0, <3>1, <3>2 DEF Types, Label
      <3>4. Mutex'
        BY <1>0, <3>1 DEF Types, Mutex, Locked
      <3>5. Settled'
        BY <1>0, <3>1 DEF Types, Settled, Quiet
      <3>6. Growing'
        BY <1>0, <3>1, <3>2 DEF Types, Growing, Computed, Committing, new_pages
      <3> QED BY <3>3, <3>4, <3>5, <3>6 DEF Inv
    <2>4. CASE Lock(t)
      <3>1. /\ UNCHANGED <<pages, size, upto, delta, old_pages, todo, granted>>
            /\ pc[t] = "lock" /\ pc' = [pc EXCEPT ![t] = "compute"]
            /\ lock = NoThread /\ lock' = t
        BY <2>4 DEF Lock
      <3>2. Types'
        BY <1>0, <3>1 DEF Types, Label, Locked
      <3>3. Mutex'
        BY <1>0, <3>1 DEF Types, Mutex, Locked
      <3>4. Settled'
        BY <1>0, <3>1 DEF Types, Settled, Quiet
      <3>5. Growing'
        BY <1>0, <3>1 DEF Types, Growing, Computed, Committing, new_pages
      <3> QED BY <3>2, <3>3, <3>4, <3>5 DEF Inv
    <2>5. CASE Critical(t)
      <3>0. /\ pc[t] \in Locked
            /\ \A u \in Threads \ {t} : pc[u] \notin Locked
            /\ lock = t
        BY <1>0, <2>5 DEF Mutex, Locked, Critical, Compute, AllocFails, AllocInPlace,
              AllocMoves, Commit, Committed, Unlock, UnlockFailed
      <3>1. CASE Compute(t)
        <4>1. /\ UNCHANGED <<pages, size, lock, upto, delta, todo, granted>>
              /\ pc[t] = "compute"
              /\ old_pages' = [old_pages EXCEPT ![t] = pages]
          BY <3>1 DEF Compute
        <4>2. \/ pc' = [pc EXCEPT ![t] = "unlock"] \/ pc' = [pc EXCEPT ![t] = "failed"]
              \/ pc' = [pc EXCEPT ![t] = "alloc"] /\ pages + delta[t] <= MaxPages
          <5>1. pages \in Nat /\ delta[t] \in Nat
            BY <1>0 DEF Types
          <5>2. CASE pages + delta[t] = 0
            BY <3>1, <5>2 DEF Compute
          <5>3. CASE pages + delta[t] # 0 /\ pages + delta[t] > MaxPages
            BY <3>1, <5>3 DEF Compute
          <5>4. CASE pages + delta[t] # 0 /\ ~(pages + delta[t] > MaxPages)
            <6>1. pc' = [pc EXCEPT ![t] = "alloc"]
              BY <3>1, <5>4 DEF Compute
            <6>2. pages + delta[t] <= MaxPages
              BY <5>1, <5>4
            <6> QED BY <6>1, <6>2
          <5> QED BY <5>2, <5>3, <5>4
        <4>3. Types'
          BY <1>0, <4>1, <4>2 DEF Types, Label, Locked
        <4>4. Mutex'
          BY <1>0, <3>0, <4>1, <4>2 DEF Types, Mutex, Locked
        <4>5. Settled'
          BY <1>0, <4>1, <4>2 DEF Types, Settled, Quiet
        <4>6. Growing'
          BY <1>0, <3>0, <4>1, <4>2 DEF Types, Growing, Computed, Committing, new_pages, Locked
        <4> QED BY <4>3, <4>4, <4>5, <4>6 DEF Inv
      <3>2. CASE AllocFails(t) \/ Unlock(t) \/ UnlockFailed(t)
        <4>1. /\ UNCHANGED <<pages, size, upto, delta, old_pages, todo, granted>>
              /\ pc[t] # "commit"
              /\ \/ pc' = [pc EXCEPT ![t] = "failed"] /\ UNCHANGED lock
                 \/ pc' = [pc EXCEPT ![t] = "idle"] /\ lock' = NoThread
                 \/ pc' = [pc EXCEPT ![t] = "handler"] /\ lock' = NoThread
          BY <3>2 DEF AllocFails, Unlock, UnlockFailed
        <4>3. Types'
          BY <1>0, <4>1 DEF Types, Label, Locked
        <4>4. Mutex'
          BY <1>0, <3>0, <4>1 DEF Types, Mutex, Locked
        <4>5. Settled'
          BY <1>0, <4>1 DEF Types, Settled, Quiet
        <4>6. Growing'
          BY <1>0, <3>0, <4>1 DEF Types, Growing, Computed, Committing, new_pages, Locked
        <4> QED BY <4>3, <4>4, <4>5, <4>6 DEF Inv
      <3>3. CASE AllocInPlace(t) \/ AllocMoves(t)
        <4>1. /\ UNCHANGED <<pages, size, lock, upto, delta, old_pages, granted>>
              /\ pc[t] = "alloc" /\ pc' = [pc EXCEPT ![t] = "commit"]
              /\ todo' = Members
          BY <3>3 DEF AllocInPlace, AllocMoves
        <4>2. Quiet
          BY <3>0, <4>1 DEF Quiet, Locked
        <4>3. Types'
          BY <1>0, <4>1 DEF Types, Label, Locked
        <4>4. Mutex'
          BY <1>0, <3>0, <4>1 DEF Types, Mutex, Locked
        <4>5. Settled'
          BY <1>0, <4>1 DEF Types, Settled, Quiet
        <4>6. Committing(t)'
          BY <1>0, <4>1, <4>2 DEF Types, Growing, Settled, Computed, Committing, new_pages, Members
        <4>7. Growing'
          BY <1>0, <3>0, <4>1, <4>6 DEF Types, Growing, Locked
        <4> QED BY <4>3, <4>4, <4>5, <4>7 DEF Inv
      <3>4. ASSUME NEW m \in Members, Commit(t, m) PROVE Inv'
        <4>1. /\ UNCHANGED <<lock, pc, upto, delta, old_pages, granted>>
              /\ pc[t] = "commit" /\ m \in todo /\ todo' = todo \ {m}
              /\ pages' = IF m = "pages" THEN new_pages(t) ELSE pages
              /\ size' = IF m = "size" THEN Bytes(new_pages(t)) ELSE size
          BY <3>4 DEF Commit
        <4>2. Committing(t) /\ new_pages(t) \in 0 .. MaxPages
          BY <1>0, <4>1 DEF Types, Growing, Committing, new_pages
        <4>3. Types'
          BY <1>0, <4>1, <4>2 DEF Types
        <4>4. Mutex'
          BY <1>0, <4>1 DEF Mutex
        <4>5. Settled'
          BY <4>1 DEF Settled, Quiet
        <4>6. Committing(t)'
          BY <4>1, <4>2 DEF Committing, new_pages, Members
        <4>7. Growing'
          BY <3>0, <4>1, <4>6 DEF Growing, Locked
        <4> QED BY <4>3, <4>4, <4>5, <4>7 DEF Inv
      <3>5. CASE Committed(t)
        <4>1. /\ UNCHANGED <<pages, size, lock, upto, delta, old_pages, todo>>
              /\ pc[t] = "commit" /\ todo = {} /\ pc' = [pc EXCEPT ![t] = "unlock"]
              /\ granted' = granted \cup (old_pages[t] .. new_pages(t) - 1)
          BY <3>5 DEF Committed
        <4>2. Committing(t) /\ pages = new_pages(t) /\ size = Bytes(new_pages(t))
          BY <1>0, <4>1 DEF Growing, Committing
        <4>3. Types'
          BY <1>0, <4>1 DEF Types, Label, Locked
        <4>4. Mutex'
          BY <1>0, <3>0, <4>1 DEF Types, Mutex, Locked
        <4>5. granted' = Initial .. pages - 1 /\ Initial <= pages
          BY <1>0, <4>1, <4>2 DEF Types, Committing, new_pages
        <4>6. Settled'
          BY <4>1, <4>2, <4>5 DEF Settled
        <4>7. Growing'
          BY <1>0, <3>0, <4>1 DEF Types, Growing, Locked
        <4> QED BY <4>3, <4>4, <4>6, <4>7 DEF Inv
      <3> QED BY <2>5, <3>1, <3>2, <3>3, <3>4, <3>5 DEF Critical
    <2> QED BY <2>1, <2>2, <2>3, <2>4, <2>5
  <1> QED BY <1>1, <1>2

THEOREM Invariant == Spec => []Inv
  BY InvInit, InvStep, PTL DEF Spec

(* The ranges that racing growths return are disjoint and add up to the    *)
(* memory, for any number of threads and whether or not realloc moves it.  *)
THEOREM GrantsCorrect == Spec => []GrantsDisjoint
  <1>1. Inv => GrantsDisjoint
    <2> SUFFICES ASSUME Inv PROVE GrantsDisjoint
      OBVIOUS
    <2>1. \A t \in Threads : pc[t] = "commit" => \A p \in granted : p < old_pages[t]
      BY SharedAssumption DEF Inv, Types, Growing, Committing
    <2>2. lock = NoThread => granted = Initial .. pages - 1
      BY SharedAssumption DEF Inv, Mutex, Settled, Quiet, Locked
    <2> QED BY <2>1, <2>2 DEF GrantsDisjoint
  <1> QED BY <1>1, Invariant, PTL

(* The lock is held only between acquire and release. *)
THEOREM LockCorrect == Spec => []LockHeldInside
  <1>1. Inv => LockHeldInside
    BY DEF Inv, Types, Mutex, LockHeldInside
  <1> QED BY <1>1, Invariant, PTL

LEMMA SizesNat == Inv => pages \in Nat /\ size \in Nat
  <1> SUFFICES ASSUME Inv PROVE pages \in Nat /\ size \in Nat
    OBVIOUS
  <1>1. CASE Quiet
    BY <1>1, BytesNat DEF Inv, Types, Settled
  <1>2. CASE ~Quiet
    <2>1. PICK t \in Threads : Committing(t)
      BY <1>2 DEF Inv, Growing, Quiet
    <2>2. old_pages[t] \in Nat /\ new_pages(t) \in Nat
      BY DEF Inv, Types, new_pages
    <2> QED BY <2>1, <2>2, BytesNat DEF Inv, Types, Committing
  <1> QED BY <1>1, <1>2

(* What a growth that is assigning the members assigns is not smaller. *)
LEMMA GrowthIsLarger == Inv => \A t \in Threads : pc[t] = "commit" =>
                          /\ old_pages[t] \in Nat /\ new_pages(t) \in Nat
                          /\ old_pages[t] <= new_pages(t)
                          /\ Bytes(old_pages[t]) \in Nat /\ Bytes(new_pages(t)) \in Nat
                          /\ Bytes(old_pages[t]) <= Bytes(new_pages(t))
  <1> SUFFICES ASSUME Inv, NEW t \in Threads, pc[t] = "commit"
               PROVE  /\ old_pages[t] \in Nat /\ new_pages(t) \in Nat
                      /\ old_pages[t] <= new_pages(t)
                      /\ Bytes(old_pages[t]) \in Nat /\ Bytes(new_pages(t)) \in Nat
                      /\ Bytes(old_pages[t]) <= Bytes(new_pages(t))
    OBVIOUS
  <1>1. old_pages[t] \in Nat /\ new_pages(t) \in Nat /\ old_pages[t] <= new_pages(t)
    BY DEF Inv, Types, new_pages
  <1> QED BY <1>1, BytesMonotone, BytesNat

LEMMA StepGrows == Inv /\ Next => pages' >= pages /\ size' >= size
  <1> SUFFICES ASSUME Inv, Next PROVE pages' >= pages /\ size' >= size
    OBVIOUS
  <1>1. CASE UNCHANGED <<pages, size>>
    BY <1>1, SizesNat
  <1>2. CASE \E t \in Threads : \E m \in Members : Commit(t, m)
    <2>1. PICK t \in Threads, m \in Members : Commit(t, m)
      BY <1>2
    <2>2. pc[t] = "commit" /\ Committing(t)
      BY <2>1 DEF Inv, Growing, Commit
    <2> QED BY <2>1, <2>2, GrowthIsLarger DEF Commit, Committing
  <1> QED BY <1>1, <1>2 DEF Next, Access, MemCheck, MemAddr, Touch, Grow, Lock, Critical,
             Compute, AllocFails, AllocInPlace, AllocMoves, Committed, Unlock,
             UnlockFailed, GrowFailedHandler, shared

(* No step makes the memory smaller. *)
THEOREM ShrinkCorrect == Spec => NeverShrinks
  <1>1. Inv /\ [Next]_vars => [pages' >= pages /\ size' >= size]_vars
    BY StepGrows
  <1> QED BY <1>1, Invariant, PTL DEF Spec, NeverShrinks

Pointers == data \in Nat /\ ptr \in [Threads -> Nat]

LEMMA PointersInvariant == Spec => []Pointers
  <1>1. Init => Pointers
    BY DEF Init, Pointers
  <1>2. Pointers /\ [Next]_vars => Pointers'
    <2> SUFFICES ASSUME Pointers, [Next]_vars PROVE Pointers'
      OBVIOUS
    <2>1. CASE UNCHANGED <<data, ptr>>
      BY <2>1 DEF Pointers
    <2>2. CASE \E t \in Threads : MemAddr(t)
      BY <2>2 DEF Pointers, MemAddr, shared
    <2>3. CASE \E t \in Threads : AllocInPlace(t)
      BY <2>3 DEF Pointers, AllocInPlace
    <2>4. CASE \E t \in Threads : AllocMoves(t)
      BY <2>4, SharedAssumption DEF Pointers, AllocMoves
    <2>5. CASE \E t \in Threads : \E m \in Members : Commit(t, m)
      BY <2>5 DEF Pointers, Commit, locals
    <2> QED BY <2>1, <2>2, <2>3, <2>4, <2>5 DEF vars, Next, Access, MemCheck, Touch, Grow,
               Lock, Critical, Compute, AllocFails, Committed, Unlock, UnlockFailed,
               GrowFailedHandler, shared, locals
  <1> QED BY <1>1, <1>2, PTL DEF Spec

(* Type correctness, for any threads, sizes and allocator. *)
THEOREM TypeCorrect == Spec => []TypeOK
  <1>1. Inv /\ Pointers => TypeOK
    <2> SUFFICES ASSUME Inv, Pointers PROVE TypeOK
      OBVIOUS
    <2>1. size \in {Bytes(n) : n \in 0 .. MaxPages} /\ granted \subseteq 0 .. MaxPages - 1
      <3>1. CASE Quiet
        BY <3>1, SharedAssumption DEF Inv, Types, Settled
      <3>2. CASE ~Quiet
        <4>1. PICK t \in Threads : Committing(t)
          BY <3>2 DEF Inv, Growing, Quiet
        <4>2. old_pages[t] \in 0 .. MaxPages /\ new_pages(t) \in 0 .. MaxPages
          BY <4>1, SharedAssumption DEF Inv, Types, Committing, new_pages
        <4> QED BY <4>1, <4>2, SharedAssumption DEF Committing
      <3> QED BY <3>1, <3>2
    <2> QED BY <2>1 DEF Inv, Types, Pointers, TypeOK
  <1> QED BY <1>1, Invariant, PointersInvariant, PTL

-----------------------------------------------------------------------------
(* The allocator has one block: the one that data points to or, while a    *)
(* growth assigns the members, the one that it got.                        *)

OneBlock(b, n) == [c \in {b} |-> n]

Obtained(t) == /\ heap = OneBlock(ptr[t], Bytes(new_pages(t)))
               /\ "data" \notin todo => data = ptr[t]

(* With mmap it is always the same. *)
Stays == data = 1 /\ \A t \in Threads : pc[t] \in {"access", "commit"} => ptr[t] = 1

Allocated == /\ ptr \in [Threads -> Nat]
             /\ Quiet => heap = OneBlock(data, size)
             /\ \A t \in Threads : /\ pc[t] = "commit" => Obtained(t)
                                   /\ pc[t] \in {"address", "access"} => upto[t] <= size
             /\ UseMmap => Stays

LEMMA AllocatedStep == Inv /\ Pointers /\ Pointers' /\ Allocated /\ [Next]_vars => Allocated'
  <1> SUFFICES ASSUME Inv, Pointers, Pointers', Allocated, [Next]_vars PROVE Allocated'
    OBVIOUS
  <1> USE SharedAssumption DEF Goto, shared, locals
  <1>0. Types /\ Mutex /\ Settled /\ Growing /\ size \in Nat
    BY SizesNat DEF Inv
  <1>p. data \in Nat /\ ptr \in [Threads -> Nat] /\ ptr' \in [Threads -> Nat]
    BY DEF Pointers
  <1>1. CASE UNCHANGED vars
    BY <1>1 DEF vars, Allocated, Obtained, Stays, Quiet, new_pages
  <1>2. CASE Next
    <2>1. PICK t \in Threads :
             \/ Access(t) \/ MemCheck(t) \/ MemAddr(t) \/ Touch(t)
             \/ Grow(t) \/ Lock(t) \/ Critical(t) \/ GrowFailedHandler(t)
      BY <1>2 DEF Next
    <2>2. CASE Access(t)
      BY <1>0, <1>p, <2>2 DEF Access, Allocated, Obtained, Stays, Quiet, new_pages, Types
    <2>3. CASE MemCheck(t)
      <3>1. /\ UNCHANGED <<data, heap, size, ptr, upto, delta, old_pages, todo>>
            /\ pc[t] = "check"
            /\ \/ pc' = [pc EXCEPT ![t] = "idle"]
               \/ pc' = [pc EXCEPT ![t] = "address"] /\ upto[t] <= size
        BY <2>3 DEF MemCheck
      <3> QED BY <1>0, <3>1 DEF Allocated, Obtained, Stays, Quiet, new_pages, Types
    <2>4. CASE MemAddr(t)
      BY <1>0, <1>p, <2>4 DEF MemAddr, Allocated, Obtained, Stays, Quiet, new_pages, Types
    <2>5. CASE Touch(t) \/ GrowFailedHandler(t) \/ Lock(t)
      BY <1>0, <2>5 DEF Touch, GrowFailedHandler, Lock, Allocated, Obtained, Stays, Quiet, new_pages, Types
    <2>6. CASE Grow(t)
      <3>1. PICK d \in 0 .. MaxPages + 1 : delta' = [delta EXCEPT ![t] = d]
        BY <2>6 DEF Grow
      <3> QED BY <1>0, <2>6, <3>1 DEF Grow, Allocated, Obtained, Stays, Quiet, new_pages, Types
    <2>7. CASE Compute(t)
      <3>1. /\ UNCHANGED <<data, heap, size, ptr, upto, delta, todo>>
            /\ pc[t] = "compute"
            /\ old_pages' = [old_pages EXCEPT ![t] = pages]
            /\ \E l \in {"unlock", "failed", "alloc"} : pc' = [pc EXCEPT ![t] = l]
        BY <2>7 DEF Compute
      <3> QED BY <1>0, <3>1 DEF Allocated, Obtained, Stays, Quiet, new_pages, Types
    <2>8. CASE AllocFails(t) \/ Unlock(t) \/ UnlockFailed(t)
      BY <1>0, <2>8 DEF AllocFails, Unlock, UnlockFailed, Allocated, Obtained, Stays, Quiet, new_pages, Types
    <2>9. CASE AllocInPlace(t) \/ AllocMoves(t)
      <3>1. /\ pc[t] = "alloc" /\ pc' = [pc EXCEPT ![t] = "commit"]
            /\ UNCHANGED <<size, data, upto, delta, old_pages>>
            /\ todo' = Members
        BY <2>9 DEF AllocInPlace, AllocMoves
      <3>2. \A u \in Threads \ {t} : pc[u] # "commit"
        BY <1>0, <3>1 DEF Mutex, Locked
      <3>3. Quiet /\ heap = OneBlock(data, size) /\ DOMAIN heap = {data}
        BY <3>1, <3>2 DEF Quiet, Allocated, OneBlock
      <3>4. PICK b \in Nat : /\ heap' = OneBlock(b, Bytes(new_pages(t)))
                             /\ ptr' = [ptr EXCEPT ![t] = b]
                             /\ UseMmap => b = data
        <4>1. CASE AllocInPlace(t)
          <5>1. heap' = OneBlock(data, Bytes(new_pages(t)))
            BY <3>3, <4>1 DEF AllocInPlace, OneBlock
          <5> QED BY <1>p, <4>1, <5>1 DEF AllocInPlace
        <4>2. CASE AllocMoves(t)
          <5>1. PICK b \in Block :
                   /\ heap' = [c \in (DOMAIN heap \ {data}) \cup {b} |->
                                  IF c = b THEN Bytes(new_pages(t)) ELSE heap[c]]
                   /\ ptr' = [ptr EXCEPT ![t] = b]
            BY <4>2 DEF AllocMoves
          <5>2. (DOMAIN heap \ {data}) \cup {b} = {b}
            BY <3>3
          <5>3. heap' = OneBlock(b, Bytes(new_pages(t)))
            BY <5>1, <5>2 DEF OneBlock
          <5>4. b \in Nat /\ ~UseMmap
            BY <4>2 DEF AllocMoves
          <5> QED BY <5>1, <5>3, <5>4
        <4> QED BY <2>9, <4>1, <4>2
      <3>5. /\ ~Quiet'
            /\ \A u \in Threads : pc'[u] = "commit" => u = t
            /\ \A u \in Threads : pc'[u] \in {"address", "access"} => u # t /\ pc[u] = pc'[u]
        BY <1>0, <3>1, <3>2 DEF Quiet, Types
      <3>6. \A u \in Threads : pc'[u] \in {"address", "access"} => upto'[u] <= size'
        BY <3>1, <3>5 DEF Allocated
      <3>7. UseMmap => Stays'
        BY <1>p, <3>1, <3>4, <3>5 DEF Allocated, Stays
      <3>8. \A u \in Threads : pc'[u] = "commit" => Obtained(u)'
        <4> SUFFICES ASSUME NEW u \in Threads, pc'[u] = "commit" PROVE Obtained(u)'
          OBVIOUS
        <4>1. u = t
          BY <3>5
        <4>2. new_pages(u)' = new_pages(t) /\ ptr'[u] = b
          BY <1>p, <3>1, <3>4, <4>1 DEF new_pages
        <4> QED BY <3>1, <3>4, <4>2 DEF Obtained, Members
      <3> QED BY <1>p, <3>5, <3>6, <3>7, <3>8 DEF Allocated
    <2>10. CASE \E m \in Members : Commit(t, m)
      <3>1. PICK m \in Members : Commit(t, m)
        BY <2>10
      <3>2. /\ pc[t] = "commit" /\ Obtained(t)
            /\ UNCHANGED <<heap, pc, ptr, upto, delta, old_pages>>
            /\ todo' = todo \ {m}
            /\ data' = IF m = "data" THEN ptr[t] ELSE data
        BY <3>1 DEF Commit, Allocated
      <3>3. \A u \in Threads : pc[u] = "commit" => u = t
        BY <1>0, <3>2 DEF Mutex, Locked
      <3>4. Obtained(t)'
        BY <3>2 DEF Obtained, new_pages, Members
      <3>5. ~Quiet'
        BY <3>2 DEF Quiet
      <3>0. size' \in Nat /\ size <= size'
        <4>1. size' >= size
          BY <1>2, StepGrows
        <4>2. size' \in Nat
          BY <1>0, <3>1, <3>2, GrowthIsLarger DEF Commit
        <4> QED BY <1>0, <4>1, <4>2
      <3>6. \A u \in Threads : pc'[u] \in {"address", "access"} => upto'[u] <= size'
        BY <1>0, <3>0, <3>2 DEF Allocated, Types
      <3>7. UseMmap => Stays'
        BY <3>2 DEF Allocated, Stays
      <3> QED BY <1>p, <3>2, <3>3, <3>4, <3>5, <3>6, <3>7 DEF Allocated
    <2>11. CASE Committed(t)
      <3>1. /\ UNCHANGED <<data, heap, size, ptr, upto, delta, old_pages, todo>>
            /\ pc[t] = "commit" /\ pc' = [pc EXCEPT ![t] = "unlock"] /\ todo = {}
        BY <2>11 DEF Committed
      <3>2. heap = OneBlock(data, size)
        BY <1>0, <3>1 DEF Growing, Committing, Allocated, Obtained
      <3> QED BY <1>0, <3>1, <3>2 DEF Allocated, Obtained, Stays, Quiet, new_pages, Types
    <2> QED BY <2>1, <2>2, <2>3, <2>4, <2>5, <2>6, <2>7, <2>8, <2>9, <2>10, <2>11
            DEF Critical
  <1> QED BY <1>1, <1>2

LEMMA AllocatedInvariant == Spec => [](Inv /\ Allocated)
  <1>1. Init => Allocated
    BY SharedAssumption, BytesNat DEF Init, Allocated, OneBlock, Stays, Quiet
  <1> QED BY <1>1, AllocatedStep, Invariant, PointersInvariant, PTL DEF Spec

(* size never exceeds a block that lives. *)
LEMMA SizeAccessible == Inv /\ Allocated => \A b \in DOMAIN heap : heap[b] \in Nat /\ size <= heap[b]
  <1> SUFFICES ASSUME Inv, Allocated, NEW b \in DOMAIN heap PROVE heap[b] \in Nat /\ size <= heap[b]
    OBVIOUS
  <1>1. CASE Quiet
    <2>1. heap[b] = size
      BY <1>1 DEF Allocated, OneBlock
    <2> QED BY <2>1, SizesNat
  <1>2. CASE ~Quiet
    <2>1. PICK t \in Threads : pc[t] = "commit"
      BY <1>2 DEF Quiet
    <2>2. heap[b] = Bytes(new_pages(t))
      BY <2>1 DEF Allocated, Obtained, OneBlock
    <2>3. Committing(t)
      BY <2>1 DEF Inv, Growing
    <2> QED BY <2>1, <2>2, <2>3, GrowthIsLarger DEF Committing
  <1> QED BY <1>1, <1>2

(* An access that passed its check stays inside of its block while that    *)
(* lives, for any threads and sizes, on mmap and on realloc.               *)
THEOREM AccessCorrect == Spec => []AccessInside
  <1>1. Inv /\ Allocated => AccessInside
    <2> SUFFICES ASSUME Inv, Allocated, NEW t \in Threads, pc[t] = "access",
                        ptr[t] \in DOMAIN heap
                 PROVE  upto[t] <= heap[ptr[t]]
      BY DEF AccessInside
    <2>1. upto[t] \in Nat /\ upto[t] <= size /\ size \in Nat
      BY SizesNat DEF Inv, Types, Allocated
    <2>2. heap[ptr[t]] \in Nat /\ size <= heap[ptr[t]]
      BY SizeAccessible
    <2> QED BY <2>1, <2>2
  <1> QED BY <1>1, AllocatedInvariant, PTL

(* With mmap, for any threads and sizes, no access that passed its check   *)
(* leaves the memory while other threads grow it.                          *)
THEOREM MmapAccessCorrect == ASSUME UseMmap PROVE Spec => []AccessOwned
  <1>1. Inv /\ Allocated /\ AccessInside => AccessOwned
    <2> SUFFICES ASSUME Inv, Allocated, AccessInside, NEW t \in Threads, pc[t] = "access"
                 PROVE  ptr[t] \in DOMAIN heap /\ upto[t] <= heap[ptr[t]]
      BY DEF AccessOwned
    <2>1. data = 1 /\ ptr[t] = 1
      BY UseMmap DEF Allocated, Stays
    <2>2. DOMAIN heap = {1}
      <3>1. CASE Quiet
        BY <2>1, <3>1 DEF Allocated, OneBlock
      <3>2. CASE ~Quiet
        <4>1. PICK u \in Threads : pc[u] = "commit"
          BY <3>2 DEF Quiet
        <4>2. ptr[u] = 1 /\ Obtained(u)
          BY <4>1, UseMmap DEF Allocated, Stays
        <4> QED BY <4>2 DEF Obtained, OneBlock
      <3> QED BY <3>1, <3>2
    <2> QED BY <2>1, <2>2 DEF AccessInside
  <1> QED BY <1>1, AccessCorrect, AllocatedInvariant, PTL
=============================================================================
