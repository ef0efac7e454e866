-------------------------- MODULE W2CSharedMemory --------------------------
(***************************************************************************)
(* A shared linear memory of the wasm2c runtime: threads that load and     *)
(* store without a lock while others grow the memory under mem_lock.  Each *)
(* read or write of a member of wasm_rt_shared_memory_t is a step.  The    *)
(* arithmetic of sizes is in W2CMemory; here sizes do not overflow, and    *)
(* the host is little-endian.                                              *)
(***************************************************************************)
EXTENDS Naturals

CONSTANTS
    Threads, NoThread,
    PageSize,
    Initial, MaxPages,  \* pages at first, and at most
    UseMmap,            \* WASM_RT_USE_MMAP
    Block               \* bound: blocks that realloc hands out, from 1 on

ASSUME SharedAssumption ==
    /\ NoThread \notin Threads
    /\ PageSize \in Nat \ {0}
    /\ Initial \in Nat /\ MaxPages \in Nat /\ Initial <= MaxPages
    /\ UseMmap \in BOOLEAN
    /\ Block \subseteq Nat /\ 1 \in Block

VARIABLES
    pages, size, data,  \* members of the memory
    lock,               \* mem_lock: its holder, or NoThread
    heap,               \* accessible bytes of each live block
    pc,                 \* where each thread is
    upto,               \* end of the access a thread makes
    delta,              \* pages it asks for
    ptr,                \* its copy of data, or the new_data of a growth
    old_pages,          \* old_pages of grow_memory_impl
    todo,               \* members that the lock's holder has yet to assign
    granted             \* history: pages handed out by growths that succeeded

shared == <<pages, size, data, heap>>
locals == <<upto, delta, ptr, old_pages>>
vars == <<shared, lock, pc, locals, todo, granted>>

Bytes(n) == n * PageSize
Members == {"pages", "size", "data"}
new_pages(t) == old_pages[t] + delta[t]

Goto(t, l) == pc' = [pc EXCEPT ![t] = l]

(* After wasm_rt_allocate_memory_shared. *)
Init == /\ pages = Initial /\ size = Bytes(Initial) /\ data = 1
        /\ heap = [b \in {1} |-> Bytes(Initial)]
        /\ lock = NoThread
        /\ pc = [t \in Threads |-> "idle"]
        /\ upto = [t \in Threads |-> 0] /\ delta = [t \in Threads |-> 0]
        /\ ptr = [t \in Threads |-> 1] /\ old_pages = [t \in Threads |-> 0]
        /\ todo = {}
        /\ granted = {}

-----------------------------------------------------------------------------
(* A load, store or atomic access *)

Access(t) == /\ pc[t] = "idle"
             /\ \E n \in 1 .. Bytes(MaxPages) + 1 : upto' = [upto EXCEPT ![t] = n]
             /\ Goto(t, "check")
             /\ UNCHANGED <<shared, lock, delta, ptr, old_pages, todo, granted>>

(* MEMCHECK reads size.  (With guard pages it does nothing, and the range  *)
(* reserved once for the memory, which never moves, catches the access.)   *)
MemCheck(t) == /\ pc[t] = "check"
               /\ Goto(t, IF upto[t] <= size THEN "address" ELSE "idle")
               /\ UNCHANGED <<shared, lock, locals, todo, granted>>

(* MEM_ADDR reads data. *)
MemAddr(t) == /\ pc[t] = "address"
              /\ ptr' = [ptr EXCEPT ![t] = data]
              /\ Goto(t, "access")
              /\ UNCHANGED <<shared, lock, upto, delta, old_pages, todo, granted>>

(* The bytes are accessed. *)
Touch(t) == /\ pc[t] = "access"
            /\ Goto(t, "idle")
            /\ UNCHANGED <<shared, lock, locals, todo, granted>>

-----------------------------------------------------------------------------
(* wasm_rt_grow_memory_shared *)

Grow(t) == /\ pc[t] = "idle"
           /\ \E d \in 0 .. MaxPages + 1 : delta' = [delta EXCEPT ![t] = d]
           /\ Goto(t, "lock")
           /\ UNCHANGED <<shared, lock, upto, ptr, old_pages, todo, granted>>

(* Mutant: another thread holds a lock of its own. *)
Lock_NotExclusive(t) ==
    /\ pc[t] = "lock"
    /\ lock' = t
    /\ Goto(t, "compute")
    /\ UNCHANGED <<shared, locals, todo, granted>>

(* MEMORY_LOCK_AQUIRE *)
Lock(t) == /\ pc[t] = "lock"
           /\ lock = NoThread
           /\ lock' = t
           /\ Goto(t, "compute")
           /\ UNCHANGED <<shared, locals, todo, granted>>

(* Mutant: size is assigned before the new bytes are accessible. *)
Compute_SizeEarly(t) ==
    /\ pc[t] = "compute"
    /\ old_pages' = [old_pages EXCEPT ![t] = pages]
    /\ LET fits == pages + delta[t] <= MaxPages IN
         /\ Goto(t, IF pages + delta[t] = 0 THEN "unlock" ELSE IF fits THEN "alloc" ELSE "failed")
         /\ size' = IF fits THEN Bytes(pages + delta[t]) ELSE size
    /\ UNCHANGED <<pages, data, heap, lock, upto, delta, ptr, todo, granted>>

(* The new number of pages: none at all, too many, or possible. *)
Compute(t) == /\ pc[t] = "compute"
              /\ old_pages' = [old_pages EXCEPT ![t] = pages]
              /\ Goto(t, IF pages + delta[t] = 0 THEN "unlock"
                         ELSE IF pages + delta[t] > MaxPages THEN "failed"
                         ELSE "alloc")
              /\ UNCHANGED <<shared, lock, upto, delta, ptr, todo, granted>>

(* os_mprotect or realloc fails: nothing has changed. *)
AllocFails(t) == /\ pc[t] = "alloc"
                 /\ Goto(t, "failed")
                 /\ UNCHANGED <<shared, lock, locals, todo, granted>>

(* The block is extended where it is: always with mmap, sometimes by       *)
(* realloc.                                                                *)
AllocInPlace(t) == /\ pc[t] = "alloc"
                   /\ heap' = [heap EXCEPT ![data] = Bytes(new_pages(t))]
                   /\ ptr' = [ptr EXCEPT ![t] = data]
                   /\ todo' = Members
                   /\ Goto(t, "commit")
                   /\ UNCHANGED <<pages, size, data, lock, upto, delta, old_pages, granted>>

(* realloc moves the block: the old one is gone before data is assigned. *)
AllocMoves(t) ==
    /\ pc[t] = "alloc"
    /\ ~UseMmap
    /\ \E b \in Block :
          /\ \A c \in DOMAIN heap : c < b
          /\ heap' = [c \in (DOMAIN heap \ {data}) \cup {b} |->
                         IF c = b THEN Bytes(new_pages(t)) ELSE heap[c]]
          /\ ptr' = [ptr EXCEPT ![t] = b]
    /\ todo' = Members
    /\ Goto(t, "commit")
    /\ UNCHANGED <<pages, size, data, lock, upto, delta, old_pages, granted>>

(* memory->pages, size and data, plain members that the compiler may       *)
(* assign in any order.                                                    *)
Commit(t, m) == /\ pc[t] = "commit"
                /\ m \in todo
                /\ todo' = todo \ {m}
                /\ pages' = IF m = "pages" THEN new_pages(t) ELSE pages
                /\ size' = IF m = "size" THEN Bytes(new_pages(t)) ELSE size
                /\ data' = IF m = "data" THEN ptr[t] ELSE data
                /\ UNCHANGED <<heap, lock, pc, locals, granted>>

(* The last assignment is done: old_pages is returned. *)
Committed(t) == /\ pc[t] = "commit"
                /\ todo = {}
                /\ Goto(t, "unlock")
                /\ granted' = granted \cup (old_pages[t] .. new_pages(t) - 1)
                /\ UNCHANGED <<shared, lock, locals, todo>>

(* MEMORY_LOCK_RELEASE, then WASM_RT_GROW_FAILED_HANDLER if it failed. *)
Unlock(t) == /\ pc[t] = "unlock"
             /\ lock' = NoThread
             /\ Goto(t, "idle")
             /\ UNCHANGED <<shared, locals, todo, granted>>

(* Mutant: the handler, which may trap, is called with the lock held. *)
UnlockFailed_HandlerFirst(t) ==
    /\ pc[t] = "failed"
    /\ \/ lock' = NoThread
       \/ UNCHANGED lock
    /\ Goto(t, "handler")
    /\ UNCHANGED <<shared, locals, todo, granted>>

UnlockFailed(t) == /\ pc[t] = "failed"
                   /\ lock' = NoThread
                   /\ Goto(t, "handler")
                   /\ UNCHANGED <<shared, locals, todo, granted>>

(* The handler returns, or traps and so ends the thread's wasm code. *)
GrowFailedHandler(t) == /\ pc[t] = "handler"
                        /\ Goto(t, "idle")
                        /\ UNCHANGED <<shared, lock, locals, todo, granted>>

(* What a thread does while it holds the lock. *)
Critical(t) == \/ Compute(t) \/ AllocFails(t) \/ AllocInPlace(t) \/ AllocMoves(t)
               \/ (\E m \in Members : Commit(t, m)) \/ Committed(t)
               \/ Unlock(t) \/ UnlockFailed(t)

Next == \E t \in Threads :
           \/ Access(t) \/ MemCheck(t) \/ MemAddr(t) \/ Touch(t)
           \/ Grow(t) \/ Lock(t) \/ Critical(t) \/ GrowFailedHandler(t)

Spec == Init /\ [][Next]_vars

-----------------------------------------------------------------------------

Locked == {"compute", "alloc", "commit", "unlock", "failed"}
Label == Locked \cup {"idle", "check", "address", "access", "lock", "handler"}

TypeOK == /\ pages \in 0 .. MaxPages
          /\ size \in {Bytes(n) : n \in 0 .. MaxPages}
          /\ lock \in Threads \cup {NoThread}
          /\ pc \in [Threads -> Label]
          /\ upto \in [Threads -> Nat] /\ delta \in [Threads -> Nat]
          /\ ptr \in [Threads -> Nat] /\ old_pages \in [Threads -> 0 .. MaxPages]
          /\ todo \subseteq Members
          /\ granted \subseteq 0 .. MaxPages - 1

(* "Lock used to ensure operations such as memory grow are threadsafe": an *)
(* access that passed its check reaches only bytes of a block that is      *)
(* still allocated, whatever growths other threads have begun or finished  *)
(* since.                                                                  *)
AccessOwned == \A t \in Threads :
    pc[t] = "access" => ptr[t] \in DOMAIN heap /\ upto[t] <= heap[ptr[t]]

(* "a lock that is used during memory grow operations for thread safety":  *)
(* while the block under it lives, an access that passed its check stays   *)
(* inside, also when size, data and the block are those of different       *)
(* growths.  AccessOwned adds that the block does live.                    *)
AccessInside == \A t \in Threads :
    pc[t] = "access" /\ ptr[t] \in DOMAIN heap => upto[t] <= heap[ptr[t]]

(* No page is granted to two growths, and none beyond the memory: the      *)
(* old_pages that racing growths return mark disjoint ranges, which add up *)
(* to the memory once no growth is under way.                              *)
GrantsDisjoint ==
    /\ \A t \in Threads : pc[t] = "commit" =>
          \A p \in granted : p < old_pages[t]
    /\ lock = NoThread => granted = Initial .. pages - 1

(* Threads may keep using what they once checked: no step, not even one of *)
(* a growth overtaken by another, makes the memory smaller.                *)
NeverShrinks == [][pages' >= pages /\ size' >= size]_vars

(* No growth, failed or not, keeps the lock: it is held only inside of     *)
(* grow_memory_impl, never where a WASM_RT_GROW_FAILED_HANDLER that traps  *)
(* would leave it locked for good.                                         *)
LockHeldInside == lock # NoThread => pc[lock] \in Locked
=============================================================================
