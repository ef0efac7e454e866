-------------------------- MODULE InterpStoreProofs --------------------------
(***************************************************************************)
(* Proofs about InterpStore, for every number of slots, RefPtrs and        *)
(* threads and every recursion limit of the collector.                     *)
(***************************************************************************)
EXTENDS InterpStore, TLAPS

\* Outside the marking phases the collector holds no work; inside them no
\* level above the running one does.
Quiet ==
  /\ phase \notin Marking => call_depth = 0 /\ untraced = {} /\ pending = NoPending
  /\ \A d \in Levels : d > call_depth => pending[d] = {}

IInv == /\ TypeOK
        /\ RefPtrsOwnRoots
        /\ NoDangling
        /\ Quiet
        /\ MarkInvariant
        /\ MarksExact

-----------------------------------------------------------------------------
\* Reachability.

\* Each class's Mark hands over exactly the Refs its members hold.
LEMMA MarkRefsAreFields == ASSUME NEW o PROVE MarkRefs(o) = Fields(o)
  BY DEF MarkRefs, Fields

LEMMA FieldsType == ASSUME NEW o \in Object PROVE Fields(o) \subseteq ObjIndex
  BY DEF Fields, Object, Ref

LEMMA ReachContains ==
  ASSUME NEW objs, NEW from \in SUBSET ObjIndex
  PROVE  from \subseteq Reach(objs, from) /\ Reach(objs, from) \subseteq ObjIndex
  BY DEF Reach

\* Reach is the least closed set above its start.
LEMMA ReachLeast ==
  ASSUME NEW objs, NEW from, NEW S \in SUBSET ObjIndex,
         from \subseteq S, Closed(objs, S)
  PROVE  Reach(objs, from) \subseteq S
  BY DEF Reach

LEMMA ReachClosed ==
  ASSUME NEW objs, NEW from,
         \A o \in DOMAIN objs : Fields(objs[o]) \subseteq ObjIndex
  PROVE  Closed(objs, Reach(objs, from))
<1> SUFFICES ASSUME NEW o \in Reach(objs, from) \cap DOMAIN objs,
                    NEW f \in Fields(objs[o]),
                    NEW S \in SUBSET ObjIndex,
                    from \subseteq S, Closed(objs, S)
             PROVE  f \in S
  BY DEF Reach, Closed
<1>1. o \in S
  BY DEF Reach
<1> QED
  BY <1>1 DEF Closed

\* The three facts in the form the invariant needs them.
LEMMA ReachableFacts ==
  ASSUME TypeOK
  PROVE  /\ RootRefs \cup ThreadRefs \subseteq Reachable
         /\ Reachable \subseteq ObjIndex
         /\ \A o \in Reachable \cap DOMAIN objects : Fields(objects[o]) \subseteq Reachable
<1>1. RootRefs \cup ThreadRefs \in SUBSET ObjIndex
  BY DEF RootRefs, ThreadRefs, Ref
<1>2. \A o \in DOMAIN objects : Fields(objects[o]) \subseteq ObjIndex
  BY FieldsType DEF TypeOK
<1>3. Closed(objects, Reachable)
  BY <1>2, ReachClosed DEF Reachable
<1> QED
  BY <1>1, <1>3, ReachContains DEF Reachable, Closed

-----------------------------------------------------------------------------
LEMMA InitIInv == Init => IInv
<1> SUFFICES ASSUME Init PROVE IInv
  OBVIOUS
<1> USE IndexAssumption, DepthAssumption
<1>1. TypeOK
  BY DEF Init, TypeOK, Ref, Object, NullObject, ObjectKind, LeafKind, Empty,
         Phase, Levels, NoPending
<1>2. RefPtrsOwnRoots
  BY DEF Init, RefPtrsOwnRoots, Holds, Empty
<1>3. NoDangling
  <2>1. RootRefs \cup ThreadRefs \subseteq {Null}
    BY DEF Init, RootRefs, ThreadRefs
  <2>2. Closed(objects, {Null})
    BY DEF Init, Closed, Fields, NullObject
  <2>3. Reachable \subseteq {Null}
    BY <2>1, <2>2, ReachLeast DEF Reachable
  <2> QED
    BY <2>3 DEF Init, NoDangling
<1>4. Quiet /\ MarkInvariant /\ MarksExact
  BY DEF Init, Quiet, MarkInvariant, MarksExact, Marking, NoPending
<1> QED
  BY <1>1, <1>2, <1>3, <1>4 DEF IInv

-----------------------------------------------------------------------------
\* Operations outside Collect.

\* What such an operation must show: a closed set of slots in use holds every
\* Ref a root or a thread has afterwards.
LEMMA MutatorIInv ==
  ASSUME IInv, phase = "idle", UNCHANGED gc, TypeOK', RefPtrsOwnRoots',
         NEW S \in SUBSET ObjIndex,
         RootRefs' \cup ThreadRefs' \subseteq S,
         Closed(objects', S),
         S \subseteq DOMAIN objects'
  PROVE  IInv'
<1>1. NoDangling'
  BY ReachLeast DEF NoDangling, Reachable
<1>2. phase' = "idle" /\ call_depth' = call_depth /\ untraced' = untraced /\ pending' = pending
  BY DEF gc
<1>3. Quiet' /\ MarkInvariant' /\ MarksExact'
  BY <1>2 DEF IInv, Quiet, MarkInvariant, MarksExact, Marking
<1> QED
  BY <1>1, <1>3 DEF IInv

LEMMA AllocIInv ==
  ASSUME IInv, phase = "idle",
         NEW h \in Handle, NEW i \in ObjIndex, NEW r \in RootIndex, NEW k \in Kind,
         NEW l \in Reachable, NEW e \in SUBSET Reachable,
         Alloc(h, i, r, [kind |-> k, link |-> l, elems |-> e])
  PROVE  IInv'
<1> DEFINE o == [kind |-> k, link |-> l, elems |-> e]
<1> USE IndexAssumption
<1>0. TypeOK /\ RefPtrsOwnRoots /\ NoDangling
  BY DEF IInv
<1>1. /\ i \notin DOMAIN objects
      /\ objects' = [j \in DOMAIN objects \cup {i} |-> IF j = i THEN o ELSE objects[j]]
      /\ r \in RootIndex \ DOMAIN roots
      /\ roots' = [j \in DOMAIN roots \cup {r} |-> IF j = r THEN i ELSE roots[j]]
      /\ handle[h] = Empty
      /\ handle' = [handle EXCEPT ![h] = [obj |-> i, root |-> r]]
      /\ UNCHANGED <<thread, gc, orphans>>
  BY DEF Alloc, Objects!Acquire, Roots!Acquire
<1>2. Reachable \subseteq ObjIndex /\ RootRefs \cup ThreadRefs \subseteq Reachable
  BY <1>0, ReachableFacts
<1>3. o \in Object
  BY <1>2, KindAssumption DEF Object, Ref
<1>4. TypeOK'
  <2>1. DOMAIN objects' \subseteq ObjIndex /\ objects' \in [DOMAIN objects' -> Object]
    BY <1>0, <1>1, <1>3 DEF TypeOK
  <2>2. DOMAIN roots' \subseteq RootIndex /\ roots' \in [DOMAIN roots' -> Ref]
    BY <1>0, <1>1 DEF TypeOK, Ref
  <2>3. handle' \in [Handle -> [obj : Ref \cup {NoObj}, root : RootIndex]]
    BY <1>0, <1>1 DEF TypeOK, Ref
  <2> QED
    BY <1>0, <1>1, <2>1, <2>2, <2>3 DEF TypeOK, gc
<1>5. RefPtrsOwnRoots'
  <2>1. ~Holds(h) /\ Holds(h)' /\ handle'[h].root = r /\ handle'[h].obj = i
    BY <1>0, <1>1 DEF Holds, Empty, TypeOK
  <2>2. \A g \in Handle : g # h => handle'[g] = handle[g]
    BY <1>0, <1>1 DEF TypeOK
  <2>3. \A q \in DOMAIN roots : roots'[q] = roots[q] /\ q # r
    BY <1>1
  <2>4. roots'[r] = i /\ DOMAIN roots' = DOMAIN roots \cup {r} /\ orphans' = orphans
    BY <1>1
  <2>5. r \notin orphans \cup {Root0}
    BY <1>0, <1>1 DEF RefPtrsOwnRoots
  <2> QED
    BY <1>0, <2>1, <2>2, <2>3, <2>4, <2>5 DEF RefPtrsOwnRoots, Holds
<1> DEFINE S == Reachable \cup {i}
<1>6. RootRefs' \cup ThreadRefs' \subseteq S
  <2>1. RootRefs' \subseteq RootRefs \cup {i}
    BY <1>1 DEF RootRefs
  <2>2. ThreadRefs' = ThreadRefs
    BY <1>1 DEF ThreadRefs
  <2> QED
    BY <1>2, <2>1, <2>2
<1>7. Closed(objects', S)
  <2> SUFFICES ASSUME NEW q \in S \cap DOMAIN objects'
               PROVE  Fields(objects'[q]) \subseteq S
    BY DEF Closed
  <2>1. CASE q = i
    <3>1. objects'[q] = o
      BY <1>1, <2>1
    <3>2. Fields(o) \subseteq {l} \cup e
      BY DEF Fields
    <3> QED
      BY <3>1, <3>2
  <2>2. CASE q # i
    BY <1>0, <1>1, <2>2, ReachableFacts DEF NoDangling
  <2> QED
    BY <2>1, <2>2
<1>8. S \subseteq DOMAIN objects'
  BY <1>0, <1>1 DEF NoDangling
<1>9. S \in SUBSET ObjIndex /\ UNCHANGED gc
  BY <1>1, <1>2
<1> HIDE DEF S
<1> QED
  BY <1>4, <1>5, <1>6, <1>7, <1>8, <1>9, MutatorIInv

\* An operation that only changes roots, RefPtrs and threads, and takes its
\* Refs from reachable objects.
LEMMA HolderIInv ==
  ASSUME IInv, phase = "idle", UNCHANGED <<objects, gc>>, TypeOK', RefPtrsOwnRoots',
         RootRefs' \cup ThreadRefs' \subseteq Reachable
  PROVE  IInv'
<1>1. TypeOK /\ NoDangling
  BY DEF IInv
<1>2. Reachable \in SUBSET ObjIndex
  BY <1>1, ReachableFacts
<1>3. PICK S : S = Reachable
  OBVIOUS
<1>4. Closed(objects', S)
  BY <1>1, <1>3, ReachableFacts DEF Closed
<1> QED
  BY <1>1, <1>2, <1>3, <1>4, MutatorIInv DEF NoDangling

\* Taking one more root, for h, on a reachable object.
LEMMA TakeRootIInv ==
  ASSUME IInv, phase = "idle",
         NEW h \in Handle, NEW r, NEW ref \in Reachable \ {NoObj},
         Roots!Acquire(r, ref),
         handle' = [handle EXCEPT ![h] = [obj |-> ref, root |-> r]],
         Orphan(h),
         UNCHANGED <<objects, thread, gc>>
  PROVE  IInv'
<1> USE IndexAssumption
<1>0. TypeOK /\ RefPtrsOwnRoots
  BY DEF IInv
<1>1. /\ r \in RootIndex \ DOMAIN roots
      /\ roots' = [j \in DOMAIN roots \cup {r} |-> IF j = r THEN ref ELSE roots[j]]
  BY DEF Roots!Acquire
<1>2. Reachable \subseteq ObjIndex /\ RootRefs \cup ThreadRefs \subseteq Reachable
  BY <1>0, ReachableFacts
<1>3. Holds(h) => handle[h].root \in DOMAIN roots
  BY <1>0 DEF RefPtrsOwnRoots
<1>4. TypeOK'
  <2>1. DOMAIN roots' \subseteq RootIndex /\ roots' \in [DOMAIN roots' -> Ref]
    BY <1>0, <1>1, <1>2 DEF TypeOK, Ref
  <2>2. handle' \in [Handle -> [obj : Ref \cup {NoObj}, root : RootIndex]]
    BY <1>0, <1>1, <1>2 DEF TypeOK, Ref
  <2>3. orphans' \subseteq RootIndex
    BY <1>0 DEF TypeOK, Orphan
  <2> QED
    BY <1>0, <2>1, <2>2, <2>3 DEF TypeOK, gc
<1>5. RefPtrsOwnRoots'
  <2>1. Holds(h)' /\ handle'[h].root = r /\ handle'[h].obj = ref
    BY <1>0 DEF Holds, TypeOK
  <2>2. \A g \in Handle : g # h => handle'[g] = handle[g]
    BY <1>0 DEF TypeOK
  <2>3. \A q \in DOMAIN roots : roots'[q] = roots[q] /\ q # r
    BY <1>1
  <2>4. roots'[r] = ref /\ DOMAIN roots' = DOMAIN roots \cup {r}
    BY <1>1
  <2>5. r \notin orphans \cup {Root0}
    BY <1>0, <1>1 DEF RefPtrsOwnRoots
  <2>6. CASE Holds(h)
    <3>1. orphans' = orphans \cup {handle[h].root}
      BY <2>6 DEF Orphan, Holds
    <3>2. handle[h].root # r
      BY <1>3, <2>3, <2>6
    <3>3. \A g \in Handle : g # h /\ Holds(g) => handle[g].root # handle[h].root
      BY <1>0, <2>6 DEF RefPtrsOwnRoots
    <3> QED
      BY <1>0, <1>3, <2>1, <2>2, <2>3, <2>4, <2>5, <2>6, <3>1, <3>2, <3>3 DEF RefPtrsOwnRoots, Holds
  <2>7. CASE ~Holds(h)
    <3>1. orphans' = orphans
      BY <2>7 DEF Orphan, Holds
    <3> QED
      BY <1>0, <2>1, <2>2, <2>3, <2>4, <2>5, <2>7, <3>1 DEF RefPtrsOwnRoots, Holds
  <2> QED
    BY <2>6, <2>7
<1>6. RootRefs' \cup ThreadRefs' \subseteq Reachable
  <2>1. RootRefs' \subseteq RootRefs \cup {ref}
    BY <1>1 DEF RootRefs
  <2>2. ThreadRefs' = ThreadRefs
    BY DEF ThreadRefs
  <2> QED
    BY <1>2, <2>1, <2>2
<1> QED
  BY <1>4, <1>5, <1>6, HolderIInv

LEMMA GetIInv ==
  ASSUME IInv, phase = "idle", NEW ref \in Reachable \ {Null},
         NEW h \in Handle, NEW r \in RootIndex, Get(h, r, ref)
  PROVE  IInv'
<1>1. ref # NoObj
  BY IndexAssumption, ReachableFacts DEF IInv
<1> QED
  BY <1>1, TakeRootIInv DEF Get

LEMMA CopyIInv ==
  ASSUME IInv, phase = "idle", NEW h \in Handle, NEW g \in Handle,
         NEW r \in RootIndex, Copy(h, g, r)
  PROVE  IInv'
<1> USE IndexAssumption
<1>0. TypeOK /\ RefPtrsOwnRoots
  BY DEF IInv
<1>1. CASE handle[g].obj # NoObj
  <2>1. /\ handle[g].root \in DOMAIN roots
        /\ roots[handle[g].root] = handle[g].obj
        /\ handle[g].obj \in Ref
    BY <1>0, <1>1 DEF RefPtrsOwnRoots, Holds, TypeOK
  <2>2. handle[g].obj \in Reachable \ {NoObj}
    BY <1>0, <1>1, <2>1, ReachableFacts DEF RootRefs
  <2>3. PICK ref \in Reachable \ {NoObj} : ref = handle[g].obj
    BY <2>2
  <2>4. /\ Roots!Acquire(r, ref)
        /\ handle' = [handle EXCEPT ![h] = [obj |-> ref, root |-> r]]
        /\ Orphan(h)
        /\ UNCHANGED <<objects, thread, gc>>
    BY <1>1, <2>1, <2>3 DEF Copy
  <2> QED
    BY <2>4, TakeRootIInv
<1>2. CASE handle[g].obj = NoObj
  <2>1. /\ handle' = [handle EXCEPT ![h] = Empty]
        /\ Orphan(h)
        /\ UNCHANGED <<objects, roots, thread, gc>>
    BY <1>2 DEF Copy
  <2>2. TypeOK'
    BY <1>0, <2>1 DEF TypeOK, Orphan, Empty, gc
  <2>3. RefPtrsOwnRoots'
    <3>1. ~Holds(h)' /\ \A f \in Handle : f # h => handle'[f] = handle[f]
      BY <1>0, <2>1 DEF TypeOK, Holds, Empty
    <3>2. CASE Holds(h)
      <4>1. orphans' = orphans \cup {handle[h].root}
        BY <2>1, <3>2 DEF Orphan, Holds
      <4>2. \A f \in Handle : f # h /\ Holds(f) => handle[f].root # handle[h].root
        BY <1>0, <3>2 DEF RefPtrsOwnRoots
      <4> QED
        BY <1>0, <2>1, <3>1, <3>2, <4>1, <4>2 DEF RefPtrsOwnRoots, Holds
    <3>3. CASE ~Holds(h)
      <4>1. orphans' = orphans
        BY <2>1, <3>3 DEF Orphan, Holds
      <4> QED
        BY <1>0, <2>1, <3>1, <3>3, <4>1 DEF RefPtrsOwnRoots, Holds
    <3> QED
      BY <3>2, <3>3
  <2>4. RootRefs' \cup ThreadRefs' \subseteq Reachable
    BY <1>0, <2>1, ReachableFacts DEF RootRefs, ThreadRefs
  <2> QED
    BY <2>1, <2>2, <2>3, <2>4, HolderIInv
<1> QED
  BY <1>1, <1>2

LEMMA MoveIInv ==
  ASSUME IInv, phase = "idle", NEW h \in Handle, NEW g \in Handle, Move(h, g)
  PROVE  IInv'
<1> USE IndexAssumption
<1>0. TypeOK /\ RefPtrsOwnRoots
  BY DEF IInv
<1>1. /\ handle' = [[handle EXCEPT ![h] = handle[g]] EXCEPT ![g] = Empty]
      /\ Orphan(h)
      /\ UNCHANGED <<objects, roots, thread, gc>>
  BY DEF Move
<1>2. TypeOK'
  <2>1. handle' \in [Handle -> [obj : Ref \cup {NoObj}, root : RootIndex]]
    BY <1>0, <1>1 DEF TypeOK, Empty
  <2> QED
    BY <1>0, <1>1, <2>1 DEF TypeOK, Orphan, gc
<1>3. RefPtrsOwnRoots'
  <2>1. ~Holds(g)'
    BY <1>0, <1>1 DEF TypeOK, Holds, Empty
  <2>2. h # g => handle'[h] = handle[g]
    BY <1>0, <1>1 DEF TypeOK
  <2>3. \A f \in Handle : f # h /\ f # g => handle'[f] = handle[f]
    BY <1>0, <1>1 DEF TypeOK
  <2>4. orphans' = orphans \cup (IF Holds(h) THEN {handle[h].root} ELSE {})
    BY <1>1 DEF Orphan, Holds
  \* What f holds afterwards, src(f) held before, and it was not h's root.
  <2> DEFINE src(f) == IF f = h THEN g ELSE f
  <2>5. ASSUME NEW f \in Handle, Holds(f)'
        PROVE  /\ f # g /\ src(f) \in Handle /\ Holds(src(f))
               /\ handle'[f] = handle[src(f)] /\ src(f) # h
    BY <2>1, <2>2, <2>3, <2>5 DEF Holds
  <2>6. ASSUME NEW f \in Handle, Holds(f)'
        PROVE  /\ handle'[f].root \in DOMAIN roots' \ (orphans' \cup {Root0})
               /\ roots'[handle'[f].root] = handle'[f].obj
    <3>1. src(f) \in Handle /\ Holds(src(f)) /\ handle'[f] = handle[src(f)] /\ src(f) # h
      BY <2>5, <2>6
    <3>2. Holds(h) => handle[src(f)].root # handle[h].root
      BY <1>0, <3>1 DEF RefPtrsOwnRoots
    <3>3. /\ handle[src(f)].root \in DOMAIN roots \ (orphans \cup {Root0})
          /\ roots[handle[src(f)].root] = handle[src(f)].obj
      BY <1>0, <3>1 DEF RefPtrsOwnRoots
    <3> QED
      BY <1>1, <2>4, <3>1, <3>2, <3>3
  <2>7. ASSUME NEW f \in Handle, NEW e \in Handle, Holds(f)', Holds(e)',
               handle'[f].root = handle'[e].root
        PROVE  f = e
    <3>1. src(f) = src(e)
      BY <1>0, <2>5, <2>7 DEF RefPtrsOwnRoots
    <3> QED
      BY <2>5, <2>7, <3>1
  <2>8. {Root0} \cup orphans' \subseteq DOMAIN roots'
    BY <1>0, <1>1, <2>4 DEF RefPtrsOwnRoots
  <2>9. ASSUME NEW q \in DOMAIN roots' \ (orphans' \cup {Root0})
        PROVE  \E f \in Handle : Holds(f)' /\ handle'[f].root = q
    <3>1. PICK f \in Handle : Holds(f) /\ handle[f].root = q
      BY <1>0, <1>1, <2>4 DEF RefPtrsOwnRoots
    <3>2. f # h
      BY <2>4, <3>1
    <3>3. CASE f = g
      BY <2>2, <3>1, <3>2, <3>3 DEF Holds
    <3>4. CASE f # g
      BY <2>3, <3>1, <3>2, <3>4 DEF Holds
    <3> QED
      BY <3>3, <3>4
  <2> QED
    BY <2>6, <2>7, <2>8, <2>9 DEF RefPtrsOwnRoots
<1>4. RootRefs' \cup ThreadRefs' \subseteq Reachable
  BY <1>0, <1>1, ReachableFacts DEF RootRefs, ThreadRefs
<1> QED
  BY <1>1, <1>2, <1>3, <1>4, HolderIInv

LEMMA ResetIInv ==
  ASSUME IInv, phase = "idle", NEW h \in Handle, Reset(h)
  PROVE  IInv'
<1> USE IndexAssumption
<1>0. TypeOK /\ RefPtrsOwnRoots
  BY DEF IInv
<1> DEFINE q == handle[h].root
<1>1. /\ Holds(h)
      /\ roots' = [j \in DOMAIN roots \ {q} |-> roots[j]]
      /\ handle' = [handle EXCEPT ![h] = Empty]
      /\ UNCHANGED <<objects, thread, gc, orphans>>
  BY DEF Reset, Roots!Release, Holds
<1>2. TypeOK'
  <2>1. DOMAIN roots' \subseteq RootIndex /\ roots' \in [DOMAIN roots' -> Ref]
    BY <1>0, <1>1 DEF TypeOK
  <2>2. handle' \in [Handle -> [obj : Ref \cup {NoObj}, root : RootIndex]]
    BY <1>0, <1>1 DEF TypeOK, Empty
  <2> QED
    BY <1>0, <1>1, <2>1, <2>2 DEF TypeOK, gc
<1>3. RefPtrsOwnRoots'
  <2>1. ~Holds(h)' /\ \A f \in Handle : f # h => handle'[f] = handle[f]
    BY <1>0, <1>1 DEF TypeOK, Holds, Empty
  <2>2. \A f \in Handle : f # h /\ Holds(f) => handle[f].root # q
    BY <1>0, <1>1 DEF RefPtrsOwnRoots
  <2>3. q \notin orphans \cup {Root0}
    BY <1>0, <1>1 DEF RefPtrsOwnRoots
  <2>4. DOMAIN roots' = DOMAIN roots \ {q} /\ \A j \in DOMAIN roots' : roots'[j] = roots[j]
    BY <1>1
  <2> QED
    BY <1>0, <1>1, <2>1, <2>2, <2>3, <2>4 DEF RefPtrsOwnRoots, Holds
<1>4. RootRefs' \cup ThreadRefs' \subseteq Reachable
  <2>1. RootRefs' \subseteq RootRefs
    BY <1>1 DEF RootRefs
  <2>2. ThreadRefs' = ThreadRefs
    BY <1>1 DEF ThreadRefs
  <2> QED
    BY <1>0, <2>1, <2>2, ReachableFacts
<1> QED
  BY <1>1, <1>2, <1>3, <1>4, HolderIInv

LEMMA WriteIInv ==
  ASSUME IInv, phase = "idle", NEW o \in Reachable \ {Null},
         NEW old \in SUBSET Ref, NEW new \in SUBSET Reachable, Write(o, old, new)
  PROVE  IInv'
<1>0. TypeOK /\ RefPtrsOwnRoots /\ NoDangling
  BY DEF IInv
<1>1. /\ objects' = [objects EXCEPT ![o].elems = (@ \ old) \cup new]
      /\ UNCHANGED <<roots, handle, thread, gc, orphans>>
  BY DEF Write
<1>2. Reachable \in SUBSET ObjIndex /\ o \in DOMAIN objects /\ objects[o] \in Object
  BY <1>0, ReachableFacts DEF NoDangling, TypeOK
<1> DEFINE w == [objects[o] EXCEPT !.elems = (@ \ old) \cup new]
<1>3. /\ DOMAIN objects' = DOMAIN objects
      /\ objects'[o] = w
      /\ \A j \in DOMAIN objects \ {o} : objects'[j] = objects[j]
  BY <1>0, <1>1, <1>2 DEF TypeOK
<1>4. w \in Object /\ w.kind = objects[o].kind /\ w.link = objects[o].link
      /\ w.elems = (objects[o].elems \ old) \cup new
  BY <1>2 DEF Object, Ref
<1>5. TypeOK'
  <2>1. objects' \in [DOMAIN objects' -> Object]
    BY <1>0, <1>1, <1>3, <1>4 DEF TypeOK
  <2> QED
    BY <1>0, <1>1, <1>3, <2>1 DEF TypeOK, gc
<1>6. RefPtrsOwnRoots'
  BY <1>0, <1>1 DEF RefPtrsOwnRoots, Holds
<1>7. RootRefs' \cup ThreadRefs' \subseteq Reachable
  BY <1>0, <1>1, ReachableFacts DEF RootRefs, ThreadRefs
<1>8. PICK S : S = Reachable
  OBVIOUS
<1>9. Closed(objects', S)
  <2> SUFFICES ASSUME NEW j \in Reachable \cap DOMAIN objects
               PROVE  Fields(objects'[j]) \subseteq Reachable
    BY <1>3, <1>8 DEF Closed
  <2>1. Fields(objects[j]) \subseteq Reachable
    BY <1>0, ReachableFacts
  <2>2. CASE j # o
    BY <1>3, <2>1, <2>2
  <2>3. CASE j = o
    <3>1. Fields(w) \subseteq Fields(objects[o]) \cup new
      BY <1>4 DEF Fields
    <3> QED
      BY <1>3, <2>1, <2>3, <3>1
  <2> QED
    BY <2>2, <2>3
<1> QED
  BY <1>0, <1>1, <1>2, <1>3, <1>5, <1>6, <1>7, <1>8, <1>9, MutatorIInv DEF NoDangling

LEMMA ThreadIInv ==
  ASSUME IInv, phase = "idle", NEW t \in Thread, NEW ref \in Ref,
         (ref \in Reachable /\ ThreadPush(t, ref)) \/ ThreadPop(t, ref)
  PROVE  IInv'
<1>0. TypeOK /\ RefPtrsOwnRoots
  BY DEF IInv
<1>1. UNCHANGED <<objects, roots, handle, gc, orphans>>
  BY DEF ThreadPush, ThreadPop
<1>2. TypeOK'
  BY <1>0, <1>1 DEF TypeOK, ThreadPush, ThreadPop, gc
<1>3. RefPtrsOwnRoots'
  BY <1>0, <1>1 DEF RefPtrsOwnRoots, Holds
<1>4. RootRefs' = RootRefs
  BY <1>1 DEF RootRefs
<1>5. ThreadRefs' \subseteq Reachable
  <2>1. ThreadRefs \subseteq Reachable
    BY <1>0, ReachableFacts
  <2>2. \A u \in Thread : thread'[u] \subseteq thread[u] \cup Reachable
    BY <1>0 DEF ThreadPush, ThreadPop, TypeOK
  <2> QED
    BY <2>1, <2>2 DEF ThreadRefs
<1> QED
  BY <1>0, <1>1, <1>2, <1>3, <1>4, <1>5, ReachableFacts, HolderIInv

LEMMA MutateIInv == IInv /\ Mutate => IInv'
<1> SUFFICES ASSUME IInv, Mutate PROVE IInv'
  OBVIOUS
<1>0. phase = "idle" /\ Reachable \subseteq Ref
  BY ReachableFacts DEF Mutate, IInv, Ref
<1> QED
  BY <1>0, AllocIInv, GetIInv, CopyIInv, MoveIInv, ResetIInv, WriteIInv, ThreadIInv DEF Mutate

-----------------------------------------------------------------------------
\* Collect.

\* The marking steps leave the heap alone.
LEMMA HeapUnchanged ==
  ASSUME IInv, UNCHANGED heap
  PROVE  /\ RootRefs' = RootRefs /\ ThreadRefs' = ThreadRefs /\ Reachable' = Reachable
         /\ RefPtrsOwnRoots' /\ NoDangling'
         /\ objects' = objects
<1>1. UNCHANGED <<objects, roots, handle, thread, orphans>>
  BY DEF heap
<1>2. RootRefs' = RootRefs /\ ThreadRefs' = ThreadRefs
  BY <1>1 DEF RootRefs, ThreadRefs
<1>3. Reachable' = Reachable
  BY <1>1, <1>2 DEF Reachable
<1>4. RefPtrsOwnRoots'
  BY <1>1 DEF IInv, RefPtrsOwnRoots, Holds
<1> QED
  BY <1>1, <1>2, <1>3, <1>4 DEF IInv, NoDangling

LEMMA CollectIInv == ASSUME IInv, Collect PROVE IInv'
<1> USE DepthAssumption
<1>0. TypeOK /\ Quiet
  BY DEF IInv
<1>1. /\ phase = "idle" /\ phase' = "roots" /\ marks' = {}
      /\ pending' = [NoPending EXCEPT ![0] = RootRefs]
      /\ UNCHANGED <<call_depth, untraced>> /\ UNCHANGED heap
  BY DEF Collect
<1>2. 0 \in Levels /\ call_depth = 0 /\ untraced = {}
  BY <1>0, <1>1 DEF Levels, Quiet, Marking
<1>3. pending'[0] = RootRefs /\ \A d \in Levels : d # 0 => pending'[d] = {}
  BY <1>1, <1>2 DEF NoPending
<1>4. RootRefs \subseteq Ref
  BY DEF RootRefs
<1>5. TypeOK'
  <2>1. pending' \in [Levels -> SUBSET Ref]
    BY <1>1, <1>4 DEF NoPending
  <2> QED
    BY <1>0, <1>1, <2>1 DEF TypeOK, heap, Phase
<1>6. Quiet'
  BY <1>1, <1>2, <1>3 DEF Quiet, Marking, Levels
<1>7. MarkInvariant'
  <2>1. Pending' \subseteq RootRefs
    BY <1>3 DEF Pending
  <2>2. RootRefs' = RootRefs /\ Reachable' = Reachable
    BY <1>1, HeapUnchanged
  <2>3. RootRefs \subseteq Reachable
    BY <1>0, ReachableFacts
  <2> QED
    BY <1>1, <1>2, <1>3, <2>1, <2>2, <2>3 DEF MarkInvariant
<1>8. MarksExact'
  BY <1>1 DEF MarksExact
<1> QED
  BY <1>1, <1>5, <1>6, <1>7, <1>8, HeapUnchanged DEF IInv

LEMMA MarkIInv == ASSUME IInv, NEW ref \in Ref, Mark(ref) PROVE IInv'
<1> USE DepthAssumption
<1>0. TypeOK /\ Quiet /\ MarkInvariant /\ NoDangling
  BY DEF IInv
<1>1. /\ phase \in Marking /\ phase' = phase
      /\ ref \in pending[call_depth] /\ marks' = marks \cup {ref}
      /\ UNCHANGED heap
  BY DEF Mark, Marking
<1>2. call_depth \in Levels /\ call_depth \in Nat /\ ref \in ObjIndex
  BY <1>0 DEF TypeOK, Levels, Ref
<1>3. ref \in Pending /\ ref \in Reachable /\ ref \in DOMAIN objects
  BY <1>0, <1>1, <1>2 DEF Pending, MarkInvariant, NoDangling
<1>4. /\ RootRefs' = RootRefs /\ ThreadRefs' = ThreadRefs /\ Reachable' = Reachable
      /\ RefPtrsOwnRoots' /\ NoDangling' /\ objects' = objects
  BY <1>1, HeapUnchanged
<1>5. Fields(objects[ref]) = MarkRefs(objects[ref]) /\ Fields(objects[ref]) \subseteq Reachable
      /\ Reachable \subseteq Ref
  BY <1>0, <1>3, ReachableFacts, MarkRefsAreFields DEF Ref
\* The one level that gains work, if any, gains the fields of ref.
<1>6. /\ TypeOK'
      /\ Quiet'
      /\ pending[0] \subseteq pending'[0] \cup {ref}
      /\ Pending \subseteq Pending' \cup {ref}
      /\ Pending' \subseteq Pending \cup Fields(objects[ref])
      /\ untraced \subseteq untraced' /\ untraced' \subseteq untraced \cup {ref}
      /\ ref \in marks \/ ref \in untraced' \/ Fields(objects[ref]) \subseteq Pending'
  <2>1. CASE /\ ref \in marks
             /\ pending' = [pending EXCEPT ![call_depth] = @ \ {ref}]
             /\ UNCHANGED <<call_depth, untraced>>
    <3>1. /\ pending' \in [Levels -> SUBSET Ref]
          /\ pending'[call_depth] = pending[call_depth] \ {ref}
          /\ \A d \in Levels : d # call_depth => pending'[d] = pending[d]
      BY <1>0, <1>2, <2>1 DEF TypeOK
    <3>2. TypeOK'
      BY <1>0, <1>1, <1>2, <2>1, <3>1 DEF TypeOK, heap
    <3>3. Quiet'
      BY <1>0, <1>1, <1>2, <2>1, <3>1 DEF Quiet, Levels
    <3>4. 0 \in Levels
      BY DEF Levels
    <3> QED
      BY <2>1, <3>1, <3>2, <3>3, <3>4 DEF Pending
  <2>2. CASE /\ untraced' = untraced \cup {ref}
             /\ pending' = [pending EXCEPT ![call_depth] = @ \ {ref}]
             /\ UNCHANGED call_depth
    <3>1. /\ pending' \in [Levels -> SUBSET Ref]
          /\ pending'[call_depth] = pending[call_depth] \ {ref}
          /\ \A d \in Levels : d # call_depth => pending'[d] = pending[d]
      BY <1>0, <1>2, <2>2 DEF TypeOK
    <3>2. TypeOK'
      BY <1>0, <1>1, <1>2, <2>2, <3>1 DEF TypeOK, heap
    <3>3. Quiet'
      BY <1>0, <1>1, <1>2, <2>2, <3>1 DEF Quiet, Levels
    <3>4. 0 \in Levels
      BY DEF Levels
    <3> QED
      BY <2>2, <3>1, <3>2, <3>3, <3>4 DEF Pending
  <2>3. CASE /\ call_depth < MaxCallDepth
             /\ call_depth' = call_depth + 1
             /\ pending' = [pending EXCEPT ![call_depth] = @ \ {ref},
                                           ![call_depth + 1] = MarkRefs(objects[ref])]
             /\ UNCHANGED untraced
    <3>1. call_depth + 1 \in Levels /\ call_depth + 1 # call_depth /\ 0 \in Levels
          /\ call_depth + 1 # 0 /\ call_depth + 1 > call_depth
      BY <1>2, <2>3 DEF Levels
    <3>2. /\ pending'[call_depth] = pending[call_depth] \ {ref}
          /\ pending'[call_depth + 1] = Fields(objects[ref])
          /\ \A d \in Levels \ {call_depth, call_depth + 1} : pending'[d] = pending[d]
      BY <1>0, <1>2, <1>5, <2>3, <3>1 DEF TypeOK
    <3>3. pending[call_depth + 1] = {}
      BY <1>0, <3>1 DEF Quiet
    <3>4. TypeOK'
      <4>1. pending' \in [Levels -> SUBSET Ref]
        BY <1>0, <1>5, <2>3 DEF TypeOK
      <4> QED
        BY <1>0, <1>1, <1>2, <2>3, <3>1, <4>1 DEF TypeOK, heap
    <3>5. Quiet'
      <4>1. ASSUME NEW d \in Levels, d > call_depth + 1
            PROVE  pending'[d] = {}
        <5>1. d \in Levels \ {call_depth, call_depth + 1} /\ d > call_depth
          BY <1>2, <4>1 DEF Levels
        <5> QED
          BY <1>0, <3>2, <5>1 DEF Quiet
      <4> QED
        BY <1>1, <2>3, <4>1 DEF Quiet
    <3>6. Pending \subseteq Pending' \cup {ref}
      BY <3>2, <3>3 DEF Pending
    <3>7. Pending' \subseteq Pending \cup Fields(objects[ref])
      BY <3>2 DEF Pending
    <3>8. Fields(objects[ref]) \subseteq Pending'
      BY <1>5, <3>1, <3>2 DEF Pending
    <3>9. pending[0] \subseteq pending'[0] \cup {ref}
      BY <3>1, <3>2
    <3> QED
      BY <2>3, <3>4, <3>5, <3>6, <3>7, <3>8, <3>9
  <2> QED
    BY <2>1, <2>2, <2>3 DEF Mark
<1>7. pending[0] \subseteq pending'[0] \cup {ref}
  BY <1>6
<1>8. MarkInvariant'
  <2>1. untraced' \subseteq marks'
    BY <1>0, <1>1, <1>6 DEF MarkInvariant
  <2>2. ASSUME NEW o \in marks' \ untraced'
        PROVE  Fields(objects'[o]) \subseteq marks' \cup Pending'
    <3>1. CASE o = ref /\ ref \notin marks
      BY <1>4, <1>6, <2>2, <3>1
    <3>2. CASE o \in marks
      <4>1. o \in marks \ untraced
        BY <1>6, <2>2, <3>2
      <4>2. Fields(objects[o]) \subseteq marks \cup Pending
        BY <1>0, <1>1, <4>1 DEF MarkInvariant
      <4> QED
        BY <1>1, <1>4, <1>6, <4>2
    <3> QED
      BY <1>1, <2>2, <3>1, <3>2
  <2>3. RootRefs' \subseteq marks' \cup pending'[0]
    BY <1>0, <1>1, <1>4, <1>7 DEF MarkInvariant
  <2>4. phase' = "threads" => ThreadRefs' \subseteq marks' \cup pending'[0]
    BY <1>0, <1>1, <1>4, <1>7 DEF MarkInvariant
  <2>5. phase' = "drain" => ThreadRefs' \subseteq marks'
    BY <1>0, <1>1, <1>4 DEF MarkInvariant
  <2>6. marks' \cup Pending' \subseteq Reachable'
    BY <1>0, <1>1, <1>3, <1>4, <1>5, <1>6 DEF MarkInvariant
  <2> QED
    BY <2>1, <2>2, <2>3, <2>4, <2>5, <2>6 DEF MarkInvariant
<1>9. MarksExact'
  BY <1>1 DEF MarksExact, Marking
<1> QED
  BY <1>4, <1>6, <1>8, <1>9 DEF IInv

LEMMA MarkReturnIInv == ASSUME IInv, MarkReturn PROVE IInv'
<1> USE DepthAssumption
<1>0. TypeOK /\ Quiet /\ MarkInvariant
  BY DEF IInv
<1>1. /\ phase \in Marking /\ pending[call_depth] = {} /\ call_depth > 0
      /\ call_depth' = call_depth - 1
      /\ UNCHANGED <<phase, marks, pending, untraced>> /\ UNCHANGED heap
  BY DEF MarkReturn, Marking
<1>2. TypeOK'
  BY <1>0, <1>1 DEF TypeOK, heap, Levels
<1>3. Quiet'
  <2>1. ASSUME NEW d \in Levels, d > call_depth - 1
        PROVE  pending[d] = {}
    <3>1. d = call_depth \/ d > call_depth
      BY <1>0, <2>1 DEF TypeOK, Levels
    <3> QED
      BY <1>0, <1>1, <3>1 DEF Quiet
  <2> QED
    BY <1>1, <2>1 DEF Quiet
<1>4. MarkInvariant'
  <2>1. Pending' = Pending
    BY <1>1 DEF Pending
  <2> QED
    BY <1>0, <1>1, <2>1, HeapUnchanged DEF MarkInvariant
<1>5. MarksExact'
  BY <1>1 DEF MarksExact, Marking
<1> QED
  BY <1>1, <1>2, <1>3, <1>4, <1>5, HeapUnchanged DEF IInv

\* At level 0 with nothing left there, nothing is pending at all.
LEMMA NothingPending ==
  ASSUME TypeOK, Quiet, call_depth = 0, pending[0] = {}
  PROVE  Pending = {} /\ \A d \in Levels : pending[d] = {}
<1>1. \A d \in Levels : d = 0 \/ d > 0
  BY DepthAssumption DEF Levels
<1> QED
  BY <1>1 DEF Quiet, Pending

\* Collect hands a new set of reachable Refs to Mark at level 0, and everything
\* it handed over before is marked.
LEMMA RefillIInv ==
  ASSUME IInv, UNCHANGED heap, UNCHANGED <<marks, call_depth>>,
         phase \in Marking, call_depth = 0, pending[0] = {},
         NEW work \in SUBSET Reachable,
         pending' = [pending EXCEPT ![0] = work],
         untraced' \subseteq untraced,
         \A o \in untraced \ untraced' : Fields(objects[o]) \subseteq work,
         phase' \in Marking,
         phase' = "threads" => ThreadRefs \subseteq marks \cup work,
         phase' = "drain" => ThreadRefs \subseteq marks
  PROVE  IInv'
<1> USE DepthAssumption
<1>0. TypeOK /\ Quiet /\ MarkInvariant
  BY DEF IInv
<1>1. 0 \in Levels /\ Reachable \subseteq Ref
  BY <1>0, ReachableFacts DEF Levels, Ref
<1>2. Pending = {} /\ \A d \in Levels : pending[d] = {}
  BY <1>0, NothingPending
<1>3. pending'[0] = work /\ \A d \in Levels : d # 0 => pending'[d] = {}
  BY <1>0, <1>1, <1>2 DEF TypeOK
<1>4. Pending' = work
  BY <1>1, <1>3 DEF Pending
<1>5. TypeOK'
  <2>1. pending' \in [Levels -> SUBSET Ref]
    BY <1>0, <1>1 DEF TypeOK
  <2> QED
    BY <1>0, <2>1 DEF TypeOK, heap, Phase, Marking
<1>6. Quiet'
  BY <1>3 DEF Quiet, Levels
<1>7. MarkInvariant'
  <2>1. /\ RootRefs' = RootRefs /\ ThreadRefs' = ThreadRefs /\ Reachable' = Reachable
        /\ objects' = objects
    BY HeapUnchanged
  <2>2. ASSUME NEW o \in marks' \ untraced'
        PROVE  Fields(objects'[o]) \subseteq marks' \cup Pending'
    <3>1. CASE o \in untraced
      BY <1>4, <2>1, <2>2, <3>1
    <3>2. CASE o \notin untraced
      BY <1>0, <1>2, <2>1, <2>2, <3>2 DEF MarkInvariant
    <3> QED
      BY <3>1, <3>2
  <2> QED
    BY <1>0, <1>2, <1>3, <1>4, <2>1, <2>2 DEF MarkInvariant
<1>8. MarksExact'
  BY DEF MarksExact, Marking
<1> QED
  BY <1>5, <1>6, <1>7, <1>8, HeapUnchanged DEF IInv

LEMMA CollectThreadsIInv == ASSUME IInv, CollectThreads PROVE IInv'
<1>1. ThreadRefs \in SUBSET Reachable
  BY ReachableFacts DEF IInv
<1>2. PICK work \in SUBSET Reachable : work = ThreadRefs
  BY <1>1
<1>3. /\ UNCHANGED heap /\ UNCHANGED <<marks, call_depth>> /\ untraced' = untraced
      /\ phase \in Marking /\ phase' = "threads" /\ call_depth = 0 /\ pending[0] = {}
      /\ pending' = [pending EXCEPT ![0] = work]
  BY <1>2 DEF CollectThreads, Marking
<1> QED
  BY <1>2, <1>3, RefillIInv DEF Marking

LEMMA CollectUntracedIInv ==
  ASSUME IInv, NEW o \in ObjIndex, CollectUntraced(o) PROVE IInv'
<1>0. TypeOK /\ MarkInvariant /\ NoDangling
  BY DEF IInv
<1>1. /\ UNCHANGED heap /\ UNCHANGED <<marks, call_depth>> /\ untraced' = untraced \ {o}
      /\ phase \in {"threads", "drain"} /\ phase' = "drain"
      /\ call_depth = 0 /\ pending[0] = {} /\ o \in untraced
      /\ pending' = [pending EXCEPT ![0] = MarkRefs(objects[o])]
  BY DEF CollectUntraced
<1>2. phase \in Marking /\ phase' \in Marking
  BY <1>1 DEF Marking
<1>3. o \in Reachable /\ o \in DOMAIN objects
  BY <1>0, <1>1, <1>2 DEF MarkInvariant, NoDangling
<1>4. PICK work \in SUBSET Reachable : work = Fields(objects[o]) /\ work = MarkRefs(objects[o])
  BY <1>0, <1>3, MarkRefsAreFields, ReachableFacts
<1>5. ThreadRefs \subseteq marks
  BY <1>0, <1>1, <1>2 DEF MarkInvariant
<1> QED
  BY <1>1, <1>2, <1>4, <1>5, RefillIInv

\* The marking is over: what is marked is closed and holds every root.
LEMMA CollectSweepIInv == ASSUME IInv, CollectSweep PROVE IInv'
<1>0. TypeOK /\ Quiet /\ MarkInvariant
  BY DEF IInv
<1>1. /\ phase \in Marking /\ phase \in {"threads", "drain"} /\ phase' = "sweep"
      /\ call_depth = 0 /\ pending[0] = {} /\ untraced = {}
      /\ UNCHANGED <<marks, call_depth, pending, untraced>> /\ UNCHANGED heap
  BY DEF CollectSweep, Marking
<1>2. Pending = {} /\ pending = NoPending
  BY <1>0, <1>1, NothingPending DEF TypeOK, NoPending
<1>3. Closed(objects, marks)
  BY <1>0, <1>1, <1>2 DEF MarkInvariant, Closed
<1>4. RootRefs \cup ThreadRefs \subseteq marks /\ marks \in SUBSET ObjIndex
  BY <1>0, <1>1 DEF MarkInvariant, TypeOK
<1>5. Reachable \subseteq marks
  BY <1>3, <1>4, ReachLeast DEF Reachable
<1>6. marks = Reachable
  BY <1>0, <1>1, <1>5 DEF MarkInvariant
<1>7. TypeOK' /\ Quiet'
  BY <1>0, <1>1, <1>2 DEF TypeOK, Quiet, heap, Phase, Levels, NoPending
<1>8. MarkInvariant' /\ MarksExact'
  BY <1>1, <1>6, HeapUnchanged DEF MarkInvariant, MarksExact, Marking
<1> QED
  BY <1>1, <1>7, <1>8, HeapUnchanged DEF IInv

\* Deleting an unreachable object changes nothing that can be reached.
LEMMA SweepKeepsReachable ==
  ASSUME IInv, NEW o \in ObjIndex, Sweep(o)
  PROVE  /\ o \notin Reachable /\ Reachable' = Reachable
         /\ DOMAIN objects' = DOMAIN objects \ {o}
         /\ \A j \in DOMAIN objects' : objects'[j] = objects[j]
<1>0. TypeOK /\ MarksExact
  BY DEF IInv
<1>1. /\ phase = "sweep" /\ o \notin marks
      /\ objects' = [j \in DOMAIN objects \ {o} |-> objects[j]]
      /\ UNCHANGED <<roots, handle, thread, gc, orphans>>
  BY DEF Sweep, Objects!Release
<1>2. o \notin Reachable
  BY <1>0, <1>1 DEF MarksExact
<1>3. DOMAIN objects' = DOMAIN objects \ {o} /\ \A j \in DOMAIN objects' : objects'[j] = objects[j]
  BY <1>1
<1>4. RootRefs' = RootRefs /\ ThreadRefs' = ThreadRefs
  BY <1>1 DEF RootRefs, ThreadRefs
<1> DEFINE from == RootRefs \cup ThreadRefs
           R == Reach(objects, from)
           Q == Reach(objects', from)
<1>5. from \in SUBSET ObjIndex /\ R = Reachable /\ Q = Reachable'
  BY <1>4 DEF RootRefs, ThreadRefs, Reachable, Ref
<1>6. \A j \in DOMAIN objects : Fields(objects[j]) \subseteq ObjIndex
  BY <1>0, FieldsType DEF TypeOK
<1>7. from \subseteq R /\ R \subseteq ObjIndex /\ from \subseteq Q /\ Q \subseteq ObjIndex
  BY <1>5, ReachContains
<1>8. Closed(objects, R)
  BY <1>6, ReachClosed
<1>9. Closed(objects', Q)
  BY <1>3, <1>6, ReachClosed
<1>10. Q \subseteq R
  <2>1. Closed(objects', R)
    BY <1>3, <1>8 DEF Closed
  <2> QED
    BY <1>7, <2>1, ReachLeast
<1>11. R \subseteq Q
  <2>1. o \notin Q
    BY <1>2, <1>5, <1>10
  <2>2. Closed(objects, Q)
    BY <1>3, <1>9, <2>1 DEF Closed
  <2> QED
    BY <1>7, <2>2, ReachLeast
<1> QED
  BY <1>2, <1>3, <1>5, <1>10, <1>11

LEMMA SweepIInv == ASSUME IInv, NEW o \in ObjIndex, Sweep(o) PROVE IInv'
<1>0. TypeOK /\ RefPtrsOwnRoots /\ NoDangling /\ Quiet /\ MarksExact
  BY DEF IInv
<1>1. /\ phase = "sweep"
      /\ UNCHANGED <<roots, handle, thread, phase, marks, call_depth, pending, untraced, orphans>>
      /\ objects' = [j \in DOMAIN objects \ {o} |-> objects[j]]
  BY DEF Sweep, gc, Objects!Release
<1>2. /\ o \notin Reachable /\ Reachable' = Reachable
      /\ DOMAIN objects' = DOMAIN objects \ {o}
      /\ \A j \in DOMAIN objects' : objects'[j] = objects[j]
  BY SweepKeepsReachable
<1>3. TypeOK'
  <2>1. objects' \in [DOMAIN objects' -> Object]
    BY <1>0, <1>1, <1>2 DEF TypeOK
  <2> QED
    BY <1>0, <1>1, <1>2, <2>1 DEF TypeOK
<1>4. RefPtrsOwnRoots'
  BY <1>0, <1>1 DEF RefPtrsOwnRoots, Holds
<1>5. NoDangling' /\ MarksExact'
  BY <1>0, <1>1, <1>2 DEF NoDangling, MarksExact
<1>6. Quiet' /\ MarkInvariant'
  BY <1>0, <1>1 DEF Quiet, MarkInvariant, Marking
<1> QED
  BY <1>3, <1>4, <1>5, <1>6 DEF IInv

LEMMA CollectEndIInv == ASSUME IInv, CollectEnd PROVE IInv'
<1>0. TypeOK /\ Quiet
  BY DEF IInv
<1>1. /\ phase = "sweep" /\ phase' = "idle"
      /\ UNCHANGED <<marks, call_depth, pending, untraced>> /\ UNCHANGED heap
  BY DEF CollectEnd
<1>2. TypeOK'
  BY <1>0, <1>1 DEF TypeOK, heap, Phase
<1>3. Quiet' /\ MarkInvariant' /\ MarksExact'
  BY <1>0, <1>1 DEF Quiet, MarkInvariant, MarksExact, Marking
<1> QED
  BY <1>1, <1>2, <1>3, HeapUnchanged DEF IInv

LEMMA NextIInv == IInv /\ [Next]_vars => IInv'
<1> SUFFICES ASSUME IInv, [Next]_vars PROVE IInv'
  OBVIOUS
<1>1. CASE Mutate
  BY <1>1, MutateIInv
<1>2. CASE Collect
  BY <1>2, CollectIInv
<1>3. CASE CollectStep
  BY <1>3, MarkIInv, MarkReturnIInv, CollectThreadsIInv, CollectUntracedIInv,
     CollectSweepIInv, SweepIInv, CollectEndIInv DEF CollectStep
<1>4. CASE UNCHANGED vars
  <2>1. UNCHANGED heap /\ UNCHANGED <<phase, marks, call_depth, pending, untraced>>
    BY <1>4 DEF vars, heap, gc
  <2>2. TypeOK'
    BY <2>1 DEF IInv, TypeOK, heap
  <2>3. Pending' = Pending
    BY <2>1 DEF Pending
  <2>4. Quiet' /\ MarkInvariant' /\ MarksExact'
    BY <2>1, <2>3, HeapUnchanged DEF IInv, Quiet, MarkInvariant, MarksExact
  <2> QED
    BY <2>1, <2>2, <2>4, HeapUnchanged DEF IInv
<1> QED
  BY <1>1, <1>2, <1>3, <1>4 DEF Next

THEOREM Inductive == Spec => []IInv
  BY InitIInv, NextIInv, PTL DEF Spec

-----------------------------------------------------------------------------
\* The Store's lists, the RefPtrs and the collector's context keep their types;
\* call_depth stays within max_call_depth.
THEOREM TypeCorrect == Spec => []TypeOK
<1>1. IInv => TypeOK
  BY DEF IInv
<1> QED
  BY Inductive, <1>1, PTL

\* Every non-empty RefPtr owns its own used root, whatever sequence of copies,
\* moves, assignments, resets and collections came before.
THEOREM RefPtrsCorrect == Spec => []RefPtrsOwnRoots
<1>1. IInv => RefPtrsOwnRoots
  BY DEF IInv
<1> QED
  BY Inductive, <1>1, PTL

\* No reachable Ref names a freed slot.
THEOREM NoDanglingCorrect == Spec => []NoDangling
<1>1. IInv => NoDangling
  BY DEF IInv
<1> QED
  BY Inductive, <1>1, PTL

\* Sweeping starts, and goes on, with exactly the reachable objects marked,
\* for every recursion limit.
THEOREM MarksExactCorrect == Spec => []MarksExact
<1>1. IInv => MarksExact
  BY DEF IInv
<1> QED
  BY Inductive, <1>1, PTL

\* Nothing but Store::Collect's sweep deletes an object, and nothing reachable
\* before or after is deleted.
THEOREM DeletesOnlyGarbageCorrect == Spec => DeletesOnlyGarbage
<1> DEFINE Kept == \A o \in DOMAIN objects \ DOMAIN objects' :
                     phase = "sweep" /\ o \notin Reachable /\ o \notin Reachable'
<1>1. IInv /\ [Next]_vars => [Kept]_vars
  <2> SUFFICES ASSUME IInv, Next PROVE Kept
    OBVIOUS
  <2>1. ASSUME NEW o \in ObjIndex, Sweep(o) PROVE Kept
    BY <2>1, SweepKeepsReachable DEF Sweep
  <2>2. CASE UNCHANGED objects
    BY <2>2
  <2>3. ASSUME NEW i, NEW o, Objects!Acquire(i, o) PROVE Kept
    BY <2>3 DEF Objects!Acquire
  <2>4. ASSUME NEW o, NEW old, NEW new, Write(o, old, new) PROVE Kept
    BY <2>4 DEF Write
  <2>5. CASE Mutate
    BY <2>2, <2>3, <2>4, <2>5 DEF Mutate, Alloc, Get, Copy, Move, Reset, ThreadPush, ThreadPop
  <2>6. CASE Collect
    BY <2>2, <2>6 DEF Collect, heap
  <2>7. CASE CollectStep
    BY <2>1, <2>2, <2>7 DEF CollectStep, Mark, MarkReturn, CollectThreads,
       CollectUntraced, CollectSweep, CollectEnd, heap
  <2> QED
    BY <2>5, <2>6, <2>7 DEF Next
<1> QED
  BY <1>1, Inductive, PTL DEF Spec, DeletesOnlyGarbage

\* When Collect returns, the objects left are exactly the reachable ones.
THEOREM CollectsAllGarbageCorrect == Spec => CollectsAllGarbage
<1> DEFINE Done == phase = "sweep" /\ phase' = "idle" => DOMAIN objects = Reachable
<1>1. IInv /\ [Next]_vars => [Done]_vars
  <2> SUFFICES ASSUME IInv, Next, phase = "sweep", phase' = "idle"
               PROVE  DOMAIN objects = Reachable
    OBVIOUS
  <2>1. CollectEnd
    <3>1. ~Mutate /\ ~Collect
      BY DEF Mutate, Collect
    <3> QED
      BY <3>1 DEF Next, CollectStep, Mark, MarkReturn, CollectThreads,
         CollectUntraced, CollectSweep, Sweep, gc
  <2> QED
    BY <2>1 DEF CollectEnd, IInv, MarksExact, NoDangling
<1> QED
  BY <1>1, Inductive, PTL DEF Spec, CollectsAllGarbage
=============================================================================
