----------------------------- MODULE InterpStore -----------------------------
(***************************************************************************)
(* wabt::interp::Store and RefPtr (src/interp/interp.cc:203-315,           *)
(* interp.h:446-547, interp-inl.h:243-405): the interpreter's object heap, *)
(* its roots, the smart pointers that own them, and the mark-and-sweep     *)
(* collector with its bounded recursion.                                   *)
(*                                                                         *)
(* objects_ and roots_ are two FreeLists; each is represented here by the  *)
(* SlotPool FreeList implements.  The collector is modelled call by call:  *)
(* Collect runs to completion before any other operation, but the order in *)
(* which it marks, defers and sweeps is what its correctness is about.     *)
(***************************************************************************)
EXTENDS Integers

CONSTANTS ObjIndex,        \* slots of objects_; a Ref is one of them
          Null,            \* Ref::Null, slot 0
          RootIndex,       \* slots of roots_
          Root0,           \* slot 0 of roots_, taken by the constructor
          Handle,          \* the embedder's RefPtr variables
          Thread,          \* Thread objects
          NoObj,           \* nullptr in RefPtr::obj_
          Kind,            \* the object kinds an instance allocates
          MaxCallDepth     \* Store::max_call_depth (10 in the code)

ASSUME IndexAssumption == Null \in ObjIndex /\ Root0 \in RootIndex /\ NoObj \notin ObjIndex
ASSUME DepthAssumption == MaxCallDepth \in Nat

Ref == ObjIndex

\* Kinds whose Mark does nothing: they hold no Ref.
LeafKind == {"Null", "Foreign", "HostFunc", "Memory", "Tag", "Module"}
ObjectKind == LeafKind \cup
  {"DefinedFunc", "Table", "Global", "Trap", "Exception", "Instance"}

ASSUME KindAssumption == Kind \subseteq ObjectKind \ {"Null"}

VARIABLES objects,    \* objects_ : used slot -> object
          roots,      \* roots_ : used slot -> Ref
          handle,     \* Handle -> [obj_, root_index_]
          thread,     \* threads_, each with the Refs its Thread::Mark visits; a
                      \* Thread not in threads_ has none
          phase,      \* where Collect is, "idle" outside it
          marks,      \* gc_context_.marks
          call_depth, \* gc_context_.call_depth
          pending,    \* per level of the recursion, the Refs still to Mark
          untraced,   \* gc_context_.untraced_objects
          orphans     \* history: roots whose RefPtr was assigned over

gc == <<phase, marks, call_depth, pending, untraced>>
vars == <<objects, roots, handle, thread, gc, orphans>>

Objects == INSTANCE SlotPool WITH Index <- ObjIndex, Payload <- {}, held <- objects
Roots == INSTANCE SlotPool WITH Index <- RootIndex, Payload <- Ref, held <- roots

\* An object: its kind, the Ref member single objects point with (instance_,
\* module_, tag_) and the Refs its vectors hold.
Object == [kind : ObjectKind, link : Ref, elems : SUBSET Ref]

\* The Refs a program can read out of an object, from the class declarations.
Fields(o) ==
  CASE o.kind = "DefinedFunc"                 -> {o.link}
    [] o.kind \in {"Table", "Global", "Trap"} -> o.elems
    [] o.kind \in {"Exception", "Instance"}   -> {o.link} \cup o.elems
    [] OTHER                                  -> {}

\* The Refs the object's Mark(Store&) passes to Store::Mark.  (Exception::Mark
\* also holds a root on its tag while it runs, released before it returns.)
MarkRefs(o) ==
  CASE o.kind = "DefinedFunc" -> {o.link}
    [] o.kind = "Trap"        -> o.elems
    [] o.kind = "Exception"   -> {o.link} \cup o.elems
    [] o.kind = "Table"       -> o.elems
    [] o.kind = "Global"      -> o.elems
    [] o.kind = "Instance"    -> {o.link} \cup o.elems
    [] OTHER                  -> {}

Empty == [obj |-> NoObj, root |-> Root0]
Levels == 0 .. MaxCallDepth
NoPending == [d \in Levels |-> {}]

-----------------------------------------------------------------------------
\* What is alive: the smallest set that holds every root and every Ref of a
\* running thread, and is closed under following fields.

Closed(objs, S) == \A o \in S \cap DOMAIN objs : Fields(objs[o]) \subseteq S

Reach(objs, from) == {o \in ObjIndex : \A S \in SUBSET ObjIndex :
                                         from \subseteq S /\ Closed(objs, S) => o \in S}

RootRefs == {ref \in Ref : \E r \in DOMAIN roots : roots[r] = ref}
ThreadRefs == {ref \in Ref : \E t \in Thread : ref \in thread[t]}

Reachable == Reach(objects, RootRefs \cup ThreadRefs)

-----------------------------------------------------------------------------
\* Store::Store: the Null object and a root on it.
NullObject == [kind |-> "Null", link |-> Null, elems |-> {}]

Init ==
  /\ objects = [o \in {Null} |-> NullObject]
  /\ roots = [r \in {Root0} |-> Null]
  /\ handle = [h \in Handle |-> Empty]
  /\ thread = [t \in Thread |-> {}]
  /\ phase = "idle"
  /\ marks = {}
  /\ call_depth = 0
  /\ pending = NoPending
  /\ untraced = {}
  /\ orphans = {}

\* What the constructors of each kind accept.
WellFormed(o) ==
  /\ o.kind \in Kind
  /\ o.kind \in LeafKind => o.link = Null /\ o.elems = {}
  /\ o.kind \in {"Table", "Global", "Trap"} => o.link = Null
  /\ o.kind = "DefinedFunc" => o.elems = {} /\ objects[o.link].kind = "Instance"
  /\ o.kind = "Exception" => objects[o.link].kind = "Tag"
  /\ o.kind = "Instance" => objects[o.link].kind = "Module" /\ o.elems = {}
  /\ o.kind = "Table" => o.elems = {}
  /\ o.kind = "Global" => \E v \in Ref : o.elems \subseteq {v}
  /\ o.kind = "Trap" => \A f \in o.elems : objects[f].kind \in {"DefinedFunc", "HostFunc"}

\* Store::Alloc: a slot, then the RefPtr(Store&, Ref) that is returned.  The
\* Refs of the new object are ones the program can name.
Alloc(h, i, r, o) ==
  /\ handle[h] = Empty
  /\ WellFormed(o)
  /\ Objects!Acquire(i, o)
  /\ Roots!Acquire(r, i)
  /\ handle' = [handle EXCEPT ![h] = [obj |-> i, root |-> r]]
  /\ UNCHANGED <<thread, gc, orphans>>

\* An assignment leaves the root the target held, if any, without an owner:
\* no operator= of RefPtr calls reset() first.
Orphan(h) == orphans' = IF handle[h].obj = NoObj THEN orphans
                                                 ELSE orphans \cup {handle[h].root}

\* Store::Get into an out parameter ("*out = RefPtr<T>(*this, ref)"), and the
\* RefPtr(Store&, Ref) constructor when h is empty.
Get(h, r, ref) ==
  /\ Roots!Acquire(r, ref)
  /\ handle' = [handle EXCEPT ![h] = [obj |-> ref, root |-> r]]
  /\ Orphan(h)
  /\ UNCHANGED <<objects, thread, gc>>

\* RefPtr copy construction (h empty), copy assignment and As: a root of its
\* own, copied from the source's (Store::CopyRoot), or an empty RefPtr.
Copy(h, g, r) ==
  /\ IF handle[g].obj = NoObj
     THEN /\ handle' = [handle EXCEPT ![h] = Empty]
          /\ UNCHANGED roots
     ELSE /\ Roots!Acquire(r, roots[handle[g].root])
          /\ handle' = [handle EXCEPT ![h] = [obj |-> handle[g].obj, root |-> r]]
  /\ Orphan(h)
  /\ UNCHANGED <<objects, thread, gc>>

\* Mutated form: the source keeps the root it gave away.
Move_KeepsSource(h, g) ==
  /\ handle' = [handle EXCEPT ![h] = handle[g]]
  /\ Orphan(h)
  /\ UNCHANGED <<objects, roots, thread, gc>>

\* RefPtr move construction (h empty) and move assignment: the root changes
\* hands, and the source is cleared last.
Move(h, g) ==
  /\ handle' = [[handle EXCEPT ![h] = handle[g]] EXCEPT ![g] = Empty]
  /\ Orphan(h)
  /\ UNCHANGED <<objects, roots, thread, gc>>

\* RefPtr::reset and ~RefPtr: Store::DeleteRoot.
Reset(h) ==
  /\ handle[h].obj # NoObj
  /\ Roots!Release(handle[h].root)
  /\ handle' = [handle EXCEPT ![h] = Empty]
  /\ UNCHANGED <<objects, thread, gc, orphans>>

\* Storing Refs in a live object: Table::Set, Grow, Fill, Init and Copy (which
\* may overwrite the last use of other elements), Global::Set (a global of
\* reference type holds one value), the push_backs of Instance::Instantiate
\* and ElemSegment::Drop.  elems does not say which vector of an Instance a
\* Ref is in, so a Drop may remove any of them.
Write(o, old, new) ==
  /\ old \subseteq objects[o].elems
  /\ objects[o].kind \in {"Table", "Global", "Instance"}
  /\ objects[o].kind = "Global" =>
       /\ old = objects[o].elems /\ old # {}
       /\ \E v \in Ref : new = {v}
  /\ objects[o].kind = "Instance" => old = {} \/ new = {}
  /\ objects' = [objects EXCEPT ![o].elems = (@ \ old) \cup new]
  /\ UNCHANGED <<roots, handle, thread, gc, orphans>>

\* A running Thread takes a Ref that Thread::Mark will visit (a frame's func, a
\* value listed in refs_, an exception), or drops one (dropping the last is
\* also ~Thread, which leaves threads_).  Which of values_ are listed in refs_
\* is the interpreter loop's business, not the Store's.
ThreadPush(t, ref) ==
  /\ thread' = [thread EXCEPT ![t] = @ \cup {ref}]
  /\ UNCHANGED <<objects, roots, handle, gc, orphans>>

ThreadPop(t, ref) ==
  /\ ref \in thread[t]
  /\ thread' = [thread EXCEPT ![t] = @ \ {ref}]
  /\ UNCHANGED <<objects, roots, handle, gc, orphans>>

-----------------------------------------------------------------------------
\* Store::Collect.  Level 0 of pending belongs to Collect itself (the root
\* loop, a Thread::Mark, or the Mark of an object popped from
\* untraced_objects); level d > 0 to the object Mark running at call_depth d.

heap == <<objects, roots, handle, thread, orphans>>

Collect ==
  /\ phase = "idle"
  /\ phase' = "roots"
  /\ marks' = {}
  /\ pending' = [NoPending EXCEPT ![0] = RootRefs]
  /\ UNCHANGED <<call_depth, untraced, heap>>

\* Store::Mark(ref), called from the innermost running Mark.
Mark(ref) ==
  /\ phase \in {"roots", "threads", "drain"}
  /\ ref \in pending[call_depth]
  /\ marks' = marks \cup {ref}
  /\ \/ /\ ref \in marks
        /\ pending' = [pending EXCEPT ![call_depth] = @ \ {ref}]
        /\ UNCHANGED <<call_depth, untraced>>
     \/ /\ ref \notin marks
        /\ call_depth >= MaxCallDepth
        /\ untraced' = untraced \cup {ref}
        /\ pending' = [pending EXCEPT ![call_depth] = @ \ {ref}]
        /\ UNCHANGED call_depth
     \/ /\ ref \notin marks
        /\ call_depth < MaxCallDepth
        /\ call_depth' = call_depth + 1
        /\ pending' = [pending EXCEPT ![call_depth] = @ \ {ref},
                                      ![call_depth + 1] = MarkRefs(objects[ref])]
        /\ UNCHANGED untraced
  /\ UNCHANGED <<phase, heap>>

\* An object's Mark returns to the Store::Mark that called it.
MarkReturn ==
  /\ phase \in {"roots", "threads", "drain"}
  /\ pending[call_depth] = {}
  /\ call_depth > 0
  /\ call_depth' = call_depth - 1
  /\ UNCHANGED <<phase, marks, pending, untraced, heap>>

\* Mutated form: Collect forgets the running threads.
CollectThreads_Skipped ==
  /\ phase = "roots"
  /\ call_depth = 0 /\ pending[0] = {}
  /\ phase' = "threads"
  /\ UNCHANGED <<marks, call_depth, pending, untraced, heap>>

\* The root loop ends; for (auto thread : threads_) thread->Mark().
CollectThreads ==
  /\ phase = "roots"
  /\ call_depth = 0 /\ pending[0] = {}
  /\ phase' = "threads"
  /\ pending' = [pending EXCEPT ![0] = ThreadRefs]
  /\ UNCHANGED <<marks, call_depth, untraced, heap>>

\* Mutated form: back() without pop_back().
CollectUntraced_NoPop(o) ==
  /\ phase \in {"threads", "drain"}
  /\ call_depth = 0 /\ pending[0] = {}
  /\ o \in untraced
  /\ phase' = "drain"
  /\ pending' = [pending EXCEPT ![0] = MarkRefs(objects[o])]
  /\ UNCHANGED <<marks, call_depth, untraced, heap>>

\* One turn of the loop that drains untraced_objects.
CollectUntraced(o) ==
  /\ phase \in {"threads", "drain"}
  /\ call_depth = 0 /\ pending[0] = {}
  /\ o \in untraced
  /\ phase' = "drain"
  /\ untraced' = untraced \ {o}
  /\ pending' = [pending EXCEPT ![0] = MarkRefs(objects[o])]
  /\ UNCHANGED <<marks, call_depth, heap>>

CollectSweep ==
  /\ phase \in {"threads", "drain"}
  /\ call_depth = 0 /\ pending[0] = {}
  /\ untraced = {}
  /\ phase' = "sweep"
  /\ UNCHANGED <<marks, call_depth, pending, untraced, heap>>

\* Mutated form: the sweep stops before its end.
CollectEnd_Early ==
  /\ phase = "sweep"
  /\ phase' = "idle"
  /\ UNCHANGED <<marks, call_depth, pending, untraced, heap>>

\* "Delete all unmarked objects", one after the other.
Sweep(o) ==
  /\ phase = "sweep"
  /\ o \notin marks
  /\ Objects!Release(o)
  /\ UNCHANGED <<roots, handle, thread, gc, orphans>>

CollectEnd ==
  /\ phase = "sweep"
  /\ DOMAIN objects \subseteq marks
  /\ phase' = "idle"
  /\ UNCHANGED <<marks, call_depth, pending, untraced, heap>>

CollectStep ==
  \/ \E ref \in Ref : Mark(ref)
  \/ MarkReturn
  \/ CollectThreads
  \/ \E o \in ObjIndex : CollectUntraced(o)
  \/ CollectSweep
  \/ \E o \in ObjIndex : Sweep(o)
  \/ CollectEnd

\* An operation of the embedder or of a running thread.  The Refs it can name
\* are the ones its RefPtrs, or the objects those lead to, hold; a Ref kept in
\* a plain variable across Collect is not one.
Mutate ==
  /\ phase = "idle"
  /\ \/ \E h \in Handle, i \in ObjIndex, r \in RootIndex, k \in Kind,
           l \in Reachable, e \in SUBSET Reachable :
          Alloc(h, i, r, [kind |-> k, link |-> l, elems |-> e])
     \/ \E ref \in Reachable \ {Null}, h \in Handle, r \in RootIndex : Get(h, r, ref)
     \/ \E h, g \in Handle, r \in RootIndex : Copy(h, g, r)
     \/ \E h, g \in Handle : Move(h, g)
     \/ \E h \in Handle : Reset(h)
     \/ \E o \in Reachable \ {Null}, old \in SUBSET Ref, new \in SUBSET Reachable : Write(o, old, new)
     \/ \E t \in Thread, ref \in Reachable : ThreadPush(t, ref)
     \/ \E t \in Thread, ref \in Ref : ThreadPop(t, ref)

Next == Mutate \/ Collect \/ CollectStep

Spec == Init /\ [][Next]_vars

\* Collect, once called, runs to its end.
FairSpec == Spec /\ WF_vars(CollectStep)

-----------------------------------------------------------------------------
Phase == {"idle", "roots", "threads", "drain", "sweep"}
Marking == {"roots", "threads", "drain"}

TypeOK ==
  /\ DOMAIN objects \subseteq ObjIndex
  /\ objects \in [DOMAIN objects -> Object]
  /\ DOMAIN roots \subseteq RootIndex
  /\ roots \in [DOMAIN roots -> Ref]
  /\ handle \in [Handle -> [obj : Ref \cup {NoObj}, root : RootIndex]]
  /\ thread \in [Thread -> SUBSET Ref]
  /\ phase \in Phase
  /\ marks \subseteq ObjIndex
  /\ call_depth \in Levels
  /\ pending \in [Levels -> SUBSET Ref]
  /\ untraced \subseteq ObjIndex
  /\ orphans \subseteq RootIndex

Holds(h) == handle[h].obj # NoObj

\* Every non-empty RefPtr owns a root of its own that names its object, so that
\* reset() deletes a used slot and never another RefPtr's; every other root is
\* the constructor's or one an assignment abandoned.
RefPtrsOwnRoots ==
  /\ \A h \in Handle : Holds(h) =>
       /\ handle[h].root \in DOMAIN roots \ (orphans \cup {Root0})
       /\ roots[handle[h].root] = handle[h].obj
  /\ \A h, g \in Handle :
       Holds(h) /\ Holds(g) /\ handle[h].root = handle[g].root => h = g
  /\ {Root0} \cup orphans \subseteq DOMAIN roots
  /\ \A r \in DOMAIN roots \ (orphans \cup {Root0}) :
       \E h \in Handle : Holds(h) /\ handle[h].root = r

\* No Ref that a root, a thread or a live object holds names a freed slot: in
\* particular RefPtr::obj_ never points to a deleted object, and the
\* objects_.Get of Store::Mark never meets a free slot.
NoDangling == Reachable \subseteq DOMAIN objects

Pending == {ref \in Ref : \E d \in Levels : ref \in pending[d]}

\* While marking, an object that is marked and not deferred has had each of its
\* Refs marked or still pending in a running Mark; a deferred object is marked
\* (the assert of the drain loop); whatever is not yet handed to Mark belongs
\* to a later phase.
MarkInvariant ==
  phase \in Marking =>
    /\ untraced \subseteq marks
    /\ \A o \in marks \ untraced : Fields(objects[o]) \subseteq marks \cup Pending
    /\ RootRefs \subseteq marks \cup pending[0]
    /\ phase = "threads" => ThreadRefs \subseteq marks \cup pending[0]
    /\ phase = "drain" => ThreadRefs \subseteq marks
    /\ marks \cup Pending \subseteq Reachable

\* The marks Collect sweeps by are exactly the reachable objects: the
\* recursion limit and the deferred objects lose nothing, and marks left from
\* an earlier collection keep nothing alive.
MarksExact == phase = "sweep" => marks = Reachable

\* Only an unreachable object is ever deleted, and only by the sweep.
DeletesOnlyGarbage ==
  [][\A o \in DOMAIN objects \ DOMAIN objects' :
       phase = "sweep" /\ o \notin Reachable /\ o \notin Reachable']_vars

\* When Collect returns, nothing unreachable is left (Store::object_count is
\* the number of reachable objects), cycles included.
CollectsAllGarbage ==
  [][phase = "sweep" /\ phase' = "idle" => DOMAIN objects = Reachable]_vars

\* Collect returns, whatever the shape of the object graph.
CollectTerminates == phase # "idle" ~> phase = "idle"
=============================================================================
