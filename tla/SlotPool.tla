------------------------------ MODULE SlotPool ------------------------------
(***************************************************************************)
(* What FreeList promises its two users, Store::NewRoot/DeleteRoot and     *)
(* Store::Alloc/Collect: an index handed out is one nobody holds, the      *)
(* payload stored under an index stays there until that index is deleted,  *)
(* and no other index is disturbed.  FreeList is shown to implement this   *)
(* module; InterpStore is built on two instances of it.                    *)
(***************************************************************************)
CONSTANTS Index, Payload

VARIABLE held      \* the indexes in use, each with its payload

Init == held = [i \in {} |-> 0]

Acquire(i, v) ==
  /\ i \in Index \ DOMAIN held
  /\ held' = [j \in DOMAIN held \cup {i} |-> IF j = i THEN v ELSE held[j]]

Release(i) ==
  /\ i \in DOMAIN held
  /\ held' = [j \in DOMAIN held \ {i} |-> held[j]]

Next == \E i \in Index : \/ \E v \in Payload : Acquire(i, v)
                         \/ Release(i)

Spec == Init /\ [][Next]_held
=============================================================================
