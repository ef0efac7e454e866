--------------------------- MODULE ExnSemantics ---------------------------
(***************************************************************************)
(* What WebAssembly promises about exceptions: which catch clause a thrown *)
(* exception runs.  The control stack holds the calls, blocks and trys     *)
(* that execution is inside of; an exception in flight may leave entries   *)
(* in as many steps as it likes, but it never passes its handler and is    *)
(* caught nowhere else.                                                    *)
(***************************************************************************)
EXTENDS Naturals, Sequences

CONSTANTS Tag, NoTag

VARIABLES
    ctl,   \* the control stack, innermost entry last
    exc    \* the exception in flight, or NoTag

vars == <<ctl, exc>>

(* An entry.  A try in its body either catches the tags in `catches` or    *)
(* delegates to the label at position `delegate`; `saved` is what the      *)
(* clause that is now running caught.                                      *)
Entering(k, C, d) == [kind |-> k, phase |-> "body", catches |-> C, delegate |-> d,
                      saved |-> NoTag]
NewEntry(n) == {Entering(k, {}, 0) : k \in {"func", "block", "loop"}}
                 \cup {Entering("try", C, 0) : C \in SUBSET Tag}
                 \cup {Entering("try", {}, d) : d \in 1 .. n}

(* The position of the try whose clause handles tag t thrown on top of     *)
(* stack c, or 0 when the host does.                                       *)
HandlerOf(c, t) ==
    LET H[p \in 0 .. Len(c)] ==
            IF p = 0 THEN 0
            ELSE IF c[p].kind = "try" /\ c[p].phase = "body"
                 THEN IF c[p].delegate # 0 THEN H[c[p].delegate]
                      ELSE IF t \in c[p].catches THEN p ELSE H[p - 1]
                 ELSE H[p - 1]
    IN  H[Len(c)]

Prefix(c, n) == SubSeq(c, 1, n)

-----------------------------------------------------------------------------

Init == ctl = <<>> /\ exc = NoTag

Enter == /\ exc = NoTag
         /\ \E e \in NewEntry(Len(ctl)) : ctl' = Append(ctl, e)
         /\ UNCHANGED exc

(* A branch, a return, the end of a block, or a trap. *)
Leave == /\ exc = NoTag
         /\ \E n \in 0 .. Len(ctl) : ctl' = Prefix(ctl, n)
         /\ UNCHANGED exc

(* Tag t is in flight: entries above its handler go. *)
Fly(t) == \/ /\ exc' = t
             /\ \E n \in 0 .. Len(ctl) :
                    /\ HandlerOf(Prefix(ctl, n), t) = HandlerOf(ctl, t)
                    /\ ctl' = Prefix(ctl, n)
          \/ /\ HandlerOf(ctl, t) = 0
             /\ ctl' = <<>>
             /\ exc' = NoTag

(* By throw or rethrow. *)
Throw == exc = NoTag /\ \E t \in Tag : Fly(t)

Unwind == exc # NoTag /\ Fly(exc)

Catch == /\ exc # NoTag
         /\ LET h == HandlerOf(ctl, exc) IN
                /\ h # 0
                /\ ctl' = [Prefix(ctl, h) EXCEPT ![h].phase = "catch", ![h].saved = exc]
         /\ exc' = NoTag

Next == Enter \/ Leave \/ Throw \/ Unwind \/ Catch

Spec == Init /\ [][Next]_vars
=============================================================================
