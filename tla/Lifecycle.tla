----------------------------- MODULE Lifecycle -----------------------------
(***************************************************************************)
(* What the order screens promise about one order's status, with none of   *)
(* the machinery: it moves one permitted step at a time, forward to        *)
(* picked_up, back by an undo, or out by a cancellation or a no-show.      *)
(* OrderMoney, where several requests read the row, decide, and write it   *)
(* back later, is shown to implement this.                                 *)
(***************************************************************************)
EXTENDS StatusFacts

VARIABLE status

Init == status = "placed"

Move(kind, actor) ==
    \E to \in Status :
        /\ Permits(kind, actor, status, to)
        /\ status' = to

Next == \E kind \in Kinds, actor \in Actors : Move(kind, actor)

Spec == Init /\ [][Next]_status
=============================================================================
