----------------------------- MODULE OrderBook ------------------------------
(***************************************************************************)
(* What a business day's order numbers promise: the day is one list, each  *)
(* new order goes at its end, and a key is in it at most once.  No number  *)
(* is skipped, given twice or given again.  Placement, where requests race *)
(* for the next number and die half way, is shown to implement this.       *)
(***************************************************************************)
EXTENDS Sequences

CONSTANT Keys        \* idempotency keys, of checkouts and of remakes

VARIABLE placed      \* the keys of the day's orders, in number order

Holds(k) == \E n \in DOMAIN placed : placed[n] = k

Init == placed = <<>>

Place(k) ==
    /\ ~Holds(k)
    /\ placed' = Append(placed, k)

Next == \E k \in Keys : Place(k)

Spec == Init /\ [][Next]_placed
=============================================================================
