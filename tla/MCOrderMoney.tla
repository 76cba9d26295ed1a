---------------------------- MODULE MCOrderMoney ---------------------------
(***************************************************************************)
(* Small instances of OrderMoney for TLC.                                  *)
(***************************************************************************)
EXTENDS OrderMoneyClaims, OrderScreens, TLC

\* Two requests, two request rows and two comp rows are interchangeable.
Symmetry == Permutations(Workers) \cup Permutations(Requests)
                                  \cup Permutations(Comps)

EveryOp == AllOps

\* Two people moving an order, taking its money and settling its hold.
CounterOps == Kinds \cup {"collect", "retryHold", "refund", "retryRefund"}

\* Two requests overlap as they like, but for what README section 5 tells of:
\* two refunds on their way at once, and a cancellation beside a taking.  Once
\* more than a cent was reversed they come one at a time, and no order here
\* has a reward, which no figure reads.
Overlap   == \E v, w \in Workers : v # w /\ pc[v] # "idle" /\ pc[w] # "idle"
Bounded   == Overlap => Reversals <= 1
Apart     == ~(TwoRefunds(Sending) \/ CancelMeetsTaking)' /\ Bounded'
NoReward  == Init /\ reward = "none"
ApartSpec == NoReward /\ [][Next]_vars
=============================================================================
