---------------------------- MODULE StatusFacts ----------------------------
(***************************************************************************)
(* The status table of an order and the one decision made from it: what a  *)
(* staff member's or a customer's action turns a status into.  Constant    *)
(* operators only, shared by every module that follows an order.           *)
(***************************************************************************)

EXTENDS Naturals

\* ORDER_STATUSES
Status == {"placed", "accepted", "preparing", "ready",
           "picked_up", "cancelled", "abandoned"}

NoStatus == "null"

\* STATUS_FACTS[s].next
NextOf == [s \in Status |->
    CASE s = "placed"    -> "accepted"
      [] s = "accepted"  -> "preparing"
      [] s = "preparing" -> "ready"
      [] s = "ready"     -> "picked_up"
      [] OTHER           -> NoStatus]

\* STATUS_FACTS[s].previous
PreviousOf == [s \in Status |->
    CASE s = "accepted"  -> "placed"
      [] s = "preparing" -> "accepted"
      [] s = "ready"     -> "preparing"
      [] s = "picked_up" -> "ready"
      [] s = "abandoned" -> "ready"
      [] OTHER           -> NoStatus]

\* The boolean columns of the table, as the sets statusesWhere derives
Terminal              == {"picked_up", "cancelled", "abandoned"}
CancellableByStaff    == {"placed", "accepted", "preparing"}
CancellableByCustomer == {"placed"}
Abandonable           == {"ready"}

\* STATUS_FACTS[s].salesRole
SalesRoleOf(s) ==
    CASE s = "picked_up" -> "sold"
      [] s = "abandoned" -> "no_show"
      [] s = "cancelled" -> "cancelled"
      [] OTHER           -> "in_flight"

\* applyTransition: the status `actor` may move `from` to by `kind`, as a
\* relation.  A kind that is refused relates `from` to nothing.
Kinds  == {"advance", "revert", "cancel", "abandon"}
Actors == {"staff", "customer", "system"}

Permits(kind, actor, from, to) ==
    \/ /\ kind = "advance" /\ actor = "staff"
       /\ from \notin Terminal
       /\ NextOf[from] # NoStatus
       /\ to = NextOf[from]
    \/ /\ kind = "revert" /\ actor = "staff"
       /\ from # "cancelled"
       /\ PreviousOf[from] # NoStatus
       /\ to = PreviousOf[from]
    \/ /\ kind = "cancel" /\ actor # "system"
       /\ from \in CancellableByStaff
       /\ actor = "customer" => from \in CancellableByCustomer
       /\ to = "cancelled"
    \/ /\ kind = "abandon" /\ actor = "staff"
       /\ from \in Abandonable
       /\ to = "abandoned"

\* canCollectPayment
CanCollect(s, outstanding) ==
    outstanding > 0 /\ SalesRoleOf(s) \in {"in_flight", "sold"}

\* authorizationOutcome: what the end of an order does to its card hold
HoldOutcome(s) ==
    CASE SalesRoleOf(s) = "sold"                     -> "capture"
      [] SalesRoleOf(s) \in {"no_show", "cancelled"} -> "void"
      [] OTHER                                       -> "keep"

\* redemptionStateFor: what it does to a reward spent at checkout
RewardOutcome(s) ==
    IF SalesRoleOf(s) \in {"sold", "in_flight"} THEN "spent" ELSE "returned"
=============================================================================
