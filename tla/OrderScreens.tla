---------------------------- MODULE OrderScreens ----------------------------
(***************************************************************************)
(* What the screens say of one order's money and what they offer to do     *)
(* about it: the staff receipt, the customer's status page, the lists of   *)
(* the history page and the money split of the sales report.  All of it is *)
(* derived from the order and its log at every drawing; nothing here keeps *)
(* state of its own.                                                       *)
(***************************************************************************)
EXTENDS OrderMoney, FiniteSetsExt

\* The staff receipt's panels, as what each one offers.

\* "Collected - mark paid", here and on the queue's card.
CollectButton == CanCollect(status, Outstanding)

\* "Settle the hold again".  It asks the cached column, not the log.
HoldIsStuck == payState = "authorized" /\ HoldOutcome(status) # "keep"

\* "Refund owed - $ not sent", one panel for each request: what was asked
\* for, or all that is held.
RefundPanel(r) == IF ask[r] = All THEN Collected ELSE ask[r]

\* "Make it right": up to this much may be taken off.
TakeOff == Adjustable

\* "Put an adjustment back": comps with something left on them.
PutBack == {c \in Comps : CompLeft(c) > 0}

\* "Send money back": not while a refund is owed already.
SendBack == IF Pending = {} THEN Collected ELSE 0

\* "Reverse a refund".
ReverseIt == Reversible

\* "Move it back": an order that left the queue and has somewhere to go.
MoveItBack == IF status \in Terminal THEN PreviousOf[status] ELSE NoStatus

-----------------------------------------------------------------------------
\* The forms behind the panels: each parses what was typed and hands it to
\* the engine, which begins the operation or refuses it.

\* collectPayment: what it reads must allow it, and so must the column it
\* compares and sets.
TakesPayment(w) ==
    Starts(w, "collect") /\ CanCollect(status, Outstanding) /\ payState = "unpaid"
\* retryHoldForm
SettlesHold(w)     == Starts(w, "retryHold") /\ hold = "open"
\* refundOrderForm
TakesRefund(w)     == Starts(w, "refund") /\ RefundsBy # {}
\* reverseRefundForm
TakesReversal(w)   == Starts(w, "unrefund") /\ Reversible # {}
\* adjustOrderForm
TakesAdjustment(w) == Starts(w, "adjust") /\ AdjustsBy # {}
TakesPutBack(w)    == Starts(w, "unadjust") /\ \E c \in Comps : PutsBackBy(c) # {}
\* revertOrderForm, with the status the receipt was drawn to go back to
TakesBack(to)      == Permits("revert", "staff", status, to)

-----------------------------------------------------------------------------
\* The lists of the history page and of the report.

RefundsNotSent  == Pending # {}
HoldsNotSettled == HoldIsStuck
Sold            == SalesRoleOf(status) = "sold"
ChaseList       == Sold /\ Outstanding > 0

\* The report's split of what was booked for an order that sold.
Split == Collected + Outstanding + log.refund + Adjusted

\* The sentence on the customer's status page, as the case it is.
Released == Captured = 0 /\ Authorized = 0 /\ hold # "none"

Sentence ==
    CASE Pending # {}                               -> "refund_pending"
      [] Pending = {} /\ Released /\ CollectButton  -> "released_and_due"
      [] Pending = {} /\ Released /\ ~CollectButton -> "not_charged"
      [] Pending = {} /\ ~Released /\ payState = "unpaid" ->
            IF Outstanding > 0 THEN "due" ELSE "nothing_to_pay"
      [] OTHER                                      -> payState

-----------------------------------------------------------------------------
AtRest == \A w \in Workers : pc[w] = "idle"
Reversals == log.refund_reversed + log.adjustment_reversed

\* A panel that is drawn is accepted if nobody else acts on the order first:
\* what the panels read and what the operations check agree, though one asks
\* the log and the other the cached column.  The collect button keeps this
\* until something on the order was reversed.
ButtonsWork ==
    AtRest => \A w \in Workers :
        /\ CollectButton /\ Reversals = 0 => TakesPayment(w)
        /\ HoldIsStuck => SettlesHold(w)
        /\ TakeOff > 0 => TakesAdjustment(w)
        /\ PutBack # {} => TakesPutBack(w)
        /\ SendBack > 0 => TakesRefund(w)
        /\ ReverseIt # {} => TakesReversal(w)
        /\ MoveItBack # NoStatus => TakesBack(MoveItBack)

\* Money held for a cancelled order is asked back: all of it, while no
\* cancellation overlaps a taking of the same order's money.
HeldMoneyIsListed == status = "cancelled" /\ Collected > 0 => RefundsNotSent

\* A hold on an order that finished, and what a sold order still owes.
FinishedHoldIsListed == status \in Terminal /\ hold = "open" => HoldsNotSettled
DebtIsListed == Sold /\ Captured + Adjusted < Total => HoldsNotSettled \/ ChaseList

\* Whatever failed or died on the way, money that is where it should not be is
\* on a list somebody reads.
MoneyIsOnAList == HeldMoneyIsListed /\ FinishedHoldIsListed /\ DebtIsListed

\* All the processor has sent back.
SumOver(f, S) == MapThenSumSet(LAMBDA x : f[x], S)
Sent          == SumOver(paidOut, Requests)

\* A customer who reads "Refunded" was sent everything that was taken, by the
\* processor itself and not only by the log.
RefundedIsTrue == Sentence = "refunded" => Sent >= Captured

\* The report's split of a sold order adds up to what was booked, unless more
\* was given away than was still owed or the hold is not settled yet; and
\* while no two requests send different refunds at once.
SplitExplainsRevenue ==
    /\ Sold /\ hold # "open"
    /\ Captured + Adjusted <= Total + log.refund_reversed
    => Split = Total + log.refund_reversed
=============================================================================
