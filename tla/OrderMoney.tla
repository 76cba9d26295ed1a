----------------------------- MODULE OrderMoney ----------------------------
(***************************************************************************)
(* One order's status and money, written by several server requests at     *)
(* once.  A request (a worker here) reads the row and its event log,       *)
(* decides, and writes in later statements; between any two of them other  *)
(* requests run, and the process may die.  The database is Postgres at     *)
(* READ COMMITTED: a statement sees what was committed when it began, and  *)
(* a conditional UPDATE re-checks its WHERE under the row lock.            *)
(*                                                                         *)
(* The append-only event log is kept as what the code reads out of it:     *)
(* the sum of each kind of money event, and which row links to which.      *)
(* Events that move no money and link to nothing are left out.             *)
(***************************************************************************)
EXTENDS StatusFacts, Naturals, FiniteSets

CONSTANTS
    Workers,       \* requests that may be in flight together
    Requests,      \* ids of refund_requested rows (a bound on how many)
    Comps,         \* ids of adjustment rows (a bound on how many)
    NoRow,         \* "no row chosen yet"
    All,           \* a request with no amount: whatever is held at the attempt
    Total,         \* the order's total, in cents
    Ops,           \* the operations this instance lets requests start
    NetworkFails   \* TRUE: a call to the card processor may fail unanswered,
                   \* whether or not the processor acted on it

AllOps == Kinds \cup {"collect", "adjust", "unadjust", "refund",
                      "retryRefund", "unrefund", "retryHold"}

ASSUME TotalAssumption == Total \in Nat \ {0}
ASSUME NoRowAssumption == NoRow \notin Requests \cup Comps
ASSUME AllAssumption   == All \notin Nat
ASSUME OpsAssumption   == Ops \subseteq AllOps
ASSUME NetAssumption   == NetworkFails \in BOOLEAN
ASSUME RequestsAssumption == IsFiniteSet(Requests)

VARIABLES
    status,     \* Order.status
    payState,   \* Order.paymentState, the cached column
    log,        \* sums of the money events, by kind
    hold,       \* the authorization row and what settles it
    ask,        \* refund_requested rows: amount or All (Unasked: none)
    refundOf,   \* refund rows, by the request they settle (0: none)
    reversed,   \* requests whose refund has a refund_reversed row
    comp,       \* adjustment rows (0: not written)
    takenBack,  \* adjustment_reversed, summed by the comp they name
    reward,     \* the checkout reward's ledger rows, netted
    once,       \* rows written at most once per order by a unique index
    card,       \* external: the hold as the processor knows it
    paidOut,    \* external: refunds the processor sent, by idempotency key
    pc, job     \* each worker's next statement and local variables

rowVars  == <<log, hold, ask, refundOf, reversed, comp, takenBack>>
provVars == <<card, paidOut>>
vars == <<status, payState, rowVars, reward, once, provVars, pc, job>>

-----------------------------------------------------------------------------
\* What the log says.

Unasked == 0
PayStates == {"unpaid", "authorized", "paid", "refunded"}

Minus(a, b) == IF a > b THEN a - b ELSE 0       \* Math.max(0, a - b)

\* paymentTotals
Captured   == log.payment + (IF hold = "captured" THEN Total ELSE 0)
Authorized == IF hold = "open" THEN Total ELSE 0
Adjusted   == Minus(log.adjustment, log.adjustment_reversed)

\* orderBalance
Collected   == Minus(Captured, log.refund)

\* Mutant: what a refund sent back is owed again.
Outstanding_Kept == Minus(Total + log.refund_reversed, Collected + Adjusted + Authorized)

Outstanding == Minus(Total + log.refund_reversed,
                     Captured + Adjusted + Authorized)

\* Mutant: any refund at all makes the order "refunded".
Derive_AnyRefund(captured, refunded, authorized) ==
    IF captured = 0
    THEN IF authorized > 0 THEN "authorized" ELSE "unpaid"
    ELSE IF refunded > 0 THEN "refunded" ELSE "paid"

\* derivePaymentState
Derive(captured, refunded, authorized) ==
    IF captured = 0
    THEN IF authorized > 0 THEN "authorized" ELSE "unpaid"
    ELSE IF refunded >= captured THEN "refunded" ELSE "paid"

\* pendingRefunds, reversibleRefunds
Pending    == {r \in Requests : ask[r] # Unasked /\ refundOf[r] = 0}
Reversible == {r \in Requests : refundOf[r] > 0} \ reversed

\* adjustableRemainingCents, targetRemainingCents
Adjustable   == Minus(Total, Adjusted)
CompLeft(c)  == Minus(comp[c], takenBack[c])

-----------------------------------------------------------------------------
Steps == {"idle", "move", "collect", "adjust", "unadjust", "ask", "unrefund",
          "find", "send", "bookRefund", "commitRefund",
          "hold", "charge", "bookHold", "commitHold"}

Blank == [seen |-> NoStatus, to |-> NoStatus, refund |-> FALSE, row |-> NoRow,
          amt |-> 0, col |-> "unpaid", settle |-> "void"]

Jobs == [seen : Status \cup {NoStatus}, to : Status \cup {NoStatus},
         refund : BOOLEAN, row : Requests \cup Comps \cup {NoRow},
         amt : Nat, col : PayStates, settle : {"capture", "void"}]

Goto(w, step, j) == /\ pc'  = [pc EXCEPT ![w] = step]
                    /\ job' = [job EXCEPT ![w] = j]
Done(w) == Goto(w, "idle", Blank)

\* A request for this operation comes in.
Starts(w, op) == pc[w] = "idle" /\ op \in Ops

TypeOK ==
    /\ status \in Status
    /\ payState \in PayStates
    /\ log \in [payment : Nat, refund : Nat, refund_reversed : Nat,
                adjustment : Nat, adjustment_reversed : Nat]
    /\ hold \in {"none", "open", "captured", "voided"}
    /\ ask \in [Requests -> Nat \cup {All}]
    /\ refundOf \in [Requests -> Nat]
    /\ reversed \subseteq Requests
    /\ comp \in [Comps -> Nat]
    /\ takenBack \in [Comps -> Nat]
    /\ reward \in {"none", "spent", "returned"}
    /\ once \subseteq {"earn", "ready_sms"}
    /\ card \in {"none", "held", "captured", "released"}
    /\ paidOut \in [Requests -> Nat]
    /\ pc \in [Workers -> Steps]
    /\ job \in [Workers -> Jobs]

\* An order as placeOrder leaves it: paid now (a hold for the total) or at
\* pickup, with or without a reward spent on it.
Init ==
    /\ status = "placed"
    /\ \/ hold = "open" /\ card = "held" /\ payState = "authorized"
       \/ hold = "none" /\ card = "none" /\ payState = "unpaid"
    /\ log = [payment |-> 0, refund |-> 0, refund_reversed |-> 0,
              adjustment |-> 0, adjustment_reversed |-> 0]
    /\ ask = [r \in Requests |-> Unasked]
    /\ refundOf = [r \in Requests |-> 0]
    /\ reversed = {}
    /\ comp = [c \in Comps |-> 0]
    /\ takenBack = [c \in Comps |-> 0]
    /\ reward \in {"none", "spent"}
    /\ once = {}
    /\ paidOut = [r \in Requests |-> 0]
    /\ pc = [w \in Workers |-> "idle"]
    /\ job = [w \in Workers |-> Blank]

-----------------------------------------------------------------------------
\* applyOrderAction: move an order through its lifecycle.

\* Read the row and decide.  A refused action ends here and changes nothing.
ReadAndDecide(w) ==
    /\ pc[w] = "idle"
    /\ \E kind \in Kinds \cap Ops, to \in Status :
        /\ Permits(kind, "staff", status, to)
        /\ Goto(w, "move",
                [Blank EXCEPT !.seen = status, !.to = to,
                    !.refund = (kind = "cancel" /\ payState = "paid")])
    /\ UNCHANGED <<status, payState, rowVars, reward, once, provVars>>

\* Mutant: the UPDATE carries no WHERE on the status.
Unmoved_Always(w) == TRUE

\* The compare-and-set: the row still has the status read above.
Unmoved(w) == status = job[w].seen

\* settleRedemptionForOrder
SettledReward(to) == IF reward = "none" THEN "none" ELSE RewardOutcome(to)

\* The transaction: compare-and-set on the status, then the rows that must
\* land with it.  Losing the race writes nothing.
CommitMove(w) ==
    /\ pc[w] = "move"
    /\ LET j == job[w] IN
       \/ /\ ~Unmoved(w)
          /\ Done(w)
          /\ UNCHANGED <<status, ask, reward, once>>
       \/ /\ Unmoved(w)
          /\ status' = j.to
          /\ IF j.refund
             THEN /\ \E r \in Requests : /\ ask[r] = Unasked
                                        /\ ask' = [ask EXCEPT ![r] = All]
                  /\ Goto(w, "find", [Blank EXCEPT !.to = j.to])
             ELSE /\ ask' = ask
                  /\ Goto(w, "hold", [Blank EXCEPT !.to = j.to])
          /\ reward' = SettledReward(j.to)
          /\ once' = once \cup (IF SalesRoleOf(j.to) = "sold" THEN {"earn"} ELSE {})
                          \cup (IF j.to = "ready" THEN {"ready_sms"} ELSE {})
    /\ UNCHANGED <<payState, log, hold, refundOf, reversed, comp, takenBack,
                   provVars>>

-----------------------------------------------------------------------------
\* settleRefund: the automatic attempt after a cancellation (job.to is set),
\* the attempt of a deliberate refund (job.row is set) and the retry button,
\* which names the request its screen showed, or none.

RetryRefund(w) ==
    /\ Starts(w, "retryRefund")
    /\ \E r \in {q \in Requests : ask[q] # Unasked} \cup {NoRow} :
          Goto(w, "find", [Blank EXCEPT !.row = r])
    /\ UNCHANGED <<status, payState, rowVars, reward, once, provVars>>

\* After a cancellation's attempt the same request goes on to the hold.
AfterRefund(w) ==
    IF job[w].to = NoStatus THEN Done(w)
    ELSE Goto(w, "hold", [Blank EXCEPT !.to = job[w].to])

Candidates(w) == IF job[w].row = NoRow THEN Pending ELSE Pending \cap {job[w].row}
Asked(r)      == IF ask[r] = All THEN Collected ELSE ask[r]

FindRefund(w) ==
    /\ pc[w] = "find"
    /\ \/ Candidates(w) = {} /\ AfterRefund(w)
       \/ \E r \in Candidates(w) :
             IF Collected > 0 /\ Asked(r) <= Collected
             THEN Goto(w, "send", [job[w] EXCEPT !.row = r, !.amt = Asked(r)])
             ELSE AfterRefund(w)
    /\ UNCHANGED <<status, payState, rowVars, reward, once, provVars>>

\* The processor (external), asked to send `amt` under key r: a key it has
\* used before is answered with what was done then.
Sends(r, amt) == paidOut' = [paidOut EXCEPT ![r] = IF @ = 0 THEN amt ELSE @]
Declines(r)   == paidOut[r] = 0 /\ paidOut' = paidOut

\* The provider call, keyed by the request's id.  A call that throws leaves a
\* refund_failed row and the request pending.
SendRefund(w) ==
    LET r == job[w].row IN
    /\ pc[w] = "send"
    /\ \/ Sends(r, job[w].amt) /\ Goto(w, "bookRefund", job[w])
       \/ Declines(r) /\ AfterRefund(w)
       \/ /\ NetworkFails
          /\ Sends(r, job[w].amt) \/ paidOut' = paidOut
          /\ AfterRefund(w)
    /\ UNCHANGED <<status, payState, rowVars, reward, once, card>>

\* Mutant: the log is read before the refund row is inserted.
BookRefund_Early(w) ==
    /\ pc[w] = "bookRefund"
    /\ Goto(w, "commitRefund",
            [job[w] EXCEPT !.col = Derive(Captured, log.refund, Authorized)])
    /\ UNCHANGED <<status, payState, rowVars, reward, once, provVars>>

\* The transaction's insert and its re-read of the log: the rows committed by
\* now and its own.
BookRefund(w) ==
    /\ pc[w] = "bookRefund"
    /\ Goto(w, "commitRefund",
            [job[w] EXCEPT !.col = Derive(Captured, log.refund + job[w].amt, Authorized)])
    /\ UNCHANGED <<status, payState, rowVars, reward, once, provVars>>

\* Its UPDATE and commit, unless the unique index on the request refuses it.
CommitRefund(w) ==
    LET r == job[w].row IN
    /\ pc[w] = "commitRefund"
    /\ \/ refundOf[r] # 0 /\ UNCHANGED <<payState, log, refundOf>>
       \/ /\ refundOf[r] = 0
          /\ refundOf' = [refundOf EXCEPT ![r] = job[w].amt]
          /\ log' = [log EXCEPT !.refund = @ + job[w].amt]
          /\ payState' = job[w].col
    /\ AfterRefund(w)
    /\ UNCHANGED <<status, hold, ask, reversed, comp, takenBack, reward, once,
                   provVars>>

-----------------------------------------------------------------------------
\* settleAuthorization: the automatic attempt after a transition, for the
\* status that transition wrote (job.to), and the retry of a stuck hold.

RetryHold(w) ==
    /\ Starts(w, "retryHold")
    /\ Goto(w, "hold", [Blank EXCEPT !.to = status])
    /\ UNCHANGED <<status, payState, rowVars, reward, once, provVars>>

\* Mutant: the settlement is recorded without calling the processor.
FindHold_NoCall(w) ==
    /\ pc[w] = "hold"
    /\ LET outcome == HoldOutcome(job[w].to) IN
       IF outcome # "keep" /\ hold = "open"
       THEN Goto(w, "bookHold", [job[w] EXCEPT !.settle = outcome])
       ELSE Done(w)
    /\ UNCHANGED <<status, payState, rowVars, reward, once, provVars>>

FindHold(w) ==
    /\ pc[w] = "hold"
    /\ LET outcome == HoldOutcome(job[w].to) IN
       IF outcome # "keep" /\ hold = "open"
       THEN Goto(w, "charge", [job[w] EXCEPT !.settle = outcome])
       ELSE Done(w)
    /\ UNCHANGED <<status, payState, rowVars, reward, once, provVars>>

\* The processor (external), asked to capture or release the hold.  It
\* repeats an answer it gave before and never undoes one.
Settled(w) == IF job[w].settle = "capture" THEN "captured" ELSE "released"
Acts(w)    == card \in {"held", Settled(w)} /\ card' = Settled(w)
Refuses(w) == card # Settled(w) /\ card' = card

\* The provider call, keyed by the hold.  A capture that throws goes on to
\* write a void; a void that throws writes nothing.
ChargeCard(w) ==
    /\ pc[w] = "charge"
    /\ \/ Acts(w) /\ Goto(w, "bookHold", job[w])
       \/ /\ \/ Refuses(w)
             \/ NetworkFails /\ (Acts(w) \/ card' = card)
          /\ IF job[w].settle = "capture"
             THEN Goto(w, "bookHold", [job[w] EXCEPT !.settle = "void"])
             ELSE Done(w)
    /\ UNCHANGED <<status, payState, rowVars, reward, once, paidOut>>

\* Mutant: the column is derived without the row that settles the hold.
BookHold_Early(w) ==
    /\ pc[w] = "bookHold"
    /\ Goto(w, "commitHold",
            [job[w] EXCEPT !.col = Derive(Captured, log.refund, Authorized)])
    /\ UNCHANGED <<status, payState, rowVars, reward, once, provVars>>

BookHold(w) ==
    LET taken == job[w].settle = "capture" IN
    /\ pc[w] = "bookHold"
    /\ Goto(w, "commitHold",
            [job[w] EXCEPT !.col =
                Derive(Captured + (IF taken THEN Total ELSE 0), log.refund,
                       Minus(Authorized, Total))])
    /\ UNCHANGED <<status, payState, rowVars, reward, once, provVars>>

\* Mutant: no unique index keeps a hold from being settled twice.
CommitHold_Twice(w) ==
    /\ pc[w] = "commitHold"
    /\ hold' = IF job[w].settle = "capture" THEN "captured" ELSE "voided"
    /\ payState' = job[w].col
    /\ Done(w)
    /\ UNCHANGED <<status, log, ask, refundOf, reversed, comp, takenBack,
                   reward, once, provVars>>

CommitHold(w) ==
    /\ pc[w] = "commitHold"
    /\ \/ hold # "open" /\ UNCHANGED <<payState, hold>>
       \/ /\ hold = "open"
          /\ hold' = IF job[w].settle = "capture" THEN "captured" ELSE "voided"
          /\ payState' = job[w].col
    /\ Done(w)
    /\ UNCHANGED <<status, log, ask, refundOf, reversed, comp, takenBack,
                   reward, once, provVars>>

-----------------------------------------------------------------------------
\* collectOrderPayment: money at the counter.

ReadBalance(w) ==
    /\ Starts(w, "collect")
    /\ CanCollect(status, Outstanding)
    /\ Goto(w, "collect", [Blank EXCEPT !.amt = Outstanding])
    /\ UNCHANGED <<status, payState, rowVars, reward, once, provVars>>

\* Mutant: the UPDATE carries no WHERE on the column.
CommitPayment_Always(w) ==
    /\ pc[w] = "collect"
    /\ payState' = "paid"
    /\ log' = [log EXCEPT !.payment = @ + job[w].amt]
    /\ Done(w)
    /\ UNCHANGED <<status, hold, ask, refundOf, reversed, comp, takenBack,
                   reward, once, provVars>>

\* The transaction: compare-and-set on the column, and the payment row for
\* the amount read above.
CommitPayment(w) ==
    /\ pc[w] = "collect"
    /\ \/ payState # "unpaid" /\ UNCHANGED <<payState, log>>
       \/ /\ payState = "unpaid" /\ payState' = "paid"
          /\ log' = [log EXCEPT !.payment = @ + job[w].amt]
    /\ Done(w)
    /\ UNCHANGED <<status, hold, ask, refundOf, reversed, comp, takenBack,
                   reward, once, provVars>>

-----------------------------------------------------------------------------
\* adjustOrder: a comp or a partial comp, and the reversal of one, by as much
\* as is left.
AdjustsBy     == 1..Adjustable
PutsBackBy(c) == 1..CompLeft(c)

ReadAdjustable(w) ==
    /\ Starts(w, "adjust")
    /\ \E a \in AdjustsBy : Goto(w, "adjust", [Blank EXCEPT !.amt = a])
    /\ UNCHANGED <<status, payState, rowVars, reward, once, provVars>>

WriteAdjustment(w) ==
    /\ pc[w] = "adjust"
    /\ \E c \in Comps : /\ comp[c] = 0
                       /\ comp' = [comp EXCEPT ![c] = job[w].amt]
    /\ log' = [log EXCEPT !.adjustment = @ + job[w].amt]
    /\ Done(w)
    /\ UNCHANGED <<status, payState, hold, ask, refundOf, reversed, takenBack,
                   reward, once, provVars>>

ReadComp(w) ==
    /\ Starts(w, "unadjust")
    /\ \E c \in Comps : \E a \in PutsBackBy(c) :
          Goto(w, "unadjust", [Blank EXCEPT !.row = c, !.amt = a])
    /\ UNCHANGED <<status, payState, rowVars, reward, once, provVars>>

WriteReversal(w) ==
    /\ pc[w] = "unadjust"
    /\ takenBack' = [takenBack EXCEPT ![job[w].row] = @ + job[w].amt]
    /\ log' = [log EXCEPT !.adjustment_reversed = @ + job[w].amt]
    /\ Done(w)
    /\ UNCHANGED <<status, payState, hold, ask, refundOf, reversed, comp,
                   reward, once, provVars>>

-----------------------------------------------------------------------------
\* requestRefund, by as much as is held while none is pending, and
\* reverseRefund.
RefundsBy == IF Pending = {} THEN 1..Collected ELSE {}

ReadRefundable(w) ==
    /\ Starts(w, "refund")
    /\ \E a \in RefundsBy : Goto(w, "ask", [Blank EXCEPT !.amt = a])
    /\ UNCHANGED <<status, payState, rowVars, reward, once, provVars>>

WriteRequest(w) ==
    /\ pc[w] = "ask"
    /\ \E r \in Requests :
          /\ ask[r] = Unasked
          /\ ask' = [ask EXCEPT ![r] = job[w].amt]
          /\ Goto(w, "find", [Blank EXCEPT !.row = r])
    /\ UNCHANGED <<status, payState, log, hold, refundOf, reversed, comp,
                   takenBack, reward, once, provVars>>

ReadRefund(w) ==
    /\ Starts(w, "unrefund")
    /\ \E r \in Reversible :
          Goto(w, "unrefund", [Blank EXCEPT !.row = r, !.amt = refundOf[r]])
    /\ UNCHANGED <<status, payState, rowVars, reward, once, provVars>>

\* A second reversal of the same refund is refused by its unique index.
WriteRefundReversal(w) ==
    LET r == job[w].row IN
    /\ pc[w] = "unrefund"
    /\ \/ r \in reversed /\ UNCHANGED <<log, reversed>>
       \/ /\ r \notin reversed
          /\ reversed' = reversed \cup {r}
          /\ log' = [log EXCEPT !.refund_reversed = @ + job[w].amt]
    /\ Done(w)
    /\ UNCHANGED <<status, payState, hold, ask, refundOf, comp, takenBack,
                   reward, once, provVars>>

-----------------------------------------------------------------------------
\* The process serving a request dies: what was committed stays, what the
\* processor did stays, an open transaction rolls back.
Crash(w) ==
    /\ pc[w] # "idle"
    /\ Done(w)
    /\ UNCHANGED <<status, payState, rowVars, reward, once, provVars>>

Step(w) ==
    \/ CommitMove(w)
    \/ FindRefund(w) \/ SendRefund(w) \/ BookRefund(w) \/ CommitRefund(w)
    \/ FindHold(w) \/ ChargeCard(w) \/ BookHold(w) \/ CommitHold(w)
    \/ CommitPayment(w)
    \/ WriteAdjustment(w) \/ WriteReversal(w)
    \/ WriteRequest(w) \/ WriteRefundReversal(w)

Start(w) ==
    \/ ReadAndDecide(w) \/ RetryRefund(w) \/ RetryHold(w) \/ ReadBalance(w)
    \/ ReadAdjustable(w) \/ ReadComp(w) \/ ReadRefundable(w) \/ ReadRefund(w)

Next == \E w \in Workers : Start(w) \/ Step(w) \/ Crash(w)

Spec == Init /\ [][Next]_vars

-----------------------------------------------------------------------------
\* What must hold however requests interleave, fail and crash.

\* The log never shows more taken from the customer than the order's total: a
\* capture and a counter payment never both land.
ChargedAtMostOnce == Captured <= Total

\* Of the customer's card and purse rather than of the log: the counter takes
\* money beside a captured card only where the log calls the hold released,
\* that is after a capture whose answer was an error.
PaidTwiceOnlyIfVoided ==
    card = "captured" /\ log.payment > 0 => hold = "voided"

\* An unsettled hold is exactly what the cached column calls authorized, so
\* the stuck-hold list, which asks the column, misses none and invents none.
HoldIffAuthorized == hold = "open" <=> payState = "authorized"

\* The log claims no money movement the processor did not make, even when
\* two requests settle the same row or a process dies in between.
LogMatchesProvider ==
    /\ hold = "captured" => card = "captured"
    /\ \A r \in Requests : refundOf[r] > 0 => paidOut[r] > 0

\* Money is captured only for an order that was handed over at some time.
CapturedWasSold == hold = "captured" => "earn" \in once

\* A reward spent at checkout is with the customer exactly while the order
\* stands: returned by a cancellation or a no-show, taken again by an undo.
RewardFollowsStatus == reward # "none" => reward = RewardOutcome(status)

\* The status moves only as the lifecycle permits from where it really is,
\* though every request decides on a status it read earlier.
L == INSTANCE Lifecycle
FollowsLifecycle == L!Spec

\* Why they hold: each is kept by what a request carries from a statement to
\* the next.  The conjunction is inductive (OrderMoney_proofs).

\* Money already taken never becomes untaken, and refunds follow takings.
TakenInv ==
    /\ payState \in {"unpaid", "authorized"} => Captured = 0
    /\ log.refund_reversed > 0 => Captured > 0
    /\ \A r \in Requests : refundOf[r] > 0 => Captured > 0
    /\ \A w \in Workers :
        /\ pc[w] \in {"send", "bookRefund", "commitRefund", "unrefund"} => Captured > 0
        /\ pc[w] = "collect" => job[w].amt <= Total \/ Captured > 0
        /\ pc[w] = "commitRefund" => job[w].col \in {"paid", "refunded"}
        /\ pc[w] = "commitHold" /\ hold = "open" =>
             IF job[w].settle = "capture" THEN job[w].col \in {"paid", "refunded"}
                                          ELSE job[w].col = "unpaid"

\* A request about to record a movement has had the processor make it.
ProviderInv ==
    \A w \in Workers :
        /\ pc[w] \in {"bookRefund", "commitRefund"} => paidOut[job[w].row] > 0
        /\ pc[w] \in {"bookHold", "commitHold"} /\ job[w].settle = "capture" =>
             card = "captured"

\* A request that captures comes from a transition into a sold state.
SoldInv ==
    /\ status = "picked_up" => "earn" \in once
    /\ \A w \in Workers :
        /\ pc[w] # "move" /\ job[w].to = "picked_up" => "earn" \in once
        /\ pc[w] \in {"charge", "bookHold", "commitHold"} /\ job[w].settle = "capture" =>
             "earn" \in once

\* A request about to write a status decided it by the table; one about to
\* send, book or reverse a refund has a request row and an amount.
JobInv ==
    \A w \in Workers :
        /\ pc[w] = "move" =>
             /\ job[w].seen \in Status
             /\ \E kind \in Kinds : Permits(kind, "staff", job[w].seen, job[w].to)
        /\ pc[w] \in {"send", "bookRefund", "commitRefund", "unrefund"} =>
             job[w].row \in Requests /\ job[w].amt > 0

IInv ==
    /\ TypeOK /\ JobInv
    /\ ChargedAtMostOnce /\ HoldIffAuthorized /\ TakenInv
    /\ LogMatchesProvider /\ ProviderInv
    /\ CapturedWasSold /\ SoldInv
    /\ RewardFollowsStatus

-----------------------------------------------------------------------------
\* What two requests for one order can spoil, and which two.

\* A refund between its look at the log and its row in it.
Sending == {"send", "bookRefund", "commitRefund"}

\* Two requests settle different refunds of the order, both at these steps.
TwoRefunds(steps) ==
    \E v, w \in Workers : /\ pc[v] \in steps /\ pc[w] \in steps
                          /\ job[v].row # job[w].row

\* A cancellation that read a column owing nothing back, not yet written.
Cancelling(w) == pc[w] = "move" /\ job[w].to = "cancelled" /\ ~job[w].refund

\* Money on its way in: a payment at the counter, or the hold's capture.
Taking(w) ==
    \/ pc[w] = "collect"
    \/ pc[w] = "hold" /\ HoldOutcome(job[w].to) = "capture"
    \/ pc[w] \in {"charge", "bookHold", "commitHold"} /\ job[w].settle = "capture"

CancelMeetsTaking == \E v, w \in Workers : Cancelling(v) /\ Taking(w)

\* The cached column is what the log derives, while no two transactions that
\* book different refunds overlap.
ColumnMatchesLog == payState = Derive(Captured, log.refund, Authorized)
=============================================================================
