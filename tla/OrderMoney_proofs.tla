------------------------- MODULE OrderMoney_proofs -------------------------
(***************************************************************************)
(* Proofs about OrderMoney for any number of concurrent requests, any      *)
(* order total and any processor behaviour.  The last sections are about   *)
(* the cached column, the report's split and the money lists, each with    *)
(* the one overlap of two requests that can spoil it.                      *)
(***************************************************************************)
EXTENDS OrderScreens, Folds, FiniteSetTheorems, TLAPS

USE DEF rowVars, provVars, Starts, AdjustsBy, PutsBackBy, RefundsBy

-----------------------------------------------------------------------------
\* Lemmas about the operators the code reads the log with.

\* Whatever the log holds, derivePaymentState answers one of the four states.
LEMMA DeriveType ==
    ASSUME NEW a, NEW b, NEW c PROVE Derive(a, b, c) \in PayStates
BY DEF Derive, PayStates

\* The clamped difference is a natural number no larger than its first term.
LEMMA MinusType ==
    ASSUME NEW a \in Nat, NEW b \in Nat
    PROVE  Minus(a, b) \in Nat /\ Minus(a, b) <= a
BY DEF Minus

\* The figures of a balance are natural numbers.
LEMMA BalanceType ==
    ASSUME TypeOK
    PROVE  /\ Captured \in Nat /\ Authorized \in Nat /\ Adjusted \in Nat
           /\ Collected \in Nat /\ Outstanding \in Nat /\ Adjustable \in Nat
           /\ \A c \in Comps : CompLeft(c) \in Nat
BY TotalAssumption
DEF TypeOK, Captured, Authorized, Adjusted, Collected, Outstanding, Adjustable,
    CompLeft, Minus

\* Money is held only where money was taken.
LEMMA CollectedNeedsCaptured ==
    ASSUME TypeOK, Collected > 0 PROVE Captured > 0
BY BalanceType DEF TypeOK, Collected, Captured, Minus

\* A permitted move ends in a status.
LEMMA PermitsStatus ==
    ASSUME NEW kind, NEW from \in Status, NEW to, Permits(kind, "staff", from, to)
    PROVE  to \in Status
BY DEF Permits, NextOf, PreviousOf, Status, NoStatus

-----------------------------------------------------------------------------
\* Type correctness.

\* An idle worker carries a well-typed job.
LEMMA BlankType == Blank \in Jobs
BY DEF Blank, Jobs, PayStates

\* Moving a worker on keeps the types, if what it carries is a job.
LEMMA GotoType ==
    ASSUME TypeOK, NEW w \in Workers, NEW s \in Steps, NEW j \in Jobs,
           Goto(w, s, j)
    PROVE  pc' \in [Workers -> Steps] /\ job' \in [Workers -> Jobs]
BY DEF TypeOK, Goto

\* Ending a request keeps the types.
LEMMA DoneType ==
    ASSUME TypeOK, NEW w \in Workers, Done(w)
    PROVE  pc' \in [Workers -> Steps] /\ job' \in [Workers -> Jobs]
BY BlankType, GotoType DEF Done, Steps

\* So does going on from a refund attempt to the hold.
LEMMA AfterRefundType ==
    ASSUME TypeOK, NEW w \in Workers, AfterRefund(w)
    PROVE  pc' \in [Workers -> Steps] /\ job' \in [Workers -> Jobs]
<1>1. CASE job[w].to = NoStatus
  BY <1>1, DoneType DEF AfterRefund
<1>2. CASE job[w].to # NoStatus
  <2>1. [Blank EXCEPT !.to = job[w].to] \in Jobs
    BY BlankType DEF TypeOK, Jobs, Blank
  <2>2. Goto(w, "hold", [Blank EXCEPT !.to = job[w].to])
    BY <1>2 DEF AfterRefund
  <2> QED BY <2>1, <2>2, GotoType DEF Steps
<1> QED BY <1>1, <1>2

\* A new order is well typed.
LEMMA TypeInit == Init => TypeOK
BY BlankType DEF Init, TypeOK, Steps, PayStates, Status, Unasked

\* A worker's job with some fields replaced is still a job.
LEMMA JobUpdate ==
    ASSUME TypeOK, NEW w \in Workers
    PROVE  /\ \A r \in Requests \cup Comps \cup {NoRow}, a \in Nat :
                /\ [Blank EXCEPT !.row = r, !.amt = a] \in Jobs
                /\ [Blank EXCEPT !.row = r] \in Jobs
                /\ [Blank EXCEPT !.amt = a] \in Jobs
                /\ [job[w] EXCEPT !.row = r, !.amt = a] \in Jobs
           /\ \A s, t \in Status, b \in BOOLEAN :
                /\ [Blank EXCEPT !.seen = s, !.to = t, !.refund = b] \in Jobs
                /\ [Blank EXCEPT !.to = t] \in Jobs
           /\ \A c \in PayStates : [job[w] EXCEPT !.col = c] \in Jobs
           /\ \A o \in {"capture", "void"} : [job[w] EXCEPT !.settle = o] \in Jobs
           /\ job[w] \in Jobs
BY BlankType DEF TypeOK, Jobs

\* What the fields of a new or updated job read.
LEMMA BlankFields ==
    ASSUME NEW s, NEW t, NEW b, NEW r, NEW a
    PROVE  /\ Blank.to = NoStatus /\ Blank.row = NoRow /\ Blank.amt = 0
           /\ [Blank EXCEPT !.to = t].to = t
           /\ [Blank EXCEPT !.seen = s, !.to = t, !.refund = b].seen = s
           /\ [Blank EXCEPT !.seen = s, !.to = t, !.refund = b].to = t
           /\ [Blank EXCEPT !.row = r, !.amt = a].row = r
           /\ [Blank EXCEPT !.row = r, !.amt = a].amt = a
           /\ [Blank EXCEPT !.row = r, !.amt = a].to = NoStatus
           /\ [Blank EXCEPT !.row = r].to = NoStatus
           /\ [Blank EXCEPT !.amt = a].to = NoStatus
           /\ [Blank EXCEPT !.amt = a].amt = a
BY DEF Blank

\* The same of a job a worker already carries.
LEMMA JobFields ==
    ASSUME NEW j \in Jobs, NEW r, NEW a, NEW c, NEW o
    PROVE  /\ [j EXCEPT !.row = r, !.amt = a].row = r
           /\ [j EXCEPT !.row = r, !.amt = a].amt = a
           /\ [j EXCEPT !.row = r, !.amt = a].to = j.to
           /\ [j EXCEPT !.col = c].row = j.row
           /\ [j EXCEPT !.col = c].amt = j.amt
           /\ [j EXCEPT !.col = c].to = j.to
           /\ [j EXCEPT !.col = c].col = c
           /\ [j EXCEPT !.col = c].settle = j.settle
           /\ [j EXCEPT !.settle = o].settle = o
           /\ [j EXCEPT !.settle = o].to = j.to
BY DEF Jobs

-----------------------------------------------------------------------------
\* What a step makes of the worker that takes it, and leaves of the others.

\* Moving a worker on sets its counter and job and no other worker's.
LEMMA GotoFrame ==
    ASSUME TypeOK, NEW w \in Workers, NEW s, NEW j, Goto(w, s, j)
    PROVE  /\ pc'[w] = s /\ job'[w] = j
           /\ \A x \in Workers : x # w => pc'[x] = pc[x] /\ job'[x] = job[x]
BY DEF TypeOK, Goto

\* Ending a request clears its worker and no other.
LEMMA DoneFrame ==
    ASSUME TypeOK, NEW w \in Workers, Done(w)
    PROVE  /\ pc'[w] = "idle" /\ job'[w] = Blank
           /\ \A x \in Workers : x # w => pc'[x] = pc[x] /\ job'[x] = job[x]
BY GotoFrame DEF Done

\* After a refund attempt the worker is idle, or at the hold with its status.
LEMMA AfterRefundFrame ==
    ASSUME TypeOK, NEW w \in Workers, AfterRefund(w)
    PROVE  /\ \/ pc'[w] = "idle" /\ job'[w] = Blank
              \/ pc'[w] = "hold" /\ job'[w] = [Blank EXCEPT !.to = job[w].to]
           /\ \A x \in Workers : x # w => pc'[x] = pc[x] /\ job'[x] = job[x]
BY GotoFrame, DoneFrame DEF AfterRefund

\* Every step keeps the types.
LEMMA TypeStep == TypeOK /\ JobInv /\ [Next]_vars => TypeOK'
<1> SUFFICES ASSUME TypeOK, JobInv, [Next]_vars PROVE TypeOK'
  OBVIOUS
<1> DEFINE SameRows == UNCHANGED <<status, payState, rowVars, reward, once, provVars>>
           SameJobs == pc' \in [Workers -> Steps] /\ job' \in [Workers -> Jobs]
<1>1. SameRows /\ SameJobs => TypeOK'
  BY DEF TypeOK
<1>2. ASSUME NEW w \in Workers, Start(w) PROVE TypeOK'
  <2>1. CASE ReadAndDecide(w)
    <3> PICK kind \in Kinds \cap Ops, to \in Status :
           Goto(w, "move", [Blank EXCEPT !.seen = status, !.to = to,
                              !.refund = (kind = "cancel" /\ payState = "paid")])
      BY <2>1 DEF ReadAndDecide
    <3> DEFINE b == kind = "cancel" /\ payState = "paid"
    <3>1. b \in BOOLEAN
      OBVIOUS
    <3>2. [Blank EXCEPT !.seen = status, !.to = to, !.refund = b] \in Jobs
      <4> HIDE DEF b
      <4> QED BY <3>1, JobUpdate DEF TypeOK
    <3>3. SameJobs
      BY <3>2, GotoType DEF Steps
    <3> QED BY <2>1, <3>3, <1>1 DEF ReadAndDecide
  <2>2. CASE RetryRefund(w)
    <3>1. SameJobs
      BY <2>2, JobUpdate, GotoType DEF RetryRefund, Steps
    <3> QED BY <2>2, <3>1, <1>1 DEF RetryRefund
  <2>3. CASE RetryHold(w)
    <3>1. SameJobs
      BY <2>3, JobUpdate, GotoType DEF RetryHold, Steps, TypeOK
    <3> QED BY <2>3, <3>1, <1>1 DEF RetryHold
  <2>4. CASE ReadBalance(w)
    <3>1. [Blank EXCEPT !.amt = Outstanding] \in Jobs
      BY JobUpdate, BalanceType
    <3>2. SameJobs
      BY <2>4, <3>1, GotoType DEF ReadBalance, Steps
    <3> QED BY <2>4, <3>2, <1>1 DEF ReadBalance
  <2>5. CASE ReadAdjustable(w)
    <3> PICK a \in 1..Adjustable : Goto(w, "adjust", [Blank EXCEPT !.amt = a])
      BY <2>5 DEF ReadAdjustable
    <3>1. a \in Nat
      BY BalanceType
    <3>2. [Blank EXCEPT !.amt = a] \in Jobs
      BY <3>1, JobUpdate
    <3>3. SameJobs
      BY <3>2, GotoType DEF Steps
    <3> QED BY <2>5, <3>3, <1>1 DEF ReadAdjustable
  <2>6. CASE ReadComp(w)
    <3> PICK c \in Comps :
           \E a \in 1..CompLeft(c) : Goto(w, "unadjust", [Blank EXCEPT !.row = c, !.amt = a])
      BY <2>6 DEF ReadComp
    <3> PICK a \in 1..CompLeft(c) : Goto(w, "unadjust", [Blank EXCEPT !.row = c, !.amt = a])
      OBVIOUS
    <3>1. a \in Nat
      BY BalanceType
    <3>2. [Blank EXCEPT !.row = c, !.amt = a] \in Jobs
      BY <3>1, JobUpdate
    <3>3. SameJobs
      BY <3>2, GotoType DEF Steps
    <3> QED BY <2>6, <3>3, <1>1 DEF ReadComp
  <2>7. CASE ReadRefundable(w)
    <3> PICK a \in Nat : Goto(w, "ask", [Blank EXCEPT !.amt = a])
      BY <2>7, BalanceType DEF ReadRefundable
    <3>1. [Blank EXCEPT !.amt = a] \in Jobs
      BY JobUpdate
    <3>2. SameJobs
      BY <3>1, GotoType DEF Steps
    <3> QED BY <2>7, <3>2, <1>1 DEF ReadRefundable
  <2>8. CASE ReadRefund(w)
    <3> PICK r \in Requests : Goto(w, "unrefund", [Blank EXCEPT !.row = r, !.amt = refundOf[r]])
      BY <2>8 DEF ReadRefund, Reversible
    <3>1. [Blank EXCEPT !.row = r, !.amt = refundOf[r]] \in Jobs
      BY JobUpdate DEF TypeOK
    <3>2. SameJobs
      BY <3>1, GotoType DEF Steps
    <3> QED BY <2>8, <3>2, <1>1 DEF ReadRefund
  <2> QED BY <1>2, <2>1, <2>2, <2>3, <2>4, <2>5, <2>6, <2>7, <2>8 DEF Start
<1>3. ASSUME NEW w \in Workers, Step(w) PROVE TypeOK'
  <2> DEFINE j == job[w]
  <2>0. /\ j.amt \in Nat /\ j.col \in PayStates /\ j.row \in Requests \cup Comps \cup {NoRow}
        /\ j.settle \in {"capture", "void"} /\ j.to \in Status \cup {NoStatus}
    BY DEF TypeOK, Jobs
  <2>1. CASE CommitMove(w)
    <3>1. CASE status # j.seen
      <4>1. SameJobs
        BY <2>1, <3>1, DoneType DEF CommitMove, Unmoved
      <4> QED BY <2>1, <3>1, <4>1 DEF CommitMove, Unmoved, TypeOK
    <3>2. CASE status = j.seen
      <4>1. j.to \in Status
        BY <2>1, PermitsStatus DEF CommitMove, JobInv
      <4>2. [Blank EXCEPT !.to = j.to] \in Jobs
        BY <4>1, JobUpdate
      <4>3. SameJobs
        BY <2>1, <3>2, <4>2, GotoType DEF CommitMove, Unmoved, Steps
      <4>4. ask' \in [Requests -> Nat \cup {All}]
        BY <2>1, <3>2 DEF CommitMove, Unmoved, TypeOK
      <4>5. reward' \in {"none", "spent", "returned"} /\ once' \subseteq {"earn", "ready_sms"}
        BY <2>1, <3>2 DEF CommitMove, TypeOK, Unmoved, SettledReward, RewardOutcome
      <4>6. status' = j.to
        BY <2>1, <3>2 DEF CommitMove, Unmoved
      <4>7. UNCHANGED <<payState, log, hold, refundOf, reversed, comp, takenBack, provVars>>
        BY <2>1 DEF CommitMove
      <4> QED BY <4>1, <4>3, <4>4, <4>5, <4>6, <4>7 DEF TypeOK
    <3> QED BY <3>1, <3>2
  <2>2. CASE FindRefund(w)
    <3>1. ASSUME NEW r \in Candidates(w), Asked(r) <= Collected
          PROVE  [job[w] EXCEPT !.row = r, !.amt = Asked(r)] \in Jobs
      <4>1. r \in Requests /\ Asked(r) \in Nat
        BY BalanceType DEF Candidates, Pending, Asked, TypeOK
      <4> QED BY <4>1, JobUpdate
    <3>2. SameJobs
      BY <2>2, <3>1, GotoType, AfterRefundType DEF FindRefund, Steps
    <3> QED BY <2>2, <3>2, <1>1 DEF FindRefund
  <2>3. CASE SendRefund(w)
    <3>1. SameJobs
      BY <2>3, JobUpdate, GotoType, AfterRefundType DEF SendRefund, Steps
    <3>2. paidOut' \in [Requests -> Nat]
      BY <2>3, <2>0 DEF SendRefund, Sends, Declines, TypeOK
    <3> QED BY <2>3, <3>1, <3>2 DEF SendRefund, TypeOK
  <2>4. CASE BookRefund(w)
    <3>1. SameJobs
      BY <2>4, JobUpdate, GotoType, DeriveType DEF BookRefund, Steps
    <3> QED BY <2>4, <3>1, <1>1 DEF BookRefund
  <2>5. CASE CommitRefund(w)
    <3>1. SameJobs
      BY <2>5, AfterRefundType DEF CommitRefund
    <3> QED BY <2>5, <2>0, <3>1 DEF CommitRefund, TypeOK
  <2>6. CASE FindHold(w)
    <3>1. HoldOutcome(j.to) # "keep" => [job[w] EXCEPT !.settle = HoldOutcome(j.to)] \in Jobs
      BY JobUpdate DEF HoldOutcome
    <3>2. SameJobs
      BY <2>6, <3>1, GotoType, DoneType DEF FindHold, Steps
    <3> QED BY <2>6, <3>2, <1>1 DEF FindHold
  <2>7. CASE ChargeCard(w)
    <3>1. [job[w] EXCEPT !.settle = "void"] \in Jobs /\ job[w] \in Jobs
      BY JobUpdate
    <3>2. SameJobs
      BY <2>7, <3>1, GotoType, DoneType DEF ChargeCard, Steps
    <3>3. card' \in {"none", "held", "captured", "released"}
      BY <2>7 DEF ChargeCard, Acts, Refuses, Settled, TypeOK
    <3> QED BY <2>7, <3>2, <3>3 DEF ChargeCard, TypeOK
  <2>8. CASE BookHold(w)
    <3>1. SameJobs
      BY <2>8, JobUpdate, GotoType, DeriveType DEF BookHold, Steps
    <3> QED BY <2>8, <3>1, <1>1 DEF BookHold
  <2>9. CASE CommitHold(w)
    <3>1. SameJobs
      BY <2>9, DoneType DEF CommitHold
    <3> QED BY <2>9, <2>0, <3>1 DEF CommitHold, TypeOK
  <2>10. CASE CommitPayment(w)
    <3>1. SameJobs
      BY <2>10, DoneType DEF CommitPayment
    <3> QED BY <2>10, <2>0, <3>1 DEF CommitPayment, TypeOK, PayStates
  <2>11. CASE WriteAdjustment(w)
    <3>1. SameJobs
      BY <2>11, DoneType DEF WriteAdjustment
    <3>2. comp' \in [Comps -> Nat]
      BY <2>11, <2>0 DEF WriteAdjustment, TypeOK
    <3>3. log' \in [payment : Nat, refund : Nat, refund_reversed : Nat,
                    adjustment : Nat, adjustment_reversed : Nat]
      BY <2>11, <2>0 DEF WriteAdjustment, TypeOK
    <3> QED BY <2>11, <3>1, <3>2, <3>3 DEF WriteAdjustment, TypeOK
  <2>12. CASE WriteReversal(w)
    <3>1. SameJobs
      BY <2>12, DoneType DEF WriteReversal
    <3>2. takenBack' \in [Comps -> Nat]
      <4>1. takenBack' = [takenBack EXCEPT ![j.row] = takenBack[j.row] + j.amt]
        BY <2>12 DEF WriteReversal
      <4>2. ASSUME NEW c \in Comps PROVE takenBack'[c] \in Nat
        BY <4>1, <2>0 DEF TypeOK
      <4> QED BY <4>1, <4>2 DEF TypeOK
    <3>3. log' \in [payment : Nat, refund : Nat, refund_reversed : Nat,
                    adjustment : Nat, adjustment_reversed : Nat]
      BY <2>12, <2>0 DEF WriteReversal, TypeOK
    <3> QED BY <2>12, <3>1, <3>2, <3>3 DEF WriteReversal, TypeOK
  <2>13. CASE WriteRequest(w)
    <3>1. SameJobs
      BY <2>13, JobUpdate, GotoType DEF WriteRequest, Steps
    <3> QED BY <2>13, <2>0, <3>1 DEF WriteRequest, TypeOK
  <2>14. CASE WriteRefundReversal(w)
    <3>1. SameJobs
      BY <2>14, DoneType DEF WriteRefundReversal
    <3>2. job[w].row \in Requests
      BY <2>14 DEF WriteRefundReversal, JobInv
    <3> QED BY <2>14, <2>0, <3>1, <3>2 DEF WriteRefundReversal, TypeOK
  <2> QED BY <1>3, <2>1, <2>2, <2>3, <2>4, <2>5, <2>6, <2>7, <2>8, <2>9, <2>10,
             <2>11, <2>12, <2>13, <2>14 DEF Step
<1>4. ASSUME NEW w \in Workers, Crash(w) PROVE TypeOK'
  BY <1>1, <1>4, DoneType DEF Crash
<1>5. CASE UNCHANGED vars
  BY <1>5, <1>1 DEF vars, TypeOK
<1> QED BY <1>2, <1>3, <1>4, <1>5 DEF Next

-----------------------------------------------------------------------------
\* What a request carries between its statements stays well formed.

\* Idle workers carry nothing that could be ill formed.
LEMMA JobInit == Init => JobInv
BY DEF Init, JobInv

\* Every step keeps the jobs well formed: only a permitted move reaches the
\* transaction, and only a real request with an amount reaches the processor.
LEMMA JobStep == TypeOK /\ JobInv /\ [Next]_vars => JobInv'
<1> SUFFICES ASSUME TypeOK, JobInv, [Next]_vars PROVE JobInv'
  OBVIOUS
<1> DEFINE OK(x) ==
      /\ pc[x] = "move" =>
           /\ job[x].seen \in Status
           /\ \E kind \in Kinds : Permits(kind, "staff", job[x].seen, job[x].to)
      /\ pc[x] \in {"send", "bookRefund", "commitRefund", "unrefund"} =>
           job[x].row \in Requests /\ job[x].amt > 0
<1>1. \A x \in Workers : OK(x)
  BY DEF JobInv
<1>2. (\A x \in Workers : OK(x)') => JobInv'
  BY DEF JobInv
<1>3. ASSUME NEW w \in Workers, OK(w)',
             \A x \in Workers : x # w => pc'[x] = pc[x] /\ job'[x] = job[x]
      PROVE  JobInv'
  <2>1. ASSUME NEW x \in Workers PROVE OK(x)'
    BY <1>1, <1>3
  <2> QED BY <2>1, <1>2
<1>4. ASSUME NEW w \in Workers, NEW s, NEW j, Goto(w, s, j),
             s \notin {"move", "send", "bookRefund", "commitRefund", "unrefund"}
      PROVE  JobInv'
  BY <1>3, <1>4, GotoFrame
<1>5. ASSUME NEW w \in Workers, Done(w) PROVE JobInv'
  BY <1>4, <1>5 DEF Done
<1>6. ASSUME NEW w \in Workers, AfterRefund(w) PROVE JobInv'
  BY <1>4, <1>5, <1>6 DEF AfterRefund
<1>7. ASSUME NEW w \in Workers, ReadAndDecide(w) PROVE JobInv'
  <2> PICK kind \in Kinds, to \in Status :
         /\ Permits(kind, "staff", status, to)
         /\ Goto(w, "move", [Blank EXCEPT !.seen = status, !.to = to,
                               !.refund = (kind = "cancel" /\ payState = "paid")])
    BY <1>7 DEF ReadAndDecide
  <2> DEFINE j == [Blank EXCEPT !.seen = status, !.to = to,
                      !.refund = (kind = "cancel" /\ payState = "paid")]
  <2>a. j.seen = status /\ j.to = to
    BY BlankFields
  <2>b. pc'[w] = "move" /\ job'[w] = j
    BY GotoFrame
  <2>1. pc'[w] = "move" /\ job'[w].seen = status /\ job'[w].to = to
    BY <2>a, <2>b
  <2>2. OK(w)'
    BY <2>1 DEF TypeOK
  <2> QED BY <1>3, <2>2, GotoFrame
<1>8. ASSUME NEW w \in Workers, ReadRefund(w) PROVE JobInv'
  <2> PICK r \in Reversible : Goto(w, "unrefund", [Blank EXCEPT !.row = r, !.amt = refundOf[r]])
    BY <1>8 DEF ReadRefund
  <2>1. pc'[w] = "unrefund" /\ job'[w].row = r /\ job'[w].amt = refundOf[r]
    <3>1. pc'[w] = "unrefund" /\ job'[w] = [Blank EXCEPT !.row = r, !.amt = refundOf[r]]
      BY GotoFrame
    <3> QED BY <3>1, BlankFields
  <2>2. OK(w)'
    BY <2>1 DEF Reversible
  <2> QED BY <1>3, <2>2, GotoFrame
<1>9. ASSUME NEW w \in Workers, FindRefund(w) PROVE JobInv'
  <2>1. CASE AfterRefund(w)
    BY <1>6, <2>1
  <2>2. CASE ~AfterRefund(w)
    <3> PICK r \in Candidates(w) :
           /\ Collected > 0
           /\ Goto(w, "send", [job[w] EXCEPT !.row = r, !.amt = Asked(r)])
      BY <1>9, <2>2 DEF FindRefund
    <3>1. r \in Requests /\ Asked(r) \in Nat /\ Asked(r) > 0
      BY BalanceType DEF Candidates, Pending, Asked, Unasked, TypeOK
    <3>2. job[w] \in Jobs
      BY DEF TypeOK
    <3>3. pc'[w] = "send" /\ job'[w].row = r /\ job'[w].amt = Asked(r)
      <4>1. pc'[w] = "send" /\ job'[w] = [job[w] EXCEPT !.row = r, !.amt = Asked(r)]
        BY GotoFrame
      <4> QED BY <3>2, <4>1, JobFields
    <3>4. OK(w)'
      BY <3>1, <3>3
    <3> QED BY <1>3, <3>4, GotoFrame
  <2> QED BY <2>1, <2>2
<1>10. ASSUME NEW w \in Workers, SendRefund(w) PROVE JobInv'
  <2>1. CASE AfterRefund(w)
    BY <1>6, <2>1
  <2>2. CASE Goto(w, "bookRefund", job[w])
    <3>1. OK(w)'
      BY <1>10, <2>2, <1>1, GotoFrame DEF SendRefund
    <3> QED BY <1>3, <2>2, <3>1, GotoFrame
  <2> QED BY <1>10, <2>1, <2>2 DEF SendRefund
<1>11. ASSUME NEW w \in Workers, BookRefund(w) PROVE JobInv'
  <2> DEFINE c == Derive(Captured, log.refund + job[w].amt, Authorized)
  <2>1. Goto(w, "commitRefund", [job[w] EXCEPT !.col = c])
    BY <1>11 DEF BookRefund
  <2>2. job[w] \in Jobs
    BY DEF TypeOK
  <2>3. pc'[w] = "commitRefund" /\ job'[w].row = job[w].row /\ job'[w].amt = job[w].amt
    <3> HIDE DEF c
    <3> QED BY <2>1, <2>2, GotoFrame DEF Jobs
  <2>4. OK(w)'
    BY <1>11, <1>1, <2>3 DEF BookRefund
  <2> QED BY <1>3, <2>1, <2>4, GotoFrame
<1>12. ASSUME NEW w \in Workers, WriteRequest(w) PROVE JobInv'
  <2> PICK r \in Requests : Goto(w, "find", [Blank EXCEPT !.row = r])
    BY <1>12 DEF WriteRequest
  <2> QED BY <1>4
<1>13. ASSUME NEW w \in Workers, Start(w) PROVE JobInv'
  <2>1. CASE RetryRefund(w)
    BY <1>4, <2>1, Zenon DEF RetryRefund
  <2>2. CASE RetryHold(w)
    BY <1>4, <2>2, Zenon DEF RetryHold
  <2>3. CASE ReadBalance(w)
    BY <1>4, <2>3, Zenon DEF ReadBalance
  <2>4. CASE ReadAdjustable(w)
    BY <1>4, <2>4, Zenon DEF ReadAdjustable
  <2>5. CASE ReadComp(w)
    <3> PICK c \in Comps :
           \E a \in 1..CompLeft(c) : Goto(w, "unadjust", [Blank EXCEPT !.row = c, !.amt = a])
      BY <2>5 DEF ReadComp
    <3> PICK a \in 1..CompLeft(c) : Goto(w, "unadjust", [Blank EXCEPT !.row = c, !.amt = a])
      OBVIOUS
    <3> QED BY <1>4
  <2>6. CASE ReadRefundable(w)
    BY <1>4, <2>6, Zenon DEF ReadRefundable
  <2> QED BY <1>7, <1>8, <1>13, <2>1, <2>2, <2>3, <2>4, <2>5, <2>6 DEF Start
<1>14. ASSUME NEW w \in Workers, Step(w) PROVE JobInv'
  <2>1. CASE CommitMove(w)
    <3>1. \/ Done(w) \/ Goto(w, "find", [Blank EXCEPT !.to = job[w].to])
          \/ Goto(w, "hold", [Blank EXCEPT !.to = job[w].to])
      BY <2>1, Zenon DEF CommitMove
    <3> QED BY <1>4, <1>5, <3>1
  <2>2. CASE FindHold(w)
    BY <1>4, <1>5, <2>2 DEF FindHold
  <2>3. CASE ChargeCard(w)
    BY <1>4, <1>5, <2>3 DEF ChargeCard
  <2>4. CASE BookHold(w)
    BY <1>4, <2>4 DEF BookHold
  <2>5. CASE CommitRefund(w)
    BY <1>6, <2>5 DEF CommitRefund
  <2>6. CASE CommitHold(w) \/ CommitPayment(w)
    BY <1>5, <2>6 DEF CommitHold, CommitPayment
  <2>7. CASE WriteAdjustment(w) \/ WriteReversal(w) \/ WriteRefundReversal(w)
    BY <1>5, <2>7 DEF WriteAdjustment, WriteReversal, WriteRefundReversal
  <2> QED BY <1>9, <1>10, <1>11, <1>12, <1>14, <2>1, <2>2, <2>3, <2>4, <2>5, <2>6,
             <2>7 DEF Step
<1>15. ASSUME NEW w \in Workers, Crash(w) PROVE JobInv'
  BY <1>5, <1>15 DEF Crash
<1>16. CASE UNCHANGED vars
  BY <1>16 DEF vars, JobInv
<1> QED BY <1>13, <1>14, <1>15, <1>16 DEF Next

\* Type correctness and well-formed jobs together, as the later steps need them.
LEMMA Typed == Spec => [](TypeOK /\ JobInv)
<1>1. Init => TypeOK /\ JobInv
  BY TypeInit, JobInit
<1>2. TypeOK /\ JobInv /\ [Next]_vars => TypeOK' /\ JobInv'
  BY TypeStep, JobStep
<1> QED BY <1>1, <1>2, PTL DEF Spec

\* Every reachable state is well typed: no interleaving, failure or crash
\* puts a value in a column, the log or a request that the code has no case for.
THEOREM TypeCorrect == Spec => []TypeOK
BY Typed, PTL

-----------------------------------------------------------------------------
\* The status, the reward and the once-only rows are written together, by the
\* transaction of a transition and by nothing else.
LEMMA StatusFrame ==
    ASSUME [Next]_vars, ~UNCHANGED <<status, reward, once>>
    PROVE  \E w \in Workers : CommitMove(w) /\ status = job[w].seen /\ status' = job[w].to
<1>1. ASSUME NEW w \in Workers, Start(w) PROVE UNCHANGED <<status, reward, once>>
  BY <1>1 DEF Start, ReadAndDecide, RetryRefund, RetryHold, ReadBalance,
              ReadAdjustable, ReadComp, ReadRefundable, ReadRefund
<1>2. ASSUME NEW w \in Workers, Step(w), ~CommitMove(w) PROVE UNCHANGED <<status, reward, once>>
  BY <1>2 DEF Step, FindRefund, SendRefund, BookRefund, CommitRefund, FindHold,
              ChargeCard, BookHold, CommitHold, CommitPayment, WriteAdjustment,
              WriteReversal, WriteRequest, WriteRefundReversal
<1>3. ASSUME NEW w \in Workers, Crash(w) PROVE UNCHANGED <<status, reward, once>>
  BY <1>3 DEF Crash
<1>4. UNCHANGED vars => UNCHANGED <<status, reward, once>>
  BY DEF vars
<1>5. PICK w \in Workers : CommitMove(w)
  BY <1>1, <1>2, <1>3, <1>4 DEF Next
<1> QED BY <1>5 DEF CommitMove, Unmoved

\* Every status write follows the lifecycle from the status really there, for
\* any number of requests that each decided on a status read earlier: OrderMoney
\* implements Lifecycle.
THEOREM LifecycleRefined == Spec => FollowsLifecycle
<1>1. Init => L!Init
  BY DEF Init, L!Init
<1>2. TypeOK /\ JobInv /\ [Next]_vars => [L!Next]_status
  <2> SUFFICES ASSUME TypeOK, JobInv, [Next]_vars, status' # status PROVE L!Next
    OBVIOUS
  <2>1. PICK w \in Workers : CommitMove(w) /\ status = job[w].seen /\ status' = job[w].to
    BY StatusFrame
  <2>2. PICK kind \in Kinds : Permits(kind, "staff", status, status')
    BY <2>1 DEF CommitMove, JobInv
  <2>3. status' \in Status
    BY <2>2, PermitsStatus DEF TypeOK
  <2> QED BY <2>2, <2>3
          DEF L!Next, L!Move, Kinds, Actors, Permits, NextOf, PreviousOf, Status,
              NoStatus, Terminal, CancellableByStaff, CancellableByCustomer, Abandonable,
              L!Kinds, L!Actors, L!Permits, L!NextOf, L!PreviousOf, L!Status,
              L!NoStatus, L!Terminal, L!CancellableByStaff, L!CancellableByCustomer,
              L!Abandonable
<1> QED BY <1>1, <1>2, Typed, PTL DEF Spec, FollowsLifecycle, L!Spec

\* Every step keeps the reward in line with the status.
LEMMA RewardStep == RewardFollowsStatus /\ [Next]_vars => RewardFollowsStatus'
<1> SUFFICES ASSUME RewardFollowsStatus, [Next]_vars PROVE RewardFollowsStatus'
  OBVIOUS
<1>1. CASE UNCHANGED <<status, reward, once>>
  BY <1>1 DEF RewardFollowsStatus, RewardOutcome, SalesRoleOf
<1>2. CASE ~UNCHANGED <<status, reward, once>>
  <2> PICK w \in Workers : CommitMove(w) /\ status = job[w].seen /\ status' = job[w].to
    BY <1>2, StatusFrame
  <2>1. reward' = IF reward = "none" THEN "none" ELSE RewardOutcome(job[w].to)
    BY DEF CommitMove, Unmoved, SettledReward
  <2> QED BY <2>1 DEF RewardFollowsStatus, RewardOutcome, SalesRoleOf
<1> QED BY <1>1, <1>2

\* A checkout reward is spent exactly while its order stands, through any
\* sequence of cancellations, no-shows and undos by concurrent requests.
THEOREM RewardCorrect == Spec => []RewardFollowsStatus
<1>1. Init => RewardFollowsStatus
  BY DEF Init, RewardFollowsStatus, RewardOutcome, SalesRoleOf
<1> QED BY <1>1, RewardStep, PTL DEF Spec

-----------------------------------------------------------------------------
\* Money is captured only for an order that was handed over.

\* The once-only rows are never deleted.
LEMMA OnceGrows == [Next]_vars => once \subseteq once'
<1> SUFFICES ASSUME [Next]_vars PROVE once \subseteq once'
  OBVIOUS
<1>1. CASE ~UNCHANGED <<status, reward, once>>
  <2> PICK w \in Workers : CommitMove(w) /\ status = job[w].seen /\ status' = job[w].to
    BY <1>1, StatusFrame
  <2> QED BY DEF CommitMove, Unmoved
<1> QED BY <1>1

\* A transition into a sold status writes the earn row with it.
LEMMA SoldOnce ==
    ASSUME [Next]_vars, status = "picked_up" => "earn" \in once, status' = "picked_up"
    PROVE  "earn" \in once'
<1>1. CASE UNCHANGED <<status, reward, once>>
  BY <1>1
<1>2. CASE ~UNCHANGED <<status, reward, once>>
  <2> PICK w \in Workers : CommitMove(w) /\ status = job[w].seen /\ status' = job[w].to
    BY <1>2, StatusFrame
  <2> QED BY DEF CommitMove, Unmoved, SalesRoleOf
<1> QED BY <1>1, <1>2

\* Only the transaction that settles the hold changes it, and only once.
LEMMA HoldFrame ==
    ASSUME [Next]_vars, hold' # hold
    PROVE  \E w \in Workers :
             /\ CommitHold(w) /\ pc[w] = "commitHold" /\ hold = "open"
             /\ hold' = IF job[w].settle = "capture" THEN "captured" ELSE "voided"
<1>1. ASSUME NEW w \in Workers, Start(w) PROVE hold' = hold
  BY <1>1 DEF Start, ReadAndDecide, RetryRefund, RetryHold, ReadBalance,
              ReadAdjustable, ReadComp, ReadRefundable, ReadRefund
<1>2. ASSUME NEW w \in Workers, Step(w), ~CommitHold(w) PROVE hold' = hold
  BY <1>2 DEF Step, CommitMove, FindRefund, SendRefund, BookRefund, CommitRefund,
              FindHold, ChargeCard, BookHold, CommitPayment, WriteAdjustment,
              WriteReversal, WriteRequest, WriteRefundReversal
<1>3. ASSUME NEW w \in Workers, Crash(w) PROVE hold' = hold
  BY <1>3 DEF Crash
<1>4. UNCHANGED vars => hold' = hold
  BY DEF vars
<1>5. PICK w \in Workers : CommitHold(w)
  BY <1>1, <1>2, <1>3, <1>4 DEF Next
<1> QED BY <1>5 DEF CommitHold

\* What each statement of a request leaves of it, as plain facts about the
\* fields that later statements read.
LEMMA Carries ==
    ASSUME TypeOK, NEW w \in Workers
    PROVE  LET Ends == pc'[w] = "idle" /\ job'[w].to = NoStatus
               GoesOn == pc'[w] = "hold" /\ job'[w].to = job[w].to
               At(s) == pc'[w] = s /\ job'[w].to = NoStatus
           IN /\ ReadAndDecide(w) => pc'[w] = "move"
              /\ RetryRefund(w) => At("find")
              /\ RetryHold(w) => pc'[w] = "hold" /\ job'[w].to = status
              /\ ReadBalance(w) => At("collect") /\ job'[w].amt = Outstanding
              /\ ReadAdjustable(w) => At("adjust")
              /\ ReadComp(w) => At("unadjust")
              /\ ReadRefundable(w) => At("ask")
              /\ ReadRefund(w) => At("unrefund") /\ job'[w].row \in Reversible
              /\ CommitMove(w) => \/ Ends
                                  \/ /\ pc'[w] \in {"find", "hold"}
                                     /\ job'[w].to = job[w].to /\ status' = job[w].to
              /\ FindRefund(w) => \/ Ends \/ GoesOn
                                  \/ /\ Collected > 0 /\ pc'[w] = "send"
                                     /\ job'[w].to = job[w].to
              /\ SendRefund(w) => \/ Ends \/ GoesOn
                                  \/ /\ pc'[w] = "bookRefund" /\ job'[w] = job[w]
                                     /\ Sends(job[w].row, job[w].amt)
              /\ BookRefund(w) => /\ pc'[w] = "commitRefund" /\ job'[w].to = job[w].to
                                  /\ job'[w].row = job[w].row
                                  /\ job'[w].col = Derive(Captured, log.refund + job[w].amt,
                                                          Authorized)
              /\ CommitRefund(w) => Ends \/ GoesOn
              /\ FindHold(w) => \/ Ends
                                \/ /\ pc'[w] = "charge" /\ job'[w].to = job[w].to
                                   /\ job'[w].settle = HoldOutcome(job[w].to)
              /\ ChargeCard(w) => \/ Ends
                                  \/ /\ pc'[w] = "bookHold" /\ job'[w] = job[w]
                                     /\ job[w].settle = "capture" => Acts(w)
                                  \/ /\ pc'[w] = "bookHold" /\ job'[w].to = job[w].to
                                     /\ job'[w].settle = "void"
              /\ BookHold(w) => /\ pc'[w] = "commitHold" /\ job'[w].to = job[w].to
                                /\ job'[w].settle = job[w].settle
                                /\ job'[w].col =
                                     Derive(Captured + (IF job[w].settle = "capture"
                                                        THEN Total ELSE 0),
                                            log.refund, Minus(Authorized, Total))
              /\ WriteRequest(w) => At("find")
              /\ CommitHold(w) \/ CommitPayment(w) \/ WriteAdjustment(w) \/ WriteReversal(w)
                   \/ WriteRefundReversal(w) \/ Crash(w) => Ends
<1> DEFINE Ends == pc'[w] = "idle" /\ job'[w].to = NoStatus
           GoesOn == pc'[w] = "hold" /\ job'[w].to = job[w].to
           At(s) == pc'[w] = s /\ job'[w].to = NoStatus
<1>0. job[w] \in Jobs
  BY DEF TypeOK
<1>a. Done(w) => Ends
  BY DoneFrame, BlankFields
<1>c. ASSUME NEW s, NEW r, Goto(w, s, [Blank EXCEPT !.row = r]) PROVE At(s)
  <2>1. pc'[w] = s /\ job'[w] = [Blank EXCEPT !.row = r]
    BY <1>c, GotoFrame
  <2> QED BY <2>1, BlankFields
<1>d. ASSUME NEW s, NEW a, Goto(w, s, [Blank EXCEPT !.amt = a])
      PROVE  At(s) /\ job'[w].amt = a
  <2>1. pc'[w] = s /\ job'[w] = [Blank EXCEPT !.amt = a]
    BY <1>d, GotoFrame
  <2> QED BY <2>1, BlankFields
<1>e. ASSUME NEW s, NEW r, NEW a, Goto(w, s, [Blank EXCEPT !.row = r, !.amt = a])
      PROVE  At(s) /\ job'[w].row = r
  <2>1. pc'[w] = s /\ job'[w] = [Blank EXCEPT !.row = r, !.amt = a]
    BY <1>e, GotoFrame
  <2> QED BY <2>1, BlankFields
<1>f. ASSUME NEW s, NEW t, Goto(w, s, [Blank EXCEPT !.to = t])
      PROVE  pc'[w] = s /\ job'[w].to = t
  <2>1. pc'[w] = s /\ job'[w] = [Blank EXCEPT !.to = t]
    BY <1>f, GotoFrame
  <2> QED BY <2>1, BlankFields
<1>b. AfterRefund(w) => Ends \/ GoesOn
  BY <1>a, <1>f, Zenon DEF AfterRefund
<1>g. ASSUME NEW s, NEW c, Goto(w, s, [job[w] EXCEPT !.col = c])
      PROVE  /\ pc'[w] = s /\ job'[w].to = job[w].to /\ job'[w].row = job[w].row
             /\ job'[w].col = c /\ job'[w].settle = job[w].settle
  <2>1. pc'[w] = s /\ job'[w] = [job[w] EXCEPT !.col = c]
    BY <1>g, GotoFrame
  <2> QED BY <2>1, <1>0, JobFields
<1>h. ASSUME NEW s, NEW o, Goto(w, s, [job[w] EXCEPT !.settle = o])
      PROVE  pc'[w] = s /\ job'[w].to = job[w].to /\ job'[w].settle = o
  <2>1. pc'[w] = s /\ job'[w] = [job[w] EXCEPT !.settle = o]
    BY <1>h, GotoFrame
  <2> QED BY <2>1, <1>0, JobFields
<1>1. ReadAndDecide(w) => pc'[w] = "move"
  <2> SUFFICES ASSUME ReadAndDecide(w) PROVE pc'[w] = "move"
    OBVIOUS
  <2> PICK j : Goto(w, "move", j)
    BY Zenon DEF ReadAndDecide
  <2> QED BY GotoFrame
<1>2. RetryRefund(w) => At("find")
  BY <1>c, Zenon DEF RetryRefund
<1>3. RetryHold(w) => pc'[w] = "hold" /\ job'[w].to = status
  BY <1>f, Zenon DEF RetryHold
<1>4. ReadBalance(w) => At("collect") /\ job'[w].amt = Outstanding
  BY <1>d, Zenon DEF ReadBalance
<1>5. ReadAdjustable(w) => At("adjust")
  BY <1>d, Zenon DEF ReadAdjustable
<1>6. ReadComp(w) => At("unadjust")
  BY <1>e, Zenon DEF ReadComp
<1>7. ReadRefundable(w) => At("ask")
  BY <1>d, Zenon DEF ReadRefundable
<1>8. ReadRefund(w) => At("unrefund") /\ job'[w].row \in Reversible
  BY <1>e, Zenon DEF ReadRefund
<1>9. CommitMove(w) => \/ Ends
                       \/ /\ pc'[w] \in {"find", "hold"}
                          /\ job'[w].to = job[w].to /\ status' = job[w].to
  <2> SUFFICES ASSUME CommitMove(w), ~Done(w)
               PROVE  /\ pc'[w] \in {"find", "hold"}
                      /\ job'[w].to = job[w].to /\ status' = job[w].to
    BY <1>a
  <2>1. \/ Goto(w, "find", [Blank EXCEPT !.to = job[w].to])
        \/ Goto(w, "hold", [Blank EXCEPT !.to = job[w].to])
    BY Zenon DEF CommitMove
  <2>2. status' = job[w].to
    BY DEF CommitMove
  <2>3. pc'[w] \in {"find", "hold"} /\ job'[w].to = job[w].to
    BY <2>1, <1>f, Zenon
  <2> QED BY <2>2, <2>3
<1>10. FindRefund(w) => \/ Ends \/ GoesOn
                        \/ /\ Collected > 0 /\ pc'[w] = "send"
                           /\ job'[w].to = job[w].to
  <2> SUFFICES ASSUME FindRefund(w), ~AfterRefund(w)
               PROVE  Collected > 0 /\ pc'[w] = "send" /\ job'[w].to = job[w].to
    BY <1>b
  <2>1. PICK r \in Candidates(w) :
           /\ Collected > 0
           /\ Goto(w, "send", [job[w] EXCEPT !.row = r, !.amt = Asked(r)])
    BY Zenon DEF FindRefund
  <2>2. pc'[w] = "send" /\ job'[w] = [job[w] EXCEPT !.row = r, !.amt = Asked(r)]
    BY <2>1, GotoFrame
  <2>3. job'[w].to = job[w].to
    BY <2>2, <1>0, JobFields
  <2> QED BY <2>1, <2>2, <2>3
<1>11. SendRefund(w) => \/ Ends \/ GoesOn
                        \/ /\ pc'[w] = "bookRefund" /\ job'[w] = job[w]
                           /\ Sends(job[w].row, job[w].amt)
  BY <1>b, GotoFrame DEF SendRefund
<1>12. BookRefund(w) => /\ pc'[w] = "commitRefund" /\ job'[w].to = job[w].to
                        /\ job'[w].row = job[w].row
                        /\ job'[w].col = Derive(Captured, log.refund + job[w].amt,
                                                Authorized)
  BY <1>g, Zenon DEF BookRefund
<1>13. CommitRefund(w) => Ends \/ GoesOn
  BY <1>b, Zenon DEF CommitRefund
<1>14. FindHold(w) => \/ Ends
                      \/ /\ pc'[w] = "charge" /\ job'[w].to = job[w].to
                         /\ job'[w].settle = HoldOutcome(job[w].to)
  BY <1>a, <1>h, Zenon DEF FindHold
<1>15. ChargeCard(w) => \/ Ends
                        \/ /\ pc'[w] = "bookHold" /\ job'[w] = job[w]
                           /\ job[w].settle = "capture" => Acts(w)
                        \/ /\ pc'[w] = "bookHold" /\ job'[w].to = job[w].to
                           /\ job'[w].settle = "void"
  <2> SUFFICES ASSUME ChargeCard(w), ~Done(w)
               PROVE  \/ pc'[w] = "bookHold" /\ job'[w] = job[w] /\ Acts(w)
                      \/ /\ pc'[w] = "bookHold" /\ job'[w].to = job[w].to
                         /\ job'[w].settle = "void"
    BY <1>a
  <2>1. \/ Acts(w) /\ Goto(w, "bookHold", job[w])
        \/ Goto(w, "bookHold", [job[w] EXCEPT !.settle = "void"])
    BY Zenon DEF ChargeCard
  <2>2. CASE Acts(w) /\ Goto(w, "bookHold", job[w])
    BY <2>2, GotoFrame, Zenon
  <2>3. CASE Goto(w, "bookHold", [job[w] EXCEPT !.settle = "void"])
    BY <2>3, <1>h, Zenon
  <2> QED BY <2>1, <2>2, <2>3
<1>16. BookHold(w) => /\ pc'[w] = "commitHold" /\ job'[w].to = job[w].to
                      /\ job'[w].settle = job[w].settle
                      /\ job'[w].col =
                           Derive(Captured + (IF job[w].settle = "capture"
                                              THEN Total ELSE 0),
                                  log.refund, Minus(Authorized, Total))
  BY <1>g, Zenon DEF BookHold
<1>17. WriteRequest(w) => At("find")
  BY <1>c, Zenon DEF WriteRequest
<1>18. CommitHold(w) \/ CommitPayment(w) \/ WriteAdjustment(w) \/ WriteReversal(w)
         \/ WriteRefundReversal(w) \/ Crash(w) => Ends
  BY <1>a, Zenon DEF CommitHold, CommitPayment, WriteAdjustment, WriteReversal,
                     WriteRefundReversal, Crash
<1> QED BY <1>1, <1>2, <1>3, <1>4, <1>5, <1>6, <1>7, <1>8, <1>9, <1>10, <1>11, <1>12,
           <1>13, <1>14, <1>15, <1>16, <1>17, <1>18, Zenon

\* A step of one worker leaves the others' program counters and variables alone.
LEMMA OthersStay ==
    ASSUME TypeOK, NEW w \in Workers, Start(w) \/ Step(w) \/ Crash(w)
    PROVE  \A x \in Workers : x # w => pc'[x] = pc[x] /\ job'[x] = job[x]
<1> DEFINE Same == \A x \in Workers : x # w => pc'[x] = pc[x] /\ job'[x] = job[x]
<1>1. ASSUME NEW s, NEW j, Goto(w, s, j) PROVE Same
  BY <1>1, GotoFrame
<1>2. Done(w) => Same
  BY DoneFrame
<1>3. AfterRefund(w) => Same
  BY AfterRefundFrame
<1>4. Start(w) => \E s, j : Goto(w, s, j)
  <2> SUFFICES ASSUME Start(w) PROVE \E s, j : Goto(w, s, j)
    OBVIOUS
  <2>1. ReadAndDecide(w) => \E s, j : Goto(w, s, j)
    BY Zenon DEF ReadAndDecide
  <2>2. RetryRefund(w) => \E s, j : Goto(w, s, j)
    BY Zenon DEF RetryRefund
  <2>3. RetryHold(w) \/ ReadBalance(w) => \E s, j : Goto(w, s, j)
    BY Zenon DEF RetryHold, ReadBalance
  <2>4. ReadAdjustable(w) \/ ReadComp(w) => \E s, j : Goto(w, s, j)
    BY Zenon DEF ReadAdjustable, ReadComp
  <2>5. ReadRefundable(w) \/ ReadRefund(w) => \E s, j : Goto(w, s, j)
    BY Zenon DEF ReadRefundable, ReadRefund
  <2> QED BY <2>1, <2>2, <2>3, <2>4, <2>5, Zenon DEF Start
<1>5. Step(w) => Done(w) \/ AfterRefund(w) \/ \E s, j : Goto(w, s, j)
  <2> DEFINE Moves == Done(w) \/ AfterRefund(w) \/ \E s, j : Goto(w, s, j)
  <2>1. CommitMove(w) => Moves
    BY Zenon DEF CommitMove
  <2>2. FindRefund(w) => Moves
    BY Zenon DEF FindRefund
  <2>3. SendRefund(w) \/ BookRefund(w) \/ CommitRefund(w) => Moves
    BY Zenon DEF SendRefund, BookRefund, CommitRefund
  <2>4. FindHold(w) \/ ChargeCard(w) \/ BookHold(w) \/ CommitHold(w) => Moves
    BY Zenon DEF FindHold, ChargeCard, BookHold, CommitHold
  <2>5. CommitPayment(w) \/ WriteAdjustment(w) \/ WriteReversal(w) => Moves
    BY Zenon DEF CommitPayment, WriteAdjustment, WriteReversal
  <2>6. WriteRequest(w) \/ WriteRefundReversal(w) => Moves
    BY Zenon DEF WriteRequest, WriteRefundReversal
  <2> QED BY <2>1, <2>2, <2>3, <2>4, <2>5, <2>6, Zenon DEF Step
<1>6. Crash(w) => Done(w)
  BY Zenon DEF Crash
<1> QED BY <1>1, <1>2, <1>3, <1>4, <1>5, <1>6, Zenon

\* The step that makes CapturedWasSold hold: a capture descends from a
\* transition into a sold status, however many requests stand between.
LEMMA SoldStep ==
    TypeOK /\ SoldInv /\ CapturedWasSold /\ [Next]_vars
        => SoldInv' /\ CapturedWasSold'
<1> SUFFICES ASSUME TypeOK, SoldInv, CapturedWasSold, [Next]_vars
             PROVE  SoldInv' /\ CapturedWasSold'
  OBVIOUS
<1> DEFINE OK(x) ==
      /\ pc[x] # "move" /\ job[x].to = "picked_up" => "earn" \in once
      /\ pc[x] \in {"charge", "bookHold", "commitHold"} /\ job[x].settle = "capture" =>
           "earn" \in once
<1>1. \A x \in Workers : OK(x)
  BY DEF SoldInv
<1>2. CapturedWasSold'
  <2>1. CASE hold' = hold
    BY <2>1, OnceGrows DEF CapturedWasSold
  <2>2. CASE hold' # hold
    BY <2>2, <1>1, HoldFrame, OnceGrows DEF CapturedWasSold
  <2> QED BY <2>1, <2>2
<1>3. status' = "picked_up" => "earn" \in once'
  BY SoldOnce DEF SoldInv
<1>4. ASSUME NEW w \in Workers, Start(w) \/ Step(w) \/ Crash(w) PROVE SoldInv'
  <2>1. OK(w)'
    <3>1. CASE Start(w)
      BY <3>1, <1>1, <1>3, OnceGrows, Carries DEF Start, RetryHold, NoStatus
    <3>2. CASE Step(w)
      <4>1. CASE CommitMove(w)
        BY <4>1, <1>3, Carries DEF NoStatus
      <4>2. CASE FindRefund(w) \/ SendRefund(w) \/ BookRefund(w) \/ CommitRefund(w)
        BY <4>2, <1>1, OnceGrows, Carries
        DEF NoStatus, FindRefund, SendRefund, BookRefund, CommitRefund
      <4>3. CASE FindHold(w)
        BY <4>3, <1>1, OnceGrows, Carries DEF NoStatus, FindHold, HoldOutcome, SalesRoleOf
      <4>4. CASE ChargeCard(w) \/ BookHold(w)
        BY <4>4, <1>1, OnceGrows, Carries DEF NoStatus, ChargeCard, BookHold
      <4> QED BY <3>2, <4>1, <4>2, <4>3, <4>4, Carries DEF Step, NoStatus
    <3>3. CASE Crash(w)
      BY <3>3, Carries DEF NoStatus
    <3> QED BY <1>4, <3>1, <3>2, <3>3
  <2>2. ASSUME NEW x \in Workers PROVE OK(x)'
    <3>1. CASE x # w
      BY <1>1, <1>4, <3>1, OthersStay, OnceGrows
    <3> QED BY <2>1, <3>1
  <2> QED BY <2>2, <1>3 DEF SoldInv
<1>5. CASE UNCHANGED vars
  <2>1. UNCHANGED <<status, once, pc, job>>
    BY <1>5 DEF vars
  <2>2. ASSUME NEW x \in Workers PROVE OK(x)'
    BY <1>1, <2>1
  <2> QED BY <2>1, <2>2, <1>2, <1>3 DEF SoldInv
<1> QED BY <1>2, <1>4, <1>5 DEF Next

\* The invariant and what it rests on hold in every reachable state.
LEMMA SoldAlways == Spec => [](SoldInv /\ CapturedWasSold)
<1>1. Init => SoldInv /\ CapturedWasSold
  BY BlankFields DEF Init, SoldInv, CapturedWasSold, NoStatus
<1> QED BY <1>1, SoldStep, Typed, PTL DEF Spec

\* No interleaving, retry or crash captures the card for an order that was
\* never handed over: every capture descends from a transition to picked_up.
THEOREM CaptureNeedsSale == Spec => []CapturedWasSold
BY SoldAlways, PTL

-----------------------------------------------------------------------------
\* The log against the processor.

\* What the processor has done it does not undo: a refund sent stays sent, a
\* captured card stays captured.
LEMMA ProviderKeeps ==
    ASSUME TypeOK, [Next]_vars
    PROVE  /\ \A r \in Requests : paidOut[r] > 0 => paidOut'[r] > 0
           /\ card = "captured" => card' = "captured"
<1>1. ASSUME NEW w \in Workers, Start(w) PROVE UNCHANGED <<card, paidOut>>
  BY <1>1 DEF Start, ReadAndDecide, RetryRefund, RetryHold, ReadBalance,
              ReadAdjustable, ReadComp, ReadRefundable, ReadRefund
<1>2. ASSUME NEW w \in Workers, Step(w), ~SendRefund(w), ~ChargeCard(w)
      PROVE  UNCHANGED <<card, paidOut>>
  BY <1>2 DEF Step, CommitMove, FindRefund, BookRefund, CommitRefund,
              FindHold, BookHold, CommitHold, CommitPayment, WriteAdjustment,
              WriteReversal, WriteRequest, WriteRefundReversal
<1>3. ASSUME NEW w \in Workers, SendRefund(w)
      PROVE  card' = card /\ \A r \in Requests : paidOut[r] > 0 => paidOut'[r] > 0
  BY <1>3 DEF SendRefund, Sends, Declines, TypeOK
<1>4. ASSUME NEW w \in Workers, ChargeCard(w)
      PROVE  paidOut' = paidOut /\ (card = "captured" => card' = "captured")
  BY <1>4 DEF ChargeCard, Acts, Refuses, Settled
<1>5. ASSUME NEW w \in Workers, Crash(w) PROVE UNCHANGED <<card, paidOut>>
  BY <1>5 DEF Crash
<1>6. UNCHANGED vars => UNCHANGED <<card, paidOut>>
  BY DEF vars
<1> QED BY <1>1, <1>2, <1>3, <1>4, <1>5, <1>6 DEF Next

\* Only the transaction that settles a refund request writes its refund row.
LEMMA RefundFrame ==
    ASSUME TypeOK, [Next]_vars, NEW r \in Requests, refundOf'[r] # refundOf[r]
    PROVE  \E w \in Workers : pc[w] = "commitRefund" /\ job[w].row = r
<1>1. ASSUME NEW w \in Workers, Start(w) PROVE refundOf' = refundOf
  BY <1>1 DEF Start, ReadAndDecide, RetryRefund, RetryHold, ReadBalance,
              ReadAdjustable, ReadComp, ReadRefundable, ReadRefund
<1>2. ASSUME NEW w \in Workers, Step(w), ~CommitRefund(w) PROVE refundOf' = refundOf
  BY <1>2 DEF Step, CommitMove, FindRefund, SendRefund, BookRefund,
              FindHold, ChargeCard, BookHold, CommitHold, CommitPayment,
              WriteAdjustment, WriteReversal, WriteRequest, WriteRefundReversal
<1>3. ASSUME NEW w \in Workers, Crash(w) PROVE refundOf' = refundOf
  BY <1>3 DEF Crash
<1>4. UNCHANGED vars => refundOf' = refundOf
  BY DEF vars
<1>5. PICK w \in Workers : CommitRefund(w)
  BY <1>1, <1>2, <1>3, <1>4 DEF Next
<1>6. pc[w] = "commitRefund" /\ job[w].row = r
  BY <1>5 DEF CommitRefund, TypeOK
<1> QED BY <1>6

\* The step that keeps the log behind the processor: a request records a
\* movement only from a statement it reaches after the processor made it.
LEMMA ProviderStep ==
    TypeOK /\ JobInv /\ ProviderInv /\ LogMatchesProvider /\ [Next]_vars
        => ProviderInv' /\ LogMatchesProvider'
<1> SUFFICES ASSUME TypeOK, JobInv, ProviderInv, LogMatchesProvider, [Next]_vars
             PROVE  ProviderInv' /\ LogMatchesProvider'
  OBVIOUS
<1> DEFINE OK(x) ==
      /\ pc[x] \in {"bookRefund", "commitRefund"} => paidOut[job[x].row] > 0
      /\ pc[x] \in {"bookHold", "commitHold"} /\ job[x].settle = "capture" =>
           card = "captured"
<1>1. \A x \in Workers : OK(x)
  BY DEF ProviderInv
<1>2. LogMatchesProvider'
  <2>1. hold' = "captured" => card' = "captured"
    <3>1. CASE hold' = hold
      BY <3>1, ProviderKeeps DEF LogMatchesProvider
    <3>2. CASE hold' # hold
      BY <3>2, <1>1, HoldFrame, ProviderKeeps
    <3> QED BY <3>1, <3>2
  <2>2. ASSUME NEW r \in Requests, refundOf'[r] > 0 PROVE paidOut'[r] > 0
    <3>1. CASE refundOf'[r] = refundOf[r]
      BY <2>2, <3>1, ProviderKeeps DEF LogMatchesProvider
    <3>2. CASE refundOf'[r] # refundOf[r]
      <4> PICK w \in Workers : pc[w] = "commitRefund" /\ job[w].row = r
        BY <3>2, RefundFrame
      <4> QED BY <1>1, ProviderKeeps
    <3> QED BY <3>1, <3>2
  <2> QED BY <2>1, <2>2 DEF LogMatchesProvider
<1>3. \A x \in Workers : pc[x] \in {"send", "bookRefund", "commitRefund"} =>
                           job[x].row \in Requests /\ job[x].amt \in Nat \ {0}
  BY DEF JobInv, TypeOK, Jobs
<1>4. ASSUME NEW w \in Workers, Start(w) \/ Step(w) \/ Crash(w) PROVE ProviderInv'
  <2>1. OK(w)'
    <3>1. CASE Start(w)
      BY <3>1, Carries DEF Start
    <3>2. CASE Step(w)
      <4>1. CASE SendRefund(w)
        <5>1. CASE pc'[w] = "bookRefund" /\ job'[w] = job[w] /\ Sends(job[w].row, job[w].amt)
          <6>1. job[w].row \in Requests /\ job[w].amt \in Nat \ {0}
            BY <4>1, <1>3 DEF SendRefund
          <6>2. paidOut'[job[w].row] > 0
            BY <5>1, <6>1 DEF Sends, TypeOK
          <6> QED BY <5>1, <6>2
        <5> QED BY <4>1, <5>1, Carries
      <4>2. CASE BookRefund(w)
        BY <4>2, <1>1, <1>3, Carries, ProviderKeeps DEF BookRefund
      <4>3. CASE FindRefund(w) \/ CommitRefund(w) \/ FindHold(w)
        BY <4>3, Carries
      <4>4. CASE ChargeCard(w)
        BY <4>4, Carries DEF Acts, Settled
      <4>5. CASE BookHold(w)
        BY <4>5, <1>1, Carries, ProviderKeeps DEF BookHold
      <4> QED BY <3>2, <4>1, <4>2, <4>3, <4>4, <4>5, Carries DEF Step
    <3>3. CASE Crash(w)
      BY <3>3, Carries
    <3> QED BY <1>4, <3>1, <3>2, <3>3
  <2>2. ASSUME NEW x \in Workers PROVE OK(x)'
    <3>1. CASE x # w
      BY <1>1, <1>3, <1>4, <3>1, OthersStay, ProviderKeeps
    <3> QED BY <2>1, <3>1
  <2> QED BY <2>2 DEF ProviderInv
<1>5. CASE UNCHANGED vars
  <2>1. UNCHANGED <<card, paidOut, pc, job>>
    BY <1>5 DEF vars
  <2>2. ASSUME NEW x \in Workers PROVE OK(x)'
    BY <1>1, <2>1
  <2> QED BY <2>2, <1>2 DEF ProviderInv
<1> QED BY <1>2, <1>4, <1>5 DEF Next

\* The invariant and what it rests on hold in every reachable state.
LEMMA ProviderAlways == Spec => [](ProviderInv /\ LogMatchesProvider)
<1>1. Init => ProviderInv /\ LogMatchesProvider
  BY DEF Init, ProviderInv, LogMatchesProvider
<1> QED BY <1>1, ProviderStep, Typed, PTL DEF Spec

\* The log claims no capture and no refund the processor did not make, whoever
\* crashes, retries or settles the same row first.
THEOREM LogTellsTheTruth == Spec => []LogMatchesProvider
BY ProviderAlways, PTL

-----------------------------------------------------------------------------
\* The customer is charged once.

\* The rows and the column that say what was taken are written by four
\* transactions only.
LEMMA TakenFrame ==
    ASSUME TypeOK, [Next]_vars
    PROVE  \/ \E w \in Workers : \/ CommitPayment(w) \/ CommitHold(w)
                                \/ CommitRefund(w) \/ WriteRefundReversal(w)
           \/ /\ UNCHANGED <<payState, hold, refundOf>>
              /\ log'.payment = log.payment
              /\ log'.refund_reversed = log.refund_reversed
<1> DEFINE Quiet == /\ UNCHANGED <<payState, hold, refundOf>>
                    /\ log'.payment = log.payment
                    /\ log'.refund_reversed = log.refund_reversed
<1>1. ASSUME NEW w \in Workers, Start(w) PROVE Quiet
  BY <1>1 DEF Start, ReadAndDecide, RetryRefund, RetryHold, ReadBalance,
              ReadAdjustable, ReadComp, ReadRefundable, ReadRefund
<1>2. ASSUME NEW w \in Workers, WriteAdjustment(w) \/ WriteReversal(w) PROVE Quiet
  BY <1>2 DEF WriteAdjustment, WriteReversal, TypeOK
<1>3. ASSUME NEW w \in Workers, Step(w), ~CommitPayment(w), ~CommitHold(w),
             ~CommitRefund(w), ~WriteRefundReversal(w)
      PROVE  Quiet
  BY <1>2, <1>3 DEF Step, CommitMove, FindRefund, SendRefund, BookRefund,
              FindHold, ChargeCard, BookHold, WriteRequest
<1>4. ASSUME NEW w \in Workers, Crash(w) PROVE Quiet
  BY <1>4 DEF Crash
<1>5. UNCHANGED vars => Quiet
  BY DEF vars
<1> QED BY <1>1, <1>3, <1>4, <1>5 DEF Next

\* What was captured, and what the four transactions leave of it.
LEMMA CapturedNext ==
    ASSUME TypeOK, TypeOK', [Next]_vars
    PROVE  /\ Captured' >= Captured
           /\ hold' = "open" => hold = "open"
<1>1. ASSUME log'.payment >= log.payment PROVE Captured' >= Captured
  <2>1. CASE hold' = hold
    BY <1>1, <2>1, TotalAssumption DEF Captured, TypeOK
  <2>2. CASE hold' # hold
    BY <1>1, <2>2, HoldFrame, TotalAssumption DEF Captured, TypeOK
  <2> QED BY <2>1, <2>2
<1>2. log'.payment >= log.payment
  <2>1. ASSUME NEW w \in Workers, CommitPayment(w) PROVE log'.payment >= log.payment
    <3>1. job[w].amt \in Nat
      BY DEF TypeOK, Jobs
    <3> QED BY <2>1, <3>1 DEF CommitPayment, TypeOK
  <2>2. ASSUME NEW w \in Workers, CommitHold(w) PROVE log'.payment >= log.payment
    BY <2>2 DEF CommitHold, TypeOK
  <2>3. ASSUME NEW w \in Workers, CommitRefund(w) PROVE log'.payment >= log.payment
    BY <2>3 DEF CommitRefund, TypeOK
  <2>4. ASSUME NEW w \in Workers, WriteRefundReversal(w) PROVE log'.payment >= log.payment
    BY <2>4 DEF WriteRefundReversal, TypeOK
  <2> QED BY <2>1, <2>2, <2>3, <2>4, TakenFrame DEF TypeOK
<1>3. hold' = "open" => hold = "open"
  BY HoldFrame
<1> QED BY <1>1, <1>2, <1>3

\* The step that makes ChargedAtMostOnce hold.  Both ways money comes in ask
\* the column first, the counter directly and the hold through the row it
\* settles; HoldIffAuthorized is what makes the two exclude each other, and
\* TakenInv what a request must carry for the column to be believed.
LEMMA TakenStep ==
    TypeOK /\ TypeOK' /\ JobInv /\ TakenInv /\ ChargedAtMostOnce
        /\ HoldIffAuthorized /\ [Next]_vars
        => TakenInv' /\ ChargedAtMostOnce' /\ HoldIffAuthorized'
<1> SUFFICES ASSUME TypeOK, TypeOK', JobInv, TakenInv, ChargedAtMostOnce,
                    HoldIffAuthorized, [Next]_vars
             PROVE  TakenInv' /\ ChargedAtMostOnce' /\ HoldIffAuthorized'
  OBVIOUS
<1> DEFINE Taken == {"send", "bookRefund", "commitRefund", "unrefund"}
           Rows ==
             /\ payState \in {"unpaid", "authorized"} => Captured = 0
             /\ log.refund_reversed > 0 => Captured > 0
             /\ \A r \in Requests : refundOf[r] > 0 => Captured > 0
           OK(x) ==
             /\ pc[x] \in Taken => Captured > 0
             /\ pc[x] = "collect" => job[x].amt <= Total \/ Captured > 0
             /\ pc[x] = "commitRefund" => job[x].col \in {"paid", "refunded"}
             /\ pc[x] = "commitHold" /\ hold = "open" =>
                  IF job[x].settle = "capture" THEN job[x].col \in {"paid", "refunded"}
                                               ELSE job[x].col = "unpaid"
           Good == Rows /\ ChargedAtMostOnce /\ HoldIffAuthorized
<1>1. Rows /\ \A x \in Workers : OK(x)
  BY DEF TakenInv
<1>2. Captured \in Nat /\ Captured' \in Nat /\ Outstanding \in Nat /\ Authorized \in Nat
  <2>1. Captured \in Nat /\ Outstanding \in Nat /\ Authorized \in Nat
    BY BalanceType
  <2>2. Captured' \in Nat
    BY TotalAssumption DEF TypeOK, Captured
  <2> QED BY <2>1, <2>2
<1>3. \A x \in Workers : /\ job[x].amt \in Nat /\ job[x].settle \in {"capture", "void"}
                         /\ job[x].col \in PayStates
  BY DEF TypeOK, Jobs
<1>4. Good'
  <2>1. ASSUME NEW w \in Workers, CommitPayment(w) PROVE Good'
    <3>1. CASE payState # "unpaid"
      BY <1>1, <2>1, <3>1
      DEF CommitPayment, ChargedAtMostOnce, HoldIffAuthorized, Captured
    <3>2. CASE payState = "unpaid"
      <4>1. Captured = 0 /\ hold # "open" /\ job[w].amt <= Total
        BY <1>1, <2>1, <3>2 DEF CommitPayment, HoldIffAuthorized
      <4>2. log.payment = 0 /\ hold # "captured"
        BY <4>1, TotalAssumption DEF Captured, TypeOK
      <4>3. /\ log'.payment = job[w].amt /\ hold' = hold /\ payState' = "paid"
            /\ log'.refund_reversed = log.refund_reversed /\ refundOf' = refundOf
        BY <1>3, <2>1, <3>2, <4>2 DEF CommitPayment, TypeOK
      <4>4. Captured' = job[w].amt
        BY <1>3, <4>2, <4>3 DEF Captured
      <4>5. Captured' <= Total
        BY <4>1, <4>4
      <4> QED BY <1>1, <4>1, <4>3, <4>5
              DEF ChargedAtMostOnce, HoldIffAuthorized
    <3> QED BY <3>1, <3>2
  <2>2. ASSUME NEW w \in Workers, CommitHold(w) PROVE Good'
    <3>0. UNCHANGED <<log, refundOf>>
      BY <2>2 DEF CommitHold
    <3>1. CASE hold # "open"
      BY <1>1, <2>2, <3>0, <3>1
      DEF CommitHold, ChargedAtMostOnce, HoldIffAuthorized, Captured
    <3>2. CASE hold = "open"
      <4>1. Captured = 0
        BY <1>1, <3>2 DEF HoldIffAuthorized
      <4>2. log.payment = 0
        BY <3>2, <4>1 DEF Captured, TypeOK
      <4>3. CASE job[w].settle = "capture"
        <5>1. hold' = "captured" /\ payState' \in {"paid", "refunded"}
          BY <1>1, <2>2, <3>2, <4>3 DEF CommitHold
        <5>2. Captured' = Total
          BY <3>0, <4>2, <5>1, TotalAssumption DEF Captured
        <5> QED BY <5>1, <5>2, TotalAssumption DEF ChargedAtMostOnce, HoldIffAuthorized
      <4>4. CASE job[w].settle # "capture"
        <5>1. hold' = "voided" /\ payState' = "unpaid"
          BY <1>1, <2>2, <3>2, <4>4 DEF CommitHold
        <5>2. Captured' = 0
          BY <3>0, <4>2, <5>1 DEF Captured
        <5> QED BY <1>1, <3>0, <4>1, <5>1, <5>2, TotalAssumption
                DEF ChargedAtMostOnce, HoldIffAuthorized
      <4> QED BY <4>3, <4>4
    <3> QED BY <3>1, <3>2
  <2>3. ASSUME NEW w \in Workers, CommitRefund(w) PROVE Good'
    <3>1. Captured > 0
      BY <1>1, <2>3 DEF CommitRefund
    <3>2. hold' = hold /\ payState' \in {payState, "paid", "refunded"}
      BY <1>1, <2>3 DEF CommitRefund
    <3>3. Captured' = Captured
      BY <2>3 DEF CommitRefund, Captured, TypeOK
    <3>4. payState \notin {"unpaid", "authorized"} /\ hold # "open"
      BY <1>1, <3>1 DEF HoldIffAuthorized
    <3> QED BY <3>1, <3>2, <3>3, <3>4 DEF ChargedAtMostOnce, HoldIffAuthorized
  <2>4. ASSUME NEW w \in Workers, WriteRefundReversal(w) PROVE Good'
    <3>1. Captured > 0
      BY <1>1, <2>4 DEF WriteRefundReversal
    <3>2. hold' = hold /\ payState' = payState
      BY <2>4 DEF WriteRefundReversal
    <3>3. Captured' = Captured
      BY <2>4 DEF WriteRefundReversal, Captured, TypeOK
    <3> QED BY <1>1, <3>1, <3>2, <3>3 DEF ChargedAtMostOnce, HoldIffAuthorized
  <2>5. CASE /\ UNCHANGED <<payState, hold, refundOf>>
             /\ log'.payment = log.payment
             /\ log'.refund_reversed = log.refund_reversed
    BY <1>1, <2>5 DEF ChargedAtMostOnce, HoldIffAuthorized, Captured
  <2> QED BY <2>1, <2>2, <2>3, <2>4, <2>5, TakenFrame
<1>5. ASSUME NEW w \in Workers, Start(w) \/ Step(w) \/ Crash(w) PROVE OK(w)'
  <2>1. CASE ReadBalance(w)
    <3>1. Outstanding <= Total \/ Captured > 0
      BY <1>1, <1>2, TotalAssumption DEF Outstanding, Minus, TypeOK, Authorized, Adjusted
    <3> QED BY <1>2, <2>1, <3>1, Carries, CapturedNext
  <2>2. CASE ReadRefund(w)
    <3>1. Captured > 0
      BY <1>1, <2>2 DEF ReadRefund, Reversible
    <3> QED BY <1>2, <2>2, <3>1, Carries, CapturedNext
  <2>3. CASE Start(w) /\ ~ReadBalance(w) /\ ~ReadRefund(w)
    BY <2>3, Carries DEF Start
  <2>4. CASE FindRefund(w)
    BY <1>2, <2>4, Carries, CollectedNeedsCaptured, CapturedNext
  <2>5. CASE SendRefund(w)
    BY <1>1, <1>2, <2>5, Carries, CapturedNext DEF SendRefund
  <2>6. CASE BookRefund(w)
    <3>1. Captured > 0
      BY <1>1, <2>6 DEF BookRefund
    <3>2. Derive(Captured, log.refund + job[w].amt, Authorized) \in {"paid", "refunded"}
      BY <3>1 DEF Derive
    <3> QED BY <1>2, <2>6, <3>1, <3>2, Carries, CapturedNext
  <2>7. CASE BookHold(w)
    <3>1. hold = "open" => Captured = 0 /\ Authorized = Total
      BY <1>1 DEF HoldIffAuthorized, Authorized
    <3>2. hold = "open" =>
            IF job[w].settle = "capture"
            THEN Derive(Captured + Total, log.refund, Minus(Authorized, Total))
                   \in {"paid", "refunded"}
            ELSE Derive(Captured + 0, log.refund, Minus(Authorized, Total)) = "unpaid"
      BY <3>1, TotalAssumption DEF Derive, Minus
    <3> QED BY <1>3, <2>7, <3>2, Carries, CapturedNext
  <2>8. CASE Step(w) /\ ~FindRefund(w) /\ ~SendRefund(w) /\ ~BookRefund(w) /\ ~BookHold(w)
    BY <2>8, Carries DEF Step
  <2>9. CASE Crash(w)
    BY <2>9, Carries
  <2> QED BY <1>5, <2>1, <2>2, <2>3, <2>4, <2>5, <2>6, <2>7, <2>8, <2>9
<1>6. ASSUME NEW x \in Workers PROVE OK(x)'
  <2>1. CASE pc'[x] = pc[x] /\ job'[x] = job[x]
    BY <1>1, <1>2, <1>3, <2>1, CapturedNext
  <2>2. CASE UNCHANGED vars
    BY <2>1, <2>2 DEF vars
  <2>3. ASSUME NEW w \in Workers, Start(w) \/ Step(w) \/ Crash(w) PROVE OK(x)'
    BY <1>5, <2>1, <2>3, OthersStay
  <2> QED BY <2>2, <2>3 DEF Next
<1> QED BY <1>4, <1>6 DEF TakenInv

\* The three hold together in every reachable state: none is inductive alone.
LEMMA TakenAlways == Spec => [](TakenInv /\ ChargedAtMostOnce /\ HoldIffAuthorized)
<1>1. Init => TakenInv /\ ChargedAtMostOnce /\ HoldIffAuthorized
  BY TotalAssumption
  DEF Init, TakenInv, ChargedAtMostOnce, HoldIffAuthorized, Captured
<1>2. TypeOK /\ JobInv /\ [Next]_vars => TypeOK'
  BY TypeStep
<1> QED BY <1>1, <1>2, TakenStep, Typed, PTL DEF Spec

\* The log never shows more taken from the customer than the order's total:
\* a capture of the hold and a payment at the counter never both land, however
\* many requests race for them.
THEOREM ChargedOnce == Spec => []ChargedAtMostOnce
BY TakenAlways, PTL

\* The stuck-hold list asks the cached column, and no hold the log leaves open
\* is missed by it, nor any listed that is settled.
THEOREM HoldColumnAgrees == Spec => []HoldIffAuthorized
BY TakenAlways, PTL

\* The strengthening the runs check is inductive and always true.
THEOREM InvariantHolds == Spec => []IInv
<1>1. TypeOK /\ JobInv /\ TakenInv /\ ChargedAtMostOnce /\ HoldIffAuthorized
        /\ SoldInv /\ CapturedWasSold /\ ProviderInv /\ LogMatchesProvider
        /\ RewardFollowsStatus => IInv
  BY DEF IInv
<1> QED BY <1>1, Typed, SoldAlways, ProviderAlways, TakenAlways, RewardCorrect, PTL

-----------------------------------------------------------------------------
\* The counter and the card.

\* An order that came without a hold never has the processor hold its card.
CardInv == hold = "none" => card = "none"

LEMMA CardStep == CardInv /\ [Next]_vars => CardInv'
<1> SUFFICES ASSUME CardInv, [Next]_vars, hold' = "none" PROVE card' = "none"
  BY DEF CardInv
<1>1. hold = "none"
  BY HoldFrame
<1>2. card = "none"
  BY <1>1 DEF CardInv
<1>3. ASSUME NEW w \in Workers, ChargeCard(w) PROVE card' = card
  BY <1>2, <1>3 DEF ChargeCard, Acts, Refuses, Settled
<1>4. ASSUME NEW w \in Workers, Start(w) PROVE card' = card
  BY <1>4 DEF Start, ReadAndDecide, RetryRefund, RetryHold, ReadBalance,
              ReadAdjustable, ReadComp, ReadRefundable, ReadRefund
<1>5. ASSUME NEW w \in Workers, Step(w), ~ChargeCard(w) PROVE card' = card
  BY <1>5 DEF Step, CommitMove, FindRefund, SendRefund, BookRefund, CommitRefund,
              FindHold, BookHold, CommitHold, CommitPayment, WriteAdjustment,
              WriteReversal, WriteRequest, WriteRefundReversal
<1>6. ASSUME NEW w \in Workers, Crash(w) PROVE card' = card
  BY <1>6 DEF Crash
<1>7. UNCHANGED vars => card' = card
  BY DEF vars
<1> QED BY <1>2, <1>3, <1>4, <1>5, <1>6, <1>7 DEF Next

\* The counter takes money beside a captured card only after a capture whose
\* answer was an error: the log then calls the hold released
\* (settleAuthorization, collectOrderPayment).
THEOREM CountedOnce == Spec => []PaidTwiceOnlyIfVoided
<1>1. Init => CardInv
  BY DEF Init, CardInv
<1>2. Spec => []CardInv
  BY <1>1, CardStep, PTL DEF Spec
<1>3. TypeOK /\ TakenInv /\ ChargedAtMostOnce /\ HoldIffAuthorized /\ CardInv
        => PaidTwiceOnlyIfVoided
  <2> SUFFICES ASSUME TypeOK, TakenInv, ChargedAtMostOnce, HoldIffAuthorized, CardInv,
                      card = "captured", log.payment > 0
               PROVE  hold = "voided"
    BY DEF PaidTwiceOnlyIfVoided
  <2>1. hold # "open"
    BY DEF TakenInv, HoldIffAuthorized, Captured, TypeOK
  <2>2. hold # "captured"
    BY TotalAssumption DEF ChargedAtMostOnce, Captured, TypeOK
  <2> QED BY <2>1, <2>2 DEF CardInv, TypeOK
<1> QED BY <1>2, <1>3, Typed, TakenAlways, PTL

-----------------------------------------------------------------------------
\* Adding up.  A sum over a finite set is how many units its terms have in
\* all; a counterexample would have a smallest one, and there is none.

\* One element for each unit of each member of S.
Units(f, S) == UNION {{x} \X (1..f[x]) : x \in S}

\* None of an empty set.
LEMMA NoUnits ==
    ASSUME NEW f PROVE Units(f, {}) = {}
BY DEF Units

\* One more member adds its own units.
LEMMA MoreUnits ==
    ASSUME NEW f, NEW S, NEW x \in S, f[x] \in Nat, IsFiniteSet(Units(f, S \ {x}))
    PROVE  /\ IsFiniteSet(Units(f, S))
           /\ Cardinality(Units(f, S)) = f[x] + Cardinality(Units(f, S \ {x}))
<1> DEFINE U == Units(f, S \ {x})
            V == {x} \X (1..f[x])
<1>1. Units(f, S) = U \union V /\ U \cap V = {}
  BY DEF Units
<1>2. IsFiniteSet(V) /\ Cardinality(V) = f[x]
  <2>1. IsFiniteSet({x}) /\ Cardinality({x}) = 1
    BY FS_Singleton
  <2>2. IsFiniteSet(1..f[x]) /\ Cardinality(1..f[x]) = f[x]
    BY FS_Interval
  <2>3. IsFiniteSet(V) /\ Cardinality(V) = 1 * f[x]
    BY <2>1, <2>2, FS_Product
  <2> QED BY <2>3
<1>3. Cardinality(U \cap V) = 0
  BY <1>1, FS_EmptySet
<1>4. Cardinality(U) \in Nat
  BY FS_CardinalityType
<1> HIDE DEF U, V
<1>5. /\ IsFiniteSet(U \union V)
      /\ Cardinality(U \union V) = Cardinality(U) + Cardinality(V) - Cardinality(U \cap V)
  BY <1>2, FS_Union DEF U
<1> QED BY <1>1, <1>2, <1>3, <1>4, <1>5 DEF U

\* A collection of finite sets that holds, with each, a smaller one is empty.
LEMMA NoSmallest ==
    ASSUME NEW S, IsFiniteSet(S), NEW C \in SUBSET SUBSET S,
           \A T \in C : \E x \in T : T \ {x} \in C
    PROVE  C = {}
<1> SUFFICES ASSUME C # {} PROVE FALSE
  OBVIOUS
<1>1. IsWellFoundedOn(StrictSubsetOrdering(S), SUBSET S)
  BY FS_StrictSubsetOrderingWellFounded, FS_FiniteSubsetsOfFinite
<1>2. PICK T \in C : \A y \in C : ~ (<<y, T>> \in StrictSubsetOrdering(S))
  BY <1>1, WFMin
<1>3. PICK x \in T : T \ {x} \in C
  OBVIOUS
<1>4. <<T \ {x}, T>> \in StrictSubsetOrdering(S)
  BY <1>3 DEF StrictSubsetOrdering
<1> QED BY <1>2, <1>3, <1>4

\* Finitely many members have finitely many units.
LEMMA FiniteUnits ==
    ASSUME NEW S, IsFiniteSet(S), NEW f, \A x \in S : f[x] \in Nat, NEW s \in SUBSET S
    PROVE  IsFiniteSet(Units(f, s))
<1> DEFINE C == {T \in SUBSET S : ~ IsFiniteSet(Units(f, T))}
<1>1. ASSUME NEW T \in C PROVE \E x \in T : T \ {x} \in C
  <2>1. T # {}
    BY NoUnits, FS_EmptySet
  <2>2. PICK x \in T : TRUE
    BY <2>1
  <2> QED BY <2>2, MoreUnits
<1>2. C = {}
  <2> HIDE DEF C
  <2>1. C \in SUBSET SUBSET S
    BY DEF C
  <2> QED BY <1>1, <2>1, NoSmallest
<1> QED BY <1>2

\* The fold the sum is defined by counts the units.
LEMMA SumIsUnits ==
    ASSUME NEW S, IsFiniteSet(S), NEW f, \A x \in S : f[x] \in Nat
    PROVE  SumOver(f, S) = Cardinality(Units(f, S))
<1> DEFINE Adds(g) == g = [s \in SUBSET S |-> IF s = {} THEN 0
                               ELSE f[CHOOSE y \in s : TRUE] + g[s \ {CHOOSE y \in s : TRUE}]]
            W == [s \in SUBSET S |-> Cardinality(Units(f, s))]
            iter == CHOOSE g : Adds(g)
<1>1. SumOver(f, S) = iter[S]
  BY DEF SumOver, MapThenSumSet, MapThenFoldSet
<1>2. ASSUME NEW s \in SUBSET S, s # {}
      PROVE  W[s] = f[CHOOSE y \in s : TRUE] + W[s \ {CHOOSE y \in s : TRUE}]
  <2> DEFINE x == CHOOSE y \in s : TRUE
  <2>1. x \in s
    BY <1>2
  <2> HIDE DEF x
  <2>2. s \ {x} \in SUBSET S /\ f[x] \in Nat
    BY <2>1
  <2>3. IsFiniteSet(Units(f, s \ {x}))
    BY <2>2, FiniteUnits
  <2>4. Cardinality(Units(f, s)) = f[x] + Cardinality(Units(f, s \ {x}))
    BY <2>1, <2>2, <2>3, MoreUnits
  <2>5. W[s] = f[x] + W[s \ {x}]
    BY <2>2, <2>4
  <2> QED BY <2>5 DEF x
<1>3. W[{}] = 0
  BY NoUnits, FS_EmptySet
<1>4. Adds(W)
  <2> HIDE DEF W
  <2>1. W = [s \in SUBSET S |-> W[s]]
    BY DEF W
  <2> QED BY <1>2, <1>3, <2>1
<1>5. Adds(iter)
  BY <1>4
<1> DEFINE C == {s \in SUBSET S : iter[s] # W[s]}
<1> HIDE DEF iter, W
<1>6. ASSUME NEW s \in C PROVE \E x \in s : s \ {x} \in C
  <2>1. s # {}
    BY <1>3, <1>5
  <2> DEFINE x == CHOOSE y \in s : TRUE
  <2>2. x \in s
    BY <2>1
  <2> HIDE DEF x
  <2>3. iter[s] = f[x] + iter[s \ {x}]
    BY <1>5, <2>1 DEF x
  <2>4. W[s] = f[x] + W[s \ {x}]
    BY <1>2, <2>1 DEF x
  <2> QED BY <2>2, <2>3, <2>4
<1>7. C = {}
  <2> HIDE DEF C
  <2>1. C \in SUBSET SUBSET S
    BY DEF C
  <2> QED BY <1>6, <2>1, NoSmallest
<1> QED BY <1>1, <1>7 DEF W

\* Adding over a finite set, as facts about the function that is added up.
LEMMA SumFacts ==
    ASSUME NEW S, IsFiniteSet(S), NEW f, \A x \in S : f[x] \in Nat
    PROVE  /\ SumOver(f, S) \in Nat
           /\ \A x \in S : f[x] <= SumOver(f, S)
           /\ \A T \in SUBSET S : SumOver(f, T) <= SumOver(f, S)
<1> DEFINE N(T) == Cardinality(Units(f, T))
<1>1. ASSUME NEW T \in SUBSET S
      PROVE  /\ SumOver(f, T) = N(T)
             /\ IsFiniteSet(Units(f, T)) /\ N(T) \in Nat
  <2>1. IsFiniteSet(T)
    BY FS_Subset
  <2>2. IsFiniteSet(Units(f, T))
    BY FiniteUnits
  <2> QED BY <2>1, <2>2, SumIsUnits, FS_CardinalityType
<1>2. ASSUME NEW T \in SUBSET S PROVE N(T) <= N(S)
  <2>1. Units(f, T) \subseteq Units(f, S)
    BY DEF Units
  <2> QED BY <2>1, <1>1, FS_Subset
<1>3. ASSUME NEW x \in S PROVE f[x] <= N(S)
  <2>1. IsFiniteSet(Units(f, S \ {x})) /\ N(S \ {x}) \in Nat
    BY <1>1
  <2> f[x] \in Nat
    OBVIOUS
  <2>2. N(S) = f[x] + N(S \ {x})
    BY <2>1, MoreUnits
  <2> HIDE DEF N
  <2> QED BY <2>1, <2>2
<1> QED BY <1>1, <1>2, <1>3

\* What grows nowhere falls adds up to no less.
LEMMA SumGrows ==
    ASSUME NEW S, IsFiniteSet(S), NEW f, NEW g,
           \A x \in S : f[x] \in Nat /\ g[x] \in Nat /\ f[x] <= g[x]
    PROVE  SumOver(f, S) <= SumOver(g, S)
<1>1. Units(f, S) \subseteq Units(g, S)
  BY DEF Units
<1>2. IsFiniteSet(Units(f, S)) /\ IsFiniteSet(Units(g, S))
  BY FiniteUnits
<1>3. Cardinality(Units(f, S)) <= Cardinality(Units(g, S))
  BY <1>1, <1>2, FS_Subset
<1> QED BY <1>3, SumIsUnits

\* Replacing one term replaces it in the sum.
LEMMA SumUpdate ==
    ASSUME NEW S, IsFiniteSet(S), NEW f, NEW g, NEW r \in S,
           \A x \in S : f[x] \in Nat /\ g[x] \in Nat,
           \A x \in S \ {r} : f[x] = g[x]
    PROVE  SumOver(f, S) - f[r] = SumOver(g, S) - g[r]
<1>1. Units(f, S \ {r}) = Units(g, S \ {r})
  BY DEF Units
<1>2. IsFiniteSet(Units(f, S \ {r})) /\ IsFiniteSet(Units(g, S \ {r}))
  BY FiniteUnits
<1> f[r] \in Nat /\ g[r] \in Nat
  OBVIOUS
<1>3. Cardinality(Units(f, S)) = f[r] + Cardinality(Units(f, S \ {r}))
  BY <1>2, MoreUnits
<1>4. Cardinality(Units(g, S)) = g[r] + Cardinality(Units(g, S \ {r}))
  BY <1>2, MoreUnits
<1>6. SumOver(f, S) = Cardinality(Units(f, S))
  BY SumIsUnits
<1>7. SumOver(g, S) = Cardinality(Units(g, S))
  BY SumIsUnits
<1>5. Cardinality(Units(f, S \ {r})) \in Nat
  BY <1>2, FS_CardinalityType
<1> QED BY <1>1, <1>3, <1>4, <1>5, <1>6, <1>7

-----------------------------------------------------------------------------
\* "Refunded" on the customer's page.

Booked == SumOver(refundOf, Requests)

\* A request for an amount is settled by that amount, one for all that is held
\* by no less than what was taken: on the log, and at the processor.
RefundRows ==
    /\ log.refund = Booked
    /\ Captured = 0 => log.refund = 0
    /\ payState = "refunded" => log.refund >= Captured

RefundRow(r) ==
    /\ paidOut[r] > 0 => Captured > 0
    /\ paidOut[r] > 0 /\ ask[r] # All => paidOut[r] = ask[r]
    /\ paidOut[r] > 0 /\ ask[r] = All => Sent >= Captured
    /\ refundOf[r] > 0 /\ ask[r] # All => refundOf[r] = ask[r]
    /\ refundOf[r] > 0 /\ ask[r] = All => log.refund >= Captured

\* What a request carries to make it so.
RefundJob(w) ==
    /\ pc[w] \in Sending =>
         /\ ask[job[w].row] # Unasked
         /\ ask[job[w].row] # All => job[w].amt = ask[job[w].row]
         /\ ask[job[w].row] = All => /\ log.refund + job[w].amt >= Captured
                                     /\ Sent + job[w].amt >= Captured
    /\ pc[w] = "commitRefund" /\ job[w].col = "refunded" =>
         log.refund + job[w].amt >= Captured
    /\ pc[w] = "commitHold" /\ hold = "open" => job[w].col # "refunded"

RefundInv == /\ RefundRows
             /\ \A r \in Requests : RefundRow(r)
             /\ \A w \in Workers : RefundJob(w)

\* What the proofs below start from.
Known == TypeOK /\ JobInv /\ TakenInv /\ HoldIffAuthorized /\ LogMatchesProvider

\* The two sums are natural numbers.
LEMMA SumTypes ==
    ASSUME TypeOK
    PROVE  /\ Sent \in Nat /\ \A r \in Requests : paidOut[r] <= Sent
           /\ Booked \in Nat /\ \A r \in Requests : refundOf[r] <= Booked
<1>1. (\A r \in Requests : paidOut[r] \in Nat) /\ (\A r \in Requests : refundOf[r] \in Nat)
  BY DEF TypeOK
<1> QED BY <1>1, SumFacts, RequestsAssumption DEF Sent, Booked

\* Once money was taken no more is.
LEMMA CapturedStays ==
    ASSUME TypeOK, TakenInv, HoldIffAuthorized, [Next]_vars, Captured > 0
    PROVE  Captured' = Captured /\ hold' = hold
<1>0. payState \notin {"unpaid", "authorized"} /\ hold # "open"
  BY DEF TakenInv, HoldIffAuthorized
<1>1. hold' = hold
  BY <1>0, HoldFrame
<1>2. ASSUME NEW w \in Workers, CommitPayment(w) PROVE log'.payment = log.payment
  BY <1>0, <1>2 DEF CommitPayment
<1>3. ASSUME NEW w \in Workers, CommitHold(w) PROVE log'.payment = log.payment
  BY <1>3 DEF CommitHold
<1>4. ASSUME NEW w \in Workers, CommitRefund(w) \/ WriteRefundReversal(w)
      PROVE  log'.payment = log.payment
  BY <1>4 DEF CommitRefund, WriteRefundReversal, TypeOK
<1>5. log'.payment = log.payment
  BY <1>2, <1>3, <1>4, TakenFrame
<1> QED BY <1>1, <1>5 DEF Captured

\* A refund is booked by one transaction only, sent by one call only, and a
\* request once written is not written again.
LEMMA RefundWrites ==
    ASSUME TypeOK, [Next]_vars
    PROVE  /\ \/ \E w \in Workers : CommitRefund(w)
              \/ refundOf' = refundOf /\ log'.refund = log.refund
           /\ \/ \E w \in Workers : SendRefund(w)
              \/ paidOut' = paidOut
           /\ \A r \in Requests : ask[r] # Unasked => ask'[r] = ask[r]
<1> DEFINE Same == refundOf' = refundOf /\ log'.refund = log.refund
           Kept == \A r \in Requests : ask[r] # Unasked => ask'[r] = ask[r]
<1>1. ASSUME NEW w \in Workers, Start(w) PROVE Same /\ paidOut' = paidOut /\ Kept
  BY <1>1 DEF Start, ReadAndDecide, RetryRefund, RetryHold, ReadBalance,
              ReadAdjustable, ReadComp, ReadRefundable, ReadRefund
<1>2. ASSUME NEW w \in Workers, Step(w), ~CommitRefund(w) PROVE Same
  <2>1. CASE CommitPayment(w) \/ WriteAdjustment(w) \/ WriteReversal(w)
               \/ WriteRefundReversal(w)
    BY <2>1 DEF CommitPayment, WriteAdjustment, WriteReversal, WriteRefundReversal, TypeOK
  <2> QED BY <1>2, <2>1 DEF Step, CommitMove, FindRefund, SendRefund, BookRefund,
          FindHold, ChargeCard, BookHold, CommitHold, WriteRequest
<1>3. ASSUME NEW w \in Workers, Step(w), ~SendRefund(w) PROVE paidOut' = paidOut
  BY <1>3 DEF Step, CommitMove, FindRefund, BookRefund, CommitRefund,
              FindHold, ChargeCard, BookHold, CommitHold, CommitPayment,
              WriteAdjustment, WriteReversal, WriteRequest, WriteRefundReversal
<1>4. ASSUME NEW w \in Workers, Step(w) PROVE Kept
  <2>1. CASE CommitMove(w)
    BY <2>1 DEF CommitMove, TypeOK
  <2>2. CASE WriteRequest(w)
    BY <2>2 DEF WriteRequest, TypeOK
  <2> QED BY <1>4, <2>1, <2>2 DEF Step, FindRefund, SendRefund, BookRefund, CommitRefund,
          FindHold, ChargeCard, BookHold, CommitHold, CommitPayment,
          WriteAdjustment, WriteReversal, WriteRefundReversal
<1>5. ASSUME NEW w \in Workers, Crash(w) PROVE Same /\ paidOut' = paidOut /\ Kept
  BY <1>5 DEF Crash
<1>6. UNCHANGED vars => Same /\ paidOut' = paidOut /\ Kept
  BY DEF vars
<1> QED BY <1>1, <1>2, <1>3, <1>4, <1>5, <1>6 DEF Next

\* What is booked and what was sent only grow.
LEMMA RefundsGrow ==
    ASSUME TypeOK, TypeOK', [Next]_vars
    PROVE  /\ log'.refund >= log.refund /\ Sent' >= Sent
           /\ \A r \in Requests : paidOut'[r] >= paidOut[r]
<1>1. log'.refund >= log.refund
  <2>1. ASSUME NEW w \in Workers, CommitRefund(w) PROVE log'.refund >= log.refund
    <3>1. job[w].amt \in Nat
      BY DEF TypeOK, Jobs
    <3> QED BY <2>1, <3>1 DEF CommitRefund, TypeOK
  <2> QED BY <2>1, RefundWrites DEF TypeOK
<1>2. \A r \in Requests : paidOut'[r] >= paidOut[r]
  <2>1. ASSUME NEW w \in Workers, SendRefund(w), NEW r \in Requests
        PROVE  paidOut'[r] >= paidOut[r]
    BY <2>1 DEF SendRefund, Sends, Declines, TypeOK, Jobs
  <2> QED BY <2>1, RefundWrites DEF TypeOK
<1>3. Sent <= Sent'
  <2>1. \A r \in Requests : /\ paidOut[r] \in Nat /\ paidOut'[r] \in Nat
                            /\ paidOut[r] <= paidOut'[r]
    BY <1>2 DEF TypeOK
  <2> QED BY <2>1, SumGrows, RequestsAssumption DEF Sent
<1>4. Sent \in Nat /\ Sent' \in Nat
  <2>1. (\A r \in Requests : paidOut[r] \in Nat) /\ (\A r \in Requests : paidOut'[r] \in Nat)
    BY DEF TypeOK
  <2> QED BY <2>1, SumFacts, RequestsAssumption DEF Sent
<1> QED BY <1>1, <1>2, <1>3, <1>4

\* While less than everything was booked, the processor has sent what is booked
\* and perhaps more.
LEMMA SentBeforeBooked ==
    ASSUME Known, RefundInv, log.refund < Captured
    PROVE  log.refund <= Sent
<1>1. ASSUME NEW r \in Requests PROVE refundOf[r] <= paidOut[r]
  <2>1. refundOf[r] \in Nat /\ paidOut[r] \in Nat
    BY DEF Known, TypeOK
  <2>2. CASE refundOf[r] > 0
    <3>1. paidOut[r] > 0 /\ ask[r] # All
      BY <2>2, SumTypes, BalanceType DEF Known, RefundInv, RefundRow, LogMatchesProvider, TypeOK
    <3> QED BY <2>1, <2>2, <3>1 DEF RefundInv, RefundRow
  <2> QED BY <2>1, <2>2
<1>2. \A r \in Requests : refundOf[r] \in Nat /\ paidOut[r] \in Nat
  BY DEF Known, TypeOK
<1>3. Booked <= Sent
  BY <1>1, <1>2, SumGrows, RequestsAssumption DEF Booked, Sent
<1> QED BY <1>3 DEF RefundInv, RefundRows

\* A request for all that is held asks for what brings both sums up to it.
LEMMA AsksForTheRest ==
    ASSUME Known, RefundInv, Collected > 0, NEW r \in Requests, ask[r] = All
    PROVE  log.refund + Asked(r) = Captured /\ Sent + Asked(r) >= Captured
<1>1. Captured \in Nat /\ Sent \in Nat /\ log.refund \in Nat
  BY BalanceType, SumTypes DEF Known, TypeOK
<1>2. log.refund < Captured /\ Asked(r) = Captured - log.refund
  BY <1>1 DEF Collected, Minus, Asked
<1> QED BY <1>1, <1>2, SentBeforeBooked

\* What a request keeps while another one steps.
LEMMA RefundJobStays ==
    ASSUME Known, TypeOK', RefundInv, [Next]_vars, NEW x \in Workers,
           pc'[x] = pc[x], job'[x] = job[x]
    PROVE  RefundJob(x)'
<1> USE DEF Known
<1>1. /\ Captured \in Nat /\ Sent \in Nat /\ Sent' \in Nat
      /\ log.refund \in Nat /\ log'.refund \in Nat /\ job[x].amt \in Nat
  <2>1. Captured \in Nat /\ Sent \in Nat /\ log.refund \in Nat /\ log'.refund \in Nat
    BY BalanceType, SumTypes DEF TypeOK
  <2>2. \A r \in Requests : paidOut'[r] \in Nat
    BY DEF TypeOK
  <2> QED BY <2>1, <2>2, SumFacts, RequestsAssumption DEF Sent, TypeOK, Jobs
<1>2. RefundJob(x)
  BY DEF RefundInv
<1>3. pc[x] \in Sending => Captured' = Captured /\ job[x].row \in Requests
  BY CapturedStays DEF TakenInv, JobInv, Sending
<1>4. log'.refund >= log.refund /\ Sent' >= Sent
  BY RefundsGrow
<1>5. \A r \in Requests : ask[r] # Unasked => ask'[r] = ask[r]
  BY RefundWrites
<1>6. hold' = "open" => hold = "open"
  BY HoldFrame
<1>7. pc[x] \in Sending =>
        /\ ask'[job[x].row] = ask[job[x].row]
        /\ ask[job[x].row] = All => /\ log'.refund + job[x].amt >= Captured
                                    /\ Sent' + job[x].amt >= Captured
  BY <1>1, <1>2, <1>3, <1>4, <1>5 DEF RefundJob
<1>8. pc[x] = "commitRefund" /\ job[x].col = "refunded" => log'.refund + job[x].amt >= Captured
  BY <1>1, <1>2, <1>4 DEF RefundJob
<1> QED BY <1>2, <1>3, <1>6, <1>7, <1>8 DEF RefundJob, Sending

\* What a request carries after its own step.
LEMMA RefundJobMoves ==
    ASSUME Known, TypeOK', RefundInv, NEW w \in Workers, Start(w) \/ Step(w) \/ Crash(w)
    PROVE  RefundJob(w)'
<1> USE DEF Known
<1>0. [Next]_vars
  BY DEF Next
<1>t. /\ Captured \in Nat /\ Sent \in Nat /\ Sent' \in Nat /\ Authorized \in Nat
      /\ log.refund \in Nat /\ log'.refund \in Nat /\ job[w].amt \in Nat /\ job[w] \in Jobs
  <2>1. /\ Captured \in Nat /\ Sent \in Nat /\ log.refund \in Nat /\ log'.refund \in Nat
        /\ Authorized \in Nat
    BY BalanceType, SumTypes DEF TypeOK
  <2>2. \A r \in Requests : paidOut'[r] \in Nat
    BY DEF TypeOK
  <2> QED BY <2>1, <2>2, SumFacts, RequestsAssumption DEF Sent, TypeOK, Jobs
<1>1. RefundJob(w)
  BY DEF RefundInv
<1>2. log'.refund >= log.refund /\ Sent' >= Sent
  BY <1>0, RefundsGrow
<1>3. \A r \in Requests : ask[r] # Unasked => ask'[r] = ask[r]
  BY <1>0, RefundWrites
<1>4. CASE pc'[w] \notin Sending \cup {"commitHold"}
  BY <1>4 DEF RefundJob, Sending
<1>5. CASE FindRefund(w) /\ pc'[w] = "send"
  <2>1. PICK r \in Candidates(w) :
           /\ Collected > 0
           /\ Goto(w, "send", [job[w] EXCEPT !.row = r, !.amt = Asked(r)])
    <3>1. ~AfterRefund(w)
      BY <1>5, AfterRefundFrame
    <3> QED BY <1>5, <3>1, Zenon DEF FindRefund
  <2>2. r \in Requests /\ ask[r] # Unasked /\ ask'[r] = ask[r]
    BY <1>3 DEF Candidates, Pending
  <2>3. job'[w].row = r /\ job'[w].amt = Asked(r)
    <3>1. job'[w] = [job[w] EXCEPT !.row = r, !.amt = Asked(r)]
      BY <2>1, GotoFrame
    <3> QED BY <3>1, <1>t, JobFields
  <2>4. Captured' = Captured
    BY <1>0, <2>1, CollectedNeedsCaptured, CapturedStays
  <2>5. ask[r] = All => /\ log'.refund + Asked(r) >= Captured
                        /\ Sent' + Asked(r) >= Captured
    <3>1. Asked(r) \in Nat
      BY <2>2, BalanceType DEF Asked, TypeOK
    <3> QED BY <1>t, <1>2, <2>1, <2>2, <3>1, AsksForTheRest
  <2>6. ask[r] # All => Asked(r) = ask[r]
    BY DEF Asked
  <2> QED BY <1>5, <2>2, <2>3, <2>4, <2>5, <2>6 DEF RefundJob, Sending
<1>6. CASE SendRefund(w) /\ pc'[w] = "bookRefund"
  <2>1. job'[w] = job[w] /\ pc[w] = "send"
    BY <1>6, Carries DEF SendRefund
  <2>2. job[w].row \in Requests /\ Captured' = Captured
    BY <1>0, <2>1, CapturedStays DEF TakenInv, JobInv
  <2> QED BY <1>t, <1>1, <1>2, <1>3, <1>6, <2>1, <2>2 DEF RefundJob, Sending
<1>7. CASE BookRefund(w)
  <2>1. /\ pc[w] = "bookRefund" /\ pc'[w] = "commitRefund"
        /\ job'[w].row = job[w].row
        /\ job'[w].col = Derive(Captured, log.refund + job[w].amt, Authorized)
    BY <1>7, Carries DEF BookRefund
  <2>2. job'[w].amt = job[w].amt
    <3>1. job'[w] = [job[w] EXCEPT !.col = Derive(Captured, log.refund + job[w].amt, Authorized)]
      BY <1>7, GotoFrame DEF BookRefund
    <3> QED BY <3>1, <1>t, JobFields
  <2>3. job[w].row \in Requests /\ Captured > 0 /\ Captured' = Captured
    BY <1>0, <2>1, CapturedStays DEF TakenInv, JobInv
  <2>4. job'[w].col = "refunded" => log.refund + job[w].amt >= Captured
    BY <2>1, <2>3, <1>t DEF Derive
  <2> QED BY <1>t, <1>1, <1>2, <1>3, <2>1, <2>2, <2>3, <2>4 DEF RefundJob, Sending
<1>8. CASE BookHold(w)
  <2>1. /\ pc'[w] = "commitHold"
        /\ job'[w].col = Derive(Captured + (IF job[w].settle = "capture" THEN Total ELSE 0),
                                log.refund, Minus(Authorized, Total))
        /\ hold' = hold
    BY <1>8, Carries DEF BookHold
  <2>2. hold = "open" => Captured = 0 /\ log.refund = 0
    BY DEF TakenInv, HoldIffAuthorized, RefundInv, RefundRows
  <2>3. hold = "open" => job'[w].col # "refunded"
    BY <2>1, <2>2, TotalAssumption DEF Derive
  <2> QED BY <2>1, <2>3 DEF RefundJob, Sending
<1>9. CASE Start(w) \/ Crash(w)
  BY <1>4, <1>9, Carries DEF Start, Sending
<1>10. CASE Step(w) /\ ~BookRefund(w) /\ ~BookHold(w)
  BY <1>4, <1>5, <1>6, <1>10, Carries DEF Step, Sending
<1> QED BY <1>7, <1>8, <1>9, <1>10

\* The rows after a refund is booked.
LEMMA BookedRows ==
    ASSUME Known, TypeOK', RefundInv, NEW w \in Workers, CommitRefund(w)
    PROVE  RefundRows' /\ \A r \in Requests : RefundRow(r)'
<1> USE DEF Known
<1> DEFINE q == job[w].row
           a == job[w].amt
<1>0. [Next]_vars
  BY DEF Next, Step
<1>1. pc[w] = "commitRefund" /\ q \in Requests /\ a \in Nat /\ a > 0 /\ Captured > 0
  BY DEF CommitRefund, JobInv, TakenInv, TypeOK, Jobs
<1>2. Captured' = Captured
  BY <1>0, <1>1, CapturedStays
<1>3. UNCHANGED <<ask, paidOut>>
  BY DEF CommitRefund
<1>4. Sent' = Sent
  BY <1>3 DEF Sent
<1>t. Captured \in Nat /\ Sent \in Nat /\ log.refund \in Nat
  BY BalanceType, SumTypes DEF TypeOK
<1>5. CASE refundOf[q] # 0
  <2>1. UNCHANGED <<payState, log, refundOf>>
    BY <1>5 DEF CommitRefund
  <2>2. Booked' = Booked
    BY <2>1 DEF Booked
  <2> QED BY <1>2, <1>3, <1>4, <2>1, <2>2 DEF RefundInv, RefundRows, RefundRow
<1>6. CASE refundOf[q] = 0
  <2>1. /\ refundOf' = [refundOf EXCEPT ![q] = a]
        /\ log'.refund = log.refund + a
        /\ payState' = job[w].col
    BY <1>6 DEF CommitRefund, TypeOK
  <2>2. Booked' = Booked + a
    <3>1. \A r \in Requests : refundOf[r] \in Nat /\ refundOf'[r] \in Nat
      BY DEF TypeOK
    <3>2. refundOf'[q] = a /\ \A r \in Requests \ {q} : refundOf[r] = refundOf'[r]
      BY <1>1, <2>1 DEF TypeOK
    <3> HIDE DEF q, a
    <3>3. SumOver(refundOf, Requests) - refundOf[q] = SumOver(refundOf', Requests) - refundOf'[q]
      BY <1>1, <3>1, <3>2, SumUpdate, RequestsAssumption
    <3>4. SumOver(refundOf, Requests) \in Nat /\ SumOver(refundOf', Requests) \in Nat
      BY <3>1, SumFacts, RequestsAssumption
    <3> QED BY <1>1, <1>6, <3>2, <3>3, <3>4 DEF Booked
  <2>3. job[w].col = "refunded" => log.refund + a >= Captured
    BY <1>1 DEF RefundInv, RefundJob
  <2>4. /\ ask[q] # All => a = ask[q]
        /\ ask[q] = All => log.refund + a >= Captured
    BY <1>1 DEF RefundInv, RefundJob, Sending
  <2>5. RefundRows'
    BY <1>t, <1>1, <1>2, <2>1, <2>2, <2>3 DEF RefundInv, RefundRows
  <2>6. ASSUME NEW r \in Requests PROVE RefundRow(r)'
    <3>1. CASE r = q
      BY <3>1, <1>2, <1>3, <1>4, <1>1, <2>1, <2>4 DEF RefundInv, RefundRow, TypeOK
    <3>2. CASE r # q
      <4>1. refundOf'[r] = refundOf[r]
        BY <3>2, <2>1 DEF TypeOK
      <4> QED BY <4>1, <1>t, <1>1, <1>2, <1>3, <1>4, <2>1 DEF RefundInv, RefundRow
    <3> QED BY <3>1, <3>2
  <2> QED BY <2>5, <2>6
<1> QED BY <1>5, <1>6

\* The rows after the processor was asked to send one.
LEMMA SentRows ==
    ASSUME Known, TypeOK', RefundInv, NEW w \in Workers, SendRefund(w)
    PROVE  RefundRows' /\ \A r \in Requests : RefundRow(r)'
<1> USE DEF Known
<1> DEFINE q == job[w].row
           a == job[w].amt
<1>0. [Next]_vars
  BY DEF Next, Step
<1>1. pc[w] = "send" /\ q \in Requests /\ a \in Nat /\ a > 0 /\ Captured > 0
  BY DEF SendRefund, JobInv, TakenInv, TypeOK, Jobs
<1>2. Captured' = Captured
  BY <1>0, <1>1, CapturedStays
<1>3. UNCHANGED <<payState, log, ask, refundOf>>
  BY DEF SendRefund
<1>4. Booked' = Booked
  BY <1>3 DEF Booked
<1>5. RefundRows'
  BY <1>2, <1>3, <1>4 DEF RefundInv, RefundRows
<1>6. Captured \in Nat /\ Sent \in Nat /\ Sent' \in Nat /\ Sent' >= Sent
  <2>1. \A r \in Requests : paidOut'[r] \in Nat
    BY DEF TypeOK
  <2>2. Sent' \in Nat
    BY <2>1, SumFacts, RequestsAssumption DEF Sent
  <2> QED BY <2>2, <1>0, BalanceType, SumTypes, RefundsGrow
<1>7. ASSUME NEW r \in Requests PROVE RefundRow(r)'
  <2>1. CASE paidOut'[r] = paidOut[r]
    BY <1>2, <1>3, <1>6, <2>1 DEF RefundInv, RefundRow
  <2>2. CASE paidOut'[r] # paidOut[r]
    <3>1. r = q /\ paidOut[q] = 0 /\ paidOut' = [paidOut EXCEPT ![q] = a]
      BY <2>2, <1>1 DEF SendRefund, Sends, Declines, TypeOK
    <3>2. paidOut'[q] = a
      BY <3>1, <1>1 DEF TypeOK
    <3>3. Sent' = Sent + a
      <4>1. \A x \in Requests : paidOut[x] \in Nat /\ paidOut'[x] \in Nat
        BY DEF TypeOK
      <4>2. \A x \in Requests \ {q} : paidOut[x] = paidOut'[x]
        BY <3>1 DEF TypeOK
      <4> HIDE DEF q, a
      <4>3. SumOver(paidOut, Requests) - paidOut[q] = SumOver(paidOut', Requests) - paidOut'[q]
        BY <1>1, <4>1, <4>2, SumUpdate, RequestsAssumption
      <4> QED BY <1>1, <1>6, <3>1, <3>2, <4>3 DEF Sent
    <3>4. /\ ask[q] # All => a = ask[q]
          /\ ask[q] = All => Sent + a >= Captured
      BY <1>1 DEF RefundInv, RefundJob, Sending
    <3> QED BY <1>1, <1>2, <1>3, <3>1, <3>2, <3>3, <3>4 DEF RefundInv, RefundRow
  <2> QED BY <2>1, <2>2
<1> QED BY <1>5, <1>7

\* The rows after money came in, and after any other step: where nothing was
\* taken nothing was refunded or sent, so nothing is to be refunded in full.
LEMMA OtherRows ==
    ASSUME Known, TypeOK', RefundInv, [Next]_vars,
           \A w \in Workers : ~CommitRefund(w) /\ ~SendRefund(w)
    PROVE  RefundRows' /\ \A r \in Requests : RefundRow(r)'
<1> USE DEF Known
<1>1. refundOf' = refundOf /\ log'.refund = log.refund /\ paidOut' = paidOut
  BY RefundWrites
<1>2. Booked' = Booked /\ Sent' = Sent
  BY <1>1 DEF Booked, Sent
<1>t. /\ Captured \in Nat /\ Captured' \in Nat /\ log.refund \in Nat
      /\ \A r \in Requests : paidOut[r] \in Nat /\ refundOf[r] \in Nat
  <2>1. Captured' \in Nat
    BY TotalAssumption DEF TypeOK, Captured
  <2> QED BY <2>1, BalanceType DEF TypeOK
<1>3. Captured' >= Captured
  BY CapturedNext
<1>4. \A r \in Requests : ask[r] # Unasked => ask'[r] = ask[r]
  BY RefundWrites
<1>5. payState' = "refunded" => payState = "refunded" /\ Captured' = Captured
  <2>1. ASSUME NEW w \in Workers, CommitPayment(w), payState' = "refunded"
        PROVE  payState = "refunded" /\ Captured' = Captured
    BY <2>1 DEF CommitPayment, Captured
  <2>2. ASSUME NEW w \in Workers, CommitHold(w), payState' = "refunded"
        PROVE  payState = "refunded" /\ Captured' = Captured
    <3>1. hold # "open"
      BY <2>2 DEF CommitHold, RefundInv, RefundJob
    <3> QED BY <2>2, <3>1 DEF CommitHold, Captured
  <2>3. ASSUME NEW w \in Workers, WriteRefundReversal(w), payState' = "refunded"
        PROVE  payState = "refunded" /\ Captured' = Captured
    BY <2>3 DEF WriteRefundReversal, Captured, TypeOK
  <2> QED BY <2>1, <2>2, <2>3, TakenFrame DEF Captured
<1>6. CASE Captured = 0
  <2>1. \A r \in Requests : paidOut'[r] = 0 /\ refundOf'[r] = 0
    BY <1>6, <1>1, <1>t DEF RefundInv, RefundRow, TakenInv
  <2>2. log'.refund = 0
    BY <1>6, <1>1 DEF RefundInv, RefundRows
  <2>3. RefundRows'
    BY <1>1, <1>2, <1>5, <1>6, <2>2 DEF RefundInv, RefundRows
  <2> QED BY <2>1, <2>3 DEF RefundRow
<1>7. CASE Captured > 0
  <2>1. Captured' = Captured
    BY <1>7, CapturedStays
  <2>2. RefundRows'
    BY <1>1, <1>2, <1>5, <1>7, <2>1 DEF RefundInv, RefundRows
  <2>3. ASSUME NEW r \in Requests PROVE RefundRow(r)'
    <3>1. CASE ask[r] # Unasked
      BY <3>1, <1>1, <1>2, <1>4, <2>1 DEF RefundInv, RefundRow
    <3>2. CASE ask[r] = Unasked
      <4>1. paidOut[r] = 0 /\ refundOf[r] = 0
        BY <3>2, <1>t, AllAssumption DEF RefundInv, RefundRow, Unasked
      <4> QED BY <4>1, <1>1 DEF RefundRow
    <3> QED BY <3>1, <3>2
  <2> QED BY <2>2, <2>3
<1> QED BY <1>t, <1>6, <1>7

\* The step: rows and requests keep the two sums what the column says.
LEMMA RefundStep ==
    Known /\ TypeOK' /\ RefundInv /\ [Next]_vars => RefundInv'
<1> SUFFICES ASSUME Known, TypeOK', RefundInv, [Next]_vars PROVE RefundInv'
  OBVIOUS
<1>1. RefundRows' /\ \A r \in Requests : RefundRow(r)'
  BY BookedRows, SentRows, OtherRows
<1>2. ASSUME NEW x \in Workers PROVE RefundJob(x)'
  <2>1. CASE UNCHANGED vars
    BY <2>1, RefundJobStays DEF vars
  <2>2. ASSUME NEW w \in Workers, Start(w) \/ Step(w) \/ Crash(w) PROVE RefundJob(x)'
    <3>1. CASE x = w
      BY <3>1, <2>2, RefundJobMoves
    <3>2. CASE x # w
      BY <3>2, <2>2, OthersStay, RefundJobStays DEF Known
    <3> QED BY <3>1, <3>2
  <2> QED BY <2>1, <2>2 DEF Next
<1> QED BY <1>1, <1>2 DEF RefundInv

\* A new order has nothing booked, sent or asked.
LEMMA RefundInit == Init => RefundInv
<1> SUFFICES ASSUME Init PROVE RefundInv
  OBVIOUS
<1>1. TypeOK
  BY TypeInit
<1>2. Booked = 0
  <2>1. \A r \in Requests : refundOf[r] = 0
    BY DEF Init
  <2>2. Units(refundOf, Requests) = {}
    BY <2>1 DEF Units
  <2>3. Booked = Cardinality(Units(refundOf, Requests))
    BY <2>1, SumIsUnits, RequestsAssumption DEF Booked
  <2> QED BY <2>2, <2>3, FS_EmptySet
<1>3. RefundRows
  BY <1>2 DEF Init, RefundRows
<1>4. \A r \in Requests : RefundRow(r)
  BY DEF Init, RefundRow
<1>5. \A w \in Workers : RefundJob(w)
  BY DEF Init, RefundJob, Sending
<1> QED BY <1>3, <1>4, <1>5 DEF RefundInv

\* What the next theorems start from is always so.
LEMMA KnownAlways == Spec => [](Known /\ RefundInv)
<1>1. TypeOK /\ JobInv /\ TakenInv /\ HoldIffAuthorized /\ LogMatchesProvider => Known
  BY DEF Known
<1>2. Known => TypeOK /\ JobInv
  BY DEF Known
<1> QED BY <1>1, <1>2, RefundInit, RefundStep, TypeStep, Typed, TakenAlways,
           ProviderAlways, PTL DEF Spec

\* A customer who reads "Refunded" was sent, by the processor, everything that
\* was taken, however many refunds of whatever amounts were asked for, raced,
\* failed and were retried (settleRefund, the status page's sentence).
THEOREM RefundedMeansSent == Spec => []RefundedIsTrue
<1>1. Known /\ RefundInv => RefundedIsTrue
  <2> SUFFICES ASSUME Known, RefundInv, Sentence = "refunded" PROVE Sent >= Captured
    BY DEF RefundedIsTrue
  <2> USE DEF Known
  <2>1. payState = "refunded"
    BY DEF Sentence
  <2>2. log.refund >= Captured
    BY <2>1 DEF RefundInv, RefundRows
  <2>t. /\ Captured \in Nat /\ Sent \in Nat /\ Booked \in Nat
        /\ \A r \in Requests : paidOut[r] \in Nat /\ refundOf[r] \in Nat
    BY BalanceType, SumTypes DEF TypeOK
  <2>3. CASE \E r \in Requests : refundOf[r] > 0 /\ ask[r] = All
    <3> PICK r \in Requests : refundOf[r] > 0 /\ ask[r] = All
      BY <2>3
    <3> QED BY DEF RefundInv, RefundRow, LogMatchesProvider
  <2>4. CASE \A r \in Requests : refundOf[r] > 0 => ask[r] # All
    <3>1. ASSUME NEW r \in Requests PROVE refundOf[r] <= paidOut[r]
      <4>1. CASE refundOf[r] > 0
        BY <4>1, <2>4, <2>t DEF RefundInv, RefundRow, LogMatchesProvider
      <4> QED BY <4>1, <2>t
    <3>2. Booked <= Sent
      BY <3>1, <2>t, SumGrows, RequestsAssumption DEF Booked, Sent
    <3> QED BY <3>2, <2>2, <2>t DEF RefundInv, RefundRows
  <2> QED BY <2>3, <2>4
<1> QED BY <1>1, KnownAlways, PTL

-----------------------------------------------------------------------------
\* The panels of the receipt.

\* Until something is reversed, money taken and comps cover the order; and
\* whoever is at the counter takes what the comps leave.
BalanceRows ==
    /\ Reversals = 0 /\ Captured > 0 => Captured + log.adjustment >= Total
    /\ payState \in {"paid", "refunded"} => Captured > 0

BalanceJob(w) ==
    pc[w] = "collect" =>
        /\ job[w].amt > 0
        /\ Reversals = 0 /\ Captured = 0 => job[w].amt + log.adjustment >= Total

BalanceInv == BalanceRows /\ \A w \in Workers : BalanceJob(w)

\* Comps and reversals are rows that stay.
LEMMA AdjustmentsGrow ==
    ASSUME TypeOK, TypeOK', [Next]_vars
    PROVE  log'.adjustment >= log.adjustment /\ (Reversals' = 0 => Reversals = 0)
<1> DEFINE Grows == /\ log'.adjustment >= log.adjustment
                    /\ log'.adjustment_reversed >= log.adjustment_reversed
                    /\ log'.refund_reversed >= log.refund_reversed
<1>1. log' = log => Grows
  BY DEF TypeOK
<1>2. ASSUME NEW w \in Workers, Start(w) \/ Crash(w) PROVE log' = log
  BY <1>2 DEF Start, ReadAndDecide, RetryRefund, RetryHold, ReadBalance,
              ReadAdjustable, ReadComp, ReadRefundable, ReadRefund, Crash
<1>3. ASSUME NEW w \in Workers, Step(w) PROVE Grows
  <2>0. job[w].amt \in Nat
    BY DEF TypeOK, Jobs
  <2>1. CASE CommitRefund(w) \/ CommitPayment(w)
    BY <2>0, <2>1, <1>1 DEF CommitRefund, CommitPayment, TypeOK
  <2>2. CASE WriteAdjustment(w)
    BY <2>0, <2>2 DEF WriteAdjustment, TypeOK
  <2>3. CASE WriteReversal(w)
    BY <2>0, <2>3 DEF WriteReversal, TypeOK
  <2>4. CASE WriteRefundReversal(w)
    BY <2>0, <2>4, <1>1 DEF WriteRefundReversal, TypeOK
  <2>5. CASE ~(\/ CommitRefund(w) \/ CommitPayment(w) \/ WriteAdjustment(w)
               \/ WriteReversal(w) \/ WriteRefundReversal(w))
    BY <1>1, <1>3, <2>5 DEF Step, CommitMove, FindRefund, SendRefund, BookRefund,
           FindHold, ChargeCard, BookHold, CommitHold, WriteRequest
  <2> QED BY <2>1, <2>2, <2>3, <2>4, <2>5
<1>4. UNCHANGED vars => log' = log
  BY DEF vars
<1>5. Grows
  BY <1>1, <1>2, <1>3, <1>4 DEF Next
<1> QED BY <1>5 DEF Reversals, TypeOK

\* What the counter is asked for covers the order with the comps so far.
LEMMA CountersShare ==
    ASSUME Known, Outstanding > 0
    PROVE  /\ hold # "open"
           /\ Reversals = 0 /\ Captured = 0 => Outstanding + log.adjustment >= Total
<1> USE DEF Known
<1>1. Captured \in Nat /\ Adjusted \in Nat
  BY BalanceType
<1>2. hold # "open"
  BY <1>1, TotalAssumption DEF TypeOK, Outstanding, Minus, Authorized, HoldIffAuthorized, TakenInv
<1>3. Reversals = 0 => log.refund_reversed = 0 /\ Adjusted = log.adjustment
  BY DEF Reversals, Adjusted, Minus, TypeOK
<1> QED BY <1>1, <1>2, <1>3, TotalAssumption DEF TypeOK, Outstanding, Minus, Authorized

\* The rows after any step.
LEMMA BalanceRowsStay ==
    ASSUME Known, TypeOK', BalanceInv, [Next]_vars
    PROVE  BalanceRows'
<1> USE DEF Known
<1>t. Captured \in Nat /\ Captured' \in Nat /\ Total \in Nat
  <2>1. Captured' \in Nat
    BY TotalAssumption DEF TypeOK, Captured
  <2> QED BY <2>1, BalanceType, TotalAssumption
<1>1. log'.adjustment >= log.adjustment /\ (Reversals' = 0 => Reversals = 0)
  BY AdjustmentsGrow
<1>2. CASE Captured > 0
  <2>1. Captured' = Captured
    BY <1>2, CapturedStays
  <2> QED BY <1>t, <1>1, <1>2, <2>1 DEF BalanceInv, BalanceRows, TypeOK
<1>3. CASE Captured = 0
  <2>0. payState \notin {"paid", "refunded"} /\ log.payment = 0 /\ hold # "captured"
    BY <1>3, TotalAssumption DEF BalanceInv, BalanceRows, Captured, TypeOK
  <2>1. ASSUME NEW w \in Workers, CommitPayment(w) PROVE BalanceRows'
    <3>1. /\ job[w].amt \in Nat /\ job[w].amt > 0
          /\ Reversals = 0 => job[w].amt + log.adjustment >= Total
      BY <1>3, <2>1 DEF BalanceInv, BalanceJob, CommitPayment, TypeOK, Jobs
    <3>2. CASE payState = "unpaid"
      <4>1. Captured' = job[w].amt
        BY <2>0, <2>1, <3>1, <3>2 DEF CommitPayment, Captured, TypeOK
      <4> QED BY <1>t, <1>1, <3>1, <4>1 DEF BalanceRows, TypeOK
    <3>3. CASE payState # "unpaid"
      <4>1. Captured' = 0 /\ payState' = payState
        BY <1>3, <2>1, <3>3 DEF CommitPayment, Captured
      <4> QED BY <2>0, <4>1 DEF BalanceRows
    <3> QED BY <3>2, <3>3
  <2>2. ASSUME NEW w \in Workers, CommitHold(w) PROVE BalanceRows'
    <3>1. log' = log
      BY <2>2 DEF CommitHold
    <3>2. CASE hold = "open" /\ job[w].settle = "capture"
      <4>1. Captured' = Total
        BY <2>0, <2>2, <3>1, <3>2, TotalAssumption DEF CommitHold, Captured
      <4> QED BY <1>t, <4>1, TotalAssumption DEF BalanceRows, TypeOK
    <3>3. CASE hold = "open" /\ job[w].settle # "capture"
      <4>1. Captured' = 0 /\ payState' = "unpaid"
        BY <2>0, <2>2, <3>1, <3>3 DEF CommitHold, Captured, TakenInv
      <4> QED BY <4>1 DEF BalanceRows
    <3>4. CASE hold # "open"
      <4>1. Captured' = 0 /\ payState' = payState
        BY <1>3, <2>2, <3>1, <3>4 DEF CommitHold, Captured
      <4> QED BY <2>0, <4>1 DEF BalanceRows
    <3> QED BY <3>2, <3>3, <3>4
  <2>3. ASSUME NEW w \in Workers, CommitRefund(w) \/ WriteRefundReversal(w) PROVE FALSE
    BY <1>3, <2>3 DEF CommitRefund, WriteRefundReversal, TakenInv
  <2>4. CASE UNCHANGED <<payState, hold, refundOf>> /\ log'.payment = log.payment
    <3>1. Captured' = 0 /\ payState' = payState
      BY <1>3, <2>4 DEF Captured
    <3> QED BY <2>0, <3>1 DEF BalanceRows
  <2> QED BY <2>1, <2>2, <2>3, <2>4, TakenFrame
<1> QED BY <1>t, <1>2, <1>3

\* The step.
LEMMA BalanceStep ==
    Known /\ TypeOK' /\ BalanceInv /\ [Next]_vars => BalanceInv'
<1> SUFFICES ASSUME Known, TypeOK', BalanceInv, [Next]_vars PROVE BalanceInv'
  OBVIOUS
<1> USE DEF Known
<1>t. /\ Captured \in Nat /\ Captured' \in Nat /\ Total \in Nat /\ Outstanding \in Nat
      /\ log.adjustment \in Nat /\ log'.adjustment \in Nat
      /\ \A w \in Workers : job[w].amt \in Nat
  <2>1. Captured' \in Nat
    BY TotalAssumption DEF TypeOK, Captured
  <2> QED BY <2>1, BalanceType, TotalAssumption DEF TypeOK, Jobs
<1>1. log'.adjustment >= log.adjustment /\ (Reversals' = 0 => Reversals = 0)
  BY AdjustmentsGrow
<1>2. Captured' >= Captured
  BY CapturedNext
<1>3. ASSUME NEW x \in Workers, pc'[x] = pc[x], job'[x] = job[x] PROVE BalanceJob(x)'
  <2>1. BalanceJob(x) /\ job[x].amt \in Nat
    BY <1>t DEF BalanceInv
  <2>2. Captured' = 0 => Captured = 0
    BY <1>t, <1>2
  <2>3. job[x].amt + log.adjustment >= Total => job[x].amt + log'.adjustment >= Total
    BY <1>t, <1>1, <2>1
  <2> QED BY <1>1, <1>3, <2>1, <2>2, <2>3 DEF BalanceJob
<1>4. ASSUME NEW w \in Workers, Start(w) \/ Step(w) \/ Crash(w) PROVE BalanceJob(w)'
  <2>1. CASE ReadBalance(w)
    <3>1. Outstanding > 0 /\ job'[w].amt = Outstanding
      BY <2>1, Carries DEF ReadBalance, CanCollect
    <3> QED BY <1>t, <1>1, <1>2, <3>1, CountersShare DEF BalanceJob
  <2>2. CASE ~ReadBalance(w)
    <3>1. pc'[w] # "collect"
      BY <1>4, <2>2, Carries DEF Start, Step
    <3> QED BY <3>1 DEF BalanceJob
  <2> QED BY <2>1, <2>2
<1>5. ASSUME NEW x \in Workers PROVE BalanceJob(x)'
  <2>1. CASE UNCHANGED vars
    BY <2>1, <1>3 DEF vars
  <2>2. ASSUME NEW w \in Workers, Start(w) \/ Step(w) \/ Crash(w) PROVE BalanceJob(x)'
    BY <2>2, <1>3, <1>4, OthersStay
  <2> QED BY <2>1, <2>2 DEF Next
<1> QED BY <1>5, BalanceRowsStay DEF BalanceInv

LEMMA BalanceAlways == Spec => []BalanceInv
<1>1. Init => BalanceInv
  BY DEF Init, BalanceInv, BalanceRows, BalanceJob, Captured
<1>2. Known => TypeOK /\ JobInv
  BY DEF Known
<1> QED BY <1>1, <1>2, BalanceStep, TypeStep, KnownAlways, PTL DEF Spec

\* A panel that is drawn is accepted if nobody else acts first, at any counter
\* with any number of requests in the past: the column the collect and hold
\* forms compare and set agrees with the log the panels are drawn from
\* (canCollectPayment, orderBalance, the staff receipt).
THEOREM PanelsAreAccepted ==
    ASSUME AllOps \subseteq Ops PROVE Spec => []ButtonsWork
<1>1. Known /\ BalanceInv => ButtonsWork
  <2> SUFFICES ASSUME Known, BalanceInv, AtRest, NEW w \in Workers
               PROVE  /\ CollectButton /\ Reversals = 0 => TakesPayment(w)
                      /\ HoldIsStuck => SettlesHold(w)
                      /\ TakeOff > 0 => TakesAdjustment(w)
                      /\ PutBack # {} => TakesPutBack(w)
                      /\ SendBack > 0 => TakesRefund(w)
                      /\ ReverseIt # {} => TakesReversal(w)
                      /\ MoveItBack # NoStatus => TakesBack(MoveItBack)
    BY Zenon DEF ButtonsWork
  <2> USE DEF Known
  <2>0. \A op \in AllOps : Starts(w, op)
    BY DEF AtRest
  <2>t. /\ Captured \in Nat /\ Adjusted \in Nat /\ Collected \in Nat /\ Adjustable \in Nat
        /\ \A c \in Comps : CompLeft(c) \in Nat
    BY BalanceType
  <2>1. ASSUME CollectButton, Reversals = 0 PROVE TakesPayment(w)
    <3>1. Outstanding > 0
      BY <2>1 DEF CollectButton, CanCollect
    <3>2. Captured = 0
      <4>1. log.refund_reversed = 0 /\ Adjusted = log.adjustment
        BY <2>1 DEF Reversals, Adjusted, Minus, TypeOK
      <4>2. Captured + log.adjustment < Total
        BY <3>1, <4>1, <2>t, TotalAssumption DEF Outstanding, Minus, Authorized, TypeOK
      <4> QED BY <2>1, <2>t, <4>2, TotalAssumption DEF BalanceInv, BalanceRows, TypeOK
    <3>3. hold # "open"
      BY <3>1, CountersShare
    <3>4. payState = "unpaid"
      BY <3>2, <3>3 DEF BalanceInv, BalanceRows, HoldIffAuthorized, TypeOK, PayStates
    <3> QED BY <2>0, <2>1, <3>4 DEF TakesPayment, CollectButton, AllOps
  <2>2. HoldIsStuck => SettlesHold(w)
    BY <2>0 DEF HoldIsStuck, SettlesHold, HoldIffAuthorized, AllOps
  <2>3. TakeOff > 0 => TakesAdjustment(w)
    BY <2>0, <2>t DEF TakeOff, TakesAdjustment, AllOps
  <2>4. PutBack # {} => TakesPutBack(w)
    BY <2>0, <2>t DEF PutBack, TakesPutBack, AllOps
  <2>5. SendBack > 0 => TakesRefund(w)
    BY <2>0, <2>t DEF SendBack, TakesRefund, AllOps
  <2>6. ReverseIt # {} => TakesReversal(w)
    BY <2>0 DEF ReverseIt, TakesReversal, AllOps
  <2>7. MoveItBack # NoStatus => TakesBack(MoveItBack)
    BY DEF MoveItBack, TakesBack, Permits, Terminal, PreviousOf, Status, NoStatus
  <2> QED BY <2>1, <2>2, <2>3, <2>4, <2>5, <2>6, <2>7
<1> QED BY <1>1, BalanceAlways, KnownAlways, PTL

-----------------------------------------------------------------------------
\* What overlapping requests can spoil, and which overlap it takes.

\* What the theorems of this section start from.
Base == Known /\ RefundInv /\ BalanceInv

LEMMA BaseAlways == Spec => []Base
<1>1. Known /\ RefundInv /\ BalanceInv => Base
  BY DEF Base
<1> QED BY <1>1, KnownAlways, BalanceAlways, PTL

\* A step that leaves the rows the figures are read from leaves the figures.
LEMMA FiguresStay ==
    ASSUME UNCHANGED hold, log'.payment = log.payment, log'.refund = log.refund
    PROVE  /\ Captured' = Captured /\ Authorized' = Authorized /\ Collected' = Collected
BY DEF Captured, Authorized, Collected

\* Three transactions write the figures the column is derived from.
LEMMA FiguresWritten ==
    ASSUME TypeOK, [Next]_vars
    PROVE  \/ \E w \in Workers : CommitPayment(w) \/ CommitHold(w) \/ CommitRefund(w)
           \/ /\ UNCHANGED <<payState, hold>>
              /\ log'.payment = log.payment /\ log'.refund = log.refund
<1>1. ASSUME NEW w \in Workers, WriteRefundReversal(w)
      PROVE  /\ UNCHANGED <<payState, hold>>
             /\ log'.payment = log.payment /\ log'.refund = log.refund
  BY <1>1 DEF WriteRefundReversal, TypeOK
<1> QED BY <1>1, TakenFrame, RefundWrites

\* More is captured only by a request that was taking, and only where nothing was.
LEMMA CapturedByTaking ==
    ASSUME Known, [Next]_vars, Captured' # Captured
    PROVE  Captured = 0 /\ \E w \in Workers : Taking(w)
<1> USE DEF Known
<1>1. Captured = 0
  BY CapturedStays, BalanceType
<1>2. CASE hold' # hold
  <2>1. PICK w \in Workers :
           /\ pc[w] = "commitHold" /\ hold = "open"
           /\ hold' = IF job[w].settle = "capture" THEN "captured" ELSE "voided"
           /\ CommitHold(w)
    BY <1>2, HoldFrame
  <2>2. log' = log
    BY <2>1 DEF CommitHold
  <2>3. job[w].settle = "capture"
    BY <2>1, <2>2 DEF Captured
  <2> QED BY <1>1, <2>1, <2>3 DEF Taking
<1>3. CASE hold' = hold
  <2>1. log'.payment # log.payment
    BY <1>3 DEF Captured
  <2>2. ASSUME NEW w \in Workers, CommitHold(w) \/ CommitRefund(w) PROVE FALSE
    BY <2>1, <2>2 DEF CommitHold, CommitRefund, TypeOK
  <2>3. PICK w \in Workers : CommitPayment(w)
    BY <2>1, <2>2, FiguresWritten
  <2> QED BY <1>1, <2>3 DEF CommitPayment, Taking
<1> QED BY <1>2, <1>3

\* While a refund is on its way, its row not there yet, no other refund books one
\* and no figure moves: unless two different refunds are at these steps together.
LEMMA WhileSending ==
    ASSUME Base, TypeOK', [Next]_vars, NEW S, ~TwoRefunds(S), "commitRefund" \in S,
           NEW x \in Workers, pc[x] \in S, pc[x] \in Sending,
           job'[x] = job[x], refundOf'[job[x].row] = 0
    PROVE  /\ refundOf[job[x].row] = 0 /\ log'.refund = log.refund
           /\ Captured' = Captured /\ Authorized' = Authorized
<1> USE DEF Base, Known
<1> DEFINE r == job[x].row
<1>1. r \in Requests /\ Captured > 0
  BY DEF JobInv, TakenInv, Sending
<1>2. Captured' = Captured /\ Authorized' = Authorized
  BY <1>1, CapturedStays DEF Authorized
<1>3. CASE refundOf' = refundOf /\ log'.refund = log.refund
  BY <1>2, <1>3
<1>4. ASSUME NEW w \in Workers, CommitRefund(w)
      PROVE  refundOf' = refundOf /\ log'.refund = log.refund
  <2>1. /\ pc[w] = "commitRefund" /\ job[w].row \in Requests
        /\ job[w].amt > 0 /\ job[w].amt \in Nat
    BY <1>4 DEF CommitRefund, JobInv, TypeOK, Jobs
  <2>2. CASE refundOf[job[w].row] = 0
    <3>1. refundOf'[job[w].row] = job[w].amt
      BY <1>4, <2>1, <2>2 DEF CommitRefund, TypeOK
    <3>2. job[w].row # r
      BY <2>1, <3>1
    <3> QED BY <2>1, <3>2 DEF TwoRefunds
  <2> QED BY <1>4, <2>2 DEF CommitRefund
<1> QED BY <1>2, <1>3, <1>4, RefundWrites

-----------------------------------------------------------------------------
\* The cached column.

ColumnJob(w) ==
    pc[w] = "commitRefund" /\ refundOf[job[w].row] = 0 =>
        job[w].col = Derive(Captured, log.refund + job[w].amt, Authorized)

ColumnInv == ColumnMatchesLog /\ \A w \in Workers : ColumnJob(w)

\* The transactions that write the column derived it from what they leave.
LEMMA ColumnRow ==
    ASSUME Base, ColumnInv, [Next]_vars PROVE ColumnMatchesLog'
<1> USE DEF Base, Known
<1>t. Captured \in Nat /\ log.refund \in Nat /\ log.payment \in Nat
  BY BalanceType DEF TypeOK
<1>0. ColumnMatchesLog
  BY DEF ColumnInv
<1>1. ASSUME NEW w \in Workers, CommitRefund(w) PROVE ColumnMatchesLog'
  <2>1. CASE refundOf[job[w].row] = 0
    <3>1. job[w].col = Derive(Captured, log.refund + job[w].amt, Authorized)
      BY <1>1, <2>1 DEF ColumnInv, ColumnJob, CommitRefund
    <3>2. /\ payState' = job[w].col /\ hold' = hold
          /\ log'.refund = log.refund + job[w].amt /\ log'.payment = log.payment
      BY <1>1, <2>1 DEF CommitRefund, TypeOK
    <3>3. Captured' = Captured /\ Authorized' = Authorized
      BY <3>2 DEF Captured, Authorized
    <3> QED BY <3>1, <3>2, <3>3 DEF ColumnMatchesLog
  <2>2. CASE refundOf[job[w].row] # 0
    <3>1. UNCHANGED <<payState, hold, log>>
      BY <1>1, <2>2 DEF CommitRefund
    <3> QED BY <1>0, <3>1, FiguresStay DEF ColumnMatchesLog
  <2> QED BY <2>1, <2>2
<1>2. ASSUME NEW w \in Workers, CommitHold(w) PROVE ColumnMatchesLog'
  <2>0. log' = log
    BY <1>2 DEF CommitHold
  <2>1. CASE hold = "open"
    <3>1. Captured = 0 /\ log.refund = 0
      BY <2>1 DEF TakenInv, HoldIffAuthorized, RefundInv, RefundRows
    <3>2. log.payment = 0
      BY <1>t, <2>1, <3>1 DEF Captured
    <3>3. /\ hold' = IF job[w].settle = "capture" THEN "captured" ELSE "voided"
          /\ payState' = job[w].col
      BY <1>2, <2>1 DEF CommitHold
    <3>4. /\ job[w].settle = "capture" => job[w].col = "paid"
          /\ job[w].settle # "capture" => job[w].col = "unpaid"
      BY <1>2, <2>1 DEF CommitHold, TakenInv, RefundInv, RefundJob
    <3>5. CASE job[w].settle = "capture"
      <4>1. Captured' = Total /\ Authorized' = 0 /\ log'.refund = 0
        BY <2>0, <3>1, <3>2, <3>3, <3>5, TotalAssumption DEF Captured, Authorized
      <4>2. Derive(Total, 0, 0) = "paid"
        BY TotalAssumption DEF Derive
      <4> QED BY <3>3, <3>4, <3>5, <4>1, <4>2 DEF ColumnMatchesLog
    <3>6. CASE job[w].settle # "capture"
      <4>1. Captured' = 0 /\ Authorized' = 0
        BY <2>0, <3>2, <3>3, <3>6 DEF Captured, Authorized
      <4> QED BY <3>3, <3>4, <3>6, <4>1 DEF ColumnMatchesLog, Derive
    <3> QED BY <3>5, <3>6
  <2>2. CASE hold # "open"
    <3>1. UNCHANGED <<payState, hold>>
      BY <1>2, <2>2 DEF CommitHold
    <3> QED BY <1>0, <2>0, <3>1, FiguresStay DEF ColumnMatchesLog
  <2> QED BY <2>1, <2>2
<1>3. ASSUME NEW w \in Workers, CommitPayment(w) PROVE ColumnMatchesLog'
  <2>1. CASE payState = "unpaid"
    <3>1. Captured = 0 /\ log.refund = 0
      BY <2>1 DEF TakenInv, RefundInv, RefundRows
    <3>2. hold # "captured" /\ log.payment = 0
      BY <1>t, <3>1, TotalAssumption DEF Captured
    <3>3. job[w].amt > 0 /\ job[w].amt \in Nat
      BY <1>3 DEF BalanceInv, BalanceJob, CommitPayment, TypeOK, Jobs
    <3>4. /\ payState' = "paid" /\ hold' = hold
          /\ log'.payment = job[w].amt /\ log'.refund = 0
      BY <1>3, <2>1, <3>1, <3>2, <3>3 DEF CommitPayment, TypeOK
    <3>5. Captured' = job[w].amt
      BY <3>2, <3>3, <3>4 DEF Captured
    <3> QED BY <3>3, <3>4, <3>5 DEF ColumnMatchesLog, Derive
  <2>2. CASE payState # "unpaid"
    <3>1. UNCHANGED <<payState, hold, log>>
      BY <1>3, <2>2 DEF CommitPayment
    <3> QED BY <1>0, <3>1, FiguresStay DEF ColumnMatchesLog
  <2> QED BY <2>1, <2>2
<1>4. CASE /\ UNCHANGED <<payState, hold>>
           /\ log'.payment = log.payment /\ log'.refund = log.refund
  BY <1>0, <1>4, FiguresStay DEF ColumnMatchesLog
<1> QED BY <1>1, <1>2, <1>3, <1>4, FiguresWritten

\* Only the read before the commit leads to the commit, with what it derived.
LEMMA ReadsBeforeCommit ==
    ASSUME TypeOK, NEW w \in Workers, Start(w) \/ Step(w) \/ Crash(w),
           pc'[w] = "commitRefund"
    PROVE  /\ BookRefund(w) /\ UNCHANGED <<hold, log>> /\ job'[w].amt = job[w].amt
           /\ job'[w].col = Derive(Captured, log.refund + job[w].amt, Authorized)
<1>1. BookRefund(w)
  <2>1. CASE Start(w)
    BY <2>1, Carries DEF Start
  <2>2. CASE CommitMove(w)
    BY <2>2, Carries
  <2>3. CASE FindRefund(w) \/ SendRefund(w) \/ CommitRefund(w)
    BY <2>3, Carries
  <2>4. CASE FindHold(w) \/ ChargeCard(w) \/ BookHold(w)
    BY <2>4, Carries
  <2>5. CASE CommitHold(w) \/ CommitPayment(w) \/ WriteAdjustment(w) \/ WriteReversal(w)
               \/ WriteRequest(w) \/ WriteRefundReversal(w) \/ Crash(w)
    BY <2>5, Carries
  <2> QED BY <2>1, <2>2, <2>3, <2>4, <2>5 DEF Step
<1> DEFINE col == Derive(Captured, log.refund + job[w].amt, Authorized)
<1>2. job'[w] = [job[w] EXCEPT !.col = col] /\ UNCHANGED <<hold, log>>
  BY <1>1, GotoFrame DEF BookRefund
<1>3. job'[w].amt = job[w].amt /\ job'[w].col = col
  BY <1>2, JobFields DEF TypeOK
<1> QED BY <1>1, <1>2, <1>3

LEMMA ColumnStep ==
    ASSUME Base, TypeOK', ColumnInv, ~TwoRefunds({"commitRefund"}), [Next]_vars
    PROVE  ColumnInv'
<1> USE DEF Base, Known
<1>1. ASSUME NEW w \in Workers, Start(w) \/ Step(w) \/ Crash(w) PROVE ColumnJob(w)'
  <2> SUFFICES ASSUME pc'[w] = "commitRefund"
               PROVE  job'[w].col = Derive(Captured', log'.refund + job'[w].amt, Authorized')
    BY DEF ColumnJob
  <2>1. /\ UNCHANGED <<hold, log>> /\ job'[w].amt = job[w].amt
        /\ job'[w].col = Derive(Captured, log.refund + job[w].amt, Authorized)
    BY <1>1, ReadsBeforeCommit
  <2> QED BY <2>1, FiguresStay
<1>2. ASSUME NEW x \in Workers, pc'[x] = pc[x], job'[x] = job[x] PROVE ColumnJob(x)'
  <2> SUFFICES ASSUME pc[x] = "commitRefund", refundOf'[job[x].row] = 0
               PROVE  job[x].col = Derive(Captured', log'.refund + job[x].amt, Authorized')
    BY <1>2 DEF ColumnJob
  <2>1. /\ refundOf[job[x].row] = 0 /\ log'.refund = log.refund
        /\ Captured' = Captured /\ Authorized' = Authorized
    BY <1>2, WhileSending DEF Sending
  <2> QED BY <2>1 DEF ColumnInv, ColumnJob
<1>3. ASSUME NEW x \in Workers PROVE ColumnJob(x)'
  <2>1. CASE UNCHANGED vars
    BY <2>1, <1>2 DEF vars
  <2>2. ASSUME NEW w \in Workers, Start(w) \/ Step(w) \/ Crash(w) PROVE ColumnJob(x)'
    BY <2>2, <1>1, <1>2, OthersStay
  <2> QED BY <2>1, <2>2 DEF Next
<1> QED BY <1>3, ColumnRow DEF ColumnInv

\* However many requests act on an order, fail and die, its payment column is what
\* the log derives, unless two transactions booking two different refunds of it are
\* open at once (settleRefund's re-read of the log before its commit,
\* derivePaymentState).  Nothing else in the code can make the column stale.
THEOREM ColumnIsDerived ==
    Spec /\ []~TwoRefunds({"commitRefund"}) => []ColumnMatchesLog
<1>1. Init => ColumnInv
  BY TotalAssumption DEF Init, ColumnInv, ColumnJob, ColumnMatchesLog, Derive, Captured,
     Authorized
<1>2. Base /\ TypeOK' /\ ColumnInv /\ ~TwoRefunds({"commitRefund"}) /\ [Next]_vars
        => ColumnInv'
  BY ColumnStep
<1>3. Base => TypeOK
  BY DEF Base, Known
<1>4. ColumnInv => ColumnMatchesLog
  BY DEF ColumnInv
<1> QED BY <1>1, <1>2, <1>3, <1>4, BaseAlways, PTL DEF Spec

-----------------------------------------------------------------------------
\* The report's split.

RefundFits(w) ==
    pc[w] \in Sending /\ refundOf[job[w].row] = 0 => log.refund + job[w].amt <= Captured

FitsInv == log.refund <= Captured /\ \A w \in Workers : RefundFits(w)

\* A step into sending, or on while sending, leaves the figures, and keeps or
\* reads the amount.
LEMMA SendsOn ==
    ASSUME TypeOK, NEW w \in Workers, Start(w) \/ Step(w) \/ Crash(w), pc'[w] \in Sending
    PROVE  /\ UNCHANGED <<hold, log, refundOf>>
           /\ \/ /\ pc[w] \in Sending
                 /\ job'[w].amt = job[w].amt /\ job'[w].row = job[w].row
              \/ Collected > 0 /\ job'[w].amt <= Collected
<1>0. job[w] \in Jobs
  BY DEF TypeOK
<1>1. CASE Start(w) \/ Crash(w)
  BY <1>1, Carries DEF Start, Sending
<1>2. CASE CommitMove(w) \/ CommitRefund(w)
  BY <1>2, Carries DEF Sending
<1>3. CASE FindRefund(w)
  <2>1. PICK r \in Candidates(w) :
           /\ Collected > 0 /\ Asked(r) <= Collected
           /\ Goto(w, "send", [job[w] EXCEPT !.row = r, !.amt = Asked(r)])
    <3>1. ~AfterRefund(w)
      BY AfterRefundFrame DEF Sending
    <3> QED BY <1>3, <3>1, Zenon DEF FindRefund
  <2>2. job'[w] = [job[w] EXCEPT !.row = r, !.amt = Asked(r)]
    BY <2>1, GotoFrame
  <2>3. job'[w].amt = Asked(r)
    BY <1>0, <2>2, JobFields
  <2> QED BY <1>3, <2>1, <2>3 DEF FindRefund
<1>4. CASE SendRefund(w)
  BY <1>4, Carries DEF SendRefund, Sending
<1>5. CASE BookRefund(w)
  <2>1. pc'[w] = "commitRefund" /\ job'[w].row = job[w].row
    BY <1>5, Carries
  <2>2. job'[w].amt = job[w].amt
    BY <2>1, ReadsBeforeCommit
  <2> QED BY <1>5, <2>1, <2>2 DEF BookRefund, Sending
<1>6. CASE FindHold(w) \/ ChargeCard(w) \/ BookHold(w)
  BY <1>6, Carries DEF Sending
<1>7. CASE CommitHold(w) \/ CommitPayment(w) \/ WriteAdjustment(w) \/ WriteReversal(w)
             \/ WriteRequest(w) \/ WriteRefundReversal(w)
  BY <1>7, Carries DEF Sending
<1> QED BY <1>1, <1>2, <1>3, <1>4, <1>5, <1>6, <1>7 DEF Step

LEMMA FitsStep ==
    ASSUME Base, TypeOK', FitsInv, ~TwoRefunds(Sending), [Next]_vars
    PROVE  FitsInv'
<1> USE DEF Base, Known
<1>t. /\ Captured \in Nat /\ log.refund \in Nat /\ log'.refund \in Nat
      /\ \A w \in Workers : job[w].amt \in Nat /\ job'[w].amt \in Nat
  BY BalanceType DEF TypeOK, Jobs
<1>c. Captured' \in Nat /\ Captured' >= Captured
  BY CapturedNext, TotalAssumption DEF Captured, TypeOK
<1>1. log'.refund <= Captured'
  <2>1. ASSUME NEW w \in Workers, CommitRefund(w) PROVE log'.refund <= Captured'
    <3>1. CASE refundOf[job[w].row] = 0
      <4>1. log.refund + job[w].amt <= Captured
        BY <2>1, <3>1 DEF FitsInv, RefundFits, CommitRefund, Sending
      <4>2. log'.refund = log.refund + job[w].amt
        BY <2>1, <3>1 DEF CommitRefund, TypeOK
      <4> QED BY <1>t, <1>c, <4>1, <4>2
    <3>2. CASE refundOf[job[w].row] # 0
      <4>1. log' = log
        BY <2>1, <3>2 DEF CommitRefund
      <4> QED BY <1>t, <1>c, <4>1 DEF FitsInv
    <3> QED BY <3>1, <3>2
  <2>2. CASE log'.refund = log.refund
    BY <1>t, <1>c, <2>2 DEF FitsInv
  <2> QED BY <2>1, <2>2, RefundWrites
<1>2. ASSUME NEW w \in Workers, Start(w) \/ Step(w) \/ Crash(w) PROVE RefundFits(w)'
  <2> SUFFICES ASSUME pc'[w] \in Sending, refundOf'[job'[w].row] = 0
               PROVE  log'.refund + job'[w].amt <= Captured'
    BY DEF RefundFits
  <2>1. UNCHANGED <<hold, log, refundOf>>
    BY <1>2, SendsOn
  <2>2. Captured' = Captured
    BY <2>1, FiguresStay
  <2>3. CASE pc[w] \in Sending /\ job'[w].amt = job[w].amt /\ job'[w].row = job[w].row
    BY <2>1, <2>2, <2>3 DEF FitsInv, RefundFits
  <2>4. CASE Collected > 0 /\ job'[w].amt <= Collected
    <3>1. Collected = Captured - log.refund
      BY <1>t, <2>4 DEF Collected, Minus
    <3> QED BY <1>t, <2>1, <2>2, <2>4, <3>1
  <2> QED BY <1>2, <2>3, <2>4, SendsOn
<1>3. ASSUME NEW x \in Workers, pc'[x] = pc[x], job'[x] = job[x] PROVE RefundFits(x)'
  <2> SUFFICES ASSUME pc[x] \in Sending, refundOf'[job[x].row] = 0
               PROVE  log'.refund + job[x].amt <= Captured'
    BY <1>3 DEF RefundFits
  <2>0. "commitRefund" \in Sending
    BY DEF Sending
  <2>1. /\ refundOf[job[x].row] = 0 /\ log'.refund = log.refund /\ Captured' = Captured
    BY <1>3, <2>0, WhileSending
  <2> QED BY <2>1 DEF FitsInv, RefundFits
<1>4. ASSUME NEW x \in Workers PROVE RefundFits(x)'
  <2>1. CASE UNCHANGED vars
    BY <2>1, <1>3 DEF vars
  <2>2. ASSUME NEW w \in Workers, Start(w) \/ Step(w) \/ Crash(w) PROVE RefundFits(x)'
    BY <2>2, <1>2, <1>3, OthersStay
  <2> QED BY <2>1, <2>2 DEF Next
<1> QED BY <1>1, <1>4 DEF FitsInv

\* However many requests act on an order, the report's split of a sold order adds
\* up to what was booked for it, unless more was given away than was owed or two
\* different refunds of it were on their way at once (orderBalance, settleRefund's
\* check of what is held before the call).
THEOREM SplitAddsUp ==
    Spec /\ []~TwoRefunds(Sending) => []SplitExplainsRevenue
<1>1. Init => FitsInv
  BY TotalAssumption DEF Init, FitsInv, RefundFits, Captured, Sending
<1>2. Base /\ TypeOK' /\ FitsInv /\ ~TwoRefunds(Sending) /\ [Next]_vars => FitsInv'
  BY FitsStep
<1>3. Base => TypeOK
  BY DEF Base, Known
<1>4. TypeOK /\ FitsInv => SplitExplainsRevenue
  <2> SUFFICES ASSUME TypeOK, FitsInv, hold # "open",
                      Captured + Adjusted <= Total + log.refund_reversed
               PROVE  Split = Total + log.refund_reversed
    BY DEF SplitExplainsRevenue
  <2>1. /\ Captured \in Nat /\ Adjusted \in Nat /\ log.refund \in Nat
        /\ log.refund_reversed \in Nat /\ Total \in Nat
    BY BalanceType, TotalAssumption DEF TypeOK
  <2>2. Authorized = 0
    BY DEF Authorized
  <2>3. log.refund <= Captured
    BY DEF FitsInv
  <2>4. Collected = Captured - log.refund
    BY <2>1, <2>3 DEF Collected, Minus
  <2>5. Outstanding = Total + log.refund_reversed - (Captured + Adjusted)
    BY <2>1, <2>2 DEF Outstanding, Minus
  <2> QED BY <2>1, <2>4, <2>5 DEF Split
<1> QED BY <1>1, <1>2, <1>3, <1>4, BaseAlways, PTL DEF Spec

-----------------------------------------------------------------------------
\* The money lists.

\* Nobody has a refund left to ask for that is not asked for already, and no
\* request will take money for a cancelled order or cancel one it owes.
ListRow == status = "cancelled" /\ Collected > 0 => \E r \in Requests : ask[r] = All

ListJob(w) ==
    /\ Cancelling(w) => Collected = 0
    /\ pc[w] = "move" /\ job[w].refund => Captured > 0 /\ job[w].to = "cancelled"
    /\ status = "cancelled" /\ Taking(w) => Captured > 0
    /\ pc[w] = "find" \/ pc[w] \in Sending => job[w].to \in {NoStatus, "cancelled"}

ListInv == ListRow /\ \A w \in Workers : ListJob(w)

\* What a decision to move the order is made on.
LEMMA DecidesOn ==
    ASSUME Base, NEW w \in Workers, ReadAndDecide(w)
    PROVE  /\ pc'[w] = "move"
           /\ Cancelling(w)' => Collected = 0
           /\ job'[w].refund => Captured > 0 /\ job'[w].to = "cancelled"
<1> USE DEF Base, Known
<1>1. PICK kind \in Kinds \cap Ops, to \in Status :
         /\ Permits(kind, "staff", status, to)
         /\ Goto(w, "move", [Blank EXCEPT !.seen = status, !.to = to,
                               !.refund = (kind = "cancel" /\ payState = "paid")])
  BY DEF ReadAndDecide
<1> DEFINE b == kind = "cancel" /\ payState = "paid"
           j == [Blank EXCEPT !.seen = status, !.to = to, !.refund = b]
<1>2. pc'[w] = "move" /\ job'[w] = j
  BY <1>1, GotoFrame
<1>3. \A c \in BOOLEAN : [Blank EXCEPT !.seen = status, !.to = to, !.refund = c].refund = c
  BY DEF Blank
<1>4. b \in BOOLEAN
  OBVIOUS
<1> HIDE DEF b
<1>5. j.refund = b /\ j.to = to
  <2>1. j.refund = b
    BY <1>3, <1>4, Zenon
  <2>2. j.to = to
    BY DEF Blank
  <2> QED BY <2>1, <2>2
<1>6. (kind = "cancel") <=> (to = "cancelled")
  BY <1>1 DEF TypeOK, Permits, NextOf, PreviousOf, Status, NoStatus
<1>7. payState = "paid" => Captured > 0
  BY DEF BalanceInv, BalanceRows
<1>8. payState # "paid" => Collected = 0
  <2>1. Captured \in Nat /\ log.refund \in Nat
    BY BalanceType DEF TypeOK
  <2>2. payState # "paid" => Captured = 0 \/ log.refund >= Captured
    BY DEF TypeOK, PayStates, TakenInv, RefundInv, RefundRows
  <2> QED BY <2>1, <2>2 DEF Collected, Minus
<1>9. job'[w].refund <=> (to = "cancelled" /\ payState = "paid")
  BY <1>2, <1>5, <1>6, Zenon DEF b
<1>10. job'[w].to = to
  BY <1>2, <1>5, Zenon
<1> HIDE DEF b, j
<1> QED BY <1>2, <1>7, <1>8, <1>9, <1>10 DEF Cancelling

\* Nothing held becomes held only through a request that was taking.
LEMMA CollectedByTaking ==
    ASSUME Known, TypeOK', [Next]_vars, Collected = 0, Collected' > 0
    PROVE  Captured = 0 /\ \E w \in Workers : Taking(w)
<1> USE DEF Known
<1>1. Captured \in Nat /\ log.refund \in Nat /\ log'.refund \in Nat
  BY BalanceType DEF TypeOK
<1>2. log'.refund >= log.refund
  BY RefundsGrow
<1>3. Captured' # Captured
  BY <1>1, <1>2 DEF Collected, Minus
<1> QED BY <1>3, CapturedByTaking

\* The transaction that moves the order, where it does.
LEMMA MovesTo ==
    ASSUME TypeOK, [Next]_vars, status' # status
    PROVE  \E w \in Workers :
             /\ CommitMove(w) /\ pc[w] = "move" /\ status' = job[w].to
             /\ UNCHANGED <<log, hold>>
             /\ job[w].refund =>
                  \E r \in Requests : ask[r] = Unasked /\ ask' = [ask EXCEPT ![r] = All]
<1>1. PICK w \in Workers : CommitMove(w) /\ status = job[w].seen /\ status' = job[w].to
  BY StatusFrame
<1>2. job[w].refund =>
        \E r \in Requests : ask[r] = Unasked /\ ask' = [ask EXCEPT ![r] = All]
  BY <1>1, Zenon DEF CommitMove, Unmoved
<1> QED BY <1>1, <1>2 DEF CommitMove

LEMMA ListRowStays ==
    ASSUME Base, TypeOK', ListInv, ~CancelMeetsTaking, [Next]_vars PROVE ListRow'
<1> USE DEF Base, Known
<1> SUFFICES ASSUME status' = "cancelled", Collected' > 0
             PROVE  \E r \in Requests : ask'[r] = All
  BY DEF ListRow
<1>t. /\ Captured \in Nat /\ Collected \in Nat
  BY BalanceType
<1>a. All # Unasked
  BY AllAssumption DEF Unasked
<1>1. CASE status = "cancelled"
  <2>1. Collected > 0
    <3> SUFFICES ASSUME Collected = 0 PROVE FALSE
      BY <1>t
    <3> QED BY <1>1, <1>t, CollectedByTaking DEF ListInv, ListJob
  <2>2. PICK r \in Requests : ask[r] = All
    BY <1>1, <2>1 DEF ListInv, ListRow
  <2> QED BY <1>a, <2>2, RefundWrites
<1>2. CASE status # "cancelled"
  <2>1. PICK w \in Workers :
          /\ pc[w] = "move" /\ job[w].to = "cancelled" /\ UNCHANGED <<log, hold>>
          /\ job[w].refund =>
               \E r \in Requests : ask[r] = Unasked /\ ask' = [ask EXCEPT ![r] = All]
    BY <1>2, MovesTo
  <2>2. Collected > 0
    BY <2>1, FiguresStay
  <2>3. job[w].refund
    BY <1>t, <2>1, <2>2 DEF ListInv, ListJob, Cancelling
  <2>4. PICK r \in Requests : ask' = [ask EXCEPT ![r] = All]
    BY <2>1, <2>3
  <2> QED BY <2>4 DEF TypeOK
<1> QED BY <1>1, <1>2

\* What a request keeps while another one steps.
LEMMA ListJobStays ==
    ASSUME Base, TypeOK', ListInv, ~CancelMeetsTaking, [Next]_vars, NEW x \in Workers,
           pc'[x] = pc[x], job'[x] = job[x]
    PROVE  ListJob(x)'
<1> USE DEF Base, Known
<1>t. Captured \in Nat /\ Collected \in Nat /\ Captured' \in Nat /\ Collected' \in Nat
  BY BalanceType, TotalAssumption DEF TypeOK, Captured, Collected, Minus
<1>0. ListJob(x)
  BY DEF ListInv
<1>c. Captured' >= Captured
  BY CapturedNext
<1>1. Cancelling(x)' => Collected' = 0
  <2> SUFFICES ASSUME Cancelling(x), Collected' > 0 PROVE FALSE
    BY <1>t DEF Cancelling
  <2>1. Collected = 0
    BY <1>0 DEF ListJob
  <2>2. PICK w \in Workers : Taking(w)
    BY <2>1, CollectedByTaking
  <2> QED BY <2>2 DEF CancelMeetsTaking
<1>2. ASSUME status' = "cancelled", Taking(x)' PROVE Captured' > 0
  <2>0. Taking(x)
    BY <1>2 DEF Taking
  <2>1. CASE status = "cancelled"
    BY <1>0, <1>c, <1>t, <2>0, <2>1 DEF ListJob
  <2>2. CASE status # "cancelled"
    <3>1. PICK w \in Workers : pc[w] = "move" /\ job[w].to = "cancelled"
      BY <1>2, <2>2, MovesTo
    <3>2. job[w].refund
      BY <2>0, <3>1 DEF CancelMeetsTaking, Cancelling
    <3>3. Captured > 0
      BY <3>1, <3>2 DEF ListInv, ListJob
    <3> QED BY <1>c, <1>t, <3>3
  <2> QED BY <2>1, <2>2
<1>3. pc'[x] = "move" /\ job'[x].refund => Captured' > 0 /\ job'[x].to = "cancelled"
  BY <1>0, <1>c, <1>t DEF ListJob
<1> QED BY <1>0, <1>1, <1>2, <1>3 DEF ListJob

\* A worker about to take money for an order that is cancelled already was
\* about to before.
LEMMA TakingBefore ==
    ASSUME Base, ListInv, NEW w \in Workers, Start(w) \/ Step(w) \/ Crash(w),
           status' = "cancelled", Taking(w)'
    PROVE  status = "cancelled" /\ Taking(w)
<1> USE DEF Base, Known
<1>v. HoldOutcome("cancelled") # "capture" /\ HoldOutcome(NoStatus) # "capture"
  BY DEF HoldOutcome, SalesRoleOf, NoStatus
<1>p. pc'[w] \in {"collect", "hold", "charge", "bookHold", "commitHold"}
  BY DEF Taking
<1>0. ListJob(w)
  BY DEF ListInv
<1>1. CASE Start(w)
  <2>1. status' = status
    BY <1>1 DEF Start, ReadAndDecide, RetryRefund, RetryHold, ReadBalance,
                ReadAdjustable, ReadComp, ReadRefundable, ReadRefund
  <2>2. CASE RetryHold(w)
    BY <1>v, <2>1, <2>2, Carries DEF Taking
  <2>3. CASE ReadBalance(w)
    BY <2>1, <2>3 DEF ReadBalance, CanCollect, SalesRoleOf
  <2> QED BY <1>1, <1>p, <2>2, <2>3, Carries DEF Start
<1>2. CASE CommitMove(w)
  BY <1>2, <1>p, <1>v, Carries DEF Taking
<1>3. CASE FindRefund(w) \/ SendRefund(w) \/ CommitRefund(w)
  <2>1. job[w].to \in {NoStatus, "cancelled"}
    BY <1>0, <1>3 DEF ListJob, FindRefund, SendRefund, CommitRefund, Sending
  <2> QED BY <1>3, <1>p, <1>v, <2>1, Carries DEF Taking
<1>4. CASE BookRefund(w)
  BY <1>4, <1>p, Carries
<1>5. CASE FindHold(w) \/ ChargeCard(w) \/ BookHold(w)
  <2>1. status' = status
    BY <1>5 DEF FindHold, ChargeCard, BookHold
  <2>2. CASE FindHold(w)
    BY <1>p, <2>1, <2>2, Carries DEF Taking, FindHold
  <2>3. CASE ChargeCard(w)
    BY <1>p, <2>1, <2>3, Carries DEF Taking, ChargeCard
  <2>4. CASE BookHold(w)
    BY <1>p, <2>1, <2>4, Carries DEF Taking, BookHold
  <2> QED BY <1>5, <2>2, <2>3, <2>4
<1>6. CASE CommitHold(w) \/ CommitPayment(w) \/ WriteAdjustment(w) \/ WriteReversal(w)
             \/ WriteRequest(w) \/ WriteRefundReversal(w) \/ Crash(w)
  BY <1>6, <1>p, Carries
<1> QED BY <1>1, <1>2, <1>3, <1>4, <1>5, <1>6 DEF Step

\* A refund attempt belongs to a cancellation or to nobody's status.
LEMMA AttemptsFor ==
    ASSUME TypeOK, ListInv, NEW w \in Workers, Start(w) \/ Step(w) \/ Crash(w),
           pc'[w] = "find" \/ pc'[w] \in Sending
    PROVE  job'[w].to \in {NoStatus, "cancelled"}
<1>0. ListJob(w)
  BY DEF ListInv
<1>1. CASE Start(w)
  BY <1>1, Carries DEF Start, Sending
<1>2. CASE CommitMove(w)
  <2>1. Unmoved(w)
    BY <1>2, DoneFrame, Zenon DEF CommitMove, Sending
  <2>2. CASE job[w].refund
    <3>1. pc[w] = "move" /\ job[w].to = "cancelled"
      BY <1>0, <1>2, <2>2 DEF ListJob, CommitMove
    <3> QED BY <1>2, <3>1, Carries
  <2>3. CASE ~job[w].refund
    <3>1. Goto(w, "hold", [Blank EXCEPT !.to = job[w].to])
      BY <1>2, <2>1, <2>3, Zenon DEF CommitMove
    <3> QED BY <3>1, GotoFrame DEF Sending
  <2> QED BY <2>2, <2>3
<1>3. CASE FindRefund(w)
  BY <1>0, <1>3, Carries DEF ListJob, FindRefund, Sending
<1>4. CASE SendRefund(w)
  BY <1>0, <1>4, Carries DEF ListJob, SendRefund, Sending
<1>5. CASE BookRefund(w)
  BY <1>0, <1>5, Carries DEF ListJob, BookRefund, Sending
<1>6. CASE CommitRefund(w) \/ FindHold(w) \/ ChargeCard(w) \/ BookHold(w)
  BY <1>6, Carries DEF Sending
<1>7. CASE CommitHold(w) \/ CommitPayment(w) \/ WriteAdjustment(w) \/ WriteReversal(w)
             \/ WriteRequest(w) \/ WriteRefundReversal(w) \/ Crash(w)
  BY <1>7, Carries DEF Sending
<1> QED BY <1>1, <1>2, <1>3, <1>4, <1>5, <1>6, <1>7 DEF Step

LEMMA ListStep ==
    ASSUME Base, TypeOK', ListInv, ~CancelMeetsTaking, [Next]_vars
    PROVE  ListInv'
<1> USE DEF Base, Known
<1>t. Captured \in Nat /\ Captured' \in Nat /\ Captured' >= Captured
  BY BalanceType, CapturedNext, TotalAssumption DEF TypeOK, Captured
<1>1. ASSUME NEW w \in Workers, Start(w) \/ Step(w) \/ Crash(w) PROVE ListJob(w)'
  <2>1. CASE ReadAndDecide(w)
    <3>1. UNCHANGED <<log, hold>>
      BY <2>1 DEF ReadAndDecide
    <3>2. Captured' = Captured /\ Collected' = Collected
      BY <3>1, FiguresStay
    <3>3. /\ pc'[w] = "move"
          /\ Cancelling(w)' => Collected = 0
          /\ job'[w].refund => Captured > 0 /\ job'[w].to = "cancelled"
      BY <2>1, DecidesOn
    <3>4. ~Taking(w)'
      BY <3>3 DEF Taking
    <3> QED BY <3>2, <3>3, <3>4 DEF ListJob, Sending
  <2>2. CASE ~ReadAndDecide(w)
    <3>1. pc'[w] # "move"
      BY <1>1, <2>2, Carries DEF Start, Step
    <3>2. status' = "cancelled" /\ Taking(w)' => Captured' > 0
      BY <1>1, <1>t, TakingBefore DEF ListInv, ListJob
    <3>3. pc'[w] = "find" \/ pc'[w] \in Sending => job'[w].to \in {NoStatus, "cancelled"}
      BY <1>1, AttemptsFor
    <3> QED BY <3>1, <3>2, <3>3 DEF ListJob, Cancelling
  <2> QED BY <2>1, <2>2
<1>2. ASSUME NEW x \in Workers PROVE ListJob(x)'
  <2>1. CASE UNCHANGED vars
    BY <2>1, ListJobStays DEF vars
  <2>2. ASSUME NEW w \in Workers, Start(w) \/ Step(w) \/ Crash(w) PROVE ListJob(x)'
    BY <2>2, <1>1, ListJobStays, OthersStay
  <2> QED BY <2>1, <2>2 DEF Next
<1> QED BY <1>2, ListRowStays DEF ListInv

\* Whatever overlaps, fails and dies, a hold left on a finished order and what a sold
\* one still owes are on a list somebody reads (stuckHolds, the chase list).
THEOREM HoldsAndDebtsAreListed == Spec => [](FinishedHoldIsListed /\ DebtIsListed)
<1>1. Base => FinishedHoldIsListed /\ DebtIsListed
  <2> SUFFICES ASSUME Base PROVE FinishedHoldIsListed /\ DebtIsListed
    OBVIOUS
  <2> USE DEF Base, Known
  <2>1. FinishedHoldIsListed
    BY DEF FinishedHoldIsListed, HoldIffAuthorized, HoldsNotSettled, HoldIsStuck,
           Terminal, HoldOutcome, SalesRoleOf
  <2>2. Sold => status \in Terminal
    BY DEF Sold, SalesRoleOf, Terminal
  <2>3. hold # "open" /\ Captured + Adjusted < Total => Outstanding > 0
    BY BalanceType, TotalAssumption DEF Outstanding, Minus, Authorized, TypeOK
  <2> QED BY <2>1, <2>2, <2>3 DEF FinishedHoldIsListed, DebtIsListed, ChaseList
<1> QED BY <1>1, BaseAlways, PTL

\* Money held for a cancelled order is asked back too, however many requests act on
\* it, fail and die, unless a cancellation that found nothing taken overlapped a
\* payment or a capture (applyOrderAction decides on a column it read before).
\* Nothing else in the code can leave a customer's money on no list.
THEOREM MoneyIsListed == Spec /\ []~CancelMeetsTaking => []MoneyIsOnAList
<1>1. Init => ListInv
  BY DEF Init, ListInv, ListRow, ListJob, Cancelling, Taking, Sending
<1>2. Base /\ TypeOK' /\ ListInv /\ ~CancelMeetsTaking /\ [Next]_vars => ListInv'
  BY ListStep
<1>3. Base => TypeOK
  BY DEF Base, Known
<1>4. Base /\ ListInv => HeldMoneyIsListed
  <2> SUFFICES ASSUME Base, ListInv, status = "cancelled", Collected > 0 PROVE RefundsNotSent
    BY DEF HeldMoneyIsListed
  <2> USE DEF Base, Known
  <2>1. PICK r \in Requests : ask[r] = All
    BY DEF ListInv, ListRow
  <2>2. Captured \in Nat /\ log.refund \in Nat /\ log.refund < Captured
    BY BalanceType DEF TypeOK, Collected, Minus
  <2>3. refundOf[r] = 0
    BY <2>1, <2>2 DEF RefundInv, RefundRow, TypeOK
  <2>4. ask[r] # Unasked
    BY <2>1, AllAssumption DEF Unasked
  <2> QED BY <2>3, <2>4 DEF RefundsNotSent, Pending
<1>5. HeldMoneyIsListed /\ FinishedHoldIsListed /\ DebtIsListed => MoneyIsOnAList
  BY DEF MoneyIsOnAList
<1> QED BY <1>1, <1>2, <1>3, <1>4, <1>5, BaseAlways, HoldsAndDebtsAreListed, PTL DEF Spec
=============================================================================
