--------------------------- MODULE Loyalty_proofs ---------------------------
(***************************************************************************)
(* Proofs about Loyalty for any number of orders and concurrent requests,  *)
(* any terms of the program and any windows: rewards are paid for, a card  *)
(* owes no more than the rewards in force, the ledger's and the order's    *)
(* account of them agree through every undo, and only activity restarts    *)
(* the clock.                                                              *)
(***************************************************************************)
EXTENDS Loyalty, FiniteSetTheorems, TLAPS

USE DEF ledgerVars, memberVars, orderVars, workVars

\* The part of TypeOK that workers' steps disturb
WorkersType ==
    /\ pc \in [Workers -> {"idle", "lock", "write", "scrub"}]
    /\ job \in [Workers -> Jobs]
    /\ \A w \in Workers : pc[w] = "idle" \/ job[w].order \in Orders

\* What rewards may be paid out of
Covered == Points * Cardinality(earned) + Threshold * returns

-----------------------------------------------------------------------------
\* Counting rows.

\* A set of orders has a size.
LEMMA SizeType ==
    ASSUME NEW S \in SUBSET Orders
    PROVE  IsFiniteSet(S) /\ Cardinality(S) \in Nat
BY OrdersAssumption, FS_Subset, FS_CardinalityType

\* One row more is one order more, if it had none.
LEMMA OneMore ==
    ASSUME NEW S \in SUBSET Orders, NEW o \in Orders, o \notin S
    PROVE  Cardinality(S \cup {o}) = Cardinality(S) + 1
BY SizeType, FS_AddElement

\* One row less is one order less, if it had one.
LEMMA OneLess ==
    ASSUME NEW S \in SUBSET Orders, NEW o \in S
    PROVE  Cardinality(S \ {o}) = Cardinality(S) - 1
BY SizeType, FS_RemoveElement

\* More of the same count for more.
LEMMA TimesMonotone ==
    ASSUME NEW t \in Nat, NEW a \in Nat, NEW b \in Nat, a <= b
    PROVE  t * a <= t * b
<1> DEFINE d == b - a
<1>1. d \in Nat /\ b = a + d
  OBVIOUS
<1>2. t * d \in Nat
  BY <1>1
<1> HIDE DEF d
<1>3. t * (a + d) = t * a + t * d
  BY <1>1
<1> QED
  BY <1>1, <1>2, <1>3

\* The balance is a whole number.
LEMMA BalanceType == ASSUME TypeOK PROVE Balance \in Int
<1>1. /\ Cardinality(earned) \in Nat /\ Cardinality(back) \in Nat
      /\ Cardinality(redeemed) \in Nat
  <2>1. back \in SUBSET Orders
    BY DEF TypeOK
  <2> QED
    BY <2>1, SizeType DEF TypeOK
<1>2. Points * Cardinality(earned) \in Nat
  BY <1>1, PointsAssumption
<1>3. Threshold * Cardinality(back) \in Nat
  BY <1>1, PointsAssumption
<1>4. Threshold * Cardinality(redeemed) \in Nat
  BY <1>1, PointsAssumption
<1> QED
  BY <1>2, <1>3, <1>4 DEF Balance, TypeOK

-----------------------------------------------------------------------------
\* Type correctness.

\* Moving a worker on keeps the types, if what it carries is a job.
LEMMA GotoType ==
    ASSUME TypeOK, NEW w \in Workers, NEW j \in Jobs,
           NEW s \in {"idle", "lock", "write", "scrub"}, Goto(w, s, j),
           s = "idle" \/ j.order \in Orders
    PROVE  WorkersType'
BY DEF TypeOK, Goto, WorkersType

\* Ending a request keeps the types.
LEMMA DoneType ==
    ASSUME TypeOK, NEW w \in Workers, Done(w)
    PROVE  WorkersType'
<1>1. Idle \in Jobs
  BY DEF Idle, Jobs
<1> QED
  BY <1>1, GotoType DEF Done

\* An initial state is well typed.
LEMMA TypeInit == Init => TypeOK
BY WindowsAssumption, BoundsAssumption DEF Init, TypeOK, Idle, Jobs

\* Every step keeps the types.
LEMMA TypeStep == TypeOK /\ [Next]_vars => TypeOK'
<1> SUFFICES ASSUME TypeOK, [Next]_vars PROVE TypeOK'
  OBVIOUS
<1> USE WindowsAssumption, BoundsAssumption, NoOrderAssumption
<1>1. CASE SetLoyaltyEnabled
  BY <1>1 DEF SetLoyaltyEnabled, TypeOK
<1>2. CASE Tick
  BY <1>2 DEF Tick, TypeOK
<1>3. CASE EnrolMember
  BY <1>3 DEF EnrolMember, TypeOK
<1>4. CASE \E o \in Orders : PlaceOrder(o)
  BY <1>4 DEF PlaceOrder, TypeOK, Roles
<1>5. CASE \E o \in Orders, to \in Roles : MoveOrder(o, to)
  <2>1. PICK o \in Orders, to \in Roles : MoveOrder(o, to)
    BY <1>5
  <2>2. role' \in [Orders -> Roles \cup {"unplaced"}]
    BY <2>1 DEF MoveOrder, TypeOK
  <2>3. earned' \subseteq Orders /\ age' \in 0..RetentionAge
    BY <2>1 DEF MoveOrder, TypeOK
  <2>4. back' \subseteq redeemed' /\ returns' \in Nat
    BY <2>1 DEF MoveOrder, SettleReward, TypeOK
  <2> QED
    BY <2>1, <2>2, <2>3, <2>4 DEF MoveOrder, TypeOK
<1>6. CASE \E w \in Workers, o \in Orders : ReadToRedeem(w, o)
  <2>1. PICK w \in Workers, o \in Orders : ReadToRedeem(w, o)
    BY <1>6
  <2>2. [kind |-> "counter", order |-> o, member |-> member] \in Jobs
    BY DEF TypeOK, Jobs
  <2>3. WorkersType'
    BY <2>1, <2>2, GotoType DEF ReadToRedeem
  <2> QED
    BY <2>1, <2>3 DEF ReadToRedeem, TypeOK, WorkersType
<1>7. CASE \E w \in Workers, o \in Orders : PlanCheckout(w, o)
  <2>1. PICK w \in Workers, o \in Orders : PlanCheckout(w, o)
    BY <1>7
  <2>2. [kind |-> "checkout", order |-> o, member |-> member] \in Jobs
    BY DEF TypeOK, Jobs
  <2>3. WorkersType'
    BY <2>1, <2>2, GotoType DEF PlanCheckout
  <2> QED
    BY <2>1, <2>3 DEF PlanCheckout, TypeOK, WorkersType
<1>8. CASE \E w \in Workers, o \in Orders : ForgetCustomer(w, o)
  <2>1. PICK w \in Workers, o \in Orders : ForgetCustomer(w, o)
    BY <1>8
  <2>2. [kind |-> "forget", order |-> o, member |-> 0] \in Jobs
    BY DEF Jobs
  <2>3. WorkersType'
    BY <2>1, <2>2, GotoType DEF ForgetCustomer
  <2> QED
    BY <2>1, <2>3 DEF ForgetCustomer, DeleteMember, TypeOK, WorkersType
<1>9. CASE \E w \in Workers : LockMember(w)
  <2>1. PICK w \in Workers : LockMember(w)
    BY <1>9
  <2>2. /\ WorkersType'
        /\ lock' \in Workers \cup {NoWorker}
    <3>1. CASE Confirmed(w)
      <4>1. job[w] \in Jobs /\ job[w].order \in Orders
        BY <2>1 DEF TypeOK, LockMember
      <4> QED
        BY <2>1, <3>1, <4>1, GotoType DEF LockMember
    <3>2. CASE ~Confirmed(w)
      BY <2>1, <3>2, DoneType DEF LockMember, TypeOK
    <3> QED
      BY <3>1, <3>2
  <2> QED
    BY <2>1, <2>2 DEF LockMember, TypeOK, WorkersType
<1>10. CASE \E w \in Workers : CommitRedemption(w)
  <2>1. PICK w \in Workers : CommitRedemption(w)
    BY <1>10
  <2>2. WorkersType'
    BY <2>1, DoneType DEF CommitRedemption
  <2> QED
    BY <2>1, <2>2 DEF CommitRedemption, TypeOK, WorkersType, Roles
<1>11. CASE \E w \in Workers : Scrub(w)
  <2>1. PICK w \in Workers : Scrub(w)
    BY <1>11
  <2>2. WorkersType'
    BY <2>1, DoneType DEF Scrub
  <2> QED
    BY <2>1, <2>2 DEF Scrub, TypeOK, WorkersType
<1>12. CASE \E w \in Workers : Abort(w)
  <2>1. PICK w \in Workers : Abort(w)
    BY <1>12
  <2>2. WorkersType'
    BY <2>1, DoneType DEF Abort
  <2> QED
    BY <2>1, <2>2 DEF Abort, TypeOK, WorkersType
<1>13. CASE NightForget
  BY <1>13 DEF NightForget, NightTo, DeleteMember, TypeOK
<1>14. CASE NightRead
  <2>1. Expirable => Balance \in Nat
    BY BalanceType DEF Expirable
  <2> QED
    BY <1>14, <2>1 DEF NightRead, NightTo, TypeOK
<1>15. CASE NightWrite
  BY <1>15 DEF NightWrite, NightTo, TypeOK
<1>16. CASE NightKilled
  BY <1>16 DEF NightKilled, NightTo, TypeOK
<1>17. CASE UNCHANGED vars
  BY <1>17 DEF vars, TypeOK
<1> QED
  BY <1>1, <1>2, <1>3, <1>4, <1>5, <1>6, <1>7, <1>8, <1>9, <1>10, <1>11,
     <1>12, <1>13, <1>14, <1>15, <1>16, <1>17 DEF Next

\* Every reachable state is well typed, for any numbers of the program
\* (Loyalty's variables are the columns and rows of db/loyalty.ts).
THEOREM CardTypeCorrect == Spec => []TypeOK
BY TypeInit, TypeStep, PTL DEF Spec

-----------------------------------------------------------------------------
\* The member's lock.

LockHeld == \A w \in Workers : pc[w] = "write" <=> lock = w

\* Exactly the request about to write has the member's row locked.
LEMMA LockHeldStep == TypeOK /\ LockHeld /\ [Next]_vars => LockHeld'
<1> SUFFICES ASSUME TypeOK, LockHeld, [Next]_vars PROVE LockHeld'
  OBVIOUS
<1> USE NoOrderAssumption
<1>1. CASE UNCHANGED workVars
  BY <1>1 DEF LockHeld
<1>2. CASE \E w \in Workers, o \in Orders :
              \/ ReadToRedeem(w, o) \/ PlanCheckout(w, o)
              \/ ForgetCustomer(w, o)
  <2>1. PICK w \in Workers : /\ pc[w] = "idle" /\ UNCHANGED lock
                            /\ \E s \in {"lock", "scrub"} :
                                  pc' = [pc EXCEPT ![w] = s]
    BY <1>2 DEF ReadToRedeem, PlanCheckout, ForgetCustomer, Goto
  <2> QED
    BY <2>1 DEF LockHeld, TypeOK
<1>3. CASE \E w \in Workers : LockMember(w)
  BY <1>3 DEF LockMember, Goto, Done, LockHeld, TypeOK
<1>4. CASE \E w \in Workers : CommitRedemption(w)
  BY <1>4 DEF CommitRedemption, Goto, Done, LockHeld, TypeOK
<1>5. CASE \E w \in Workers : Scrub(w)
  BY <1>5 DEF Scrub, Goto, Done, LockHeld, TypeOK
<1>6. CASE \E w \in Workers : Abort(w)
  BY <1>6 DEF Abort, Goto, Done, LockHeld, TypeOK
<1> QED
  BY <1>1, <1>2, <1>3, <1>4, <1>5, <1>6
  DEF Next, vars, SetLoyaltyEnabled, Tick, EnrolMember, PlaceOrder, MoveOrder,
      NightForget, NightRead, NightWrite, NightKilled

-----------------------------------------------------------------------------
\* Points spent.

Spent == Threshold * Cardinality(redeemed)
Returned == Cardinality(back) <= returns
Room == lock # NoWorker => Spent + Threshold <= Covered

\* The sizes and products the arithmetic is about are natural numbers.
LEMMA Sizes ==
    ASSUME TypeOK
    PROVE  /\ earned \in SUBSET Orders /\ redeemed \in SUBSET Orders
           /\ back \in SUBSET Orders
           /\ Cardinality(earned) \in Nat /\ Cardinality(redeemed) \in Nat
           /\ Cardinality(back) \in Nat
           /\ Spent \in Nat /\ Covered \in Nat
<1>1. /\ earned \in SUBSET Orders /\ redeemed \in SUBSET Orders
      /\ back \in SUBSET Orders /\ returns \in Nat
  BY DEF TypeOK
<1>2. /\ Cardinality(earned) \in Nat /\ Cardinality(redeemed) \in Nat
      /\ Cardinality(back) \in Nat
  BY <1>1, SizeType
<1>3. Spent \in Nat
  BY <1>2, PointsAssumption DEF Spent
<1>4. Points * Cardinality(earned) \in Nat
  BY <1>2, PointsAssumption
<1>5. Threshold * returns \in Nat
  BY <1>1, PointsAssumption
<1> QED
  BY <1>1, <1>2, <1>3, <1>4, <1>5 DEF Covered

\* What a status change does: it may add an earn row and a return row, or take
\* a return back; what rewards may be paid out of never shrinks.
LEMMA MoveCovers ==
    ASSUME TypeOK, TypeOK', Returned,
           NEW o \in Orders, NEW to \in Roles, MoveOrder(o, to)
    PROVE  /\ Returned' /\ UNCHANGED <<redeemed, lock>>
           /\ Covered' \in Nat /\ Covered' >= Covered
<1>1. UNCHANGED <<redeemed, lock>>
  BY DEF MoveOrder
<1>2. Cardinality(earned') >= Cardinality(earned) /\ Cardinality(earned') \in Nat
  <2>1. CASE Earns(o, to)
    <3>1. earned' = earned \cup {o} /\ o \notin earned
      BY <2>1 DEF MoveOrder, Earns
    <3> QED
      BY <3>1, Sizes, OneMore
  <2>2. CASE ~Earns(o, to)
    BY <2>2, Sizes DEF MoveOrder
  <2> QED
    BY <2>1, <2>2
<1>3. Returned' /\ returns' >= returns
  <2>1. CASE o \in redeemed /\ Dead(to) /\ o \notin back
    <3>1. back' = back \cup {o} /\ returns' = returns + 1
      BY <2>1 DEF MoveOrder, SettleReward
    <3> QED
      BY <2>1, <3>1, Sizes, OneMore DEF Returned, TypeOK
  <2>2. CASE ~(o \in redeemed /\ Dead(to) /\ o \notin back)
             /\ ~Dead(to) /\ o \in back
    <3>1. back' = back \ {o} /\ returns' = returns
      BY <2>2 DEF MoveOrder, SettleReward
    <3> QED
      BY <2>2, <3>1, Sizes, OneLess DEF Returned, TypeOK
  <2>3. CASE ~(o \in redeemed /\ Dead(to) /\ o \notin back)
             /\ ~(~Dead(to) /\ o \in back)
    BY <2>3 DEF MoveOrder, SettleReward, Returned, TypeOK
  <2> QED
    BY <2>1, <2>2, <2>3
<1>4. Points * Cardinality(earned') >= Points * Cardinality(earned)
  BY <1>2, Sizes, TimesMonotone, PointsAssumption
<1>5. Threshold * returns' >= Threshold * returns
  BY <1>3, TimesMonotone, PointsAssumption DEF TypeOK
<1>6. /\ Points * Cardinality(earned) \in Nat
      /\ Points * Cardinality(earned') \in Nat
      /\ Threshold * returns \in Nat /\ Threshold * returns' \in Nat
  <2>1. /\ Cardinality(earned) \in Nat /\ Cardinality(earned') \in Nat
        /\ returns \in Nat /\ returns' \in Nat
    BY <1>2, Sizes DEF TypeOK
  <2>2. \A a, b \in Nat : a * b \in Nat
    OBVIOUS
  <2> QED
    BY <2>1, <2>2, PointsAssumption
<1>7. Covered' \in Nat /\ Covered' >= Covered
  BY <1>4, <1>5, <1>6 DEF Covered
<1> QED
  BY <1>1, <1>3, <1>7

\* A balance that still holds a reward leaves room to spend one.
LEMMA RewardIsRoom ==
    ASSUME TypeOK, Returned, HasReward
    PROVE  Spent + Threshold <= Covered
<1>1. Threshold * Cardinality(back) <= Threshold * returns
  BY Sizes, TimesMonotone, PointsAssumption DEF Returned, TypeOK
<1>2. /\ Threshold * Cardinality(back) \in Nat /\ Threshold * returns \in Nat
      /\ Points * Cardinality(earned) \in Nat /\ Spent \in Nat
  BY Sizes, PointsAssumption DEF TypeOK
<1>3. Points * Cardinality(earned) + Threshold * Cardinality(back)
        - Spent - expired >= Threshold
  BY DEF HasReward, Balance, Spent
<1> QED
  BY <1>1, <1>2, <1>3, PointsAssumption DEF Covered, TypeOK

\* Every step keeps the returns ahead of the respends, the spending covered,
\* and room for one more while the row is locked.
LEMMA SpendStep ==
    ASSUME SpendInv, LockHeld, [Next]_vars, TypeOK'
    PROVE  (Returned /\ Spent <= Covered /\ Room)'
<1> USE NoOrderAssumption
<1>1. TypeOK /\ Returned /\ Spent <= Covered /\ Room
  BY DEF SpendInv, RewardsCovered, LockedRoom, Returned, Spent, Covered, Room
<1>2. CASE UNCHANGED <<earned, redeemed, back, returns, lock>>
  BY <1>1, <1>2 DEF Returned, Spent, Covered, Room
<1>3. CASE \E o \in Orders, to \in Roles : MoveOrder(o, to)
  <2>1. /\ Returned' /\ UNCHANGED <<redeemed, lock>>
        /\ Covered' \in Nat /\ Covered' >= Covered
    BY <1>1, <1>3, MoveCovers
  <2>2. Spent' = Spent
    BY <2>1 DEF Spent
  <2>3. Spent \in Nat /\ Covered \in Nat
    BY <1>1, Sizes
  <2> QED
    BY <1>1, <2>1, <2>2, <2>3, PointsAssumption DEF Room
<1>4. CASE DeleteMember /\ UNCHANGED lock
  <2>1. /\ earned' = {} /\ redeemed' = {} /\ back' = {} /\ returns' = 0
        /\ lock' = NoWorker
    BY <1>4 DEF DeleteMember
  <2>2. Cardinality({}) = 0 /\ Threshold * 0 = 0 /\ Points * 0 = 0
    BY FS_EmptySet, PointsAssumption
  <2> QED
    BY <2>1, <2>2 DEF Returned, Spent, Covered, Room
<1>5. CASE \E w \in Workers : LockMember(w)
  <2>1. UNCHANGED <<earned, redeemed, back, returns>>
    BY <1>5 DEF LockMember
  <2>2. Returned' /\ Spent' = Spent /\ Covered' = Covered
    BY <1>1, <2>1 DEF Returned, Spent, Covered
  <2>3. HasReward \/ UNCHANGED lock
    BY <1>5 DEF LockMember, Confirmed
  <2> QED
    BY <1>1, <2>2, <2>3, RewardIsRoom DEF Room
<1>6. CASE \E w \in Workers : CommitRedemption(w)
  <2>1. PICK w \in Workers : CommitRedemption(w)
    BY <1>6
  <2>2. lock = w /\ lock' = NoWorker /\ UNCHANGED <<earned, back, returns>>
    BY <2>1 DEF CommitRedemption, LockHeld
  <2>3. Spent + Threshold <= Covered
    BY <1>1, <2>2 DEF Room
  <2>4. Returned' /\ Covered' = Covered /\ Room'
    BY <1>1, <2>2 DEF Returned, Covered, Room
  <2>5. CASE UNCHANGED redeemed
    BY <1>1, <2>4, <2>5 DEF Spent
  <2>6. CASE redeemed' = redeemed \cup {job[w].order}
             /\ job[w].order \notin redeemed
    <3>1. job[w].order \in Orders
      BY <1>1, <2>1 DEF TypeOK, CommitRedemption
    <3>2. Cardinality(redeemed') = Cardinality(redeemed) + 1
      BY <1>1, <2>6, <3>1, Sizes, OneMore
    <3>3. Spent' = Threshold * (Cardinality(redeemed) + 1)
      BY <3>2 DEF Spent
    <3>4. Threshold * (Cardinality(redeemed) + 1) = Spent + Threshold
      BY <1>1, Sizes, PointsAssumption DEF Spent
    <3> QED
      BY <2>3, <2>4, <3>3, <3>4
  <2> QED
    BY <2>1, <2>5, <2>6 DEF CommitRedemption
<1>7. CASE \E w \in Workers : Abort(w)
  <2>1. UNCHANGED <<earned, redeemed, back, returns>> /\ lock' \in {lock, NoWorker}
    BY <1>7 DEF Abort
  <2> QED
    BY <1>1, <2>1 DEF Returned, Spent, Covered, Room
<1>8. CASE \E w \in Workers, o \in Orders : ForgetCustomer(w, o)
  BY <1>2, <1>4, <1>8 DEF ForgetCustomer
<1>9. CASE NightForget
  BY <1>2, <1>4, <1>9 DEF NightForget
<1>10. CASE SetLoyaltyEnabled \/ Tick \/ EnrolMember \/ NightRead \/ NightWrite
            \/ NightKilled \/ (\E o \in Orders : PlaceOrder(o))
  BY <1>2, <1>10 DEF SetLoyaltyEnabled, Tick, EnrolMember, NightRead,
                     NightWrite, NightKilled, PlaceOrder
<1>11. CASE \E w \in Workers :
               Scrub(w) \/ \E o \in Orders : ReadToRedeem(w, o)
                                           \/ PlanCheckout(w, o)
  BY <1>2, <1>11 DEF Scrub, ReadToRedeem, PlanCheckout
<1>12. CASE UNCHANGED vars
  BY <1>2, <1>12 DEF vars
<1> QED
  BY <1>3, <1>5, <1>6, <1>7, <1>8, <1>9, <1>10, <1>11, <1>12 DEF Next

\* The invariant holds at the start.
LEMMA SpendInit == Init => SpendInv
<1> SUFFICES ASSUME Init PROVE SpendInv
  OBVIOUS
<1>1. Cardinality({}) = 0
  BY FS_EmptySet
<1>2. Threshold * 0 = 0 /\ Points * 0 = 0
  BY PointsAssumption
<1> QED
  BY <1>1, <1>2, TypeInit, NoOrderAssumption
  DEF Init, SpendInv, RewardsCovered, LockedRoom

\* The invariant is inductive.
LEMMA SpendInvStep == SpendInv /\ [Next]_vars => SpendInv'
<1> SUFFICES ASSUME SpendInv, [Next]_vars PROVE SpendInv'
  OBVIOUS
<1>1. TypeOK'
  BY TypeStep DEF SpendInv
<1>2. LockHeld /\ LockHeld'
  BY LockHeldStep DEF SpendInv, LockedRoom, LockHeld
<1>3. (Returned /\ Spent <= Covered /\ Room)'
  BY <1>1, <1>2, SpendStep
<1> QED
  BY <1>1, <1>2, <1>3
  DEF SpendInv, RewardsCovered, LockedRoom, LockHeld, Returned, Spent,
      Covered, Room

\* The inductive invariant holds in every reachable state.
THEOREM SpendInvariant == Spec => []SpendInv
BY SpendInit, SpendInvStep, PTL DEF Spec

-----------------------------------------------------------------------------
\* Points owed.

Earned == Points * Cardinality(earned)

\* A card's balance and what expired of it come to no more than orders earned:
\* what came back was spent before.
LEMMA BalanceIsEarned ==
    ASSUME TypeOK
    PROVE  /\ Earned \in Nat /\ Balance \in Int
           /\ Cardinality(redeemed \ back) \in Nat
           /\ Balance + expired = Earned - Threshold * Cardinality(redeemed \ back)
           /\ Balance + expired <= Earned
<1>1. /\ redeemed \in SUBSET Orders /\ back \in SUBSET redeemed /\ expired \in Nat
      /\ redeemed \ back \in SUBSET Orders
  BY DEF TypeOK
<1>2. /\ Cardinality(redeemed) \in Nat /\ Cardinality(back) \in Nat
      /\ Cardinality(redeemed \ back) \in Nat /\ Cardinality(earned) \in Nat
  BY <1>1, SizeType, Sizes
<1>3. Cardinality(redeemed) = Cardinality(back) + Cardinality(redeemed \ back)
  <2>1. redeemed = back \cup (redeemed \ back) /\ back \cap (redeemed \ back) = {}
    BY <1>1
  <2>2. IsFiniteSet(back) /\ IsFiniteSet(redeemed \ back)
    BY <1>1, SizeType
  <2>3. Cardinality(back \cup (redeemed \ back))
          = Cardinality(back) + Cardinality(redeemed \ back)
            - Cardinality(back \cap (redeemed \ back))
    BY <2>2, FS_Union
  <2>4. Cardinality(back \cap (redeemed \ back)) = 0
    BY <2>1, FS_EmptySet
  <2>5. Cardinality(back \cup (redeemed \ back)) = Cardinality(redeemed)
    BY <2>1
  <2> QED
    BY <2>3, <2>4, <2>5, <1>2
<1>4. /\ Threshold * Cardinality(redeemed)
            = Threshold * Cardinality(back) + Threshold * Cardinality(redeemed \ back)
      /\ Threshold * Cardinality(back) \in Nat
      /\ Threshold * Cardinality(redeemed \ back) \in Nat
  BY <1>2, <1>3, PointsAssumption
<1>5. Earned \in Nat
  BY <1>2, PointsAssumption DEF Earned
<1>6. Balance = Earned - Threshold * Cardinality(redeemed \ back) - expired
  BY <1>1, <1>4, <1>5 DEF Balance, Earned
<1> QED
  BY <1>1, <1>2, <1>4, <1>5, <1>6

\* Orders of a card are earned, never unearned, as long as it is not deleted.
LEMMA EarnedGrows ==
    ASSUME TypeOK, TypeOK', Returned, NEW o \in Orders, NEW to \in Roles, MoveOrder(o, to)
    PROVE  Earned' >= Earned /\ Earned \in Nat /\ Earned' \in Nat
<1>1. earned' = earned \/ (earned' = earned \cup {o} /\ o \notin earned)
  BY DEF MoveOrder, Earns
<1>2. Cardinality(earned') >= Cardinality(earned) /\ Cardinality(earned') \in Nat
  BY <1>1, Sizes, OneMore
<1> QED
  BY <1>2, Sizes, TimesMonotone, PointsAssumption DEF Earned

\* Every step keeps it: what the sweep read was the balance of a card whose id
\* no other card gets, and that card has only earned since.
LEMMA SweepStep ==
    ASSUME SpendInv, SweepInv, [Next]_vars, TypeOK'
    PROVE  SweepInv'
<1>1. /\ TypeOK /\ Returned /\ expired \in Nat /\ enrolled \in Nat
      /\ member \in 0..enrolled /\ night.member \in Nat /\ night.points \in Nat
  BY DEF SpendInv, LockedRoom, Returned, TypeOK
<1>2. /\ night.member <= enrolled /\ expired <= Earned
      /\ night.pc = "write" =>
           night.member # 0 /\ (night.member = member => expired + night.points <= Earned)
  BY DEF SweepInv, Earned
<1>3. SUFFICES /\ night'.member <= enrolled' /\ expired' <= Earned'
               /\ night'.pc = "write" =>
                    /\ night'.member # 0
                    /\ night'.member = member' => expired' + night'.points <= Earned'
  BY DEF SweepInv, Earned
<1>4. CASE UNCHANGED <<earned, expired, member, enrolled, night>>
  BY <1>2, <1>4 DEF Earned
<1>5. CASE DeleteMember /\ UNCHANGED enrolled
            /\ (UNCHANGED night \/ NightTo("read"))
  <2>1. Earned' = 0 /\ expired' = 0 /\ member' = 0
    BY <1>5, FS_EmptySet, PointsAssumption DEF DeleteMember, Earned
  <2> QED
    BY <1>1, <1>2, <1>5, <2>1 DEF NightTo
<1>6. CASE \E o \in Orders, to \in Roles : MoveOrder(o, to)
  <2>1. Earned' >= Earned /\ Earned \in Nat /\ Earned' \in Nat
    BY <1>1, <1>6, EarnedGrows
  <2>2. UNCHANGED <<expired, member, enrolled, night>>
    BY <1>6 DEF MoveOrder
  <2> QED
    BY <1>1, <1>2, <2>1, <2>2
<1>7. CASE EnrolMember
  <2>1. enrolled' = enrolled + 1 /\ member' = enrolled' /\ UNCHANGED <<expired, earned, night>>
    BY <1>7 DEF EnrolMember
  <2>2. Earned' = Earned
    BY <2>1 DEF Earned
  <2> QED
    BY <1>1, <1>2, <2>1, <2>2
<1>8. CASE NightRead
  <2>1. UNCHANGED <<expired, member, enrolled, earned>>
    BY <1>8 DEF NightRead
  <2>2. Earned' = Earned
    BY <2>1 DEF Earned
  <2>3. CASE Expirable
    <3>1. night' = [pc |-> "write", member |-> member, points |-> Balance] /\ member # 0
      BY <1>8, <2>3 DEF NightRead, Expirable
    <3> QED
      BY <1>1, <1>2, <2>1, <2>2, <3>1, BalanceIsEarned
  <2>4. CASE ~Expirable
    BY <1>1, <1>2, <1>8, <2>1, <2>2, <2>4 DEF NightRead, NightTo
  <2> QED
    BY <2>3, <2>4
<1>9. CASE NightWrite
  <2>1. /\ night.pc = "write" /\ UNCHANGED <<member, enrolled, earned>> /\ NightTo("forget")
        /\ expired' = IF night.member = member THEN expired + night.points ELSE expired
    BY <1>9 DEF NightWrite
  <2>2. Earned' = Earned
    BY <2>1 DEF Earned
  <2> QED
    BY <1>1, <1>2, <2>1, <2>2 DEF NightTo
<1>10. CASE NightKilled
  BY <1>1, <1>2, <1>10 DEF NightKilled, NightTo, Earned
<1>11. CASE NightForget
  <2>1. NightTo("read") /\ UNCHANGED enrolled
        /\ (DeleteMember \/ UNCHANGED <<member, earned, expired>>)
    BY <1>11 DEF NightForget
  <2>2. CASE UNCHANGED <<member, earned, expired>>
    BY <1>1, <1>2, <2>1, <2>2 DEF NightTo, Earned
  <2> QED
    BY <1>5, <2>1, <2>2
<1>12. CASE \E w \in Workers, o \in Orders : ForgetCustomer(w, o)
  BY <1>4, <1>5, <1>12 DEF ForgetCustomer
<1>13. CASE \/ SetLoyaltyEnabled \/ Tick \/ UNCHANGED vars
            \/ \E o \in Orders : PlaceOrder(o)
            \/ \E w \in Workers :
                  \/ LockMember(w) \/ CommitRedemption(w) \/ Scrub(w) \/ Abort(w)
                  \/ \E o \in Orders : ReadToRedeem(w, o) \/ PlanCheckout(w, o)
  BY <1>4, <1>13 DEF SetLoyaltyEnabled, Tick, PlaceOrder, LockMember, CommitRedemption,
                     Scrub, Abort, ReadToRedeem, PlanCheckout, vars
<1> QED
  BY <1>6, <1>7, <1>8, <1>9, <1>10, <1>11, <1>12, <1>13 DEF Next

\* Nothing has been earned, and nothing expired, at the start.
LEMMA SweepInit == Init => SweepInv
BY FS_EmptySet, PointsAssumption DEF Init, SweepInv

\* The sweep never takes, from a card, more than its orders earned: what it read
\* before a reward was spent is still covered when it is written.
THEOREM SweepInvariant == Spec => []SweepInv
<1>1. SpendInv /\ SpendInv' /\ SweepInv /\ [Next]_vars => SweepInv'
  BY SweepStep DEF SpendInv
<1> QED
  BY SweepInit, SpendInvariant, <1>1, PTL DEF Spec

\* Two rewards are never bought with one reward's points, however many requests
\* redeem at once on however many orders: lockMemberBalance is enough.  And a
\* card owes no more than the rewards in force on it, whatever came back, was
\* spent elsewhere or expired before its order returned to take it.
THEOREM RewardsPaidFor == Spec => []SpentWithinEarned
<1>1. SpendInv /\ SweepInv => SpentWithinEarned
  <2> SUFFICES ASSUME SpendInv, SweepInv PROVE DebtCovered
    BY DEF SpendInv, SpentWithinEarned
  <2>1. TypeOK /\ expired \in Nat /\ expired <= Earned
    BY DEF SpendInv, TypeOK, SweepInv, Earned
  <2>2. Threshold * Cardinality(redeemed \ back) \in Nat
    BY <2>1, BalanceIsEarned, PointsAssumption
  <2> QED
    BY <2>1, <2>2, BalanceIsEarned DEF DebtCovered
<1> QED
  BY <1>1, SpendInvariant, SweepInvariant, PTL

-----------------------------------------------------------------------------
\* Rewards spent at checkout.

SettledReward(o) == o \in back <=> Dead(role[o])

\* Both promises about a discount.  Together with TypeOK they are inductive:
\* that a discounted order has its redeem row is why a redemption at the
\* counter never meets one, and back \subseteq redeemed is why a checkout
\* starts with its reward held.
RewardInv ==
    NobodyForgotten =>
        /\ discounted \subseteq redeemed
        /\ \A o \in discounted : SettledReward(o)

\* A deleted card is remembered by the ids: this one is not the first, or the
\* customer has none.
LEMMA DeletedIsForgotten ==
    ASSUME TypeOK, member # 0, DeleteMember, UNCHANGED enrolled
    PROVE  ~NobodyForgotten'
BY BoundsAssumption DEF TypeOK, DeleteMember, NobodyForgotten

\* A status change leaves its own order settled and touches no other.
LEMMA MoveSettles ==
    ASSUME TypeOK, NEW o \in redeemed, NEW to \in Roles, MoveOrder(o, to)
    PROVE  SettledReward(o)'
<1>1. role'[o] = to
  BY DEF MoveOrder, TypeOK
<1>2. o \in back' <=> Dead(to)
  BY DEF MoveOrder, SettleReward
<1> QED
  BY <1>1, <1>2 DEF SettledReward, Dead

\* A move of one order leaves the rewards of the others.
LEMMA MoveLeavesOthers ==
    ASSUME TypeOK, NEW o \in Orders, NEW to \in Roles, MoveOrder(o, to),
           NEW x \in Orders, x # o, SettledReward(x)
    PROVE  SettledReward(x)'
<1>1. role'[x] = role[x]
  BY DEF MoveOrder, TypeOK
<1>2. x \in back' <=> x \in back
  BY DEF MoveOrder, SettleReward
<1> QED
  BY <1>1, <1>2 DEF SettledReward, Dead

\* Every step keeps each discount paid for and settled.
LEMMA RewardStep == TypeOK /\ RewardInv /\ [Next]_vars => RewardInv'
<1> SUFFICES ASSUME TypeOK, RewardInv, [Next]_vars, NobodyForgotten'
             PROVE  /\ discounted' \subseteq redeemed'
                    /\ \A o \in discounted' : SettledReward(o)'
  BY DEF RewardInv
<1>0. discounted \subseteq Orders /\ back \subseteq redeemed
  BY DEF TypeOK
<1>1. CASE UNCHANGED <<member, enrolled, role, discounted, redeemed, back>>
  BY <1>1 DEF RewardInv, NobodyForgotten, SettledReward, Dead
<1>2. CASE EnrolMember
  <2>1. NobodyForgotten
    BY <1>2, BoundsAssumption DEF EnrolMember, NobodyForgotten, TypeOK
  <2> QED
    BY <1>2, <2>1 DEF EnrolMember, RewardInv, SettledReward, Dead
<1>3. CASE \E o \in Orders : PlaceOrder(o)
  <2>1. PICK o \in Orders : PlaceOrder(o)
    BY <1>3
  <2>2. /\ UNCHANGED <<member, enrolled, discounted, redeemed, back>>
        /\ \A x \in Orders : Dead(role'[x]) <=> Dead(role[x])
    BY <2>1 DEF PlaceOrder, TypeOK, Dead
  <2> QED
    BY <1>0, <2>2 DEF RewardInv, NobodyForgotten, SettledReward
<1>4. CASE \E o \in Orders, to \in Roles : MoveOrder(o, to)
  <2>1. PICK o \in Orders, to \in Roles : MoveOrder(o, to)
    BY <1>4
  <2>2. UNCHANGED <<member, enrolled, discounted, redeemed>>
    BY <2>1 DEF MoveOrder
  <2>3. discounted \subseteq redeemed /\ \A x \in discounted : SettledReward(x)
    BY <2>2 DEF RewardInv, NobodyForgotten
  <2>4. \A x \in discounted : SettledReward(x)'
    BY <1>0, <2>1, <2>3, MoveSettles, MoveLeavesOthers
  <2> QED
    BY <2>2, <2>3, <2>4
<1>5. CASE \E w \in Workers : CommitRedemption(w)
  <2>1. PICK w \in Workers : CommitRedemption(w)
    BY <1>5
  <2>2. UNCHANGED <<member, enrolled, back>>
    BY <2>1 DEF CommitRedemption
  <2>3. discounted \subseteq redeemed /\ \A x \in discounted : SettledReward(x)
    BY <2>2 DEF RewardInv, NobodyForgotten
  <2>4. PICK o \in Orders : o = job[w].order
    BY <2>1 DEF CommitRedemption, TypeOK
  <2>5. CASE UNCHANGED <<redeemed, role, discounted>>
    BY <2>2, <2>3, <2>5 DEF SettledReward, Dead
  <2>6. CASE redeemed' = redeemed \cup {o} /\ UNCHANGED <<role, discounted>>
    BY <2>2, <2>3, <2>6 DEF SettledReward, Dead
  <2>7. CASE /\ o \notin redeemed /\ redeemed' = redeemed \cup {o}
             /\ role' = [role EXCEPT ![o] = "in_flight"]
             /\ discounted' = discounted \cup {o}
    <3>1. role'[o] = "in_flight" /\ \A x \in Orders \ {o} : role'[x] = role[x]
      BY <2>4, <2>7 DEF TypeOK
    <3>2. SettledReward(o)'
      BY <1>0, <2>2, <2>7, <3>1 DEF SettledReward, Dead
    <3>3. \A x \in discounted \ {o} : SettledReward(x)'
      BY <1>0, <2>2, <2>3, <3>1 DEF SettledReward, Dead
    <3> QED
      BY <2>3, <2>7, <3>2, <3>3
  <2> QED
    BY <2>1, <2>4, <2>5, <2>6, <2>7 DEF CommitRedemption
<1>6. CASE \E w \in Workers, o \in Orders : ForgetCustomer(w, o)
  BY <1>1, <1>6, DeletedIsForgotten DEF ForgetCustomer
<1>7. CASE NightForget
  BY <1>1, <1>7, DeletedIsForgotten DEF NightForget
<1>8. CASE SetLoyaltyEnabled \/ Tick \/ NightRead \/ NightWrite \/ NightKilled
           \/ UNCHANGED vars
  BY <1>1, <1>8 DEF SetLoyaltyEnabled, Tick, NightRead, NightWrite, NightKilled,
                    vars
<1>9. CASE \E w \in Workers :
              \/ Scrub(w) \/ LockMember(w) \/ Abort(w)
              \/ \E o \in Orders : ReadToRedeem(w, o) \/ PlanCheckout(w, o)
  BY <1>1, <1>9 DEF Scrub, LockMember, Abort, ReadToRedeem, PlanCheckout
<1> QED
  BY <1>2, <1>3, <1>4, <1>5, <1>6, <1>7, <1>8, <1>9 DEF Next

\* As long as no card was deleted, every discounted order is paid for and its
\* reward is where the order's end calls for.
THEOREM RewardInvariant == Spec => []RewardInv
<1>1. Init => RewardInv
  BY DEF Init, RewardInv
<1> QED
  BY <1>1, RewardStep, CardTypeCorrect, PTL DEF Spec

\* No order carries a discount the ledger does not know of, however requests
\* race and die: placeOrder's one transaction is enough.
THEOREM DiscountsPaidFor == Spec => []EveryDiscountIsPaidFor
<1>1. RewardInv => EveryDiscountIsPaidFor
  BY DEF RewardInv, EveryDiscountIsPaidFor
<1> QED
  BY <1>1, RewardInvariant, PTL

\* A reward spent at checkout is back on the card exactly while its order is
\* dead, through any number of no-shows and undos (settleRedemptionForOrder).
THEOREM RewardsSettled == Spec => []CheckoutRewardSettled
<1>1. RewardInv => CheckoutRewardSettled
  BY DEF RewardInv, CheckoutRewardSettled, SettledReward
<1> QED
  BY <1>1, RewardInvariant, PTL

-----------------------------------------------------------------------------
\* The member's clock.

\* Only a pickup that earns, a redemption and a new card restart the clock that
\* expiry and deletion count from.
THEOREM ClockRestarts == Spec => OnlyActivityRestartsTheClock
<1> DEFINE Active == \/ earned' # earned \/ redeemed' # redeemed
                     \/ member' # member
<1>1. ASSUME TypeOK, [Next]_vars, age' < age PROVE Active
  <2>0. age \in Nat /\ age' # age
    BY <1>1, WindowsAssumption DEF TypeOK
  <2>1. CASE Tick
    BY <1>1, <2>0, <2>1 DEF Tick
  <2>2. CASE EnrolMember
    BY <1>1, <2>2, BoundsAssumption DEF EnrolMember, TypeOK
  <2>3. CASE \E o \in Orders, to \in Roles : MoveOrder(o, to)
    <3>1. PICK o \in Orders, to \in Roles : MoveOrder(o, to)
      BY <2>3
    <3>2. Earns(o, to) /\ earned' = earned \cup {o}
      BY <2>0, <3>1 DEF MoveOrder, Restarts
    <3> QED
      BY <3>2 DEF Earns
  <2>4. CASE \E w \in Workers : CommitRedemption(w)
    BY <2>0, <2>4 DEF CommitRedemption
  <2>5. CASE \E w \in Workers, o \in Orders : ForgetCustomer(w, o)
    BY <2>0, <2>5 DEF ForgetCustomer, DeleteMember
  <2>6. CASE NightForget
    BY <2>0, <2>6 DEF NightForget, DeleteMember
  <2>7. CASE UNCHANGED memberVars
    BY <2>0, <2>7
  <2>8. SetLoyaltyEnabled \/ NightRead \/ NightWrite \/ NightKilled \/ UNCHANGED vars
          => UNCHANGED memberVars
    BY DEF SetLoyaltyEnabled, NightRead, NightWrite, NightKilled, vars
  <2>9. (\E o \in Orders : PlaceOrder(o)) => UNCHANGED memberVars
    BY DEF PlaceOrder
  <2>10. (\E w \in Workers :
            \/ Scrub(w) \/ LockMember(w) \/ Abort(w)
            \/ \E o \in Orders : ReadToRedeem(w, o) \/ PlanCheckout(w, o))
           => UNCHANGED memberVars
    BY DEF Scrub, LockMember, Abort, ReadToRedeem, PlanCheckout
  <2> QED
    BY <1>1, <2>1, <2>2, <2>3, <2>4, <2>5, <2>6, <2>7, <2>8, <2>9, <2>10 DEF Next
<1>2. TypeOK /\ [Next]_vars => [age' < age => Active]_vars
  BY <1>1
<1> QED
  BY <1>2, CardTypeCorrect, PTL DEF Spec, OnlyActivityRestartsTheClock
=============================================================================
