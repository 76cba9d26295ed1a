------------------------------- MODULE Loyalty ------------------------------
(***************************************************************************)
(* One customer's punch card.  Orders are sold, abandoned and undone, the  *)
(* counter and the checkout spend rewards, a person runs the sweep, and    *)
(* somebody asks to be forgotten, all against one ledger that is summed    *)
(* and never stored as a balance.  The only lock is the member's row.      *)
(*                                                                         *)
(* An order is followed as far as its sales role.  How much it owes, and   *)
(* whether it costs enough to carry a reward, is data: Abort may refuse    *)
(* any redemption.  A reward costs Threshold points and an order earns     *)
(* Points.                                                                 *)
(***************************************************************************)
EXTENDS StatusFacts, Integers, FiniteSets

CONSTANTS
    Orders,         \* the orders this customer may place
    Workers,        \* requests that may be in flight together
    NoOrder,        \* "no order" (not one of Orders)
    NoWorker,       \* nobody holds the member's row lock
    Points,         \* pointsForOrder, the same for each order
    Threshold,      \* rewardThresholdPoints
    ExpiryAge,      \* loyaltyExpiryDays, in ticks of the member's clock
    RetentionAge,   \* retentionDays, in the same ticks
    MaxMembers,     \* bound on enrolments
    MaxReturns      \* bound on rewards handed back

ASSUME NoOrderAssumption   == NoOrder \notin Orders /\ NoWorker \notin Workers
ASSUME OrdersAssumption    == IsFiniteSet(Orders)
ASSUME PointsAssumption    == Points \in Nat /\ Threshold \in Nat \ {0}
\* loyalty_settings_positive and loyalty_expiry_within_retention
ASSUME WindowsAssumption   == /\ ExpiryAge \in Nat \ {0}
                              /\ RetentionAge \in Nat
                              /\ ExpiryAge <= RetentionAge
ASSUME BoundsAssumption    == MaxMembers \in Nat /\ MaxReturns \in Nat

VARIABLES
    enabled,     \* RestaurantSettings.loyaltyEnabled
    member,      \* id of the customer's member row (0: not a member)
    enrolled,    \* how many ids have been used
    age,         \* time since LoyaltyMember.lastActivityAt
    role,        \* each order's sales role, or "unplaced"
    phoned,      \* orders that still carry the customer's phone
    discounted,  \* orders whose snapshot carries a reward's discountCents
    earned,      \* orders with an earn row (unique per order)
    redeemed,    \* orders with a redeem row (unique per order)
    back,        \* redeemed orders whose compensating rows net to a return
    returns,     \* loyalty_reward_returned rows
    expired,     \* points taken by expire rows
    lock,        \* who has the member's row locked
    pc, job,     \* each worker's next statement and local variables
    night        \* the retention command: its next statement and locals

ledgerVars == <<earned, redeemed, back, returns, expired>>
memberVars == <<member, enrolled, age>>
orderVars  == <<role, phoned, discounted>>
workVars   == <<lock, pc, job>>
vars == <<enabled, memberVars, orderVars, ledgerVars, workVars, night>>

-----------------------------------------------------------------------------
\* loyaltyBalance: rows carry their sign and are summed.  A respent row takes
\* a return back, so returns less respents is one for each order in `back`.
Balance == Points * Cardinality(earned) + Threshold * Cardinality(back)
           - Threshold * Cardinality(redeemed) - expired

\* hasReward
HasReward == Balance >= Threshold

Roles == {"in_flight", "sold", "no_show", "cancelled"}

\* What an action of staff or customer can make of an order's sales role
RoleMoves ==
    {<<SalesRoleOf(m[1]), SalesRoleOf(m[2])>> : m \in
        {m \in Status \X Status :
            \E kind \in Kinds, actor \in Actors :
                Permits(kind, actor, m[1], m[2])}}

\* redemptionStateFor: the role in which nobody got the food
Dead(r) == r \in {"no_show", "cancelled"}

Idle == [kind |-> "none", order |-> NoOrder, member |-> 0]
Jobs == [kind : {"none", "counter", "checkout", "forget"},
         order : Orders \cup {NoOrder}, member : Nat]

Goto(w, step, j) == /\ pc'  = [pc EXCEPT ![w] = step]
                    /\ job' = [job EXCEPT ![w] = j]
Done(w) == Goto(w, "idle", Idle)

TypeOK ==
    /\ enabled \in BOOLEAN
    /\ member \in 0..enrolled /\ enrolled \in 0..MaxMembers
    /\ age \in 0..RetentionAge
    /\ role \in [Orders -> Roles \cup {"unplaced"}]
    /\ phoned \subseteq Orders /\ discounted \subseteq Orders
    /\ earned \subseteq Orders /\ redeemed \subseteq Orders
    /\ back \subseteq redeemed
    /\ returns \in Nat /\ expired \in Nat
    /\ lock \in Workers \cup {NoWorker}
    /\ pc \in [Workers -> {"idle", "lock", "write", "scrub"}]
    /\ job \in [Workers -> Jobs]
    /\ \A w \in Workers : pc[w] = "idle" \/ job[w].order \in Orders
    /\ night \in [pc : {"forget", "read", "write"}, member : Nat, points : Nat]

Init ==
    /\ enabled \in BOOLEAN
    /\ member = 0 /\ enrolled = 0 /\ age = 0
    /\ role = [o \in Orders |-> "unplaced"]
    /\ phoned = {} /\ discounted = {}
    /\ earned = {} /\ redeemed = {} /\ back = {}
    /\ returns = 0 /\ expired = 0
    /\ lock = NoWorker
    /\ pc = [w \in Workers |-> "idle"]
    /\ job = [w \in Workers |-> Idle]
    /\ night = [pc |-> "forget", member |-> 0, points |-> 0]

-----------------------------------------------------------------------------
\* The program's switch, and the passing of time.

SetLoyaltyEnabled ==
    /\ enabled' = ~enabled
    /\ UNCHANGED <<memberVars, orderVars, ledgerVars, workVars, night>>

Tick ==
    /\ member # 0 /\ age < RetentionAge
    /\ age' = age + 1
    /\ UNCHANGED <<enabled, member, enrolled, orderVars, ledgerVars, workVars,
                   night>>

\* enrolMember, off a placed order's phone.  On a hit the upsert writes
\* nothing.
EnrolMember ==
    /\ enabled /\ member = 0 /\ enrolled < MaxMembers
    /\ \E o \in phoned : role[o] # "unplaced"
    /\ enrolled' = enrolled + 1 /\ member' = enrolled' /\ age' = 0
    /\ UNCHANGED <<enabled, orderVars, ledgerVars, workVars, night>>

-----------------------------------------------------------------------------
\* Orders.

\* placeOrder with no reward, with or without a phone
PlaceOrder(o) ==
    /\ role[o] = "unplaced"
    /\ role' = [role EXCEPT ![o] = "in_flight"]
    /\ phoned' \in {phoned, phoned \cup {o}}
    /\ UNCHANGED <<enabled, memberVars, discounted, ledgerVars, workVars, night>>

\* Mutant: a reward handed back is never taken again.
SettleReward_OneWay(o, to) ==
    IF o \in redeemed /\ Dead(to) /\ o \notin back
    THEN back' = back \cup {o} /\ returns' = returns + 1
    ELSE UNCHANGED <<back, returns>>

\* settleRedemptionForOrder: the row that brings the compensations to what the
\* order's new role calls for, if there is a redeem row and they are not there
SettleReward(o, to) ==
    IF o \in redeemed /\ Dead(to) /\ o \notin back
    THEN back' = back \cup {o} /\ returns' = returns + 1
    ELSE IF ~Dead(to) /\ o \in back
         THEN back' = back \ {o} /\ UNCHANGED returns
         ELSE UNCHANGED <<back, returns>>

\* earnForOrder writes a row: anything else leaves the ledger and clock alone
Earns(o, to) == /\ SalesRoleOf("picked_up") = to
                /\ enabled /\ o \in phoned /\ member # 0 /\ Points > 0
                /\ o \notin earned

\* Mutant: the clock restarts when the order's end settles a reward.
Restarts_Settle(o, to) == Earns(o, to) \/ (Dead(to) /\ o \in redeemed)

\* Whether a status change moves lastActivityAt
Restarts(o, to) == Earns(o, to)

\* applyOrderAction's transaction, as far as the ledger goes.  The earn writes
\* the member's row, so it waits for whoever has it locked.
MoveOrder(o, to) ==
    /\ <<role[o], to>> \in RoleMoves
    /\ role' = [role EXCEPT ![o] = to]
    /\ Dead(to) /\ o \in redeemed /\ o \notin back => returns < MaxReturns
    /\ Restarts(o, to) => lock = NoWorker
    /\ earned' = IF Earns(o, to) THEN earned \cup {o} ELSE earned
    /\ age' = IF Restarts(o, to) THEN 0 ELSE age
    /\ SettleReward(o, to)
    /\ UNCHANGED <<enabled, member, enrolled, phoned, discounted, redeemed,
                   expired, workVars, night>>

-----------------------------------------------------------------------------
\* Spending a reward: plan outside the transaction, then lock, re-check, write.

\* redeemReward's reads and planRedemption.  Nothing here asks the status.
ReadToRedeem(w, o) ==
    /\ pc[w] = "idle"
    /\ role[o] # "unplaced" /\ o \in phoned
    /\ enabled /\ member # 0 /\ o \notin redeemed /\ HasReward
    /\ Goto(w, "lock", [kind |-> "counter", order |-> o, member |-> member])
    /\ UNCHANGED <<enabled, memberVars, orderVars, ledgerVars, lock, night>>

\* planCheckoutReward, for an order about to be placed
PlanCheckout(w, o) ==
    /\ pc[w] = "idle"
    /\ role[o] = "unplaced"
    /\ enabled /\ member # 0 /\ HasReward
    /\ Goto(w, "lock", [kind |-> "checkout", order |-> o, member |-> member])
    /\ UNCHANGED <<enabled, memberVars, orderVars, ledgerVars, lock, night>>

\* The checkout confirms against the settings too; the counter does not.
StillOffered(w) == job[w].kind = "checkout" => enabled

\* Mutant: the balance read before the lock is trusted.
Confirmed_Stale(w) == job[w].member = member /\ StillOffered(w)

\* lockMemberBalance finds the row and the plan still holds behind the lock
Confirmed(w) == job[w].member = member /\ StillOffered(w) /\ HasReward

\* The member's row locked, the balance read again behind the lock
LockMember(w) ==
    /\ pc[w] = "lock" /\ lock = NoWorker
    /\ IF Confirmed(w)
       THEN lock' = w /\ Goto(w, "write", job[w])
       ELSE UNCHANGED lock /\ Done(w)
    /\ UNCHANGED <<enabled, memberVars, orderVars, ledgerVars, night>>

\* The redeem row and its order or comp commit together, unless an index
\* refuses: one redeem per order, one order per idempotency key
CommitRedemption(w) ==
    LET o == job[w].order
        checkout == job[w].kind = "checkout"
    IN /\ pc[w] = "write"
       /\ IF o \in redeemed \/ (checkout /\ role[o] # "unplaced")
          THEN UNCHANGED <<redeemed, age, orderVars>>
          ELSE /\ redeemed' = redeemed \cup {o}
               /\ age' = 0
               /\ IF checkout
                  THEN /\ role' = [role EXCEPT ![o] = "in_flight"]
                       /\ phoned' = phoned \cup {o}
                       /\ discounted' = discounted \cup {o}
                  ELSE UNCHANGED orderVars
       /\ lock' = NoWorker /\ Done(w)
       /\ UNCHANGED <<enabled, member, enrolled, earned, back, returns, expired,
                      night>>

\* Mutant: the order is created outside the transaction that spends the reward.
Abort_OrderStays(w) ==
    /\ pc[w] = "write"
    /\ lock' = NoWorker /\ Done(w)
    /\ discounted' = discounted \cup {job[w].order}
    /\ UNCHANGED <<enabled, memberVars, role, phoned, ledgerVars, night>>

\* adjustOrder refuses, the transaction times out, or the process dies: the
\* transaction rolls back and the lock goes with it
Abort(w) ==
    /\ pc[w] # "idle"
    /\ lock' = IF lock = w THEN NoWorker ELSE lock
    /\ Done(w)
    /\ UNCHANGED <<enabled, memberVars, orderVars, ledgerVars, night>>

-----------------------------------------------------------------------------
\* Forgetting, and the retention command.

\* The member row deleted, its ledger with it
DeleteMember ==
    /\ lock = NoWorker
    /\ member' = 0 /\ age' = 0
    /\ earned' = {} /\ redeemed' = {} /\ back' = {}
    /\ returns' = 0 /\ expired' = 0

\* forgetOrderCustomer: the member by the order's phone, then (Scrub) the phone
ForgetCustomer(w, o) ==
    /\ pc[w] = "idle" /\ o \in phoned
    /\ IF member # 0 THEN DeleteMember
                     ELSE UNCHANGED <<member, age, ledgerVars>>
    /\ Goto(w, "scrub", [kind |-> "forget", order |-> o, member |-> 0])
    /\ UNCHANGED <<enabled, enrolled, orderVars, lock, night>>

Scrub(w) ==
    /\ pc[w] = "scrub"
    /\ phoned' = phoned \ {job[w].order}
    /\ Done(w)
    /\ UNCHANGED <<enabled, memberVars, role, discounted, ledgerVars, lock, night>>

NightTo(step) == night' = [pc |-> step, member |-> 0, points |-> 0]

\* sweepRetention: orders past their own window lose the phone, and a member
\* past the member's is deleted
NightForget ==
    /\ night.pc = "forget"
    /\ \E old \in SUBSET phoned : phoned' = phoned \ old
    /\ IF member # 0 /\ age >= RetentionAge
       THEN DeleteMember
       ELSE UNCHANGED <<member, age, ledgerVars>>
    /\ NightTo("read")
    /\ UNCHANGED <<enabled, enrolled, role, discounted, workVars>>

\* Mutant: only while the program is switched on.
Expirable_Enabled == enabled /\ member # 0 /\ age >= ExpiryAge /\ Balance > 0

\* The member is past the expiry window with points on the card
Expirable == member # 0 /\ age >= ExpiryAge /\ Balance > 0

\* expireInactiveBalances' read
NightRead ==
    /\ night.pc = "read"
    /\ IF Expirable
       THEN night' = [pc |-> "write", member |-> member, points |-> Balance]
       ELSE NightTo("forget")
    /\ UNCHANGED <<enabled, memberVars, orderVars, ledgerVars, workVars>>

\* Its createMany, refused whole when the member has gone
NightWrite ==
    /\ night.pc = "write"
    /\ expired' = IF night.member = member THEN expired + night.points
                                           ELSE expired
    /\ NightTo("forget")
    /\ UNCHANGED <<enabled, memberVars, orderVars, earned, redeemed, back,
                   returns, workVars>>

\* The command is killed and, some other day, run again
NightKilled ==
    /\ night.pc # "forget"
    /\ NightTo("forget")
    /\ UNCHANGED <<enabled, memberVars, orderVars, ledgerVars, workVars>>

Next ==
    \/ SetLoyaltyEnabled \/ Tick \/ EnrolMember
    \/ \E o \in Orders : PlaceOrder(o) \/ \E to \in Roles : MoveOrder(o, to)
    \/ \E w \in Workers :
          \/ \E o \in Orders : \/ ReadToRedeem(w, o) \/ PlanCheckout(w, o)
                               \/ ForgetCustomer(w, o)
          \/ LockMember(w) \/ CommitRedemption(w) \/ Scrub(w) \/ Abort(w)
    \/ NightForget \/ NightRead \/ NightWrite \/ NightKilled

Spec == Init /\ [][Next]_vars

\* Nothing in the code schedules the retention command.  The fairness is the
\* operator's: it is run again and again, is not killed every time just before
\* it writes, and a transaction does not stay open for ever (Prisma times it
\* out).
Fairness ==
    /\ SF_vars(NightForget) /\ SF_vars(NightRead) /\ SF_vars(NightWrite)
    /\ \A w \in Workers : WF_vars(LockMember(w)) /\ WF_vars(CommitRedemption(w))

FairSpec == Spec /\ Fairness

-----------------------------------------------------------------------------
\* Properties

\* Two rewards are never bought with one reward's points: over the life of a
\* card, what was spent on rewards is covered by what orders earned and what
\* dead orders gave back.  lockMemberBalance exists for this (the counter and
\* the checkout both read the balance before their transactions).
RewardsCovered ==
    Threshold * Cardinality(redeemed)
        <= Points * Cardinality(earned) + Threshold * returns

\* Points handed back may be spent elsewhere, or expire, before the dead order
\* comes back to take them, and the sweep writes off a balance it read before a
\* reward was spent from it: a card may then owe points, but never more than
\* the rewards now in force cost (redemptionStateFor, expireInactiveBalances).
DebtCovered == Balance >= -(Threshold * Cardinality(redeemed \ back))

\* Points are spent once, and what a card may owe after all is bounded.
SpentWithinEarned == RewardsCovered /\ DebtCovered

\* What makes it inductive: a reward comes back before it is taken again, and
\* whoever has the row locked re-read a balance that still covers one more.
LockedRoom ==
    /\ \A w \in Workers : pc[w] = "write" <=> lock = w
    /\ Cardinality(back) <= returns
    /\ lock # NoWorker =>
          Threshold * Cardinality(redeemed) + Threshold
              <= Points * Cardinality(earned) + Threshold * returns

SpendInv == TypeOK /\ RewardsCovered /\ LockedRoom

\* Why the debt is bounded: the sweep has taken, and is about to take, no more
\* than the orders of that very card earned.
SweepInv ==
    /\ night.member <= enrolled
    /\ expired <= Points * Cardinality(earned)
    /\ night.pc = "write" =>
          /\ night.member # 0
          /\ night.member = member =>
                expired + night.points <= Points * Cardinality(earned)

\* No card has been deleted.  After that the ledger no longer knows which
\* orders had a reward, and the next card may put one on the same order again.
NobodyForgotten == enrolled <= 1 /\ member = enrolled

\* A reward spent at checkout is held exactly while its order may still feed
\* somebody, and is back on the card otherwise, through any number of no-shows
\* and undos (settleRedemptionForOrder).
CheckoutRewardSettled ==
    NobodyForgotten =>
        \A o \in discounted \cap redeemed : o \in back <=> Dead(role[o])

\* No order carries a discount that the ledger does not know of (placeOrder's
\* one transaction).
EveryDiscountIsPaidFor == NobodyForgotten => discounted \subseteq redeemed

\* Only a pickup that earns, a redemption and a new card restart the clock that
\* expiry and deletion count from; an order dying, a reward coming back and an
\* expiry do not (settleRedemptionForOrder, expireInactiveBalances).
OnlyActivityRestartsTheClock ==
    [][age' < age => \/ earned' # earned \/ redeemed' # redeemed
                     \/ member' # member]_vars

\* However often the program is switched off, points nobody uses do not stay
\* on the card as long as the retention command keeps being run.
NoImmortalBalance ==
    []<>~(member # 0 /\ age >= ExpiryAge /\ Balance > 0)
=============================================================================
