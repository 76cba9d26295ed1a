----------------------------- MODULE Placement ------------------------------
(***************************************************************************)
(* How an order gets its number.  Checkouts and remakes read the highest   *)
(* number of the day, insert the next one and let the unique constraints   *)
(* decide who had it; the loser reads again.  A request may be tapped      *)
(* twice, race its own twin, lose its reward to somebody else, or die.     *)
(*                                                                         *)
(* One business day, ASAP orders.  The cart, the menu and the customer's   *)
(* details are data: Review may refuse any new order.  An order weighs one *)
(* unit on the throttle.  Customers of RewardAttempts share one member.    *)
(* A row another transaction has inserted and not committed blocks an      *)
(* insert of the same number or key until that transaction ends.           *)
(***************************************************************************)
EXTENDS Integers, FiniteSets

CONSTANTS
    Attempts,        \* checkout attempts: a key each, tapped any number of times
    RewardAttempts,  \* those that spend the member's reward
    Workers,         \* requests that may be in flight together
    NoKey,           \* an unused number
    NoWorker,        \* nobody holds the member's row lock
    MaxAttempts,     \* MAX_SEQ_ATTEMPTS
    MaxOpen,         \* maxOpenWeight, in orders
    Rewards,         \* rewards the member's balance buys at first
    MaxRemakes,      \* bound: the first MaxRemakes orders may be remade, each as often
    MaxOrders        \* bound on the day's numbers: room for every order above

RemakeKeys == (1..MaxOrders) \X (0..MaxRemakes)
Keys       == Attempts \union RemakeKeys

ASSUME KeysAssumption   == NoKey \notin Keys /\ Attempts \cap RemakeKeys = {}
ASSUME WorkersAssumption == NoWorker \notin Workers /\ IsFiniteSet(Workers)
ASSUME RewardAssumption == RewardAttempts \subseteq Attempts
ASSUME LimitsAssumption == /\ MaxAttempts \in Nat \ {0}
                           /\ MaxOpen \in Nat \ {0}
                           /\ Rewards \in Nat
                           /\ MaxRemakes \in Nat
                           /\ MaxOrders \in Nat

VARIABLES
    book,      \* the key of the committed order with each number
    open,      \* orders still on the line
    rewards,   \* rewards the member's balance still buys
    lock,      \* who has the member's row locked
    pc, job    \* each request's next statement and local variables

vars == <<book, open, rewards, lock, pc, job>>

-----------------------------------------------------------------------------
Rows == {n \in 1..MaxOrders : book[n] # NoKey}

Taken(k) == \E n \in Rows : book[n] = k

\* aggregate _max seq over the day: what is committed, 0 over no rows
Highest ==
    CHOOSE h \in 0..MaxOrders :
        /\ h \in Rows \union {0}
        /\ \A n \in Rows : n <= h

\* _count remadeBy
TimesRemade(n) == Cardinality({c \in 0..MaxRemakes : Taken(<<n, c>>)})

Over    == {"idle", "answered", "refused", "gave_up"}
Running == {"lookup", "review", "plan", "number", "confirm", "insert", "commit"}

\* Requests with a row inserted and not yet committed
Inserted == {w \in Workers : pc[w] = "commit"}

\* What a request remembers: its key, its number, the numbers it lost, and how
\* far the book had got at the tap
Remembers(k, n, h) == [key |-> k, seq |-> n, tries |-> 0, began |-> h]

Blank == Remembers(NoKey, 0, 0)

To(w, step) == pc' = [pc EXCEPT ![w] = step]

Refuse(w) ==
    /\ To(w, "refused")
    /\ job' = [job EXCEPT ![w] = Blank]

\* The reply names order n; what the request remembers beside it is forgotten
Answer(w, n) ==
    /\ To(w, "answered")
    /\ job' = [job EXCEPT ![w] = Remembers(job[w].key, n, 0)]

\* The transaction ends, and with it any row lock
Unlock(w) == lock' = IF lock = w THEN NoWorker ELSE lock

Init ==
    /\ book = [n \in 1..MaxOrders |-> NoKey]
    /\ open = 0
    /\ rewards = Rewards
    /\ lock = NoWorker
    /\ pc = [w \in Workers |-> "idle"]
    /\ job = [w \in Workers |-> Blank]

-----------------------------------------------------------------------------
Begin(w, k) ==
    /\ pc[w] \in Over
    /\ job' = [job EXCEPT ![w] = Remembers(k, 0, Highest)]
    /\ To(w, "lookup")
    /\ UNCHANGED <<book, open, rewards, lock>>

\* A customer submits a checkout, for the first time or again
Tap(w, k) == Begin(w, k)

\* remakeOrder: the key is made from the order and how often it was remade
RemakeTap(w, n) ==
    /\ n \in Rows \cap (1..MaxRemakes)
    /\ TimesRemade(n) < MaxRemakes
    /\ Begin(w, <<n, TimesRemade(n)>>)

\* Mutant: a replay is asked what a new order is asked
Lookup_Skipped(w) ==
    /\ pc[w] = "lookup"
    /\ To(w, IF job[w].key \in Attempts THEN "review" ELSE "number")
    /\ UNCHANGED <<book, open, rewards, lock, job>>

\* findOrderByIdempotencyKey, before anything else is asked
Lookup(w) ==
    /\ pc[w] = "lookup"
    /\ \/ /\ Taken(job[w].key)
          /\ \E n \in Rows : book[n] = job[w].key /\ Answer(w, n)
       \/ /\ ~Taken(job[w].key)
          /\ To(w, IF job[w].key \in Attempts THEN "review" ELSE "number")
          /\ UNCHANGED job
    /\ UNCHANGED <<book, open, rewards, lock>>

\* Mutant: the throttle is forgotten
TooBusy_Never == FALSE

\* checkoutGate's last question
TooBusy == open >= MaxOpen

\* The gate, the cart, the customer's details: any of them may refuse
Review(w) ==
    /\ pc[w] = "review"
    /\ \/ Refuse(w)
       \/ /\ ~TooBusy
          /\ To(w, IF job[w].key \in RewardAttempts THEN "plan" ELSE "number")
          /\ UNCHANGED job
    /\ UNCHANGED <<book, open, rewards, lock>>

\* resolveCheckoutReward: the balance, read outside any transaction
Plan(w) ==
    /\ pc[w] = "plan"
    /\ \/ rewards > 0 /\ To(w, "number") /\ UNCHANGED job
       \/ rewards = 0 /\ Refuse(w)
    /\ UNCHANGED <<book, open, rewards, lock>>

Number_Reserves(w) ==
    /\ pc[w] = "number"
    /\ job' = [job EXCEPT ![w].seq = Highest + Cardinality(Inserted) + 1]
    /\ To(w, IF job[w].key \in RewardAttempts THEN "confirm" ELSE "insert")
    /\ UNCHANGED <<book, open, rewards, lock>>

Number_Cached(w) ==
    /\ pc[w] = "number"
    /\ job' = [job EXCEPT ![w].seq = IF @ = 0 THEN Highest + 1 ELSE @]
    /\ To(w, IF job[w].key \in RewardAttempts THEN "confirm" ELSE "insert")
    /\ UNCHANGED <<book, open, rewards, lock>>

\* takingNextOrderNumber, at the head of its loop
Number(w) ==
    /\ pc[w] = "number"
    /\ job' = [job EXCEPT ![w].seq = Highest + 1]
    /\ To(w, IF job[w].key \in RewardAttempts THEN "confirm" ELSE "insert")
    /\ UNCHANGED <<book, open, rewards, lock>>

\* confirmCheckoutRedemption takes the member's row and asks again; a refusal
\* throws RewardLost and rolls the transaction back
Confirm(w) ==
    /\ pc[w] = "confirm"
    /\ lock = NoWorker
    /\ \/ /\ rewards > 0
          /\ lock' = w
          /\ To(w, "insert")
          /\ UNCHANGED job
       \/ /\ rewards = 0
          /\ Refuse(w)
          /\ UNCHANGED lock
    /\ UNCHANGED <<book, open, rewards>>

\* The insert waits for whoever has inserted the same number or key
Waits(w) ==
    \E v \in Inserted \ {w} : \/ job[v].seq = job[w].seq
                              \/ job[v].key = job[w].key

\* Mutant: idempotencyKey is not unique
Fits_NumberOnly(w) == job[w].seq \notin Rows

\* Both constraints hold: @@unique([businessDay, seq]) and idempotencyKey
Fits(w) == job[w].seq \notin Rows /\ ~Taken(job[w].key)

Insert(w) ==
    /\ pc[w] = "insert"
    /\ job[w].seq <= MaxOrders
    /\ Fits(w)
    /\ ~Waits(w)
    /\ To(w, "commit")
    /\ UNCHANGED <<book, open, rewards, lock, job>>

\* P2002 on the key: recover reads the winner's order
KeyTaken(w) ==
    /\ pc[w] = "insert"
    /\ \E n \in Rows : book[n] = job[w].key /\ Answer(w, n)
    /\ Unlock(w)
    /\ UNCHANGED <<book, open, rewards>>

\* Mutant: the insert is tried again as it was, and never given up
NumberTaken_ForEver(w) ==
    /\ pc[w] = "insert"
    /\ job[w].seq \in Rows
    /\ Unlock(w)
    /\ To(w, IF job[w].key \in RewardAttempts THEN "confirm" ELSE "insert")
    /\ UNCHANGED <<book, open, rewards, job>>

\* P2002 on the number: round the loop, with a fresh maximum, while tries last
NumberTaken(w) ==
    /\ pc[w] = "insert"
    /\ job[w].seq \in Rows
    /\ IF job[w].tries + 1 < MaxAttempts
         THEN To(w, "number") /\ job' = [job EXCEPT ![w].tries = @ + 1]
         ELSE To(w, "gave_up") /\ job' = [job EXCEPT ![w] = Blank]
    /\ Unlock(w)
    /\ UNCHANGED <<book, open, rewards>>

\* The order, its events and its redeem row commit together
Commit(w) ==
    /\ pc[w] = "commit"
    /\ book' = [book EXCEPT ![job[w].seq] = job[w].key]
    /\ open' = open + 1
    /\ rewards' = IF job[w].key \in RewardAttempts THEN rewards - 1 ELSE rewards
    /\ Unlock(w)
    /\ Answer(w, job[w].seq)

\* The process or its connection dies: Postgres rolls the transaction back
Die(w) ==
    /\ pc[w] \in Running
    /\ To(w, "idle")
    /\ job' = [job EXCEPT ![w] = Blank]
    /\ Unlock(w)
    /\ UNCHANGED <<book, open, rewards>>

\* The order reaches the customer, or is cancelled
LeaveLine ==
    /\ open > 0
    /\ open' = open - 1
    /\ UNCHANGED <<book, rewards, lock, pc, job>>

\* redeemReward at the counter, one transaction under the same row lock
CounterSpends ==
    /\ lock = NoWorker
    /\ rewards > 0
    /\ rewards' = rewards - 1
    /\ UNCHANGED <<book, open, lock, pc, job>>

Step(w) ==
    \/ Lookup(w) \/ Review(w) \/ Plan(w) \/ Number(w) \/ Confirm(w)
    \/ Insert(w) \/ KeyTaken(w) \/ NumberTaken(w) \/ Commit(w)

Next ==
    \/ \E w \in Workers :
          \/ \E k \in Attempts : Tap(w, k)
          \/ \E n \in 1..MaxOrders : RemakeTap(w, n)
          \/ Step(w)
          \/ Die(w)
    \/ LeaveLine
    \/ CounterSpends

Spec == Init /\ [][Next]_vars

\* A request that started runs on, and one that waits for a row is queued by
\* Postgres: woken again and again it gets its turn, hence strong fairness.
Fairness ==
    \A w \in Workers : SF_vars(Step(w))

FairSpec == Spec /\ Fairness

-----------------------------------------------------------------------------
TypeOK ==
    /\ book \in [1..MaxOrders -> Keys \union {NoKey}]
    /\ open \in Nat
    /\ rewards \in Int
    /\ lock \in Workers \union {NoWorker}
    /\ pc \in [Workers -> Over \union Running]
    /\ job \in [Workers -> [key : Keys \union {NoKey}, seq : 0..MaxOrders + 1,
                            tries : Nat, began : 0..MaxOrders]]

\* A reply always names the order that the request's own key placed, whether
\* it placed it, found it, or lost to it, and no other order has that key:
\* placeOrder's three ways out (lookup, create, recover) agree.
AnsweredWithItsOrder ==
    \A w \in Workers : pc[w] = "answered" =>
        {n \in Rows : book[n] = job[w].key} = {job[w].seq}

\* Every lost number is an order somebody else placed since the tap, so the
\* loop gives up only after MaxAttempts orders got in first: the comment at
\* MAX_SEQ_ATTEMPTS calls this "a concurrency depth, not a delay".
BeatenByOrders ==
    [][\A w \in Workers :
          pc[w] \in Running /\ pc'[w] = "gave_up"
            => Highest - job[w].began >= MaxAttempts]_vars

\* A tap sent after its order was placed is answered with that order, whatever
\* the gate, the menu or the member's balance say by then (P0-10).
LateTapReplays ==
    [][\A w \in Workers :
          /\ pc[w] \in Running
          /\ pc'[w] \in {"refused", "gave_up"}
          => \A n \in 1..job[w].began : book[n] # job[w].key]_vars

\* The throttle is asked outside the transaction, so it can be overshot, by at
\* most the requests that were past it together: less than there are workers.
\* A remake does not ask.
OvershootBounded ==
    open < MaxOpen + Cardinality(Workers) + MaxRemakes * MaxRemakes

\* A request's transaction never holds the member's row while it is not in a
\* transaction, and no reward is given that the balance does not buy.
RewardsCovered ==
    /\ rewards >= 0
    /\ \A w \in Workers : /\ lock = w => pc[w] \in {"insert", "commit"} /\ rewards > 0
                          /\ pc[w] = "commit" /\ job[w].key \in RewardAttempts => lock = w

\* The day's numbers are the promise of OrderBook: each order takes the number
\* after the last one, with none skipped even when a transaction dies.
Day == INSTANCE OrderBook WITH placed <- [n \in 1..Highest |-> book[n]]
BookImplemented == Day!Spec

\* Every request that is not killed gets an answer: nobody waits for ever on a
\* row, and the retry loop ends.
EveryRequestEnds ==
    \A w \in Workers : pc[w] \in Running ~> pc[w] \in Over
=============================================================================
