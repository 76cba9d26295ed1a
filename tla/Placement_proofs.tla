-------------------------- MODULE Placement_proofs --------------------------
(***************************************************************************)
(* Proofs about Placement for any number of requests, keys and retries:    *)
(* the day's book is one list (the refinement of OrderBook), a reply names *)
(* the request's own order, a late tap is a replay, a request gives up     *)
(* only when beaten, and the throttle is overshot by a bounded number.     *)
(***************************************************************************)
EXTENDS Placement, FiniteSetTheorems, SequenceTheorems, TLAPS

\* The committed numbers are 1..h for some h
Dense == \E h \in 0..MaxOrders : Rows = 1..h

KeysOnce == \A m, n \in Rows : book[m] = book[n] => m = n

\* What a request knows of the book, by how far it got
KnowsItsKey(w) ==
    pc[w] \in Running => job[w].key \in Keys /\ job[w].began <= Highest

KeyWasFree(w) ==
    pc[w] \in Running \ {"lookup"} =>
        \A n \in 1..job[w].began : book[n] # job[w].key

BeatenEachTry(w) ==
    pc[w] \in Running => job[w].tries <= Highest - job[w].began

HasCandidate(w) ==
    pc[w] \in {"confirm", "insert", "commit"} =>
        /\ 1 <= job[w].seq /\ job[w].seq <= Highest + 1
        /\ job[w].tries + job[w].began < job[w].seq

ReadyToCommit(w) ==
    pc[w] = "commit" =>
        /\ job[w].seq = Highest + 1
        /\ job[w].seq <= MaxOrders
        /\ ~Taken(job[w].key)

NamesItsOrder(w) ==
    pc[w] = "answered" => job[w].seq \in Rows /\ book[job[w].seq] = job[w].key

HoldsTheRow(w) ==
    /\ lock = w => pc[w] \in {"insert", "commit"} /\ rewards > 0
    /\ pc[w] \in {"insert", "commit"} /\ job[w].key \in RewardAttempts => lock = w

Knows(w) ==
    /\ KnowsItsKey(w) /\ KeyWasFree(w) /\ BeatenEachTry(w)
    /\ HasCandidate(w) /\ ReadyToCommit(w) /\ NamesItsOrder(w)

OneInserted == \A v, w \in Inserted : v = w

IInv ==
    /\ TypeOK
    /\ Dense
    /\ KeysOnce
    /\ \A w \in Workers : Knows(w)
    /\ OneInserted
    /\ rewards >= 0
    /\ \A w \in Workers : HoldsTheRow(w)

-----------------------------------------------------------------------------
\* The maximum of a book without gaps is how many rows it has.
LEMMA TopOfTheBook ==
    ASSUME Dense
    PROVE  Highest \in 0..MaxOrders /\ Rows = 1..Highest
<1>1. PICK h \in 0..MaxOrders : Rows = 1..h
  BY DEF Dense
<1>2. h \in Rows \union {0} /\ \A n \in Rows : n <= h
  BY <1>1, LimitsAssumption
<1>3. \A g \in 0..MaxOrders :
         (g \in Rows \union {0} /\ \A n \in Rows : n <= g) => g = h
  BY <1>1, LimitsAssumption
<1>4. Highest = h
  BY <1>2, <1>3 DEF Highest
<1> QED
  BY <1>1, <1>4

\* How often an order was remade is a number.
LEMMA TimesRemadeType ==
    ASSUME NEW n \in 1..MaxOrders
    PROVE  TimesRemade(n) \in Nat
<1>1. IsFiniteSet(0..MaxRemakes)
  BY LimitsAssumption, FS_Interval
<1> QED
  BY <1>1, FS_Subset, FS_CardinalityType DEF TimesRemade

-----------------------------------------------------------------------------
LEMMA InitTyped == Init => TypeOK
BY LimitsAssumption DEF Init, TypeOK, Over, Blank, Remembers

\* What a request may remember.
Jobs == [key : Keys \union {NoKey}, seq : 0..MaxOrders + 1,
         tries : Nat, began : 0..MaxOrders]

Steps == Over \union Running

\* A step that moves one request on and remembers something well typed.
LEMMA MoveTyped ==
    ASSUME TypeOK, NEW w \in Workers, NEW s \in Steps, NEW j \in Jobs,
           pc' = [pc EXCEPT ![w] = s], job' = [job EXCEPT ![w] = j],
           book' \in [1..MaxOrders -> Keys \union {NoKey}],
           open' \in Nat, rewards' \in Int, lock' \in Workers \union {NoWorker}
    PROVE  TypeOK'
<1>1. pc' \in [Workers -> Steps]
  BY DEF TypeOK, Steps
<1>2. job' \in [Workers -> Jobs]
  BY DEF TypeOK, Jobs
<1> QED
  BY <1>1, <1>2 DEF TypeOK, Steps, Jobs

\* The same, remembering what it remembered.
LEMMA StayTyped ==
    ASSUME TypeOK, NEW w \in Workers, NEW s \in Steps,
           pc' = [pc EXCEPT ![w] = s], job' = job,
           UNCHANGED <<book, open, rewards>>, lock' \in Workers \union {NoWorker}
    PROVE  TypeOK'
BY DEF TypeOK, Steps

LEMMA BeginTyped ==
    ASSUME TypeOK, Dense, NEW w \in Workers, NEW k \in Keys, Begin(w, k)
    PROVE  TypeOK'
<1> DEFINE j == Remembers(k, 0, Highest)
<1>1. j \in Jobs
  BY TopOfTheBook, LimitsAssumption DEF Jobs, Remembers
<1>2. "lookup" \in Steps
  BY DEF Steps, Running
<1> QED
  BY <1>1, <1>2, MoveTyped DEF Begin, To, TypeOK

LEMMA RemakeKeyed ==
    ASSUME TypeOK, NEW n \in 1..MaxOrders, NEW w \in Workers, RemakeTap(w, n)
    PROVE  <<n, TimesRemade(n)>> \in Keys /\ Begin(w, <<n, TimesRemade(n)>>)
BY TimesRemadeType, LimitsAssumption DEF RemakeTap, Keys, RemakeKeys

LEMMA AnswerTyped ==
    ASSUME TypeOK, NEW w \in Workers, NEW n \in 0..MaxOrders + 1, Answer(w, n),
           book' \in [1..MaxOrders -> Keys \union {NoKey}],
           open' \in Nat, rewards' \in Int, lock' \in Workers \union {NoWorker}
    PROVE  TypeOK'
<1> DEFINE j == Remembers(job[w].key, n, 0)
<1>1. j \in Jobs
  BY LimitsAssumption DEF Jobs, TypeOK, Remembers
<1>2. "answered" \in Steps
  BY DEF Steps, Over
<1> QED
  BY <1>1, <1>2, MoveTyped DEF Answer, To

LEMMA BlankTyped ==
    ASSUME TypeOK, NEW w \in Workers, NEW s \in Steps,
           pc' = [pc EXCEPT ![w] = s], job' = [job EXCEPT ![w] = Blank],
           UNCHANGED <<book, open, rewards>>,
           lock' \in Workers \union {NoWorker}
    PROVE  TypeOK'
<1>1. Blank \in Jobs
  BY LimitsAssumption DEF Blank, Remembers, Jobs
<1> QED
  BY <1>1, MoveTyped DEF TypeOK

LEMMA StepTyped ==
    ASSUME TypeOK, Dense, NEW w \in Workers, Step(w) \/ Die(w)
    PROVE  TypeOK'
<1> USE LimitsAssumption
<1>a. Unlock(w) => lock' \in Workers \union {NoWorker}
  BY DEF Unlock, TypeOK
<1>b. Rows \subseteq 0..MaxOrders + 1
  BY DEF Rows
<1>c. Over \union Running \subseteq Steps
  BY DEF Steps
<1>d. job[w] \in Jobs
  BY DEF TypeOK, Jobs
<1>1. CASE Lookup(w)
  <2>1. CASE \E n \in Rows : Answer(w, n)
    BY <1>1, <1>b, <2>1, AnswerTyped DEF Lookup, TypeOK
  <2>2. CASE UNCHANGED job /\ \E s \in Running : To(w, s)
    BY <1>1, <1>c, <2>2, StayTyped DEF Lookup, TypeOK, To
  <2> QED
    BY <1>1, <2>1, <2>2 DEF Lookup, Running
<1>2. CASE Review(w)
  <2>1. CASE Refuse(w)
    BY <1>2, <1>c, <2>1, BlankTyped DEF Review, Refuse, To, TypeOK, Over
  <2>2. CASE UNCHANGED job /\ \E s \in Running : To(w, s)
    BY <1>2, <1>c, <2>2, StayTyped DEF Review, TypeOK, To
  <2> QED
    BY <1>2, <2>1, <2>2 DEF Review, Running
<1>3. CASE Plan(w)
  <2>1. CASE Refuse(w)
    BY <1>3, <1>c, <2>1, BlankTyped DEF Plan, Refuse, To, TypeOK, Over
  <2>2. CASE To(w, "number") /\ UNCHANGED job
    BY <1>3, <1>c, <2>2, StayTyped DEF Plan, TypeOK, To, Running
  <2> QED
    BY <1>3, <2>1, <2>2 DEF Plan
<1>4. CASE Number(w)
  <2> DEFINE j == [job[w] EXCEPT !.seq = Highest + 1]
  <2>1. j \in Jobs
    BY <1>d, TopOfTheBook DEF Jobs
  <2>2. job' = [job EXCEPT ![w] = j]
    BY <1>4 DEF Number, TypeOK
  <2>3. \E s \in Running : To(w, s)
    BY <1>4 DEF Number, Running
  <2> QED
    BY <1>4, <1>c, <2>1, <2>2, <2>3, MoveTyped DEF Number, To, TypeOK
<1>5. CASE Confirm(w)
  <2>1. CASE Refuse(w)
    BY <1>5, <1>c, <2>1, BlankTyped DEF Confirm, Refuse, To, TypeOK, Over
  <2>2. CASE To(w, "insert") /\ lock' = w /\ UNCHANGED job
    BY <1>5, <1>c, <2>2, StayTyped DEF Confirm, TypeOK, To, Running
  <2> QED
    BY <1>5, <2>1, <2>2 DEF Confirm
<1>6. CASE Insert(w)
  BY <1>6, <1>c, StayTyped DEF Insert, TypeOK, To, Running
<1>7. CASE KeyTaken(w)
  BY <1>7, <1>a, <1>b, AnswerTyped DEF KeyTaken, TypeOK
<1>8. CASE NumberTaken(w)
  <2>1. CASE job[w].tries + 1 < MaxAttempts
    <3> DEFINE j == [job[w] EXCEPT !.tries = job[w].tries + 1]
    <3>1. j \in Jobs
      BY <1>d DEF Jobs
    <3>2. job' = [job EXCEPT ![w] = j]
      BY <1>8, <2>1 DEF NumberTaken, TypeOK
    <3> QED
      BY <1>8, <1>a, <1>c, <2>1, <3>1, <3>2, MoveTyped
      DEF NumberTaken, To, TypeOK, Running
  <2>2. CASE ~(job[w].tries + 1 < MaxAttempts)
    BY <1>8, <1>a, <1>c, <2>2, BlankTyped DEF NumberTaken, To, Over
  <2> QED
    BY <2>1, <2>2
<1>9. CASE Commit(w)
  <2>1. book' \in [1..MaxOrders -> Keys \union {NoKey}]
    BY <1>9, <1>d DEF Commit, TypeOK, Jobs
  <2>2. open' \in Nat /\ rewards' \in Int
    BY <1>9 DEF Commit, TypeOK
  <2>3. job[w].seq \in 0..MaxOrders + 1
    BY <1>d DEF Jobs
  <2> QED
    BY <1>9, <1>a, <2>1, <2>2, <2>3, AnswerTyped DEF Commit
<1>10. CASE Die(w)
  BY <1>10, <1>a, <1>c, BlankTyped DEF Die, To, Over
<1> QED
  BY <1>1, <1>2, <1>3, <1>4, <1>5, <1>6, <1>7, <1>8, <1>9, <1>10 DEF Step

-----------------------------------------------------------------------------
\* A step that leaves the book alone leaves what is read from it.
LEMMA SameBook ==
    ASSUME UNCHANGED book
    PROVE  /\ Rows' = Rows /\ Highest' = Highest
           /\ \A k : Taken(k)' = Taken(k)
BY DEF Rows, Highest, Taken

\* Whoever does not move while the book stays knows what it knew.
LEMMA Bystander ==
    ASSUME NEW x \in Workers, Knows(x), UNCHANGED book,
           pc'[x] = pc[x], job'[x] = job[x]
    PROVE  Knows(x)'
<1> USE SameBook DEF Knows
<1>1. KnowsItsKey(x)' /\ KeyWasFree(x)' /\ BeatenEachTry(x)'
  BY DEF KnowsItsKey, KeyWasFree, BeatenEachTry
<1>2. HasCandidate(x)' /\ ReadyToCommit(x)' /\ NamesItsOrder(x)'
  BY DEF HasCandidate, ReadyToCommit, NamesItsOrder
<1> QED
  BY <1>1, <1>2

\* A commit puts one row at the end of the book.
LEMMA CommitGrows ==
    ASSUME TypeOK, Dense, NEW w \in Workers, Knows(w), Commit(w)
    PROVE  /\ Highest' = Highest + 1
           /\ Rows' = 1..(Highest + 1)
           /\ Dense'
           /\ Highest + 1 \in 1..MaxOrders
           /\ job[w].key \in Keys
           /\ ~Taken(job[w].key)
           /\ job[w].seq = Highest + 1
           /\ book' = [book EXCEPT ![Highest + 1] = job[w].key]
<1>1. Highest \in 0..MaxOrders /\ Rows = 1..Highest
  BY TopOfTheBook
<1>2. /\ job[w].seq = Highest + 1 /\ job[w].seq <= MaxOrders
      /\ ~Taken(job[w].key) /\ job[w].key \in Keys
  BY DEF Knows, ReadyToCommit, KnowsItsKey, Commit, Running
<1>3. book' = [book EXCEPT ![Highest + 1] = job[w].key]
  BY <1>2 DEF Commit
<1>4. Highest + 1 \in 1..MaxOrders
  BY <1>1, <1>2, LimitsAssumption
<1>5. job[w].key # NoKey
  BY <1>2, KeysAssumption
<1>6. Rows' = 1..(Highest + 1)
  <2>1. \A n \in 1..MaxOrders :
          book'[n] = IF n = Highest + 1 THEN job[w].key ELSE book[n]
    BY <1>3 DEF TypeOK
  <2>2. Rows' = Rows \union {Highest + 1}
    BY <1>4, <1>5, <2>1 DEF Rows
  <2> QED
    BY <1>1, <2>2
<1>7. Dense'
  BY <1>1, <1>4, <1>6, LimitsAssumption DEF Dense
<1>8. Highest' = Highest + 1
  <2> DEFINE Top(g) == g \in Rows' \union {0} /\ \A n \in Rows' : n <= g
  <2>1. Highest' = CHOOSE g \in 0..MaxOrders : Top(g)
    BY DEF Highest
  <2> DEFINE h == Highest + 1
  <2>2. h \in 0..MaxOrders /\ Rows' = 1..h /\ h >= 1
    BY <1>1, <1>4, <1>6, LimitsAssumption
  <2> HIDE DEF h
  <2>3. Top(h) /\ \A g \in 0..MaxOrders : Top(g) => g = h
    BY <2>2, LimitsAssumption
  <2> HIDE DEF Top
  <2>4. Highest' = h
    BY <2>1, <2>2, <2>3
  <2> QED
    BY <2>4 DEF h
<1> QED
  BY <1>2, <1>3, <1>4, <1>6, <1>7, <1>8

\* Those who watch a commit know what they knew, of a book one row longer.
LEMMA BystanderOfCommit ==
    ASSUME TypeOK, Dense, NEW w \in Workers, Knows(w), Commit(w), OneInserted,
           NEW x \in Workers \ {w}, Knows(x)
    PROVE  Knows(x)'
<1>1. /\ Highest \in Nat /\ Rows = 1..Highest /\ Highest + 1 \in 1..MaxOrders
      /\ Highest' = Highest + 1 /\ Rows' = 1..(Highest + 1)
      /\ \A n \in Rows : book'[n] = book[n]
  BY CommitGrows, TopOfTheBook, LimitsAssumption DEF TypeOK
<1>2. pc'[x] = pc[x] /\ job'[x] = job[x] /\ pc[x] # "commit"
  BY DEF Commit, Answer, To, OneInserted, Inserted, TypeOK
<1>3. job[x] \in Jobs
  BY DEF TypeOK, Jobs
<1>4. KnowsItsKey(x)' /\ BeatenEachTry(x)'
  BY <1>1, <1>2, <1>3 DEF Knows, KnowsItsKey, BeatenEachTry, Jobs
<1>5. KeyWasFree(x)'
  <2>1. pc[x] \in Running => 1..job[x].began \subseteq Rows
    BY <1>1, <1>3 DEF Knows, KnowsItsKey, Jobs
  <2> QED
    BY <1>1, <1>2, <2>1 DEF Knows, KeyWasFree
<1>6. HasCandidate(x)' /\ ReadyToCommit(x)'
  BY <1>1, <1>2, <1>3 DEF Knows, HasCandidate, ReadyToCommit, Jobs
<1>7. NamesItsOrder(x)'
  BY <1>1, <1>2, <1>3 DEF Knows, NamesItsOrder, Jobs
<1> QED
  BY <1>4, <1>5, <1>6, <1>7 DEF Knows

\* A request that has just begun knows its key, and nothing else yet.
LEMMA Beginner ==
    ASSUME TypeOK, Dense, NEW w \in Workers, NEW k \in Keys, Begin(w, k)
    PROVE  Knows(w)'
<1>1. pc'[w] = "lookup" /\ job'[w] = Remembers(k, 0, Highest) /\ UNCHANGED book
  BY DEF Begin, To, TypeOK
<1>2. Highest \in Nat
  BY TopOfTheBook
<1> QED
  BY <1>1, <1>2, SameBook
  DEF Knows, KnowsItsKey, KeyWasFree, BeatenEachTry, HasCandidate,
      ReadyToCommit, NamesItsOrder, Remembers, Running

\* A request that is over without an answer claims nothing.
LEMMA Loser ==
    ASSUME TypeOK, NEW w \in Workers, pc'[w] \in {"idle", "refused", "gave_up"}
    PROVE  Knows(w)'
BY DEF Knows, KnowsItsKey, KeyWasFree, BeatenEachTry, HasCandidate,
       ReadyToCommit, NamesItsOrder, Running

\* An answer taken from a row of the book names the order of the key.
LEMMA Replayed ==
    ASSUME TypeOK, NEW w \in Workers, UNCHANGED book,
           NEW n \in Rows, book[n] = job[w].key, Answer(w, n)
    PROVE  Knows(w)'
<1>1. pc'[w] = "answered" /\ job'[w] = Remembers(job[w].key, n, 0)
  BY DEF Answer, To, TypeOK
<1> QED
  BY <1>1, SameBook
  DEF Knows, KnowsItsKey, KeyWasFree, BeatenEachTry, HasCandidate,
      ReadyToCommit, NamesItsOrder, Remembers, Running

\* A request going on towards its number keeps what it knew of its key.
LEMMA Onward ==
    ASSUME TypeOK, Dense, NEW w \in Workers, UNCHANGED <<book, job>>, Knows(w),
           pc[w] \in Running, pc'[w] \in {"review", "plan", "number"},
           pc[w] # "lookup" \/ ~Taken(job[w].key)
    PROVE  Knows(w)'
<1>1. /\ Highest \in 0..MaxOrders /\ Rows = 1..Highest
      /\ job[w] \in Jobs
  BY TopOfTheBook DEF TypeOK, Jobs
<1>2. /\ job[w].key \in Keys /\ job[w].began <= Highest
      /\ job[w].tries <= Highest - job[w].began
  BY DEF Knows, KnowsItsKey, BeatenEachTry
<1>3. \A n \in 1..job[w].began : book[n] # job[w].key
  BY <1>1, <1>2 DEF Knows, KeyWasFree, Taken, Jobs
<1> QED
  BY <1>2, <1>3, SameBook
  DEF Knows, KnowsItsKey, KeyWasFree, BeatenEachTry, HasCandidate,
      ReadyToCommit, NamesItsOrder

\* Each step of a request that leaves the book alone keeps what it knows true.
LEMMA ActorKnows ==
    ASSUME TypeOK, Dense, NEW w \in Workers, Knows(w), OneInserted,
           \A v \in Workers : Knows(v),
           (Step(w) /\ ~Commit(w)) \/ Die(w)
    PROVE  Knows(w)' /\ UNCHANGED book
<1>t. /\ Highest \in 0..MaxOrders /\ Rows = 1..Highest
      /\ job[w] \in Jobs /\ Highest \in Nat
  BY TopOfTheBook DEF TypeOK, Jobs
<1>p. \A s : To(w, s) => pc'[w] = s
  BY DEF To, TypeOK
<1>1. CASE Lookup(w)
  <2>1. CASE \E n \in Rows : book[n] = job[w].key /\ Answer(w, n)
    BY <1>1, <2>1, Replayed DEF Lookup
  <2>2. CASE ~Taken(job[w].key) /\ UNCHANGED job
    <3>1. pc[w] = "lookup" /\ pc'[w] \in {"review", "number"} /\ UNCHANGED book
      BY <1>1, <1>p, <2>2 DEF Lookup
    <3> QED
      BY <2>2, <3>1, Onward DEF Running
  <2> QED
    BY <1>1, <2>1, <2>2 DEF Lookup
<1>2. CASE Review(w)
  <2>1. pc[w] = "review" /\ UNCHANGED book
    BY <1>2 DEF Review
  <2>2. \/ pc'[w] = "refused"
        \/ pc'[w] \in {"plan", "number"} /\ UNCHANGED job
    BY <1>2, <1>p DEF Review, Refuse
  <2> QED
    BY <2>1, <2>2, Loser, Onward DEF Running
<1>3. CASE Plan(w)
  <2>1. pc[w] = "plan" /\ UNCHANGED book
    BY <1>3 DEF Plan
  <2>2. pc'[w] = "refused" \/ (pc'[w] = "number" /\ UNCHANGED job)
    BY <1>3, <1>p DEF Plan, Refuse
  <2> QED
    BY <2>1, <2>2, Loser, Onward DEF Running
<1>4. CASE Number(w)
  <2>1. /\ pc[w] = "number" /\ pc'[w] \in {"confirm", "insert"} /\ UNCHANGED book
    BY <1>4, <1>p DEF Number
  <2>2. job'[w] = [job[w] EXCEPT !.seq = Highest + 1]
    BY <1>4 DEF Number, TypeOK
  <2>3. /\ job'[w].key = job[w].key /\ job'[w].seq = Highest + 1
        /\ job'[w].tries = job[w].tries /\ job'[w].began = job[w].began
    BY <1>t, <2>2 DEF Jobs
  <2>4. KnowsItsKey(w)' /\ KeyWasFree(w)' /\ BeatenEachTry(w)'
    BY <2>1, <2>3, SameBook
    DEF Knows, KnowsItsKey, KeyWasFree, BeatenEachTry, Running
  <2>5. HasCandidate(w)'
    BY <1>t, <2>1, <2>3, SameBook
    DEF Knows, KnowsItsKey, BeatenEachTry, HasCandidate, Running, Jobs
  <2>6. ReadyToCommit(w)' /\ NamesItsOrder(w)'
    BY <2>1 DEF ReadyToCommit, NamesItsOrder
  <2> QED
    BY <2>1, <2>4, <2>5, <2>6 DEF Knows
<1>5. CASE Confirm(w)
  <2>1. pc[w] = "confirm" /\ UNCHANGED book
    BY <1>5 DEF Confirm
  <2>2. pc'[w] = "refused" \/ (pc'[w] = "insert" /\ UNCHANGED job)
    BY <1>5, <1>p DEF Confirm, Refuse
  <2>3. CASE pc'[w] = "insert" /\ UNCHANGED job
    BY <2>1, <2>3, SameBook
    DEF Knows, KnowsItsKey, KeyWasFree, BeatenEachTry, HasCandidate,
        ReadyToCommit, NamesItsOrder, Running
  <2> QED
    BY <2>1, <2>2, <2>3, Loser
<1>6. CASE Insert(w)
  <2>1. /\ pc[w] = "insert" /\ pc'[w] = "commit" /\ UNCHANGED <<book, job>>
        /\ job[w].seq <= MaxOrders /\ Fits(w)
    BY <1>6, <1>p DEF Insert
  <2>2. job[w].seq = Highest + 1 /\ ~Taken(job[w].key)
    BY <1>t, <2>1 DEF Knows, HasCandidate, Fits, Jobs
  <2> QED
    BY <2>1, <2>2, SameBook
    DEF Knows, KnowsItsKey, KeyWasFree, BeatenEachTry, HasCandidate,
        ReadyToCommit, NamesItsOrder, Running
<1>7. CASE KeyTaken(w)
  BY <1>7, Replayed DEF KeyTaken
<1>8. CASE NumberTaken(w)
  <2>1. pc[w] = "insert" /\ job[w].seq \in Rows /\ UNCHANGED book
    BY <1>8 DEF NumberTaken
  <2>2. CASE pc'[w] = "gave_up"
    BY <2>1, <2>2, Loser
  <2>3. CASE /\ pc'[w] = "number"
             /\ job' = [job EXCEPT ![w].tries = @ + 1]
    <3>1. /\ job'[w].key = job[w].key /\ job'[w].began = job[w].began
          /\ job'[w].tries = job[w].tries + 1
      BY <1>t, <2>3 DEF TypeOK, Jobs
    <3>2. job[w].tries + 1 <= Highest - job[w].began
      BY <1>t, <2>1 DEF Knows, HasCandidate, Jobs
    <3>3. KnowsItsKey(w)' /\ KeyWasFree(w)' /\ BeatenEachTry(w)'
      BY <2>1, <2>3, <3>1, <3>2, SameBook
      DEF Knows, KnowsItsKey, KeyWasFree, BeatenEachTry, Running
    <3>4. HasCandidate(w)' /\ ReadyToCommit(w)' /\ NamesItsOrder(w)'
      BY <2>3 DEF HasCandidate, ReadyToCommit, NamesItsOrder
    <3> QED
      BY <2>1, <3>3, <3>4 DEF Knows
  <2> QED
    BY <1>8, <1>p, <2>2, <2>3 DEF NumberTaken
<1>10. CASE Die(w)
  BY <1>10, <1>p, Loser DEF Die
<1> QED
  BY <1>1, <1>2, <1>3, <1>4, <1>5, <1>6, <1>7, <1>8, <1>10 DEF Step

-----------------------------------------------------------------------------
\* The request that moves changes no other, and holds the member's row as its
\* step says; the rows of the others stay whose they are.
LEMMA RowLock ==
    ASSUME TypeOK, NEW w \in Workers, Step(w) \/ Die(w), rewards >= 0,
           \A x \in Workers : HoldsTheRow(x)
    PROVE  rewards' >= 0 /\ \A x \in Workers : HoldsTheRow(x)'
<1> USE WorkersAssumption DEF HoldsTheRow
<1>p. /\ \A s : To(w, s) => pc' = [pc EXCEPT ![w] = s] /\ pc'[w] = s
      /\ \A s : To(w, s) => \A x \in Workers \ {w} : pc'[x] = pc[x]
  BY DEF To, TypeOK
<1>u. Unlock(w) => /\ lock' # w
                   /\ \A x \in Workers \ {w} : lock' = x <=> lock = x
  BY DEF Unlock, TypeOK
<1>j. Refuse(w) \/ UNCHANGED job \/ (\E n : Answer(w, n)) =>
         \A x \in Workers \ {w} : job'[x] = job[x]
  BY DEF Refuse, Answer, TypeOK
<1>1. CASE UNCHANGED <<lock, rewards>> /\ \E s \in Steps \ {"insert", "commit"} :
             /\ To(w, s)
             /\ pc[w] \notin {"insert", "commit"}
             /\ \A x \in Workers \ {w} : job'[x] = job[x]
  BY <1>1, <1>p
<1>2. CASE Lookup(w)
  <2>1. CASE \E n \in Rows : Answer(w, n)
    BY <1>1, <1>2, <1>j, <2>1 DEF Lookup, Answer, Steps, Over, Running
  <2>2. CASE UNCHANGED job
    <3>1. \E s \in {"answered", "review", "number"} : To(w, s)
      BY <1>2 DEF Lookup, Answer
    <3>2. {"answered", "review", "number"} \subseteq Steps \ {"insert", "commit"}
      BY DEF Steps, Over, Running
    <3> QED
      BY <1>1, <1>2, <1>j, <2>2, <3>1, <3>2 DEF Lookup
  <2> QED
    BY <1>2, <2>1, <2>2 DEF Lookup
<1>3. CASE Review(w)
  BY <1>1, <1>3, <1>j DEF Review, Refuse, Steps, Over, Running
<1>4. CASE Plan(w)
  BY <1>1, <1>4, <1>j DEF Plan, Refuse, Steps, Over, Running
<1>5. CASE Number(w)
  <2>1. /\ UNCHANGED <<lock, rewards>> /\ pc[w] = "number"
        /\ job'[w].key = job[w].key
        /\ \A x \in Workers \ {w} : job'[x] = job[x]
    <3>1. job'[w] = [job[w] EXCEPT !.seq = Highest + 1]
      BY <1>5 DEF Number, TypeOK
    <3>2. job'[w].key = job[w].key
      BY <3>1 DEF TypeOK
    <3> QED
      BY <1>5, <3>2 DEF Number, TypeOK
  <2>2. pc'[w] = IF job[w].key \in RewardAttempts THEN "confirm" ELSE "insert"
    BY <1>5, <1>p DEF Number
  <2>3. \A x \in Workers \ {w} : pc'[x] = pc[x]
    BY <1>5, <1>p DEF Number
  <2> QED
    BY <2>1, <2>2, <2>3
<1>6. CASE Confirm(w)
  <2>1. CASE Refuse(w) /\ UNCHANGED lock
    BY <1>1, <1>6, <1>j, <2>1 DEF Confirm, Refuse, Steps, Over
  <2>2. CASE rewards > 0 /\ lock' = w /\ To(w, "insert") /\ UNCHANGED job
    BY <1>6, <1>p, <2>2 DEF Confirm
  <2> QED
    BY <1>6, <2>1, <2>2 DEF Confirm
<1>7. CASE Insert(w)
  BY <1>7, <1>p DEF Insert
<1>8. CASE Unlock(w) /\ UNCHANGED rewards /\ \E s \in Steps \ {"insert", "commit"} :
             /\ To(w, s)
             /\ \A x \in Workers \ {w} : job'[x] = job[x]
  BY <1>8, <1>p, <1>u
<1>9. CASE KeyTaken(w)
  BY <1>8, <1>9, <1>j DEF KeyTaken, Answer, Steps, Over
<1>10. CASE NumberTaken(w)
  BY <1>8, <1>10 DEF NumberTaken, TypeOK, Steps, Over, Running
<1>11. CASE Commit(w)
  <2>1. CASE job[w].key \in RewardAttempts
    <3>1. lock = w /\ rewards > 0 /\ rewards' = rewards - 1
      BY <1>11, <2>1 DEF Commit
    <3>2. rewards' >= 0
      BY <3>1 DEF TypeOK
    <3> QED
      BY <1>11, <1>p, <1>u, <1>j, <3>1, <3>2 DEF Commit, Answer
  <2>2. CASE job[w].key \notin RewardAttempts
    BY <1>8, <1>11, <1>j, <2>2 DEF Commit, Answer, Steps, Over
  <2> QED
    BY <2>1, <2>2
<1>12. CASE Die(w)
  BY <1>8, <1>12 DEF Die, TypeOK, Steps, Over
<1> QED
  BY <1>2, <1>3, <1>4, <1>5, <1>6, <1>7, <1>9, <1>10, <1>11, <1>12 DEF Step

-----------------------------------------------------------------------------
LEMMA InitInv == Init => IInv
<1> SUFFICES ASSUME Init PROVE IInv
  OBVIOUS
<1>1. TypeOK
  BY InitTyped
<1>2. Rows = {}
  BY DEF Init, Rows
<1>3. Dense
  BY <1>2, LimitsAssumption DEF Dense
<1>4. \A w \in Workers : pc[w] = "idle" /\ lock # w
  BY WorkersAssumption DEF Init
<1>5. \A w \in Workers : Knows(w) /\ HoldsTheRow(w)
  BY <1>4 DEF Knows, KnowsItsKey, KeyWasFree, BeatenEachTry, HasCandidate,
              ReadyToCommit, NamesItsOrder, HoldsTheRow, Running
<1>6. OneInserted
  BY <1>4 DEF OneInserted, Inserted
<1>7. rewards >= 0
  BY LimitsAssumption DEF Init
<1> QED
  BY <1>1, <1>2, <1>3, <1>5, <1>6, <1>7 DEF IInv, KeysOnce

\* Tapping keeps the invariant.
LEMMA BeginStep ==
    ASSUME IInv, NEW w \in Workers, NEW k \in Keys, Begin(w, k)
    PROVE  IInv'
<1> USE DEF IInv
<1>1. TypeOK'
  BY BeginTyped
<1>2. /\ UNCHANGED <<book, rewards, lock>> /\ pc[w] \in Over /\ pc'[w] = "lookup"
      /\ \A x \in Workers \ {w} : pc'[x] = pc[x] /\ job'[x] = job[x]
  BY DEF Begin, To, TypeOK
<1>3. Dense' /\ KeysOnce'
  BY <1>2, SameBook DEF Dense, KeysOnce
<1>4. \A x \in Workers : Knows(x)'
  BY <1>2, Beginner, Bystander
<1>5. OneInserted'
  BY <1>2 DEF OneInserted, Inserted
<1>6. rewards' >= 0 /\ \A x \in Workers : HoldsTheRow(x)'
  BY <1>2 DEF HoldsTheRow, Over
<1> QED
  BY <1>1, <1>3, <1>4, <1>5, <1>6

\* A step of one request moves no other.
LEMMA OthersStay ==
    ASSUME TypeOK, NEW w \in Workers, Step(w) \/ Die(w)
    PROVE  \A x \in Workers \ {w} : pc'[x] = pc[x] /\ job'[x] = job[x]
<1>1. \A s : To(w, s) => \A x \in Workers \ {w} : pc'[x] = pc[x]
  BY DEF To, TypeOK
<1>2. CASE Lookup(w)
  BY <1>1, <1>2 DEF Lookup, Answer, TypeOK
<1>3. CASE Review(w) \/ Plan(w) \/ Confirm(w)
  BY <1>1, <1>3 DEF Review, Plan, Confirm, Refuse, TypeOK
<1>4. CASE Number(w) \/ Insert(w)
  BY <1>1, <1>4 DEF Number, Insert, TypeOK
<1>5. CASE KeyTaken(w) \/ Commit(w)
  BY <1>1, <1>5 DEF KeyTaken, Commit, Answer, TypeOK
<1>6. CASE NumberTaken(w) \/ Die(w)
  BY <1>1, <1>6 DEF NumberTaken, Die, TypeOK
<1> QED
  BY <1>2, <1>3, <1>4, <1>5, <1>6 DEF Step

\* Every step of a request, and its death, keeps the invariant.
LEMMA RequestStep ==
    ASSUME IInv, NEW w \in Workers, Step(w) \/ Die(w)
    PROVE  IInv'
<1> USE DEF IInv
<1>1. TypeOK'
  BY StepTyped
<1>2. rewards' >= 0 /\ \A x \in Workers : HoldsTheRow(x)'
  BY RowLock
<1>3. \A x \in Workers \ {w} : pc'[x] = pc[x] /\ job'[x] = job[x]
  BY OthersStay
<1>4. CASE Commit(w)
  <2>1. Dense' /\ Rows' = 1..(Highest + 1) /\ Rows = 1..Highest
        /\ book' = [book EXCEPT ![Highest + 1] = job[w].key]
        /\ ~Taken(job[w].key) /\ Highest + 1 \in 1..MaxOrders
        /\ job[w].seq = Highest + 1 /\ Highest \in Nat
    BY <1>4, CommitGrows, TopOfTheBook
  <2>2. book'[Highest + 1] = job[w].key /\ \A n \in Rows : book'[n] = book[n]
    BY <2>1 DEF TypeOK
  <2>3. KeysOnce'
    BY <2>1, <2>2 DEF KeysOnce, Taken
  <2>4. pc'[w] = "answered" /\ job'[w] = Remembers(job[w].key, Highest + 1, 0)
    BY <1>4, <2>1 DEF Commit, Answer, To, TypeOK
  <2>5. Knows(w)'
    BY <2>1, <2>2, <2>4
    DEF Knows, KnowsItsKey, KeyWasFree, BeatenEachTry, HasCandidate,
        ReadyToCommit, NamesItsOrder, Remembers, Running
  <2>6. \A x \in Workers \ {w} : Knows(x)'
    BY <1>4, BystanderOfCommit
  <2>7. OneInserted'
    BY <1>3, <2>4 DEF OneInserted, Inserted
  <2> QED
    BY <1>1, <1>2, <2>1, <2>3, <2>5, <2>6, <2>7
<1>5. CASE ~Commit(w)
  <2>1. Knows(w)' /\ UNCHANGED book
    BY <1>5, ActorKnows
  <2>2. Dense' /\ KeysOnce'
    BY <2>1, SameBook DEF Dense, KeysOnce
  <2>3. \A x \in Workers : Knows(x)'
    BY <1>3, <2>1, Bystander
  <2>4. OneInserted'
    <3>1. CASE Insert(w)
      <4>1. \A x \in Inserted : job[x].seq = Highest + 1
        BY DEF Inserted, Knows, ReadyToCommit
      <4>2. job[w].seq = Highest + 1
        <5>1. job[w].seq \in 0..MaxOrders + 1 /\ Rows = 1..Highest
              /\ Highest \in Nat
          BY TopOfTheBook DEF TypeOK
        <5>2. job[w].seq \notin Rows /\ 1 <= job[w].seq
              /\ job[w].seq <= Highest + 1
          BY <3>1 DEF Insert, Fits, Knows, HasCandidate
        <5> QED
          BY <5>1, <5>2
      <4>3. Inserted \ {w} = {}
        BY <3>1, <4>1, <4>2 DEF Insert, Waits
      <4> QED
        BY <1>3, <4>3 DEF OneInserted, Inserted
    <3>2. CASE ~Insert(w)
      <4>1. pc'[w] # "commit"
        BY <1>5, <3>2
        DEF Step, Lookup, Review, Plan, Number, Confirm, KeyTaken, NumberTaken,
            Die, Answer, Refuse, To, TypeOK
      <4> QED
        BY <1>3, <4>1 DEF OneInserted, Inserted
    <3> QED
      BY <3>1, <3>2
  <2> QED
    BY <1>1, <1>2, <2>2, <2>3, <2>4
<1> QED
  BY <1>4, <1>5

LEMMA NextInv == IInv /\ [Next]_vars => IInv'
<1> SUFFICES ASSUME IInv, [Next]_vars PROVE IInv'
  OBVIOUS
<1> USE DEF IInv
<1>1. CASE \E w \in Workers, k \in Attempts : Tap(w, k)
  BY <1>1, BeginStep DEF Tap, Keys
<1>2. CASE \E w \in Workers, n \in 1..MaxOrders : RemakeTap(w, n)
  BY <1>2, RemakeKeyed, BeginStep
<1>3. CASE \E w \in Workers : Step(w) \/ Die(w)
  BY <1>3, RequestStep
<1>4. CASE UNCHANGED <<book, pc, job>> /\ TypeOK' /\ UNCHANGED lock
           /\ rewards' >= 0
           /\ (rewards' = rewards \/ \A w \in Workers : lock # w)
  <2>1. Dense' /\ KeysOnce'
    BY <1>4, SameBook DEF Dense, KeysOnce
  <2>2. \A w \in Workers : Knows(w)'
    BY <1>4, Bystander
  <2>3. OneInserted' /\ \A w \in Workers : HoldsTheRow(w)'
    BY <1>4 DEF OneInserted, Inserted, HoldsTheRow
  <2> QED
    BY <1>4, <2>1, <2>2, <2>3
<1>5. CASE LeaveLine
  <2>1. TypeOK'
    BY <1>5 DEF LeaveLine, TypeOK, Rows
  <2> QED
    BY <1>4, <1>5, <2>1 DEF LeaveLine
<1>6. CASE CounterSpends
  <2>1. TypeOK' /\ rewards' >= 0
    BY <1>6 DEF CounterSpends, TypeOK
  <2> QED
    BY <1>4, <1>6, <2>1, WorkersAssumption DEF CounterSpends
<1>7. CASE UNCHANGED vars
  <2>1. TypeOK'
    BY <1>7 DEF vars, TypeOK
  <2> QED
    BY <1>4, <1>7, <2>1 DEF vars
<1> QED
  BY <1>1, <1>2, <1>3, <1>5, <1>6, <1>7 DEF Next

\* The book is dense, each key is in it once, and each request knows what it
\* has to know of it, whatever the instance.
THEOREM InvariantHolds == Spec => []IInv
BY InitInv, NextInv, PTL DEF Spec

\* Every reachable state of Placement is well typed.
THEOREM TypeCorrect == Spec => []TypeOK
BY InvariantHolds, PTL DEF IInv

\* A reply names the request's own order and the only one with its key.
THEOREM AnswersAgree == Spec => []AnsweredWithItsOrder
<1>1. IInv => AnsweredWithItsOrder
  BY DEF IInv, AnsweredWithItsOrder, Knows, NamesItsOrder, KeysOnce
<1> QED
  BY <1>1, InvariantHolds, PTL

\* Nothing is given that the balance does not buy, and whoever is about to
\* commit a reward has the member's row.
THEOREM RewardsAreCovered == Spec => []RewardsCovered
<1>1. IInv => RewardsCovered
  BY DEF IInv, RewardsCovered, HoldsTheRow
<1> QED
  BY <1>1, InvariantHolds, PTL

-----------------------------------------------------------------------------
\* A request is turned away by one of four steps of its own.
LEMMA TurnedAway ==
    ASSUME TypeOK, Next, NEW w \in Workers, pc[w] \in Running,
           pc'[w] \in {"refused", "gave_up"}
    PROVE  \/ Review(w) \/ Plan(w) \/ Confirm(w)
           \/ NumberTaken(w) /\ ~(job[w].tries + 1 < MaxAttempts)
<1>1. pc'[w] # pc[w] /\ pc'[w] \notin {"idle", "answered"} \union Running
  BY DEF Running
<1>2. \A v \in Workers : \A s : To(v, s) =>
         pc'[v] = s /\ (v # w => pc'[w] = pc[w])
  BY DEF To, TypeOK
<1>3. ~(LeaveLine \/ CounterSpends)
  BY <1>1 DEF LeaveLine, CounterSpends
<1>4. \A v \in Workers : \A k : ~Begin(v, k)
  BY <1>1, <1>2 DEF Begin, Running
<1>5. PICK v \in Workers : Step(v) \/ Die(v)
  BY <1>3, <1>4 DEF Next, Tap, RemakeTap
<1>6. \E s : To(v, s)
  BY <1>5 DEF Step, Lookup, Review, Plan, Number, Confirm, Insert, KeyTaken,
              NumberTaken, Commit, Die, Answer, Refuse
<1>7. v = w
  BY <1>1, <1>2, <1>6
<1>8. ~(Lookup(w) \/ Number(w) \/ Insert(w) \/ KeyTaken(w) \/ Commit(w) \/ Die(w))
  BY <1>1, <1>2
  DEF Lookup, Number, Insert, KeyTaken, Commit, Die, Answer, Running
<1>9. NumberTaken(w) => ~(job[w].tries + 1 < MaxAttempts)
  BY <1>1, <1>2 DEF NumberTaken, Running
<1> QED
  BY <1>5, <1>7, <1>8, <1>9 DEF Step

\* A request that gives up was beaten MaxAttempts times, by as many orders: no
\* try is wasted on a number that was already gone when it was read.
THEOREM GivesUpOnlyWhenBeaten == Spec => BeatenByOrders
<1>1. ASSUME IInv, [Next]_vars, NEW w \in Workers, pc[w] \in Running,
             pc'[w] = "gave_up"
      PROVE  Highest - job[w].began >= MaxAttempts
  <2>1. Next
    BY <1>1 DEF vars, Running
  <2>2. NumberTaken(w) /\ ~(job[w].tries + 1 < MaxAttempts)
    <3>1. Review(w) \/ Plan(w) \/ Confirm(w) => pc'[w] # "gave_up"
      BY <1>1 DEF Review, Plan, Confirm, Refuse, To, IInv, TypeOK
    <3> QED
      BY <1>1, <2>1, <3>1, TurnedAway DEF IInv
  <2>3. /\ Highest \in 0..MaxOrders /\ Rows = 1..Highest /\ job[w] \in Jobs
        /\ job[w].seq \in Rows /\ job[w].tries + job[w].began < job[w].seq
    BY <1>1, <2>2, TopOfTheBook
    DEF IInv, NumberTaken, Knows, HasCandidate, TypeOK, Jobs
  <2>4. /\ job[w].tries \in Nat /\ job[w].began \in Nat /\ job[w].seq \in Nat
        /\ Highest \in Nat /\ job[w].seq <= Highest
    BY <2>3 DEF Jobs
  <2> QED
    BY <2>2, <2>3, <2>4, LimitsAssumption
<1>2. IInv /\ [Next]_vars =>
        [\A w \in Workers : pc[w] \in Running /\ pc'[w] = "gave_up"
            => Highest - job[w].began >= MaxAttempts]_vars
  BY <1>1
<1> QED
  BY <1>2, InvariantHolds, PTL DEF Spec, BeatenByOrders

\* A tap sent after its order was placed is never refused and never gives up.
THEOREM LateTapsReplay == Spec => LateTapReplays
<1>1. ASSUME IInv, [Next]_vars, NEW w \in Workers, pc[w] \in Running,
             pc'[w] \in {"refused", "gave_up"}
      PROVE  \A n \in 1..job[w].began : book[n] # job[w].key
  <2>1. Next
    BY <1>1 DEF vars, Running
  <2>2. pc[w] \in {"review", "plan", "confirm", "insert"}
    BY <1>1, <2>1, TurnedAway DEF IInv, Review, Plan, Confirm, NumberTaken
  <2> QED
    BY <1>1, <2>2 DEF IInv, Knows, KeyWasFree
<1>2. IInv /\ [Next]_vars =>
        [\A w \in Workers : /\ pc[w] \in Running
                            /\ pc'[w] \in {"refused", "gave_up"}
                            => \A n \in 1..job[w].began : book[n] # job[w].key]_vars
  BY <1>1
<1> QED
  BY <1>2, InvariantHolds, PTL DEF Spec, LateTapReplays

-----------------------------------------------------------------------------
\* How far the throttle is overshot.

\* The keys remakes of the model can have
Remakes == (1..MaxRemakes) \X (0..MaxRemakes - 1)

\* The statements that come after the throttle was asked
PastReview == {"plan", "number", "confirm", "insert", "commit"}

\* Checkouts the throttle let through that may still add an order
Passed == {w \in Workers : pc[w] \in PastReview /\ job[w].key \in Attempts}

\* Remakes that were placed
Remade == {k \in Remakes : Taken(k)}

CheckoutOrRemake(w) == pc[w] \in Running => job[w].key \in Attempts \union Remakes

\* Orders on the line and checkouts on their way to it: the throttle admits a
\* checkout only below MaxOpen, and no more can be behind it than there are
\* workers.  Remakes come on top of that, each once.
WithinSlack ==
    open + Cardinality(Passed)
        <= MaxOpen - 1 + Cardinality(Workers) + Cardinality(Remade)

SlackInv == (\A w \in Workers : CheckoutOrRemake(w)) /\ WithinSlack

\* A set of requests has a size, and a larger set a larger one.
LEMMA CountRequests ==
    ASSUME NEW S \in SUBSET Workers, NEW T \in SUBSET S
    PROVE  /\ IsFiniteSet(S) /\ IsFiniteSet(T)
           /\ Cardinality(S) \in Nat /\ Cardinality(T) \in Nat
           /\ Cardinality(T) <= Cardinality(S)
<1>1. IsFiniteSet(S)
  BY WorkersAssumption, FS_Subset
<1> QED
  BY <1>1, FS_Subset, FS_CardinalityType

\* Each of MaxRemakes orders is remade MaxRemakes times at most.
LEMMA CountRemakes ==
    ASSUME NEW S \in SUBSET Remakes, NEW T \in SUBSET S
    PROVE  /\ IsFiniteSet(S) /\ IsFiniteSet(T)
           /\ Cardinality(S) \in Nat /\ Cardinality(T) \in Nat
           /\ Cardinality(T) <= Cardinality(S)
           /\ Cardinality(S) <= MaxRemakes * MaxRemakes
<1>1. /\ IsFiniteSet(1..MaxRemakes) /\ Cardinality(1..MaxRemakes) = MaxRemakes
      /\ IsFiniteSet(0..MaxRemakes - 1)
      /\ Cardinality(0..MaxRemakes - 1) = MaxRemakes
  <2>1. MaxRemakes \in Nat /\ MaxRemakes - 1 \in Int
    BY LimitsAssumption
  <2>2. CASE MaxRemakes = 0
    <3>1. 1..MaxRemakes = {} /\ 0..MaxRemakes - 1 = {}
      BY <2>2
    <3> QED
      BY <2>2, <3>1, FS_EmptySet
  <2>3. CASE MaxRemakes # 0
    BY <2>1, <2>3, FS_Interval
  <2> QED
    BY <2>2, <2>3
<1>2. /\ IsFiniteSet(Remakes)
      /\ Cardinality(Remakes) = MaxRemakes * MaxRemakes
  BY <1>1, FS_Product DEF Remakes
<1>3. /\ IsFiniteSet(S) /\ Cardinality(S) \in Nat
      /\ Cardinality(S) <= MaxRemakes * MaxRemakes
  BY <1>2, FS_Subset, FS_CardinalityType
<1> QED
  BY <1>3, FS_Subset, FS_CardinalityType

\* The invariant's numbers.
LEMMA SlackNumbers ==
    ASSUME TypeOK
    PROVE  /\ open \in Nat /\ MaxOpen \in Nat \ {0}
           /\ Cardinality(Workers) \in Nat /\ Cardinality(Passed) \in Nat
           /\ Cardinality(Passed) <= Cardinality(Workers)
           /\ Cardinality(Remade) \in Nat
           /\ Cardinality(Remade) <= MaxRemakes * MaxRemakes
<1>1. Passed \subseteq Workers /\ Remade \subseteq Remakes
  BY DEF Passed, Remade
<1> QED
  BY <1>1, CountRequests, CountRemakes, LimitsAssumption DEF TypeOK

\* A step that adds no order and lets nobody past the throttle keeps within it.
LEMMA NobodyPasses ==
    ASSUME TypeOK, WithinSlack, TypeOK', UNCHANGED book, open' <= open,
           Passed' \subseteq Passed
    PROVE  WithinSlack'
<1>1. /\ Cardinality(Passed') <= Cardinality(Passed)
      /\ Cardinality(Passed') \in Nat
  <2>1. Passed \in SUBSET Workers /\ Passed' \in SUBSET Passed
    BY DEF Passed
  <2> QED
    BY <2>1, CountRequests
<1>2. Cardinality(Remade') = Cardinality(Remade)
  BY SameBook DEF Remade
<1>3. open' \in Nat
  BY DEF TypeOK
<1> QED
  BY <1>1, <1>2, <1>3, SlackNumbers DEF WithinSlack

\* A checkout passes the throttle only while there is room on the line, and
\* then every worker may be past it.
LEMMA OnePasses ==
    ASSUME TypeOK, TypeOK', UNCHANGED <<book, open>>, open < MaxOpen
    PROVE  WithinSlack'
<1>1. Passed' \in SUBSET Workers /\ Remade' = Remade
  BY SameBook DEF Passed, Remade
<1>2. /\ Cardinality(Passed') <= Cardinality(Workers)
      /\ Cardinality(Passed') \in Nat
  BY <1>1, CountRequests
<1> QED
  BY <1>1, <1>2, SlackNumbers DEF WithinSlack

\* What a request's own step does to its place behind the throttle: only
\* Review moves a checkout past it.
LEMMA PassedByReview ==
    ASSUME TypeOK, NEW w \in Workers, Step(w) \/ Die(w), ~Review(w)
    PROVE  Passed' \subseteq Passed
<1>1. \A x \in Workers \ {w} : pc'[x] = pc[x] /\ job'[x] = job[x]
  BY OthersStay
<1>p. \A s : To(w, s) => pc'[w] = s
  BY DEF To, TypeOK
<1>2. CASE pc'[w] \notin PastReview
  BY <1>1, <1>2 DEF Passed
<1>3. CASE /\ pc[w] \in PastReview \/ job[w].key \notin Attempts
           /\ job'[w].key = job[w].key
  BY <1>1, <1>3 DEF Passed
<1>4. CASE Lookup(w)
  BY <1>2, <1>3, <1>4, <1>p DEF Lookup, Answer, PastReview
<1>5. CASE Plan(w)
  BY <1>2, <1>3, <1>5, <1>p DEF Plan, Refuse, PastReview
<1>6. CASE Number(w)
  <2>1. job'[w] = [job[w] EXCEPT !.seq = Highest + 1]
    BY <1>6 DEF Number, TypeOK
  <2>2. job'[w].key = job[w].key
    BY <2>1 DEF TypeOK
  <2> QED
    BY <1>3, <1>6, <2>2 DEF Number, PastReview
<1>7. CASE Confirm(w)
  BY <1>2, <1>3, <1>7, <1>p DEF Confirm, Refuse, PastReview
<1>8. CASE Insert(w)
  BY <1>3, <1>8 DEF Insert, PastReview
<1>9. CASE KeyTaken(w) \/ Commit(w)
  BY <1>2, <1>9, <1>p DEF KeyTaken, Commit, Answer, PastReview
<1>10. CASE NumberTaken(w)
  <2>1. CASE job[w].tries + 1 < MaxAttempts
    <3>1. job'[w] = [job[w] EXCEPT !.tries = job[w].tries + 1]
      BY <1>10, <2>1 DEF NumberTaken, TypeOK
    <3>2. job'[w].key = job[w].key
      BY <3>1 DEF TypeOK
    <3> QED
      BY <1>3, <1>10, <3>2 DEF NumberTaken, PastReview
  <2>2. CASE ~(job[w].tries + 1 < MaxAttempts)
    BY <1>2, <1>10, <1>p, <2>2 DEF NumberTaken, PastReview
  <2> QED
    BY <2>1, <2>2
<1>11. CASE Die(w)
  BY <1>2, <1>11, <1>p DEF Die, PastReview
<1> QED
  BY <1>4, <1>5, <1>6, <1>7, <1>8, <1>9, <1>10, <1>11 DEF Step

\* A request that commits leaves one place behind the throttle for the one it
\* takes on the line, or is one more remake.
LEMMA CommitWithinSlack ==
    ASSUME IInv, SlackInv, TypeOK', NEW w \in Workers, Commit(w)
    PROVE  WithinSlack'
<1>1. /\ job[w].key \in Keys /\ ~Taken(job[w].key)
      /\ Rows = 1..Highest /\ Rows' = 1..(Highest + 1) /\ Highest \in Nat
      /\ Highest + 1 \in 1..MaxOrders
      /\ book' = [book EXCEPT ![Highest + 1] = job[w].key]
  BY CommitGrows, TopOfTheBook DEF IInv
<1>2. open' = open + 1 /\ pc[w] = "commit" /\ pc'[w] = "answered"
  BY DEF Commit, Answer, To, IInv, TypeOK
<1>3. \A k : Taken(k)' <=> Taken(k) \/ k = job[w].key
  <2>1. book'[Highest + 1] = job[w].key /\ \A n \in Rows : book'[n] = book[n]
    BY <1>1 DEF IInv, TypeOK
  <2> QED
    BY <1>1, <2>1 DEF Taken
<1>4. Passed' = Passed \ {w}
  <2>1. \A x \in Workers \ {w} : pc'[x] = pc[x] /\ job'[x] = job[x]
    BY OthersStay DEF IInv, Step
  <2> QED
    BY <1>2, <2>1 DEF Passed, PastReview
<1>5. /\ Passed \in SUBSET Workers /\ Passed' \in SUBSET Passed
      /\ Remade' \in SUBSET Remakes /\ Remade \in SUBSET Remade'
  BY <1>3, <1>4 DEF Passed, Remade
<1>6. /\ Cardinality(Passed') \in Nat /\ Cardinality(Passed') <= Cardinality(Passed)
      /\ Cardinality(Remade') \in Nat /\ Cardinality(Remade) <= Cardinality(Remade')
      /\ IsFiniteSet(Passed) /\ IsFiniteSet(Remade)
  BY <1>5, CountRequests, CountRemakes
<1>7. CASE job[w].key \in Attempts
  <2>1. w \in Passed
    BY <1>2, <1>7 DEF Passed, PastReview
  <2>2. Cardinality(Passed') = Cardinality(Passed) - 1
    BY <1>4, <1>6, <2>1, FS_RemoveElement
  <2> QED
    BY <1>2, <1>6, <2>2, SlackNumbers DEF SlackInv, WithinSlack, IInv
<1>8. CASE job[w].key \notin Attempts
  <2>1. job[w].key \in Remakes
    BY <1>2, <1>8 DEF SlackInv, CheckoutOrRemake, Running
  <2>2. Remade' = Remade \union {job[w].key} /\ job[w].key \notin Remade
    BY <1>1, <1>3, <2>1 DEF Remade
  <2>3. Cardinality(Remade') = Cardinality(Remade) + 1
    BY <1>6, <2>2, FS_AddElement
  <2> QED
    BY <1>2, <1>6, <2>3, SlackNumbers DEF SlackInv, WithinSlack, IInv
<1> QED
  BY <1>7, <1>8

\* A request keeps its key while it runs.
LEMMA KeyKept ==
    ASSUME TypeOK, NEW w \in Workers, Step(w) \/ Die(w), pc'[w] \in Running
    PROVE  pc[w] \in Running /\ job'[w].key = job[w].key
<1>p. \A s : To(w, s) => pc'[w] = s
  BY DEF To, TypeOK
<1>1. ~(KeyTaken(w) \/ Commit(w) \/ Die(w) \/ Refuse(w))
  BY <1>p DEF KeyTaken, Commit, Die, Answer, Refuse, Running
<1>2. CASE Number(w)
  <2>1. job'[w] = [job[w] EXCEPT !.seq = Highest + 1]
    BY <1>2 DEF Number, TypeOK
  <2> QED
    BY <1>2, <2>1 DEF Number, TypeOK, Running
<1>3. CASE NumberTaken(w)
  <2>1. job[w].tries + 1 < MaxAttempts
    BY <1>3, <1>p DEF NumberTaken, Running
  <2>2. job'[w] = [job[w] EXCEPT !.tries = job[w].tries + 1]
    BY <1>3, <2>1 DEF NumberTaken, TypeOK
  <2> QED
    BY <1>3, <2>2 DEF NumberTaken, TypeOK, Running
<1>4. CASE Lookup(w)
  BY <1>4, <1>p DEF Lookup, Answer, Running
<1>5. CASE Review(w) \/ Plan(w) \/ Confirm(w) \/ Insert(w)
  BY <1>1, <1>5 DEF Review, Plan, Confirm, Insert, Running
<1> QED
  BY <1>1, <1>2, <1>3, <1>4, <1>5 DEF Step

\* Every step keeps the orders within the throttle's slack.
LEMMA SlackStep == IInv /\ SlackInv /\ [Next]_vars => SlackInv'
<1> SUFFICES ASSUME IInv, SlackInv, [Next]_vars PROVE SlackInv'
  OBVIOUS
<1>t. TypeOK /\ TypeOK'
  BY NextInv DEF IInv
<1>s. open' = open => open' <= open
  BY <1>t, SlackNumbers
<1>1. ASSUME NEW w \in Workers, NEW k \in Attempts \union Remakes, Begin(w, k)
      PROVE  SlackInv'
  <2>1. /\ pc[w] \in Over /\ pc'[w] = "lookup" /\ job'[w].key = k
        /\ \A x \in Workers \ {w} : pc'[x] = pc[x] /\ job'[x] = job[x]
        /\ UNCHANGED <<book, open>>
    BY <1>t, <1>1 DEF Begin, To, TypeOK, Remembers
  <2>2. \A x \in Workers : CheckoutOrRemake(x)'
    BY <2>1 DEF SlackInv, CheckoutOrRemake
  <2>3. Passed' \subseteq Passed
    BY <2>1 DEF Passed, PastReview
  <2> QED
    BY <1>s, <1>t, <2>1, <2>2, <2>3, NobodyPasses DEF SlackInv
<1>2. CASE \E w \in Workers, k \in Attempts : Tap(w, k)
  BY <1>1, <1>2 DEF Tap
<1>3. CASE \E w \in Workers, n \in 1..MaxOrders : RemakeTap(w, n)
  <2>1. PICK w \in Workers, n \in 1..MaxOrders : RemakeTap(w, n)
    BY <1>3
  <2>2. TimesRemade(n) \in 0..MaxRemakes - 1 /\ n \in 1..MaxRemakes
    BY <2>1, TimesRemadeType, LimitsAssumption DEF RemakeTap
  <2>3. <<n, TimesRemade(n)>> \in Remakes /\ Begin(w, <<n, TimesRemade(n)>>)
    BY <2>1, <2>2 DEF RemakeTap, Remakes
  <2> QED
    BY <1>1, <2>3
<1>4. CASE \E w \in Workers : Step(w) \/ Die(w)
  <2>1. PICK w \in Workers : Step(w) \/ Die(w)
    BY <1>4
  <2>2. \A x \in Workers : CheckoutOrRemake(x)'
    BY <1>t, <2>1, OthersStay, KeyKept DEF SlackInv, CheckoutOrRemake
  <2>3. CASE Commit(w)
    BY <1>t, <2>2, <2>3, CommitWithinSlack DEF SlackInv
  <2>4. CASE Review(w)
    <3>1. UNCHANGED <<book, open>>
      BY <2>4 DEF Review
    <3>2. CASE ~TooBusy
      <4>1. open < MaxOpen
        BY <1>t, <3>2, SlackNumbers DEF TooBusy
      <4> QED
        BY <1>t, <2>2, <3>1, <4>1, OnePasses DEF SlackInv
    <3>3. CASE Refuse(w)
      <4>1. Passed' \subseteq Passed
        BY <1>t, <2>1, <3>3, OthersStay DEF Refuse, To, Passed, PastReview, TypeOK
      <4> QED
        BY <1>s, <1>t, <2>2, <3>1, <4>1, NobodyPasses DEF SlackInv
    <3> QED
      BY <2>4, <3>2, <3>3 DEF Review
  <2>5. CASE ~Review(w) /\ ~Commit(w)
    <3>1. UNCHANGED <<book, open>>
      BY <2>1, <2>5 DEF Step, Lookup, Plan, Number, Confirm, Insert, KeyTaken,
                        NumberTaken, Die
    <3> QED
      BY <1>s, <1>t, <2>1, <2>2, <2>5, <3>1, PassedByReview, NobodyPasses
      DEF SlackInv
  <2> QED
    BY <2>3, <2>4, <2>5
<1>5. CASE LeaveLine \/ CounterSpends \/ UNCHANGED vars
  <2>1. UNCHANGED <<book, pc, job>> /\ open' <= open
    BY <1>s, <1>t, <1>5, SlackNumbers DEF LeaveLine, CounterSpends, vars
  <2>2. Passed' \subseteq Passed /\ \A x \in Workers : CheckoutOrRemake(x)'
    BY <2>1 DEF Passed, SlackInv, CheckoutOrRemake
  <2> QED
    BY <1>t, <2>1, <2>2, NobodyPasses DEF SlackInv
<1> QED
  BY <1>2, <1>3, <1>4, <1>5 DEF Next

\* At first nothing is open and nobody is past the throttle.
LEMMA SlackInit == Init => SlackInv
<1> SUFFICES ASSUME Init PROVE SlackInv
  OBVIOUS
<1>1. Passed = {} /\ open = 0
  BY DEF Init, Passed, PastReview
<1>2. Cardinality(Passed) = 0
  BY <1>1, FS_EmptySet
<1> QED
  BY <1>1, <1>2, InitTyped, SlackNumbers
  DEF SlackInv, WithinSlack, CheckoutOrRemake, Init, Running

\* The throttle, asked outside the transaction, is overshot by less than there
\* are requests in flight, and by the remakes that never ask it.
THEOREM OvershootIsBounded == Spec => []OvershootBounded
<1>1. Spec => []SlackInv
  BY SlackInit, SlackStep, InvariantHolds, PTL DEF Spec
<1>2. IInv /\ SlackInv => OvershootBounded
  <2> SUFFICES ASSUME IInv, SlackInv PROVE OvershootBounded
    OBVIOUS
  <2>1. MaxRemakes * MaxRemakes \in Nat
    BY LimitsAssumption
  <2> QED
    BY <2>1, SlackNumbers DEF IInv, SlackInv, WithinSlack, OvershootBounded
<1> QED
  BY <1>1, <1>2, InvariantHolds, PTL

-----------------------------------------------------------------------------
\* The day's orders, in number order.
Placed == [n \in 1..Highest |-> book[n]]

\* A commit is the abstract step; no other step is visible in the book.
LEMMA StepImplements ==
    ASSUME IInv, [Next]_vars
    PROVE  (\E k \in Keys : Day!Place(k)) \/ Placed' = Placed
<1>1. CASE \E w \in Workers : Commit(w)
  <2>1. PICK w \in Workers : Commit(w)
    BY <1>1
  <2>2. /\ Highest' = Highest + 1 /\ Highest \in Nat /\ Rows = 1..Highest
        /\ Highest + 1 \in 1..MaxOrders
        /\ job[w].key \in Keys /\ ~Taken(job[w].key)
        /\ book' = [book EXCEPT ![Highest + 1] = job[w].key]
    BY <2>1, CommitGrows, TopOfTheBook DEF IInv
  <2> DEFINE k == job[w].key
             h == Highest
  <2>3. ~Day!Holds(k)
    BY <2>2 DEF Day!Holds, Taken
  <2>4. Placed \in Seq(Keys \union {NoKey}) /\ Len(Placed) = h
    <3> DEFINE S == Keys \union {NoKey}
    <3>0. \A n \in 1..h : book[n] \in S
      BY <2>2, LimitsAssumption DEF IInv, TypeOK
    <3>1. Placed \in [1..h -> S] /\ h \in Nat
      BY <2>2, <3>0 DEF Placed
    <3> HIDE DEF S, h
    <3>2. Placed \in Seq(S)
      BY <3>1, SeqDef
    <3>3. Len(Placed) = h
      BY <3>1, <3>2, LenProperties
    <3> QED
      BY <3>2, <3>3 DEF S
  <2>5. /\ \A n \in 1..h : book'[n] = book[n]
        /\ book'[h + 1] = k
    BY <2>2 DEF IInv, TypeOK
  <2>6. Placed' = [n \in 1..(h + 1) |-> book'[n]]
    BY <2>2 DEF Placed
  <2>7. Append(Placed, k) = [n \in 1..(h + 1) |-> IF n = h + 1 THEN k ELSE Placed[n]]
    BY <2>4
  <2>8. Placed' = Append(Placed, k)
    <3>1. \A n \in 1..(h + 1) : book'[n] = IF n = h + 1 THEN k ELSE Placed[n]
      BY <2>2, <2>5 DEF Placed
    <3> QED
      BY <2>6, <2>7, <3>1
  <2> QED
    BY <2>2, <2>3, <2>8 DEF Day!Place, Placed
<1>2. CASE UNCHANGED book
  BY <1>2, SameBook DEF Placed
<1> QED
  BY <1>1, <1>2
  DEF Next, vars, Tap, RemakeTap, Begin, Step, Lookup, Review, Plan, Number,
      Confirm, Insert, KeyTaken, NumberTaken, Die, LeaveLine, CounterSpends

\* However requests race and die, the day's numbers are one list in which each
\* order takes the number after the last and no key comes twice: no number is
\* skipped, given twice or given again.
THEOREM BookIsOneList == Spec => BookImplemented
<1>1. Init => Day!Init
  <2>1. SUFFICES ASSUME Init PROVE Placed = <<>>
    BY DEF Day!Init, Placed
  <2>2. Rows = {} /\ Dense
    BY <2>1, InitInv DEF Init, Rows, IInv
  <2>3. Highest = 0
    BY <2>2, TopOfTheBook
  <2> QED
    BY <2>3 DEF Placed
<1>2. IInv /\ [Next]_vars => [Day!Next]_Placed
  BY StepImplements DEF Day!Next
<1>3. Placed = [n \in 1..Highest |-> book[n]]
  BY DEF Placed
<1> QED
  BY <1>1, <1>2, <1>3, InvariantHolds, PTL DEF Spec, BookImplemented, Day!Spec, Placed
=============================================================================
