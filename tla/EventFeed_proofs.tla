-------------------------- MODULE EventFeed_proofs -------------------------
(***************************************************************************)
(* The bridge never steps over an event it will need, for any number of    *)
(* requests, rows and ticks, as long as Lead + Hold stays below Settle.    *)
(***************************************************************************)
EXTENDS EventFeed, FiniteSetTheorems, WellFoundedInduction, TLAPS

\* A finite set of numbers that is not empty has a least element: the one with
\* the fewest members at or below it, by inclusion.
LEMMA LeastExists ==
    ASSUME NEW T, T \subseteq Nat, IsFiniteSet(T), T # {}
    PROVE  \E x \in T : \A y \in T : x <= y
<1> DEFINE UpTo(x) == {y \in T : y <= x}
<1> DEFINE Starts == {UpTo(x) : x \in T}
<1>1. IsWellFoundedOn(StrictSubsetOrdering(T), SUBSET T)
  BY FS_StrictSubsetOrderingWellFounded, FS_FiniteSubsetsOfFinite
<1>2. Starts \subseteq SUBSET T /\ Starts # {}
  OBVIOUS
<1>3. PICK X \in Starts : \A Y \in Starts : <<Y, X>> \notin StrictSubsetOrdering(T)
  <2> HIDE DEF Starts
  <2>1. QED
    BY <1>1, <1>2, WFMin
<1>4. PICK x \in T : X = UpTo(x)
  BY <1>3
<1>5. ASSUME NEW y \in T, y < x
      PROVE  FALSE
  <2>1. UpTo(y) \subseteq UpTo(x)
    <3>1. \A z \in T : z <= y => z <= x
      BY <1>5
    <3>2. QED
      BY <3>1
  <2>2. x \in UpTo(x) /\ x \notin UpTo(y)
    BY <1>5
  <2>3. UpTo(y) \in SUBSET T /\ UpTo(x) \in SUBSET T /\ UpTo(y) \in Starts
    OBVIOUS
  <2>4. UpTo(y) # UpTo(x)
    BY <2>2
  <2> HIDE DEF UpTo, Starts
  <2>5. <<UpTo(y), UpTo(x)>> \in StrictSubsetOrdering(T)
    BY <2>1, <2>3, <2>4 DEF StrictSubsetOrdering
  <2>6. QED
    BY <1>3, <1>4, <2>3, <2>5
<1>6. \A y \in T : x <= y
  BY <1>5
<1>7. QED
  BY <1>6

LEMMA CommittedFinite ==
    ASSUME TypeOK
    PROVE  IsFiniteSet(committed)
<1>1. IsFiniteSet(1..last)
  BY FeedAssumption, FS_Interval DEF TypeOK
<1>2. QED
  BY <1>1, FS_Subset DEF TypeOK

\* A page holds every committed row between the cursor and any row in it.
LEMMA PageIsLowest ==
    ASSUME TypeOK,
           NEW s \in Page, NEW t \in committed, cursor < t, t <= s
    PROVE  t \in Page
<1> DEFINE Below(n) == {r \in committed : cursor < r /\ r <= n}
<1>1. s \in Nat /\ t \in Nat /\ committed \subseteq Nat
  BY FeedAssumption DEF TypeOK, Page
<1>2. IsFiniteSet(committed)
  BY CommittedFinite
<1>3. IsFiniteSet(Below(s))
  BY <1>2, FS_Subset
<1>4. Below(t) \subseteq Below(s)
  <2>1. \A r \in committed : r <= t => r <= s
    BY <1>1
  <2>2. QED
    BY <2>1
<1>5. Cardinality(Below(t)) <= Cardinality(Below(s))
  BY <1>3, <1>4, FS_Subset
<1>6. Cardinality(Below(s)) <= Limit
  BY DEF Page
<1>7. IsFiniteSet(Below(t))
  BY <1>3, <1>4, FS_Subset
<1>8. Cardinality(Below(t)) \in Nat /\ Cardinality(Below(s)) \in Nat
  BY <1>3, <1>7, FS_CardinalityType
<1>9. Cardinality(Below(t)) <= Limit
  BY <1>5, <1>6, <1>8, FeedAssumption
<1>10. QED
  BY <1>9 DEF Page

\* The heart of it: no number still open lies below a row that is handed on.
\* The least committed row above an open number has a gap below it, so it is
\* as old as Settle; its stamp is at most Lead before its insert, which came
\* after the open number's; so that number has been open longer than Hold.
LEMMA NothingOpenBehind ==
    ASSUME FeedInv, Lead + Hold < Settle,
           NEW s \in FeedPage, NEW w \in Writers, NEW m \in mine[w]
    PROVE  s < m
<1> USE FeedAssumption
<1>1. s \in Page /\ s \in committed /\ cursor < s /\ s \in Nat /\ m \in Nat
  BY DEF FeedInv, TypeOK, FeedPage, Page
<1>0. committed \subseteq Nat
  BY DEF FeedInv, TypeOK
<1>2. cursor < m /\ m \notin committed /\ cursor \in Nat
  BY DEF FeedInv, TypeOK, OpenAhead, Owned
<1> SUFFICES ASSUME m < s
             PROVE  FALSE
  BY <1>1, <1>2
<1> DEFINE Above == {t \in committed : m < t}
<1>3. PICK r \in Above : \A y \in Above : r <= y
  <2>1. Above \subseteq Nat /\ s \in Above
    BY <1>0, <1>1
  <2>2. IsFiniteSet(Above)
    BY CommittedFinite, FS_Subset DEF FeedInv
  <2>3. QED
    BY <2>1, <2>2, LeastExists
<1>4. r \in committed /\ r \in Seqs /\ m < r /\ r <= s /\ cursor < r
  BY <1>1, <1>2, <1>3 DEF FeedInv, TypeOK, Seqs
<1>5. r \in Page
  BY <1>1, <1>4, PageIsLowest DEF FeedInv
<1>6. r # cursor + 1 /\ r - 1 \notin committed
  <2>1. r \in Nat /\ r - 1 \in Nat /\ r # cursor + 1 /\ m <= r - 1
    BY <1>0, <1>1, <1>2, <1>4
  <2>2. ASSUME r - 1 \in committed, m < r - 1
        PROVE  FALSE
    <3>1. r <= r - 1
      BY <1>3, <2>2
    <3>2. QED
      BY <2>1, <3>1
  <2>3. QED
    BY <1>1, <1>2, <2>1, <2>2
<1>7. ~Waits(r)
  BY <1>1, <1>4, <1>5 DEF FeedPage
<1>8. age[r] \in 0..Settle /\ held[w] \in 0..Hold
  BY <1>4 DEF FeedInv, TypeOK
<1>9. age[r] >= Settle
  BY <1>6, <1>7, <1>8 DEF Waits
<1>10. age[r] <= held[w] + Lead
  BY <1>4 DEF FeedInv, StampsInOrder
<1>11. QED
  BY <1>8, <1>9, <1>10

LEMMA FeedInit == Init => FeedInv
  BY FeedAssumption
  DEF Init, FeedInv, TypeOK, Owned, OpenAhead, StampsInOrder, NothingSkipped, Seqs

LEMMA ReadClockKeeps ==
    ASSUME FeedInv, NEW w \in Writers, ReadClock(w)
    PROVE  FeedInv'
  BY FeedAssumption
  DEF ReadClock, FeedInv, TypeOK, Owned, OpenAhead, StampsInOrder, NothingSkipped,
      Seqs, feedVars

\* A new number is above every other, so it is ahead of the cursor, and its
\* request's clock was read no more than Lead ago.
LEMMA InsertRowKeeps ==
    ASSUME FeedInv, NEW w \in Writers, InsertRow(w)
    PROVE  FeedInv'
<1> USE FeedAssumption
<1>1. last \in Nat /\ last' = last + 1 /\ last' \in 0..MaxSeq
  BY DEF InsertRow, FeedInv, TypeOK
<1>2. \A v \in Writers : mine'[v] = IF v = w THEN mine[v] \cup {last'} ELSE mine[v]
  BY <1>1 DEF InsertRow, FeedInv, TypeOK
<1>3. UNCHANGED <<committed, age, busy, since, held, cursor, got>>
  BY DEF InsertRow, feedVars
<1>4. TypeOK'
  <2>1. mine' \in [Writers -> SUBSET (1..last')]
    BY <1>1 DEF InsertRow, FeedInv, TypeOK
  <2>2. QED
    BY <1>1, <1>3, <2>1 DEF FeedInv, TypeOK
<1>5. \A v \in Writers : \A s \in mine[v] : s \in Nat /\ s < last'
  BY <1>1 DEF FeedInv, TypeOK
<1>6. \A s \in committed : s \in Nat /\ s < last'
  BY <1>1 DEF FeedInv, TypeOK
<1>7. Owned'
  BY <1>2, <1>3, <1>5, <1>6 DEF FeedInv, Owned, InsertRow
<1>8. OpenAhead'
  <2>1. cursor < last'
    BY <1>1 DEF FeedInv, TypeOK
  <2>2. QED
    BY <1>2, <1>3, <2>1 DEF FeedInv, OpenAhead
<1>9. StampsInOrder'
  <2> SUFFICES ASSUME NEW u \in Writers, NEW m \in mine'[u]
               PROVE  /\ \A s \in committed : m < s => age[s] <= held[u] + Lead
                      /\ \A v \in Writers : \A s \in mine'[v] :
                            m < s => since[v] <= held[u] + Lead
    BY <1>3 DEF StampsInOrder
  <2>1. held[u] \in Nat /\ since[w] \in Nat /\ since[w] <= Lead
    BY DEF FeedInv, TypeOK, InsertRow
  <2>2. CASE m = last'
    <3>1. \A s \in committed : ~(m < s)
      BY <1>1, <1>6, <2>2
    <3>2. \A v \in Writers : \A s \in mine'[v] : s = last' \/ s \in mine[v]
      BY <1>2
    <3>3. \A v \in Writers : \A s \in mine'[v] : ~(m < s)
      BY <1>1, <1>5, <2>2, <3>2
    <3>4. QED
      BY <3>1, <3>3
  <2>3. CASE m # last'
    <3>1. m \in mine[u]
      BY <1>2, <2>3
    <3>2. \A s \in committed : m < s => age[s] <= held[u] + Lead
      BY <3>1 DEF FeedInv, StampsInOrder
    <3>3. ASSUME NEW v \in Writers, NEW s \in mine'[v], m < s
          PROVE  since[v] <= held[u] + Lead
      <4>1. CASE s \in mine[v]
        BY <3>1, <3>3, <4>1 DEF FeedInv, StampsInOrder
      <4>2. CASE s \notin mine[v]
        <5>1. v = w
          BY <1>2, <3>3, <4>2
        <5>2. QED
          BY <2>1, <5>1
      <4>3. QED
        BY <4>1, <4>2
    <3>4. QED
      BY <3>2, <3>3
  <2>4. QED
    BY <2>2, <2>3
<1>10. NothingSkipped'
  BY <1>3 DEF FeedInv, NothingSkipped
<1>11. QED
  BY <1>4, <1>7, <1>8, <1>9, <1>10 DEF FeedInv

\* A request that ends lets go of its rows and its clock.
LEMMA EndedKeeps ==
    ASSUME FeedInv, NEW w \in Writers, Ended(w)
    PROVE  /\ busy' \subseteq Writers
           /\ mine' \in [Writers -> SUBSET (1..last)]
           /\ since' \in [Writers -> Nat]
           /\ held' \in [Writers -> 0..Hold]
           /\ mine'[w] = {}
           /\ \A v \in Writers \ {w} : /\ mine'[v] = mine[v]
                                       /\ since'[v] = since[v]
                                       /\ held'[v] = held[v]
                                       /\ v \in busy => v \in busy'
  BY FeedAssumption DEF Ended, FeedInv, TypeOK

LEMMA RollbackKeeps ==
    ASSUME FeedInv, NEW w \in Writers, Rollback(w)
    PROVE  FeedInv'
<1>1. Ended(w) /\ UNCHANGED <<last, committed, age, cursor, got>>
  BY DEF Rollback, feedVars
<1>2. TypeOK'
  BY <1>1, EndedKeeps DEF FeedInv, TypeOK
<1>3. Owned'
  BY <1>1, EndedKeeps DEF FeedInv, Owned
<1>4. OpenAhead'
  BY <1>1, EndedKeeps DEF FeedInv, OpenAhead
<1>5. StampsInOrder'
  BY <1>1, EndedKeeps DEF FeedInv, StampsInOrder
<1>6. NothingSkipped'
  BY <1>1 DEF FeedInv, NothingSkipped
<1>7. QED
  BY <1>2, <1>3, <1>4, <1>5, <1>6 DEF FeedInv

\* The rows that appear are ahead of the cursor, because they were when open.
LEMMA CommitKeeps ==
    ASSUME FeedInv, NEW w \in Writers, Commit(w)
    PROVE  FeedInv'
<1> USE FeedAssumption
<1>1. /\ Ended(w) /\ UNCHANGED <<last, cursor, got>>
      /\ committed' = committed \cup mine[w]
      /\ age' = [s \in Seqs |-> IF s \in mine[w] THEN Stamped(w) ELSE age[s]]
  BY DEF Commit, feedVars
<1>2. Stamped(w) \in 0..Settle /\ Stamped(w) <= since[w] /\ since[w] \in Nat
  BY DEF Stamped, FeedInv, TypeOK
<1>3. mine[w] \subseteq 1..last /\ committed \subseteq Seqs /\ mine[w] \subseteq Seqs
  BY DEF FeedInv, TypeOK, Seqs
<1>4. TypeOK'
  <2>1. age' \in [Seqs -> 0..Settle]
    BY <1>1, <1>2 DEF FeedInv, TypeOK
  <2>2. committed' \subseteq 1..last' /\ got' \subseteq committed'
    BY <1>1, <1>3 DEF FeedInv, TypeOK
  <2>3. QED
    BY <1>1, <2>1, <2>2, EndedKeeps DEF FeedInv, TypeOK
<1>5. Owned'
  BY <1>1, EndedKeeps DEF FeedInv, Owned
<1>6. OpenAhead'
  BY <1>1, EndedKeeps DEF FeedInv, OpenAhead
<1>7. StampsInOrder'
  <2> SUFFICES ASSUME NEW u \in Writers, NEW m \in mine'[u]
               PROVE  /\ \A s \in committed' : m < s => age'[s] <= held'[u] + Lead
                      /\ \A v \in Writers : \A s \in mine'[v] :
                            m < s => since'[v] <= held'[u] + Lead
    BY DEF StampsInOrder
  <2>1. u # w /\ m \in mine[u] /\ held'[u] = held[u] /\ held[u] \in Nat
    BY <1>1, EndedKeeps DEF FeedInv, TypeOK
  <2>2. ASSUME NEW s \in committed', m < s
        PROVE  age'[s] <= held'[u] + Lead
    <3>1. CASE s \in mine[w]
      <4>1. since[w] <= held[u] + Lead
        BY <2>1, <2>2, <3>1 DEF FeedInv, StampsInOrder
      <4>2. age'[s] = Stamped(w)
        BY <1>1, <1>3, <3>1
      <4>3. QED
        BY <1>2, <2>1, <4>1, <4>2
    <3>2. CASE s \notin mine[w]
      <4>1. s \in committed /\ age'[s] = age[s]
        BY <1>1, <1>3, <3>2
      <4>2. QED
        BY <2>1, <2>2, <4>1 DEF FeedInv, StampsInOrder
    <3>3. QED
      BY <3>1, <3>2
  <2>3. ASSUME NEW v \in Writers, NEW s \in mine'[v], m < s
        PROVE  since'[v] <= held'[u] + Lead
    <3>1. v # w /\ s \in mine[v] /\ since'[v] = since[v]
      BY <1>1, EndedKeeps
    <3>2. QED
      BY <2>1, <2>3, <3>1 DEF FeedInv, StampsInOrder
  <2>4. QED
    BY <2>2, <2>3
<1>8. NothingSkipped'
  BY <1>1, <1>3 DEF FeedInv, TypeOK, NothingSkipped, OpenAhead
<1>9. QED
  BY <1>4, <1>5, <1>6, <1>7, <1>8 DEF FeedInv
\* A tick ages a row and the transactions below it alike.
LEMMA TickKeeps ==
    ASSUME FeedInv, Tick
    PROVE  FeedInv'
<1> USE FeedAssumption
<1>1. /\ UNCHANGED <<last, committed, busy, mine, cursor, got>>
      /\ age' = [s \in Seqs |-> IF s \in committed THEN Older(age[s]) ELSE age[s]]
      /\ since' = [w \in Writers |-> IF w \in busy THEN since[w] + 1 ELSE 0]
      /\ held' = [w \in Writers |-> IF mine[w] # {} THEN held[w] + 1 ELSE 0]
  BY DEF Tick, feedVars
<1>2. \A a \in 0..Settle : Older(a) \in 0..Settle /\ Older(a) <= a + 1
  BY DEF Older
<1>3. TypeOK'
  <2>1. age' \in [Seqs -> 0..Settle]
    BY <1>1, <1>2 DEF FeedInv, TypeOK
  <2>2. since' \in [Writers -> Nat]
    BY <1>1 DEF FeedInv, TypeOK
  <2>3. \A w \in Writers : mine[w] # {} => held[w] < Hold
    BY DEF Tick, FeedInv, Owned
  <2>4. held' \in [Writers -> 0..Hold]
    BY <1>1, <2>3 DEF FeedInv, TypeOK
  <2>5. QED
    BY <1>1, <2>1, <2>2, <2>4 DEF FeedInv, TypeOK
<1>4. Owned' /\ OpenAhead' /\ NothingSkipped'
  BY <1>1 DEF FeedInv, Owned, OpenAhead, NothingSkipped
<1>5. StampsInOrder'
  <2> SUFFICES ASSUME NEW u \in Writers, NEW m \in mine[u]
               PROVE  /\ \A s \in committed : m < s => age'[s] <= held'[u] + Lead
                      /\ \A v \in Writers : \A s \in mine[v] :
                            m < s => since'[v] <= held'[u] + Lead
    BY <1>1 DEF StampsInOrder
  <2>1. held[u] \in Nat /\ held'[u] = held[u] + 1
    BY <1>1 DEF FeedInv, TypeOK
  <2>2. ASSUME NEW s \in committed, m < s
        PROVE  age'[s] <= held'[u] + Lead
    <3>1. s \in Seqs /\ age[s] \in 0..Settle
      BY DEF FeedInv, TypeOK, Seqs
    <3>2. age'[s] = Older(age[s])
      BY <1>1, <3>1
    <3>3. age[s] <= held[u] + Lead
      BY <2>2 DEF FeedInv, StampsInOrder
    <3>4. QED
      BY <1>2, <2>1, <3>1, <3>2, <3>3
  <2>3. ASSUME NEW v \in Writers, NEW s \in mine[v], m < s
        PROVE  since'[v] <= held'[u] + Lead
    <3>1. since[v] \in Nat /\ since'[v] = since[v] + 1
      BY <1>1 DEF FeedInv, TypeOK, Owned
    <3>2. since[v] <= held[u] + Lead
      BY <2>3 DEF FeedInv, StampsInOrder
    <3>3. QED
      BY <2>1, <3>1, <3>2
  <2>4. QED
    BY <2>2, <2>3
<1>6. QED
  BY <1>3, <1>4, <1>5 DEF FeedInv

\* A page leaves nothing behind it: no open number, and no visible row that it
\* does not hand on.
LEMMA ReadKeeps ==
    ASSUME FeedInv, Lead + Hold < Settle, Read
    PROVE  FeedInv'
<1> USE FeedAssumption
<1>1. PICK next \in FeedPage : (\A s \in FeedPage : s <= next) /\ cursor' = next
  BY DEF Read
<1>2. /\ UNCHANGED <<last, committed, age, busy, mine, since, held>>
      /\ got' = got \cup FeedPage
  BY DEF Read, writerVars
<1>3. FeedPage \subseteq committed /\ next \in 1..last /\ next \in Page
  BY DEF FeedPage, Page, FeedInv, TypeOK
<1>4. TypeOK'
  BY <1>1, <1>2, <1>3 DEF FeedInv, TypeOK
<1>5. Owned' /\ StampsInOrder'
  BY <1>2 DEF FeedInv, Owned, StampsInOrder
<1>6. OpenAhead'
  BY <1>1, <1>2, NothingOpenBehind DEF OpenAhead
<1>7. NothingSkipped'
  <2> SUFFICES ASSUME NEW s \in committed, s <= next
               PROVE  s \in got \cup FeedPage
    BY <1>1, <1>2 DEF NothingSkipped
  <2>1. s \in Nat /\ cursor \in Nat /\ next \in Nat
    BY <1>3 DEF FeedInv, TypeOK
  <2>2. CASE s <= cursor
    BY <2>2 DEF FeedInv, NothingSkipped
  <2>3. CASE cursor < s
    <3>1. s \in Page
      BY <1>3, <2>3, PageIsLowest DEF FeedInv
    <3>2. \A t \in Page : t \in Nat /\ (t <= s => t <= next)
      BY <2>1 DEF Page, FeedInv, TypeOK
    <3>3. \A t \in Page : t <= next => ~Waits(t)
      BY DEF FeedPage
    <3>4. QED
      BY <3>1, <3>2, <3>3 DEF FeedPage
  <2>4. QED
    BY <2>1, <2>2, <2>3
<1>8. QED
  BY <1>4, <1>5, <1>6, <1>7 DEF FeedInv

LEMMA StutterKeeps ==
    ASSUME FeedInv, UNCHANGED vars
    PROVE  FeedInv'
  BY DEF vars, writerVars, feedVars, FeedInv, TypeOK, Owned, OpenAhead,
         StampsInOrder, NothingSkipped

-----------------------------------------------------------------------------
\* The invariant of feedPage and the sequence behind OrderEvent.seq, while a
\* stamp is never older, when a number it could hide is given up, than Settle
\* allows.
THEOREM FeedInvariant ==
    ASSUME Lead + Hold < Settle
    PROVE  Spec => []FeedInv
<1>1. Init => FeedInv
  BY FeedInit
<1>2. FeedInv /\ [Next]_vars => FeedInv'
  <2> SUFFICES ASSUME FeedInv, [Next]_vars
               PROVE  FeedInv'
    OBVIOUS
  <2>1. ASSUME NEW w \in Writers, ReadClock(w)
        PROVE  FeedInv'
    BY <2>1, ReadClockKeeps
  <2>2. ASSUME NEW w \in Writers, InsertRow(w)
        PROVE  FeedInv'
    BY <2>2, InsertRowKeeps
  <2>3. ASSUME NEW w \in Writers, Commit(w)
        PROVE  FeedInv'
    BY <2>3, CommitKeeps
  <2>4. ASSUME NEW w \in Writers, Rollback(w)
        PROVE  FeedInv'
    BY <2>4, RollbackKeeps
  <2>5. CASE Read
    BY <2>5, ReadKeeps
  <2>6. CASE Tick
    BY <2>6, TickKeeps
  <2>7. CASE UNCHANGED vars
    BY <2>7, StutterKeeps
  <2>8. QED
    BY <2>1, <2>2, <2>3, <2>4, <2>5, <2>6, <2>7 DEF Next
<1>3. QED
  BY <1>1, <1>2, PTL DEF Spec

\* No event behind the bridge's cursor is one it has not handled, so a number
\* stepped over by feedPage never turns up: what the release notes promise.
THEOREM NeverSkips ==
    ASSUME Lead + Hold < Settle
    PROVE  Spec => []NothingSkipped
<1>1. FeedInv => NothingSkipped
  BY DEF FeedInv
<1>2. QED
  BY <1>1, FeedInvariant, PTL
=============================================================================
