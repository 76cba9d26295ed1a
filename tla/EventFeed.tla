----------------------------- MODULE EventFeed -----------------------------
(***************************************************************************)
(* The ordered event feed.  Requests append rows to the event log; each    *)
(* row takes its number from a sequence when it is inserted and becomes    *)
(* visible when its transaction commits, so numbers appear out of order    *)
(* and those of a rolled-back transaction never appear.  A bridge (a       *)
(* ticket printer, a kitchen display) asks for the events after the last   *)
(* one it handled, and never goes back.                                    *)
(*                                                                         *)
(* Time is counted in ticks since a request read its clock, which is the   *)
(* `at` on every row it writes.                                            *)
(***************************************************************************)
EXTENDS Naturals, FiniteSets

CONSTANTS
    Writers,    \* requests that may be in flight together
    MaxSeq,     \* bound on the numbers the sequence gives out
    Limit,      \* rows in a page
    Settle,     \* age at which a row shows that a gap below it is for good
    Lead,       \* longest time from a request's clock to an insert of its
    Hold        \* longest time from an insert to the end of its transaction

ASSUME FeedAssumption == /\ MaxSeq \in Nat /\ Settle \in Nat
                         /\ Lead \in Nat /\ Hold \in Nat
                         /\ Limit \in Nat \ {0}

VARIABLES
    last,       \* the last number given out
    committed,  \* numbers of the rows a reader sees
    age,        \* ticks since the stamp on each of them (counted to Settle)
    busy,       \* requests that have read their clock
    mine,       \* the numbers of each request's uncommitted rows
    since,      \* ticks since each busy request read its clock
    held,       \* ticks since it took its first number
    cursor,     \* the bridge's `after`
    got         \* the events the bridge has handled

writerVars == <<last, committed, age, busy, mine, since, held>>
feedVars   == <<cursor, got>>
vars == <<writerVars, feedVars>>

Seqs == 1..MaxSeq
Older(a) == IF a < Settle THEN a + 1 ELSE Settle

TypeOK ==
    /\ last \in 0..MaxSeq
    /\ committed \subseteq 1..last
    /\ age \in [Seqs -> 0..Settle]
    /\ busy \subseteq Writers
    /\ mine \in [Writers -> SUBSET (1..last)]
    /\ since \in [Writers -> Nat]
    /\ held \in [Writers -> 0..Hold]
    /\ cursor \in 0..last
    /\ got \subseteq committed

Init ==
    /\ last = 0
    /\ committed = {}
    /\ age = [s \in Seqs |-> 0]
    /\ busy = {}
    /\ mine = [w \in Writers |-> {}]
    /\ since = [w \in Writers |-> 0]
    /\ held = [w \in Writers |-> 0]
    /\ cursor = 0
    /\ got = {}

-----------------------------------------------------------------------------
\* A request that writes events.

\* `new Date()` in the server action: the stamp of every row to come, read
\* before the order is, before any processor is called.
ReadClock(w) ==
    /\ w \notin busy
    /\ busy' = busy \cup {w}
    /\ UNCHANGED <<last, committed, age, mine, since, held, feedVars>>

\* One row of an insert, in whatever transaction is open.
InsertRow(w) ==
    /\ w \in busy
    /\ since[w] <= Lead
    /\ last < MaxSeq
    /\ last' = last + 1
    /\ mine' = [mine EXCEPT ![w] = @ \cup {last + 1}]
    /\ UNCHANGED <<committed, age, busy, since, held, feedVars>>

Ended(w) ==
    /\ busy' = busy \ {w}
    /\ mine' = [mine EXCEPT ![w] = {}]
    /\ since' = [since EXCEPT ![w] = 0]
    /\ held' = [held EXCEPT ![w] = 0]

Stamped(w) == IF since[w] < Settle THEN since[w] ELSE Settle

\* All its rows appear at once.
Commit(w) ==
    /\ w \in busy /\ mine[w] # {}
    /\ committed' = committed \cup mine[w]
    /\ age' = [s \in Seqs |-> IF s \in mine[w] THEN Stamped(w) ELSE age[s]]
    /\ Ended(w)
    /\ UNCHANGED <<last, feedVars>>

\* A refusal, a lost race, a failed statement or a dead process: the rows go,
\* their numbers do not come back.
Rollback(w) ==
    /\ w \in busy
    /\ Ended(w)
    /\ UNCHANGED <<last, committed, age, feedVars>>

-----------------------------------------------------------------------------
\* The bridge.

\* The query of loadFeed: the first Limit rows after the cursor.
Page == {s \in committed :
            /\ cursor < s
            /\ Cardinality({t \in committed : cursor < t /\ t <= s}) <= Limit}

\* Mutant: rows are handed on as they come, gaps or not.
Waits_Never(s) == FALSE

\* Mutant: a gap is waited for until it is filled.
Waits_ForEver(s) == s # cursor + 1 /\ s - 1 \notin committed

\* The test that stops feedPage at a row: the number just below it has not
\* been handed on, and the row is too young to give that number up.
Waits(s) == s # cursor + 1 /\ s - 1 \notin committed /\ age[s] < Settle

\* feedPage's events: the rows of the page below the first that waits.
FeedPage == {s \in Page : \A t \in Page : t <= s => ~Waits(t)}

\* One request of the bridge that is answered: it handles the page and asks
\* from `next` the next time.  One that is not answered changes nothing.
Read ==
    /\ \E next \in FeedPage :
          /\ \A s \in FeedPage : s <= next
          /\ cursor' = next
    /\ got' = got \cup FeedPage
    /\ UNCHANGED writerVars

-----------------------------------------------------------------------------
\* Time passes for all alike.  A request inserts within Lead of its clock or
\* not at all, and ends its transaction within Hold of the first insert.
Tick ==
    /\ \A w \in busy : IF mine[w] = {} THEN since[w] < Lead ELSE held[w] < Hold
    /\ age' = [s \in Seqs |-> IF s \in committed THEN Older(age[s]) ELSE age[s]]
    /\ since' = [w \in Writers |-> IF w \in busy THEN since[w] + 1 ELSE 0]
    /\ held' = [w \in Writers |-> IF mine[w] # {} THEN held[w] + 1 ELSE 0]
    /\ UNCHANGED <<last, committed, busy, mine, feedVars>>

Next ==
    \/ \E w \in Writers : ReadClock(w) \/ InsertRow(w) \/ Commit(w) \/ Rollback(w)
    \/ Read
    \/ Tick

Spec == Init /\ [][Next]_vars

\* The bridge keeps asking, time passes, and a transaction ends, if only by
\* the client's timeout.  Nothing is promised of requests starting.
Fairness ==
    /\ WF_vars(Read)
    /\ WF_vars(Tick)
    /\ \A w \in Writers : WF_vars(Commit(w) \/ Rollback(w))

FairSpec == Spec /\ Fairness

-----------------------------------------------------------------------------
\* What the bridge relies on: an event behind its cursor has been handled, so
\* a number it stepped over never turns up later.
NothingSkipped == \A s \in committed : s <= cursor => s \in got

\* And every event reaches it, though numbers below may be lost for ever.
EveryEventHandled == \A s \in Seqs : s \in committed ~> s \in got

\* Why nothing is skipped: rows still open lie ahead of the cursor, and a row
\* with a higher number is never older, by its stamp, than the open row's
\* transaction by more than Lead.
OpenAhead == \A w \in Writers : \A m \in mine[w] : cursor < m

StampsInOrder ==
    \A w \in Writers : \A m \in mine[w] :
        /\ \A s \in committed : m < s => age[s] <= held[w] + Lead
        /\ \A v \in Writers : \A s \in mine[v] : m < s => since[v] <= held[w] + Lead

\* A number is open in one transaction only, and only while it runs.
Owned ==
    \A w \in Writers :
        /\ mine[w] # {} => w \in busy
        /\ mine[w] \cap committed = {}
        /\ \A v \in Writers \ {w} : mine[v] \cap mine[w] = {}

FeedInv == TypeOK /\ Owned /\ OpenAhead /\ StampsInOrder /\ NothingSkipped
=============================================================================
