---------------------------- MODULE KitchenBoard ----------------------------
(***************************************************************************)
(* The screens that watch orders, and the taps made on them.  A screen is  *)
(* drawn by the server from the database and goes stale at once; the       *)
(* kitchen board and the customer's status page poll a cursor, the tip of  *)
(* the event log, and ask to be drawn again when it moved.  The staff      *)
(* receipt does not poll.  A tap names what its card was drawn with; the   *)
(* server reads the order, decides, and writes only if the order is still  *)
(* where it was read.                                                      *)
(***************************************************************************)
EXTENDS StatusFacts, FiniteSets

CONSTANTS
    Orders,
    Boards,      \* kitchen queue screens
    Receipts,    \* staff receipts open in a tab
    Pages,       \* customers' status pages
    Of,          \* the order a receipt or a page is about
    Reachable,   \* orders with a phone number
    Labelled,    \* orders whose bag somebody writes a shelf for
    MaxEvents,   \* bound: events written in a behaviour
    MaxLost,     \* bound: requests lost in a behaviour
    MaxPolls,    \* bound: polls of one screen in flight together
    Tappers,     \* screens somebody taps on
    Pollers,     \* boards and pages whose network lets polls through
    Coverable,   \* screens that may go behind another window
    TicksPerIdleRefresh

Screens == Boards \cup Receipts \cup Pages

ASSUME BoardAssumption ==
    /\ Boards \cap Receipts = {} /\ Boards \cap Pages = {} /\ Receipts \cap Pages = {}
    /\ Of \in [Receipts \cup Pages -> Orders]
    /\ Reachable \subseteq Orders /\ Labelled \subseteq Orders
    /\ Tappers \subseteq Screens
    /\ Pollers \subseteq Boards \cup Pages /\ Coverable \subseteq Screens
    /\ MaxEvents \in Nat /\ MaxLost \in Nat
    /\ MaxPolls \in Nat \ {0} /\ TicksPerIdleRefresh \in Nat \ {0}

VARIABLES
    status,    \* Order.status; NoStatus before the order is placed
    undoable,  \* orders whose last move was a step forward, less than 5 s ago
    waiting,   \* orders whose customer is at the counter
    shelf,     \* orders with a shelf location
    texts,     \* outbox rows of each order
    tip,       \* events in the log
    cursor,    \* the cursor each screen was drawn with
    shown,     \* what each screen shows of each order
    seen,      \* the cursor each screen last heard
    ticks,     \* polls each screen heard since it last asked to be drawn
    polls,     \* answers on their way to each screen
    want,      \* screens that asked to be drawn
    reading,   \* what was read so far for a screen being drawn
    hidden,    \* screens behind another window: not tapped, and not polling
    tap,       \* the request each screen has with the server
    lost       \* requests lost so far

tableVars  == <<status, undoable, waiting, shelf, texts, tip>>
screenVars == <<cursor, shown, seen, ticks, polls, want, reading, hidden>>
vars == <<tableVars, screenVars, tap, lost>>

-----------------------------------------------------------------------------
\* What a screen draws.

QueueStatus == Status \ Terminal

\* groupQueue: a live order is drawn under its own status; an order that just
\* left the queue holds its slot there while its undo lasts.
SectionOf(o) ==
    CASE status[o] \in QueueStatus                       -> status[o]
      [] status[o] \in Terminal /\ o \in undoable        -> PreviousOf[status[o]]
      [] OTHER                                           -> NoStatus

Cards == [status : Status \cup {NoStatus}, waiting : BOOLEAN, shelf : BOOLEAN]
NoCard == [status |-> NoStatus, waiting |-> FALSE, shelf |-> FALSE]

\* The board draws every order of a section, with the shelf of a ready one.
BoardCard(o) ==
    IF SectionOf(o) = NoStatus THEN NoCard
    ELSE [status  |-> status[o],
          waiting |-> o \in waiting,
          shelf   |-> o \in shelf /\ status[o] = "ready"]

\* A receipt or a page draws the one order it is about.
OwnCard(s, o) ==
    IF o # Of[s] THEN NoCard ELSE [NoCard EXCEPT !.status = status[o]]

View(s) == [o \in Orders |-> IF s \in Boards THEN BoardCard(o) ELSE OwnCard(s, o)]

\* LiveUpdates is `active` on the board, and on a page until its order ends.
Polling(s) ==
    \/ s \in Boards
    \/ s \in Pages /\ shown[s][Of[s]].status \notin Terminal

NoCursor == MaxEvents + 1
NoCards == <<>>
Blank == [cursor |-> NoCursor, cards |-> NoCards]
NoTap == [op |-> "idle"]

Moves ==
    [op : {"sent", "seen"}, order : Orders, kind : Kinds, to : Status \cup {NoStatus},
     drawn : Status, from : Status \cup {NoStatus}, shelf : BOOLEAN]
Marks == [op : {"mark"}, order : Orders, ready : BOOLEAN, fresh : BOOLEAN]
Taps == {NoTap} \cup Moves \cup Marks \cup [op : {"shelve"}, order : Orders]

Answers == [tip : 0..MaxEvents, changed : BOOLEAN]

TypeOK ==
    /\ status \in [Orders -> Status \cup {NoStatus}]
    /\ undoable \subseteq Orders /\ waiting \subseteq Orders /\ shelf \subseteq Orders
    /\ texts \in [Orders -> Nat]
    /\ tip \in 0..MaxEvents
    /\ cursor \in [Screens -> 0..MaxEvents]
    /\ shown \in [Screens -> [Orders -> Cards]]
    /\ seen \in [Screens -> 0..MaxEvents]
    /\ ticks \in [Screens -> 0..TicksPerIdleRefresh]
    /\ polls \in [Screens -> SUBSET Answers]
    /\ want \subseteq Screens /\ hidden \subseteq Screens
    /\ reading \in [Screens -> [cursor : 0..NoCursor, cards : {NoCards} \cup [Orders -> Cards]]]
    /\ tap \in [Screens -> Taps]
    /\ lost \in 0..MaxLost

\* Any service in progress, its screens drawn: an order whose food was ready
\* was texted about, and one that was moved back may have been.
Served == {"ready", "picked_up", "abandoned"}
Init ==
    /\ status \in [Orders -> Status \cup {NoStatus}]
    /\ \A s \in Receipts \cup Pages : status[Of[s]] # NoStatus
    /\ texts \in [Orders -> 0..1]
    /\ \A o \in Orders :
          /\ o \in Reachable /\ status[o] \in Served => texts[o] = 1
          /\ o \notin Reachable \/ status[o] = NoStatus => texts[o] = 0
    /\ undoable = {} /\ waiting = {} /\ shelf = {} /\ tip = 0
    /\ cursor = [s \in Screens |-> 0]
    /\ shown = [s \in Screens |-> View(s)]
    /\ seen = [s \in Screens |-> 0] /\ ticks = [s \in Screens |-> 0]
    /\ polls = [s \in Screens |-> {}]
    /\ want = {} /\ hidden \in SUBSET Screens
    /\ reading = [s \in Screens |-> Blank]
    /\ tap = [s \in Screens |-> NoTap]
    /\ lost = 0

-----------------------------------------------------------------------------
\* What writes to an order.

\* Every event goes on the end of one log.
Append == tip < MaxEvents /\ tip' = tip + 1

\* Mutant: every time the order becomes ready, a row.
QueueReadyText_Again(o) ==
    texts' = [texts EXCEPT ![o] = IF o \in Reachable THEN @ + 1 ELSE @]

\* queueReadyNotification: one row for an order, whatever the order went
\* through; a second one is skipped and is no error.
QueueReadyText(o) ==
    texts' = [texts EXCEPT ![o] = IF o \in Reachable /\ @ = 0 THEN 1 ELSE @]

\* A move of `o` to `into`, in one transaction.  A mark of "customer is here"
\* asked for before it is older than the status it would be about.
Move(o, into, undo) ==
    /\ Append
    /\ status' = [status EXCEPT ![o] = into]
    /\ undoable' = IF undo THEN undoable \cup {o} ELSE undoable \ {o}
    /\ waiting' = waiting \ {o}
    /\ IF into = "ready" THEN QueueReadyText(o) ELSE UNCHANGED texts
    /\ UNCHANGED shelf

StaleMarks(o) ==
    [s \in Screens |-> IF tap[s].op = "mark" /\ tap[s].order = o
                       THEN [tap[s] EXCEPT !.fresh = FALSE] ELSE tap[s]]

\* A customer places the order.
Place(o) ==
    /\ status[o] = NoStatus
    /\ Append
    /\ status' = [status EXCEPT ![o] = "placed"]
    /\ UNCHANGED <<undoable, waiting, shelf, texts, screenVars, tap, lost>>

\* Five seconds pass.
UndoCloses(o) ==
    /\ o \in undoable
    /\ undoable' = undoable \ {o}
    /\ UNCHANGED <<status, waiting, shelf, texts, tip, screenVars, tap, lost>>

-----------------------------------------------------------------------------
\* What a person taps.  A screen has one request with the server at a time.

Shows(s, o, here) == shown[s][o].status \in here
Free(s) == s \in Tappers \ hidden /\ tap[s] = NoTap

\* revalidatePath: a board is drawn again with the answer to its request; a
\* receipt is redirected to (Open).
Ask(s) == want' = want \cup ({s} \ Receipts)

Send(s, o, kind, to, withShelf) ==
    /\ tap' = [tap EXCEPT ![s] = [op |-> "sent", order |-> o, kind |-> kind, to |-> to,
                                  drawn |-> shown[s][o].status, from |-> NoStatus,
                                  shelf |-> withShelf]]
    /\ UNCHANGED <<tableVars, screenVars, lost>>

\* The big button: the next status of the card as it was drawn.  The shelf is
\* sent along on the tap that makes the food ready.
TapAdvance(s, o) ==
    LET next == NextOf[shown[s][o].status] IN
    /\ s \in Boards /\ Free(s) /\ Shows(s, o, QueueStatus)
    /\ \E withShelf \in {FALSE, next = "ready" /\ o \in Labelled} : Send(s, o, "advance", next, withShelf)

\* "Undo" and "Move back" on a card; "Move it back" on a receipt.
TapRevert(s, o) ==
    /\ Free(s)
    /\ \/ s \in Boards /\ Shows(s, o, Status)
       \/ s \in Receipts /\ Shows(s, o, Terminal)
    /\ PreviousOf[shown[s][o].status] # NoStatus
    /\ Send(s, o, "revert", PreviousOf[shown[s][o].status], FALSE)

\* "Cancel" and "No-show" name no status: the rule they ask is the order's own.
TapClose(s, o) ==
    /\ s \in Boards /\ Free(s)
    /\ \/ Shows(s, o, CancellableByStaff) /\ Send(s, o, "cancel", NoStatus, FALSE)
       \/ Shows(s, o, Abandonable) /\ Send(s, o, "abandon", NoStatus, FALSE)

\* "Customer is here", on a ready card without the mark.
TapWaiting(s, o) ==
    /\ s \in Boards /\ Free(s) /\ Shows(s, o, {"ready"}) /\ ~shown[s][o].waiting
    /\ tap' = [tap EXCEPT ![s] = [op |-> "mark", order |-> o, ready |-> FALSE, fresh |-> TRUE]]
    /\ UNCHANGED <<tableVars, screenVars, lost>>

\* "Save shelf": one write, and no event.
SaveShelf(s, o) ==
    /\ s \in Boards /\ Free(s) /\ Shows(s, o, {"ready"}) /\ o \in Labelled
    /\ shelf' \in {shelf \cup {o}, shelf \ {o}}
    /\ want' = want \cup {s}
    /\ UNCHANGED <<status, undoable, waiting, texts, tip, cursor, shown, seen, ticks, polls,
                   reading, hidden, tap, lost>>

\* A note, or money taken or given back: an event that moves nothing.
Note(s, o) ==
    /\ s \notin Pages /\ Free(s) /\ Shows(s, o, Status)
    /\ Append
    /\ Ask(s)
    /\ UNCHANGED <<status, undoable, waiting, shelf, texts, cursor, shown, seen, ticks, polls,
                   reading, hidden, tap, lost>>

-----------------------------------------------------------------------------
\* What the server does with a tap.

Into(t, to) == Permits(t.kind, "staff", t.from, to)

\* Mutant: the status a card was drawn with is not asked about.
Decides_NoTarget(t, from) ==
    \E to \in Status : Permits(t.kind, "staff", from, to)

\* applyTransition: what the action does to the status now read, unless the
\* tap named another one (`unexpected_target`).
Decides(t, from) ==
    \E to \in Status : Permits(t.kind, "staff", from, to) /\ t.to \in {to, NoStatus}

\* applyOrderAction reads the order and decides.
Look(s) ==
    /\ tap[s].op = "sent"
    /\ Decides(tap[s], status[tap[s].order])
    /\ tap' = [tap EXCEPT ![s].op = "seen", ![s].from = status[tap[s].order]]
    /\ UNCHANGED <<tableVars, screenVars, lost>>

\* Refused: the message is shown and nothing is drawn again.
Refuse(s) ==
    /\ tap[s].op = "sent"
    /\ ~Decides(tap[s], status[tap[s].order])
    /\ tap' = [tap EXCEPT ![s] = NoTap]
    /\ UNCHANGED <<tableVars, screenVars, lost>>

\* The compare-and-set transaction.  A shelf sent along is written after it.
Commit(s) ==
    LET t == tap[s] IN
    /\ t.op = "seen" /\ status[t.order] = t.from
    /\ \E into \in Status :
          /\ Into(t, into)
          /\ Move(t.order, into, t.kind \in {"advance", "abandon"})
    /\ tap' = [StaleMarks(t.order) EXCEPT
                   ![s] = IF t.shelf THEN [op |-> "shelve", order |-> t.order] ELSE NoTap]
    /\ Ask(s)
    /\ UNCHANGED <<cursor, shown, seen, ticks, polls, reading, hidden, lost>>

\* The order moved after it was read: refused.
Conflict(s) ==
    /\ tap[s].op = "seen" /\ status[tap[s].order] # tap[s].from
    /\ tap' = [tap EXCEPT ![s] = NoTap]
    /\ UNCHANGED <<tableVars, screenVars, lost>>

Shelve(s) ==
    /\ tap[s].op = "shelve"
    /\ shelf' = shelf \cup {tap[s].order}
    /\ tap' = [tap EXCEPT ![s] = NoTap]
    /\ want' = want \cup {s}
    /\ UNCHANGED <<status, undoable, waiting, texts, tip, cursor, shown, seen, ticks, polls,
                   reading, hidden, lost>>

\* markCustomerWaiting reads the status, and writes whatever it is by then.
LookReady(s) ==
    /\ tap[s].op = "mark" /\ ~tap[s].ready
    /\ IF status[tap[s].order] = "ready"
       THEN tap' = [tap EXCEPT ![s].ready = TRUE] /\ UNCHANGED want
       ELSE tap' = [tap EXCEPT ![s] = NoTap] /\ want' = want \cup {s}
    /\ UNCHANGED <<tableVars, cursor, shown, seen, ticks, polls, reading, hidden, lost>>

\* isWaitingAtCounter counts the event only if it is no older than the status.
Mark(s) ==
    /\ tap[s].op = "mark" /\ tap[s].ready
    /\ Append
    /\ waiting' = IF tap[s].fresh THEN waiting \cup {tap[s].order} ELSE waiting
    /\ tap' = [tap EXCEPT ![s] = NoTap]
    /\ want' = want \cup {s}
    /\ UNCHANGED <<status, undoable, shelf, texts, cursor, shown, seen, ticks, polls, reading,
                   hidden, lost>>

-----------------------------------------------------------------------------
\* Polling and drawing.

\* A timer sends a poll whether or not the last one was answered; the answer
\* holds the tip as it is now and whether it is the one the screen named.
Poll(s) ==
    /\ s \in Pollers /\ Polling(s) /\ s \notin hidden
    /\ Cardinality(polls[s]) < MaxPolls
    /\ polls' = [polls EXCEPT ![s] = @ \cup {[tip |-> tip, changed |-> seen[s] # tip]}]
    /\ UNCHANGED <<tableVars, cursor, shown, seen, ticks, want, reading, hidden, tap, lost>>

\* Mutant: only a poll that says "changed" asks for a new drawing.
Due_NoIdle(s, answer) == answer.changed

Due(s, answer) == answer.changed \/ ticks[s] + 1 >= TicksPerIdleRefresh

\* An answer arrives, of those in flight in any order.
Hear(s) ==
    \E answer \in polls[s] :
        /\ polls' = [polls EXCEPT ![s] = @ \ {answer}]
        /\ seen' = [seen EXCEPT ![s] = answer.tip]
        /\ IF Due(s, answer)
           THEN ticks' = [ticks EXCEPT ![s] = 0] /\ want' = want \cup {s}
           ELSE /\ ticks' = [ticks EXCEPT ![s] = IF @ < TicksPerIdleRefresh THEN @ + 1 ELSE @]
                /\ UNCHANGED want
        /\ UNCHANGED <<tableVars, cursor, shown, reading, hidden, tap, lost>>

\* Mutant: the orders are read first, and then the cursor.
NextRead_OrdersFirst(s, r) ==
    IF r = Blank THEN [r EXCEPT !.cards = View(s)] ELSE [r EXCEPT !.cursor = tip]

\* The server component reads the cursor and then the orders.
NextRead(s, r) ==
    IF r = Blank THEN [r EXCEPT !.cursor = tip] ELSE [r EXCEPT !.cards = View(s)]

StartRender(s) ==
    /\ s \in want /\ reading[s] = Blank
    /\ reading' = [reading EXCEPT ![s] = NextRead(s, Blank)]
    /\ want' = want \ {s}
    /\ UNCHANGED <<tableVars, cursor, shown, seen, ticks, polls, hidden, tap, lost>>

Read(r) == r.cursor # NoCursor /\ r.cards # NoCards

FinishRender(s) ==
    /\ reading[s] # Blank /\ ~Read(reading[s])
    /\ reading' = [reading EXCEPT ![s] = NextRead(s, @)]
    /\ UNCHANGED <<tableVars, cursor, shown, seen, ticks, polls, want, hidden, tap, lost>>

\* The browser shows it.  A new cursor, or a page whose order ended or lives
\* again, starts the poller afresh; polls in flight are then never heard.
Draw(s) ==
    LET new == reading[s]
        same == /\ new.cursor = cursor[s]
                /\ s \in Pages => (new.cards[Of[s]].status \in Terminal <=> ~Polling(s))
    IN  /\ Read(new)
        /\ shown' = [shown EXCEPT ![s] = new.cards]
        /\ cursor' = [cursor EXCEPT ![s] = new.cursor]
        /\ IF same THEN UNCHANGED <<seen, ticks, polls>>
           ELSE /\ seen' = [seen EXCEPT ![s] = new.cursor]
                /\ ticks' = [ticks EXCEPT ![s] = 0]
                /\ polls' = [polls EXCEPT ![s] = {}]
        /\ reading' = [reading EXCEPT ![s] = Blank]
        /\ UNCHANGED <<tableVars, want, hidden, tap, lost>>

\* A person opens again a board or a page that does not poll.
Reload(s) ==
    /\ s \notin hidden \cup Receipts /\ ~(s \in Pollers /\ Polling(s))
    /\ s \notin want /\ reading[s] = Blank
    /\ want' = want \cup {s}
    /\ UNCHANGED <<tableVars, cursor, shown, seen, ticks, polls, reading, hidden, tap, lost>>

\* A receipt is opened, or redirected to after a tap.  It hands out no cursor.
Open(s) ==
    /\ s \in Receipts \ hidden
    /\ shown' = [shown EXCEPT ![s] = View(s)]
    /\ UNCHANGED <<tableVars, cursor, seen, ticks, polls, want, reading, hidden, tap, lost>>

\* A screen goes behind another window, and comes back.
Cover(s) ==
    /\ s \in Coverable
    /\ hidden' = IF s \in hidden THEN hidden \ {s} ELSE hidden \cup {s}
    /\ UNCHANGED <<tableVars, cursor, shown, seen, ticks, polls, want, reading, tap, lost>>

\* Faults: a poll, or its answer, or a drawing asked for never arrives; the
\* process ends between the move to ready and the write of the shelf.
Lose(s) ==
    /\ lost < MaxLost /\ lost' = lost + 1
    /\ \/ /\ \E answer \in polls[s] : polls' = [polls EXCEPT ![s] = @ \ {answer}]
          /\ UNCHANGED <<reading, tap>>
       \/ /\ reading[s] # Blank
          /\ reading' = [reading EXCEPT ![s] = Blank]
          /\ UNCHANGED <<polls, tap>>
       \/ /\ tap[s].op = "shelve"
          /\ tap' = [tap EXCEPT ![s] = NoTap]
          /\ UNCHANGED <<polls, reading>>
    /\ UNCHANGED <<tableVars, cursor, shown, seen, ticks, want, hidden>>

-----------------------------------------------------------------------------
Person(s) ==
    \E o \in Orders :
        \/ TapAdvance(s, o) \/ TapRevert(s, o) \/ TapClose(s, o) \/ TapWaiting(s, o)
        \/ SaveShelf(s, o) \/ Note(s, o)

Server(s) ==
    \/ Look(s) \/ Refuse(s) \/ Commit(s) \/ Conflict(s) \/ Shelve(s)
    \/ LookReady(s) \/ Mark(s)

Browser(s) ==
    \/ Poll(s) \/ Hear(s) \/ StartRender(s) \/ FinishRender(s) \/ Draw(s)
    \/ Reload(s) \/ Open(s) \/ Cover(s) \/ Lose(s)

Next ==
    \/ \E s \in Screens : Person(s) \/ Server(s) \/ Browser(s)
    \/ \E o \in Orders : Place(o) \/ UndoCloses(o)

Spec == Init /\ [][Next]_vars

\* A screen in front keeps its timer, a request that is not lost is answered,
\* and the server finishes what it began.
Fairness ==
    \A s \in Screens :
        /\ WF_vars(Poll(s)) /\ WF_vars(Hear(s))
        /\ WF_vars(StartRender(s)) /\ WF_vars(FinishRender(s)) /\ WF_vars(Draw(s))

FairSpec == Spec /\ Fairness

-----------------------------------------------------------------------------
\* A board or a page drawn with the cursor the log is still at shows every
\* order as it is: a poll that answers "no change" never hides one.  A card
\* is missing only for an order that left the queue.
CurrentCursorShowsAll ==
    \A s \in Boards \cup Pages : cursor[s] = tip =>
        \A o \in Orders : s \in Boards \/ o = Of[s] =>
            /\ status[o] \in QueueStatus => shown[s][o].status = status[o]
            /\ shown[s][o].status \in {status[o], NoStatus}
            /\ s \in Boards /\ status[o] = "ready" => (shown[s][o].waiting <=> o \in waiting)

\* A step forward is taken only from the status its card was drawn with,
\* whatever other screens did since, and one tap takes one step.
MovesAsDrawn ==
    [][\A s \in Screens :
          /\ tap[s].op = "seen" /\ tap[s].kind = "advance"
          /\ status'[tap[s].order] # status[tap[s].order] /\ tap'[s] # tap[s]
          => /\ status[tap[s].order] = tap[s].drawn
             /\ status'[tap[s].order] = NextOf[tap[s].drawn]]_vars

\* However often an order is moved back and made ready again, its customer is
\* texted once; and no order is ready without the text.
TextedOnce ==
    \A o \in Orders :
        /\ texts[o] <= 1
        /\ o \in Reachable /\ status[o] \in Served => texts[o] = 1

\* A board that stays in front comes to show a new order, which rings until
\* it is accepted, and the shelf a bag was put on, which no event tells of:
\* through lost polls, lost drawings and answers out of order.
BoardsCatchUp ==
    \A b \in Boards \cap Pollers, o \in Orders :
        <>[](b \notin hidden) =>
            /\ status[o] = "placed" ~> (shown[b][o].status = "placed" \/ status[o] # "placed")
            /\ (status[o] = "ready" /\ o \in shelf)
                  ~> (shown[b][o].shelf \/ status[o] # "ready" \/ o \notin shelf)

\* A customer whose page stays in front is told that the food is ready, unless
\* the order moves on or the page had stopped at an end of the order.
CustomersAreTold ==
    \A c \in Pages \cap Pollers :
        <>[](c \notin hidden) =>
            (status[Of[c]] = "ready"
                ~> (shown[c][Of[c]].status = "ready" \/ status[Of[c]] # "ready" \/ ~Polling(c)))

\* A screen that stays in front comes to show what happened to its orders,
\* through lost polls, lost drawings and answers out of order.
ScreensCatchUp == BoardsCatchUp /\ CustomersAreTold
=============================================================================
