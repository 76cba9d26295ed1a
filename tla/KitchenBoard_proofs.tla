------------------------ MODULE KitchenBoard_proofs -------------------------
(***************************************************************************)
(* Proofs about KitchenBoard for any number of screens, orders and people  *)
(* tapping: a customer is texted once, a step forward is the one the card  *)
(* was drawn with, and a current cursor hides nothing.                     *)
(***************************************************************************)
EXTENDS KitchenBoard, TLAPS

USE DEF tableVars, screenVars

Half == [cursor : 0..NoCursor, cards : {NoCards} \cup [Orders -> Cards]]

\* The parts of TypeOK that different actions disturb
TablesTyped ==
    /\ status \in [Orders -> Status \cup {NoStatus}]
    /\ undoable \subseteq Orders /\ waiting \subseteq Orders /\ shelf \subseteq Orders
    /\ texts \in [Orders -> Nat]
    /\ tip \in 0..MaxEvents

ScreensTyped ==
    /\ cursor \in [Screens -> 0..MaxEvents]
    /\ shown \in [Screens -> [Orders -> Cards]]
    /\ seen \in [Screens -> 0..MaxEvents]
    /\ ticks \in [Screens -> 0..TicksPerIdleRefresh]
    /\ polls \in [Screens -> SUBSET Answers]
    /\ want \subseteq Screens /\ hidden \subseteq Screens

ReadingTyped == reading \in [Screens -> Half]

TapsTyped == tap \in [Screens -> Taps]

-----------------------------------------------------------------------------
\* The status table.

\* What staff can make of an order: the table's moves and no others.
LEMMA StaffMoves ==
    ASSUME NEW kind \in Kinds, NEW from \in Status, NEW to,
           Permits(kind, "staff", from, to)
    PROVE  /\ to \in Status
           /\ kind = "advance" => to = NextOf[from] /\ from \in QueueStatus
           /\ to \in Served => to = "ready" \/ from \in Served
BY DEF Permits, Kinds, Status, NextOf, PreviousOf, Served, NoStatus, Terminal,
       QueueStatus, CancellableByStaff, CancellableByCustomer, Abandonable

\* One status leads to each: what follows a queue status tells which it was.
LEMMA NextIsOneToOne ==
    ASSUME NEW a \in QueueStatus, NEW b \in QueueStatus, NextOf[a] = NextOf[b]
    PROVE  a = b
BY DEF QueueStatus, Status, Terminal, NextOf

LEMMA QueueHasNext ==
    ASSUME NEW a \in QueueStatus
    PROVE  NextOf[a] \in Status /\ NextOf[a] # NoStatus
BY DEF QueueStatus, Status, Terminal, NextOf, NoStatus

LEMMA TableTyped ==
    /\ QueueStatus \subseteq Status /\ Terminal \subseteq Status
    /\ CancellableByStaff \subseteq Status /\ Abandonable \subseteq Status
    /\ "placed" \in Status /\ "ready" \in Status /\ NoStatus \notin Status
    /\ \A a \in Status : /\ NextOf[a] \in Status \cup {NoStatus}
                         /\ PreviousOf[a] \in Status \cup {NoStatus}
BY DEF QueueStatus, Status, Terminal, NextOf, PreviousOf, NoStatus,
       CancellableByStaff, Abandonable

-----------------------------------------------------------------------------
\* What a screen draws is cards.
LEMMA ViewTyped ==
    ASSUME TablesTyped, NEW s \in Screens
    PROVE  View(s) \in [Orders -> Cards]
<1>1. NoCard \in Cards
  BY DEF NoCard, Cards
<1>2. \A o \in Orders : BoardCard(o) \in Cards
  BY <1>1 DEF BoardCard, Cards, TablesTyped
<1>3. \A o \in Orders : OwnCard(s, o) \in Cards
  BY <1>1 DEF OwnCard, NoCard, Cards, TablesTyped
<1> QED
  BY <1>2, <1>3 DEF View

\* What is read next of a drawing under way is of its kind.
LEMMA NextReadTyped ==
    ASSUME TypeOK, NEW s \in Screens, NEW r \in Half
    PROVE  NextRead(s, r) \in Half
<1>1. View(s) \in [Orders -> Cards]
  BY ViewTyped DEF TypeOK, TablesTyped
<1>2. tip \in 0..NoCursor
  BY BoardAssumption DEF TypeOK, NoCursor
<1> HIDE DEF View
<1> QED
  BY <1>1, <1>2 DEF NextRead, Half

LEMMA BlankTyped == Blank \in Half
BY BoardAssumption DEF Blank, Half, NoCursor

Typed == TablesTyped /\ ScreensTyped /\ ReadingTyped /\ TapsTyped /\ lost \in 0..MaxLost

LEMMA TypeParts == (TypeOK <=> Typed) /\ (TypeOK' <=> Typed')
BY DEF Typed, TypeOK, TablesTyped, ScreensTyped, ReadingTyped, TapsTyped, Half

\* The kinds of taps are told apart by `op`.
LEMMA TapKinds ==
    ASSUME NEW t \in Taps
    PROVE  /\ t.op \in {"sent", "seen"} => t \in Moves
           /\ t.op = "mark" => t \in Marks
           /\ t.op = "shelve" => t \in [op : {"shelve"}, order : Orders]
           /\ t.op \in {"sent", "seen", "mark", "shelve"} => t.order \in Orders
BY DEF Taps, NoTap, Moves, Marks

-----------------------------------------------------------------------------
\* A screen in progress is well typed.
LEMMA TypeInit == Init => TypeOK
<1> SUFFICES ASSUME Init PROVE TypeOK
  OBVIOUS
<1>1. TablesTyped
  BY BoardAssumption DEF Init, TablesTyped
<1>2. \A s \in Screens : View(s) \in [Orders -> Cards]
  BY <1>1, ViewTyped
<1>3. shown \in [Screens -> [Orders -> Cards]]
  BY <1>2 DEF Init
<1>4. ScreensTyped
  BY <1>3, BoardAssumption DEF Init, ScreensTyped
<1>5. ReadingTyped
  BY BlankTyped DEF Init, ReadingTyped
<1>6. TapsTyped /\ lost \in 0..MaxLost
  BY BoardAssumption DEF Init, TapsTyped, Taps
<1> QED
  BY <1>1, <1>4, <1>5, <1>6, TypeParts DEF Typed

\* A move of an order keeps the tables.
LEMMA MoveTyped ==
    ASSUME TablesTyped, NEW o \in Orders, NEW into \in Status,
           NEW undo \in BOOLEAN, Move(o, into, undo)
    PROVE  TablesTyped'
<1>1. texts' \in [Orders -> Nat]
  BY DEF Move, QueueReadyText, TablesTyped
<1>2. undoable' \subseteq Orders
  BY DEF Move, TablesTyped
<1>3. status' \in [Orders -> Status \cup {NoStatus}]
  BY DEF Move, TablesTyped
<1> QED
  BY <1>1, <1>2, <1>3, BoardAssumption DEF Move, Append, TablesTyped

\* What a person taps keeps the types.
LEMMA SendTyped ==
    ASSUME TypeOK, NEW s \in Screens, NEW o \in Orders, NEW kind \in Kinds,
           NEW to \in Status \cup {NoStatus}, NEW withShelf \in BOOLEAN,
           shown[s][o].status \in Status, Send(s, o, kind, to, withShelf)
    PROVE  TypeOK'
<1> DEFINE t == [op |-> "sent", order |-> o, kind |-> kind, to |-> to,
                 drawn |-> shown[s][o].status, from |-> NoStatus,
                 shelf |-> withShelf]
<1>1. t \in Taps
  BY DEF Taps, Moves
<1>2. tap' = [tap EXCEPT ![s] = t]
  BY DEF Send
<1> HIDE DEF t
<1>3. TapsTyped'
  BY <1>1, <1>2, TypeParts DEF Typed, TapsTyped
<1> QED
  BY <1>3, TypeParts DEF Typed, Send, TablesTyped, ScreensTyped, ReadingTyped

LEMMA PersonTyped ==
    ASSUME TypeOK, NEW s \in Screens, Person(s)
    PROVE  TypeOK'
<1> USE TableTyped
<1>0. PICK o \in Orders :
        \/ TapAdvance(s, o) \/ TapRevert(s, o) \/ TapClose(s, o)
        \/ TapWaiting(s, o) \/ SaveShelf(s, o) \/ Note(s, o)
  BY DEF Person
<1>1. CASE TapAdvance(s, o)
  <2>1. shown[s][o].status \in Status
    BY <1>1 DEF TapAdvance, Shows
  <2>2. PICK withShelf \in BOOLEAN :
          Send(s, o, "advance", NextOf[shown[s][o].status], withShelf)
    BY <1>1 DEF TapAdvance
  <2> QED
    BY <2>1, <2>2, SendTyped DEF Kinds
<1>2. CASE TapRevert(s, o)
  BY <1>2, SendTyped DEF TapRevert, Shows, Kinds
<1>3. CASE TapClose(s, o)
  BY <1>3, SendTyped DEF TapClose, Shows, Kinds
<1>4. CASE TapWaiting(s, o)
  <2>1. [op |-> "mark", order |-> o, ready |-> FALSE, fresh |-> TRUE] \in Taps
    BY DEF Taps, Marks
  <2>2. TapsTyped'
    BY <1>4, <2>1, TypeParts DEF Typed, TapWaiting, TapsTyped
  <2> QED
    BY <1>4, <2>2, TypeParts
    DEF Typed, TapWaiting, TablesTyped, ScreensTyped, ReadingTyped
<1>5. CASE SaveShelf(s, o)
  BY <1>5, TypeParts
  DEF Typed, SaveShelf, TablesTyped, ScreensTyped, ReadingTyped, TapsTyped
<1>6. CASE Note(s, o)
  BY <1>6, TypeParts, BoardAssumption
  DEF Typed, Note, Append, Ask, TablesTyped, ScreensTyped, ReadingTyped, TapsTyped
<1> QED
  BY <1>0, <1>1, <1>2, <1>3, <1>4, <1>5, <1>6

\* What the server does with a tap keeps the types.
LEMMA ServerTyped ==
    ASSUME TypeOK, NEW s \in Screens, Server(s)
    PROVE  TypeOK'
<1> DEFINE o == tap[s].order
<1>t. /\ tap[s] \in Taps /\ tap \in [Screens -> Taps]
      /\ Typed
  BY TypeParts DEF Typed, TapsTyped
<1>n. NoTap \in Taps
  BY DEF Taps
<1>1. CASE Look(s)
  <2>1. tap[s] \in Moves
    BY <1>1, <1>t, TapKinds DEF Look
  <2>2. status[o] \in Status \cup {NoStatus}
    BY <2>1, TypeParts DEF Typed, TablesTyped, Moves
  <2> DEFINE t == [tap[s] EXCEPT !.op = "seen", !.from = status[o]]
  <2>3. t \in Moves
    BY <2>1, <2>2 DEF Moves
  <2>4. tap' = [tap EXCEPT ![s] = t]
    BY <1>1, <1>t DEF Look
  <2> HIDE DEF t
  <2>5. TapsTyped'
    BY <1>t, <2>3, <2>4 DEF TapsTyped, Taps
  <2> QED
    BY <1>1, <1>t, <2>5, TypeParts DEF Typed, Look, TablesTyped, ScreensTyped, ReadingTyped
<1>2. CASE Refuse(s) \/ Conflict(s)
  <2>1. TapsTyped'
    BY <1>2, <1>t, <1>n DEF Refuse, Conflict, TapsTyped
  <2> QED
    BY <1>2, <1>t, <2>1, TypeParts
    DEF Typed, Refuse, Conflict, TablesTyped, ScreensTyped, ReadingTyped
<1>3. CASE Commit(s)
  <2>1. o \in Orders /\ tap[s] \in Moves
    BY <1>3, <1>t, TapKinds DEF Commit
  <2> DEFINE undo == tap[s].kind \in {"advance", "abandon"}
  <2>u. undo \in BOOLEAN
    OBVIOUS
  <2>2. PICK into \in Status : Move(o, into, undo)
    BY <1>3 DEF Commit
  <2> HIDE DEF undo
  <2>3. TablesTyped'
    BY <1>t, <2>u, <2>1, <2>2, MoveTyped DEF Typed
  <2>4. \A x \in Screens : StaleMarks(o)[x] \in Taps
    <3> SUFFICES ASSUME NEW x \in Screens PROVE StaleMarks(o)[x] \in Taps
      OBVIOUS
    <3>1. tap[x] \in Taps
      BY <1>t
    <3>2. tap[x].op = "mark" => [tap[x] EXCEPT !.fresh = FALSE] \in Marks
      BY <3>1, TapKinds DEF Marks
    <3> QED
      BY <3>1, <3>2 DEF StaleMarks, Taps
  <2>5. StaleMarks(o) \in [Screens -> Taps]
    BY <2>4 DEF StaleMarks
  <2> DEFINE t == IF tap[s].shelf THEN [op |-> "shelve", order |-> o] ELSE NoTap
  <2>6. t \in Taps
    BY <2>1 DEF Taps
  <2>7. tap' = [StaleMarks(o) EXCEPT ![s] = t]
    BY <1>3 DEF Commit
  <2> HIDE DEF t, o
  <2>8. TapsTyped'
    BY <2>5, <2>6, <2>7 DEF TapsTyped
  <2>9. ScreensTyped' /\ ReadingTyped' /\ lost' \in 0..MaxLost
    BY <1>3, <1>t DEF Typed, Commit, Ask, ScreensTyped, ReadingTyped
  <2> QED
    BY <2>3, <2>8, <2>9, TypeParts DEF Typed
<1>4. CASE Shelve(s)
  <2>1. o \in Orders
    BY <1>4, <1>t, TapKinds DEF Shelve
  <2>2. TapsTyped'
    BY <1>4, <1>t, <1>n DEF Shelve, TapsTyped
  <2> QED
    BY <1>4, <1>t, <2>1, <2>2, TypeParts
    DEF Typed, Shelve, TablesTyped, ScreensTyped, ReadingTyped
<1>5. CASE LookReady(s)
  <2>1. tap[s] \in Marks
    BY <1>5, <1>t, TapKinds DEF LookReady
  <2>2. [tap[s] EXCEPT !.ready = TRUE] \in Taps
    BY <2>1 DEF Marks, Taps
  <2>3. TapsTyped'
    BY <1>5, <1>t, <1>n, <2>2 DEF LookReady, TapsTyped
  <2> QED
    BY <1>5, <1>t, <2>3, TypeParts
    DEF Typed, LookReady, TablesTyped, ScreensTyped, ReadingTyped
<1>6. CASE Mark(s)
  <2>1. o \in Orders
    BY <1>6, <1>t, TapKinds DEF Mark
  <2>2. TapsTyped'
    BY <1>6, <1>t, <1>n DEF Mark, TapsTyped
  <2> QED
    BY <1>6, <1>t, <2>1, <2>2, TypeParts, BoardAssumption
    DEF Typed, Mark, Append, TablesTyped, ScreensTyped, ReadingTyped
<1> QED
  BY <1>1, <1>2, <1>3, <1>4, <1>5, <1>6 DEF Server

\* Polling and drawing keep the types.
LEMMA BrowserTyped ==
    ASSUME TypeOK, NEW s \in Screens, Browser(s)
    PROVE  TypeOK'
<1>t. /\ Typed /\ reading[s] \in Half /\ reading \in [Screens -> Half]
      /\ polls[s] \subseteq Answers /\ polls \in [Screens -> SUBSET Answers]
  BY TypeParts DEF Typed, ReadingTyped, ScreensTyped
<1>b. Blank \in Half
  BY BlankTyped
<1>f. ASSUME ScreensTyped', ReadingTyped', UNCHANGED tableVars,
             tap' = tap \/ tap' = [tap EXCEPT ![s] = NoTap],
             lost' \in 0..MaxLost
      PROVE  TypeOK'
  <2>1. TapsTyped'
    BY <1>f, <1>t DEF Typed, TapsTyped, Taps
  <2> QED
    BY <1>f, <1>t, <2>1, TypeParts DEF Typed, TablesTyped
<1>1. CASE Poll(s)
  <2>1. [tip |-> tip, changed |-> seen[s] # tip] \in Answers
    BY <1>t DEF Typed, TablesTyped, Answers
  <2>2. polls' \in [Screens -> SUBSET Answers]
    BY <1>1, <1>t, <2>1 DEF Poll
  <2> QED
    BY <1>1, <1>t, <1>f, <2>2 DEF Typed, Poll, ScreensTyped, ReadingTyped
<1>2. CASE Hear(s)
  <2>1. PICK answer \in polls[s] :
          /\ polls' = [polls EXCEPT ![s] = @ \ {answer}]
          /\ seen' = [seen EXCEPT ![s] = answer.tip]
          /\ \/ ticks' = [ticks EXCEPT ![s] = 0]
             \/ ticks' = [ticks EXCEPT ![s] = IF @ < TicksPerIdleRefresh THEN @ + 1 ELSE @]
          /\ want' \in {want, want \cup {s}}
    BY <1>2 DEF Hear
  <2>2. answer.tip \in 0..MaxEvents
    BY <1>t, <2>1 DEF Answers
  <2>3. polls' \in [Screens -> SUBSET Answers] /\ seen' \in [Screens -> 0..MaxEvents]
    BY <1>t, <2>1, <2>2 DEF Typed, ScreensTyped
  <2>4. ticks' \in [Screens -> 0..TicksPerIdleRefresh]
    BY <1>t, <2>1, BoardAssumption DEF Typed, ScreensTyped
  <2> QED
    BY <1>2, <1>t, <1>f, <2>1, <2>3, <2>4 DEF Typed, Hear, ScreensTyped, ReadingTyped
<1>3. CASE StartRender(s) \/ FinishRender(s)
  <2>1. \E r \in {Blank, reading[s]} : reading' = [reading EXCEPT ![s] = NextRead(s, r)]
    BY <1>3, <1>t DEF StartRender, FinishRender
  <2>2. ReadingTyped'
    BY <1>t, <1>b, <2>1, NextReadTyped DEF ReadingTyped
  <2> QED
    BY <1>3, <1>t, <1>f, <2>2
    DEF Typed, StartRender, FinishRender, ScreensTyped
<1>4. CASE Draw(s)
  <2>1. reading[s].cursor \in 0..MaxEvents /\ reading[s].cards \in [Orders -> Cards]
    BY <1>4, <1>t, BoardAssumption DEF Draw, Read, Half, NoCursor
  <2>2. /\ shown' \in [Screens -> [Orders -> Cards]]
        /\ cursor' \in [Screens -> 0..MaxEvents]
    BY <1>4, <1>t, <2>1 DEF Draw, Typed, ScreensTyped
  <2>3. /\ seen' \in [Screens -> 0..MaxEvents]
        /\ ticks' \in [Screens -> 0..TicksPerIdleRefresh]
        /\ polls' \in [Screens -> SUBSET Answers]
    <3>1. CASE UNCHANGED <<seen, ticks, polls>>
      BY <1>t, <3>1 DEF Typed, ScreensTyped
    <3>2. CASE /\ seen' = [seen EXCEPT ![s] = reading[s].cursor]
               /\ ticks' = [ticks EXCEPT ![s] = 0]
               /\ polls' = [polls EXCEPT ![s] = {}]
      BY <1>t, <2>1, <3>2, BoardAssumption DEF Typed, ScreensTyped
    <3> QED
      BY <1>4, <3>1, <3>2 DEF Draw
  <2>4. ReadingTyped'
    BY <1>4, <1>t, <1>b DEF Draw, ReadingTyped
  <2> QED
    BY <1>4, <1>t, <1>f, <2>2, <2>3, <2>4 DEF Draw, Typed, ScreensTyped
<1>5. CASE Reload(s) \/ Cover(s)
  BY <1>5, <1>t, <1>f DEF Reload, Cover, Typed, ScreensTyped, ReadingTyped
<1>6. CASE Open(s)
  <2>1. View(s) \in [Orders -> Cards]
    BY <1>t, ViewTyped DEF Typed
  <2> QED
    BY <1>6, <1>t, <1>f, <2>1 DEF Open, Typed, ScreensTyped, ReadingTyped
<1>7. CASE Lose(s)
  <2>1. ReadingTyped'
    BY <1>7, <1>t, <1>b DEF Lose, ReadingTyped
  <2>2. polls' \in [Screens -> SUBSET Answers]
    BY <1>7, <1>t DEF Lose
  <2>3. ScreensTyped'
    BY <1>7, <1>t, <2>2 DEF Lose, Typed, ScreensTyped
  <2>4. lost' \in 0..MaxLost
    BY <1>7, <1>t, BoardAssumption DEF Lose, Typed
  <2>5. tap' = tap \/ tap' = [tap EXCEPT ![s] = NoTap]
    BY <1>7 DEF Lose
  <2> QED
    BY <1>7, <1>f, <2>1, <2>3, <2>4, <2>5 DEF Lose
<1> QED
  BY <1>1, <1>2, <1>3, <1>4, <1>5, <1>6, <1>7 DEF Browser

\* Every step keeps the types.
LEMMA TypeStep == TypeOK /\ [Next]_vars => TypeOK'
<1> SUFFICES ASSUME TypeOK, [Next]_vars PROVE TypeOK'
  OBVIOUS
<1>1. CASE \E s \in Screens : Person(s) \/ Server(s) \/ Browser(s)
  BY <1>1, PersonTyped, ServerTyped, BrowserTyped
<1>2. CASE \E o \in Orders : Place(o) \/ UndoCloses(o)
  BY <1>2, TableTyped, TypeParts, BoardAssumption
  DEF Place, UndoCloses, Append, Typed, TablesTyped, ScreensTyped,
      ReadingTyped, TapsTyped
<1>3. CASE UNCHANGED vars
  BY <1>3 DEF vars, TypeOK
<1> QED
  BY <1>1, <1>2, <1>3 DEF Next

\* Every reachable state of the screens and their orders is well typed.
THEOREM ScreensTypeCorrect == Spec => []TypeOK
BY TypeInit, TypeStep, PTL DEF Spec

-----------------------------------------------------------------------------
\* What one step can do to an order, to a tap, to what a screen shows and to a
\* drawing under way.

\* Only a new order and a committed tap change a status, and nothing a screen
\* shows changes without an event.
LEMMA OrderFate ==
    ASSUME TypeOK, [Next]_vars
    PROVE  /\ \/ UNCHANGED <<status, texts>>
              \/ \E o \in Orders : Place(o)
              \/ \E s \in Screens : Commit(s)
           /\ UNCHANGED <<status, waiting, tip>> \/ tip' = tip + 1
<1>1. CASE \E s \in Screens : Person(s)
  BY <1>1 DEF Person, TapAdvance, TapRevert, TapClose, TapWaiting, Send, SaveShelf,
              Note, Append
<1>2. CASE \E s \in Screens : Server(s)
  BY <1>2 DEF Server, Look, Refuse, Conflict, Shelve, LookReady, Mark, Append,
              Commit, Move
<1>3. CASE \E s \in Screens : Browser(s)
  BY <1>3 DEF Browser, Poll, Hear, StartRender, FinishRender, Draw, Reload, Open,
              Cover, Lose
<1>4. CASE \E o \in Orders : Place(o) \/ UndoCloses(o)
  BY <1>4 DEF Place, UndoCloses, Append
<1>5. CASE UNCHANGED vars
  BY <1>5 DEF vars
<1> QED
  BY <1>1, <1>2, <1>3, <1>4, <1>5 DEF Next

\* A request to move an order is sent, is looked at, and is otherwise left as
\* it is until it is over.
LEMMA TapFate ==
    ASSUME TypeOK, [Next]_vars, NEW x \in Screens
    PROVE  \/ tap'[x] = tap[x]
           \/ tap'[x].op \notin {"sent", "seen"}
           \/ \E o \in Orders : TapAdvance(x, o) \/ TapRevert(x, o) \/ TapClose(x, o)
           \/ Look(x)
<1>t. tap \in [Screens -> Taps]
  BY DEF TypeOK
<1>n. NoTap.op \notin {"sent", "seen"}
  BY DEF NoTap
<1>1. CASE \E s \in Screens : Person(s)
  <2>1. PICK s \in Screens, o \in Orders :
          \/ TapAdvance(s, o) \/ TapRevert(s, o) \/ TapClose(s, o)
          \/ TapWaiting(s, o) \/ SaveShelf(s, o) \/ Note(s, o)
    BY <1>1 DEF Person
  <2>2. CASE TapWaiting(s, o)
    BY <1>t, <2>2 DEF TapWaiting
  <2>3. CASE SaveShelf(s, o) \/ Note(s, o)
    BY <2>3 DEF SaveShelf, Note
  <2>4. CASE TapAdvance(s, o) \/ TapRevert(s, o) \/ TapClose(s, o)
    <3>1. \A y \in Screens \ {s} : tap'[y] = tap[y]
      BY <1>t, <2>4 DEF TapAdvance, TapRevert, TapClose, Send
    <3> QED
      BY <2>4, <3>1
  <2> QED
    BY <2>1, <2>2, <2>3, <2>4
<1>2. CASE \E s \in Screens : Server(s)
  <2>1. PICK s \in Screens : Server(s)
    BY <1>2
  <2>2. CASE Look(s)
    <3>1. \A y \in Screens \ {s} : tap'[y] = tap[y]
      BY <1>t, <2>2 DEF Look
    <3> QED
      BY <2>2, <3>1
  <2>3. CASE Refuse(s) \/ Conflict(s) \/ Shelve(s) \/ Mark(s)
    BY <1>t, <1>n, <2>3 DEF Refuse, Conflict, Shelve, Mark
  <2>4. CASE LookReady(s)
    <3>1. tap[s] \in Marks
      BY <1>t, <2>4, TapKinds DEF LookReady
    <3>2. [tap[s] EXCEPT !.ready = TRUE].op = "mark"
      BY <3>1 DEF Marks
    <3> QED
      BY <1>t, <1>n, <2>4, <3>2 DEF LookReady
  <2>5. CASE Commit(s)
    <3>1. PICK stale \in [Screens -> Taps] :
            /\ \A y \in Screens :
                  stale[y] = tap[y] \/ stale[y].op = "mark"
            /\ \E t : /\ t.op \notin {"sent", "seen"}
                      /\ tap' = [stale EXCEPT ![s] = t]
      <4> DEFINE stale == StaleMarks(tap[s].order)
                 t == IF tap[s].shelf THEN [op |-> "shelve", order |-> tap[s].order]
                                      ELSE NoTap
      <4>1. \A y \in Screens : stale[y] \in Taps
                                /\ (stale[y] = tap[y] \/ stale[y].op = "mark")
        <5> SUFFICES ASSUME NEW y \in Screens
                     PROVE  stale[y] \in Taps
                            /\ (stale[y] = tap[y] \/ stale[y].op = "mark")
          OBVIOUS
        <5>1. tap[y] \in Taps
          BY <1>t
        <5>2. tap[y].op = "mark" => /\ [tap[y] EXCEPT !.fresh = FALSE] \in Marks
                                    /\ [tap[y] EXCEPT !.fresh = FALSE].op = "mark"
          BY <5>1, TapKinds DEF Marks
        <5> QED
          BY <5>1, <5>2 DEF StaleMarks, Taps
      <4>2. stale \in [Screens -> Taps]
        BY <4>1 DEF StaleMarks
      <4>3. t.op \notin {"sent", "seen"}
        BY <1>n
      <4>4. tap' = [stale EXCEPT ![s] = t]
        BY <2>5 DEF Commit
      <4> HIDE DEF stale, t
      <4> QED
        BY <4>1, <4>2, <4>3, <4>4
    <3> QED
      BY <3>1
  <2> QED
    BY <2>1, <2>2, <2>3, <2>4, <2>5 DEF Server
<1>3. CASE \E s \in Screens : Browser(s)
  <2>1. PICK s \in Screens : Browser(s)
    BY <1>3
  <2>2. tap' = tap \/ tap' = [tap EXCEPT ![s] = NoTap]
    BY <2>1 DEF Browser, Poll, Hear, StartRender, FinishRender, Draw, Reload, Open,
                Cover, Lose
  <2> QED
    BY <1>t, <1>n, <2>2
<1>4. CASE \E o \in Orders : Place(o) \/ UndoCloses(o)
  BY <1>4 DEF Place, UndoCloses
<1>5. CASE UNCHANGED vars
  BY <1>5 DEF vars
<1> QED
  BY <1>1, <1>2, <1>3, <1>4, <1>5 DEF Next

\* What a screen shows changes when a drawing arrives or a receipt is opened,
\* and a drawing under way when it is lost, shown or read on.
LEMMA ScreenFate ==
    ASSUME TypeOK, [Next]_vars, NEW x \in Screens
    PROVE  /\ \/ shown'[x] = shown[x] /\ cursor'[x] = cursor[x]
              \/ Open(x) \/ Draw(x)
           /\ \/ reading'[x] = reading[x]
              \/ reading'[x] = Blank
              \/ /\ UNCHANGED <<status, waiting, tip>>
                 /\ \E r \in {Blank, reading[x]} : reading'[x] = NextRead(x, r)
<1>t. /\ shown \in [Screens -> [Orders -> Cards]] /\ reading \in [Screens -> Half]
      /\ cursor \in [Screens -> 0..MaxEvents]
  BY DEF TypeOK, Half
<1>0. CASE UNCHANGED <<cursor, shown, reading>>
  BY <1>0
<1>1. CASE \E s \in Screens : Person(s)
  BY <1>0, <1>1 DEF Person, TapAdvance, TapRevert, TapClose, TapWaiting, Send,
                    SaveShelf, Note
<1>2. CASE \E s \in Screens : Server(s)
  BY <1>0, <1>2 DEF Server, Look, Refuse, Commit, Conflict, Shelve, LookReady, Mark
<1>3. CASE \E s \in Screens : Browser(s)
  <2>1. PICK s \in Screens : Browser(s)
    BY <1>3
  <2>2. CASE Poll(s) \/ Hear(s) \/ Reload(s) \/ Cover(s)
    BY <1>0, <2>2 DEF Poll, Hear, Reload, Cover
  <2>3. CASE StartRender(s) \/ FinishRender(s)
    <3>1. \E r \in {Blank, reading[s]} :
             reading' = [reading EXCEPT ![s] = NextRead(s, r)]
      BY <1>t, <2>3 DEF StartRender, FinishRender
    <3>2. UNCHANGED <<shown, cursor, status, waiting, tip>>
      BY <2>3 DEF StartRender, FinishRender
    <3> HIDE DEF NextRead
    <3> QED
      BY <1>t, <3>1, <3>2
  <2>4. CASE Draw(s)
    <3>1. /\ \E c : shown' = [shown EXCEPT ![s] = c]
          /\ \E c : cursor' = [cursor EXCEPT ![s] = c]
          /\ reading' = [reading EXCEPT ![s] = Blank]
      BY <2>4 DEF Draw
    <3> QED
      BY <1>t, <2>4, <3>1
  <2>5. CASE Open(s)
    <3>1. /\ \E c : shown' = [shown EXCEPT ![s] = c]
          /\ UNCHANGED <<cursor, reading>>
      BY <2>5 DEF Open
    <3> QED
      BY <1>t, <2>5, <3>1
  <2>6. CASE Lose(s)
    BY <1>t, <2>6 DEF Lose
  <2> QED
    BY <2>1, <2>2, <2>3, <2>4, <2>5, <2>6 DEF Browser
<1>4. CASE \E o \in Orders : Place(o) \/ UndoCloses(o)
  BY <1>0, <1>4 DEF Place, UndoCloses
<1>5. CASE UNCHANGED vars
  BY <1>0, <1>5 DEF vars
<1> QED
  BY <1>1, <1>2, <1>3, <1>4, <1>5 DEF Next

-----------------------------------------------------------------------------
\* What a screen and a request know of an order.

Live(o) == status[o] # NoStatus

\* Only an order that was placed has a card
KnownCards(cards) == \A o \in Orders : cards[o].status # NoStatus => Live(o)

\* A step forward is asked for by the card's status and the one after it, and
\* what the server read before it decides is that status
AskedAsDrawn(t) ==
    t.op \in {"sent", "seen"} =>
        /\ Live(t.order)
        /\ t.kind = "advance" => t.drawn \in QueueStatus /\ t.to = NextOf[t.drawn]
        /\ t.op = "seen" => /\ t.from \in Status
                            /\ t.kind = "advance" => t.from = t.drawn

KnownInv ==
    \A s \in Screens :
        /\ KnownCards(shown[s])
        /\ reading[s].cards # NoCards => KnownCards(reading[s].cards)
        /\ AskedAsDrawn(tap[s])

\* A screen drawn now knows only orders there are.
LEMMA ViewKnown ==
    ASSUME TypeOK, NEW s \in Screens
    PROVE  KnownCards(View(s))
<1> SUFFICES ASSUME NEW o \in Orders, View(s)[o].status # NoStatus PROVE Live(o)
  BY DEF KnownCards
<1>1. CASE s \in Boards
  <2>1. BoardCard(o) # NoCard
    BY <1>1 DEF View, NoCard
  <2> QED
    BY <2>1, TableTyped DEF BoardCard, SectionOf, Live, QueueStatus
<1>2. CASE s \notin Boards
  <2>1. OwnCard(s, o).status # NoStatus
    BY <1>2 DEF View
  <2> QED
    BY <2>1 DEF OwnCard, NoCard, Live
<1> QED
  BY <1>1, <1>2

\* A committed tap moves one order, from the status the server had read to one
\* the table allows.
LEMMA CommitMoves ==
    ASSUME TypeOK, KnownInv, NEW s \in Screens, Commit(s)
    PROVE  \E o \in Orders, into \in Status :
              /\ o = tap[s].order
              /\ status' = [status EXCEPT ![o] = into]
              /\ status[o] = tap[s].from /\ status[o] \in Status
              /\ tap[s].kind \in Kinds /\ tap[s].op = "seen"
              /\ Permits(tap[s].kind, "staff", status[o], into)
              /\ IF into = "ready" THEN QueueReadyText(o) ELSE UNCHANGED texts
<1>1. tap[s] \in Moves
  BY TapKinds DEF Commit, TypeOK
<1>2. tap[s].from \in Status
  BY DEF KnownInv, AskedAsDrawn, Commit
<1> QED
  BY <1>1, <1>2 DEF Commit, Into, Move, Moves

\* An order that was placed stays placed.
LEMMA StaysLive ==
    ASSUME TypeOK, KnownInv, [Next]_vars
    PROVE  \A o \in Orders : Live(o) => Live(o)'
<1>1. CASE UNCHANGED status
  BY <1>1 DEF Live
<1>2. CASE \E o \in Orders : Place(o)
  BY <1>2, TableTyped DEF Place, Live, TypeOK
<1>3. CASE \E s \in Screens : Commit(s)
  BY <1>3, CommitMoves, TableTyped DEF Live, TypeOK
<1> QED
  BY <1>1, <1>2, <1>3, OrderFate

\* What a request asks for is what its card showed.
LEMMA SentAsDrawn ==
    ASSUME TypeOK, KnownInv, NEW s \in Screens, NEW o \in Orders,
           TapAdvance(s, o) \/ TapRevert(s, o) \/ TapClose(s, o)
    PROVE  AskedAsDrawn(tap'[s]) /\ UNCHANGED status
<1>. DEFINE Asks(kind, to, withShelf) ==
                /\ Send(s, o, kind, to, withShelf) /\ shown[s][o].status \in Status
                /\ kind = "advance" => /\ shown[s][o].status \in QueueStatus
                                       /\ to = NextOf[shown[s][o].status]
<1>0. PICK kind \in Kinds : \E to, withShelf : Asks(kind, to, withShelf)
  BY TableTyped DEF TapAdvance, TapRevert, TapClose, Shows, Kinds
<1>1. PICK to, withShelf : Asks(kind, to, withShelf)  BY <1>0
<1>2. /\ tap'[s] = [op |-> "sent", order |-> o, kind |-> kind, to |-> to,
                    drawn |-> shown[s][o].status, from |-> NoStatus,
                    shelf |-> withShelf]
      /\ UNCHANGED status
  BY <1>1 DEF Send, TypeOK
<1>3. Live(o)
  BY <1>1, TableTyped DEF KnownInv, KnownCards
<1> QED
  BY <1>1, <1>2, <1>3 DEF AskedAsDrawn

\* The server goes on only with a step forward from the status it was drawn
\* with: no other status leads where the tap said.
LEMMA SeenAsDrawn ==
    ASSUME TypeOK, KnownInv, NEW s \in Screens, Look(s)
    PROVE  AskedAsDrawn(tap'[s]) /\ UNCHANGED status
<1> DEFINE t == tap[s]
           from == status[t.order]
<1>1. t \in Moves
  BY TapKinds DEF Look, TypeOK
<1>2. tap'[s] = [t EXCEPT !.op = "seen", !.from = from]
  BY DEF Look, TypeOK
<1>3. from \in Status
  BY <1>1 DEF KnownInv, AskedAsDrawn, Live, Look, TypeOK, Moves
<1>4. ASSUME t.kind = "advance" PROVE from = t.drawn
  <2>1. t.drawn \in QueueStatus /\ t.to = NextOf[t.drawn]
    BY <1>4 DEF KnownInv, AskedAsDrawn, Look
  <2>2. t.to # NoStatus
    BY <2>1, QueueHasNext
  <2>3. \E to \in Status : Permits("advance", "staff", from, to) /\ t.to = to
    BY <1>4, <2>2 DEF Look, Decides
  <2>4. from \in QueueStatus /\ NextOf[from] = t.to
    BY <1>3, <2>3, StaffMoves DEF Kinds
  <2> QED
    BY <2>1, <2>4, NextIsOneToOne
<1>5. /\ tap'[s].op = "seen" /\ tap'[s].from = from
      /\ tap'[s].order = t.order /\ tap'[s].kind = t.kind
      /\ tap'[s].drawn = t.drawn /\ tap'[s].to = t.to
  BY <1>1, <1>2 DEF Moves
<1>6. AskedAsDrawn(t) /\ t.op = "sent"
  BY DEF KnownInv, Look
<1> QED
  BY <1>3, <1>4, <1>5, <1>6 DEF AskedAsDrawn, Look

\* Every step keeps what screens and requests know.
LEMMA KnownStep == TypeOK /\ KnownInv /\ [Next]_vars => KnownInv'
<1> SUFFICES ASSUME TypeOK, KnownInv, [Next]_vars, NEW s \in Screens
             PROVE  /\ KnownCards(shown[s])'
                    /\ (reading[s].cards # NoCards => KnownCards(reading[s].cards))'
                    /\ AskedAsDrawn(tap[s])'
  BY DEF KnownInv
<1>l. \A o \in Orders : Live(o) => Live(o)'
  BY StaysLive
<1>k. \A cards : KnownCards(cards) =>
         \A o \in Orders : cards[o].status # NoStatus => Live(o)'
  BY <1>l DEF KnownCards
<1>1. KnownCards(shown[s])'
  <2>1. KnownCards(shown'[s])
    <3>1. CASE shown'[s] = shown[s]
      BY <3>1 DEF KnownInv
    <3>2. CASE Open(s)
      BY <3>2, ViewKnown DEF Open, TypeOK
    <3>3. CASE Draw(s)
      BY <3>3 DEF Draw, Read, KnownInv, TypeOK
    <3> QED
      BY <3>1, <3>2, <3>3, ScreenFate
  <2> QED
    BY <1>k, <2>1 DEF KnownCards
<1>2. (reading[s].cards # NoCards => KnownCards(reading[s].cards))'
  <2>1. reading'[s].cards # NoCards => KnownCards(reading'[s].cards)
    <3>1. CASE reading'[s] = reading[s]
      BY <3>1 DEF KnownInv
    <3>2. CASE reading'[s] = Blank
      BY <3>2 DEF Blank
    <3>3. CASE \E r \in {Blank, reading[s]} : reading'[s] = NextRead(s, r)
      <4>1. PICK r \in {Blank, reading[s]} : reading'[s] = NextRead(s, r)
        BY <3>3
      <4>2. r \in Half
        BY BlankTyped DEF TypeOK, Half
      <4>3. NextRead(s, r).cards \in {r.cards, View(s)}
        BY <4>2 DEF NextRead, Half
      <4>4. r.cards # NoCards => KnownCards(r.cards)
        BY DEF KnownInv, Blank
      <4> QED
        BY <4>1, <4>3, <4>4, ViewKnown
    <3> QED
      BY <3>1, <3>2, <3>3, ScreenFate
  <2> QED
    BY <1>k, <2>1 DEF KnownCards
<1>3. AskedAsDrawn(tap[s])'
  <2>1. CASE tap'[s] = tap[s]
    <3>1. tap[s].op \in {"sent", "seen"} => tap[s].order \in Orders
      BY TapKinds DEF TypeOK
    <3> QED
      BY <1>l, <2>1, <3>1 DEF KnownInv, AskedAsDrawn
  <2>2. CASE tap'[s].op \notin {"sent", "seen"}
    BY <2>2 DEF AskedAsDrawn
  <2>3. CASE \E o \in Orders : TapAdvance(s, o) \/ TapRevert(s, o) \/ TapClose(s, o)
    BY <2>3, SentAsDrawn DEF AskedAsDrawn, Live
  <2>4. CASE Look(s)
    BY <2>4, SeenAsDrawn DEF AskedAsDrawn, Live
  <2> QED
    BY <2>1, <2>2, <2>3, <2>4, TapFate
<1> QED
  BY <1>1, <1>2, <1>3

LEMMA KnownInit == Init => KnownInv
<1> SUFFICES ASSUME Init, NEW s \in Screens
             PROVE  /\ KnownCards(shown[s])
                    /\ reading[s].cards = NoCards
                    /\ AskedAsDrawn(tap[s])
  BY DEF KnownInv
<1>1. KnownCards(View(s))
  BY TypeInit, ViewKnown
<1> QED
  BY <1>1 DEF Init, Blank, NoTap, AskedAsDrawn

\* Whatever a screen shows, or a drawing or a tap carries, an order was once so
\* (page.tsx, queue-controls.tsx).
THEOREM KnownInvariant == Spec => []KnownInv
BY KnownInit, KnownStep, ScreensTypeCorrect, PTL DEF Spec

-----------------------------------------------------------------------------
\* Taps.

\* The status of an order is changed by one committed tap, which then forgets
\* what it asked; other taps that ask for a move stay as they are.
LEMMA OneTapMoves ==
    ASSUME TypeOK, KnownInv, [Next]_vars, NEW s \in Screens,
           tap[s].op = "seen", tap'[s] # tap[s],
           status'[tap[s].order] # status[tap[s].order]
    PROVE  Commit(s)
<1>1. PICK x \in Screens : Commit(x)
  <2>1. UNCHANGED status \/ tap' = tap \/ \E x \in Screens : Commit(x)
    BY OrderFate DEF Place
  <2> QED
    BY <2>1
<1>2. CASE x # s
  <2>1. tap'[s] = StaleMarks(tap[x].order)[s]
    BY <1>1, <1>2 DEF Commit, StaleMarks
  <2>2. StaleMarks(tap[x].order)[s] = tap[s]
    BY DEF StaleMarks
  <2> QED
    BY <2>1, <2>2
<1> QED
  BY <1>1, <1>2

\* However many people tap on stale cards, a step forward is the one the card
\* was drawn with, and one tap takes one step (applyTransition's
\* unexpected_target and the compare-and-set).
THEOREM StepsAsDrawn == Spec => MovesAsDrawn
<1>1. ASSUME TypeOK, KnownInv, [Next]_vars, NEW s \in Screens,
             tap[s].op = "seen", tap[s].kind = "advance", tap'[s] # tap[s],
             status'[tap[s].order] # status[tap[s].order]
      PROVE  /\ status[tap[s].order] = tap[s].drawn
             /\ status'[tap[s].order] = NextOf[tap[s].drawn]
  <2>1. Commit(s)
    BY <1>1, OneTapMoves
  <2>2. PICK o \in Orders, into \in Status :
          /\ o = tap[s].order
          /\ status' = [status EXCEPT ![o] = into]
          /\ status[o] = tap[s].from /\ status[o] \in Status
          /\ Permits("advance", "staff", status[o], into)
    BY <1>1, <2>1, CommitMoves
  <2>3. into = NextOf[status[o]]
    BY <2>2, StaffMoves DEF Kinds
  <2>4. status[o] = tap[s].drawn
    BY <1>1, <2>2 DEF KnownInv, AskedAsDrawn
  <2>5. status'[o] = into
    BY <1>1, <2>2 DEF TypeOK
  <2> QED
    BY <2>2, <2>3, <2>4, <2>5
<1>2. TypeOK /\ KnownInv /\ [Next]_vars =>
        [\A s \in Screens :
            /\ tap[s].op = "seen" /\ tap[s].kind = "advance"
            /\ status'[tap[s].order] # status[tap[s].order] /\ tap'[s] # tap[s]
            => /\ status[tap[s].order] = tap[s].drawn
               /\ status'[tap[s].order] = NextOf[tap[s].drawn]]_vars
  BY <1>1
<1> QED
  BY <1>2, ScreensTypeCorrect, KnownInvariant, PTL DEF Spec, MovesAsDrawn

-----------------------------------------------------------------------------
\* The text.

\* Every step keeps one text for each order, and one for each whose food was
\* ready: nothing comes to be ready, picked up or abandoned otherwise.
LEMMA TextStep == TypeOK /\ KnownInv /\ TextedOnce /\ [Next]_vars => TextedOnce'
<1> SUFFICES ASSUME TypeOK, KnownInv, TextedOnce, [Next]_vars PROVE TextedOnce'
  OBVIOUS
<1>1. CASE UNCHANGED <<status, texts>>
  BY <1>1 DEF TextedOnce
<1>2. CASE \E o \in Orders : Place(o)
  BY <1>2 DEF Place, TextedOnce, TypeOK, Served
<1>3. CASE \E s \in Screens : Commit(s)
  <2>1. PICK s \in Screens, o \in Orders, into \in Status :
          /\ status' = [status EXCEPT ![o] = into]
          /\ status[o] \in Status /\ tap[s].kind \in Kinds
          /\ Permits(tap[s].kind, "staff", status[o], into)
          /\ IF into = "ready" THEN QueueReadyText(o) ELSE UNCHANGED texts
    BY <1>3, CommitMoves
  <2>2. into \in Served => into = "ready" \/ status[o] \in Served
    BY <2>1, StaffMoves
  <2>3. /\ status'[o] = into
        /\ \A x \in Orders \ {o} : status'[x] = status[x] /\ texts'[x] = texts[x]
    BY <2>1 DEF TypeOK, QueueReadyText
  <2>4. texts'[o] <= 1 /\ (o \in Reachable /\ into \in Served => texts'[o] = 1)
    <3>1. texts[o] \in Nat /\ texts[o] <= 1
      BY DEF TypeOK, TextedOnce
    <3>2. CASE into = "ready"
      <4>1. texts'[o] = IF o \in Reachable /\ texts[o] = 0 THEN 1 ELSE texts[o]
        BY <2>1, <3>2 DEF TypeOK, QueueReadyText
      <4> QED
        BY <3>1, <4>1
    <3>3. CASE into # "ready"
      BY <2>1, <2>2, <3>1, <3>3 DEF TextedOnce
    <3> QED
      BY <3>2, <3>3
  <2> QED
    BY <2>3, <2>4 DEF TextedOnce
<1> QED
  BY <1>1, <1>2, <1>3, OrderFate

\* A customer is texted once, however often the order is moved back and made
\* ready again, and no order is ready, or was, without the text.
THEOREM OneTextEach == Spec => []TextedOnce
<1>1. Init => TextedOnce
  BY DEF Init, TextedOnce
<1> QED
  BY <1>1, TextStep, ScreensTypeCorrect, KnownInvariant, PTL DEF Spec

-----------------------------------------------------------------------------
\* Cursors.

\* Cards that show the orders a screen is about as they are now
Faithful(s, cards) ==
    \A o \in Orders : s \in Boards \/ o = Of[s] =>
        /\ status[o] \in QueueStatus => cards[o].status = status[o]
        /\ cards[o].status \in {status[o], NoStatus}
        /\ s \in Boards /\ status[o] = "ready" => (cards[o].waiting <=> o \in waiting)

\* A drawing under way has its cursor before its cards, and its cards are not
\* older than its cursor
ReadInOrder(s, r) ==
    /\ r.cursor = NoCursor => r.cards = NoCards
    /\ r.cursor # NoCursor => r.cursor <= tip
    /\ r.cards # NoCards /\ r.cursor = tip => Faithful(s, r.cards)

CursorInv ==
    \A s \in Boards \cup Pages :
        /\ cursor[s] <= tip
        /\ cursor[s] = tip => Faithful(s, shown[s])
        /\ ReadInOrder(s, reading[s])

\* A card's mark is the one it was made with.
LEMMA CardWaiting ==
    \A st : \A mark, onShelf \in BOOLEAN :
        [status |-> st, waiting |-> mark, shelf |-> onShelf].waiting = mark
OBVIOUS

\* What is drawn now is as things are now.
LEMMA ViewFaithful ==
    ASSUME TypeOK, NEW s \in Boards \cup Pages
    PROVE  Faithful(s, View(s))
<1> SUFFICES ASSUME NEW o \in Orders, s \in Boards \/ o = Of[s]
             PROVE  LET c == View(s)[o] IN
                    /\ status[o] \in QueueStatus => c.status = status[o]
                    /\ c.status \in {status[o], NoStatus}
                    /\ s \in Boards /\ status[o] = "ready" =>
                          (c.waiting <=> o \in waiting)
  BY DEF Faithful
<1>1. CASE s \in Boards
  <2>1. View(s)[o] = BoardCard(o)
    BY <1>1 DEF View
  <2>2. CASE status[o] \in QueueStatus
    <3>1. SectionOf(o) # NoStatus
      BY <2>2, TableTyped DEF SectionOf, QueueStatus, Terminal
    <3>2. BoardCard(o) = [status |-> status[o], waiting |-> o \in waiting,
                          shelf |-> o \in shelf /\ status[o] = "ready"]
      BY <3>1 DEF BoardCard
    <3>3. BoardCard(o).status = status[o]
      BY <3>2
    <3>4. BoardCard(o).waiting = (o \in waiting)
      <4>1. (o \in waiting) \in BOOLEAN /\ (o \in shelf /\ status[o] = "ready") \in BOOLEAN
        OBVIOUS
      <4> QED
        BY <3>2, <4>1, CardWaiting, Zenon
    <3> QED
      BY <2>1, <3>3, <3>4, Zenon
  <2>3. CASE status[o] \notin QueueStatus
    <3>1. status[o] # "ready"
      BY <2>3 DEF QueueStatus, Status, Terminal
    <3>2. BoardCard(o).status \in {status[o], NoStatus}
      BY DEF BoardCard, NoCard
    <3> QED
      BY <2>1, <2>3, <3>1, <3>2
  <2> QED
    BY <2>2, <2>3
<1>2. CASE s \notin Boards /\ o = Of[s]
  BY <1>2 DEF View, OwnCard, NoCard
<1> QED
  BY <1>1, <1>2

\* Reading on, from an empty drawing or one whose cursor was read, keeps the
\* order of the two reads.
LEMMA ReadOn ==
    ASSUME TypeOK, NEW s \in Boards \cup Pages, NEW r \in Half, ReadInOrder(s, r)
    PROVE  ReadInOrder(s, NextRead(s, r))
<1>1. tip \in Nat /\ tip # NoCursor
  BY BoardAssumption DEF TypeOK, NoCursor
<1>2. CASE r = Blank
  <2>1. NextRead(s, r) = [cursor |-> tip, cards |-> NoCards]
    BY <1>2 DEF NextRead, Blank
  <2> QED
    BY <1>1, <2>1 DEF ReadInOrder
<1>3. CASE r # Blank
  <2>1. r.cursor # NoCursor
    BY <1>3 DEF ReadInOrder, Half, Blank
  <2>2. /\ NextRead(s, r).cursor = r.cursor
        /\ NextRead(s, r).cards = View(s)
    BY <1>3 DEF NextRead, Half
  <2>3. r.cursor <= tip /\ Faithful(s, View(s))
    BY <2>1, ViewFaithful DEF ReadInOrder
  <2> HIDE DEF NextRead, View, Faithful
  <2> QED
    BY <2>1, <2>2, <2>3 DEF ReadInOrder
<1> QED
  BY <1>2, <1>3

\* Every step keeps cursors honest: what changes an order's card moves the tip.
LEMMA CursorStep == TypeOK /\ CursorInv /\ [Next]_vars => CursorInv'
<1> SUFFICES ASSUME TypeOK, CursorInv, [Next]_vars, NEW s \in Boards \cup Pages
             PROVE  /\ cursor'[s] <= tip'
                    /\ cursor'[s] = tip' => Faithful(s, shown[s])'
                    /\ ReadInOrder(s, reading[s])'
  BY DEF CursorInv
<1>t. /\ s \in Screens /\ tip \in Nat /\ cursor[s] \in Nat
      /\ reading[s] \in Half /\ Blank \in Half
      /\ reading[s].cursor \in Nat
  BY BoardAssumption, BlankTyped DEF TypeOK, Half, Screens, NoCursor
<1>i. /\ cursor[s] <= tip /\ (cursor[s] = tip => Faithful(s, shown[s]))
      /\ ReadInOrder(s, reading[s]) /\ ReadInOrder(s, Blank)
  BY DEF CursorInv, ReadInOrder, Blank
<1>f. UNCHANGED <<status, waiting, tip>> =>
         \A cards, c \in Nat :
            (c = tip => Faithful(s, cards)) =>
               (c = tip' => \A o \in Orders : s \in Boards \/ o = Of[s] =>
                    /\ status'[o] \in QueueStatus => cards[o].status = status'[o]
                    /\ cards[o].status \in {status'[o], NoStatus}
                    /\ s \in Boards /\ status'[o] = "ready" =>
                          (cards[o].waiting <=> o \in waiting'))
  BY DEF Faithful
<1>1. CASE ~UNCHANGED <<status, waiting, tip>>
  <2>1. tip' = tip + 1
    BY <1>1, OrderFate
  <2>2. ~Open(s) /\ ~Draw(s)
    BY <1>1 DEF Open, Draw
  <2>3. cursor'[s] = cursor[s] /\ reading'[s] \in {reading[s], Blank}
    BY <1>1, <1>t, <2>2, ScreenFate
  <2> QED
    <3>1. PICK r \in {reading[s], Blank} : reading'[s] = r
      BY <2>3
    <3>2. /\ r.cursor = NoCursor => r.cards = NoCards
          /\ r.cursor # NoCursor => r.cursor <= tip
          /\ r.cursor \in Nat
      BY <1>t, <1>i DEF ReadInOrder, Half
    <3>3. r.cards # NoCards => r.cursor # tip'
      BY <1>t, <2>1, <3>2
    <3>4. r.cursor # NoCursor => r.cursor <= tip'
      BY <1>t, <2>1, <3>2
    <3>5. ReadInOrder(s, reading[s])'
      BY <3>1, <3>2, <3>3, <3>4 DEF ReadInOrder
    <3>6. cursor'[s] <= tip' /\ cursor'[s] # tip'
      BY <1>t, <1>i, <2>1, <2>3
    <3> QED
      BY <3>5, <3>6
<1>2. CASE UNCHANGED <<status, waiting, tip>>
  <2>1. /\ cursor'[s] <= tip
        /\ cursor'[s] = tip => Faithful(s, shown'[s])
    <3>1. CASE shown'[s] = shown[s] /\ cursor'[s] = cursor[s]
      BY <1>i, <3>1
    <3>2. CASE Open(s)
      BY <3>2, BoardAssumption DEF Open
    <3>3. CASE Draw(s)
      <4>1. /\ Read(reading[s]) /\ shown'[s] = reading[s].cards
            /\ cursor'[s] = reading[s].cursor
        BY <1>t, <3>3 DEF Draw, TypeOK
      <4> QED
        BY <1>i, <4>1 DEF Read, ReadInOrder
    <3> QED
      BY <1>t, <3>1, <3>2, <3>3, ScreenFate
  <2>2. ReadInOrder(s, reading'[s])
    <3>1. CASE \E r \in {Blank, reading[s]} : reading'[s] = NextRead(s, r)
      BY <1>t, <1>i, <3>1, ReadOn
    <3> QED
      BY <1>t, <1>i, <3>1, ScreenFate
  <2>3. (cursor'[s] = tip' => Faithful(s, shown[s])')
    BY <1>2, <2>1 DEF Faithful
  <2>4. ReadInOrder(s, reading[s])'
    BY <1>2, <2>2 DEF ReadInOrder, Faithful
  <2> QED
    BY <1>2, <2>1, <2>3, <2>4
<1> QED
  BY <1>1, <1>2

LEMMA CursorInit == Init => CursorInv
<1> SUFFICES ASSUME Init, NEW s \in Boards \cup Pages
             PROVE  /\ cursor[s] = 0 /\ tip = 0
                    /\ Faithful(s, shown[s])
                    /\ ReadInOrder(s, reading[s])
  BY DEF CursorInv
<1>1. s \in Screens /\ Faithful(s, View(s))
  BY TypeInit, ViewFaithful DEF Screens
<1> QED
  BY <1>1 DEF Init, Blank, ReadInOrder

\* A board or page drawn with the cursor the log is still at shows every order
\* as it is, so a poll that answers "no change" hides none: the cursor is read
\* before the orders, and what changes a card adds an event.
THEOREM NothingHidden == Spec => []CurrentCursorShowsAll
<1>1. CursorInv => CurrentCursorShowsAll
  BY DEF CursorInv, Faithful, CurrentCursorShowsAll
<1> QED
  BY <1>1, CursorInit, CursorStep, ScreensTypeCorrect, PTL DEF Spec

-----------------------------------------------------------------------------
\* The lifecycle of every order on the board.

L(o) == INSTANCE Lifecycle WITH status <- status[o]

\* However many screens, stale cards and requests are about, each order comes in
\* as Lifecycle begins and then takes one permitted step of it at a time or
\* none: what the taps do to all the orders together (Decides and the
\* compare-and-set of applyOrderAction) is one Lifecycle for each.
EachOrderLives ==
    [][\A o \in Orders :
          /\ status[o] = NoStatus => UNCHANGED (status[o]) \/ L(o)!Init'
          /\ status[o] # NoStatus => [L(o)!Next]_(status[o])]_vars

\* An order comes in as placed, and from then on moves as staff may move it.
LEMMA OrdersStep ==
    ASSUME TypeOK, KnownInv, [Next]_vars, NEW o \in Orders
    PROVE  /\ status[o] = NoStatus => status'[o] = status[o] \/ status'[o] = "placed"
           /\ status[o] # NoStatus /\ status'[o] # status[o] =>
                 \E kind \in Kinds : /\ status'[o] \in Status
                                     /\ Permits(kind, "staff", status[o], status'[o])
<1>1. CASE UNCHANGED status
  BY <1>1
<1>2. CASE \E x \in Orders : Place(x)
  BY <1>2 DEF Place, TypeOK
<1>3. CASE \E s \in Screens : Commit(s)
  BY <1>3, CommitMoves, TableTyped DEF TypeOK
<1> QED
  BY <1>1, <1>2, <1>3, OrderFate

\* The screens implement Lifecycle once for each order (applyTransition and the
\* compare-and-set of applyOrderAction).
THEOREM EveryOrderFollowsLifecycle == Spec => EachOrderLives
<1>1. ASSUME TypeOK, KnownInv, [Next]_vars, NEW o \in Orders
      PROVE  /\ status[o] = NoStatus => UNCHANGED (status[o]) \/ L(o)!Init'
             /\ status[o] # NoStatus => [L(o)!Next]_(status[o])
  <2>1. (status[o])' = status'[o]
    OBVIOUS
  <2>2. status[o] = NoStatus => UNCHANGED (status[o]) \/ L(o)!Init'
    BY <1>1, <2>1, OrdersStep DEF L!Init
  <2>3. ASSUME status[o] # NoStatus, status'[o] # status[o]
        PROVE  L(o)!Next
    <3>1. PICK kind \in Kinds : status'[o] \in Status
                                /\ Permits(kind, "staff", status[o], status'[o])
      BY <1>1, <2>3, OrdersStep
    <3> QED
      BY <3>1, <2>1
         DEF L!Next, L!Move, Kinds, Permits, NextOf, PreviousOf, Status, NoStatus, Terminal,
             CancellableByStaff, CancellableByCustomer, Abandonable,
             L!Kinds, L!Actors, L!Permits, L!NextOf, L!PreviousOf, L!Status,
             L!NoStatus, L!Terminal, L!CancellableByStaff, L!CancellableByCustomer,
             L!Abandonable
  <2> QED
    BY <2>1, <2>2, <2>3
<1>2. TypeOK /\ KnownInv /\ [Next]_vars =>
        [\A o \in Orders :
            /\ status[o] = NoStatus => UNCHANGED (status[o]) \/ L(o)!Init'
            /\ status[o] # NoStatus => [L(o)!Next]_(status[o])]_vars
  BY <1>1
<1> QED
  BY <1>2, ScreensTypeCorrect, KnownInvariant, PTL DEF Spec, EachOrderLives
=============================================================================
