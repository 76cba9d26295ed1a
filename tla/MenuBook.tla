------------------------------ MODULE MenuBook ------------------------------
(***************************************************************************)
(* The menu while it is edited, sold out and ordered from.  One item with  *)
(* one modifier group of one option stands for the menu; managers type     *)
(* prices for now or for a day to come, cooks take rows off and put them   *)
(* back, and a customer's cart is priced when a line is added, when its    *)
(* prices are confirmed and again when it is placed.                       *)
(*                                                                         *)
(* Each statement of placement's reading, of a save and of a batch is a    *)
(* step; a page and a change of the cart cookie read the menu in one.      *)
(***************************************************************************)
EXTENDS Integers, Sequences, FiniteSets, SequencesExt

CONSTANTS
    None,
    Managers, Cooks,
    Moments,       \* the wall readings time passes through, in order
    Windows,       \* the serving windows a manager may add
    Amounts,       \* the prices, and the group's least picks
    FirstPrices,   \* the columns as the menu is first written
    Budgets        \* bound: how many left, batches and orders, tried in turn

Columns == {"item", "option", "extra", "group"}
Rows    == {"item", "option"}      \* rows with a price to stage and a tick to lose

ASSUME MomentsAssumption ==
    /\ Moments \in Seq([day : Nat, weekday : 0..6, minuteOfDay : 0..1439])
    /\ Moments # <<>>
    /\ \A i, j \in DOMAIN Moments : i <= j => Moments[i].day <= Moments[j].day
ASSUME WindowsAssumption ==
    Windows \subseteq [dayOfWeek : 0..6, startMinute : 0..1439, endMinute : 1..1440]
ASSUME AmountsAssumption == Amounts \subseteq Int /\ None \notin Int
ASSUME FirstPricesAssumption == FirstPrices \in [Columns -> Amounts]

Purses == [edits : Nat, kinds : SUBSET (Columns \union {"deletion", "window", "cleanUp"}),
           batches : Nat, orders : Nat,
           picks : SUBSET {"absent", "none", "regular", "extra"}]

\* A confirm panel, and the save sent from it
Saves == [step : {"panel", "target", "write", "delete", "create"}, id : Purses,
          column : Columns, cents : Int, day : Int \union {None},
          shown : Int, read : Int \union {None}, today : Int \union {None},
          saw : SUBSET Purses, attempt : Nat]

ASSUME BudgetsAssumption == Budgets \subseteq Purses
ASSUME NoneAssumption == None \notin Saves

VARIABLES
    now,          \* index of the moment
    live,         \* the price columns, and the group's min
    staged,       \* the prices queued, or landed and not yet spent
    grouped,      \* the group and its option are still there
    windows,      \* the item's serving windows
    available,    \* the item's and the option's tick
    activity,     \* the menu change events, as committed
    editor,       \* each manager's confirm panel or save in flight
    doomed,       \* the ids a clean-up is about to delete, and the day it read
    batch,        \* each cook's transaction in flight
    left,         \* what is left of the budget
    cookie,       \* the customer's cart: one line and its baseline
    request,      \* the placement in flight
    order,        \* the order placed
    offered,      \* for the properties: all that was offered while the request ran
    witnessed,    \* all that was in force while each save ran, its panel sent
    rivals        \* and the rows others committed for its day

menuVars  == <<live, staged, grouped, windows>>
boardVars == <<available, activity, batch>>
cartVars  == <<cookie, request, order>>
vars == <<now, menuVars, boardVars, editor, doomed, left, cartVars,
          offered, witnessed, rivals>>

Clock == Moments[now]
Today == Clock.day

Tick ==
    /\ now < Len(Moments)
    /\ now' = now + 1
    /\ UNCHANGED <<menuVars, boardVars, editor, doomed, left, cartVars>>

-----------------------------------------------------------------------------
(* Prices *)

Landed(column, day) == {r \in staged : r.column = column /\ r.day <= day}

Latest(rows) == CHOOSE r \in rows : \A s \in rows : s.day <= r.day

effectivePrices(day) ==
    [c \in Rows |-> IF Landed(c, day) = {} THEN None ELSE Latest(Landed(c, day)).cents]

\* The staged price if one has landed, the live column otherwise
Resolved(column, rows, cents) ==
    IF column \in Rows /\ rows[column] # None THEN rows[column] ELSE cents

\* What a column is worth on a day, by what is in the book at this instant
PriceOn(column, day) == Resolved(column, effectivePrices(day), live[column])

-----------------------------------------------------------------------------
(* What a customer may order *)

\* An end at or before the start runs past midnight, on the starting day's row
Covers(w, clock) ==
    LET wraps == w.endMinute <= w.startMinute
    IN  IF w.dayOfWeek = clock.weekday
        THEN clock.minuteOfDay >= w.startMinute /\ (wraps \/ clock.minuteOfDay < w.endMinute)
        ELSE /\ wraps
             /\ w.dayOfWeek = (clock.weekday + 6) % 7
             /\ clock.minuteOfDay < w.endMinute

daypartClosure(ws, clock) == ws # {} /\ \A w \in ws : ~Covers(w, clock)

\* The two statements that read the live columns
ItemRow  == [cents |-> live["item"], available |-> available["item"],
             windows |-> windows, grouped |-> grouped]
GroupRow == [there |-> grouped, min |-> live["group"], cents |-> live["option"],
             extra |-> live["extra"], available |-> available["option"]]

loadMenu(rows, item, group) ==
    [item      |-> Resolved("item", rows, item.cents),
     available |-> item.available,
     windows   |-> item.windows,
     grouped   |-> item.grouped /\ group.there,
     min       |-> group.min,
     option    |-> Resolved("option", rows, group.cents),
     extra     |-> group.extra,
     optionAvailable |-> group.available]

MenuNow == loadMenu(effectivePrices(Today), ItemRow, GroupRow)

\* A negation is no pick, costs nothing, and may name what is sold out
Asks(pick) == pick \in {"regular", "extra"}

\* The line names nothing the menu has lost
Priceable(menu, pick) == pick # "absent" => menu.grouped

validateComposition(menu, pick, clock) ==
    /\ menu.available
    /\ ~daypartClosure(menu.windows, clock)
    /\ Priceable(menu, pick)
    /\ Asks(pick) => menu.optionAvailable
    /\ menu.grouped => Cardinality({pick} \cap {"regular", "extra"}) >= menu.min

appliedDeltaCents(menu, pick) ==
    CASE pick = "regular" -> menu.option
      [] pick = "extra"   -> menu.option + menu.extra
      [] OTHER            -> 0

priceLine(menu, pick) == menu.item + appliedDeltaCents(menu, pick)

reviewCart(menu, line, clock) ==
    [needsFix |-> ~validateComposition(menu, line.pick, clock),
     needsPriceConfirmation |->
         Priceable(menu, line.pick) /\ priceLine(menu, line.pick) # line.price]

-----------------------------------------------------------------------------
(* The customer *)

\* A valid line, at today's price
Composed == {[pick |-> pick, price |-> priceLine(MenuNow, pick)] :
                pick \in {p \in left.picks : validateComposition(MenuNow, p, Clock)}}

addLine ==
    /\ cookie = None
    /\ left.orders > 0
    /\ cookie' \in Composed
    /\ UNCHANGED <<now, menuVars, boardVars, editor, doomed, left, request, order>>

\* An edit or a stepper; it takes today's price too
replaceLine ==
    /\ cookie # None
    /\ left.orders > 0
    /\ cookie' \in Composed
    /\ UNCHANGED <<now, menuVars, boardVars, editor, doomed, left, request, order>>

removeLine ==
    /\ cookie # None
    /\ cookie' = None
    /\ UNCHANGED <<now, menuVars, boardVars, editor, doomed, left, request, order>>

\* The new baseline is the menu's at the tap; a line that no longer prices keeps its own
confirmPrices ==
    /\ cookie # None
    /\ Priceable(MenuNow, cookie.pick)
    /\ cookie' = [cookie EXCEPT !.price = priceLine(MenuNow, cookie.pick)]
    /\ UNCHANGED <<now, menuVars, boardVars, editor, doomed, left, request, order>>

-----------------------------------------------------------------------------
(* Placement: the staged prices, then the items and the groups in either   *)
(* order, then the row.  The cart is the one the request came with.        *)

Unread == [rows |-> None, item |-> None, group |-> None]

Submit ==
    /\ request = None
    /\ cookie # None
    /\ request' = [line |-> cookie, clock |-> Clock, read |-> Unread]
    /\ UNCHANGED <<now, menuVars, boardVars, editor, doomed, left, cookie, order>>

Read(part, answer) ==
    /\ request # None
    /\ request.read[part] = None
    /\ request' = [request EXCEPT !.read[part] = answer]
    /\ UNCHANGED <<now, menuVars, boardVars, editor, doomed, left, cookie, order>>

ReadStaged == request # None /\ Read("rows", effectivePrices(request.clock.day))
\* Mutant: the items are read whether the staged prices were or not
ReadItem_First == request # None /\ Read("item", ItemRow)

ReadItem   == request # None /\ request.read.rows # None /\ Read("item", ItemRow)
ReadGroup  == request # None /\ request.read.rows # None /\ Read("group", GroupRow)

HasRead == request # None /\ \A part \in {"rows", "item", "group"} : request.read[part] # None

\* The cart is judged and priced against what was read; an order keeps each
\* price by name
placeOrder ==
    /\ HasRead
    /\ LET menu   == loadMenu(request.read.rows, request.read.item, request.read.group)
           review == reviewCart(menu, request.line, request.clock)
       IN  IF review.needsFix \/ review.needsPriceConfirmation
           THEN UNCHANGED <<cookie, left, order>>
           ELSE /\ order' = [pick |-> request.line.pick, price |-> request.line.price,
                             item |-> menu.item, option |-> menu.option, extra |-> menu.extra]
                /\ cookie' = None
                /\ left' = [left EXCEPT !.orders = @ - 1]
    /\ request' = None
    /\ UNCHANGED <<now, menuVars, boardVars, editor, doomed>>

-----------------------------------------------------------------------------
(* The managers' editor: a panel shows the price being replaced, and the   *)
(* save checks that it still is.                                           *)

MAX_STAGE_ATTEMPTS == 3

Exists(column) == column = "item" \/ grouped

\* Only a row with a column to stage may start on a day to come
Startable(column, day) == day # None => column \in Rows /\ day > Today

\* Only an option's delta may be negative; a group may not ask for more than it has
Typed(column, cents) ==
    /\ column # "option" => cents >= 0
    /\ column = "group" => cents <= 1

\* A change typed, and the price in force when its panel is rendered
Panel(column, cents, day) ==
    [step |-> "panel", id |-> left, column |-> column, cents |-> cents, day |-> day,
     shown |-> PriceOn(column, Today), read |-> None, today |-> None, saw |-> {}, attempt |-> 0]

ConfirmPanel(m) ==
    /\ editor[m] = None
    /\ left.edits > 0
    /\ \E column \in left.kinds \cap Columns, cents \in Amounts,
          day \in {None} \union {c.day : c \in ToSet(Moments)} :
          /\ Exists(column)
          /\ Startable(column, day)
          /\ Typed(column, cents)
          /\ editor' = [editor EXCEPT ![m] = Panel(column, cents, day)]
    /\ left' = [left EXCEPT !.edits = @ - 1]
    /\ UNCHANGED <<now, menuVars, boardVars, doomed, cartVars>>

\* The panel showed a price that is not the one being replaced
stale(e, actual) == e.shown # actual

\* A surcharge and a group are read and compared at once
CompareRow(m, column) ==
    LET e == editor[m]
    IN  /\ e # None
        /\ e.step = "panel"
        /\ e.column = column
        /\ editor' = [editor EXCEPT ![m] =
              IF Exists(column) /\ ~stale(e, live[column])
              THEN [e EXCEPT !.step = "write", !.today = Today]
              ELSE None]
        /\ UNCHANGED <<now, menuVars, boardVars, doomed, left, cartVars>>

saveExtraSurcharge(m) == CompareRow(m, "extra")
saveGroup(m)          == CompareRow(m, "group")

\* For an item's price or an option's the row itself is read first; it may be gone
ReadTarget(m) ==
    LET e == editor[m]
    IN  /\ e # None
        /\ e.step = "panel"
        /\ e.column \in Rows
        /\ editor' = [editor EXCEPT ![m] =
              IF Exists(e.column)
              THEN [e EXCEPT !.step = "target", !.read = live[e.column]]
              ELSE None]
        /\ UNCHANGED <<now, menuVars, boardVars, doomed, left, cartVars>>

\* Mutant: the panel is compared with the column, landed prices or not
CheckShown_Column(m) ==
    LET e == editor[m]
    IN  /\ e # None
        /\ e.step = "target"
        /\ editor' = [editor EXCEPT ![m] =
              IF stale(e, e.read) \/ ~Startable(e.column, e.day)
              THEN None
              ELSE [e EXCEPT !.step = IF e.day = None THEN "write" ELSE "delete",
                             !.today = Today]]
        /\ UNCHANGED <<now, menuVars, boardVars, doomed, left, cartVars>>

\* Then what has landed by today: a stale panel is refused, and so is a start
\* day that has come
CheckShown(m) ==
    LET e      == editor[m]
        actual == Resolved(e.column, effectivePrices(Today), e.read)
    IN  /\ e # None
        /\ e.step = "target"
        /\ editor' = [editor EXCEPT ![m] =
              IF stale(e, actual) \/ ~Startable(e.column, e.day)
              THEN None
              ELSE [e EXCEPT !.step = IF e.day = None THEN "write" ELSE "delete",
                             !.today = Today]]
        /\ UNCHANGED <<now, menuVars, boardVars, doomed, left, cartVars>>

\* Mutant: a landed price goes on overriding the one just typed
writeLive_KeepsLanded(m) ==
    LET e == editor[m]
    IN  /\ e # None
        /\ e.step = "write"
        /\ IF Exists(e.column)
           THEN live' = [live EXCEPT ![e.column] = e.cents]
           ELSE UNCHANGED live
        /\ editor' = [editor EXCEPT ![m] = None]
        /\ UNCHANGED <<now, staged, grouped, windows, boardVars, doomed, left, cartVars>>

\* A live price also spends the staged ones that had landed by the day read
writeLive(m) ==
    LET e == editor[m]
    IN  /\ e # None
        /\ e.step = "write"
        /\ IF Exists(e.column)
           THEN /\ live' = [live EXCEPT ![e.column] = e.cents]
                /\ staged' = staged \ Landed(e.column, e.today)
           ELSE UNCHANGED <<live, staged>>
        /\ editor' = [editor EXCEPT ![m] = None]
        /\ UNCHANGED <<now, grouped, windows, boardVars, doomed, left, cartVars>>

Slot(e) == {r \in staged : r.column = e.column /\ r.day = e.day}

\* A staged price: the transaction deletes the row of that day it can see ...
DeleteStaged(m) ==
    LET e == editor[m]
    IN  /\ e # None
        /\ e.step = "delete"
        /\ editor' = [editor EXCEPT ![m] =
              [e EXCEPT !.step = "create", !.saw = {r.id : r \in Slot(e)}]]
        /\ UNCHANGED <<now, menuVars, boardVars, doomed, left, cartVars>>

\* ... and creates its own, unless a rival's has been committed since
CreateStaged(m) ==
    LET e     == editor[m]
        raced == \E r \in Slot(e) : r.id \notin e.saw
    IN  /\ e # None
        /\ e.step = "create"
        /\ staged' = IF raced \/ ~Exists(e.column) THEN staged
                     ELSE (staged \ Slot(e))
                            \union {[id |-> e.id, column |-> e.column, day |-> e.day,
                                     cents |-> e.cents]}
        /\ editor' = [editor EXCEPT ![m] =
              IF raced /\ e.attempt < MAX_STAGE_ATTEMPTS - 1
              THEN [e EXCEPT !.step = "delete", !.attempt = @ + 1]
              ELSE None]
        /\ UNCHANGED <<now, live, grouped, windows, boardVars, doomed, left, cartVars>>

\* The row is still to come by the day read, whatever the day when it is deleted
cancelStagedPrice ==
    /\ doomed = None
    /\ "cleanUp" \in left.kinds
    /\ \E r \in staged :
          /\ r.day > Today
          /\ doomed' = [ids |-> {r.id}, today |-> Today]
    /\ UNCHANGED <<now, menuVars, boardVars, editor, left, cartVars>>

\* Mutant: of two landed rows the later is taken
Superseded_Later(day) ==
    {r \in staged : r.day <= day /\ \E s \in Landed(r.column, day) : s.day < r.day}

\* Every landed row a later landed row already overrides
Superseded(day) ==
    {r \in staged : r.day <= day /\ r # Latest(Landed(r.column, day))}

collectSupersededPrices ==
    /\ doomed = None
    /\ "cleanUp" \in left.kinds
    /\ Superseded(Today) # {}
    /\ doomed' = [ids |-> {r.id : r \in Superseded(Today)}, today |-> Today]
    /\ UNCHANGED <<now, menuVars, boardVars, editor, left, cartVars>>

DeleteDoomed ==
    /\ doomed # None
    /\ staged' = {r \in staged : r.id \notin doomed.ids}
    /\ doomed' = None
    /\ UNCHANGED <<now, live, grouped, windows, boardVars, editor, left, cartVars>>

\* The group's joins go with it, and its option's staged prices
deleteGroup ==
    /\ grouped
    /\ left.edits > 0 /\ "deletion" \in left.kinds
    /\ left' = [left EXCEPT !.edits = @ - 1]
    /\ grouped' = FALSE
    /\ staged' = {r \in staged : r.column # "option"}
    /\ UNCHANGED <<now, live, windows, boardVars, editor, doomed, cartVars>>

addItemWindow ==
    /\ left.edits > 0 /\ "window" \in left.kinds
    /\ \E w \in Windows :
          /\ w.endMinute # w.startMinute
          /\ \A v \in windows : v.dayOfWeek # w.dayOfWeek \/ v.startMinute # w.startMinute
          /\ windows' = windows \union {w}
    /\ left' = [left EXCEPT !.edits = @ - 1]
    /\ UNCHANGED <<now, live, staged, grouped, boardVars, editor, doomed, cartVars>>

deleteItemWindow ==
    /\ \E w \in windows : windows' = windows \ {w}
    /\ UNCHANGED <<now, live, staged, grouped, boardVars, editor, doomed, left, cartVars>>

-----------------------------------------------------------------------------
(* The cooks' board: one transaction, the items' statement and then the    *)
(* options'.  A statement waits for a row another transaction has flipped. *)

\* One row's own button, or the rows selected and either button of the batch
Selections == [rows : SUBSET Rows \ {{}}, to : BOOLEAN]

There(row) == row = "item" \/ grouped

Flips(b, row) == IF row \in b.rows /\ There(row) /\ available[row] # b.to THEN {row} ELSE {}

\* Mutant: a statement does not wait, and flips what another has flipped
Locked_Never(row) == FALSE

Locked(row) == \E k \in Cooks : batch[k] # None /\ row \in batch[k].flipped

Tap(k) ==
    /\ batch[k] = None
    /\ left.batches > 0
    /\ left' = [left EXCEPT !.batches = @ - 1]
    /\ \E choice \in Selections :
          LET b == [rows |-> choice.rows, to |-> choice.to, flipped |-> {}]
          IN  /\ Flips(b, "item") # {} => ~Locked("item")
              /\ batch' = [batch EXCEPT ![k] = [b EXCEPT !.flipped = Flips(b, "item")]]
    /\ UNCHANGED <<now, menuVars, available, activity, editor, doomed, cartVars>>

\* The event names what this transaction flipped; none is written for nothing
setAvailability(k) ==
    LET b       == batch[k]
        flipped == b.flipped \union Flips(b, "option")
    IN  /\ b # None
        /\ available' = [r \in Rows |-> IF r \in flipped THEN b.to ELSE available[r]]
        /\ activity' = IF flipped = {} THEN activity
                       ELSE Append(activity, [available |-> b.to, rows |-> flipped])
        /\ batch' = [batch EXCEPT ![k] = None]
        /\ UNCHANGED <<now, menuVars, editor, doomed, left, cartVars>>

-----------------------------------------------------------------------------
(* What held while a request or a save ran, for the properties: every      *)
(* price in force at some instant of it, and what could be had.            *)

OnSale(clock) ==
    {r \in Rows : available[r] /\ There(r)}
        \ (IF daypartClosure(windows, clock) THEN {"item"} ELSE {})

\* A price about to be typed by a save that read an earlier day: it will leave
\* what landed at midnight in force over it
Late(column, day) ==
    {editor[m].cents : m \in {n \in Managers : /\ editor[n] # None
                                             /\ editor[n].step = "write"
                                             /\ editor[n].column = column
                                             /\ editor[n].today < day}}

Offer(clock) ==
    [price |-> [c \in Columns |-> {PriceOn(c, clock.day)} \union Late(c, clock.day)],
     on    |-> OnSale(clock)]

\* None stands among them for a landed price that was typed over meanwhile
InForce(column) == PriceOn(column, Today)

Watch ==
    /\ offered' = IF request' = None THEN {}
                  ELSE offered \union {Offer(clock)' : clock \in {request'.clock}}
    /\ witnessed' = [m \in Managers |->
          LET e == editor[m]
          IN  IF editor'[m] = None THEN {}
              ELSE IF editor'[m].step = "panel" THEN {}
              ELSE witnessed[m] \union {InForce(e.column), InForce(e.column)'}
                     \union (IF Landed(e.column, Today) # {} /\ Landed(e.column, Today)' = {}
                             THEN {None} ELSE {})]
    /\ rivals' = [m \in Managers |->
          LET e == editor[m]
          IN  IF e = None \/ editor'[m] = None THEN {}
              ELSE rivals[m] \union ({r.id : r \in Slot(e)'} \ {r.id : r \in Slot(e)})]

-----------------------------------------------------------------------------
Init ==
    /\ now = 1
    /\ live = FirstPrices
    /\ staged = {}
    /\ grouped = TRUE
    /\ windows = {}
    /\ available = [r \in Rows |-> TRUE]
    /\ activity = <<>>
    /\ editor = [m \in Managers |-> None]
    /\ doomed = None
    /\ batch = [k \in Cooks |-> None]
    /\ left \in Budgets
    /\ cookie = None
    /\ request = None
    /\ order = None
    /\ offered = {}
    /\ witnessed = [m \in Managers |-> {}]
    /\ rivals = [m \in Managers |-> {}]

Customer == \/ addLine \/ replaceLine \/ removeLine \/ confirmPrices
            \/ Submit \/ ReadStaged \/ ReadItem \/ ReadGroup \/ placeOrder

Manager(m) == \/ ConfirmPanel(m) \/ ReadTarget(m) \/ CheckShown(m)
              \/ saveExtraSurcharge(m) \/ saveGroup(m)
              \/ writeLive(m) \/ DeleteStaged(m) \/ CreateStaged(m)

Office == \/ cancelStagedPrice \/ collectSupersededPrices \/ DeleteDoomed
          \/ deleteGroup \/ addItemWindow \/ deleteItemWindow

Cook(k) == Tap(k) \/ setAvailability(k)

Next == /\ \/ Tick \/ Customer \/ Office
           \/ \E m \in Managers : Manager(m)
           \/ \E k \in Cooks : Cook(k)
        /\ Watch

Spec == Init /\ [][Next]_vars

-----------------------------------------------------------------------------
(* Properties *)

\* An order is charged the baseline its customer had confirmed, the base price
\* and the option's delta are each one the menu was charging at some instant
\* while the request ran, and item and option could be had at such an instant:
\* the staged prices and the columns under them are read by two statements.  The
\* one price it may be charged that was never in force is a price for now which
\* a save that read the day before the order's wrote meanwhile, under a price
\* landed at midnight (loadMenu, placeOrder).
SoldAsOffered ==
    [][\A o \in {order'} \ {order} :
          /\ o.price = priceLine(o, o.pick)
          /\ \E offer \in offered : o.item \in offer.price["item"]
          /\ \E offer \in offered : "item" \in offer.on
          /\ Asks(o.pick) => /\ \E offer \in offered : o.option \in offer.price["option"]
                             /\ \E offer \in offered : "option" \in offer.on
          /\ o.pick = "extra" => \E offer \in offered : o.extra \in offer.price["extra"]]_vars

\* A save gets past its check only if the price its panel showed was in force at
\* some instant of the save, or a landed price was typed over while it ran: the
\* row is read before the staged prices, so a save that meets that one race may
\* be compared with a column nobody was charged (saveItemPrice, stale).
SavedAgainstWhatWasSeen ==
    \A m \in Managers :
        editor[m] # None /\ editor[m].step \in {"write", "delete", "create"} =>
            {editor[m].shown, None} \cap witnessed[m] # {}

\* A save that got past its check is kept.  A price for now is the price in force,
\* whatever had landed, unless midnight came in between; a price for a day to come
\* stands in the book for it, unless its row is gone or three rivals committed
\* one of their own for the same day while it ran (writePrice).
SavesAreKept ==
    [][\A m \in Managers : \A e \in {editor[m]} :
          e # None /\ editor'[m] = None /\ Exists(e.column) =>
             /\ e.step = "write" /\ e.today = Today => PriceOn(e.column, Today)' = e.cents
             /\ e.step = "create" => \/ \E r \in Slot(e)' : r.id = e.id
                                    \/ Cardinality(rivals[m]) >= MAX_STAGE_ATTEMPTS]_vars

\* No price moves but by a save or by midnight: collecting the superseded prices
\* and deleting a group never move one now in force, whatever is staged, typed or
\* lands between the read of the ids and their deletion, and cancelling a queued
\* one moves none unless it landed in between (collectSupersededPrices,
\* cancelStagedPrice, deleteGroup).
CleanUpMovesNoPrice ==
    [][now' = now /\ editor' = editor =>
           \A c \in Rows : \/ There(c)' => PriceOn(c, Today)' = PriceOn(c, Today)
                            \/ \E r \in Landed(c, Today) \ staged' : r.day > doomed.today]_vars

\* What the last of the first n events about a row said: on, if there was none
LastSaid(row, n) ==
    \A j \in 1..n :
        row \in activity[j].rows /\ (\A i \in (j + 1)..n : row \notin activity[i].rows)
            => activity[j].available

\* For each row the change events, in the order committed (the screen's list of
\* recent changes sorts them by a stamp a little older), alternate and end at
\* the row's tick, from which the board is drawn: two cooks who batch overlapping rows never both claim one, so
\* neither's undo puts back what the other took off unless somebody had put it
\* back in between (setAvailability).
EventsTellTheBoard ==
    \A r \in Rows :
        /\ \A n \in 1..Len(activity) :
              r \in activity[n].rows => activity[n].available # LastSaid(r, n - 1)
        /\ available[r] = LastSaid(r, Len(activity))
=============================================================================
