# Countertop in TLA+

Countertop is online ordering for one restaurant: a customer composes a cart from
a menu that is edited meanwhile, checks out while the door is open, the kitchen
moves the ticket along, the counter takes money and gives it back, and a punch
card (a phone number) earns and spends rewards. Everything durable is in one
Postgres database, written by Next.js server actions through `packages/db`; the
rules are pure functions in `packages/core`; screens are drawn on the server and
go stale at once.

What is hard in it is not any one function. Each operation reads rows, decides
with a pure function, and writes in a later statement or transaction, at READ
COMMITTED, while other requests do the same, midnight passes, a card processor may
not answer, and the process may die. These modules are about that.

## 1. The parts of the system

| part | state it keeps | operations | what makes it correct | here |
|---|---|---|---|---|
| order lifecycle (`core/orders/state-machine`, `db/transitions`, `kitchen/actions`) | `Order.status`, `OrderEvent` (append-only) | advance, undo, cancel, abandon | only permitted moves, though decided on an old read or tapped on an old card | Lifecycle, OrderMoney, KitchenBoard |
| order money (`core/orders/{payment,authorization,refund,adjustment}`, `db/` of the same names, the staff receipt) | money events, cached `paymentState`, rows linked by unique indexes, the processor's own memory | authorise, capture, void, collect, comp, refund, retry, reverse | the log says what the processor did; the buttons work; money out of place is on a list | OrderMoney, OrderScreens |
| loyalty ledger (`core/loyalty/ledger`, `db/loyalty`, `db/retention`) | member row, signed ledger rows, `lastActivityAt` | enrol, earn, redeem, settle, expire, forget | no point spent twice; a reward follows its order | Loyalty |
| placement and numbers (`db/placement`, `db/remake`) | rows with unique `(businessDay, seq)` and `idempotencyKey` | place, replay, remake | one order and one answer per key, numbers without gaps | Placement |
| gate and calendar (`core/orders/{checkout-gate,business-day}`, `db/gate`, settings) | settings, hours | is ordering open, which service day, every edit of the hours | the door agrees with the shifts, through midnight and clock changes | StoreCalendar, Storefront |
| scheduled pickup (`core/orders/schedule`, checkout page) | weight by slot | offer, choose, book | a slot keeps its instant and its weight | StoreCalendar, Storefront |
| phone verification (`core/loyalty/verification`, `db/verification`, checkout form) | codes, attempts, a token in the form | start, confirm, sweep, place with a token | a reward only for a phone proved for that attempt | Verification, CheckoutForm |
| change feed (`core/orders/feed`, `kitchen/events`, `api/updates`, `live-updates`) | a bridge's cursor over row numbers; a screen's change tip | page from a number; poll and draw again | no event is skipped; a screen in front catches up | EventFeed, KitchenBoard |
| menu, composition, pricing, cart (`core/{menu,pricing,cart}`) | the menu rows, the cart cookie with its baseline | add, replace, confirm, review, price | an order is charged what the menu offered | MenuBook |
| menu editing (`db/menu`, `kitchen/menu`, `kitchen/availability`) | staged prices, availability, change log | save, stage, cancel, collect, delete, 86 and restore | saves are checked and kept; a row's change events end at its tick | MenuBook |
| queue, estimates, notifications | outbox rows, folds over the log | group, mark, quote, text | an order is on the board until its shift is over; texted once | KitchenBoard, Storefront |
| history, reports | none | lists, sums | money lists in OrderScreens | OrderScreens, in part |
| staff and sign-in, snapshots and observability, scripts | small or none | | | not modelled, section 7 |

How they meet. Placement takes a reward under the member's row lock in the
transaction that creates the order. A transition commits the status and, in the
same transaction, the refund request of a cancellation, the earn of a pickup, the
text of a ready order and the return (or re-taking) of a reward; after it
commits, the same request calls the processor. The retention command deletes
members, codes and balances while all of that goes on. Screens see any of it only
when they are drawn, and are drawn again when a poll of the event log's tip says
so. Nothing but Postgres connects them: row locks, compare-and-set UPDATEs and
unique indexes.

## 2. The modules

**StatusFacts** holds the tables of `state-machine.ts` as sets: statuses, actors,
kinds of action, `Permits`, sales roles. **Lifecycle** is the abstract promise:
one status that only moves as `Permits` says.

**OrderMoney** is one order and several workers (server requests). `status`,
`payState` are the order's columns; `log` keeps the event log as the sums the
code derives from it, `hold`, `ask`, `refundOf`, `reversed`, `comp`, `takenBack`
the rows other rows link to. `card` and `paidOut` are the processor (external: it
remembers an idempotency key and answers a repeat with what it did). A worker's
`pc` says which statement is next and `job` what it has read: each operation is
split where another request can run. An insert that would clash on a unique index
with an uncommitted row waits and then fails, so it is modelled at the commit.
`pending[0]` is read without an `orderBy`, so any pending request may be first.
`Crash` is enabled at every statement; each call to the processor may fail having
acted or not. **OrderScreens** reads the same state as the staff receipt, the
history, the report and the customer's page do: which panels are drawn, which form
takes the tap, which list an order is on, which sentence the customer reads.
**OrderMoneyClaims** holds the one claim of a comment that a run refutes.

**Loyalty** is one customer's card: the member row (by id, so a deleted member and
a new one differ), the ledger as sets of orders (unique per order) and counts, and
`lock`, the row lock `lockMemberBalance` takes. Redemptions read and plan outside a
transaction, then lock, re-read, write and commit; `Abort` is the rollback of
either for any reason. Orders are followed as far as their sales role. The
retention command is three steps of `night`.

**OrderBook** is the abstract promise of a business day's numbers: a list of keys
that grows at its end, each key at most once. **Placement** is how requests get
there: `Lookup`, `Review`, `Plan` of a reward, `Number` (the highest *committed*
number plus one), `Confirm`, `Insert` (waits for an uncommitted row with the same
number or key), then `Commit`, `KeyTaken` (the `recover` callback) or
`NumberTaken` (round the loop). `RemakeTap` enters the same loop. `Die` rolls back
anywhere.

**StoreCalendar** is `business-day.ts`, `checkout-gate.ts` and `schedule.ts` as
operators on integers: a zone is two offsets and the instant the clocks change.
**Storefront** puts people around it: `Render` and `Choose` are the checkout page
(a chosen minute outlives a refresh, the day sent is that of the list shown),
`Submit`, `Consider`, `Insert` the request, and the office pauses, closes
(`PressClosed` works out the day, `closeToday` writes it), reopens, types hours, and
saves the forms of service and of slots, each with all its numbers. Time stops at instants whose wall reading is in `Readings`.

**Verification** is codes and tokens, statement by statement: `Look` reads the
newest row, `Match` or `Mismatch` updates it later; `Sweep` is the retention job.
**CheckoutForm** EXTENDS it with the screen: the phone field the token does not
follow, one idempotency key for each mount, a reload with requests still running,
answers that find nobody.

**MenuBook** is the menu with everybody at it. A placement reads the staged prices,
then the items and the groups in either order, then writes (`ReadStaged`,
`ReadItem`, `ReadGroup`, `placeOrder`); a save reads its row, then what has landed,
then writes live or deletes and creates a staged row, trying again when it lost
(`CheckShown`, `writeLive`, `DeleteStaged`, `CreateStaged`); clean-ups read ids and
delete them later; a batch of availability is one statement for items and one for
options, waiting for rows another transaction flipped. `Watch` keeps what the
properties compare with: what was in force or offered while a request or save ran.

**KitchenBoard** is screens and taps: `shown` and `cursor` of each screen, polls
answered in any order, drawings read in two statements (`NextRead`), taps that
carry what their card was drawn with, the compare-and-set that takes them, the
waiting mark, the shelf written after the move, the outbox. **EventFeed** is the
log as a bridge reads it: numbers taken in one order, committed in another, pages
that wait at a young gap.

**MC\*** modules name instances; **\*_proofs** hold the theorems. Definitions named
`X_Something` under the comment "Mutant" are plausible mistakes in `X`; each
property has one that breaks it.

## 3. What is checked

| run | instance | question |
|---|---|---|
| `apart` | 2 workers, 2 refund requests, 1 comp, total 2, failing processor, crashes; two refunds on their way and a cancellation beside a taking do not overlap | do the drawn buttons work, does "Refunded" mean sent, does the report's split add up, is misplaced money on a list, does the cached column match the log? |
| `duo_counter` | 2 workers, 1 refund request, no comps | what survives every interleaving: one charge in the log, no invented movement, the hold column, `Lifecycle` implemented |
| `claim_charged_once` | 1 worker, 1 refund request | violated: a capture whose answer is lost is recorded as a void and the counter collects again |
| `punch_card` | 2 orders, 2 workers, 2 memberships, 1 return | are points spent once and debts bounded, does the reward follow its order, what restarts the clock? |
| `card_expires` | 1 worker, windows 1 and 2 | do unused points leave the card, whatever the switch says? |
| `race_for_numbers` | 2 workers, 3 checkouts, 1 remake, 2 tries, throttle 1, 1 reward | is the day one list, is the answer always the key's own order, does every request end? |
| `bridge_reads_on` | 2 requests, 4 numbers, pages of 2, `Settle` 3, `Lead` 1, `Hold` 1 | does the bridge ever step past an event that appears later, does each reach it? |
| `prove_a_phone` | 2 browsers, 3 mounts of the form, 2 phones, 2 codes, cap 1 | is every reward proved, are guesses bounded, does a guess find its row? |
| `two_screens` | a board and a receipt of one order, a second that may come in, 3 events | is a tap taken only as drawn, does a current cursor show all, is the customer texted once? |
| `screens_catch_up` | a board where somebody works; beside it a board (an order may come in; 1 event, 2 polls in flight) or a status page (2 events, 1 poll); 1 loss | does a screen that is never tapped come to show what happened elsewhere? |
| `open_the_door` | 2 customers, 3 typed weeks, 2 sets of service and of slot numbers, 3 zones, a Saturday night and a Sunday the clocks change, 1 edit | do gate and shifts agree, is the next opening the next one, do tickets and slots keep what was promised? |
| `menu_moves` | 2 managers, 2 cooks, 3 days, 7 budgets of edits, batches and orders | is an order charged what was offered, are saves checked and kept, does clean-up move a price, do a row's change events end at its tick? |

Bounds, and why they are enough. Two workers show every race of two reads with two
writes; the invariants proved below do not depend on the number. `Total = 2` is
the least amount that can be paid back or comped in part; two requests show one sum
bounding two rows. Once more than a cent was reversed, the requests of `apart` come one
at a time. On the card a reward costs what one order
earns, so two orders compete for it and one return lets it be spent again;
`ExpiryAge` and `RetentionAge` are ticks. `MaxAttempts = 2` is reached, and three
checkouts and a remake let a loser lose twice and a throttle of one be overshot;
`MaxOrders` is room for all and never binds. In the feed four numbers allow a gap
inside a page, at its start and across two, and `Lead + Hold` is one below `Settle`,
the largest the argument allows. A cap of one guess is overshot by one: each mount asks
for a code of its own, so of three mounts and two codes two look at one code together
(the bound allows a third); lifetimes of one tick let a token and a code run out while
a request runs. Three events let a card go stale twice. In `screens_catch_up` somebody
works at a board that never polls, and the screen beside it hears of that only by its
own polls. Beside a board one event, which may be an order coming in, one loss and two
polls in flight are enough to need the idle refresh: a second loss is the same again.
Beside a page, which polls from the time the order is being made, two events take the
order past ready, or out and back. The board that is worked at is drawn as soon as it
asks to be (`DrawnFirst`): nobody else reads it. The bounds of this run and of `apart`
are action constraints of their .cfg. Here they hold up for good only what no fairness is
assumed of (taps, events, losses): a poll that waits for the one in flight, or for the
board to be drawn, is let go when that was heard or drawn, and both are fair.
The readings of `open_the_door` are 23:30, 00:30, 01:30 and 03:10, so a time is
inside an overnight shift before and after midnight, in the doubled or skipped
hour, and after it; reopening is not counted among edits, being an undo. The
budgets of `menu_moves` are tried in turn, not multiplied: four saves race on one
price (three attempts and a rival for each need as many), two or three edits race
with clean-ups, one or two with an order, four batches with each other. One item
with one group of one option stands for the menu because no statement relates two
items.

`CHECK_DEADLOCK FALSE` is where orders are settled, or a bound is used up, and
nothing is left to do; `race_for_numbers`, `bridge_reads_on`, `prove_a_phone`, `two_screens`
and `screens_catch_up` check deadlock. Interchangeable people are symmetric in
runs without liveness only.

Fairness. In Placement a request that has started runs on, and Postgres queues
those who wait for a row, so a request woken again and again gets its turn: strong
fairness of a request's steps, none of taps, deaths or the rest. In Loyalty
nothing in the code schedules the retention command (docs/RETENTION.md:92 makes it
a calendar task), so its fairness is the operator's: it keeps being run and is not
killed every time just before it writes. In EventFeed the bridge keeps asking, time
passes, and a transaction ends, if only by the client's time limit. In KitchenBoard a
screen in front keeps its timer (`setInterval` in live-updates.tsx), a request that is
not lost is answered and drawn; nothing is promised of people, of covered screens, or
of more than `MaxLost` losses. OrderMoney states no liveness: nothing in the code
retries a refund or a hold by itself.

Some properties in a sentence. `ButtonsWork`: panels ask the log and forms the column,
and still a drawn button is accepted, the collect button until a first reversal.
`MoneyIsOnAList`: after any failure, money held for a cancelled order, an open hold of a
finished one and what a sold one owes each stand on a list. `PaidTwiceOnlyIfVoided`: the
one way to pay by card and cash is a capture recorded as a void. `SpentWithinEarned`: no
reward is spent twice, and a card that went below zero owes no more than the rewards in
force on it cost. `TicketStaysOnTheBoard`: the day a ticket is stamped with and the day
the kitchen compares it with are worked out at different times, and yet it is not "left
over" during its own shift. `SavesAreKept`: a staged save stands in the book, or three
rivals committed for that day while it ran. `ScreensCatchUp`: a board that nobody taps
rings for the order that came in and shows what another board moved, its shelf included,
of which no event tells (only the idle refresh shows it); and a page whose order becomes
ready elsewhere says so.

## 4. What is proved

Every safety invariant and action property of the passing runs is a theorem, for
every value of the constants that satisfies the named assumptions. Those say what
the code says: a week is typed as times of day and the other numbers of the settings lie
in the ranges checked (`FormsAssumption`, `NumbersAssumption`: settings/actions.ts), `None` is no number and
no save, and requests, refund requests, orders and customers are finitely many
(`WorkersAssumption`, `RequestsAssumption`, `OrdersAssumption`, `WeightAssumption`).

Two properties speak of sums, which the library defines by recursion. Their proofs use
no induction theorem: a set that broke such a fact would have a smallest subset that
breaks it, as sizes of finite sets are well founded, and with one element less it would
not (`NoSmallest`). A sum is shown to be the size of a set of units, one for each cent or
each unit of weight, because it is unions that the library has facts about
(`SumIsUnits`, then `SumGrows` and `SumUpdate`; `WeighIsUnits`, then `WeighGrows`).

* **OrderMoney_proofs**: `TypeCorrect`; `LifecycleRefined` (every status write is a
  step of `Lifecycle`, because the compare-and-set re-checks the status decided
  on); `ChargedOnce`, `HoldColumnAgrees`, `LogTellsTheTruth`, and the lemmas of
  their own interest `RewardCorrect`, `CaptureNeedsSale`. They rest on `IInv`,
  which adds what a request carries between statements: one about to book a
  movement has had the processor make it (`ProviderInv`), one that captures came
  from a pickup that wrote the earn (`SoldInv`), money once taken is not untaken
  (`TakenInv`). Without these nothing in the state before `BookRefund` says the
  money went out. `CountedOnce` adds that an order without a hold never has its card
  held (`CardInv`): the counter collects only where the log knows of no capture.
  `ColumnIsDerived`, `SplitAddsUp` and `MoneyIsListed` hold for any number of requests,
  overlapping at any statement, but for one overlap each, which the code does not keep
  apart and which does break the property (section 5): two transactions that book
  different refunds (`TwoRefunds({"commitRefund"})`), two different refunds between the
  look at the log and the row (`TwoRefunds(Sending)`), a cancellation that found nothing
  to give back beside a payment or a capture (`CancelMeetsTaking`). So they say which
  races an operator has to fear, and that there are no others. As a behaviour may stop
  anywhere, each property holds up to the first such overlap. The column a refund is
  about to write stays right because once money was taken no figure moves but by a refund
  (`ColumnInv`, `WhileSending`); what it is about to send still fits in what is held
  (`FitsInv`); a cancellation that asks nothing back keeps nothing, and whoever is about to
  take money for a cancelled order finds it taken (`ListInv`). Holds and debts are listed
  whatever overlaps (`HoldsAndDebtsAreListed`). `RefundedMeansSent` and `PanelsAreAccepted`
  need no hypothesis either. The column says "refunded" only once the requests settled in the
  log cover what was taken; the processor had settled each of those first, by the amount
  asked, or by no less than was taken when all was asked (`RefundInv`); and once money was
  taken no more is, while what was sent never shrinks. A panel asks the log, its form the
  column as well: until a first reversal money was taken only for all that was left to
  pay (`BalanceInv`), so what is still outstanding has a column that says unpaid. The
  theorem supposes that every operation is offered (`AllOps \subseteq Ops`).
* **Loyalty_proofs**: `CardTypeCorrect`; `RewardsPaidFor`: `SpendInv` strengthens
  with `LockedRoom`: whoever holds the member's lock re-read a balance with room
  for one reward more, and nobody else can spend meanwhile. Its second half bounds the
  debt of a card below zero (section 5) by the price of the rewards in force on it: the
  sweep has taken, and is about to take, no more than that very card earned
  (`SweepInvariant`), as an id is never used again and earning is not undone.
  `DiscountsPaidFor` and
  `RewardsSettled`: `RewardInv` is the two properties themselves over the type
  invariant, since one transaction writes the discount, the row and the return; what
  needs care is that a deleted card is remembered by its id. `ClockRestarts`.
* **Placement_proofs**: `BookIsOneList` (Placement implements OrderBook),
  `AnswersAgree`, `GivesUpOnlyWhenBeaten`, `LateTapsReplay`, `RewardsAreCovered`,
  `TypeCorrect`. The committed numbers are 1..h, each key once; a candidate is at
  most h + 1 and above every number it lost to; at most one transaction has an
  uncommitted row, and that row is h + 1. So a rollback cannot leave a gap: the
  comment at placement.ts:674-676 fears one, and the order of the transaction it
  justifies is harmless but not needed for that. `OvershootIsBounded`: open orders and
  the requests past the throttle together stay within the throttle, the requests and
  the remakes made (`WithinSlack`), as each request is past it once.
* **EventFeed_proofs**: `NeverSkips` and `FeedInvariant`, both assuming
  `Lead + Hold < Settle`. Open rows lie ahead of the cursor, and a row above an open
  one is, by its stamp, at most `Lead` older than that one has been open
  (`StampsInOrder`): a gap given up under a row as old as `Settle` would have been
  open for longer than `Hold`.
* **CheckoutForm_proofs**: `TypeInvariant`, `RewardsAreProved`, `GuessesAreBounded`,
  `RowsOutliveGuesses`. Behind every token, wherever it is (in an answer, in the
  form, in a placement), is a right guess no younger than the token looks
  (`TokensBacked`); a row looked at was good by the request's clock and they grow old
  together (`LookedFresh`), which with `Hold <= Margin + 1` keeps the sweep off it;
  guesses looked at and not yet written are counted with the written ones
  (`Counted`).
* **KitchenBoard_proofs**: `ScreensTypeCorrect`; `EveryOrderFollowsLifecycle`: the
  screens implement `Lifecycle` once for each order (`EachOrderLives`); `StepsAsDrawn`: a tap carries a card
  some order once had (`KnownInv`), and the compare-and-set takes it only where that is
  so still; `OneTextEach`: an order past its first readiness has its text in the
  outbox; `NothingHidden`: no cursor is past the tip, a drawing reads the tip before
  the cards, so cards read with a cursor that is still the tip are the orders as they
  are (`CursorInv`, `ReadInOrder`); it needs that every change a card shows moves the
  tip, which the shelf does not.
* **Storefront_proofs**: `PromisedPickup`: `OnePassIsEnough` shows one refinement of
  `zonedTimeToInstant` right in any zone with one clock change, for every minute that
  exists; `KeepInv` carries it from the page to the order. `DoorFollowsTheWall` and
  `NextOpeningNamed` follow from what the office may have saved (`OfficeInv`) alone:
  `CurrentIs` and `RunningAre` say which of today's opening and yesterday's the gate
  judges by and which of them run on the wall clock, `NextNames` where the walk over
  the week stops. `TicketKeepsItsShift` adds that the day an order is stamped with is
  that of the opening it was taken for (`TicketInv`). `SlotsHold`: an order promised at
  an instant reads back as the slot it is counted under, so what was promised is among
  what `weightBySlot` weighed, and more orders weigh no less (`Fits`, `SlotInv`).
* **MenuBook_proofs**: `OffersHold` and `ChargedAsOffered`: whatever a placement has
  read, an instant of its request offered; where no row had landed for a column, the
  column still to be read was offered too, because a save that clears landed rows is
  the only step that could separate them (`OfferInv`). `CleanUpKeepsPrices`: ids are
  spent budget, so no row gets another's (`IdInv`); a column has one row for a day
  (`SlotInv`); a landed row about to be deleted has a later one over it, still, whatever
  was saved since its id was read (`DoomedInv`). `SavedAsSeen`: what a save read it
  witnessed, or a landed price was typed over meanwhile (`SeenInv`). `SavesKept`: each
  attempt a save lost was lost to a row of its own, whose id nobody has again
  (`RivalInv`, `SpentInv`). `BoardAsTold`: what a batch has flipped no other holds, and it
  still stands the other way up until the commit ticks it and says so (`BatchInv`).
  `BookTypeCorrect`.

Only model-checked: the four liveness properties (`NoImmortalBalance`,
`EveryRequestEnds`, `EveryEventHandled`, `ScreensCatchUp`): liveness under fairness is
out of the prover's reach.

## 5. Where code and text part, and known gaps

`claim_charged_once` has a run and its lines in `PROJECT.json`. The rest was met while
modelling; where a model holds it, TLC's trace is the one described.

Money.
* Where two refunds of one order are booked at once `ColumnMatchesLog` fails
  (db/refund.ts:236: each transaction derives the column without the other's row); where
  two are under way at once they may send more than was captured (db/refund.ts:176), and
  `SplitExplainsRevenue` fails; and a cancellation decides on a column read earlier
  (db/transitions.ts:101), so money collected or captured meanwhile stays with a cancelled
  order and `MoneyIsOnAList` fails. `apart` leaves out these overlaps and no other, and
  section 4 says there are no others to leave out. Two comps at once may exceed the total
  (db/adjustment.ts:54), which the guard of `SplitExplainsRevenue` allows for.
* A retried request for "all" may book another amount than the processor sent, and more
  can be sent back than was taken when its first answer was lost (db/refund.ts:203; the
  comment at 30-34 says the same key keeps it to once).
* After a reversal of a refund or a comp the collect button is drawn and always refused
  (state-machine.ts:436-438; receipt page:151); a cancelled unpaid order's page still
  says what is due at pickup.
* A cancellation stacks an "all" request on a pending one (state-machine.ts:866; the
  receipt's comment at 545-548 says "at most one today"), and the page's "Refund
  pending" names all that is held though a partial refund asks less.
* A failed capture writes a void and never asks the processor to release the hold
  (authorization.ts:106-117).
* The report's split does not add up once more was comped than was owed, or while a hold
  is open: `SplitExplainsRevenue` says so in its guard.
* The target of an undo from the receipt is read from the page, not the order
  (actions.ts:236-240).

Card.
* A balance can go below zero, which db/loyalty.ts:511 says cannot happen: a reward is
  spent between the expiry sweep's read and its write; or a no-show hands a reward back,
  it is spent elsewhere, and the undo takes it again. How far is bounded (`DebtCovered`)
  as long as one retention command runs at a time: two that read together would each
  write the balance off, and no constraint refuses the second (db/loyalty.ts:497).
* A counter redemption does not ask the order's status; `CheckoutRewardSettled` is about
  checkout rewards. After a customer is forgotten and enrols again an old order may carry a
  second reward, so two properties stop at the first deletion (`NobodyForgotten`).
* The retention command may delete a member with points on the card: it forgets before it
  expires, and retention.ts:129-133 counts on the balance having gone in an earlier run.

Placement and checkout.
* docs/RELEASE_NOTES.md:249-252 promises the first order's confirmation to a double tap and to
  "an impatient reload". A twin that looked before its first order was committed is refused its
  reward, which that very order has spent (placement.ts:679); and a reload mounts a form with a
  new key (checkout-form.tsx:73), so placing again is a second order.
* "Request a new code" (verification.ts:62-67) has no button once a code was sent; and
  schema.prisma:1013 says attempts are "Counted BEFORE a hash comparison", while the update
  comes after it.
* A sequential double tap of Remake makes two remakes; docs say so on purpose. A remake
  copies its original's discount with no ledger row: it is comped whole.

Calendar.
* The slot at 24:00 is never counted against its weight (schedule.ts:36-41, 112-115), nor
  is one in an hour the clocks skip counted under the minute it was promised at; both are
  left out of `SlotHoldsItsWeight`, and so is a cart of drinks alone, which weighs nothing
  (sample-menu.ts:368) and may join a slot that others overshot. In a doubled hour a slot
  may lie in the past.
* A day declared closed still takes the service day over when its hours overlap the shift
  running from the day before, whose tickets then count as left over
  (checkout-gate.ts:61): `TicketStaysOnTheBoard` excludes the overlap. The same happens at
  midnight when the hours of the day are edited away under a running shift.
* The chosen minute outlives a refresh past midnight and is sent with the new day
  (checkout-form.tsx:85, 138). "Online ordering opens again tomorrow" is said whatever
  tomorrow's hours (checkout-gate.ts:237). The settings page says overnight service is not
  supported; `saveHours` takes it.
* "The first occurrence" of a doubled minute (`zonedTimeToInstant`) is so only west of UTC.

Menu.
* A save that read the day before midnight leaves the new day's landed price in force over
  what it typed, and an order that read the staged prices before that row was created may
  be charged the typed price, which never was in force: the `Late` alternative of
  `SoldAsOffered`. It takes three saves and an order, beyond `menu_moves`; the proof found it.
* A cancellation that read its day before midnight may delete a price that has landed
  (menu/actions.ts:272-274 says it never does): the second case of `CleanUpMovesNoPrice`.
* The row is read before the staged prices (menu/actions.ts:34-45, 108-118), so a save that
  meets a landed price being typed over may be compared with a column nobody was charged.
* Item and option are read by two statements, so their sum may be one no menu showed;
  `confirmCartPrices` takes the menu's prices at the tap, perhaps not those displayed.

Screens.
* The feed's comment (feed.ts:10-15) asks only that a transaction be shorter than the settle
  window. A row is stamped when its request starts, and a refund's row is inserted after
  the processor's answer, so what is needed is that stamp to insert *and* insert to commit
  together stay below it; with `Lead = 3` in `bridge_reads_on.cfg` an event is skipped,
  which docs/RELEASE_NOTES.md:3361 says never happens.
* A status page stops polling at a picked-up order, and so never hears of an undone pickup
  (live-updates.tsx says there is "no further news"): the `~Polling` of `CustomersAreTold`.

## 6. Abstractions

Amounts are small numbers; wording, logging, formatting and page revalidation are left
out. One nested `findMany` is read as one statement; a foreign-key check takes a share
lock that conflicts with nothing modelled. Order numbers of different business days do
not interact; tokens' random bits and codes' digests do not collide, so a code stands for
its row. In Placement the cart, the menu and the gate may refuse any new order; what they
say is MenuBook's and Storefront's, and a scheduled order, which skips the throttle, is
Storefront's. In Storefront the settings and hours are read in one step, the sums over
orders in a second, the insert in a third; each customer orders once, of a fixed weight. In MenuBook a page and a change of the cart
cookie are one step each; quantity, notes and tax are left out; one placement and one clean-up
are in flight at a time; a group's maximum stays at least one; days never go back
(`MomentsAssumption`). In KitchenBoard instants are ordered as commits are, a poll reads
the tip when it is sent, and a status page shows only the status; remakes are not in
OrderScreens. An EventFeed page is read at one instant: the route reads its clock just
before the query, which only makes rows look younger.

## 7. Not modelled

* Staff and sign-in: a shared password and a signed cookie; who is on shift is a stamp on events.
* The order snapshot, observability, scripts, seeds and the load demonstration: they copy rows,
  write log lines or call the modelled functions.
* Tax, quantity and rounding: one pure expression each with unit tests. Categories, images,
  descriptions, preparation weights: one UPDATE each, read by nothing modelled.
* Most of the report, searches in the history, ageing colours, time in state, the accuracy of
  estimates: read-only folds nothing acts on. Staff corrections of a balance: one locked insert.
* The customer's own cancellation: a rule in `state-machine.ts` without a caller.

## 8. What could come next

That placements in flight together are all that overshoots a slot; an instance of
MenuBook with two items once a statement relates them; balance corrections in Loyalty.
