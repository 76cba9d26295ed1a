----------------------------- MODULE Storefront -----------------------------
(***************************************************************************)
(* The door: who may order, for when, and whose ticket still counts.  The  *)
(* checkout page and placement ask the calendar the same questions at      *)
(* different moments, while the office edits the hours, the clocks change  *)
(* and midnight passes.                                                    *)
(*                                                                         *)
(* Each customer places at most one order, of a fixed weight; the cart,    *)
(* the money and the order's number are elsewhere.  A read of settings and *)
(* hours is one step, the sums over the orders another, the insert a third.*)
(***************************************************************************)
EXTENDS StoreCalendar, FiniteSetsExt

CONSTANTS
    Customers,
    Weight,        \* the prep weight of each customer's cart
    Zones,         \* the restaurant's zone is one of these
    Readings,      \* wall readings time may stop at, in minutes from day 0
    Forms,         \* the weeks of hours the office may type
    Services,      \* the service numbers it may type
    Schedules,     \* the slot numbers it may type
    Picks,         \* bound: the minutes a customer may pick
    MaxEdits       \* bound on the office's edits, reopening not counted

ASSUME WeightAssumption == IsFiniteSet(Customers) /\ Weight \in [Customers -> Nat]
ASSUME ZonesAssumption  == \A z \in Zones : {z.before, z.after, z.change} \subseteq Int
ASSUME ReadingsAssumption == Readings \subseteq Int
\* A form row is two times of day; a weekday left unticked has no row
ASSUME FormsAssumption ==
    \A f \in Forms :
        /\ f = [w \in DOMAIN f |-> f[w]]
        /\ DOMAIN f \subseteq 0..6
        /\ \A w \in DOMAIN f : f[w] \in [open  : 0..(DayMinutes - 1),
                                       close : 0..(DayMinutes - 1)]
\* The ranges the forms and the database check
ASSUME NumbersAssumption ==
    /\ Services \subseteq [cutoff   : 0..720, maxOpenWeight : 1..500,
                          prepBase : 0..240, prepPerWeight : 0..60]
    /\ Schedules \subseteq [interval : 5..60, lead : 0..240, maxSlotWeight : 1..500]
ASSUME PicksAssumption  == Picks \subseteq 0..DayMinutes /\ None \notin Int

VARIABLES
    zone, now,
    store,      \* the settings row and the hours rows
    closing,    \* a tap on "close for today", its day already worked out
    edits,
    page,       \* what each customer's checkout shows
    request,    \* the placement each has in flight
    order       \* the order each has placed

vars == <<zone, now, store, closing, edits, page, request, order>>

-----------------------------------------------------------------------------
(* Time stops at each instant one of Readings is on the wall: twice when   *)
(* the reading comes twice, never when it is skipped.                      *)

Moments == {t \in {r - z : r \in Readings, z \in {zone.before, zone.after}} :
               Wall(zone, t) \in Readings}

Clock(t) == restaurantClock(zone, t)

Tick ==
    /\ \E t \in Moments :
          /\ t > now
          /\ \A u \in Moments : u > now => t <= u
          /\ now' = t
    /\ UNCHANGED <<zone, store, closing, edits, page, request, order>>

-----------------------------------------------------------------------------
(* What the orders table answers *)

Open == {c \in Customers : order[c] # None /\ order[c].open}

Weigh(cs) == MapThenSumSet(LAMBDA c : Weight[c], cs)

\* Mutant: the calendar's day, not the shift's
isLeftOver_Calendar(o, st, clock) == o.day < clock.day

isLeftOver(o, st, clock) == o.day < serviceDay(st, clock)

\* The work the kitchen still owes
OpenWeight(st, clock) == Weigh({c \in Open : ~isLeftOver(order[c], st, clock)})

\* Mutant: the day compared is the shift's
WeightBySlot_Shift(clock) ==
    [m \in 0..DayMinutes |->
        Weigh({c \in Open : /\ order[c].day = serviceDay(store, clock)
                            /\ order[c].requestedFor # None
                            /\ Clock(order[c].requestedFor).minuteOfDay = m})]

\* Prep weight promised to each of today's slots
WeightBySlot(clock) ==
    [m \in 0..DayMinutes |->
        Weigh({c \in Open : /\ order[c].day = clock.day
                            /\ order[c].requestedFor # None
                            /\ Clock(order[c].requestedFor).minuteOfDay = m})]

Gate(st, clock)  == checkoutGate(st, clock, OpenWeight(st, clock), st.service.maxOpenWeight)
Slots(st, clock) == availableSlots(st, st.schedule, WeightBySlot(clock), clock)

\* The low end of the quoted range
readyEstimate(service, openWeight) ==
    LET centre == service.prepBase + service.prepPerWeight * openWeight
    IN  Greater(5, (centre \div 5) * 5)

-----------------------------------------------------------------------------
(* The checkout page.  The minute a customer picked outlives a refresh;    *)
(* the day it is sent with is that of the list now on the screen.          *)

NoPage == [asap |-> FALSE, day |-> None, slots |-> <<>>, minute |-> None]

Render(c) ==
    LET clock == Clock(now)
        slots == IF store.scheduling THEN Slots(store, clock) ELSE <<>>
    IN  /\ order[c] = None
        /\ request[c] = None
        /\ page' = [page EXCEPT ![c] =
                       [asap   |-> Gate(store, clock).reason = "open",
                        day    |-> clock.day,
                        slots  |-> [m \in DOMAIN slots \cap Picks |-> slots[m] > 0],
                        minute |-> page[c].minute]]
        /\ UNCHANGED <<zone, now, store, closing, edits, request, order>>

\* The list disables a full slot, and the radio goes back to "as soon as possible"
Choose(c) ==
    /\ order[c] = None
    /\ request[c] = None
    /\ \E m \in {None} \union {s \in DOMAIN page[c].slots : page[c].slots[s]} :
          /\ m # page[c].minute
          /\ page' = [page EXCEPT ![c].minute = m]
    /\ UNCHANGED <<zone, now, store, closing, edits, request, order>>

CanPlace(c) == page[c].day # None /\ (page[c].minute = None => page[c].asap)

-----------------------------------------------------------------------------
(* Placement *)

Submit(c) ==
    /\ order[c] = None
    /\ request[c] = None
    /\ CanPlace(c)
    /\ request' = [request EXCEPT ![c] =
                      [step |-> "weigh", at |-> now, seen |-> store,
                       sent |-> [day |-> page[c].day, minute |-> page[c].minute]]]
    /\ UNCHANGED <<zone, now, store, closing, edits, page, order>>

Asap(r) == r.sent.minute = None

Accepts(c, r) ==
    LET clock == Clock(r.at)
    IN  IF Asap(r) THEN Gate(r.seen, clock).reason = "open"
        ELSE /\ r.seen.scheduling
             /\ r.sent.day = clock.day
             /\ canBookSlot(Slots(r.seen, clock), r.sent.minute, Weight[c])

BusinessDay(r) == IF Asap(r) THEN serviceDay(r.seen, Clock(r.at)) ELSE Clock(r.at).day

RequestedFor(r) ==
    IF Asap(r) THEN None
    ELSE zonedTimeToInstant(zone, BusinessDay(r), r.sent.minute)

\* A scheduled order is quoted nothing: its promise is the slot
Quote(r) == IF Asap(r) THEN readyEstimate(r.seen.service, OpenWeight(r.seen, Clock(r.at))) ELSE None

\* For the properties: what has truly been promised to a slot
Promised(sent) ==
    Weigh({c \in Open : order[c].requestedFor # None /\ order[c].sent = sent})

Consider(c) ==
    LET r == request[c]
    IN  /\ r # None
        /\ r.step = "weigh"
        /\ request' = [request EXCEPT ![c] =
              IF Accepts(c, r)
              THEN [step |-> "insert", at |-> r.at, sent |-> r.sent,
                    day |-> BusinessDay(r), requestedFor |-> RequestedFor(r),
                    quote |-> Quote(r), opening |-> currentOpening(r.seen, Clock(r.at)),
                    room |-> r.seen.schedule.maxSlotWeight - Promised(r.sent)]
              ELSE None]
        /\ UNCHANGED <<zone, now, store, closing, edits, page, order>>

\* The row, with what the properties remember of the request
Insert(c) ==
    LET r == request[c]
    IN  /\ r # None
        /\ r.step = "insert"
        /\ order' = [order EXCEPT ![c] =
              [open |-> TRUE, day |-> r.day, requestedFor |-> r.requestedFor,
               quote |-> r.quote, at |-> r.at, sent |-> r.sent,
               opening |-> r.opening, room |-> r.room]]
        /\ request' = [request EXCEPT ![c] = None]
        /\ page' = [page EXCEPT ![c] = NoPage]
        /\ UNCHANGED <<zone, now, store, closing, edits>>

\* The ticket leaves the line: handed over, cancelled or marked a no-show
Finish(c) ==
    /\ c \in Open
    /\ order' = [order EXCEPT ![c].open = FALSE]
    /\ UNCHANGED <<zone, now, store, closing, edits, page, request>>

-----------------------------------------------------------------------------
(* The office *)

Save(st) ==
    /\ edits < MaxEdits
    /\ st # store
    /\ edits' = edits + 1
    /\ store' = st
    /\ UNCHANGED <<zone, now, closing, page, request, order>>

setOrderingPaused == Save([store EXCEPT !.paused = ~store.paused])

\* A typed week: a close of 00:00 is midnight at the end of the day, a close
\* equal to the open is refused, and the rows are replaced together
Parsed(row) == [row EXCEPT !.close = IF row.close = 0 THEN DayMinutes ELSE row.close]

saveHours ==
    \E form \in Forms :
        LET week == [w \in DOMAIN form |-> Parsed(form[w])]
        IN  /\ \A w \in DOMAIN week : week[w].close # week[w].open
            /\ Save([store EXCEPT !.hours = week])

\* Each form writes all its fields, those that were not changed included
saveService == \E s \in Services : Save([store EXCEPT !.service = s])

saveScheduling ==
    \E on \in BOOLEAN, s \in Schedules :
        Save([store EXCEPT !.scheduling = on, !.schedule = s])

\* "Today" is worked out after the row is read, and written after that
PressClosed ==
    /\ closing = None
    /\ edits < MaxEdits
    /\ edits' = edits + 1
    /\ closing' = Clock(now).day
    /\ UNCHANGED <<zone, now, store, page, request, order>>

closeToday ==
    /\ closing # None
    /\ store' = [store EXCEPT !.closedOnDay = closing]
    /\ closing' = None
    /\ UNCHANGED <<zone, now, edits, page, request, order>>

reopenToday ==
    /\ store.closedOnDay # None
    /\ store' = [store EXCEPT !.closedOnDay = None]
    /\ UNCHANGED <<zone, now, closing, edits, page, request, order>>

-----------------------------------------------------------------------------
Init ==
    /\ zone \in Zones
    /\ now \in Moments
    /\ \A t \in Moments : now <= t
    /\ store \in [paused : {FALSE}, closedOnDay : {None}, scheduling : {TRUE},
                  service : Services, schedule : Schedules,
                  hours : {[w \in DOMAIN f |-> Parsed(f[w])] : f \in Forms}]
    /\ closing = None
    /\ edits = 0
    /\ page = [c \in Customers |-> NoPage]
    /\ request = [c \in Customers |-> None]
    /\ order = [c \in Customers |-> None]

Office == \/ setOrderingPaused \/ saveHours \/ saveService \/ saveScheduling
          \/ PressClosed \/ closeToday \/ reopenToday

Customer(c) == Render(c) \/ Choose(c) \/ Submit(c) \/ Consider(c) \/ Insert(c) \/ Finish(c)

Next == Tick \/ Office \/ \E c \in Customers : Customer(c)

Spec == Init /\ [][Next]_vars

-----------------------------------------------------------------------------
(* A second account of the calendar: every opening of the week around, as  *)
(* a stretch of the wall clock.                                            *)

Shifts(st, from, to) ==
    {OpeningOf(st.hours[d % 7], d, d * DayMinutes) :
        d \in {e \in from..to : e % 7 \in DOMAIN st.hours}}

WallNow == Wall(zone, now)
Today   == Clock(now).day

During(shift, wall) == shift.open <= wall /\ wall < shift.close

RunningShifts == {s \in Shifts(store, Today - 1, Today) :
                      During(s, WallNow) /\ s.day # store.closedOnDay}

-----------------------------------------------------------------------------
(* Properties *)

\* The gate, worked out with minutes that go below zero and past 1440 from
\* today's and yesterday's rows, opens exactly while the latest shift on the
\* wall clock that was not declared closed still has its cutoff ahead: on both
\* sides of midnight, over an overlap, and on the days the clocks change
\* (checkout-gate.ts, currentOpening and checkoutGate).
DoorMatchesShifts ==
    (Gate(store, Clock(now)).reason = "open") =
        /\ ~store.paused
        /\ store.closedOnDay # Today
        /\ ~(OpenWeight(store, Clock(now)) >= store.service.maxOpenWeight)
        /\ \E s \in RunningShifts :
              /\ \A r \in RunningShifts : r.day <= s.day
              /\ WallNow < s.close - store.service.cutoff

\* A closed door that names an opening names the next one there is: the customer
\* is not sent away past an earlier one, nor to a day with no hours
\* (nextOpeningMessage and the "we open at" sentence).
NamesTheNextOpening ==
    LET says == Gate(store, Clock(now))
    IN  says.opensDay # None =>
            LET named == says.opensDay * DayMinutes + says.opensAt
                ahead == {s.open : s \in {r \in Shifts(store, Today, Today + 7) :
                                             r.open > WallNow}}
            IN  named \in ahead /\ \A a \in ahead : named <= a

\* An open ticket taken for the shift now running is not called left over, and
\* so keeps chiming and keeps counting towards the throttle, until that shift
\* ends, a later one starts over it, or the office changes its hours or closes
\* its day: the business day an order is stamped with and the one the kitchen
\* compares it with are read at different times (serviceDay, isLeftOver).
TicketStaysOnTheBoard ==
    \A c \in Open :
        \A o \in order[c].opening :
            LET midnight == Clock(order[c].at).day * DayMinutes
                shift    == [o EXCEPT !.open = @ + midnight, !.close = @ + midnight]
            IN  /\ order[c].requestedFor = None
                /\ shift \in RunningShifts
                /\ \A r \in Shifts(store, Today, Today) : During(r, WallNow) => r = shift
                => ~isLeftOver(order[c], store, Clock(now))

\* Some instant reads this day and minute on the restaurant's wall
Happens(day, minute) ==
    \E z \in {zone.before, zone.after} :
        Wall(zone, day * DayMinutes + minute - z) = day * DayMinutes + minute

\* The instant kept for a pickup reads back as the day and minute the request
\* asked for, whenever there is such an instant: not an hour off after a clock
\* change, and not the same minute of the day after (zonedTimeToInstant; the
\* day is sent beside the minute).
PickupIsTheOneAsked ==
    \A c \in Customers :
        order[c] # None /\ order[c].requestedFor # None =>
            LET sent == order[c].sent
            IN  Happens(sent.day, sent.minute) =>
                    Wall(zone, order[c].requestedFor) = sent.day * DayMinutes + sent.minute

\* A slot takes no more than it held by the settings its request read, counting
\* the orders promised to it when the request looked: only requests in flight
\* together, and an office that lowers the cap, overshoot it.  The
\* midnight slot and an hour the clocks skip are not counted back to the minute
\* they were promised at, and are left out; so is a cart of drinks alone, which
\* weighs nothing and may still join an overshot slot (weightBySlot, canBookSlot).
SlotHoldsItsWeight ==
    \A c \in Customers :
        order[c] # None /\ order[c].requestedFor # None =>
            LET sent == order[c].sent
            IN  /\ Weight[c] > 0
                /\ sent.minute < DayMinutes
                /\ Happens(sent.day, sent.minute)
                => Weight[c] <= order[c].room
=============================================================================
