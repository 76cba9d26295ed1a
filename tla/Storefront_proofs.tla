------------------------- MODULE Storefront_proofs --------------------------
(***************************************************************************)
(* What the door promises, in every zone that changes its clocks once and  *)
(* for every week, cutoff and number of customers: it is open exactly      *)
(* while a shift on the wall has its cutoff ahead; a closed door names the *)
(* first opening there is; an open ticket stays with the shift it was      *)
(* taken for; a scheduled order keeps the instant that reads back, on the  *)
(* restaurant's wall, as the day and minute the request asked for; and a   *)
(* slot takes an order only where what was promised leaves room for it.    *)
(***************************************************************************)
EXTENDS Storefront, Folds, FiniteSetTheorems, TLAPS

-----------------------------------------------------------------------------
(* The one refinement pass is enough: if either offset makes an instant    *)
(* that reads the wanted time, the pass ends on one that does.             *)
LEMMA OnePassIsEnough ==
    ASSUME zone.before \in Int, zone.after \in Int, zone.change \in Int,
           NEW day \in Int, NEW minute \in Int, Happens(day, minute)
    PROVE  Wall(zone, zonedTimeToInstant(zone, day, minute)) = day * DayMinutes + minute
<1>1. day * DayMinutes + minute \in Int  BY DEF DayMinutes
<1>2. PICK n \in Int : n = day * DayMinutes + minute  BY <1>1
<1>3. \E z \in {zone.before, zone.after} : Wall(zone, n - z) = n
      BY <1>2 DEF Happens, DayMinutes, Wall
<1>4. n - zone.before < zone.change \/ ~(n - zone.after < zone.change)
      BY <1>3 DEF Wall, offsetMinutesAt
<1>5. Wall(zone, n - offsetMinutesAt(zone, n - offsetMinutesAt(zone, n))) = n
  <2>1. CASE n < zone.change  BY <1>4, <2>1 DEF Wall, offsetMinutesAt
  <2>2. CASE ~(n < zone.change)  BY <1>4, <2>2 DEF Wall, offsetMinutesAt
  <2>. QED  BY <2>1, <2>2
<1>. QED  BY <1>2, <1>5 DEF zonedTimeToInstant

-----------------------------------------------------------------------------
(* What a request and an order carry *)

Keeps(x) ==
    x.requestedFor # None =>
        /\ x.sent.day \in Int
        /\ x.sent.minute \in Int
        /\ x.requestedFor = zonedTimeToInstant(zone, x.sent.day, x.sent.minute)

Minutes == Picks \union {None}

RequestKeeps(r) ==
    /\ r.step = "weigh"  => r.at \in Int /\ r.sent.minute \in Minutes
    /\ r.step = "insert" => Keeps(r)

\* The inductive invariant
KeepInv ==
    /\ zone \in Zones
    /\ now \in Int
    /\ page = [c \in Customers |-> page[c]]
    /\ request = [c \in Customers |-> request[c]]
    /\ order = [c \in Customers |-> order[c]]
    /\ \A c \in Customers :
          /\ {"slots", "minute"} \subseteq DOMAIN page[c]
          /\ DOMAIN page[c].slots \subseteq Picks
          /\ page[c].minute \in Minutes
          /\ request[c] # None => RequestKeeps(request[c])
          /\ order[c] # None => /\ {"requestedFor", "sent"} \subseteq DOMAIN order[c]
                                /\ Keeps(order[c])

LEMMA ZoneIsInt == zone \in Zones =>
        zone.before \in Int /\ zone.after \in Int /\ zone.change \in Int
BY ZonesAssumption

LEMMA PicksAreInt == Picks \subseteq Int
BY PicksAssumption DEF DayMinutes

LEMMA MomentsAreInt == zone \in Zones => Moments \subseteq Int
BY ZoneIsInt, ReadingsAssumption DEF Moments
-----------------------------------------------------------------------------
(* The invariant holds at first and through every step *)

LEMMA KeepInit == Init => KeepInv
<1>. SUFFICES ASSUME Init PROVE KeepInv  OBVIOUS
<1>1. zone \in Zones /\ now \in Int  BY MomentsAreInt DEF Init
<1>2. \A c \in Customers : page[c] = NoPage /\ request[c] = None /\ order[c] = None
      BY DEF Init
<1>3. /\ {"slots", "minute"} \subseteq DOMAIN NoPage
      /\ DOMAIN NoPage.slots \subseteq Picks /\ NoPage.minute \in Minutes
      BY DEF NoPage, Minutes
<1>4. /\ page = [c \in Customers |-> page[c]]
      /\ request = [c \in Customers |-> request[c]]
      /\ order = [c \in Customers |-> order[c]]
      BY DEF Init
<1>. QED  BY <1>1, <1>2, <1>3, <1>4 DEF KeepInv

LEMMA ClockIsInt == ASSUME zone \in Zones, NEW t \in Int
                    PROVE  Clock(t).day \in Int
BY ZoneIsInt DEF Clock, restaurantClock, Wall, offsetMinutesAt, DayMinutes

\* A request that is accepted keeps the instant of what it was sent
LEMMA AcceptedKeeps ==
    ASSUME zone \in Zones, NEW c \in Customers, NEW r,
           r.at \in Int, r.sent.minute \in Minutes, Accepts(c, r)
    PROVE  RequestedFor(r) # None =>
               /\ r.sent.day \in Int
               /\ r.sent.minute \in Int
               /\ RequestedFor(r) = zonedTimeToInstant(zone, r.sent.day, r.sent.minute)
<1>1. CASE Asap(r)  BY <1>1 DEF RequestedFor
<1>2. CASE ~Asap(r)
  <2>1. r.sent.day = Clock(r.at).day  BY <1>2 DEF Accepts
  <2>2. r.sent.day \in Int  BY <2>1, ClockIsInt
  <2>3. r.sent.minute \in Int
    <3>1. r.sent.minute \in Picks  BY <1>2 DEF Minutes, Asap
    <3>. QED  BY <3>1, PicksAreInt
  <2>4. RequestedFor(r) = zonedTimeToInstant(zone, r.sent.day, r.sent.minute)
        BY <1>2, <2>1 DEF RequestedFor, BusinessDay
  <2>. QED  BY <2>2, <2>3, <2>4
<1>. QED  BY <1>1, <1>2

LEMMA KeepNext == KeepInv /\ [Next]_vars => KeepInv'
<1>. SUFFICES ASSUME KeepInv, [Next]_vars PROVE KeepInv'  OBVIOUS
<1>. USE DEF KeepInv
<1>1. CASE Tick
  <2>1. now' \in Int  BY <1>1, MomentsAreInt DEF Tick
  <2>. QED  BY <1>1, <2>1 DEF Tick, Keeps, RequestKeeps
<1>2. CASE Office
  <2>1. UNCHANGED <<zone, now, page, request, order>>
        BY <1>2 DEF Office, setOrderingPaused, saveHours, saveService, saveScheduling,
                    PressClosed, closeToday, reopenToday, Save
  <2>. QED  BY <2>1 DEF Keeps, RequestKeeps
<1>3. ASSUME NEW c \in Customers, Render(c) PROVE KeepInv'
  <2>1. UNCHANGED <<zone, now, request, order>>  BY <1>3 DEF Render
  <2>2. /\ {"slots", "minute"} \subseteq DOMAIN page'[c]
        /\ DOMAIN page'[c].slots \subseteq Picks
        /\ page'[c].minute = page[c].minute
        BY <1>3 DEF Render
  <2>3. \A d \in Customers \ {c} : page'[d] = page[d]  BY <1>3 DEF Render
  <2>4. page' = [d \in Customers |-> page'[d]]  BY <1>3 DEF Render
  <2>. QED  BY <2>1, <2>2, <2>3, <2>4 DEF Keeps, RequestKeeps
<1>4. ASSUME NEW c \in Customers, Choose(c) PROVE KeepInv'
  <2>1. UNCHANGED <<zone, now, request, order>>  BY <1>4 DEF Choose
  <2>2. /\ DOMAIN page'[c] = DOMAIN page[c]
        /\ page'[c].slots = page[c].slots
        /\ page'[c].minute \in Minutes
        BY <1>4 DEF Choose, Minutes
  <2>3. \A d \in Customers \ {c} : page'[d] = page[d]  BY <1>4 DEF Choose
  <2>4. page' = [d \in Customers |-> page'[d]]  BY <1>4 DEF Choose
  <2>. QED  BY <2>1, <2>2, <2>3, <2>4 DEF Keeps, RequestKeeps
<1>5. ASSUME NEW c \in Customers, Submit(c) PROVE KeepInv'
  <2>1. UNCHANGED <<zone, now, page, order>>  BY <1>5 DEF Submit
  <2>2. RequestKeeps(request'[c])  BY <1>5 DEF Submit, RequestKeeps
  <2>3. \A d \in Customers \ {c} : request'[d] = request[d]  BY <1>5 DEF Submit
  <2>4. request' = [d \in Customers |-> request'[d]]  BY <1>5 DEF Submit
  <2>. QED  BY <2>1, <2>2, <2>3, <2>4 DEF Keeps, RequestKeeps
<1>6. ASSUME NEW c \in Customers, Consider(c) PROVE KeepInv'
  <2>1. UNCHANGED <<zone, now, page, order>>  BY <1>6 DEF Consider
  <2>2. request'[c] # None => RequestKeeps(request'[c])
    <3>1. CASE Accepts(c, request[c])
      <4>. DEFINE r == request[c]
      <4>1. r.at \in Int /\ r.sent.minute \in Minutes
            BY <1>6 DEF Consider, RequestKeeps
      <4>2. /\ request'[c].step = "insert"
            /\ request'[c].sent = r.sent
            /\ request'[c].requestedFor = RequestedFor(r)
            BY <1>6, <3>1 DEF Consider
      <4>. QED  BY <3>1, <4>1, <4>2, AcceptedKeeps DEF RequestKeeps, Keeps
    <3>2. CASE ~Accepts(c, request[c])  BY <1>6, <3>2 DEF Consider
    <3>. QED  BY <3>1, <3>2
  <2>3. \A d \in Customers \ {c} : request'[d] = request[d]  BY <1>6 DEF Consider
  <2>4. request' = [d \in Customers |-> request'[d]]  BY <1>6 DEF Consider
  <2>5. \A d \in Customers \ {c} :
            request'[d] # None => RequestKeeps(request'[d])  BY <2>3
  <2>. QED  BY <2>1, <2>2, <2>4, <2>5 DEF Keeps, RequestKeeps
<1>7. ASSUME NEW c \in Customers, Insert(c) PROVE KeepInv'
  <2>1. UNCHANGED <<zone, now>>  BY <1>7 DEF Insert
  <2>2. {"requestedFor", "sent"} \subseteq DOMAIN order'[c] /\ Keeps(order'[c])
        BY <1>7 DEF Insert, RequestKeeps, Keeps
  <2>3. page'[c] = NoPage /\ request'[c] = None  BY <1>7 DEF Insert
  <2>4. /\ {"slots", "minute"} \subseteq DOMAIN NoPage
        /\ DOMAIN NoPage.slots \subseteq Picks /\ NoPage.minute \in Minutes
        BY DEF NoPage, Minutes
  <2>5. \A d \in Customers \ {c} :
            page'[d] = page[d] /\ request'[d] = request[d] /\ order'[d] = order[d]
        BY <1>7 DEF Insert
  <2>6. /\ page' = [d \in Customers |-> page'[d]]
        /\ request' = [d \in Customers |-> request'[d]]
        /\ order' = [d \in Customers |-> order'[d]]
        BY <1>7 DEF Insert
  <2>. QED  BY <2>1, <2>2, <2>3, <2>4, <2>5, <2>6 DEF Keeps, RequestKeeps
<1>8. ASSUME NEW c \in Customers, Finish(c) PROVE KeepInv'
  <2>1. UNCHANGED <<zone, now, page, request>>  BY <1>8 DEF Finish
  <2>2. order[c] # None  BY <1>8 DEF Finish, Open
  <2>3. /\ DOMAIN order'[c] = DOMAIN order[c]
        /\ order'[c].requestedFor = order[c].requestedFor
        /\ order'[c].sent = order[c].sent
    <3>1. {"requestedFor", "sent"} \subseteq DOMAIN order[c]  BY <2>2
    <3>2. order'[c] = [order[c] EXCEPT !.open = FALSE]  BY <1>8 DEF Finish
    <3>. HIDE DEF KeepInv
    <3>. QED  BY <3>1, <3>2
  <2>4. \A d \in Customers \ {c} : order'[d] = order[d]  BY <1>8 DEF Finish
  <2>5. order' = [d \in Customers |-> order'[d]]  BY <1>8 DEF Finish
  <2>. QED  BY <2>1, <2>2, <2>3, <2>4, <2>5 DEF Keeps, RequestKeeps
<1>9. CASE UNCHANGED vars  BY <1>9 DEF vars, Keeps, RequestKeeps
<1>. QED  BY <1>1, <1>2, <1>3, <1>4, <1>5, <1>6, <1>7, <1>8, <1>9 DEF Next, Customer

\* Every request past the calendar, and every order, keeps the instant of what
\* it was sent (placement.ts, business-day.ts zonedTimeToInstant).
THEOREM KeepInvariant == Spec => []KeepInv
<1>1. Init => KeepInv  BY KeepInit
<1>2. KeepInv /\ [Next]_vars => KeepInv'  BY KeepNext
<1>. QED  BY <1>1, <1>2, PTL DEF Spec

LEMMA KeepGives == KeepInv => PickupIsTheOneAsked
<1>. SUFFICES ASSUME KeepInv, NEW c \in Customers,
                     order[c] # None, order[c].requestedFor # None,
                     Happens(order[c].sent.day, order[c].sent.minute)
              PROVE  Wall(zone, order[c].requestedFor)
                         = order[c].sent.day * DayMinutes + order[c].sent.minute
     BY DEF PickupIsTheOneAsked
<1>1. Keeps(order[c])  BY DEF KeepInv
<1>. QED  BY <1>1, OnePassIsEnough, ZoneIsInt DEF KeepInv, Keeps

\* The pickup a customer is promised is the day and minute the request asked
\* for, whenever the restaurant's clock shows it at all (placement.ts,
\* business-day.ts zonedTimeToInstant), whatever the zone and the day.
THEOREM PromisedPickup == Spec => []PickupIsTheOneAsked
<1>1. KeepInv => PickupIsTheOneAsked  BY KeepGives
<1>. QED  BY <1>1, KeepInvariant, PTL

-----------------------------------------------------------------------------
(* What the office may have saved *)

Rows  == [open : 0..(DayMinutes - 1), close : 1..DayMinutes]
Weeks == UNION {[D -> Rows] : D \in SUBSET (0..6)}

Stores == [paused : BOOLEAN, closedOnDay : Int \union {None}, scheduling : BOOLEAN,
           service : Services, schedule : Schedules, hours : Weeks]

OfficeInv ==
    /\ zone \in Zones
    /\ now \in Int
    /\ store \in Stores
    /\ closing \in Int \union {None}

\* A typed row is stored as one of the week's.
LEMMA ParsedIsARow ==
    ASSUME NEW row \in [open  : 0..(DayMinutes - 1), close : 0..(DayMinutes - 1)]
    PROVE  Parsed(row) \in Rows
<1>1. CASE row.close = 0
  BY <1>1 DEF Parsed, Rows, DayMinutes
<1>2. CASE row.close # 0
  BY <1>2 DEF Parsed, Rows, DayMinutes
<1> QED BY <1>1, <1>2

\* A typed form is stored as a week.
LEMMA ParsedIsAWeek ==
    ASSUME NEW f \in Forms
    PROVE  [w \in DOMAIN f |-> Parsed(f[w])] \in Weeks
<1>1. DOMAIN f \in SUBSET (0..6)
  BY FormsAssumption
<1>2. \A w \in DOMAIN f : Parsed(f[w]) \in Rows
  BY FormsAssumption, ParsedIsARow
<1>3. [w \in DOMAIN f |-> Parsed(f[w])] \in [DOMAIN f -> Rows]
  BY <1>2
<1> QED BY <1>1, <1>3 DEF Weeks

\* What the forms take is counted from zero up.
LEMMA CutoffIn ==
    ASSUME NEW A, NEW B, NEW C, NEW D,
           NEW n \in [cutoff : A, maxOpenWeight : B, prepBase : C, prepPerWeight : D]
    PROVE  n.cutoff \in A
OBVIOUS

LEMMA SlotWeightIn ==
    ASSUME NEW A, NEW B, NEW C, NEW n \in [interval : A, lead : B, maxSlotWeight : C]
    PROVE  n.maxSlotWeight \in C
OBVIOUS

LEMMA TypedNumbers ==
    /\ \A n \in Services : n.cutoff \in Nat
    /\ \A n \in Schedules : n.maxSlotWeight \in Nat
<1>1. ASSUME NEW n \in Services PROVE n.cutoff \in 0..720
  <2>1. n \in [cutoff   : 0..720, maxOpenWeight : 1..500,
               prepBase : 0..240, prepPerWeight : 0..60]
    BY NumbersAssumption, Zenon
  <2> QED BY <2>1, CutoffIn, Zenon
<1>2. ASSUME NEW n \in Schedules PROVE n.maxSlotWeight \in 1..500
  <2>1. n \in [interval : 5..60, lead : 0..240, maxSlotWeight : 1..500]
    BY NumbersAssumption, Zenon
  <2> QED BY <2>1, SlotWeightIn, Zenon
<1>3. \A n \in Services : n.cutoff \in Nat
  <2>1. ASSUME NEW x \in 0..720 PROVE x \in Nat
    OBVIOUS
  <2>2. ASSUME NEW n \in Services PROVE n.cutoff \in Nat
    <3> DEFINE c == n.cutoff
    <3>1. c \in 0..720
      BY <1>1, Zenon
    <3> HIDE DEF c
    <3>2. c \in Nat
      BY <3>1, <2>1
    <3> QED BY <3>2 DEF c
  <2> QED BY <2>2, Zenon
<1>4. \A n \in Schedules : n.maxSlotWeight \in Nat
  <2>1. ASSUME NEW x \in 1..500 PROVE x \in Nat
    OBVIOUS
  <2>2. ASSUME NEW n \in Schedules PROVE n.maxSlotWeight \in Nat
    <3> DEFINE c == n.maxSlotWeight
    <3>1. c \in 1..500
      BY <1>2, Zenon
    <3> HIDE DEF c
    <3>2. c \in Nat
      BY <3>1, <2>1
    <3> QED BY <3>2 DEF c
  <2> QED BY <2>2, Zenon
<1> QED BY <1>3, <1>4, Zenon

\* Saving one form leaves a settings row.
LEMMA SavesStore ==
    ASSUME NEW st \in Stores
    PROVE  /\ st.paused \in BOOLEAN /\ st.scheduling \in BOOLEAN
           /\ st.closedOnDay \in Int \union {None}
           /\ st.service \in Services /\ st.schedule \in Schedules /\ st.hours \in Weeks
           /\ \A b \in BOOLEAN : [st EXCEPT !.paused = b] \in Stores
           /\ \A b \in BOOLEAN, n \in Schedules :
                  [st EXCEPT !.scheduling = b, !.schedule = n] \in Stores
           /\ \A h \in Weeks : [st EXCEPT !.hours = h] \in Stores
           /\ \A n \in Services : [st EXCEPT !.service = n] \in Stores
           /\ \A x \in Int \union {None} : [st EXCEPT !.closedOnDay = x] \in Stores
<1>1. /\ st.paused \in BOOLEAN /\ st.scheduling \in BOOLEAN
      /\ st.closedOnDay \in Int \union {None}
      /\ st.service \in Services /\ st.schedule \in Schedules /\ st.hours \in Weeks
  BY Zenon DEF Stores
<1>2. \A b \in BOOLEAN : [st EXCEPT !.paused = b] \in Stores
  BY Zenon DEF Stores
<1>3. \A b \in BOOLEAN, n \in Schedules :
          [st EXCEPT !.scheduling = b, !.schedule = n] \in Stores
  BY DEF Stores
<1>4. \A h \in Weeks : [st EXCEPT !.hours = h] \in Stores
  BY DEF Stores
<1>5. \A n \in Services : [st EXCEPT !.service = n] \in Stores
  BY DEF Stores
<1>6. \A x \in Int \union {None} : [st EXCEPT !.closedOnDay = x] \in Stores
  BY DEF Stores
<1> QED BY <1>1, <1>2, <1>3, <1>4, <1>5, <1>6

\* The reading of an instant: a day, a weekday and a minute of the day.
LEMMA ClockReads ==
    ASSUME zone \in Zones, NEW t \in Int
    PROVE  /\ Wall(zone, t) \in Int
           /\ Clock(t).day \in Int
           /\ Clock(t).minuteOfDay \in Int
           /\ 0 <= Clock(t).minuteOfDay /\ Clock(t).minuteOfDay < 1440
           /\ Clock(t).weekday = Clock(t).day % 7
           /\ Wall(zone, t) = Clock(t).day * 1440 + Clock(t).minuteOfDay
<1>1. Wall(zone, t) \in Int
  BY ZoneIsInt DEF Wall, offsetMinutesAt
<1>2. PICK n \in Int : n = Wall(zone, t)
  BY <1>1
<1>3. /\ n \div 1440 \in Int /\ n % 1440 \in Int
      /\ 0 <= n % 1440 /\ n % 1440 < 1440
      /\ n = (n \div 1440) * 1440 + (n % 1440)
  BY <1>2
<1> QED BY <1>1, <1>2, <1>3 DEF Clock, restaurantClock, DayMinutes

LEMMA OfficeInit == Init => OfficeInv
<1> SUFFICES ASSUME Init PROVE OfficeInv
  OBVIOUS
<1>1. zone \in Zones /\ now \in Int
  BY MomentsAreInt DEF Init
<1>2. PICK f \in Forms : store.hours = [w \in DOMAIN f |-> Parsed(f[w])]
  BY DEF Init
<1>3. store.hours \in Weeks
  BY <1>2, ParsedIsAWeek
<1>4. /\ store = [paused |-> FALSE, closedOnDay |-> None, scheduling |-> TRUE,
                  service |-> store.service, schedule |-> store.schedule,
                  hours |-> store.hours]
      /\ store.service \in Services /\ store.schedule \in Schedules
  BY DEF Init
<1>5. store \in Stores
  <2>1. None \in Int \union {None}
    OBVIOUS
  <2>2. \A h \in Weeks, p \in BOOLEAN, q \in BOOLEAN, n \in Services, m \in Schedules :
            [paused |-> p, closedOnDay |-> None, scheduling |-> q,
             service |-> n, schedule |-> m, hours |-> h] \in Stores
    BY <2>1 DEF Stores
  <2>3. FALSE \in BOOLEAN /\ TRUE \in BOOLEAN
    OBVIOUS
  <2> QED BY <1>3, <1>4, <2>2, <2>3, Zenon
<1> QED BY <1>1, <1>5 DEF OfficeInv, Init

LEMMA OfficeNext == OfficeInv /\ [Next]_vars => OfficeInv'
<1> SUFFICES ASSUME OfficeInv, [Next]_vars PROVE OfficeInv'
  OBVIOUS
<1> USE DEF OfficeInv
<1>1. CASE Tick
  <2>1. now' \in Int
    BY <1>1, MomentsAreInt DEF Tick
  <2> QED BY <1>1, <2>1 DEF Tick
<1>2. CASE setOrderingPaused
  <2>1. (~store.paused) \in BOOLEAN
    OBVIOUS
  <2>2. store' = [store EXCEPT !.paused = ~store.paused]
        /\ UNCHANGED <<zone, now, closing>>
    BY <1>2 DEF setOrderingPaused, Save
  <2> QED BY <2>1, <2>2, SavesStore
<1>3. CASE saveScheduling
  <2>1. PICK on \in BOOLEAN, n \in Schedules :
            /\ store' = [store EXCEPT !.scheduling = on, !.schedule = n]
            /\ UNCHANGED <<zone, now, closing>>
    BY <1>3 DEF saveScheduling, Save
  <2> QED BY <2>1, SavesStore
<1>4. CASE saveHours
  <2>1. PICK f \in Forms :
            /\ store' = [store EXCEPT !.hours = [w \in DOMAIN f |-> Parsed(f[w])]]
            /\ UNCHANGED <<zone, now, closing>>
    BY <1>4 DEF saveHours, Save
  <2>2. [w \in DOMAIN f |-> Parsed(f[w])] \in Weeks
    BY ParsedIsAWeek
  <2> QED BY <2>1, <2>2, SavesStore
<1>5. CASE saveService
  <2>1. PICK n \in Services : /\ store' = [store EXCEPT !.service = n]
                              /\ UNCHANGED <<zone, now, closing>>
    BY <1>5 DEF saveService, Save
  <2> QED BY <2>1, SavesStore
<1>6. CASE PressClosed
  BY <1>6, ClockReads DEF PressClosed
<1>7. CASE closeToday
  <2>1. store' = [store EXCEPT !.closedOnDay = closing]
        /\ closing' = None /\ UNCHANGED <<zone, now>>
    BY <1>7 DEF closeToday
  <2> QED BY <2>1, SavesStore
<1>8. CASE reopenToday
  <2>1. store' = [store EXCEPT !.closedOnDay = None] /\ UNCHANGED <<zone, now, closing>>
    BY <1>8 DEF reopenToday
  <2> QED BY <2>1, SavesStore
<1>9. ASSUME NEW c \in Customers, Customer(c) PROVE OfficeInv'
  BY <1>9 DEF Customer, Render, Choose, Submit, Consider, Insert, Finish
<1>10. CASE UNCHANGED vars
  BY <1>10 DEF vars
<1> QED BY <1>1, <1>2, <1>3, <1>4, <1>5, <1>6, <1>7, <1>8, <1>9, <1>10 DEF Next, Office

-----------------------------------------------------------------------------
(* The openings around today, on the wall clock and as today's clock       *)
(* measures them                                                           *)

HasHours(e) == e % 7 \in DOMAIN store.hours

On(e)   == OpeningOf(store.hours[e % 7], e, e * DayMinutes)
Here(e) == OpeningOf(store.hours[e % 7], e, (e - Today) * DayMinutes)

RunsToday == HasHours(Today) /\ During(On(Today), WallNow)
SpillsOver == /\ HasHours(Today - 1)
              /\ During(On(Today - 1), WallNow)
              /\ store.closedOnDay # Today - 1

\* A row of the week opens within its day.
LEMMA RowReads ==
    ASSUME OfficeInv, NEW w \in DOMAIN store.hours
    PROVE  /\ w \in 0..6
           /\ store.hours[w].open \in Int /\ store.hours[w].close \in Int
           /\ 0 <= store.hours[w].open /\ store.hours[w].open < 1440
           /\ 0 < store.hours[w].close /\ store.hours[w].close <= 1440
<1>1. store.hours \in Weeks
  BY SavesStore DEF OfficeInv
<1>2. PICK D \in SUBSET (0..6) : store.hours \in [D -> Rows]
  BY <1>1 DEF Weeks
<1>3. w \in 0..6 /\ store.hours[w] \in Rows
  BY <1>2
<1>4. PICK row \in Rows : row = store.hours[w]
  BY <1>3
<1>5. /\ row.open \in Int /\ row.close \in Int
      /\ 0 <= row.open /\ row.open < 1440
      /\ 0 < row.close /\ row.close <= 1440
  <2>1. row.open \in 0..(DayMinutes - 1) /\ row.close \in 1..DayMinutes
    BY DEF Rows
  <2>2. DayMinutes = 1440
    BY DEF DayMinutes
  <2>3. /\ row.open \in Int /\ row.close \in Int
        /\ 0 <= row.open /\ row.open < DayMinutes
        /\ 0 < row.close /\ row.close <= DayMinutes
    <3>1. PICK k \in Int : k = DayMinutes
      BY <2>2
    <3> QED BY <2>1, <3>1
  <2> QED BY <2>2, <2>3
<1> QED BY <1>3, <1>4, <1>5

\* Today and the minute of the day make the reading on the wall.
LEMMA NowReads ==
    ASSUME OfficeInv
    PROVE  /\ Today \in Int
           /\ Clock(now).minuteOfDay \in Int
           /\ 0 <= Clock(now).minuteOfDay /\ Clock(now).minuteOfDay < 1440
           /\ Clock(now).weekday = Today % 7
           /\ WallNow = Today * 1440 + Clock(now).minuteOfDay
           /\ WallNow \in Int
BY ClockReads DEF OfficeInv, Today, WallNow

\* An opening starts on its own day and ends within a day of its start.
LEMMA OnReads ==
    ASSUME OfficeInv, NEW e \in Int, HasHours(e)
    PROVE  /\ On(e).day = e
           /\ On(e).open \in Int /\ On(e).close \in Int
           /\ e * 1440 <= On(e).open /\ On(e).open < e * 1440 + 1440
           /\ On(e).open < On(e).close /\ On(e).close <= On(e).open + 1440
           /\ Here(e).day = e
           /\ Here(e).open = On(e).open - Today * 1440
           /\ Here(e).close = On(e).close - Today * 1440
<1>1. PICK w \in DOMAIN store.hours : w = e % 7
  BY DEF HasHours
<1>2. /\ store.hours[w].open \in Int /\ store.hours[w].close \in Int
      /\ 0 <= store.hours[w].open /\ store.hours[w].open < 1440
      /\ 0 < store.hours[w].close /\ store.hours[w].close <= 1440
  BY RowReads
<1>3. PICK o \in Int, x \in Int :
          /\ o = store.hours[e % 7].open /\ x = store.hours[e % 7].close
          /\ 0 <= o /\ o < 1440 /\ 0 < x /\ x <= 1440
  BY <1>1, <1>2
<1>4. PICK t \in Int : t = Today
  BY NowReads
<1>5. /\ On(e).day = e /\ Here(e).day = e
      /\ On(e).open = e * 1440 + o
      /\ Here(e).open = (e - t) * 1440 + o
      /\ On(e).close = e * 1440 + x + (IF x <= o THEN 1440 ELSE 0)
      /\ Here(e).close = (e - t) * 1440 + x + (IF x <= o THEN 1440 ELSE 0)
  BY <1>3, <1>4 DEF On, Here, OpeningOf, Overnight, DayMinutes
<1> QED BY <1>3, <1>4, <1>5

\* The second account of the calendar has the openings of the days with hours.
LEMMA ShiftsAre ==
    ASSUME NEW a \in Int, NEW b \in Int
    PROVE  \A s : s \in Shifts(store, a, b)
                  <=> \E e \in a..b : HasHours(e) /\ s = On(e)
BY DEF Shifts, HasHours, On

\* Yesterday's weekday is the one six after today's.
LEMMA WeekTurns ==
    ASSUME NEW d \in Int
    PROVE  /\ (d - 1) % 7 = ((d % 7) + 6) % 7
           /\ \A n \in 1..7 : (d + n) % 7 = ((d % 7) + n) % 7
OBVIOUS

\* Today's opening and yesterday's, as the gate works them out.
LEMMA TodaysAndSpill ==
    ASSUME OfficeInv
    PROVE  /\ TodaysOpening(store, Clock(now)) =
                  IF HasHours(Today) THEN {Here(Today)} ELSE {}
           /\ {o \in TodaysOpening(store, Clock(now)) : Runs(o, Clock(now))} =
                  IF RunsToday THEN {Here(Today)} ELSE {}
           /\ Spill(store, Clock(now)) =
                  IF SpillsOver THEN {Here(Today - 1)} ELSE {}
<1> DEFINE clock == Clock(now)
<1>1. /\ Today \in Int /\ clock.day = Today
      /\ clock.minuteOfDay \in Int
      /\ 0 <= clock.minuteOfDay /\ clock.minuteOfDay < 1440
      /\ clock.weekday = Today % 7
      /\ WallNow = Today * 1440 + clock.minuteOfDay
  BY NowReads DEF Today
<1>2. (Today - Today) * DayMinutes = 0 /\ ((Today - 1) - Today) * DayMinutes = -DayMinutes
  BY <1>1 DEF DayMinutes
<1>3. TodaysOpening(store, clock) = IF HasHours(Today) THEN {Here(Today)} ELSE {}
  BY <1>1, <1>2 DEF TodaysOpening, HasHours, Here
<1>4. ASSUME HasHours(Today)
      PROVE  Runs(Here(Today), clock) <=> During(On(Today), WallNow)
  <2>1. /\ Here(Today).open = On(Today).open - Today * 1440
        /\ Here(Today).close = On(Today).close - Today * 1440
        /\ On(Today).open \in Int /\ On(Today).close \in Int
    BY <1>1, <1>4, OnReads
  <2> QED BY <1>1, <2>1 DEF Runs, During
<1>5. {o \in TodaysOpening(store, clock) : Runs(o, clock)} =
          IF RunsToday THEN {Here(Today)} ELSE {}
  BY <1>3, <1>4 DEF RunsToday
<1>6. (clock.weekday + 6) % 7 = (Today - 1) % 7
  BY <1>1, WeekTurns
<1>7. Spill(store, clock) =
          {o \in (IF HasHours(Today - 1) THEN {Here(Today - 1)} ELSE {}) :
               clock.minuteOfDay < o.close /\ store.closedOnDay # o.day}
  BY <1>1, <1>2, <1>6 DEF Spill, HasHours, Here, previousDay
<1>8. ASSUME HasHours(Today - 1)
      PROVE  /\ Here(Today - 1).day = Today - 1
             /\ clock.minuteOfDay < Here(Today - 1).close
                    <=> During(On(Today - 1), WallNow)
  <2>1. Today - 1 \in Int
    BY <1>1
  <2> DEFINE e == Today - 1
  <2>2. /\ Here(e).day = e
        /\ Here(e).close = On(e).close - Today * 1440
        /\ On(e).open \in Int /\ On(e).close \in Int
        /\ On(e).open < e * 1440 + 1440
    BY <1>8, <2>1, OnReads
  <2>3. On(e).open <= WallNow
    BY <1>1, <2>1, <2>2
  <2> HIDE DEF e
  <2>4. clock.minuteOfDay < Here(e).close <=> During(On(e), WallNow)
    BY <1>1, <2>2, <2>3 DEF During
  <2> QED BY <2>2, <2>4 DEF e
<1>9. Spill(store, clock) = IF SpillsOver THEN {Here(Today - 1)} ELSE {}
  BY <1>7, <1>8 DEF SpillsOver
<1> QED BY <1>3, <1>5, <1>9

\* The opening the gate judges by: the one running, the later one if two do,
\* or the one today waits on or has had.
LEMMA CurrentIs ==
    ASSUME OfficeInv
    PROVE  currentOpening(store, Clock(now)) =
               IF RunsToday THEN {Here(Today)}
               ELSE IF SpillsOver THEN {Here(Today - 1)}
               ELSE IF HasHours(Today) THEN {Here(Today)}
               ELSE {}
<1> DEFINE todays  == TodaysOpening(store, Clock(now))
           running == {o \in todays : Runs(o, Clock(now))}
           spill   == Spill(store, Clock(now))
<1>1. currentOpening(store, Clock(now)) =
          IF running # {} THEN running ELSE IF spill # {} THEN spill ELSE todays
  BY DEF currentOpening
<1>2. /\ todays = IF HasHours(Today) THEN {Here(Today)} ELSE {}
      /\ running = IF RunsToday THEN {Here(Today)} ELSE {}
      /\ spill = IF SpillsOver THEN {Here(Today - 1)} ELSE {}
  BY TodaysAndSpill
<1> HIDE DEF todays, running, spill
<1> QED BY <1>1, <1>2

\* What the second account says is running.
LEMMA RunningAre ==
    ASSUME OfficeInv, NEW s
    PROVE  s \in RunningShifts
               <=> \/ RunsToday /\ s = On(Today) /\ store.closedOnDay # Today
                   \/ SpillsOver /\ s = On(Today - 1)
<1>1. Today \in Int /\ Today - 1 \in Int
  BY NowReads
<1>2. \A e \in Int : e \in (Today - 1)..Today <=> e = Today \/ e = Today - 1
  BY <1>1
<1>3. s \in RunningShifts
          <=> \E e \in {Today - 1, Today} :
                 /\ HasHours(e) /\ s = On(e)
                 /\ During(s, WallNow) /\ s.day # store.closedOnDay
  BY <1>1, <1>2, ShiftsAre DEF RunningShifts
<1>4. \A e \in {Today - 1, Today} : HasHours(e) => On(e).day = e
  BY <1>1, OnReads
<1> QED BY <1>3, <1>4 DEF RunsToday, SpillsOver

-----------------------------------------------------------------------------
(* The gate agrees with the wall clock *)

LEMMA SaysFields ==
    ASSUME NEW r, NEW d, NEW m
    PROVE  /\ Says(r, d, m).reason = r
           /\ Says(r, d, m).opensDay = d
           /\ Says(r, d, m).opensAt = m
           /\ JustSays(r).reason = r
           /\ JustSays(r).opensDay = None
BY DEF Says, JustSays

\* The next opening is said for the reason given.
LEMMA NextSays ==
    ASSUME NEW st, NEW clock, NEW r
    PROVE  nextOpening(st, clock, r).reason = r
<1> DEFINE ahead == {n \in 1..7 : (clock.weekday + n) % 7 \in DOMAIN st.hours}
           next  == CHOOSE n \in ahead : \A m \in ahead : n <= m
<1>1. nextOpening(st, clock, r) =
          IF ahead = {} THEN JustSays(r)
          ELSE Says(r, clock.day + next, st.hours[(clock.weekday + next) % 7].open)
  BY Zenon DEF nextOpening
<1> HIDE DEF ahead, next
<1> QED BY <1>1, SaysFields

\* Over an opening the door is open from its start to its cutoff.
LEMMA DoorReason ==
    ASSUME NEW st, NEW clock, NEW o
    PROVE  DoorOf(st, clock, o).reason = "open"
               <=> /\ ~(clock.minuteOfDay < o.open)
                   /\ clock.minuteOfDay < o.close - st.service.cutoff
<1> DEFINE next == nextOpening(st, clock, "closing_soon")
<1>1. next.reason = "closing_soon"
  BY NextSays
<1>2. DoorOf(st, clock, o) =
          IF clock.minuteOfDay < o.open THEN Says("outside_hours", clock.day, o.open)
          ELSE IF clock.minuteOfDay < o.close - st.service.cutoff THEN JustSays("open")
          ELSE IF clock.minuteOfDay < o.close THEN JustSays("closing_soon")
          ELSE next
  BY Zenon DEF DoorOf
<1> HIDE DEF next
<1> QED BY <1>1, <1>2, SaysFields

\* The gate, given the opening it judges by.
LEMMA GateOver ==
    ASSUME NEW o, currentOpening(store, Clock(now)) = {o},
           ~store.paused, store.closedOnDay # Today
    PROVE  Gate(store, Clock(now)).reason = "open"
               <=> /\ ~(OpenWeight(store, Clock(now)) >= store.service.maxOpenWeight)
                   /\ ~(Clock(now).minuteOfDay < o.open)
                   /\ Clock(now).minuteOfDay < o.close - store.service.cutoff
<1> DEFINE clock  == Clock(now)
           weight == OpenWeight(store, clock)
           door   == DoorOf(store, clock, o)
<1>1. (CHOOSE x \in currentOpening(store, clock) : TRUE) = o
      /\ currentOpening(store, clock) # {}
  OBVIOUS
<1>2. Gate(store, clock) =
          IF door.reason = "open" /\ weight >= store.service.maxOpenWeight
          THEN JustSays("too_busy") ELSE door
  BY <1>1, Zenon DEF Gate, checkoutGate, Today
<1>3. door.reason = "open"
          <=> /\ ~(clock.minuteOfDay < o.open)
              /\ clock.minuteOfDay < o.close - store.service.cutoff
  BY DoorReason
<1> HIDE DEF door, weight
<1>4. Gate(store, clock).reason = "open" <=> door.reason = "open" /\ ~(weight >= store.service.maxOpenWeight)
  BY <1>2, SaysFields
<1> QED BY <1>3, <1>4 DEF weight

LEMMA DoorAgrees == OfficeInv => DoorMatchesShifts
<1> SUFFICES ASSUME OfficeInv PROVE DoorMatchesShifts
  OBVIOUS
<1> DEFINE gate   == Gate(store, Clock(now))
           busy   == OpenWeight(store, Clock(now)) >= store.service.maxOpenWeight
           ahead(s) == WallNow < s.close - store.service.cutoff
           Last(s)  == s \in RunningShifts /\ \A r \in RunningShifts : r.day <= s.day
<1>0. SUFFICES gate.reason = "open"
                   <=> /\ ~store.paused
                       /\ store.closedOnDay # Today
                       /\ ~busy
                       /\ \E s : Last(s) /\ ahead(s)
  BY DEF DoorMatchesShifts
<1>1. /\ Today \in Int /\ WallNow \in Int
      /\ Clock(now).minuteOfDay \in Int
      /\ WallNow = Today * 1440 + Clock(now).minuteOfDay
  BY NowReads
<1>2. store.service.cutoff \in Int /\ 0 <= store.service.cutoff
  <2>1. store.service \in Services
    BY SavesStore DEF OfficeInv
  <2>2. store.service.cutoff \in Nat
    BY <2>1, TypedNumbers
  <2> QED BY <2>2
<1>3. CASE store.paused
  <2>1. gate = JustSays("manually_paused")
    BY <1>3, Zenon DEF Gate, checkoutGate
  <2> QED BY <1>3, <2>1, SaysFields
<1>4. CASE ~store.paused /\ store.closedOnDay = Today
  <2>1. gate = JustSays("closed_today")
    BY <1>4, Zenon DEF Gate, checkoutGate, Today
  <2> QED BY <1>4, <2>1, SaysFields
<1>5. CASE /\ ~store.paused /\ store.closedOnDay # Today
           /\ RunsToday
  <2>1. currentOpening(store, Clock(now)) = {Here(Today)}
    BY <1>5, CurrentIs
  <2>2. gate.reason = "open"
            <=> /\ ~busy
                /\ ~(Clock(now).minuteOfDay < Here(Today).open)
                /\ Clock(now).minuteOfDay < Here(Today).close - store.service.cutoff
    BY <1>5, <2>1, GateOver
  <2>3. /\ On(Today).day = Today
        /\ On(Today).open \in Int /\ On(Today).close \in Int
        /\ Here(Today).open = On(Today).open - Today * 1440
        /\ Here(Today).close = On(Today).close - Today * 1440
    BY <1>1, <1>5, OnReads DEF RunsToday
  <2>4. ~(Clock(now).minuteOfDay < Here(Today).open)
    BY <1>1, <1>5, <2>3 DEF RunsToday, During
  <2>5. Clock(now).minuteOfDay < Here(Today).close - store.service.cutoff <=> ahead(On(Today))
    BY <1>1, <1>2, <2>3
  <2>6. SpillsOver => On(Today - 1).day = Today - 1
    BY <1>1, OnReads DEF SpillsOver
  <2>7. \A s : Last(s) <=> s = On(Today)
    BY <1>1, <1>5, <2>3, <2>6, RunningAre
  <2> HIDE DEF gate, busy, Last, ahead
  <2> QED BY <1>5, <2>2, <2>4, <2>5, <2>7
<1>6. CASE /\ ~store.paused /\ store.closedOnDay # Today
           /\ ~RunsToday /\ SpillsOver
  <2>1. currentOpening(store, Clock(now)) = {Here(Today - 1)}
    BY <1>6, CurrentIs
  <2>2. gate.reason = "open"
            <=> /\ ~busy
                /\ ~(Clock(now).minuteOfDay < Here(Today - 1).open)
                /\ Clock(now).minuteOfDay < Here(Today - 1).close - store.service.cutoff
    BY <1>6, <2>1, GateOver
  <2> DEFINE e == Today - 1
  <2>3. /\ On(e).day = e
        /\ On(e).open \in Int /\ On(e).close \in Int
        /\ Here(e).open = On(e).open - Today * 1440
        /\ Here(e).close = On(e).close - Today * 1440
    BY <1>1, <1>6, OnReads DEF SpillsOver
  <2>4. ~(Clock(now).minuteOfDay < Here(e).open)
    BY <1>1, <1>6, <2>3 DEF SpillsOver, During
  <2>5. Clock(now).minuteOfDay < Here(e).close - store.service.cutoff <=> ahead(On(e))
    BY <1>1, <1>2, <2>3
  <2>7. \A s : Last(s) <=> s = On(e)
    BY <1>1, <1>6, <2>3, RunningAre
  <2> HIDE DEF gate, busy, Last, ahead
  <2> QED BY <1>6, <2>2, <2>4, <2>5, <2>7
<1>7. CASE /\ ~store.paused /\ store.closedOnDay # Today
           /\ ~RunsToday /\ ~SpillsOver
  <2>1. ~ \E s : Last(s)
    BY <1>7, RunningAre
  <2>2. gate.reason # "open"
    <3>1. CASE HasHours(Today)
      <4>1. currentOpening(store, Clock(now)) = {Here(Today)}
        BY <1>7, <3>1, CurrentIs
      <4>2. /\ On(Today).open \in Int /\ On(Today).close \in Int
            /\ Here(Today).open = On(Today).open - Today * 1440
            /\ Here(Today).close = On(Today).close - Today * 1440
        BY <1>1, <3>1, OnReads
      <4>3. ~(On(Today).open <= WallNow /\ WallNow < On(Today).close)
        BY <1>7, <3>1 DEF RunsToday, During
      <4>4. ~(/\ ~(Clock(now).minuteOfDay < Here(Today).open)
              /\ Clock(now).minuteOfDay < Here(Today).close - store.service.cutoff)
        BY <1>1, <1>2, <4>2, <4>3
      <4> QED BY <1>7, <4>1, <4>4, GateOver
    <3>2. CASE ~HasHours(Today)
      <4>1. currentOpening(store, Clock(now)) = {}
        BY <1>7, <3>2, CurrentIs
      <4>2. gate = nextOpening(store, Clock(now), "outside_hours")
        BY <1>7, <4>1, Zenon DEF Gate, checkoutGate, Today
      <4> QED BY <4>2, NextSays
    <3> QED BY <3>1, <3>2
  <2> QED BY <2>1, <2>2
<1> HIDE DEF gate, busy, Last, ahead
<1> QED BY <1>3, <1>4, <1>5, <1>6, <1>7

\* What the office saves stays a week of openings, the numbers of two forms and a
\* day: what the forms let through (settings/actions.ts saveHours, saveService,
\* saveScheduling).
THEOREM OfficeTypeCorrect == Spec => []OfficeInv
<1>1. Init => OfficeInv
  BY OfficeInit
<1>2. OfficeInv /\ [Next]_vars => OfficeInv'
  BY OfficeNext
<1> QED BY <1>1, <1>2, PTL DEF Spec

\* The door is open exactly while the latest shift on the wall clock still has
\* its cutoff ahead (checkout-gate.ts currentOpening, checkoutGate), for every
\* week of hours, every cutoff and every zone that changes its clocks once.
THEOREM DoorFollowsTheWall == Spec => []DoorMatchesShifts
<1>1. OfficeInv => DoorMatchesShifts
  BY DoorAgrees
<1> QED BY <1>1, OfficeTypeCorrect, PTL

-----------------------------------------------------------------------------
(* The opening a closed door names *)

Waits == HasHours(Today) /\ On(Today).open > WallNow

\* Some weekday of the week ahead with hours is the first of them.
LEMMA FirstOfAWeek ==
    ASSUME NEW S, S \subseteq 1..7, S # {}
    PROVE  \E n \in S : \A m \in S : n <= m
<1>1. CASE 1 \in S  BY <1>1
<1>2. CASE 1 \notin S /\ 2 \in S  BY <1>2
<1>3. CASE 1 \notin S /\ 2 \notin S /\ 3 \in S  BY <1>3
<1>4. CASE 1 \notin S /\ 2 \notin S /\ 3 \notin S /\ 4 \in S  BY <1>4
<1>5. CASE 1 \notin S /\ 2 \notin S /\ 3 \notin S /\ 4 \notin S /\ 5 \in S  BY <1>5
<1>6. CASE /\ 1 \notin S /\ 2 \notin S /\ 3 \notin S /\ 4 \notin S /\ 5 \notin S
           /\ 6 \in S
  BY <1>6
<1>7. CASE /\ 1 \notin S /\ 2 \notin S /\ 3 \notin S /\ 4 \notin S /\ 5 \notin S
           /\ 6 \notin S
  <2>1. \A m \in S : m = 7
    BY <1>7
  <2>2. 7 \in S
    BY <2>1
  <2> QED BY <2>1, <2>2
<1> QED BY <1>1, <1>2, <1>3, <1>4, <1>5, <1>6, <1>7

\* The walk over the week stops at the first day with hours.
LEMMA NextNames ==
    ASSUME OfficeInv, NEW r, nextOpening(store, Clock(now), r).opensDay # None
    PROVE  \E n \in 1..7 :
              LET named == nextOpening(store, Clock(now), r)
              IN  /\ HasHours(Today + n)
                  /\ \A k \in 1..7 : HasHours(Today + k) => n <= k
                  /\ named.opensDay = Today + n
                  /\ named.opensDay * 1440 + named.opensAt = On(Today + n).open
<1> DEFINE clock == Clock(now)
           ahead == {n \in 1..7 : (clock.weekday + n) % 7 \in DOMAIN store.hours}
           next  == CHOOSE n \in ahead : \A m \in ahead : n <= m
           named == nextOpening(store, clock, r)
<1>1. /\ Today \in Int /\ clock.day = Today /\ clock.weekday = Today % 7
  BY NowReads DEF Today
<1>2. \A n \in 1..7 : (clock.weekday + n) % 7 = (Today + n) % 7
  BY <1>1, WeekTurns
<1>3. named =
          IF ahead = {} THEN JustSays(r)
          ELSE Says(r, clock.day + next, store.hours[(clock.weekday + next) % 7].open)
  BY Zenon DEF nextOpening
<1>4. ahead = {n \in 1..7 : HasHours(Today + n)}
  BY <1>2 DEF HasHours
<1>5. ahead # {}
  <2> HIDE DEF ahead, next
  <2> QED BY <1>3, SaysFields
<1>6. next \in ahead /\ \A m \in ahead : next <= m
  <2>1. ahead \subseteq 1..7
    OBVIOUS
  <2> HIDE DEF ahead
  <2>2. \E n \in ahead : \A m \in ahead : n <= m
    BY <1>5, <2>1, FirstOfAWeek
  <2> QED BY <2>2
<1>7. /\ named.opensDay = Today + next
      /\ named.opensAt = store.hours[(clock.weekday + next) % 7].open
  <2> HIDE DEF ahead, next, named
  <2> QED BY <1>1, <1>3, <1>5, SaysFields
<1>8. PICK n \in 1..7 : n = next
  BY <1>6
<1>9. HasHours(Today + n) /\ \A k \in 1..7 : HasHours(Today + k) => n <= k
  BY <1>4, <1>6, <1>8
<1>10. named.opensDay = Today + n /\ named.opensAt = store.hours[(Today + n) % 7].open
  BY <1>2, <1>7, <1>8
<1>11. Today + n \in Int
  BY <1>1
<1>12. store.hours[(Today + n) % 7].open \in Int
  BY <1>9, RowReads DEF HasHours
<1>13. On(Today + n).open = (Today + n) * 1440 + store.hours[(Today + n) % 7].open
  BY DEF On, OpeningOf, DayMinutes
<1> HIDE DEF named, ahead, next
<1>14. named.opensDay * 1440 + named.opensAt = On(Today + n).open
  BY <1>10, <1>13
<1> QED BY <1>9, <1>10, <1>14 DEF named

\* A closed door names today's opening while it is ahead, or else the walk's.
LEMMA GateNames ==
    ASSUME OfficeInv, Gate(store, Clock(now)).opensDay # None
    PROVE  LET says == Gate(store, Clock(now))
           IN  \/ /\ Waits
                  /\ says.opensDay = Today
                  /\ says.opensDay * 1440 + says.opensAt = On(Today).open
               \/ /\ ~Waits
                  /\ \E r : says = nextOpening(store, Clock(now), r)
<1> DEFINE clock == Clock(now)
           says  == Gate(store, clock)
           weight == OpenWeight(store, clock)
<1>1. /\ Today \in Int /\ WallNow \in Int
      /\ clock.minuteOfDay \in Int /\ clock.day = Today
      /\ WallNow = Today * 1440 + clock.minuteOfDay
  BY NowReads DEF Today
<1>2. says.opensDay # None
  OBVIOUS
<1>3. ~store.paused
  <2>1. CASE store.paused
    <3>1. says = JustSays("manually_paused")
      BY <2>1, Zenon DEF Gate, checkoutGate
    <3> QED BY <1>2, <3>1, SaysFields
  <2> QED BY <2>1
<1>4. store.closedOnDay # clock.day
  <2>1. CASE store.closedOnDay = clock.day
    <3>1. says = JustSays("closed_today")
      BY <1>3, <2>1, Zenon DEF Gate, checkoutGate
    <3> QED BY <1>2, <3>1, SaysFields
  <2> QED BY <2>1
<1>5. CASE currentOpening(store, clock) = {}
  <2>1. says = nextOpening(store, clock, "outside_hours")
    BY <1>3, <1>4, <1>5, Zenon DEF Gate, checkoutGate
  <2>2. ~HasHours(Today)
    BY <1>5, CurrentIs
  <2> QED BY <2>1, <2>2 DEF Waits
<1>6. ASSUME NEW o, currentOpening(store, clock) = {o}
      PROVE  /\ says = DoorOf(store, clock, o)
             /\ \/ /\ clock.minuteOfDay < o.open
                   /\ says = Says("outside_hours", clock.day, o.open)
                \/ /\ ~(clock.minuteOfDay < o.open)
                   /\ ~(clock.minuteOfDay < o.close)
                   /\ says = nextOpening(store, clock, "closing_soon")
  <2> DEFINE door == DoorOf(store, clock, o)
             next == nextOpening(store, clock, "closing_soon")
  <2>1. (CHOOSE x \in currentOpening(store, clock) : TRUE) = o
        /\ currentOpening(store, clock) # {}
    BY <1>6
  <2>2. says = IF door.reason = "open" /\ weight >= store.service.maxOpenWeight
               THEN JustSays("too_busy") ELSE door
    BY <1>3, <1>4, <2>1, Zenon DEF Gate, checkoutGate
  <2>3. door =
          IF clock.minuteOfDay < o.open THEN Says("outside_hours", clock.day, o.open)
          ELSE IF clock.minuteOfDay < o.close - store.service.cutoff THEN JustSays("open")
          ELSE IF clock.minuteOfDay < o.close THEN JustSays("closing_soon")
          ELSE next
    BY Zenon DEF DoorOf
  <2> HIDE DEF door, next, says, weight
  <2>4. says = door
    BY <1>2, <2>2, SaysFields
  <2>5. \/ /\ clock.minuteOfDay < o.open
           /\ door = Says("outside_hours", clock.day, o.open)
        \/ /\ ~(clock.minuteOfDay < o.open)
           /\ ~(clock.minuteOfDay < o.close)
           /\ door = next
    BY <1>2, <2>3, <2>4, SaysFields
  <2> QED BY <2>4, <2>5 DEF door, next
<1>7. CASE currentOpening(store, clock) = {Here(Today)} /\ HasHours(Today)
  <2>1. /\ On(Today).open \in Int /\ On(Today).close \in Int
        /\ On(Today).open < On(Today).close
        /\ Here(Today).open = On(Today).open - Today * 1440
        /\ Here(Today).close = On(Today).close - Today * 1440
    BY <1>1, <1>7, OnReads
  <2>2. CASE /\ clock.minuteOfDay < Here(Today).open
             /\ says = Says("outside_hours", clock.day, Here(Today).open)
    <3>1. Waits
      BY <1>1, <1>7, <2>1, <2>2 DEF Waits
    <3>2. says.opensDay = Today /\ says.opensAt = Here(Today).open
      BY <1>1, <2>2, SaysFields
    <3>3. says.opensDay * 1440 + says.opensAt = On(Today).open
      <4> HIDE DEF says
      <4> QED BY <1>1, <2>1, <3>2
    <3> QED BY <3>1, <3>2, <3>3
  <2>3. CASE /\ ~(clock.minuteOfDay < Here(Today).open)
             /\ ~(clock.minuteOfDay < Here(Today).close)
             /\ says = nextOpening(store, clock, "closing_soon")
    <3>1. ~Waits
      BY <1>1, <2>1, <2>3 DEF Waits
    <3> QED BY <2>3, <3>1
  <2> QED BY <1>6, <1>7, <2>2, <2>3
<1>8. CASE currentOpening(store, clock) = {Here(Today - 1)} /\ SpillsOver
  <2> DEFINE e == Today - 1
  <2>1. /\ On(e).open \in Int /\ On(e).close \in Int
        /\ Here(e).open = On(e).open - Today * 1440
        /\ Here(e).close = On(e).close - Today * 1440
    BY <1>1, <1>8, OnReads DEF SpillsOver
  <2>2. ~(clock.minuteOfDay < Here(e).open) /\ clock.minuteOfDay < Here(e).close
    BY <1>1, <1>8, <2>1 DEF SpillsOver, During
  <2> QED BY <1>6, <1>8, <2>2
<1>9. \/ currentOpening(store, clock) = {}
      \/ currentOpening(store, clock) = {Here(Today)} /\ HasHours(Today)
      \/ currentOpening(store, clock) = {Here(Today - 1)} /\ SpillsOver
  BY CurrentIs DEF RunsToday
<1> HIDE DEF says
<1> QED BY <1>5, <1>7, <1>8, <1>9 DEF says

LEMMA NamesAgree == OfficeInv => NamesTheNextOpening
<1> SUFFICES ASSUME OfficeInv, Gate(store, Clock(now)).opensDay # None
             PROVE  LET says  == Gate(store, Clock(now))
                        named == says.opensDay * DayMinutes + says.opensAt
                        ahead == {s.open : s \in {r \in Shifts(store, Today, Today + 7) :
                                                     r.open > WallNow}}
                    IN  named \in ahead /\ \A a \in ahead : named <= a
  BY DEF NamesTheNextOpening
<1> DEFINE says  == Gate(store, Clock(now))
           named == says.opensDay * DayMinutes + says.opensAt
           ahead == {s.open : s \in {r \in Shifts(store, Today, Today + 7) :
                                        r.open > WallNow}}
           Days  == {e \in Today..(Today + 7) : HasHours(e) /\ On(e).open > WallNow}
<1>1. /\ Today \in Int /\ WallNow \in Int
      /\ Today * 1440 <= WallNow /\ WallNow < Today * 1440 + 1440
  BY NowReads
<1>2. ahead = {On(e).open : e \in Days}
  BY <1>1, ShiftsAre
<1>3. \A e \in Today..(Today + 7) : HasHours(e) =>
          /\ On(e).open \in Int
          /\ e * 1440 <= On(e).open /\ On(e).open < e * 1440 + 1440
  BY <1>1, OnReads
<1>4. \E e \in Days : named = On(e).open /\ \A d \in Days : e <= d
  <2>1. CASE /\ Waits
             /\ says.opensDay * 1440 + says.opensAt = On(Today).open
    <3>1. Today \in Days /\ \A d \in Days : Today <= d
      BY <1>1, <2>1 DEF Waits
    <3> QED BY <2>1, <3>1 DEF DayMinutes
  <2>2. CASE /\ ~Waits
             /\ \E r : says = nextOpening(store, Clock(now), r)
    <3>1. PICK r : says = nextOpening(store, Clock(now), r)
      BY <2>2
    <3>2. PICK n \in 1..7 :
              /\ HasHours(Today + n)
              /\ \A k \in 1..7 : HasHours(Today + k) => n <= k
              /\ says.opensDay * 1440 + says.opensAt = On(Today + n).open
      BY <3>1, NextNames
    <3>3. Today + n \in Days
      BY <1>1, <1>3, <3>2
    <3>4. ASSUME NEW d \in Days PROVE Today + n <= d
      <4>1. d # Today
        BY <2>2 DEF Waits
      <4>2. d - Today \in 1..7 /\ Today + (d - Today) = d
        BY <1>1, <4>1
      <4>3. n <= d - Today
        BY <3>2, <4>2
      <4> QED BY <1>1, <4>3
    <3> QED BY <3>2, <3>3, <3>4 DEF DayMinutes
  <2> HIDE DEF says, Days, named
  <2> QED BY <2>1, <2>2, GateNames DEF says
<1>5. PICK e \in Days : named = On(e).open /\ \A d \in Days : e <= d
  BY <1>4
<1>6. \A d \in Days : On(e).open <= On(d).open
  <2> SUFFICES ASSUME NEW d \in Days PROVE On(e).open <= On(d).open
    OBVIOUS
  <2>1. CASE e = d
    BY <1>1, <1>3, <2>1
  <2>2. CASE e < d
    BY <1>1, <1>3, <2>2
  <2> QED BY <1>1, <1>5, <2>1, <2>2
<1> HIDE DEF Days, named, ahead
<1>7. named \in ahead /\ \A a \in ahead : named <= a
  BY <1>2, <1>5, <1>6
<1> QED BY <1>7 DEF named, ahead, says

\* A closed door that names an opening names the first one ahead
\* (checkout-gate.ts nextOpeningMessage), for every week of hours.
THEOREM NextOpeningNamed == Spec => []NamesTheNextOpening
<1>1. OfficeInv => NamesTheNextOpening
  BY NamesAgree
<1> QED BY <1>1, OfficeTypeCorrect, PTL

-----------------------------------------------------------------------------
(* The day an order is stamped with and the shift it was taken for *)

Stamped(x) ==
    x.requestedFor = None =>
        \A o \in x.opening :
            \E a, b : o = [day |-> x.day, open |-> a, close |-> b]

TicketInv ==
    \A c \in Customers :
        /\ request[c] # None /\ request[c].step = "insert" => Stamped(request[c])
        /\ order[c] # None => /\ {"requestedFor", "day", "opening"} \subseteq DOMAIN order[c]
                              /\ Stamped(order[c])

\* Whatever the calendar answers, it is all of the one service day.
LEMMA OneServiceDay ==
    ASSUME NEW st, NEW clock
    PROVE  \A o \in currentOpening(st, clock) :
               \E a, b : o = [day |-> serviceDay(st, clock), open |-> a, close |-> b]
<1> DEFINE co == currentOpening(st, clock)
<1>1. \A o \in TodaysOpening(st, clock) :
          \E a, b : o = [day |-> clock.day, open |-> a, close |-> b]
  BY DEF TodaysOpening, OpeningOf
<1>2. \A o \in Spill(st, clock) :
          \E a, b : o = [day |-> previousDay(clock.day), open |-> a, close |-> b]
  BY DEF Spill, OpeningOf
<1>3. co \subseteq TodaysOpening(st, clock) \/ co \subseteq Spill(st, clock)
  <2> DEFINE todays  == TodaysOpening(st, clock)
             running == {o \in todays : Runs(o, clock)}
             spill   == Spill(st, clock)
  <2>1. co = IF running # {} THEN running ELSE IF spill # {} THEN spill ELSE todays
    BY DEF currentOpening
  <2>2. running \subseteq todays
    OBVIOUS
  <2> HIDE DEF todays, running, spill, co
  <2>3. co \subseteq todays \/ co \subseteq spill
    BY <2>1, <2>2
  <2> QED BY <2>3 DEF todays, spill
<1>4. \E d : \A o \in co : \E a, b : o = [day |-> d, open |-> a, close |-> b]
  BY <1>1, <1>2, <1>3
<1>5. PICK d : \A o \in co : \E a, b : o = [day |-> d, open |-> a, close |-> b]
  BY <1>4
<1>6. co # {} => serviceDay(st, clock) = d
  <2> HAVE co # {}
  <2>1. (CHOOSE o \in co : TRUE) \in co
    OBVIOUS
  <2>2. (CHOOSE o \in co : TRUE).day = d
    BY <1>5, <2>1
  <2> QED BY <2>2 DEF serviceDay
<1> HIDE DEF co
<1>7. \A o \in co : \E a, b : o = [day |-> serviceDay(st, clock), open |-> a, close |-> b]
  BY <1>5, <1>6
<1> QED BY <1>7 DEF co

\* A request that names a minute is kept an instant, never none.
LEMMA ScheduledHasInstant ==
    ASSUME zone \in Zones, NEW c \in Customers, NEW r,
           r.at \in Int, r.sent.minute \in Minutes, Accepts(c, r), ~Asap(r)
    PROVE  RequestedFor(r) # None
<1>1. r.sent.day = Clock(r.at).day
  BY DEF Accepts
<1>2. Clock(r.at).day \in Int
  BY ClockIsInt
<1>3. r.sent.minute \in Int
  BY PicksAreInt DEF Minutes, Asap
<1>4. PICK d \in Int, m \in Int : d = Clock(r.at).day /\ m = r.sent.minute
  BY <1>2, <1>3
<1>5. \A x \in Int : zonedTimeToInstant(zone, d, m) \in Int
  BY ZoneIsInt DEF zonedTimeToInstant, offsetMinutesAt, DayMinutes
<1>6. RequestedFor(r) = zonedTimeToInstant(zone, d, m)
  BY <1>4 DEF RequestedFor, BusinessDay
<1> QED BY <1>5, <1>6, PicksAssumption

LEMMA TicketInit == Init => TicketInv
BY DEF Init, TicketInv

LEMMA TicketNext == KeepInv /\ TicketInv /\ [Next]_vars => TicketInv'
<1> SUFFICES ASSUME KeepInv, TicketInv, [Next]_vars PROVE TicketInv'
  OBVIOUS
<1>1. CASE Tick
  BY <1>1 DEF Tick, TicketInv, Stamped
<1>2. CASE Office
  <2>1. UNCHANGED <<request, order>>
    BY <1>2 DEF Office, setOrderingPaused, saveHours, saveService, saveScheduling,
                PressClosed, closeToday, reopenToday, Save
  <2> QED BY <2>1 DEF TicketInv, Stamped
<1>3. ASSUME NEW c \in Customers, Render(c) \/ Choose(c) PROVE TicketInv'
  <2>1. UNCHANGED <<request, order>>
    BY <1>3 DEF Render, Choose
  <2> QED BY <2>1 DEF TicketInv, Stamped
<1>4. ASSUME NEW c \in Customers, Submit(c) PROVE TicketInv'
  <2>1. /\ order' = order
        /\ \A d \in Customers \ {c} : request'[d] = request[d]
    BY <1>4 DEF Submit
  <2>2. request'[c].step = "weigh"
    BY <1>4 DEF Submit, KeepInv
  <2> QED BY <2>1, <2>2 DEF TicketInv, Stamped
<1>5. ASSUME NEW c \in Customers, Consider(c) PROVE TicketInv'
  <2> DEFINE r == request[c]
  <2>1. /\ order' = order
        /\ \A d \in Customers \ {c} : request'[d] = request[d]
        /\ r # None /\ r.step = "weigh"
    BY <1>5 DEF Consider
  <2>2. zone \in Zones /\ r.at \in Int /\ r.sent.minute \in Minutes
    BY <2>1 DEF KeepInv, RequestKeeps
  <2>3. request'[c] # None => Stamped(request'[c])
    <3>1. CASE Accepts(c, r)
      <4>1. /\ request'[c].requestedFor = RequestedFor(r)
            /\ request'[c].day = BusinessDay(r)
            /\ request'[c].opening = currentOpening(r.seen, Clock(r.at))
        BY <1>5, <3>1 DEF Consider, KeepInv
      <4>2. CASE Asap(r)
        <5>1. BusinessDay(r) = serviceDay(r.seen, Clock(r.at))
          BY <4>2 DEF BusinessDay
        <5>2. \A o \in currentOpening(r.seen, Clock(r.at)) :
                  \E a, b : o = [day |-> serviceDay(r.seen, Clock(r.at)),
                                 open |-> a, close |-> b]
          BY OneServiceDay
        <5> QED BY <4>1, <5>1, <5>2 DEF Stamped
      <4>3. CASE ~Asap(r)
        BY <2>2, <3>1, <4>1, <4>3, ScheduledHasInstant DEF Stamped
      <4> QED BY <4>2, <4>3
    <3>2. CASE ~Accepts(c, r)
      BY <1>5, <3>2 DEF Consider, KeepInv
    <3> QED BY <3>1, <3>2
  <2>4. TicketInv' <=> \A d \in Customers :
            /\ request'[d] # None /\ request'[d].step = "insert" => Stamped(request'[d])
            /\ order'[d] # None =>
                   /\ {"requestedFor", "day", "opening"} \subseteq DOMAIN order'[d]
                   /\ Stamped(order'[d])
    BY DEF TicketInv, Stamped
  <2>5. \A d \in Customers : order'[d] # None =>
            /\ {"requestedFor", "day", "opening"} \subseteq DOMAIN order'[d]
            /\ Stamped(order'[d])
    BY <2>1 DEF TicketInv
  <2>6. \A d \in Customers :
            request'[d] # None /\ request'[d].step = "insert" => Stamped(request'[d])
    BY <2>1, <2>3 DEF TicketInv
  <2> QED BY <2>4, <2>5, <2>6
<1>6. ASSUME NEW c \in Customers, Insert(c) PROVE TicketInv'
  <2>1. request'[c] = None
    BY <1>6 DEF Insert, KeepInv
  <2>2. \A d \in Customers \ {c} : request'[d] = request[d] /\ order'[d] = order[d]
    BY <1>6 DEF Insert
  <2>3. /\ order'[c].requestedFor = request[c].requestedFor
        /\ order'[c].day = request[c].day
        /\ order'[c].opening = request[c].opening
        /\ request[c] # None /\ request[c].step = "insert"
    BY <1>6 DEF Insert, KeepInv
  <2>4. Stamped(request[c])
    BY <2>3 DEF TicketInv
  <2>5. /\ {"requestedFor", "day", "opening"} \subseteq DOMAIN order'[c]
        /\ Stamped(order'[c])
    <3>1. {"requestedFor", "day", "opening"} \subseteq DOMAIN order'[c]
      BY <1>6 DEF Insert, KeepInv
    <3> QED BY <2>3, <2>4, <3>1 DEF Stamped
  <2>6. TicketInv' <=> \A d \in Customers :
            /\ request'[d] # None /\ request'[d].step = "insert" => Stamped(request'[d])
            /\ order'[d] # None =>
                   /\ {"requestedFor", "day", "opening"} \subseteq DOMAIN order'[d]
                   /\ Stamped(order'[d])
    BY DEF TicketInv, Stamped
  <2>7. \A d \in Customers :
            request'[d] # None /\ request'[d].step = "insert" => Stamped(request'[d])
    BY <2>1, <2>2 DEF TicketInv
  <2>8. \A d \in Customers : order'[d] # None =>
            /\ {"requestedFor", "day", "opening"} \subseteq DOMAIN order'[d]
            /\ Stamped(order'[d])
    BY <2>2, <2>5 DEF TicketInv
  <2> QED BY <2>6, <2>7, <2>8
<1>7. ASSUME NEW c \in Customers, Finish(c) PROVE TicketInv'
  <2>1. request' = request /\ \A d \in Customers \ {c} : order'[d] = order[d]
    BY <1>7 DEF Finish
  <2>2. order[c] # None
    BY <1>7 DEF Finish, Open
  <2>3. order'[c] = [order[c] EXCEPT !.open = FALSE]
    BY <1>7 DEF Finish, KeepInv
  <2>4. /\ {"requestedFor", "day", "opening"} \subseteq DOMAIN order[c]
        /\ Stamped(order[c])
    BY <2>2 DEF TicketInv
  <2>5. /\ {"requestedFor", "day", "opening"} \subseteq DOMAIN order'[c]
        /\ order'[c].requestedFor = order[c].requestedFor
        /\ order'[c].day = order[c].day
        /\ order'[c].opening = order[c].opening
    BY <2>3, <2>4
  <2>6. Stamped(order'[c])
    BY <2>4, <2>5 DEF Stamped
  <2>7. TicketInv' <=> \A d \in Customers :
            /\ request'[d] # None /\ request'[d].step = "insert" => Stamped(request'[d])
            /\ order'[d] # None =>
                   /\ {"requestedFor", "day", "opening"} \subseteq DOMAIN order'[d]
                   /\ Stamped(order'[d])
    BY DEF TicketInv, Stamped
  <2> QED BY <2>1, <2>5, <2>6, <2>7 DEF TicketInv, Stamped
<1>8. CASE UNCHANGED vars
  BY <1>8 DEF vars, TicketInv, Stamped
<1> QED BY <1>1, <1>2, <1>3, <1>4, <1>5, <1>6, <1>7, <1>8 DEF Next, Customer

\* The shift an open ticket was taken for is the one its day is compared with.
LEMMA TicketStays == OfficeInv /\ TicketInv => TicketStaysOnTheBoard
<1> SUFFICES ASSUME OfficeInv, TicketInv,
                    NEW c \in Open, NEW o \in order[c].opening,
                    order[c].requestedFor = None,
                    LET midnight == Clock(order[c].at).day * DayMinutes
                        shift == [o EXCEPT !.open = @ + midnight, !.close = @ + midnight]
                    IN  /\ shift \in RunningShifts
                        /\ \A r \in Shifts(store, Today, Today) :
                               During(r, WallNow) => r = shift
             PROVE  ~isLeftOver(order[c], store, Clock(now))
  BY Zenon DEF TicketStaysOnTheBoard
<1> DEFINE midnight == Clock(order[c].at).day * DayMinutes
           shift == [o EXCEPT !.open = @ + midnight, !.close = @ + midnight]
           day == order[c].day
<1>1. Today \in Int /\ Clock(now).day = Today
  BY NowReads DEF Today
<1>2. Stamped(order[c])
  BY DEF TicketInv, Open
<1>3. PICK a, b : o = [day |-> day, open |-> a, close |-> b]
  BY <1>2 DEF Stamped
<1>4. shift.day = day
  BY <1>3
<1>5. /\ shift \in RunningShifts
      /\ \A r \in Shifts(store, Today, Today) : During(r, WallNow) => r = shift
  OBVIOUS
<1> HIDE DEF shift, day
<1>6. CASE RunsToday /\ shift = On(Today)
  <2>1. day = Today
    BY <1>1, <1>4, <1>6, OnReads DEF RunsToday
  <2>2. currentOpening(store, Clock(now)) = {Here(Today)} /\ Here(Today).day = Today
    BY <1>1, <1>6, CurrentIs, OnReads DEF RunsToday
  <2>3. serviceDay(store, Clock(now)) = Today
    BY <2>2 DEF serviceDay
  <2> QED BY <1>1, <2>1, <2>3 DEF isLeftOver, day
<1>7. CASE SpillsOver /\ shift = On(Today - 1)
  <2>1. day = Today - 1
    BY <1>1, <1>4, <1>7, OnReads DEF SpillsOver
  <2>2. ~RunsToday
    <3>1. SUFFICES ASSUME RunsToday PROVE FALSE
      OBVIOUS
    <3>2. On(Today) \in Shifts(store, Today, Today)
      BY <1>1, <3>1, ShiftsAre DEF RunsToday
    <3>3. On(Today) = shift
      BY <1>5, <3>1, <3>2 DEF RunsToday
    <3>4. On(Today).day = Today
      BY <1>1, <3>1, OnReads DEF RunsToday
    <3> QED BY <1>1, <1>4, <2>1, <3>3, <3>4
  <2>3. currentOpening(store, Clock(now)) = {Here(Today - 1)} /\ Here(Today - 1).day = Today - 1
    BY <1>1, <1>7, <2>2, CurrentIs, OnReads DEF SpillsOver
  <2>4. serviceDay(store, Clock(now)) = Today - 1
    BY <2>3 DEF serviceDay
  <2> QED BY <1>1, <2>1, <2>4 DEF isLeftOver, day
<1> QED BY <1>5, <1>6, <1>7, RunningAre

\* A ticket taken for the shift now running is not called left over
\* (business-day.ts serviceDay, isLeftOver; placement.ts), whatever the hours
\* were when it was placed and however often the office saves.
THEOREM TicketKeepsItsShift == Spec => []TicketStaysOnTheBoard
<1>1. Spec => []KeepInv
  BY KeepInvariant
<1>2. Spec => []TicketInv
  <2>1. Init => TicketInv
    BY TicketInit
  <2>2. KeepInv /\ TicketInv /\ [Next]_vars => TicketInv'
    BY TicketNext
  <2> QED BY <1>1, <2>1, <2>2, PTL DEF Spec
<1>3. OfficeInv /\ TicketInv => TicketStaysOnTheBoard
  BY TicketStays
<1> QED BY <1>2, <1>3, OfficeTypeCorrect, PTL

-----------------------------------------------------------------------------
(* Weighing.  The weight of a set of carts is how many units its carts     *)
(* have in all; a counterexample would have a smallest one, and there is   *)
(* none.                                                                   *)

\* One element for each unit of each cart.
Units(S) == UNION {{c} \X (1..Weight[c]) : c \in S}

\* One more cart adds its own units.
LEMMA MoreUnits ==
    ASSUME NEW S \in SUBSET Customers, NEW c \in S, IsFiniteSet(Units(S \ {c}))
    PROVE  /\ IsFiniteSet(Units(S))
           /\ Cardinality(Units(S)) = Weight[c] + Cardinality(Units(S \ {c}))
<1> DEFINE U == Units(S \ {c})
           V == {c} \X (1..Weight[c])
<1>1. Units(S) = U \union V /\ U \cap V = {}
  BY DEF Units
<1>2. IsFiniteSet(V) /\ Cardinality(V) = Weight[c] /\ Weight[c] \in Nat
  <2>0. Weight[c] \in Nat
    BY WeightAssumption
  <2>1. IsFiniteSet({c}) /\ Cardinality({c}) = 1
    BY FS_Singleton
  <2>2. IsFiniteSet(1..Weight[c]) /\ Cardinality(1..Weight[c]) = Weight[c]
    BY <2>0, FS_Interval
  <2>3. IsFiniteSet(V) /\ Cardinality(V) = 1 * Weight[c]
    BY <2>1, <2>2, FS_Product
  <2> QED BY <2>0, <2>3
<1>3. Cardinality(U \cap V) = 0
  BY <1>1, FS_EmptySet
<1>4. Cardinality(U) \in Nat
  BY FS_CardinalityType
<1> HIDE DEF U, V
<1>5. /\ IsFiniteSet(U \union V)
      /\ Cardinality(U \union V) = Cardinality(U) + Cardinality(V) - Cardinality(U \cap V)
  BY <1>2, FS_Union DEF U
<1> QED BY <1>1, <1>2, <1>3, <1>4, <1>5 DEF U

\* A collection of sets of customers that holds, with each, a smaller one is
\* empty.
LEMMA NoSmallest ==
    ASSUME NEW C \in SUBSET SUBSET Customers, \A T \in C : \E c \in T : T \ {c} \in C
    PROVE  C = {}
<1> SUFFICES ASSUME C # {} PROVE FALSE
  OBVIOUS
<1>1. IsWellFoundedOn(StrictSubsetOrdering(Customers), SUBSET Customers)
  BY WeightAssumption, FS_StrictSubsetOrderingWellFounded, FS_FiniteSubsetsOfFinite
<1>2. PICK T \in C : \A y \in C : ~ (<<y, T>> \in StrictSubsetOrdering(Customers))
  BY <1>1, WFMin
<1>3. PICK c \in T : T \ {c} \in C
  OBVIOUS
<1>4. <<T \ {c}, T>> \in StrictSubsetOrdering(Customers)
  BY <1>3 DEF StrictSubsetOrdering
<1> QED BY <1>2, <1>3, <1>4

\* Any carts have finitely many units.
LEMMA FiniteUnits ==
    ASSUME NEW S \in SUBSET Customers
    PROVE  IsFiniteSet(Units(S)) /\ Cardinality(Units(S)) \in Nat
<1> DEFINE C == {T \in SUBSET Customers : ~ IsFiniteSet(Units(T))}
<1>1. ASSUME NEW T \in C PROVE \E c \in T : T \ {c} \in C
  <2>1. T # {}
    BY FS_EmptySet DEF Units
  <2>2. PICK c \in T : TRUE
    BY <2>1
  <2> QED BY <2>2, MoreUnits
<1>2. C = {}
  <2> HIDE DEF C
  <2>1. C \in SUBSET SUBSET Customers
    BY DEF C
  <2> QED BY <1>1, <2>1, NoSmallest
<1> QED BY <1>2, FS_CardinalityType

\* The fold the weight is defined by counts the units.
LEMMA WeighIsUnits ==
    ASSUME NEW S \in SUBSET Customers
    PROVE  Weigh(S) = Cardinality(Units(S))
<1> DEFINE Adds(g) == g = [s \in SUBSET S |-> IF s = {} THEN 0
                          ELSE Weight[CHOOSE c \in s : TRUE] + g[s \ {CHOOSE c \in s : TRUE}]]
           W == [s \in SUBSET S |-> Cardinality(Units(s))]
           iter == CHOOSE g : Adds(g)
<1>1. Weigh(S) = iter[S]
  BY DEF Weigh, MapThenSumSet, MapThenFoldSet
<1>2. ASSUME NEW s \in SUBSET S, s # {}
      PROVE  W[s] = Weight[CHOOSE c \in s : TRUE] + W[s \ {CHOOSE c \in s : TRUE}]
  <2> DEFINE x == CHOOSE c \in s : TRUE
  <2>1. x \in s
    BY <1>2
  <2> HIDE DEF x
  <2>2. s \ {x} \in SUBSET S
    OBVIOUS
  <2>3. Cardinality(Units(s)) = Weight[x] + Cardinality(Units(s \ {x}))
    BY <2>1, <2>2, FiniteUnits, MoreUnits
  <2>4. W[s] = Weight[x] + W[s \ {x}]
    BY <2>2, <2>3
  <2> QED BY <2>4 DEF x
<1>3. W[{}] = 0
  BY FS_EmptySet DEF Units
<1>4. Adds(W)
  <2> HIDE DEF W
  <2>1. W = [s \in SUBSET S |-> W[s]]
    BY DEF W
  <2> QED BY <1>2, <1>3, <2>1
<1>5. Adds(iter)
  BY <1>4
<1> DEFINE C == {s \in SUBSET S : iter[s] # W[s]}
<1> HIDE DEF iter, W
<1>6. ASSUME NEW s \in C PROVE \E c \in s : s \ {c} \in C
  <2>1. s # {}
    BY <1>3, <1>5
  <2> DEFINE x == CHOOSE c \in s : TRUE
  <2>2. x \in s
    BY <2>1
  <2> HIDE DEF x
  <2>3. iter[s] = Weight[x] + iter[s \ {x}]
    BY <1>5, <2>1 DEF x
  <2>4. W[s] = Weight[x] + W[s \ {x}]
    BY <1>2, <2>1 DEF x
  <2> QED BY <2>2, <2>3, <2>4
<1>7. C = {}
  <2> HIDE DEF C
  <2>1. C \in SUBSET SUBSET Customers
    BY DEF C
  <2> QED BY <1>6, <2>1, NoSmallest
<1> QED BY <1>1, <1>7 DEF W

\* Fewer carts weigh no more.
LEMMA WeighGrows ==
    ASSUME NEW S \in SUBSET Customers, NEW T \in SUBSET S
    PROVE  Weigh(T) <= Weigh(S) /\ Weigh(T) \in Nat /\ Weigh(S) \in Nat
<1>1. Units(T) \subseteq Units(S)
  BY DEF Units
<1>2. IsFiniteSet(Units(S)) /\ Cardinality(Units(S)) \in Nat
  BY FiniteUnits
<1>3. Cardinality(Units(T)) <= Cardinality(Units(S)) /\ Cardinality(Units(T)) \in Nat
  BY <1>1, <1>2, FS_Subset, FS_CardinalityType
<1>4. T \in SUBSET Customers
  OBVIOUS
<1> QED BY <1>2, <1>3, <1>4, WeighIsUnits

-----------------------------------------------------------------------------
(* What a slot holds *)

\* An order is stamped with the day it was sent for, and fits what was promised.
Fits(c, x) ==
    x.requestedFor # None =>
        /\ x.day = x.sent.day
        /\ /\ Weight[c] > 0
           /\ x.sent.minute < DayMinutes
           /\ Happens(x.sent.day, x.sent.minute)
           => Weight[c] <= x.room

SlotInv ==
    \A c \in Customers :
        /\ request[c] # None /\ request[c].step = "insert" => Fits(c, request[c])
        /\ order[c] # None =>
              /\ {"requestedFor", "day", "sent", "room"} \subseteq DOMAIN order[c]
              /\ Fits(c, order[c])
        /\ request[c] # None /\ request[c].step = "weigh" => request[c].seen.schedule \in Schedules

\* The zone never changes, so neither does what its clock shows.
LEMMA ZoneStays ==
    ASSUME [Next]_vars
    PROVE  zone' = zone /\ \A d, m : Happens(d, m)' = Happens(d, m)
<1>1. zone' = zone
  BY DEF Next, Tick, Office, setOrderingPaused, saveHours, saveService, saveScheduling,
         PressClosed, closeToday, reopenToday, Save, Customer, Render, Choose, Submit,
         Consider, Insert, Finish, vars
<1> QED BY <1>1 DEF Happens, Wall

\* A wall reading gives back the minute it was made of.
LEMMA MinuteReads ==
    ASSUME NEW d \in Int, NEW m \in Int, 0 <= m, m < 1440
    PROVE  (d * 1440 + m) % 1440 = m
<1>1. PICK n \in Int : n = d * 1440 + m
  OBVIOUS
<1>2. PICK q \in Int : q = n \div 1440
  OBVIOUS
<1>3. PICK left \in Int : left = n % 1440
  OBVIOUS
<1>4. 0 <= left /\ left < 1440 /\ n = q * 1440 + left
  BY <1>2, <1>3
<1>5. left = m
  BY <1>1, <1>4
<1> QED BY <1>1, <1>3, <1>5

\* What was truly promised to a minute the clock shows is counted against it.
LEMMA PromisedIsBooked ==
    ASSUME KeepInv, SlotInv, NEW t \in Int, NEW sent,
           sent.day = Clock(t).day,
           sent.minute \in Int, 0 <= sent.minute, sent.minute < DayMinutes,
           Happens(sent.day, sent.minute)
    PROVE  /\ Promised(sent) <= WeightBySlot(Clock(t))[sent.minute]
           /\ Promised(sent) \in Nat /\ WeightBySlot(Clock(t))[sent.minute] \in Nat
<1> DEFINE P == {c \in Open : order[c].requestedFor # None /\ order[c].sent = sent}
           B == {c \in Open : /\ order[c].day = Clock(t).day
                              /\ order[c].requestedFor # None
                              /\ Clock(order[c].requestedFor).minuteOfDay = sent.minute}
<1>1. WeightBySlot(Clock(t))[sent.minute] = Weigh(B)
  <2>1. sent.minute \in 0..DayMinutes
    <3> HIDE DEF P, B
    <3>1. ASSUME NEW m \in Int, 0 <= m, m < DayMinutes PROVE m \in 0..DayMinutes
      BY <3>1 DEF DayMinutes
    <3> QED BY <3>1
  <2> QED BY <2>1, Zenon DEF WeightBySlot
<1>2. Promised(sent) = Weigh(P)
  BY DEF Promised
<1>3. ASSUME NEW c \in P PROVE c \in B
  <2>1. c \in Customers /\ order[c] # None /\ order[c].requestedFor # None
    BY DEF Open
  <2>2. order[c].day = Clock(t).day
    BY <2>1 DEF SlotInv, Fits
  <2>3. Wall(zone, order[c].requestedFor) = sent.day * DayMinutes + sent.minute
    BY <2>1, KeepGives DEF PickupIsTheOneAsked
  <2>4. sent.day \in Int
    BY ClockIsInt DEF KeepInv
  <2>5. Clock(order[c].requestedFor).minuteOfDay = sent.minute
    <3>1. PICK d \in Int, m \in Int :
             d = sent.day /\ m = sent.minute /\ 0 <= m /\ m < 1440
      <4> HIDE DEF P, B
      <4>1. sent.minute \in Int /\ 0 <= sent.minute /\ sent.minute < 1440
        BY DEF DayMinutes
      <4> QED BY <4>1, <2>4
    <3>2. (d * 1440 + m) % 1440 = m
      BY <3>1, MinuteReads
    <3> QED BY <2>3, <3>1, <3>2 DEF Clock, restaurantClock, DayMinutes
  <2> QED BY <2>2, <2>5
<1>4. B \in SUBSET Customers /\ P \in SUBSET B
  BY <1>3 DEF Open
<1> HIDE DEF P, B
<1> QED BY <1>1, <1>2, <1>4, WeighGrows

\* A request that is accepted fits what was promised when it looked.
LEMMA AcceptedFits ==
    ASSUME KeepInv, SlotInv, NEW c \in Customers, NEW r,
           r.at \in Int, r.sent.minute \in Minutes, Accepts(c, r), ~Asap(r),
           Weight[c] > 0, r.sent.minute < DayMinutes,
           Happens(r.sent.day, r.sent.minute),
           r.seen.schedule \in Schedules
    PROVE  Weight[c] <= r.seen.schedule.maxSlotWeight - Promised(r.sent)
<1> DEFINE m == r.sent.minute
           clock == Clock(r.at)
           slots == Slots(r.seen, clock)
           booked == WeightBySlot(clock)
           holds == r.seen.schedule.maxSlotWeight
<1>1. m \in Int /\ 0 <= m /\ m < DayMinutes
  <2>1. m \in 0..DayMinutes
    BY PicksAssumption DEF Minutes, Asap
  <2> QED BY <2>1
<1>2. r.sent.day = clock.day /\ m \in DOMAIN slots /\ slots[m] >= Weight[c]
  BY DEF Accepts, canBookSlot
<1>3. slots[m] = Greater(0, holds - booked[m])
  <2>1. \/ slots = <<>>
        \/ \E M : slots = [x \in M |-> Greater(0, holds - booked[x])]
    BY Zenon DEF Slots, availableSlots
  <2>2. CASE slots = <<>>
    BY <1>2, <2>2
  <2>3. CASE \E M : slots = [x \in M |-> Greater(0, holds - booked[x])]
    <3> HIDE DEF slots, booked, m
    <3> QED BY <1>2, <2>3
  <2> QED BY <2>1, <2>2, <2>3
<1>4. Promised(r.sent) <= booked[m] /\ Promised(r.sent) \in Nat /\ booked[m] \in Nat
  BY <1>1, <1>2, PromisedIsBooked
<1>5. Weight[c] \in Nat /\ holds \in Int
  <2>1. holds \in Nat
    BY TypedNumbers
  <2> QED BY <2>1, WeightAssumption
<1> HIDE DEF slots, booked, m, clock, holds
<1>6. holds - booked[m] >= Weight[c]
  BY <1>2, <1>3, <1>4, <1>5 DEF Greater
<1>7. Weight[c] <= holds - Promised(r.sent)
  BY <1>4, <1>5, <1>6
<1> QED BY <1>7 DEF holds

LEMMA SlotNext == KeepInv /\ OfficeInv /\ SlotInv /\ [Next]_vars => SlotInv'
<1> SUFFICES ASSUME KeepInv, OfficeInv, SlotInv, [Next]_vars PROVE SlotInv'
  OBVIOUS
<1> DEFINE Good(c) ==
        /\ request[c] # None /\ request[c].step = "insert" => Fits(c, request[c])
        /\ order[c] # None =>
              /\ {"requestedFor", "day", "sent", "room"} \subseteq DOMAIN order[c]
              /\ Fits(c, order[c])
        /\ request[c] # None /\ request[c].step = "weigh" => request[c].seen.schedule \in Schedules
<1>0. \A c, x, y : x = y /\ Fits(c, x) => Fits(c, y)'
  BY ZoneStays DEF Fits
<1>1. ASSUME NEW c \in Customers, request'[c] = request[c], order'[c] = order[c]
      PROVE  Good(c)'
  BY <1>1, ZoneStays DEF SlotInv, Fits
<1>2. CASE Tick \/ Office \/ UNCHANGED vars
  <2>1. UNCHANGED <<request, order>>
    BY <1>2 DEF Tick, Office, setOrderingPaused, saveHours, saveService, saveScheduling,
                PressClosed, closeToday, reopenToday, Save, vars
  <2> QED BY <2>1, <1>1 DEF SlotInv
<1>3. ASSUME NEW c \in Customers, Customer(c)
      PROVE  \A d \in Customers \ {c} : request'[d] = request[d] /\ order'[d] = order[d]
  BY <1>3 DEF Customer, Render, Choose, Submit, Consider, Insert, Finish, KeepInv
<1>4. ASSUME NEW c \in Customers, Customer(c) PROVE Good(c)'
  <2>1. CASE Render(c) \/ Choose(c)
    BY <2>1, <1>1 DEF Render, Choose
  <2>2. CASE Submit(c)
    <3>1. /\ order' = order /\ order[c] = None /\ request'[c].step = "weigh"
          /\ request'[c].seen = store
      BY <2>2 DEF Submit, KeepInv
    <3>2. store.schedule \in Schedules
      BY SavesStore DEF OfficeInv
    <3> QED BY <3>1, <3>2
  <2>3. CASE Consider(c)
    <3> DEFINE r == request[c]
    <3>1. /\ order' = order /\ r # None /\ r.step = "weigh"
          /\ r.at \in Int /\ r.sent.minute \in Minutes
      BY <2>3 DEF Consider, KeepInv, RequestKeeps
    <3>0. r.seen.schedule \in Schedules
      BY <3>1 DEF SlotInv
    <3>2. CASE Accepts(c, r)
      <4>1. /\ request'[c].requestedFor = RequestedFor(r)
            /\ request'[c].day = BusinessDay(r)
            /\ request'[c].sent = r.sent
            /\ request'[c].room = r.seen.schedule.maxSlotWeight - Promised(r.sent)
            /\ request'[c].step = "insert"
        BY <2>3, <3>2 DEF Consider, KeepInv
      <4>2. CASE Asap(r)
        <5>1. request'[c].requestedFor = None
          BY <4>1, <4>2 DEF RequestedFor
        <5>2. Fits(c, request[c])'
          BY <5>1 DEF Fits
        <5> QED BY <5>2, <3>1, <4>1, ZoneStays DEF SlotInv, Fits
      <4>3. CASE ~Asap(r)
        <5>1. BusinessDay(r) = r.sent.day
          BY <4>3, <3>2 DEF BusinessDay, Accepts
        <5>2. Fits(c, request[c])'
          BY <3>0, <3>1, <3>2, <4>1, <4>3, <5>1, AcceptedFits, ZoneStays DEF Fits
        <5> QED BY <5>2, <3>1, <4>1, ZoneStays DEF SlotInv, Fits
      <4> QED BY <4>2, <4>3
    <3>3. CASE ~Accepts(c, r)
      <4>1. request'[c] = None
        BY <2>3, <3>3 DEF Consider, KeepInv
      <4> QED BY <4>1, <3>1, ZoneStays DEF SlotInv, Fits
    <3> QED BY <3>2, <3>3
  <2>4. CASE Insert(c)
    <3>1. /\ request'[c] = None /\ request[c] # None /\ request[c].step = "insert"
          /\ {"requestedFor", "day", "sent", "room"} \subseteq DOMAIN order'[c]
          /\ order'[c].requestedFor = request[c].requestedFor
          /\ order'[c].day = request[c].day
          /\ order'[c].sent = request[c].sent
          /\ order'[c].room = request[c].room
      BY <2>4 DEF Insert, KeepInv
    <3>2. Fits(c, request[c])
      BY <3>1 DEF SlotInv
    <3>3. Fits(c, order[c])'
      BY <3>1, <3>2, ZoneStays DEF Fits
    <3> QED BY <3>1, <3>3
  <2>5. CASE Finish(c)
    <3>1. request' = request /\ order[c] # None /\ order'[c] = [order[c] EXCEPT !.open = FALSE]
      BY <2>5 DEF Finish, Open, KeepInv
    <3>2. /\ {"requestedFor", "day", "sent", "room"} \subseteq DOMAIN order[c]
          /\ Fits(c, order[c])
      BY <3>1 DEF SlotInv
    <3>3. /\ {"requestedFor", "day", "sent", "room"} \subseteq DOMAIN order'[c]
          /\ order'[c].requestedFor = order[c].requestedFor
          /\ order'[c].day = order[c].day
          /\ order'[c].sent = order[c].sent
          /\ order'[c].room = order[c].room
      BY <3>1, <3>2
    <3>4. Fits(c, order[c])'
      BY <3>2, <3>3, ZoneStays DEF Fits
    <3>5. /\ request[c] # None /\ request[c].step = "insert" => Fits(c, request[c])'
          /\ request[c] # None /\ request[c].step = "weigh" => request[c].seen.schedule \in Schedules
      BY <3>1, ZoneStays DEF SlotInv, Fits
    <3>6. order'[c] # None => /\ {"requestedFor", "day", "sent", "room"} \subseteq DOMAIN order'[c]
                              /\ Fits(c, order[c])'
      BY <3>3, <3>4
    <3> QED BY <3>1, <3>5, <3>6
  <2> QED BY <1>4, <2>1, <2>2, <2>3, <2>4, <2>5 DEF Customer
<1>5. ASSUME NEW c \in Customers, Customer(c), NEW d \in Customers PROVE Good(d)'
  <2>1. CASE d = c
    BY <2>1, <1>4, <1>5
  <2>2. CASE d # c
    BY <2>2, <1>1, <1>3, <1>5
  <2> QED BY <2>1, <2>2
<1>6. (\A d \in Customers : Good(d)') => SlotInv'
  BY DEF SlotInv
<1> QED BY <1>2, <1>5, <1>6 DEF Next

\* A pickup slot takes no more than it held by the settings its request read,
\* counting what was truly promised to it when the request looked, whatever the
\* zone, the week, the weights and the office's edits; only requests in flight
\* together, and a lowered cap, overshoot it (weightBySlot, canBookSlot).
THEOREM SlotsHold == Spec => []SlotHoldsItsWeight
<1>1. Init => SlotInv
  BY DEF Init, SlotInv
<1>2. SlotInv => SlotHoldsItsWeight
  BY DEF SlotInv, Fits, SlotHoldsItsWeight
<1> QED BY <1>1, <1>2, SlotNext, KeepInvariant, OfficeTypeCorrect, PTL DEF Spec
=============================================================================
