--------------------------- MODULE StoreCalendar ----------------------------
(***************************************************************************)
(* When the restaurant is open.  Instants are minutes of UTC and days are  *)
(* counted, day 0 being a Sunday; a zone is two offsets and the instant    *)
(* the clocks change.  A week of hours maps each weekday with a row to its *)
(* opening and closing minute, a close at or before the open running into  *)
(* the next day.  Everything here is a function of what it is handed.      *)
(***************************************************************************)
EXTENDS Integers, FiniteSets

CONSTANT None      \* null

DayMinutes == 1440

-----------------------------------------------------------------------------
(* Instants and wall clocks *)

offsetMinutesAt(zone, t) == IF t < zone.change THEN zone.before ELSE zone.after

\* The wall reading of an instant, in minutes since the midnight of day 0
Wall(zone, t) == t + offsetMinutesAt(zone, t)

restaurantClock(zone, t) ==
    LET wall == Wall(zone, t)
    IN  [day         |-> wall \div DayMinutes,
         weekday     |-> (wall \div DayMinutes) % 7,
         minuteOfDay |-> wall % DayMinutes]

\* Mutant: the refined instant is taken as it is
zonedTimeToInstant_OnePass(zone, day, minute) ==
    LET naive == day * DayMinutes + minute
    IN  naive - offsetMinutesAt(zone, naive)

\* One refinement pass: the offset at a naive guess, then at the refined one
zonedTimeToInstant(zone, day, minute) ==
    LET naive   == day * DayMinutes + minute
        refined == naive - offsetMinutesAt(zone, naive)
    IN  naive - offsetMinutesAt(zone, refined)

-----------------------------------------------------------------------------
(* The opening now running, or the one today waits on *)

previousDay(day) == day - 1

Overnight(row) == row.close <= row.open

OpeningOf(row, day, midnight) ==
    [day   |-> day,
     open  |-> midnight + row.open,
     close |-> midnight + row.close + (IF Overnight(row) THEN DayMinutes ELSE 0)]

\* Measured from today's midnight; at most one, and none on a day with no row
TodaysOpening(st, clock) ==
    {OpeningOf(st.hours[w], clock.day, 0) : w \in DOMAIN st.hours \cap {clock.weekday}}

\* Mutant: a day declared closed opens again at midnight
Spill_Reopens(st, clock) ==
    {o \in {OpeningOf(st.hours[w], previousDay(clock.day), -DayMinutes) :
                w \in DOMAIN st.hours \cap {(clock.weekday + 6) % 7}} :
        clock.minuteOfDay < o.close}

\* Yesterday's, still running past midnight, unless that day was declared closed
Spill(st, clock) ==
    {o \in {OpeningOf(st.hours[w], previousDay(clock.day), -DayMinutes) :
                w \in DOMAIN st.hours \cap {(clock.weekday + 6) % 7}} :
        clock.minuteOfDay < o.close /\ st.closedOnDay # o.day}

Runs(opening, clock) ==
    opening.open <= clock.minuteOfDay /\ clock.minuteOfDay < opening.close

currentOpening(st, clock) ==
    LET todays  == TodaysOpening(st, clock)
        running == {o \in todays : Runs(o, clock)}
    IN  IF running # {} THEN running
        ELSE IF Spill(st, clock) # {} THEN Spill(st, clock)
        ELSE todays

serviceDay(st, clock) ==
    IF currentOpening(st, clock) = {} THEN clock.day
    ELSE (CHOOSE o \in currentOpening(st, clock) : TRUE).day

-----------------------------------------------------------------------------
(* The gate: its answer, and the opening its sentence names, as a day and a *)
(* minute.                                                                  *)

Says(reason, day, minute) == [reason |-> reason, opensDay |-> day, opensAt |-> minute]

JustSays(reason) == Says(reason, None, None)

\* Mutant: the walk starts at today
nextOpening_FromToday(st, clock, reason) ==
    LET ahead == {n \in 0..6 : (clock.weekday + n) % 7 \in DOMAIN st.hours}
        next  == CHOOSE n \in ahead : \A m \in ahead : n <= m
    IN  IF ahead = {} THEN JustSays(reason)
        ELSE Says(reason, clock.day + next, st.hours[(clock.weekday + next) % 7].open)

\* The next day of the week ahead that has hours
nextOpening(st, clock, reason) ==
    LET ahead == {n \in 1..7 : (clock.weekday + n) % 7 \in DOMAIN st.hours}
        next  == CHOOSE n \in ahead : \A m \in ahead : n <= m
    IN  IF ahead = {} THEN JustSays(reason)
        ELSE Says(reason, clock.day + next, st.hours[(clock.weekday + next) % 7].open)

\* The calendar's answer, over an opening
DoorOf(st, clock, o) ==
    IF clock.minuteOfDay < o.open
    THEN Says("outside_hours", clock.day, o.open)
    ELSE IF clock.minuteOfDay < o.close - st.service.cutoff THEN JustSays("open")
    ELSE IF clock.minuteOfDay < o.close THEN JustSays("closing_soon")
    ELSE nextOpening(st, clock, "closing_soon")

checkoutGate(st, clock, openWeight, maxOpenWeight) ==
    IF st.paused THEN JustSays("manually_paused")
    ELSE IF st.closedOnDay = clock.day THEN JustSays("closed_today")
    ELSE IF currentOpening(st, clock) = {} THEN nextOpening(st, clock, "outside_hours")
    ELSE LET door == DoorOf(st, clock, CHOOSE o \in currentOpening(st, clock) : TRUE)
         IN  IF door.reason = "open" /\ openWeight >= maxOpenWeight
             THEN JustSays("too_busy")
             ELSE door

-----------------------------------------------------------------------------
(* Pickup slots *)

RoundUp(minute, interval) == ((minute + interval - 1) \div interval) * interval

Lesser(a, b)  == IF a <= b THEN a ELSE b
Greater(a, b) == IF a >= b THEN a ELSE b

\* The minutes on offer today and what each still holds; none when the picker
\* is shut.  1440 is the midnight at the end of the day.
availableSlots(st, config, booked, clock) ==
    LET last(o)  == Lesser(DayMinutes, o.close - st.service.cutoff)
        first(o) == RoundUp(Greater(o.open, clock.minuteOfDay + config.lead), config.interval)
        minutes  == UNION {{m \in first(o)..last(o) : m % config.interval = 0} :
                              o \in TodaysOpening(st, clock)}
    IN  IF st.paused \/ st.closedOnDay = clock.day THEN <<>>
        ELSE [m \in minutes |-> Greater(0, config.maxSlotWeight - booked[m])]

canBookSlot(slots, minute, weight) ==
    minute \in DOMAIN slots /\ slots[minute] >= weight
=============================================================================
