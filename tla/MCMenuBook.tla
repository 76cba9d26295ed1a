----------------------------- MODULE MCMenuBook -----------------------------
(* A Friday night, past midnight, and the Sunday after. *)
EXTENDS MenuBook, TLC

CONSTANTS una, vic, kim, lou

MCMoments == <<[day |-> 0, weekday |-> 5, minuteOfDay |-> 1400],
               [day |-> 1, weekday |-> 6, minuteOfDay |-> 30],
               [day |-> 2, weekday |-> 0, minuteOfDay |-> 720]>>

\* Friday's late menu, into Saturday
MCWindows == {[dayOfWeek |-> 5, startMinute |-> 1320, endMinute |-> 120]}

MCFirstPrices == [item |-> 0, option |-> 1, extra |-> 0, group |-> 0]

Budget(edits, kinds, batches, orders, picks) ==
    [edits |-> edits, kinds |-> kinds, batches |-> batches, orders |-> orders, picks |-> picks]

\* Two managers on one price; with clean-ups, and with the group
\* deleted; with a customer; every other
\* edit with a customer; two cooks, with a customer and alone
MCBudgets == {Budget(4, {"item"}, 0, 0, {}),
              Budget(3, {"item", "cleanUp"}, 0, 0, {}),
              Budget(2, {"option", "deletion", "cleanUp"}, 0, 0, {}),
              Budget(2, {"item"}, 0, 1, {"absent"}),
              Budget(1, {"option", "extra", "group", "window", "deletion", "cleanUp"}, 0, 1,
                     {"absent", "none", "extra"}),
              Budget(0, {}, 2, 1, {"absent", "none", "extra"}),
              Budget(0, {}, 4, 0, {})}

Symmetry == Permutations({una, vic}) \cup Permutations({kim, lou})
=============================================================================
