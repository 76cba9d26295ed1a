---------------------------- MODULE MCStorefront ----------------------------
(* A Saturday night and the Sunday the clocks change, west and east of UTC. *)
EXTENDS Storefront, TLC

CONSTANTS ann, bob

Saturday == 6 * DayMinutes
Sunday   == 7 * DayMinutes

MCWeight == [c \in {ann, bob} |-> 2]

\* Los Angeles back and forward, Berlin forward
MCZones == {[before |-> -420, after |-> -480, change |-> Sunday + 540],
            [before |-> -480, after |-> -420, change |-> Sunday + 600],
            [before |-> 60,   after |-> 120,  change |-> Sunday + 60]}

MCReadings == {Saturday + 1410, Sunday + 30, Sunday + 90, Sunday + 190}

Row(open, close) == [open |-> open, close |-> close]

\* Overnight into a Sunday that opens before it ends; both days to midnight,
\* typed 00:00; an overnight Saturday and no Sunday
MCForms == {6 :> Row(1080, 120) @@ 0 :> Row(60, 180),
            6 :> Row(1080, 0) @@ 0 :> Row(600, 0),
            6 :> Row(1080, 120)}

\* The numbers of the evening, and the others the office may type: orders until
\* the very close and more work in hand, slots that start later and hold more
Usual  == [cutoff |-> 15, maxOpenWeight |-> 3, prepBase |-> 10, prepPerWeight |-> 3]
Hourly == [interval |-> 60, lead |-> 30, maxSlotWeight |-> 3]

MCServices  == {Usual, [cutoff |-> 0, maxOpenWeight |-> 5, prepBase |-> 20, prepPerWeight |-> 1]}
MCSchedules == {Hourly, [interval |-> 30, lead |-> 60, maxSlotWeight |-> 5]}

Evening == Init /\ store.service = Usual /\ store.schedule = Hourly
EveningSpec == Evening /\ [][Next]_vars

Symmetry == Permutations({ann, bob})
=============================================================================
