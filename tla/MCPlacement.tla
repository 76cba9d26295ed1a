----------------------------- MODULE MCPlacement ----------------------------
\* Small instances of Placement: two requests, a reward for some.
EXTENDS Placement

CONSTANTS a, b, c

OneReward == {a}
=============================================================================
