--------------------------- MODULE MCKitchenBoard ---------------------------
(***************************************************************************)
(* Small instances of KitchenBoard.  In the first every screen is in front *)
(* and a second order may come in.  In the other two somebody works at     *)
(* `board`, which never polls, and one screen beside it polls and is never *)
(* tapped: another board, while a second order may come in, or the status  *)
(* page of the order being made.                                           *)
(***************************************************************************)
EXTENDS KitchenBoard

CONSTANTS order, second, board, beside, receipt, page

MCOf == [s \in Receipts \cup Pages |-> order]

InFront == Init /\ hidden = {} /\ \A o \in Orders : o # order => status[o] = NoStatus
InFrontSpec == InFront /\ [][Next]_vars

Making(other) ==
    /\ status = [o \in Orders |-> IF o = order THEN "preparing" ELSE other]
    /\ texts = [o \in Orders |-> 0]

BesideABoard == Init /\ Making(NoStatus) /\ hidden = {page}
BesideAPage  == Init /\ Making("cancelled") /\ hidden = {beside}

\* The bounds of each.  Beside a board: one event and two polls in flight.
\* Beside a page: two events, one poll, and no shelf, which a page never
\* shows.  Nobody taps when no event is left.
LastEvent == IF page \in hidden THEN 1 ELSE 2
Bounds ==
    /\ tip' <= LastEvent
    /\ tip = LastEvent => \A s \in Screens : tap[s] = NoTap => tap'[s] = NoTap
    /\ page \notin hidden =>
          \A s \in Screens : /\ Cardinality(polls'[s]) <= 1
                             /\ tap'[s].op = "sent" => ~tap'[s].shelf
    /\ page \notin hidden => shelf' = {}

\* The board that is worked at is drawn as soon as it asks: no other screen
\* reads it, so nothing is lost by leaving out what happens in between.
DrawnFirst ==
    board \in want \/ reading[board] # Blank =>
        StartRender(board) \/ FinishRender(board) \/ Draw(board)

BesideSpec == (BesideABoard \/ BesideAPage) /\ [][Next]_vars /\ Fairness
=============================================================================
