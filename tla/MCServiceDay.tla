----------------------------- MODULE MCServiceDay -----------------------------
EXTENDS ServiceDay

CONSTANTS d1, d2, u1, b1, b2

DayAndEvening == <<"day", "evening">>

(* Two areas with a building and a driver each, the second driver without   *)
(* an area and the customer at home in the first area; or the first only,   *)
(* before anyone lives there.                                               *)
Home == [area |-> 1, building |-> b1, isPrimary |-> TRUE]
TwoAreas ==
    [drivers |-> [d \in {d1, d2} |-> "active"], areas |-> [ar \in 1 .. 2 |-> "active"],
     assigned |-> {<<d1, 1>>}, buildings |-> [b \in {b1, b2} |-> IF b = b1 THEN 1 ELSE 2],
     locations |-> [u \in {u1} |-> <<Home>>]]
OneArea ==
    [TwoAreas EXCEPT !.drivers[d2] = "absent", !.areas[2] = "absent",
                     !.buildings[b2] = NoArea, !.locations[u1] = <<>>]
EarlyAndLate == {OneArea, TwoAreas}
Interchangeable == Permutations(Admins) \cup Permutations(Staff)
==============================================================================
