--------------------------- MODULE MCSubscriptions ---------------------------
EXTENDS Subscriptions

(* A Thursday, a weekend and the week after it.                             *)
Week == {1, 4, 5, 6}
TwoPlans == <<"try_it", "week">>
MealCounts == [p \in {"try_it", "week"} |-> IF p = "try_it" THEN 2 ELSE 3]
FlexDays == [p \in {"try_it", "week"} |-> 2]
DayAndEvening == <<"day", "evening">>
==============================================================================
