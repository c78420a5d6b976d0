---------------------------- MODULE MCMealChoices ----------------------------
EXTENDS MealChoices

CONSTANTS w1, m1, m2, m3

(* A week of one kitchen day, the first date.                               *)
OneDay == [w \in {w1} |-> {1}]
FromStart == [w \in {w1} |-> 0]
(* Every field has an edit that changes it.                                  *)
NewValues == { <<f, v>> \in Fields \X Values : v # NewMeal.live[f] }
TwoValues == {"old", "new"}
Dish(m) == [meal |-> m, isDefault |-> TRUE]
AMenu == [id \in {<<1, "executive", 1>>, <<1, "salad", 1>>} |->
             Dish(IF id[2] = "executive" THEN m1 ELSE m2)]
NothingOrAMenu == { [active |-> {m1, m2}, slots |-> <<>>],
                    [active |-> {m1, m2, m3}, slots |-> AMenu] }
Allot(c, m, d) == [catalogue |-> c, menu |-> m, choices |-> d]
AllAllotments == {Allot(3, 0, 0), Allot(2, 1, 0), Allot(1, 3, 0), Allot(0, 5, 0),
                  Allot(2, 0, 2), Allot(1, 1, 2), Allot(0, 2, 2), Allot(0, 1, 3)}
WholeDay == <<"night", "day", "evening">>
==============================================================================
