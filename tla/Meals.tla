-------------------------------- MODULE Meals --------------------------------
(***************************************************************************)
(* The catalogue of dishes.  A draft is edited in place; edits of any other *)
(* dish wait in pending until an administrator activates it again.  A       *)
(* command reads the row and writes some columns from what it read.  The    *)
(* module says what happens to the catalogue; MealChoices composes it with  *)
(* the menu and the customers.                                              *)
(***************************************************************************)
EXTENDS Naturals, FiniteSets

CONSTANTS
    MealIds,         \* rows the table may come to hold
    Fields,          \* what an edit can change: name, calories, photo, ...
    Values,          \* of a field
    NoPending,       \* no edits wait
    Cooks            \* commands on the catalogue in progress at once

NoMeal == "no meal"

ASSUME MealsAssumption ==
    /\ Values # {} /\ NoPending \notin [Fields -> Values]
    /\ NoMeal \notin MealIds

VARIABLES
    meals,           \* the rows of meals
    cook             \* what a command has read and is going to write

NoCommand == "none"

MealFields == [Fields -> Values]
Meal == [status: {"none", "draft", "active", "updated"}, deleted: BOOLEAN,
         live: MealFields, pending: MealFields \cup {NoPending}]

CookLocal == [cmd: {NoCommand, "edit", "status"}, meal: MealIds \cup {NoMeal},
              row: Meal, columns: SUBSET {"status", "live", "pending"}]

NewMeal == [status |-> "none", deleted |-> FALSE,
            live |-> CHOOSE f \in MealFields : TRUE, pending |-> NoPending]
CookResting == [cmd |-> NoCommand, meal |-> NoMeal, row |-> NewMeal, columns |-> {}]

GetMealById(m) == m # NoMeal /\ meals[m].status # "none" /\ ~meals[m].deleted

-----------------------------------------------------------------------------
SnapshotMealFields_liveOnly(meal) == meal.live

SnapshotMealFields(meal) ==
    IF meal.pending = NoPending THEN meal.live ELSE meal.pending

MergeMealUpdates(base, f, v) == [base EXCEPT ![f] = v]

(* What the dish is going to be once the edits that wait are applied.       *)
AsEdited(meal) == IF meal.pending = NoPending THEN meal.live ELSE meal.pending

-----------------------------------------------------------------------------
CreateMeal(m) ==
    /\ meals[m].status = "none"
    /\ meals' = [meals EXCEPT ![m].status = "draft"]
    /\ UNCHANGED cook

(* Every row of the sheet becomes a draft; its name is not compared.        *)
ImportMeals(ms) ==
    /\ \A m \in ms : meals[m].status = "none"
    /\ meals' = [m \in MealIds |-> IF m \in ms
                                   THEN [meals[m] EXCEPT !.status = "draft"]
                                   ELSE meals[m]]
    /\ UNCHANGED cook

SoftDeleteMeal(m) ==
    /\ GetMealById(m)
    /\ meals' = [meals EXCEPT ![m].deleted = TRUE]
    /\ UNCHANGED cook

IsFree(c) == cook[c].cmd = NoCommand

ReadMeal(c, cmd, m, row, columns) ==
    /\ GetMealById(m)
    /\ cook' = [cook EXCEPT ![c] = [cmd |-> cmd, meal |-> m, row |-> row,
                                    columns |-> columns]]
    /\ UNCHANGED meals

BeginUpdateMeal(c, m, f, v) ==
    IF meals[m].status = "draft"
    THEN ReadMeal(c, "edit", m, [meals[m] EXCEPT !.live[f] = v], {"live"})
    ELSE ReadMeal(c, "edit", m,
                  [meals[m] EXCEPT !.status = "updated", !.pending =
                      MergeMealUpdates(SnapshotMealFields(meals[m]), f, v)],
                  {"status", "pending"})

(* onLiveMenu: it is on a published menu of this week or the next.          *)
BeginUpdateMealStatus(c, m, to, confirm, onLiveMenu) ==
    LET meal == meals[m] IN
    \/ /\ to = "active" /\ meal.status = "updated"
       /\ confirm
       /\ ReadMeal(c, "status", m,
                   [meal EXCEPT !.status = "active", !.pending = NoPending,
                                !.live = AsEdited(meal)],
                   {"status", "live", "pending"})
    \/ /\ to = "draft"
       /\ onLiveMenu => confirm
       /\ ReadMeal(c, "status", m,
                   [meal EXCEPT !.status = "draft", !.pending = NoPending],
                   IF meal.status = "updated" \/ meal.pending # NoPending
                   THEN {"status", "pending"} ELSE {"status"})
    \/ /\ to = "active" /\ meal.status # "updated"
       /\ ReadMeal(c, "status", m, [meal EXCEPT !.status = "active"], {"status"})

(* The columns a command sets; the write fails when the dish is gone.       *)
UpdateMeal(c) ==
    LET my == cook[c] IN
    /\ my.cmd # NoCommand
    /\ cook' = [cook EXCEPT ![c] = CookResting]
    /\ IF GetMealById(my.meal)
       THEN meals' = [meals EXCEPT ![my.meal] =
                         [x \in DOMAIN @ |-> IF x \in my.columns THEN my.row[x]
                                             ELSE @[x]]]
       ELSE UNCHANGED meals
==============================================================================
