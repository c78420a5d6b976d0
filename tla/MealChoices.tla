----------------------------- MODULE MealChoices -----------------------------
(***************************************************************************)
(* The dish a customer gets on each delivery day: the stream of the day and *)
(* the customer's pick, changed until the cutoff, over a menu and a         *)
(* catalogue that administrators change at any time.  The customer's screens *)
(* resolve the dish in the code, the kitchen's lists, the rider's and the   *)
(* ERP's resolve it in SQL.                                                 *)
(***************************************************************************)
EXTENDS Menu

CONSTANTS
    Starts,          \* the dishes that are active, the slots that are published
    Edits,           \* the edits tried, fields with new values
    Allotments       \* bounds on the commands of each kind: catalogue, menu, choices

(* A week that is there at the start was filled and published: its dates    *)
(* have one default dish in each stream, and no dish is on a date twice.    *)
FilledAndPublished(rows) ==
    /\ DOMAIN rows \subseteq SlotIds /\ \A id \in DOMAIN rows : rows[id] \in Slot
    /\ \A id \in DOMAIN rows : \A d \in DeliveryDates[WeekOf(id[1])], t \in Streams :
           /\ <<d, t, 1>> \in DOMAIN rows
           /\ \E o \in DOMAIN rows : o[1] = d /\ o[2] = t /\ rows[o].isDefault
    /\ \A id \in DOMAIN rows : rows[id].isDefault => rows[id].meal # NoMeal
    /\ \A id, o \in DOMAIN rows : id[1] = o[1] /\ id # o =>
           /\ id[2] = o[2] => ~(rows[id].isDefault /\ rows[o].isDefault)
           /\ rows[id].meal = rows[o].meal => rows[id].meal = NoMeal

ASSUME MealChoicesAssumption ==
    /\ \A s \in Starts : s.active \subseteq MealIds /\ FilledAndPublished(s.slots)
    /\ Edits \subseteq Fields \X Values
    /\ Allotments \subseteq [{"catalogue", "menu", "choices"} -> Nat]

VARIABLES
    planOpen,        \* canUseSkipAndPause of the customer's plan
    mealType,        \* the stream the customer's plan has by default
    days,            \* delivery_days of the plan, one for each date of a menu
    customer,        \* what the customer's command has read and where it is
    left             \* commands the bound still allows

vars == <<now, meals, cook, weeks, slots, editor, planOpen, mealType, days,
          customer, left>>
catalogue == <<meals, cook>>
menu == <<weeks, slots, editor>>
choices == <<planOpen, mealType, days, customer>>

DeliveryDay == [status: {"scheduled", "skipped", "delivered"}, mealType: Streams,
                selected: MealIds \cup {NoMeal}]
CustomerLocal == [cmd: {NoCommand, "choose", "switch", "toggle"},
                  pc: {"idle", "type", "pick", "all"}, dates: SUBSET Dates,
                  mealType: Streams, meal: MealIds \cup {NoMeal}, all: BOOLEAN]
CustomerResting == [cmd |-> NoCommand, pc |-> "idle", dates |-> {},
                    mealType |-> "executive", meal |-> NoMeal, all |-> FALSE]

-----------------------------------------------------------------------------
(* The dish of a day.  A slot whose dish has been deleted counts as empty.  *)
LiveSlots(ids) == { id \in ids : GetMealById(slots[id].meal) }
MealsOf(ids) == { slots[id].meal : id \in ids }
StreamOptions(d, t) == { id \in LiveSlots(GetMenuForDate(d)) : id[2] = t }

(* The dishes the screens may show, of which they show one: the pick while  *)
(* it is on the menu, else the default of the day's stream, else the dish of *)
(* the stream that comes first.  The query orders the slots by date and      *)
(* stream only, so that dish may be any of the stream.                      *)
ResolveEffectiveMeal(d, t, pick) ==
    LET options == StreamOptions(d, t)
        defaults == { id \in options : slots[id].isDefault }
    IN  IF pick \in MealsOf(LiveSlots(GetMenuForDate(d))) THEN {pick}
        ELSE IF defaults # {} THEN MealsOf(defaults)
        ELSE MealsOf(options)

(* The lists: the first slot in the order of the join, NoMeal if none.      *)
JoinOrder_anyStream(id, t, pick) ==
    <<IF pick # NoMeal /\ slots[id].meal = pick THEN 0 ELSE 1,
      IF pick = NoMeal THEN (IF slots[id].isDefault THEN 0 ELSE 1) ELSE 2,
      IF slots[id].isDefault THEN 0 ELSE 1,
      IF id[2] = "executive" THEN 0 ELSE 1,
      id[3]>>

JoinOrder(id, t, pick) ==
    <<IF pick # NoMeal /\ slots[id].meal = pick THEN 0 ELSE 1,
      IF pick = NoMeal /\ id[2] = t
      THEN (IF slots[id].isDefault THEN 0 ELSE 1) ELSE 2,
      IF slots[id].isDefault THEN 0 ELSE 1,
      IF id[2] = "executive" THEN 0 ELSE 1,
      id[3]>>

Before(a, b) == \E i \in 1 .. 5 : a[i] < b[i] /\ \A j \in 1 .. i - 1 : a[j] = b[j]

EffectiveMealLateralJoin(d, publishedOnly) ==
    LET day == days[d]
        ids == IF publishedOnly THEN LiveSlots(GetMenuForDate(d))
               ELSE LiveSlots({ id \in DOMAIN slots : id[1] = d })
        order == [id \in ids |-> JoinOrder(id, day.mealType, day.selected)]
    IN  IF ids = {} THEN NoMeal
        ELSE slots[CHOOSE id \in ids :
                      \A o \in ids \ {id} : Before(order[id], order[o])].meal

GetMealBreakdownByDate(d) == EffectiveMealLateralJoin(d, FALSE)
GetDailyOrders(d) == EffectiveMealLateralJoin(d, TRUE)

-----------------------------------------------------------------------------
(* The customer's commands.  Each has a cutoff check of its own.            *)
GetMealTypeEffectiveFrom == UtcToday + (IF Hour = "evening" THEN 2 ELSE 1)

IsPastCutoff_missingEvening(d) == d <= UtcToday

IsPastCutoff(d) == d <= UtcToday \/ (d = UtcToday + 1 /\ Hour = "evening")

BeginChoice(cmd, pc, dates, t, m, all) ==
    /\ customer' = [cmd |-> cmd, pc |-> pc, dates |-> dates, mealType |-> t,
                    meal |-> m, all |-> all]
    /\ UNCHANGED <<planOpen, mealType, days>>

ContinueChoice(pc) ==
    customer' = IF pc = "idle" THEN CustomerResting ELSE [customer EXCEPT !.pc = pc]

MayChooseMeal(d, m) ==
    /\ planOpen
    /\ ~IsAfterSkipCutoff(d)
    /\ days[d].status = "scheduled"
    /\ m \in MealsOf(LiveSlots(GetMenuForDate(d)))

BeginSetMealChoice(d, t, m) ==
    /\ MayChooseMeal(d, m)
    /\ m \in MealsOf(StreamOptions(d, t))
    /\ t = "salad" => m \notin MealsOf(StreamOptions(d, "executive"))
    /\ BeginChoice("choose", IF t # days[d].mealType THEN "type" ELSE "pick",
                   {d}, t, m, FALSE)

BeginSwitchMealType(t, dates, all) ==
    /\ all \/ dates # {}
    /\ \A d \in dates : d >= GetMealTypeEffectiveFrom
    /\ all => dates = { d \in MenuDates : d >= GetMealTypeEffectiveFrom }
    /\ BeginChoice("switch", "type", dates, t, NoMeal, all)

BeginToggleSaladForDay(d, t) ==
    /\ days[d].status = "scheduled"
    /\ ~IsPastCutoff(d)
    /\ BeginChoice("toggle", "type", {d}, t, NoMeal, FALSE)

UpdateMealTypeForSubscription ==
    /\ customer.pc = "type"
    /\ days' = [d \in DOMAIN days |->
                   IF d \in customer.dates /\ days[d].status = "scheduled"
                   THEN [days[d] EXCEPT !.mealType = customer.mealType,
                                        !.selected = NoMeal]
                   ELSE days[d]]
    /\ ContinueChoice(IF customer.cmd = "choose" THEN "pick"
                      ELSE IF customer.all THEN "all" ELSE "idle")
    /\ UNCHANGED <<planOpen, mealType>>

UpdateSelectedMeal ==
    /\ customer.pc = "pick"
    /\ days' = [d \in DOMAIN days |-> IF d \in customer.dates
                                      THEN [days[d] EXCEPT !.selected = customer.meal]
                                      ELSE days[d]]
    /\ ContinueChoice("idle")
    /\ UNCHANGED <<planOpen, mealType>>

UpdateDefaultMealType ==
    /\ customer.pc = "all"
    /\ mealType' = customer.mealType
    /\ ContinueChoice("idle")
    /\ UNCHANGED <<planOpen, days>>

(* What Subscriptions does to a day of the plan and to the plan: a skip and  *)
(* an undo, which may write over a day that the rider has marked meanwhile, *)
(* and the rider's mark, which takes a day of any date.                     *)
DayChanges(d) ==
    /\ \E status \in {"scheduled", "skipped", "delivered"} \ {days[d].status} :
           /\ status # "delivered" => ~IsAfterSkipCutoff(d)
           /\ days' = [days EXCEPT ![d].status = status]
    /\ UNCHANGED <<planOpen, mealType, customer>>

PlanEnds ==
    /\ planOpen
    /\ planOpen' = FALSE
    /\ UNCHANGED <<mealType, days, customer>>

-----------------------------------------------------------------------------
(* The customer's command is over before the clock moves on; the clock stops *)
(* on the last date that has a menu.                                        *)
Tick ==
    /\ Today < Max(MenuDates)
    /\ customer.cmd = NoCommand
    /\ now' = now + 1
    /\ UNCHANGED <<catalogue, menu, choices, left>>

(* The planner has not been opened yet, or a week has been filled with      *)
(* active dishes and published.                                             *)
InitMenu(start) ==
    /\ slots = start.slots
    /\ weeks = [w \in Weeks |-> IF \E id \in DOMAIN slots : WeekOf(id[1]) = w
                                THEN "published" ELSE "absent"]
    /\ editor = [e \in Editors |-> EditorResting]

Init ==
    /\ now = 0
    /\ \E start \in Starts :
           /\ meals = [m \in MealIds |-> IF m \in start.active
                                         THEN [NewMeal EXCEPT !.status = "active"]
                                         ELSE NewMeal]
           /\ InitMenu(start)
    /\ cook = [c \in Cooks |-> CookResting]
    /\ planOpen = TRUE
    /\ mealType = "executive"
    /\ days = [d \in MenuDates |-> [status |-> "scheduled", mealType |-> "executive",
                                    selected |-> NoMeal]]
    /\ customer = CustomerResting
    /\ left \in Allotments

BeginCatalogue ==
    \/ \E m \in MealIds : CreateMeal(m) \/ SoftDeleteMeal(m)
    \/ \E ms \in SUBSET MealIds : ms # {} /\ ImportMeals(ms)
    \/ \E c \in { k \in Cooks : IsFree(k) }, m \in MealIds :
           \/ \E edit \in Edits : BeginUpdateMeal(c, m, edit[1], edit[2])
           \/ \E to \in {"active", "draft"}, confirm \in BOOLEAN :
                  BeginUpdateMealStatus(c, m, to, confirm,
                                        GetPublishedWeeksBlockingMealEdit(m) # {})

BeginMenu ==
    \/ \E w \in Weeks : EnsureWeekExists(w)
    \/ \E e \in Editors : BeginEditing(e)

BeginChoices ==
    /\ customer.cmd = NoCommand
    /\ \/ \E d \in MenuDates, t \in Streams :
              \/ \E m \in MealIds : BeginSetMealChoice(d, t, m)
              \/ BeginToggleSaladForDay(d, t)
       \/ \E t \in Streams, dates \in SUBSET MenuDates, all \in BOOLEAN :
              BeginSwitchMealType(t, dates, all)

Allowed(kind) == left[kind] > 0 /\ left' = [left EXCEPT ![kind] = @ - 1]

Begin ==
    /\ \/ Allowed("catalogue") /\ BeginCatalogue /\ UNCHANGED <<menu, choices>>
       \/ Allowed("menu") /\ BeginMenu /\ UNCHANGED <<catalogue, choices>>
       \/ Allowed("choices") /\ BeginChoices /\ UNCHANGED <<catalogue, menu>>
       \/ Allowed("choices") /\ PlanEnds /\ UNCHANGED <<catalogue, menu>>
       \/ /\ Allowed("choices")
          /\ \E d \in MenuDates : DayChanges(d)
          /\ UNCHANGED <<catalogue, menu>>
    /\ UNCHANGED now

Continue ==
    /\ \/ (\E c \in Cooks : UpdateMeal(c)) /\ UNCHANGED <<menu, choices>>
       \/ (\E e \in Editors : ContinueEditing(e)) /\ UNCHANGED <<catalogue, choices>>
       \/ (UpdateMealTypeForSubscription \/ UpdateSelectedMeal \/ UpdateDefaultMealType)
          /\ UNCHANGED <<catalogue, menu>>
    /\ UNCHANGED <<now, left>>

Next == Begin \/ Continue \/ Tick

Spec == Init /\ [][Next]_vars
-----------------------------------------------------------------------------
(* What the screens offer.                                                  *)
CanChangeMealChoice_anyStatus(d, optionCount) ==
    planOpen /\ ~IsAfterSkipCutoff(d) /\ optionCount >= 2

CanChangeMealChoice(d, optionCount) ==
    /\ planOpen
    /\ days[d].status = "scheduled"
    /\ ~IsAfterSkipCutoff(d)
    /\ optionCount >= 2

Options(d) == UNION { StreamOptions(d, t) : t \in Streams }

GetMealChoice(d) ==
    [options |-> MealsOf(Options(d)),
     can_change |-> CanChangeMealChoice(d, Cardinality(Options(d)))]

CustomerDayMenu(d) == GetMealChoice(d)

(* The day that is asked for by its date shows no menu on a day off.        *)
SelectedDayMenu(d) ==
    IF d \in WorkingDays THEN CustomerDayMenu(d)
    ELSE [options |-> {}, can_change |-> FALSE]

(* Home shows the dates of this week from today on, by the UTC date.        *)
GetHomeThisWeek ==
    { <<d, CustomerDayMenu(d)>> : d \in { x \in MenuDates :
          x >= UtcToday /\ ResolveEffectiveMeal(x, days[x].mealType, days[x].selected) # {} } }

(* The page of a dish, opened for a date: if it is not on the menu of that  *)
(* date the page is about any date it is on.                                *)
GetMealDetail(m, d) ==
    LET on == { x \in MenuDates :
                   \E id \in GetMenuForDate(x) : slots[id].meal = m }
    IN  { [date |-> x,
           can_select |-> /\ m \in MealsOf(Options(x))
                          /\ CanChangeMealChoice(x, Cardinality(Options(x)))] :
          x \in IF d \in on \/ on = {} THEN {d} ELSE on }

-----------------------------------------------------------------------------
(* Properties.                                                              *)
TypeOK ==
    /\ now \in ClockHours
    /\ meals \in [MealIds -> Meal]
    /\ cook \in [Cooks -> CookLocal]
    /\ weeks \in [Weeks -> MenuWeek]
    /\ DOMAIN slots \subseteq SlotIds
    /\ \A id \in DOMAIN slots : slots[id] \in Slot
    /\ editor \in [Editors -> EditorLocal]
    /\ planOpen \in BOOLEAN
    /\ mealType \in Streams
    /\ days \in [MenuDates -> DeliveryDay]
    /\ customer \in CustomerLocal
    /\ left \in [{"catalogue", "menu", "choices"} -> Nat]

(* Between commands of the editor, whatever was added, overwritten, cleared *)
(* or made the default since, a published week still has what publishing it *)
(* required: a default dish in each stream of each date, one and no dish    *)
(* twice on a date.                                                         *)
PublishedStaysReady ==
    (\A e \in Editors : editor[e].cmd = NoCommand) =>
        \A d \in MenuDates :
            /\ \A m \in MealIds : Cardinality(SlotsWithMealOnDate(d, m)) <= 1
            /\ \A t \in Streams :
                   LET defaults == GetMenuWeek(WeekOf(d)).defaults[<<d, t>>] IN
                   /\ Cardinality(defaults) <= 1
                   /\ weeks[WeekOf(d)] = "published" => defaults # {}

(* On a published date, in the middle of an edit too, the kitchen's list and *)
(* the ERP's orders name the dish the customer's screens show: the pick     *)
(* while it is on the menu, and for a day without one the default of the    *)
(* day's stream.  While the stream has no default - its dish was deleted, or *)
(* another is being made the default - they name a dish of the stream, which *)
(* need not be the one that is shown (README, section 6).                   *)
KitchenAgrees ==
    \A d \in MenuDates :
        LET day == days[d]
            options == StreamOptions(d, day.mealType)
            shown == ResolveEffectiveMeal(d, day.mealType, day.selected)
            listed == {GetMealBreakdownByDate(d), GetDailyOrders(d)}
            known == \/ day.selected \in MealsOf(LiveSlots(GetMenuForDate(d)))
                     \/ day.selected = NoMeal /\ \E id \in options : slots[id].isDefault
        IN  /\ known => \A m \in listed : shown = {m}
            /\ day.selected = NoMeal /\ options # {} => listed \subseteq MealsOf(options)

(* docs/API_TESTING_GUIDE.md:223 has the default dish of the day's stream    *)
(* served once the pick is no longer on the menu.  The lists then name the  *)
(* default of whichever stream sorts first.                                 *)
LostPickFallsBackToStream ==
    \A d \in MenuDates :
        LET day == days[d] IN
        StreamOptions(d, day.mealType) # {}
            => GetMealBreakdownByDate(d)
                   \in ResolveEffectiveMeal(d, day.mealType, day.selected)

(* What a screen offers as a change, SetMealChoice accepts: the menu week,  *)
(* the selected day, Home, the page of a dish and the choice itself.  What  *)
(* the planner offers its editors is accepted too: a week that is ready, of *)
(* which the list says that every day is filled, can be published.          *)
OffersAreAccepted ==
    /\ \A row \in GetMenuWeeks :
          GetMenuWeek(row.week).publish_ready =>
              row.filled_days = SlotDates(row.week) /\ MayPublish(row.week)
    /\ customer.cmd = NoCommand =>
        \A d \in MenuDates :
            /\ \A screen \in { s[2] : s \in { h \in GetHomeThisWeek : h[1] = d } }
                                \cup {GetMealChoice(d), SelectedDayMenu(d)} :
                   screen.can_change => \A m \in screen.options : MayChooseMeal(d, m)
            /\ \A m \in MealIds : \A page \in GetMealDetail(m, d) :
                   page.can_select => MayChooseMeal(page.date, m)

(* The stream and the pick of a day are fixed at 18:00 the evening before,  *)
(* for all three commands, each of which has a cutoff check of its own -    *)
(* except from 00:00 to 03:00 in Riyadh, when the date in UTC is still      *)
(* yesterday's: a switch or a toggle then reaches today's own day, if it is *)
(* scheduled, and clears its pick.                                          *)
ChoiceLockedAtCutoff ==
    [][\A d \in MenuDates :
          IsAfterSkipCutoff(d) =>
              \/ /\ days'[d].mealType = days[d].mealType
                 /\ days'[d].selected = days[d].selected
              \/ /\ Hour = "night" /\ d = Today
                 /\ customer.cmd \in {"switch", "toggle"} /\ days[d].status = "scheduled"
                 /\ days'[d] = [days[d] EXCEPT !.mealType = customer.mealType,
                                               !.selected = NoMeal]]_vars

(* What a dish will look like once its edits are applied changes one field  *)
(* at a time: a second edit does not undo the first one, and activating the *)
(* dish applies exactly what was waiting.  Making it a draft drops the edits. *)
EditsSurvive ==
    [][\A m \in MealIds :
          \/ meals'[m].status = "draft" /\ meals[m].status # "draft"
          \/ Cardinality({ f \in Fields :
                 AsEdited(meals'[m])[f] # AsEdited(meals[m])[f] }) <= 1]_vars
==============================================================================
