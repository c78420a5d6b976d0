--------------------------------- MODULE Menu ---------------------------------
(***************************************************************************)
(* The menu of the weeks: slots that hold the dishes of a date in two       *)
(* streams, one of them the default.  An editor's command reads the week    *)
(* and its slots, then writes statement by statement.  A week never becomes *)
(* past: nothing calls transitionPastWeeks.                                 *)
(***************************************************************************)
EXTENDS DeliveryCalendar, Meals

CONSTANTS
    Weeks,
    DeliveryDates,   \* [week -> its Sundays to Thursdays]
    UnlockedAt,      \* [week -> the hour from which it may be planned]
    MaxDishes,       \* MAX_DISHES_PER_STREAM
    NoSlot,          \* not a slot id
    Editors          \* commands on the menu in progress at once

ASSUME MenuAssumption ==
    /\ Weeks # {}
    /\ DeliveryDates \in [Weeks -> (SUBSET Dates) \ {{}}]
    /\ \A v, w \in Weeks : v # w => DeliveryDates[v] \cap DeliveryDates[w] = {}
    /\ UnlockedAt \in [Weeks -> Nat]
    /\ MaxDishes \in Nat \ {0}
    /\ NoSlot \notin Dates \X {"executive", "salad"} \X (1 .. MaxDishes)

VARIABLES
    weeks,           \* the status of each row of menu_weeks
    slots,           \* the rows of menu_slots by id
    editor           \* what a command has read and where it is

Streams == {"executive", "salad"}
MenuDates == UNION { DeliveryDates[w] : w \in Weeks }
WeekOf(d) == CHOOSE w \in Weeks : d \in DeliveryDates[w]

(* makeSlotId: the date, the stream and an index from 1.                    *)
SlotIds == MenuDates \X Streams \X (1 .. MaxDishes)
Slot == [meal: MealIds \cup {NoMeal}, isDefault: BOOLEAN]
MenuWeek == {"absent", "draft", "published"}

EditorLocal ==
    [cmd: {NoCommand, "add", "assign", "clear", "default", "publish", "unpublish"},
     pc: {"idle", "create", "lookup", "assign", "clear", "delete", "unset", "set", "save"},
     slot: SlotIds \cup {NoSlot}, meal: MealIds \cup {NoMeal},
     week: Weeks \cup {NoCommand}, otherDefault: BOOLEAN]
EditorResting == [cmd |-> NoCommand, pc |-> "idle", slot |-> NoSlot, meal |-> NoMeal,
                  week |-> NoCommand, otherDefault |-> FALSE]

-----------------------------------------------------------------------------
SlotsForStream(d, t) == { id \in DOMAIN slots : id[1] = d /\ id[2] = t }
FilledSlotsForStream(d, t) ==
    { id \in SlotsForStream(d, t) : slots[id].meal # NoMeal }
CanAddStreamSlot_filled(d, t) == Cardinality(FilledSlotsForStream(d, t)) < MaxDishes

CanAddStreamSlot(d, t) == Cardinality(SlotsForStream(d, t)) < MaxDishes
SlotsWithMealOnDate(d, m) == { id \in DOMAIN slots : id[1] = d /\ slots[id].meal = m }
NextAvailableSlotIndex(d, t) ==
    Min({ i \in 1 .. MaxDishes + 1 : <<d, t, i>> \notin DOMAIN slots })

IsAdminWeekLocked(w) == now < UnlockedAt[w]

DayFilled(d) ==
    \A t \in Streams : \E id \in FilledSlotsForStream(d, t) : slots[id].isDefault
DayReady(d) ==
    /\ DayFilled(d)
    /\ \A id \in DOMAIN slots :
           id[1] = d /\ slots[id].meal # NoMeal =>
               ~(GetMealById(slots[id].meal) /\ meals[slots[id].meal].status = "draft")

SlotDates(w) == { id[1] : id \in DOMAIN slots } \cap DeliveryDates[w]
EvaluateWeekPublishReadiness(w) ==
    SlotDates(w) # {} /\ \A d \in SlotDates(w) : DayReady(d)

(* The slots of a published week on a date: what customers are shown.       *)
GetMenuForDate(d) ==
    IF d \in MenuDates /\ weeks[WeekOf(d)] = "published"
    THEN { id \in DOMAIN slots : id[1] = d } ELSE {}

(* This week and the next: the first two that are not over.                 *)
IsOver(w) == Max(DeliveryDates[w]) < UtcToday
LiveWeeks ==
    { w \in Weeks : /\ ~IsOver(w)
                    /\ Cardinality({ v \in Weeks : ~IsOver(v) /\
                           Max(DeliveryDates[v]) < Max(DeliveryDates[w]) }) < 2 }

GetPublishedWeeksBlockingMealEdit(m) ==
    { w \in LiveWeeks : \E d \in DeliveryDates[w] :
          \E id \in GetMenuForDate(d) : slots[id].meal = m }

-----------------------------------------------------------------------------
(* Opening the planner creates the weeks that may be planned, each date with *)
(* one empty slot per stream.                                               *)
EnsureWeekExists(w) ==
    LET new == (DeliveryDates[w] \X Streams \X {1}) \ DOMAIN slots IN
    /\ ~IsAdminWeekLocked(w)
    /\ weeks[w] = "absent" \/ new # {}
    /\ weeks' = [weeks EXCEPT ![w] = IF @ = "absent" THEN "draft" ELSE @]
    /\ slots' = [id \in DOMAIN slots \cup new |->
                    IF id \in new THEN [meal |-> NoMeal, isDefault |-> FALSE]
                    ELSE slots[id]]
    /\ UNCHANGED editor

BeginEdit(e, cmd, pc, slot, meal, w) ==
    /\ weeks[w] # "absent"
    /\ editor' = [editor EXCEPT ![e] = [cmd |-> cmd, pc |-> pc, slot |-> slot,
                     meal |-> meal, week |-> w, otherDefault |-> FALSE]]
    /\ UNCHANGED <<weeks, slots>>

AtStep(e, cmd, pc) == editor[e].cmd = cmd /\ editor[e].pc = pc
Step(e, pc) == editor' = [editor EXCEPT ![e].pc = pc]
EndEdit(e) == editor' = [editor EXCEPT ![e] = EditorResting]

MayAddMeal(d, m) == /\ GetMealById(m) /\ meals[m].status # "draft"
                    /\ SlotsWithMealOnDate(d, m) = {}

BeginAddMenuSlot(e, d, t, m) ==
    /\ CanAddStreamSlot(d, t)
    /\ m # NoMeal => MayAddMeal(d, m)
    /\ BeginEdit(e, "add", "create", <<d, t, NextAvailableSlotIndex(d, t)>>, m, WeekOf(d))

(* The insert fails when the id has been taken meanwhile.                   *)
CreateSlot(e) ==
    LET my == editor[e] IN
    /\ AtStep(e, "add", "create")
    /\ IF my.slot \in DOMAIN slots THEN UNCHANGED slots /\ EndEdit(e)
       ELSE /\ slots' = [id \in DOMAIN slots \cup {my.slot} |->
                            IF id = my.slot
                            THEN [meal |-> my.meal, isDefault |-> FALSE]
                            ELSE slots[id]]
            /\ IF my.meal = NoMeal THEN EndEdit(e) ELSE Step(e, "lookup")
    /\ UNCHANGED weeks

BeginAssignMealToSlot(e, id, m) ==
    /\ id \in DOMAIN slots
    /\ GetMealById(m) /\ meals[m].status # "draft"
    /\ SlotsWithMealOnDate(id[1], m) \subseteq {id}
    /\ BeginEdit(e, "assign", "lookup", id, m, WeekOf(id[1]))

(* assignMealToSlot of the database: is another slot of the stream the      *)
(* default?  Then the slot gets the dish and, if none was, the default.     *)
FindOtherDefault(e) ==
    LET id == editor[e].slot IN
    /\ editor[e].pc = "lookup"
    /\ IF id \in DOMAIN slots
       THEN editor' = [editor EXCEPT ![e].pc = "assign", ![e].otherDefault =
                \E o \in SlotsForStream(id[1], id[2]) : o # id /\ slots[o].isDefault]
       ELSE EndEdit(e)
    /\ UNCHANGED <<weeks, slots>>

AssignMealToSlot(e) ==
    LET my == editor[e] IN
    /\ my.pc = "assign"
    /\ EndEdit(e)
    /\ IF my.slot \in DOMAIN slots
       THEN slots' = [slots EXCEPT ![my.slot] =
                         [meal |-> my.meal,
                          isDefault |-> @.isDefault \/ ~my.otherDefault]]
       ELSE UNCHANGED slots
    /\ UNCHANGED weeks

BeginClearMenuSlot_evenLast(e, id) ==
    LET others == FilledSlotsForStream(id[1], id[2]) \ {id} IN
    /\ id \in DOMAIN slots
    /\ ~(slots[id].isDefault /\ others # {})
    /\ BeginEdit(e, "clear", "clear", id, NoMeal, WeekOf(id[1]))

BeginClearMenuSlot(e, id) ==
    LET others == FilledSlotsForStream(id[1], id[2]) \ {id} IN
    /\ id \in DOMAIN slots
    /\ weeks[WeekOf(id[1])] = "published" => others # {}
    /\ ~(slots[id].isDefault /\ others # {})
    /\ BeginEdit(e, "clear", "clear", id, NoMeal, WeekOf(id[1]))

ClearSlot(e) ==
    LET id == editor[e].slot IN
    /\ AtStep(e, "clear", "clear")
    /\ slots' = [s \in DOMAIN slots |->
                    IF s = id THEN [meal |-> NoMeal, isDefault |-> FALSE] ELSE slots[s]]
    /\ IF id \in DOMAIN slots /\ id[3] > 1 THEN Step(e, "delete") ELSE EndEdit(e)
    /\ UNCHANGED weeks

DeleteSlot(e) ==
    /\ AtStep(e, "clear", "delete")
    /\ slots' = [s \in DOMAIN slots \ {editor[e].slot} |-> slots[s]]
    /\ EndEdit(e)
    /\ UNCHANGED weeks

BeginSetMenuDayDefault(e, id) ==
    /\ id \in DOMAIN slots
    /\ slots[id].meal # NoMeal
    /\ BeginEdit(e, "default", "unset", id, slots[id].meal, WeekOf(id[1]))

(* setDayDefault of the database finds the slot of the dish again, clears   *)
(* the default of the stream and then sets the new one.                     *)
UnsetDayDefault(e) ==
    LET my == editor[e]
        stream == SlotsForStream(my.slot[1], my.slot[2])
        found == { s \in stream : slots[s].meal = my.meal }
    IN  /\ AtStep(e, "default", "unset")
        /\ IF found = {} THEN UNCHANGED slots /\ EndEdit(e)
           ELSE \E s \in found :
                /\ slots' = [o \in DOMAIN slots |->
                                IF o \in stream THEN [slots[o] EXCEPT !.isDefault = FALSE]
                                ELSE slots[o]]
                /\ editor' = [editor EXCEPT ![e].pc = "set", ![e].slot = s]
        /\ UNCHANGED weeks

SetDayDefault(e) ==
    /\ AtStep(e, "default", "set")
    /\ slots' = [s \in DOMAIN slots |->
                    IF s = editor[e].slot THEN [slots[s] EXCEPT !.isDefault = TRUE]
                    ELSE slots[s]]
    /\ EndEdit(e)
    /\ UNCHANGED weeks

MayPublish(w) ==
    /\ weeks[w] # "published"
    /\ ~IsAdminWeekLocked(w)
    /\ EvaluateWeekPublishReadiness(w)

BeginPublishMenuWeek(e, w) ==
    /\ MayPublish(w)
    /\ BeginEdit(e, "publish", "save", NoSlot, NoMeal, w)

BeginUnpublishMenuWeek(e, w) ==
    /\ weeks[w] = "published"
    /\ BeginEdit(e, "unpublish", "save", NoSlot, NoMeal, w)

PublishWeek(e) ==
    /\ AtStep(e, "publish", "save")
    /\ weeks' = [weeks EXCEPT ![editor[e].week] = "published"]
    /\ EndEdit(e)
    /\ UNCHANGED slots

UnpublishWeek(e) ==
    /\ AtStep(e, "unpublish", "save")
    /\ weeks' = [weeks EXCEPT ![editor[e].week] = "draft"]
    /\ EndEdit(e)
    /\ UNCHANGED slots

(* The planner: the weeks it lists, with the days that are filled whatever  *)
(* dishes fill them, and the page of a week.                                *)
GetMenuWeeks ==
    { [week |-> w, filled_days |-> { d \in SlotDates(w) : DayFilled(d) }] :
          w \in { v \in Weeks : weeks[v] # "absent" /\ ~IsAdminWeekLocked(v) } }

GetMenuWeek(w) ==
    [defaults |-> [p \in DeliveryDates[w] \X Streams |->
                      { id \in FilledSlotsForStream(p[1], p[2]) : slots[id].isDefault }],
     publish_ready |-> weeks[w] = "draft" /\ EvaluateWeekPublishReadiness(w)]

BeginEditing(e) ==
    /\ editor[e].cmd = NoCommand
    /\ \/ \E d \in MenuDates, t \in Streams, m \in MealIds \cup {NoMeal} :
              BeginAddMenuSlot(e, d, t, m)
       \/ \E id \in SlotIds, m \in MealIds : BeginAssignMealToSlot(e, id, m)
       \/ \E id \in SlotIds : BeginClearMenuSlot(e, id) \/ BeginSetMenuDayDefault(e, id)
       \/ \E w \in Weeks : BeginPublishMenuWeek(e, w) \/ BeginUnpublishMenuWeek(e, w)

ContinueEditing(e) ==
    \/ CreateSlot(e) \/ FindOtherDefault(e) \/ AssignMealToSlot(e)
    \/ ClearSlot(e) \/ DeleteSlot(e)
    \/ UnsetDayDefault(e) \/ SetDayDefault(e)
    \/ PublishWeek(e) \/ UnpublishWeek(e)
==============================================================================
