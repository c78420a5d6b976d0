-------------------------- MODULE MealChoices_proofs --------------------------
(***************************************************************************)
(* What holds of MealChoices for every number of dishes, dates, weeks,      *)
(* slots, cooks and editors.                                                *)
(***************************************************************************)
EXTENDS MealChoices, SetLemmas

MealsTyped == meals \in [MealIds -> Meal] /\ cook \in [Cooks -> CookLocal]

(* The insert of a slot uses an id of the planner.                          *)
MenuTyped ==
    /\ weeks \in [Weeks -> MenuWeek]
    /\ DOMAIN slots \subseteq SlotIds /\ \A id \in DOMAIN slots : slots[id] \in Slot
    /\ editor \in [Editors -> EditorLocal]
    /\ \A e \in Editors : editor[e].pc = "create" => editor[e].slot \in SlotIds

ChoicesTyped ==
    /\ planOpen \in BOOLEAN /\ mealType \in Streams
    /\ days \in [MenuDates -> DeliveryDay] /\ customer \in CustomerLocal

BoundsTyped ==
    /\ now \in ClockHours
    /\ left \in [{"catalogue", "menu", "choices"} -> Nat]

TypeInv == MealsTyped /\ MenuTyped /\ ChoicesTyped /\ BoundsTyped

-------------------------------------------------------------------------------
(* The catalogue                                                           *)

(* A dish that is not there yet is a row like any other.                    *)
LEMMA NewMealTyped == NewMeal \in Meal /\ CookResting \in CookLocal
<1>1. MealFields # {}
  <2>1. PICK v : v \in Values
    BY MealsAssumption
  <2>2. [f \in Fields |-> v] \in MealFields
    BY <2>1 DEF MealFields
  <2>. QED BY <2>2
<1>2. (CHOOSE f \in MealFields : TRUE) \in MealFields
  BY <1>1
<1>. HIDE DEF MealFields
<1>3. NewMeal \in Meal
  BY <1>2 DEF NewMeal, Meal
<1>. QED BY <1>3 DEF CookResting, CookLocal, NoCommand

(* Writing some columns of a row into another gives a row.                  *)
LEMMA ColumnsTyped ==
  ASSUME NEW old \in Meal, NEW row \in Meal, NEW columns
  PROVE  LET new == [x \in DOMAIN old |-> IF x \in columns THEN row[x] ELSE old[x]] IN
         /\ new \in Meal
         /\ new.status = IF "status" \in columns THEN row.status ELSE old.status
         /\ new.deleted = IF "deleted" \in columns THEN row.deleted ELSE old.deleted
         /\ new.live = IF "live" \in columns THEN row.live ELSE old.live
         /\ new.pending = IF "pending" \in columns THEN row.pending ELSE old.pending
<1>. DEFINE new == [x \in DOMAIN old |-> IF x \in columns THEN row[x] ELSE old[x]]
<1>1. DOMAIN old = {"status", "deleted", "live", "pending"}
  BY DEF Meal
<1>2. new = [status |-> new.status, deleted |-> new.deleted, live |-> new.live,
             pending |-> new.pending]
  BY <1>1
<1>3. /\ new.status = IF "status" \in columns THEN row.status ELSE old.status
      /\ new.deleted = IF "deleted" \in columns THEN row.deleted ELSE old.deleted
      /\ new.live = IF "live" \in columns THEN row.live ELSE old.live
      /\ new.pending = IF "pending" \in columns THEN row.pending ELSE old.pending
  BY <1>1
<1>. HIDE DEF new
<1>4. new \in Meal
  BY <1>2, <1>3 DEF Meal
<1>. QED BY <1>3, <1>4 DEF new

(* An edit of one field gives fields.                                       *)
LEMMA MergeTyped ==
  ASSUME NEW base \in MealFields, NEW f, NEW v \in Values
  PROVE  MergeMealUpdates(base, f, v) \in MealFields
BY DEF MergeMealUpdates, MealFields

(* What a dish will look like is fields, and so is what an edit starts from. *)
LEMMA SnapshotTyped ==
  ASSUME NEW meal \in Meal
  PROVE  /\ SnapshotMealFields(meal) = AsEdited(meal)
         /\ AsEdited(meal) \in MealFields
BY DEF SnapshotMealFields, AsEdited, Meal

(* What a command that edits a dish is about to write.                      *)
LEMMA EditsTyped ==
  ASSUME MealsTyped, NEW m \in MealIds, NEW f \in Fields, NEW v \in Values
  PROVE  /\ [meals[m] EXCEPT !.live[f] = v] \in Meal
         /\ [meals[m] EXCEPT !.status = "updated", !.pending =
                MergeMealUpdates(SnapshotMealFields(meals[m]), f, v)] \in Meal
<1>1. meals[m] \in Meal
  BY DEF MealsTyped
<1>2. [meals[m].live EXCEPT ![f] = v] \in MealFields
  BY <1>1 DEF Meal, MealFields
<1>3. MergeMealUpdates(SnapshotMealFields(meals[m]), f, v) \in MealFields
  BY <1>1, SnapshotTyped, MergeTyped
<1>. QED BY <1>1, <1>2, <1>3 DEF Meal

(* A command that begins has read a dish.                                   *)
LEMMA ReadTyped ==
  ASSUME MealsTyped, NEW c \in Cooks, NEW cmd \in {"edit", "status"}, NEW m \in MealIds,
         NEW row \in Meal, NEW columns \in SUBSET {"status", "live", "pending"},
         ReadMeal(c, cmd, m, row, columns)
  PROVE  MealsTyped'
BY DEF ReadMeal, MealsTyped, CookLocal

(* Every command on the catalogue, to its write.                            *)
LEMMA CatalogueTyped ==
  ASSUME MealsTyped, BeginCatalogue \/ \E c \in Cooks : UpdateMeal(c)
  PROVE  MealsTyped'
<1>1. ASSUME NEW m \in MealIds, CreateMeal(m) \/ SoftDeleteMeal(m) PROVE MealsTyped'
  BY <1>1 DEF CreateMeal, SoftDeleteMeal, MealsTyped, Meal
<1>2. ASSUME NEW ms \in SUBSET MealIds, ImportMeals(ms) PROVE MealsTyped'
  BY <1>2 DEF ImportMeals, MealsTyped, Meal
<1>3. ASSUME NEW c \in Cooks, NEW m \in MealIds, NEW edit \in Edits,
             BeginUpdateMeal(c, m, edit[1], edit[2])
      PROVE  MealsTyped'
  <2>1. edit[1] \in Fields /\ edit[2] \in Values
    BY MealChoicesAssumption
  <2>. QED BY <1>3, <2>1, EditsTyped, ReadTyped DEF BeginUpdateMeal
<1>4. ASSUME NEW c \in Cooks, NEW m \in MealIds, NEW to, NEW confirm, NEW live,
             BeginUpdateMealStatus(c, m, to, confirm, live)
      PROVE  MealsTyped'
  <2>1. meals[m] \in Meal /\ AsEdited(meals[m]) \in MealFields
    BY SnapshotTyped DEF MealsTyped
  <2>2. /\ [meals[m] EXCEPT !.status = "active", !.pending = NoPending,
                           !.live = AsEdited(meals[m])] \in Meal
        /\ [meals[m] EXCEPT !.status = "draft", !.pending = NoPending] \in Meal
        /\ [meals[m] EXCEPT !.status = "active"] \in Meal
    BY <2>1 DEF Meal
  <2>. QED BY <1>4, <2>2, ReadTyped DEF BeginUpdateMealStatus
<1>5. ASSUME NEW c \in Cooks, UpdateMeal(c) PROVE MealsTyped'
  <2>1. cook[c] \in CookLocal /\ cook' \in [Cooks -> CookLocal]
    BY <1>5, NewMealTyped DEF UpdateMeal, MealsTyped
  <2>2. CASE GetMealById(cook[c].meal)
    <3>1. cook[c].meal \in MealIds /\ cook[c].row \in Meal /\ meals[cook[c].meal] \in Meal
      BY <2>1, <2>2 DEF GetMealById, CookLocal, MealsTyped
    <3>. DEFINE old == meals[cook[c].meal]
                new == [x \in DOMAIN old |-> IF x \in cook[c].columns THEN cook[c].row[x]
                                             ELSE old[x]]
    <3>2. new \in Meal
      BY <3>1, ColumnsTyped
    <3>3. meals' = [meals EXCEPT ![cook[c].meal] = new]
      BY <1>5, <2>2, <3>1 DEF UpdateMeal, MealsTyped
    <3>. HIDE DEF new
    <3>. QED BY <2>1, <3>1, <3>2, <3>3 DEF MealsTyped
  <2>. QED BY <1>5, <2>1, <2>2 DEF UpdateMeal, MealsTyped
<1>. QED BY <1>1, <1>2, <1>3, <1>4, <1>5 DEF BeginCatalogue

-------------------------------------------------------------------------------
(* The menu                                                                *)

(* Every date of a menu is a date of one week.                              *)
LEMMA DatesOfWeeks ==
  /\ MenuDates \subseteq Dates /\ MenuDates # {} /\ IsFiniteSet(MenuDates)
  /\ \A d \in MenuDates : WeekOf(d) \in Weeks /\ d \in DeliveryDates[WeekOf(d)]
  /\ \A w \in Weeks : \A d \in DeliveryDates[w] : d \in MenuDates /\ WeekOf(d) = w
<1>1. \A w \in Weeks : DeliveryDates[w] \subseteq Dates /\ DeliveryDates[w] # {}
  BY MenuAssumption
<1>2. MenuDates \subseteq Dates /\ MenuDates # {}
  BY <1>1, MenuAssumption DEF MenuDates
<1>3. IsFiniteSet(Dates)
  BY CalendarAssumption, FS_Interval DEF Dates
<1>4. \A d \in MenuDates : \E w \in Weeks : d \in DeliveryDates[w]
  BY DEF MenuDates
<1>5. \A d \in MenuDates : WeekOf(d) \in Weeks /\ d \in DeliveryDates[WeekOf(d)]
  BY <1>4 DEF WeekOf
<1>6. ASSUME NEW w \in Weeks, NEW d \in DeliveryDates[w]
      PROVE  d \in MenuDates /\ WeekOf(d) = w
  <2>1. d \in MenuDates
    BY <1>6 DEF MenuDates
  <2>. QED BY <1>5, <2>1, MenuAssumption
<1>. QED BY <1>2, <1>3, <1>5, <1>6, FS_Subset

(* A stream that may get one more slot has an id for it.                    *)
LEMMA SlotIdIsFree ==
  ASSUME MenuTyped, NEW d \in MenuDates, NEW t \in Streams, CanAddStreamSlot(d, t)
  PROVE  /\ <<d, t, NextAvailableSlotIndex(d, t)>> \in SlotIds
         /\ <<d, t, NextAvailableSlotIndex(d, t)>> \notin DOMAIN slots
<1>. DEFINE Free == { i \in 1 .. MaxDishes + 1 : <<d, t, i>> \notin DOMAIN slots }
            Here == SlotsForStream(d, t)
<1>0. MaxDishes \in Nat /\ DOMAIN slots \subseteq SlotIds
  BY MenuAssumption DEF MenuTyped
<1>1. IsFiniteSet(Here)
  <2>. DEFINE f == [i \in 1 .. MaxDishes |-> <<d, t, i>>]
              all == { <<d, t, i>> : i \in 1 .. MaxDishes }
  <2>1. f \in Surjection(1 .. MaxDishes, all)
    BY DEF Surjection
  <2>2. IsFiniteSet(all)
    BY <1>0, <2>1, FS_Interval, FS_Surjection
  <2>3. Here \subseteq all
    BY <1>0 DEF SlotsForStream, SlotIds
  <2>. QED BY <2>2, <2>3, FS_Subset
<1>2. \E i \in 1 .. MaxDishes : i \in Free
  <2>1. SUFFICES ASSUME \A i \in 1 .. MaxDishes : <<d, t, i>> \in DOMAIN slots PROVE FALSE
    BY <1>0
  <2>. DEFINE f == [i \in 1 .. MaxDishes |-> <<d, t, i>>]
  <2>2. f \in Injection(1 .. MaxDishes, Here)
    BY <2>1 DEF Injection, IsInjective, SlotsForStream
  <2>3. Cardinality(1 .. MaxDishes) <= Cardinality(Here)
    BY <1>1, <2>2, FS_Injection
  <2>4. Cardinality(1 .. MaxDishes) = MaxDishes
    BY <1>0, MenuAssumption, FS_Interval
  <2>5. Cardinality(Here) \in Nat
    BY <1>1, FS_CardinalityType
  <2>. QED BY <1>0, <2>3, <2>4, <2>5 DEF CanAddStreamSlot
<1>3. Min(Free) \in Free /\ \A i \in Free : Min(Free) <= i
  <2>1. Free \subseteq 1 .. MaxDishes + 1 /\ Free # {} /\ Free \subseteq Int
    BY <1>0, <1>2
  <2>. HIDE DEF Free
  <2>2. IsFiniteSet(Free)
    <3>1. IsFiniteSet(1 .. MaxDishes + 1)
      BY <1>0, FS_Interval
    <3>. QED BY <2>1, <3>1, FS_Subset
  <2>. QED BY <2>1, <2>2, MinIsMember
<1>4. NextAvailableSlotIndex(d, t) = Min(Free)
  BY DEF NextAvailableSlotIndex
<1>5. Min(Free) \in 1 .. MaxDishes
  BY <1>0, <1>2, <1>3
<1>. HIDE DEF Free
<1>6. <<d, t, Min(Free)>> \notin DOMAIN slots
  BY <1>3 DEF Free
<1>. QED BY <1>4, <1>5, <1>6 DEF SlotIds

(* A step of one editor.                                                    *)
LEMMA EditorTyped ==
  ASSUME MenuTyped, NEW e \in Editors, NEW new \in EditorLocal,
         new.pc = "create" => new.slot \in SlotIds,
         editor' = [editor EXCEPT ![e] = new]
  PROVE  /\ editor' \in [Editors -> EditorLocal]
         /\ \A f \in Editors : editor'[f].pc = "create" => editor'[f].slot \in SlotIds
BY DEF MenuTyped

(* It ends the command, or goes on to the next statement.                   *)
LEMMA EditorSteps ==
  ASSUME MenuTyped, NEW e \in Editors,
         EndEdit(e) \/ \E pc \in {"lookup", "delete"} : Step(e, pc)
  PROVE  /\ editor' \in [Editors -> EditorLocal]
         /\ \A f \in Editors : editor'[f].pc = "create" => editor'[f].slot \in SlotIds
<1>1. CASE EndEdit(e)
  <2>1. EditorResting \in EditorLocal /\ EditorResting.pc # "create"
    BY DEF EditorResting, EditorLocal
  <2>. QED BY <1>1, <2>1, EditorTyped DEF EndEdit
<1>2. ASSUME NEW pc \in {"lookup", "delete"}, Step(e, pc)
      PROVE  /\ editor' \in [Editors -> EditorLocal]
             /\ \A f \in Editors : editor'[f].pc = "create" => editor'[f].slot \in SlotIds
  <2>. DEFINE new == [editor[e] EXCEPT !.pc = pc]
  <2>1. new \in EditorLocal /\ new.pc # "create"
    BY DEF MenuTyped, EditorLocal
  <2>2. editor' = [editor EXCEPT ![e] = new]
    BY <1>2 DEF Step, MenuTyped
  <2>. HIDE DEF new
  <2>. QED BY <2>1, <2>2, EditorTyped
<1>. QED BY <1>1, <1>2

(* A command that begins has read the week and its slots.                   *)
LEMMA BeginEditTyped ==
  ASSUME MenuTyped, NEW e \in Editors,
         NEW cmd \in {"add", "assign", "clear", "default", "publish", "unpublish"},
         NEW pc \in {"create", "lookup", "clear", "unset", "save"},
         NEW slot \in SlotIds \cup {NoSlot}, NEW meal \in MealIds \cup {NoMeal}, NEW w \in Weeks,
         pc = "create" => slot \in SlotIds, BeginEdit(e, cmd, pc, slot, meal, w)
  PROVE  MenuTyped'
<1>. DEFINE new == [cmd |-> cmd, pc |-> pc, slot |-> slot, meal |-> meal, week |-> w,
                    otherDefault |-> FALSE]
<1>1. new \in EditorLocal /\ (new.pc = "create" => new.slot \in SlotIds)
  BY DEF EditorLocal
<1>2. editor' = [editor EXCEPT ![e] = new] /\ UNCHANGED <<weeks, slots>>
  BY DEF BeginEdit
<1>. HIDE DEF new
<1>. QED BY <1>1, <1>2, EditorTyped DEF MenuTyped

(* Every command on the menu, when it begins.                               *)
LEMMA BeginMenuTyped ==
  ASSUME MenuTyped, BeginMenu
  PROVE  MenuTyped'
<1>1. ASSUME NEW w \in Weeks, EnsureWeekExists(w) PROVE MenuTyped'
  <2>1. DeliveryDates[w] \subseteq MenuDates /\ 1 \in 1 .. MaxDishes
    BY MenuAssumption DEF MenuDates
  <2>2. (DeliveryDates[w] \X Streams \X {1}) \subseteq SlotIds
    BY <2>1 DEF SlotIds
  <2>3. [meal |-> NoMeal, isDefault |-> FALSE] \in Slot
    BY DEF Slot
  <2>. QED BY <1>1, <2>2, <2>3 DEF EnsureWeekExists, MenuTyped, MenuWeek
<1>2. ASSUME NEW e \in Editors, BeginEditing(e) PROVE MenuTyped'
  <2>0. DOMAIN slots \subseteq SlotIds /\ \A id \in DOMAIN slots : slots[id] \in Slot
    BY DEF MenuTyped
  <2>1. \A id \in SlotIds : id[1] \in MenuDates
    BY DEF SlotIds
  <2>2. ASSUME NEW d \in MenuDates, NEW t \in Streams, NEW m \in MealIds \cup {NoMeal},
               BeginAddMenuSlot(e, d, t, m)
        PROVE  MenuTyped'
    BY <2>2, SlotIdIsFree, DatesOfWeeks, BeginEditTyped DEF BeginAddMenuSlot
  <2>3. ASSUME NEW id \in SlotIds, NEW m \in MealIds, BeginAssignMealToSlot(e, id, m)
        PROVE  MenuTyped'
    BY <2>1, <2>3, DatesOfWeeks, BeginEditTyped DEF BeginAssignMealToSlot
  <2>4. ASSUME NEW id \in SlotIds, BeginClearMenuSlot(e, id) \/ BeginSetMenuDayDefault(e, id)
        PROVE  MenuTyped'
    <3>1. id[1] \in MenuDates /\ WeekOf(id[1]) \in Weeks
      BY <2>1, DatesOfWeeks
    <3>2. CASE BeginClearMenuSlot(e, id)
      BY <3>1, <3>2, BeginEditTyped DEF BeginClearMenuSlot
    <3>3. CASE BeginSetMenuDayDefault(e, id)
      <4>1. slots[id].meal \in MealIds \cup {NoMeal}
        BY <2>0, <3>3 DEF BeginSetMenuDayDefault, Slot
      <4>. QED BY <3>1, <3>3, <4>1, BeginEditTyped DEF BeginSetMenuDayDefault
    <3>. QED BY <2>4, <3>2, <3>3
  <2>5. ASSUME NEW w \in Weeks, BeginPublishMenuWeek(e, w) \/ BeginUnpublishMenuWeek(e, w)
        PROVE  MenuTyped'
    BY <2>5, BeginEditTyped DEF BeginPublishMenuWeek, BeginUnpublishMenuWeek
  <2>. QED BY <1>2, <2>2, <2>3, <2>4, <2>5 DEF BeginEditing
<1>. QED BY <1>1, <1>2 DEF BeginMenu

(* Every statement of an editor.                                            *)
LEMMA ContinueMenuTyped ==
  ASSUME MenuTyped, NEW e \in Editors, ContinueEditing(e)
  PROVE  MenuTyped'
<1>0. /\ DOMAIN slots \subseteq SlotIds /\ \A id \in DOMAIN slots : slots[id] \in Slot
      /\ editor[e] \in EditorLocal
  BY DEF MenuTyped
<1>1. CASE CreateSlot(e)
  <2>1. editor[e].slot \in SlotIds
    BY <1>1 DEF CreateSlot, AtStep, MenuTyped
  <2>2. [meal |-> editor[e].meal, isDefault |-> FALSE] \in Slot
    BY <1>0 DEF Slot, EditorLocal
  <2>3. DOMAIN slots' \subseteq SlotIds /\ \A id \in DOMAIN slots' : slots'[id] \in Slot
    BY <1>0, <1>1, <2>1, <2>2 DEF CreateSlot
  <2>4. EndEdit(e) \/ Step(e, "lookup")
    BY <1>1 DEF CreateSlot
  <2>5. weeks' = weeks
    BY <1>1 DEF CreateSlot
  <2>. QED BY <2>3, <2>4, <2>5, EditorSteps DEF MenuTyped
<1>2. CASE FindOtherDefault(e)
  <2>1. CASE EndEdit(e)
    BY <1>2, <2>1, EditorSteps DEF FindOtherDefault, MenuTyped
  <2>2. CASE ~EndEdit(e)
    <3>1. PICK b \in BOOLEAN :
             editor' = [editor EXCEPT ![e].pc = "assign", ![e].otherDefault = b]
      BY <1>2, <2>2 DEF FindOtherDefault
    <3>. DEFINE new == [editor[e] EXCEPT !.pc = "assign", !.otherDefault = b]
    <3>2. new \in EditorLocal /\ new.pc # "create"
      BY <1>0 DEF EditorLocal
    <3>3. editor' = [editor EXCEPT ![e] = new]
      BY <3>1 DEF MenuTyped
    <3>. HIDE DEF new
    <3>. QED BY <1>2, <3>2, <3>3, EditorTyped DEF FindOtherDefault, MenuTyped
  <2>. QED BY <2>1, <2>2
<1>3. CASE AssignMealToSlot(e)
  <2>1. \A b \in BOOLEAN : [meal |-> editor[e].meal, isDefault |-> b] \in Slot
    BY <1>0 DEF Slot, EditorLocal
  <2>2. editor[e].otherDefault \in BOOLEAN /\ \A id \in DOMAIN slots : slots[id].isDefault \in BOOLEAN
    BY <1>0 DEF Slot, EditorLocal
  <2>. QED BY <1>0, <1>3, <2>1, <2>2, EditorSteps DEF AssignMealToSlot, MenuTyped
<1>4. CASE ClearSlot(e)
  <2>1. [meal |-> NoMeal, isDefault |-> FALSE] \in Slot
    BY DEF Slot
  <2>. QED BY <1>0, <1>4, <2>1, EditorSteps DEF ClearSlot, MenuTyped
<1>5. CASE DeleteSlot(e)
  BY <1>0, <1>5, EditorSteps DEF DeleteSlot, MenuTyped
<1>6. CASE UnsetDayDefault(e)
  <2>1. CASE EndEdit(e) /\ UNCHANGED slots
    BY <1>6, <2>1, EditorSteps DEF UnsetDayDefault, MenuTyped
  <2>2. CASE ~(EndEdit(e) /\ UNCHANGED slots)
    <3>1. PICK s \in DOMAIN slots : editor' = [editor EXCEPT ![e].pc = "set", ![e].slot = s]
      BY <1>6, <2>2 DEF UnsetDayDefault, SlotsForStream
    <3>. DEFINE new == [editor[e] EXCEPT !.pc = "set", !.slot = s]
    <3>2. new \in EditorLocal /\ new.pc # "create"
      BY <1>0, <3>1 DEF EditorLocal
    <3>3. editor' = [editor EXCEPT ![e] = new]
      BY <3>1 DEF MenuTyped
    <3>. HIDE DEF new
    <3>4. \A id \in DOMAIN slots : [slots[id] EXCEPT !.isDefault = FALSE] \in Slot
      BY <1>0 DEF Slot
    <3>5. DOMAIN slots' \subseteq SlotIds /\ \A id \in DOMAIN slots' : slots'[id] \in Slot
      BY <1>0, <1>6, <2>2, <3>4 DEF UnsetDayDefault
    <3>. QED BY <1>6, <3>2, <3>3, <3>5, EditorTyped DEF UnsetDayDefault, MenuTyped
  <2>. QED BY <2>1, <2>2
<1>7. CASE SetDayDefault(e)
  <2>1. \A id \in DOMAIN slots : [slots[id] EXCEPT !.isDefault = TRUE] \in Slot
    BY <1>0 DEF Slot
  <2>. QED BY <1>0, <1>7, <2>1, EditorSteps DEF SetDayDefault, MenuTyped
<1>8. CASE PublishWeek(e) \/ UnpublishWeek(e)
  BY <1>0, <1>8, EditorSteps DEF PublishWeek, UnpublishWeek, MenuTyped, MenuWeek
<1>. QED BY <1>1, <1>2, <1>3, <1>4, <1>5, <1>6, <1>7, <1>8 DEF ContinueEditing

-------------------------------------------------------------------------------
(* The customer's choices and the clock                                    *)

(* A command of the customer, from its beginning to its last statement, and *)
(* what else happens to the days and the plan.                              *)
LEMMA CustomerTyped ==
  ASSUME MenuTyped, ChoicesTyped,
         \/ BeginChoices \/ PlanEnds \/ \E d \in MenuDates : DayChanges(d)
         \/ UpdateMealTypeForSubscription \/ UpdateSelectedMeal \/ UpdateDefaultMealType
  PROVE  ChoicesTyped'
<1>0. /\ days \in [MenuDates -> DeliveryDay] /\ customer \in CustomerLocal
      /\ MenuDates \subseteq Dates
  BY DatesOfWeeks DEF ChoicesTyped
<1>1. ASSUME NEW cmd \in {"choose", "switch", "toggle"}, NEW pc \in {"type", "pick"},
             NEW dates \in SUBSET MenuDates, NEW t \in Streams, NEW m \in MealIds \cup {NoMeal},
             NEW all \in BOOLEAN, BeginChoice(cmd, pc, dates, t, m, all)
      PROVE  ChoicesTyped'
  <2>1. customer' \in CustomerLocal
    BY <1>0, <1>1 DEF BeginChoice, CustomerLocal
  <2>. QED BY <1>1, <2>1 DEF BeginChoice, ChoicesTyped
<1>2. ASSUME NEW pc \in {"idle", "pick", "all"}, ContinueChoice(pc)
      PROVE  customer' \in CustomerLocal
  <2>1. CustomerResting \in CustomerLocal
    BY DEF CustomerResting, CustomerLocal, Streams
  <2>2. [customer EXCEPT !.pc = pc] \in CustomerLocal
    BY <1>0 DEF CustomerLocal
  <2>. QED BY <1>2, <2>1, <2>2 DEF ContinueChoice
<1>3. CASE BeginChoices
  <2>1. ASSUME NEW d \in MenuDates, NEW t \in Streams, NEW m \in MealIds, BeginSetMealChoice(d, t, m)
        PROVE  ChoicesTyped'
    BY <1>1, <2>1 DEF BeginSetMealChoice
  <2>2. ASSUME NEW d \in MenuDates, NEW t \in Streams, BeginToggleSaladForDay(d, t)
        PROVE  ChoicesTyped'
    BY <1>1, <2>2 DEF BeginToggleSaladForDay
  <2>3. ASSUME NEW t \in Streams, NEW dates \in SUBSET MenuDates, NEW all \in BOOLEAN,
               BeginSwitchMealType(t, dates, all)
        PROVE  ChoicesTyped'
    BY <1>1, <2>3 DEF BeginSwitchMealType
  <2>. QED BY <1>3, <2>1, <2>2, <2>3 DEF BeginChoices
<1>4. CASE PlanEnds
  BY <1>4 DEF PlanEnds, ChoicesTyped
<1>5. ASSUME NEW d \in MenuDates, DayChanges(d) PROVE ChoicesTyped'
  <2>1. \A st \in {"scheduled", "skipped", "delivered"} :
            [days EXCEPT ![d].status = st] \in [MenuDates -> DeliveryDay]
    BY <1>0 DEF DeliveryDay
  <2>. QED BY <1>5, <2>1 DEF DayChanges, ChoicesTyped
<1>6. CASE UpdateMealTypeForSubscription
  <2>1. customer.mealType \in Streams
    BY <1>0 DEF CustomerLocal
  <2>2. \A d \in MenuDates :
           [days[d] EXCEPT !.mealType = customer.mealType, !.selected = NoMeal] \in DeliveryDay
    BY <1>0, <2>1 DEF DeliveryDay
  <2>3. days' \in [MenuDates -> DeliveryDay]
    BY <1>0, <1>6, <2>2 DEF UpdateMealTypeForSubscription
  <2>4. \E pc \in {"idle", "pick", "all"} : ContinueChoice(pc)
    BY <1>6 DEF UpdateMealTypeForSubscription
  <2>. QED BY <1>2, <1>6, <2>3, <2>4 DEF UpdateMealTypeForSubscription, ChoicesTyped
<1>7. CASE UpdateSelectedMeal
  <2>1. customer.meal \in MealIds \cup {NoMeal}
    BY <1>0 DEF CustomerLocal
  <2>2. \A d \in MenuDates : [days[d] EXCEPT !.selected = customer.meal] \in DeliveryDay
    BY <1>0, <2>1 DEF DeliveryDay
  <2>3. days' \in [MenuDates -> DeliveryDay]
    BY <1>0, <1>7, <2>2 DEF UpdateSelectedMeal
  <2>. QED BY <1>2, <1>7, <2>3 DEF UpdateSelectedMeal, ChoicesTyped
<1>8. CASE UpdateDefaultMealType
  BY <1>0, <1>2, <1>8 DEF UpdateDefaultMealType, ChoicesTyped, CustomerLocal
<1>. QED BY <1>3, <1>4, <1>5, <1>6, <1>7, <1>8

(* The clock stops on the last date of a menu.                              *)
LEMMA ClockTyped ==
  ASSUME now \in ClockHours, Tick
  PROVE  now' \in ClockHours
<1>1. MenuDates \in SUBSET Int /\ MenuDates # {} /\ IsFiniteSet(MenuDates)
  BY DatesOfWeeks, CalendarAssumption DEF Dates
<1>2. Max(MenuDates) \in Dates
  BY <1>1, DatesOfWeeks, MaxIsMember
<1>3. now \in Nat /\ now' = now + 1 /\ now \div Len(Hours) < LastDate /\ LastDate \in Nat
  BY <1>2, CalendarAssumption DEF Tick, ClockHours, Today, Dates
<1>4. CASE Len(Hours) = 2
  BY <1>3, <1>4 DEF ClockHours
<1>5. CASE Len(Hours) = 3
  BY <1>3, <1>5 DEF ClockHours
<1>. QED BY <1>4, <1>5, CalendarAssumption

-------------------------------------------------------------------------------
(* Typing                                                                  *)

(* At the start no command is under way.                                    *)
LEMMA InitTyped == Init => TypeInv
<1>. SUFFICES ASSUME Init PROVE TypeInv
  OBVIOUS
<1>1. PICK start \in Starts :
         /\ meals = [m \in MealIds |-> IF m \in start.active
                                       THEN [NewMeal EXCEPT !.status = "active"]
                                       ELSE NewMeal]
         /\ InitMenu(start)
  BY DEF Init
<1>2. MealsTyped
  <2>1. [NewMeal EXCEPT !.status = "active"] \in Meal
    BY NewMealTyped DEF Meal
  <2>. QED BY <1>1, <2>1, NewMealTyped DEF Init, MealsTyped
<1>3. MenuTyped
  <2>1. DOMAIN slots \subseteq SlotIds /\ \A id \in DOMAIN slots : slots[id] \in Slot
    BY <1>1, MealChoicesAssumption DEF InitMenu, FilledAndPublished
  <2>2. EditorResting \in EditorLocal /\ EditorResting.pc # "create"
    BY DEF EditorResting, EditorLocal
  <2>. QED BY <1>1, <2>1, <2>2 DEF InitMenu, MenuTyped, MenuWeek
<1>4. ChoicesTyped
  BY DatesOfWeeks DEF Init, ChoicesTyped, Streams, DeliveryDay, CustomerLocal, CustomerResting
<1>5. BoundsTyped
  <2>1. 0 \in ClockHours
    BY CalendarAssumption DEF ClockHours
  <2>. QED BY <2>1, MealChoicesAssumption DEF Init, BoundsTyped
<1>. QED BY <1>2, <1>3, <1>4, <1>5 DEF TypeInv

(* Every step writes typed values.                                          *)
LEMMA StepTyped == TypeInv /\ [Next]_vars => TypeInv'
<1>. SUFFICES ASSUME TypeInv, [Next]_vars PROVE TypeInv'
  OBVIOUS
<1>. USE DEF TypeInv
<1>a. UNCHANGED catalogue => MealsTyped'
  BY DEF catalogue, MealsTyped
<1>b. UNCHANGED menu => MenuTyped'
  BY DEF menu, MenuTyped
<1>c. UNCHANGED choices => ChoicesTyped'
  BY DEF choices, ChoicesTyped
<1>d. ASSUME UNCHANGED now, UNCHANGED left \/ \E kind \in {"catalogue", "menu", "choices"} : Allowed(kind)
      PROVE  BoundsTyped'
  BY <1>d DEF Allowed, BoundsTyped
<1>1. CASE Begin
  BY <1>1, <1>a, <1>b, <1>c, <1>d, CatalogueTyped, BeginMenuTyped, CustomerTyped DEF Begin
<1>2. CASE Continue
  BY <1>2, <1>a, <1>b, <1>c, <1>d, CatalogueTyped, ContinueMenuTyped, CustomerTyped DEF Continue
<1>3. CASE Tick
  BY <1>3, <1>a, <1>b, <1>c, ClockTyped DEF Tick, BoundsTyped
<1>4. CASE UNCHANGED vars
  BY <1>4, <1>a, <1>b, <1>c, <1>d DEF vars, catalogue, menu, choices
<1>. QED BY <1>1, <1>2, <1>3, <1>4 DEF Next

(* Rows, slots and days, and everything a cook, an editor or the customer   *)
(* has read, stay typed: above all a new slot always has a number of its    *)
(* stream (nextAvailableSlotIndex).                                         *)
THEOREM ChoicesTypeCorrect == Spec => []TypeOK
<1>1. TypeInv => TypeOK
  BY DEF TypeInv, MealsTyped, MenuTyped, ChoicesTyped, BoundsTyped, TypeOK
<1>. QED BY <1>1, InitTyped, StepTyped, PTL DEF Spec

-------------------------------------------------------------------------------
(* What the screens and the planner offer                                  *)

(* The options of a day are the live slots of its menu.                     *)
LEMMA OptionsAreLive ==
  ASSUME MenuTyped, NEW d
  PROVE  Options(d) = LiveSlots(GetMenuForDate(d))
<1>1. GetMenuForDate(d) \subseteq SlotIds
  BY DEF GetMenuForDate, MenuTyped
<1>2. \A id \in SlotIds : id[2] \in Streams
  BY DEF SlotIds
<1>. QED BY <1>1, <1>2 DEF Options, StreamOptions, LiveSlots

(* A dish that a screen offers may be chosen.                               *)
LEMMA OfferedMayBeChosen ==
  ASSUME MenuTyped, NEW d, CanChangeMealChoice(d, Cardinality(Options(d))),
         NEW m \in MealsOf(Options(d))
  PROVE  MayChooseMeal(d, m)
BY OptionsAreLive DEF CanChangeMealChoice, MayChooseMeal

(* In every state, whatever administrators do to menu and catalogue: a dish *)
(* offered as a change by the week, the selected day, Home or the dish's    *)
(* own page is accepted by SetMealChoice, and a week that the planner calls *)
(* ready is accepted by PublishMenuWeek.                                    *)
THEOREM OffersStayAccepted == Spec => []OffersAreAccepted
<1>1. TypeInv => OffersAreAccepted
  <2>. SUFFICES ASSUME TypeInv PROVE OffersAreAccepted
    OBVIOUS
  <2>0. MenuTyped
    BY DEF TypeInv
  <2>1. ASSUME NEW row \in GetMenuWeeks, GetMenuWeek(row.week).publish_ready
        PROVE  row.filled_days = SlotDates(row.week) /\ MayPublish(row.week)
    <3>1. PICK w \in Weeks :
             /\ ~IsAdminWeekLocked(w)
             /\ row = [week |-> w, filled_days |-> { d \in SlotDates(w) : DayFilled(d) }]
      BY <2>1 DEF GetMenuWeeks
    <3>2. row.week = w /\ row.filled_days = { d \in SlotDates(w) : DayFilled(d) }
      BY <3>1
    <3>3. weeks[w] = "draft" /\ EvaluateWeekPublishReadiness(w)
      BY <2>1, <3>2 DEF GetMenuWeek
    <3>. QED BY <3>1, <3>2, <3>3 DEF MayPublish, EvaluateWeekPublishReadiness, DayReady
  <2>2. ASSUME NEW d \in MenuDates,
               NEW screen \in { s[2] : s \in { h \in GetHomeThisWeek : h[1] = d } }
                                  \cup {GetMealChoice(d), SelectedDayMenu(d)},
               screen.can_change, NEW m \in screen.options
        PROVE  MayChooseMeal(d, m)
    <3>1. CASE screen = GetMealChoice(d)
      BY <2>0, <2>2, <3>1, OfferedMayBeChosen DEF GetMealChoice
    <3>2. CASE screen = SelectedDayMenu(d)
      BY <2>0, <2>2, <3>2, OfferedMayBeChosen DEF SelectedDayMenu, CustomerDayMenu, GetMealChoice
    <3>3. CASE screen \in { s[2] : s \in { h \in GetHomeThisWeek : h[1] = d } }
      <4>1. PICK h \in GetHomeThisWeek : h[1] = d /\ screen = h[2]
        BY <3>3
      <4>2. h[2] = GetMealChoice(h[1])
        BY DEF GetHomeThisWeek, CustomerDayMenu
      <4>. QED BY <2>0, <2>2, <4>1, <4>2, OfferedMayBeChosen DEF GetMealChoice
    <3>. QED BY <3>1, <3>2, <3>3
  <2>3. ASSUME NEW d \in MenuDates, NEW m \in MealIds, NEW page \in GetMealDetail(m, d),
               page.can_select
        PROVE  MayChooseMeal(page.date, m)
    <3>1. PICK x : page = [date |-> x,
                           can_select |-> /\ m \in MealsOf(Options(x))
                                          /\ CanChangeMealChoice(x, Cardinality(Options(x)))]
      BY DEF GetMealDetail
    <3>2. page.date = x /\ m \in MealsOf(Options(x)) /\ CanChangeMealChoice(x, Cardinality(Options(x)))
      BY <2>3, <3>1
    <3>. QED BY <2>0, <3>2, OfferedMayBeChosen
  <2>. QED BY <2>1, <2>2, <2>3 DEF OffersAreAccepted
<1>. QED BY <1>1, InitTyped, StepTyped, PTL DEF Spec

-------------------------------------------------------------------------------
(* The dish of a day, on the screens and on the lists                      *)

(* Of finitely many slots, one has the smallest value of any number that    *)
(* is computed of a slot.                                                   *)
LEMMA LeastSlot ==
  ASSUME NEW ids \in SUBSET SlotIds, IsFiniteSet(ids), ids # {}, NEW f \in [ids -> Int]
  PROVE  \E id \in ids : \A o \in ids : f[id] <= f[o]
<1>. DEFINE T == { f[id] : id \in ids }
<1>1. f \in Surjection(ids, T)
  BY DEF Surjection
<1>2. IsFiniteSet(T) /\ T \in SUBSET Int /\ T # {}
  BY <1>1, FS_Surjection
<1>. HIDE DEF T
<1>3. Min(T) \in T /\ \A y \in T : Min(T) <= y
  BY <1>2, MinIsMember
<1>4. PICK id \in ids : Min(T) = f[id]
  BY <1>3 DEF T
<1>. QED BY <1>3, <1>4 DEF T

(* The planner has finitely many slots.                                     *)
LEMMA SlotsAreFinite == IsFiniteSet(SlotIds)
<1>. DEFINE pairs == MenuDates \X Streams
            nested == pairs \X (1 .. MaxDishes)
            f == [p \in nested |-> <<p[1][1], p[1][2], p[2]>>]
<1>1. IsFiniteSet(Streams)
  <2>1. IsFiniteSet({"executive"}) /\ Streams = {"executive"} \cup {"salad"}
    BY FS_Singleton DEF Streams
  <2>. QED BY <2>1, FS_AddElement
<1>2. IsFiniteSet(pairs) /\ IsFiniteSet(1 .. MaxDishes)
  <2>1. 1 \in Int /\ MaxDishes \in Int
    BY MenuAssumption
  <2>. QED BY <1>1, <2>1, DatesOfWeeks, FS_Product, FS_Interval
<1>. HIDE DEF pairs
<1>3. IsFiniteSet(nested)
  BY <1>2, FS_Product
<1>. USE DEF pairs
<1>4. f \in [nested -> SlotIds]
  BY DEF SlotIds
<1>5. \A id \in SlotIds : \E p \in nested : f[p] = id
  <2>1. TAKE id \in SlotIds
  <2>2. PICK d \in MenuDates, t \in Streams, i \in 1 .. MaxDishes : id = <<d, t, i>>
    BY DEF SlotIds
  <2>3. <<<<d, t>>, i>> \in nested
    OBVIOUS
  <2>4. f[<<<<d, t>>, i>>] = id
    BY <2>2, <2>3
  <2>. QED BY <2>3, <2>4
<1>6. f \in Surjection(nested, SlotIds)
  BY <1>4, <1>5 DEF Surjection
<1>. QED BY <1>3, <1>6, FS_Surjection

(* An order by five numbers that tells the slots apart has a first slot.    *)
LEMMA FirstSlot ==
  ASSUME NEW ids \in SUBSET SlotIds, ids # {},
         NEW order \in [ids -> Int \X Int \X Int \X Int \X Int],
         \A id, o \in ids : order[id] = order[o] => id = o
  PROVE  \E id \in ids : \A o \in ids \ {id} : Before(order[id], order[o])
<1>. DEFINE Leasts(s, i) == { id \in s : \A o \in s : order[id][i] <= order[o][i] }
            one == Leasts(ids, 1)
            two == Leasts(one, 2)
            three == Leasts(two, 3)
            four == Leasts(three, 4)
            five == Leasts(four, 5)
<1>0. \A id \in ids : \A i \in 1 .. 5 : order[id][i] \in Int
  OBVIOUS
<1>1. ASSUME NEW s \in SUBSET ids, s # {}, NEW i \in 1 .. 5
      PROVE  Leasts(s, i) \in SUBSET ids /\ Leasts(s, i) # {}
  <2>. DEFINE f == [id \in s |-> order[id][i]]
  <2>1. f \in [s -> Int] /\ s \in SUBSET SlotIds /\ IsFiniteSet(s)
    BY <1>0, SlotsAreFinite, FS_Subset
  <2>. HIDE DEF f
  <2>2. PICK id \in s : \A o \in s : f[id] <= f[o]
    BY <1>1, <2>1, LeastSlot
  <2>3. id \in Leasts(s, i)
    BY <2>2 DEF f
  <2>. QED BY <2>3
<1>2. /\ one \in SUBSET ids /\ one # {} /\ two \in SUBSET ids /\ two # {}
      /\ three \in SUBSET ids /\ three # {} /\ four \in SUBSET ids /\ four # {}
      /\ five # {}
  <2>. HIDE DEF Leasts
  <2>. QED BY <1>1
<1>3. PICK x : x \in five
  BY <1>2
<1>4. x \in ids /\ x \in one /\ x \in two /\ x \in three /\ x \in four
  BY <1>3
<1>5. ASSUME NEW o \in ids \ {x}
      PROVE  Before(order[x], order[o])
  <2>. DEFINE a == order[x]
              b == order[o]
  <2>1. \A i \in 1 .. 5 : a[i] \in Int /\ b[i] \in Int
    BY <1>0, <1>4
  <2>2. a[1] = b[1] /\ a[2] = b[2] /\ a[3] = b[3] /\ a[4] = b[4] => a[5] # b[5]
    <3>1. a # b
      BY <1>4
    <3>2. a = <<a[1], a[2], a[3], a[4], a[5]>> /\ b = <<b[1], b[2], b[3], b[4], b[5]>>
      BY <1>4
    <3>. HIDE DEF a, b
    <3>. QED BY <3>1, <3>2
  <2>3. /\ a[1] <= b[1]
        /\ a[1] = b[1] => o \in one /\ a[2] <= b[2]
    <3>1. a[1] <= b[1]
      BY <1>4
    <3>2. a[1] = b[1] => o \in one
      BY <1>4
    <3>3. o \in one => a[2] <= b[2]
      BY <1>4
    <3>. QED BY <3>1, <3>2, <3>3
  <2>4. o \in one /\ a[2] = b[2] => o \in two /\ a[3] <= b[3]
    <3>1. o \in one /\ a[2] = b[2] => o \in two
      BY <1>4
    <3>2. o \in two => a[3] <= b[3]
      BY <1>4
    <3>. QED BY <3>1, <3>2
  <2>5. o \in two /\ a[3] = b[3] => o \in three /\ a[4] <= b[4]
    <3>1. o \in two /\ a[3] = b[3] => o \in three
      BY <1>4
    <3>2. o \in three => a[4] <= b[4]
      BY <1>4
    <3>. QED BY <3>1, <3>2
  <2>6. o \in three /\ a[4] = b[4] => a[5] <= b[5]
    <3>1. o \in three /\ a[4] = b[4] => o \in four
      BY <1>4
    <3>2. o \in four => a[5] <= b[5]
      BY <1>3
    <3>. QED BY <3>1, <3>2
  <2>. HIDE DEF a, b, one, two, three, four, five
  <2>7. \/ a[1] < b[1]
        \/ a[1] = b[1] /\ a[2] < b[2]
        \/ a[1] = b[1] /\ a[2] = b[2] /\ a[3] < b[3]
        \/ a[1] = b[1] /\ a[2] = b[2] /\ a[3] = b[3] /\ a[4] < b[4]
        \/ a[1] = b[1] /\ a[2] = b[2] /\ a[3] = b[3] /\ a[4] = b[4] /\ a[5] < b[5]
    <3>1. /\ a[1] \in Int /\ a[2] \in Int /\ a[3] \in Int /\ a[4] \in Int /\ a[5] \in Int
          /\ b[1] \in Int /\ b[2] \in Int /\ b[3] \in Int /\ b[4] \in Int /\ b[5] \in Int
      BY <2>1
    <3>. QED BY ONLY <3>1, <2>2, <2>3, <2>4, <2>5, <2>6
  <2>8. Before(a, b)
    BY <2>7 DEF Before
  <2>. QED BY <2>8 DEF a, b
<1>. QED BY <1>4, <1>5

(* The join of the lists names the pick while it is on the menu, and a dish *)
(* of the day's stream, its default if there is one, for a day without one. *)
LEMMA JoinShows ==
  ASSUME MenuTyped, ChoicesTyped, NEW d \in MenuDates, NEW publishedOnly \in BOOLEAN,
         \/ days[d].selected \in MealsOf(LiveSlots(GetMenuForDate(d)))
         \/ days[d].selected = NoMeal /\ StreamOptions(d, days[d].mealType) # {}
  PROVE  LET dish == EffectiveMealLateralJoin(d, publishedOnly)
             options == StreamOptions(d, days[d].mealType)
             defaults == { id \in options : slots[id].isDefault }
         IN  IF days[d].selected # NoMeal THEN dish = days[d].selected
             ELSE /\ dish \in MealsOf(options)
                  /\ defaults # {} => dish \in MealsOf(defaults)
<1>. DEFINE t == days[d].mealType
            pick == days[d].selected
            ids == LiveSlots(GetMenuForDate(d))
            order == [id \in ids |-> JoinOrder(id, t, pick)]
            First(x) == x \in ids /\ \A o \in ids \ {x} : Before(order[x], order[o])
<1>1. /\ ids \in SUBSET SlotIds /\ ids # {}
      /\ \A id \in ids : id[1] = d /\ id[2] \in Streams /\ id[3] \in Int
      /\ \A id, o \in ids : id[2] = o[2] /\ id[3] = o[3] => id = o
  <2>1. ids # {} /\ \A id \in ids : id \in SlotIds /\ id[1] = d
    BY DEF StreamOptions, MealsOf, LiveSlots, GetMenuForDate, MenuTyped
  <2>2. 1 .. MaxDishes \subseteq Int
    BY MenuAssumption
  <2>3. \A id \in SlotIds : id = <<id[1], id[2], id[3]>> /\ id[2] \in Streams /\ id[3] \in Int
    BY <2>2 DEF SlotIds
  <2>. QED BY <2>1, <2>3
<1>2. ids = IF publishedOnly THEN LiveSlots(GetMenuForDate(d))
            ELSE LiveSlots({ id \in DOMAIN slots : id[1] = d })
  BY <1>1 DEF GetMenuForDate, LiveSlots
<1>. HIDE DEF ids
<1>3. \A id \in ids :
         /\ order[id][1] = IF pick # NoMeal /\ slots[id].meal = pick THEN 0 ELSE 1
         /\ order[id][2] = IF pick = NoMeal /\ id[2] = t
                           THEN (IF slots[id].isDefault THEN 0 ELSE 1) ELSE 2
         /\ order[id][3] = IF slots[id].isDefault THEN 0 ELSE 1
         /\ order[id][4] = IF id[2] = "executive" THEN 0 ELSE 1
         /\ order[id][5] = id[3]
  BY DEF JoinOrder
<1>4. order \in [ids -> Int \X Int \X Int \X Int \X Int]
  BY <1>1 DEF JoinOrder
<1>5. \A id, o \in ids : order[id] = order[o] => id = o
  BY <1>1, <1>3 DEF Streams
<1>6. \E x : First(x)
  <2>. HIDE DEF order
  <2>. QED BY <1>1, <1>4, <1>5, FirstSlot
<1>7. EffectiveMealLateralJoin(d, publishedOnly)
        = slots[CHOOSE x \in ids : \A o \in ids \ {x} : Before(order[x], order[o])].meal
  BY <1>1, <1>2 DEF EffectiveMealLateralJoin
<1>8. PICK x : First(x) /\ EffectiveMealLateralJoin(d, publishedOnly) = slots[x].meal
  BY <1>6, <1>7
<1>9. ASSUME NEW o \in ids
      PROVE  /\ order[x][1] <= order[o][1]
             /\ order[x][1] = order[o][1] => order[x][2] <= order[o][2]
  <2>1. \A id \in ids : order[id][1] \in Int /\ order[id][2] \in Int
    BY <1>3
  <2>2. CASE o = x
    BY <1>8, <2>1, <2>2
  <2>3. CASE o # x
    <3>1. Before(order[x], order[o])
      BY <1>8, <2>3
    <3>2. PICK i \in 1 .. 5 : order[x][i] < order[o][i] /\ \A j \in 1 .. i - 1 : order[x][j] = order[o][j]
      BY <3>1 DEF Before
    <3>3. i = 1 \/ (i = 2 /\ order[x][1] = order[o][1])
                \/ (order[x][1] = order[o][1] /\ order[x][2] = order[o][2])
      BY <3>2
    <3>. HIDE DEF order
    <3>. QED BY <1>8, <2>1, <3>2, <3>3
  <2>. QED BY <2>2, <2>3
<1>10. x \in ids
  BY <1>8
<1>. HIDE DEF order, First
<1>11. CASE pick # NoMeal
  <2>1. PICK o \in ids : slots[o].meal = pick
    BY <1>11 DEF MealsOf, ids
  <2>2. slots[x].meal = pick
    BY <1>3, <1>9, <1>10, <1>11, <2>1
  <2>. QED BY <1>8, <1>11, <2>2
<1>12. CASE pick = NoMeal
  <2>. DEFINE options == StreamOptions(d, t)
              defaults == { id \in options : slots[id].isDefault }
  <2>1. options = { id \in ids : id[2] = t } /\ options # {}
    <3>1. pick \notin MealsOf(ids)
      BY <1>12, MealsAssumption DEF MealsOf, ids, LiveSlots, GetMealById
    <3>. QED BY <3>1 DEF StreamOptions, ids
  <2>2. \A id \in ids : order[id][1] = 1
    BY <1>3, <1>12
  <2>3. \A o \in ids : order[x][2] <= order[o][2]
    BY <1>9, <1>10, <2>2
  <2>4. x \in options
    <3>1. PICK o \in ids : o[2] = t
      BY <2>1
    <3>2. x[2] = t
      BY <1>3, <1>10, <1>12, <2>3, <3>1
    <3>. QED BY <1>10, <2>1, <3>2
  <2>5. defaults # {} => x \in defaults
    <3>1. ASSUME NEW o \in ids, o[2] = t, slots[o].isDefault
          PROVE  slots[x].isDefault
      BY <1>3, <1>10, <1>12, <2>3, <3>1
    <3>. QED BY <2>1, <2>4, <3>1
  <2>. HIDE DEF options, defaults
  <2>6. slots[x].meal \in MealsOf(options) /\ (defaults # {} => slots[x].meal \in MealsOf(defaults))
    BY <2>4, <2>5 DEF MealsOf
  <2>. QED BY <1>8, <1>12, <2>6 DEF options, defaults
<1>. QED BY <1>11, <1>12

-------------------------------------------------------------------------------
(* The cutoff                                                              *)

(* The hours in which a switch or a toggle still reaches a day.             *)
NightOf(d) == Hour = "night" /\ d = Today

(* A command of the customer is about dates whose cutoff had not passed, a  *)
(* switch or a toggle at night about today too, and the clock waits for it. *)
CustomerInv ==
    /\ customer.pc # "idle" => customer.cmd # NoCommand
    /\ customer.pc = "pick" => customer.cmd = "choose"
    /\ customer.cmd # NoCommand =>
           \A d \in customer.dates :
               IsAfterSkipCutoff(d) => customer.cmd \in {"switch", "toggle"} /\ NightOf(d)

(* The checks of the cutoff agree but for today's day at night.             *)
LEMMA CutoffsAgree ==
  ASSUME BoundsTyped, NEW d \in MenuDates
  PROVE  /\ ~IsPastCutoff(d) /\ IsAfterSkipCutoff(d) => NightOf(d)
         /\ d >= GetMealTypeEffectiveFrom /\ IsAfterSkipCutoff(d) => NightOf(d)
<1>1. now \in Nat /\ d \in Int
  BY DatesOfWeeks, CalendarAssumption DEF BoundsTyped, ClockHours, Dates
<1>2. CASE Hours = <<"day", "evening">>
  <2>1. now % 2 \in 0 .. 1 /\ now \div 2 \in Nat /\ Len(Hours) = 2
    BY <1>1, <1>2
  <2>2. Hour \in {"day", "evening"} /\ Today \in Nat
    BY <1>2, <2>1 DEF Hour, Today
  <2>. QED BY <1>1, <2>2 DEF IsPastCutoff, IsAfterSkipCutoff, GetMealTypeEffectiveFrom,
                             UtcToday, NightOf
<1>3. CASE Hours = <<"night", "day", "evening">>
  <2>1. now % 3 \in 0 .. 2 /\ now \div 3 \in Nat /\ Len(Hours) = 3
    BY <1>1, <1>3
  <2>2. Hour \in {"night", "day", "evening"} /\ Today \in Nat
    BY <1>3, <2>1 DEF Hour, Today
  <2>. QED BY <1>1, <2>2 DEF IsPastCutoff, IsAfterSkipCutoff, GetMealTypeEffectiveFrom,
                             UtcToday, NightOf
<1>. QED BY <1>2, <1>3, CalendarAssumption

(* A step leaves the stream and the pick of a date whose cutoff has passed, *)
(* or is that of a switch or a toggle at night.                             *)
Locked(d) ==
    IsAfterSkipCutoff(d) =>
        \/ /\ days'[d].mealType = days[d].mealType
           /\ days'[d].selected = days[d].selected
        \/ /\ Hour = "night" /\ d = Today
           /\ customer.cmd \in {"switch", "toggle"} /\ days[d].status = "scheduled"
           /\ days'[d] = [days[d] EXCEPT !.mealType = customer.mealType,
                                         !.selected = NoMeal]

(* Every step of the customer keeps CustomerInv and is such a step.         *)
LEMMA CustomerStep ==
  ASSUME TypeInv, CustomerInv, [Next]_vars
  PROVE  CustomerInv' /\ \A d \in MenuDates : Locked(d)
<1>. DEFINE AllLocked == \A d \in MenuDates : Locked(d)
<1>0. /\ days \in [MenuDates -> DeliveryDay] /\ customer \in CustomerLocal /\ BoundsTyped
  BY DEF TypeInv, ChoicesTyped
<1>1. ASSUME UNCHANGED <<days, customer>>, now' = now \/ customer.cmd = NoCommand
      PROVE  CustomerInv' /\ AllLocked
  BY <1>1 DEF Locked, CustomerInv, NightOf, IsAfterSkipCutoff, Today, Hour
<1>2. ASSUME UNCHANGED <<now, days>>, NEW cmd \in {"choose", "switch", "toggle"}, NEW pc, NEW t,
             NEW dates \in SUBSET MenuDates, NEW m, NEW all,
             BeginChoice(cmd, pc, dates, t, m, all), pc = "pick" => cmd = "choose",
             \A d \in dates :
                 IsAfterSkipCutoff(d) => cmd \in {"switch", "toggle"} /\ NightOf(d)
      PROVE  CustomerInv' /\ AllLocked
  <2>1. \A d : IsAfterSkipCutoff(d)' = IsAfterSkipCutoff(d) /\ NightOf(d)' = NightOf(d)
    BY <1>2 DEF IsAfterSkipCutoff, NightOf, Today, Hour
  <2>2. /\ customer'.cmd = cmd /\ customer'.pc = pc /\ customer'.dates = dates
        /\ cmd # NoCommand
    BY <1>2 DEF BeginChoice, NoCommand
  <2>3. CustomerInv'
    BY <1>2, <2>1, <2>2 DEF CustomerInv
  <2>. QED BY <1>2, <2>3 DEF Locked
<1>3. ASSUME BeginChoices, UNCHANGED now PROVE CustomerInv' /\ AllLocked
  <2>1. ASSUME NEW d \in MenuDates, NEW t \in Streams, NEW m \in MealIds, BeginSetMealChoice(d, t, m)
        PROVE  CustomerInv' /\ AllLocked
    BY <1>2, <1>3, <2>1 DEF BeginSetMealChoice, MayChooseMeal, BeginChoice
  <2>2. ASSUME NEW d \in MenuDates, NEW t \in Streams, BeginToggleSaladForDay(d, t)
        PROVE  CustomerInv' /\ AllLocked
    <3>1. IsAfterSkipCutoff(d) => NightOf(d)
      BY <1>0, <2>2, CutoffsAgree DEF BeginToggleSaladForDay
    <3>. QED BY <1>2, <1>3, <2>2, <3>1 DEF BeginToggleSaladForDay, BeginChoice
  <2>3. ASSUME NEW t \in Streams, NEW dates \in SUBSET MenuDates, NEW all \in BOOLEAN,
               BeginSwitchMealType(t, dates, all)
        PROVE  CustomerInv' /\ AllLocked
    <3>1. \A d \in dates : IsAfterSkipCutoff(d) => NightOf(d)
      BY <1>0, <2>3, CutoffsAgree DEF BeginSwitchMealType
    <3>. QED BY <1>2, <1>3, <2>3, <3>1 DEF BeginSwitchMealType, BeginChoice
  <2>. QED BY <1>3, <2>1, <2>2, <2>3 DEF BeginChoices
<1>4. ASSUME NEW pc, ContinueChoice(pc), customer.pc # "idle", UNCHANGED now,
             pc = "pick" => customer.cmd = "choose"
      PROVE  CustomerInv'
  <2>1. customer'.pc # "idle" => /\ customer'.pc = pc /\ customer'.cmd = customer.cmd
                                 /\ customer'.dates = customer.dates
    BY <1>0, <1>4 DEF ContinueChoice, CustomerLocal, CustomerResting
  <2>2. customer'.pc = "idle" => customer'.cmd = NoCommand
    BY <1>0, <1>4 DEF ContinueChoice, CustomerLocal, CustomerResting
  <2>3. \A d : IsAfterSkipCutoff(d)' = IsAfterSkipCutoff(d) /\ NightOf(d)' = NightOf(d)
    BY <1>4 DEF IsAfterSkipCutoff, NightOf, Today, Hour
  <2>. QED BY <1>4, <2>1, <2>2, <2>3 DEF CustomerInv
<1>5. ASSUME UpdateMealTypeForSubscription, UNCHANGED now PROVE CustomerInv' /\ AllLocked
  <2>1. \A d \in customer.dates :
           IsAfterSkipCutoff(d) => customer.cmd \in {"switch", "toggle"} /\ NightOf(d)
    BY <1>5 DEF CustomerInv, UpdateMealTypeForSubscription
  <2>2. \A d \in MenuDates :
           days'[d] = IF d \in customer.dates /\ days[d].status = "scheduled"
                      THEN [days[d] EXCEPT !.mealType = customer.mealType,
                                           !.selected = NoMeal]
                      ELSE days[d]
    BY <1>0, <1>5 DEF UpdateMealTypeForSubscription
  <2>3. CustomerInv'
    BY <1>4, <1>5 DEF UpdateMealTypeForSubscription
  <2>4. AllLocked
    BY <2>1, <2>2 DEF Locked, NightOf
  <2>. QED BY <2>3, <2>4
<1>6. ASSUME UpdateSelectedMeal, UNCHANGED now PROVE CustomerInv' /\ AllLocked
  <2>1. \A d \in customer.dates : ~IsAfterSkipCutoff(d)
    BY <1>6 DEF CustomerInv, UpdateSelectedMeal, NoCommand
  <2>2. \A d \in MenuDates : d \notin customer.dates => days'[d] = days[d]
    BY <1>0, <1>6 DEF UpdateSelectedMeal
  <2>3. CustomerInv'
    BY <1>4, <1>6 DEF UpdateSelectedMeal
  <2>. QED BY <2>1, <2>2, <2>3 DEF Locked
<1>7. ASSUME UpdateDefaultMealType, UNCHANGED now PROVE CustomerInv' /\ AllLocked
  BY <1>4, <1>7 DEF UpdateDefaultMealType, Locked
<1>8. ASSUME NEW d \in MenuDates, DayChanges(d), UNCHANGED now PROVE CustomerInv' /\ AllLocked
  <2>1. \E st : days' = [days EXCEPT ![d].status = st]
    BY <1>8 DEF DayChanges
  <2>2. AllLocked
    BY <1>0, <2>1 DEF DeliveryDay, Locked
  <2>3. CustomerInv'
    BY <1>8 DEF DayChanges, CustomerInv, NightOf, IsAfterSkipCutoff, Today, Hour
  <2>. QED BY <2>2, <2>3
<1>9. CASE Begin
  BY <1>1, <1>3, <1>8, <1>9 DEF Begin, choices, PlanEnds
<1>10. CASE Continue
  BY <1>1, <1>5, <1>6, <1>7, <1>10 DEF Continue, choices
<1>11. CASE Tick
  BY <1>1, <1>11 DEF Tick, choices
<1>12. CASE UNCHANGED vars
  BY <1>1, <1>12 DEF vars
<1>. QED BY <1>9, <1>10, <1>11, <1>12 DEF Next

(* At every hour, the stream and the pick of a day are fixed at its cutoff: *)
(* no command that was let through writes after it.  The one exception is   *)
(* today's scheduled day, of which a switch or a toggle between 00:00 and   *)
(* 03:00 in Riyadh still writes the stream and clears the pick.             *)
THEOREM ChoicesAreLocked == Spec => ChoiceLockedAtCutoff
<1>1. Init => CustomerInv
  BY DEF Init, CustomerResting, CustomerInv
<1>2. TypeInv /\ CustomerInv /\ [Next]_vars => CustomerInv'
  BY CustomerStep
<1>3. TypeInv /\ CustomerInv /\ [Next]_vars =>
         [\A d \in MenuDates :
             IsAfterSkipCutoff(d) =>
                 \/ /\ days'[d].mealType = days[d].mealType
                    /\ days'[d].selected = days[d].selected
                 \/ /\ Hour = "night" /\ d = Today
                    /\ customer.cmd \in {"switch", "toggle"} /\ days[d].status = "scheduled"
                    /\ days'[d] = [days[d] EXCEPT !.mealType = customer.mealType,
                                                  !.selected = NoMeal]]_vars
  BY CustomerStep DEF Locked
<1>. QED BY <1>1, <1>2, <1>3, InitTyped, StepTyped, PTL DEF Spec, ChoiceLockedAtCutoff

-------------------------------------------------------------------------------
(* The edits of a dish                                                     *)

(* The row once the columns of a command are written into it.               *)
Written(my, meal) == [x \in DOMAIN meal |-> IF x \in my.columns THEN my.row[x] ELSE meal[x]]

(* It differs in one field, or makes the dish a draft.                      *)
Gentle(old, new) ==
    \/ new.status = "draft" /\ old.status # "draft"
    \/ \A f, g \in Fields :
           AsEdited(new)[f] # AsEdited(old)[f] /\ AsEdited(new)[g] # AsEdited(old)[g] => f = g
WaitsWhenUpdated(meal) == meal.pending # NoPending => meal.status = "updated"

(* What a cook who works alone has read is still so when it writes, unless  *)
(* the dish has been deleted.                                               *)
CookHolds(my) ==
    my.cmd # NoCommand =>
        /\ my.meal \in MealIds /\ meals[my.meal].status # "none"
        /\ GetMealById(my.meal) => /\ Gentle(meals[my.meal], Written(my, meals[my.meal]))
                                   /\ WaitsWhenUpdated(Written(my, meals[my.meal]))

CookInv ==
    /\ \A m \in MealIds : WaitsWhenUpdated(meals[m])
    /\ \A c \in Cooks : CookHolds(cook[c])

(* The fields of a dish, by its columns.                                    *)
LEMMA WrittenRow ==
  ASSUME NEW my \in CookLocal, NEW meal \in Meal
  PROVE  /\ Written(my, meal) \in Meal
         /\ Written(my, meal).status = IF "status" \in my.columns THEN my.row.status ELSE meal.status
         /\ Written(my, meal).live = IF "live" \in my.columns THEN my.row.live ELSE meal.live
         /\ Written(my, meal).pending = IF "pending" \in my.columns THEN my.row.pending ELSE meal.pending
<1>1. my.row \in Meal
  BY DEF CookLocal
<1>. QED BY <1>1, ColumnsTyped DEF Written

(* A command that has just read the dish holds what it will write.          *)
LEMMA ReadHolds ==
  ASSUME MealsTyped, CookInv, NEW c \in Cooks, NEW cmd \in {"edit", "status"}, NEW m \in MealIds,
         NEW row \in Meal, NEW columns \in SUBSET {"status", "live", "pending"},
         ReadMeal(c, cmd, m, row, columns),
         NEW new \in Meal,
         new.status = IF "status" \in columns THEN row.status ELSE meals[m].status,
         new.live = IF "live" \in columns THEN row.live ELSE meals[m].live,
         new.pending = IF "pending" \in columns THEN row.pending ELSE meals[m].pending,
         Gentle(meals[m], new), WaitsWhenUpdated(new)
  PROVE  CookInv'
<1>. DEFINE my == [cmd |-> cmd, meal |-> m, row |-> row, columns |-> columns]
<1>1. my \in CookLocal /\ my.meal = m /\ my.row = row /\ my.columns = columns
  BY DEF CookLocal
<1>2. cook' = [cook EXCEPT ![c] = my] /\ meals' = meals /\ GetMealById(m) /\ meals[m] \in Meal
  BY DEF ReadMeal, MealsTyped
<1>. HIDE DEF my
<1>3. /\ Written(my, meals[m]).status = new.status
      /\ Written(my, meals[m]).live = new.live
      /\ Written(my, meals[m]).pending = new.pending
  BY <1>1, <1>2, WrittenRow
<1>4. Gentle(meals[m], Written(my, meals[m])) /\ WaitsWhenUpdated(Written(my, meals[m]))
  BY <1>3 DEF Gentle, AsEdited, WaitsWhenUpdated
<1>5. CookHolds(my)'
  BY <1>1, <1>2, <1>4 DEF CookHolds, GetMealById
<1>6. \A k \in Cooks \ {c} : CookHolds(cook[k])'
  BY <1>2 DEF CookInv, CookHolds, GetMealById, MealsTyped
<1>. QED BY <1>2, <1>5, <1>6 DEF CookInv, MealsTyped

(* A command that begins has read a row that its write changes in one field. *)
LEMMA CookBegins ==
  ASSUME MealsTyped, CookInv, BeginCatalogue
  PROVE  CookInv'
<1>1. ASSUME NEW ms \in SUBSET MealIds, NEW new \in [MealIds -> Meal],
             \A m \in ms : meals[m].status = "none" /\ WaitsWhenUpdated(new[m]),
             \A m \in MealIds \ ms : new[m] = meals[m],
             meals' = new, UNCHANGED cook
      PROVE  CookInv'
  <2>1. \A c \in Cooks : cook[c].cmd # NoCommand => cook[c].meal \in MealIds \ ms
    BY <1>1 DEF CookInv, CookHolds
  <2>. QED BY <1>1, <2>1 DEF CookInv, CookHolds, GetMealById
<1>2. ASSUME NEW m \in MealIds, CreateMeal(m) PROVE CookInv'
  <2>. DEFINE new == [meals EXCEPT ![m].status = "draft"]
  <2>1. new \in [MealIds -> Meal] /\ meals[m].status = "none" /\ WaitsWhenUpdated(meals[m])
    BY <1>2 DEF CreateMeal, MealsTyped, Meal, CookInv
  <2>2. meals[m].pending = NoPending
    BY <2>1 DEF WaitsWhenUpdated
  <2>3. WaitsWhenUpdated(new[m]) /\ \A k \in MealIds \ {m} : new[k] = meals[k]
    BY <2>1, <2>2 DEF WaitsWhenUpdated, MealsTyped, Meal
  <2>4. meals' = new /\ UNCHANGED cook
    BY <1>2 DEF CreateMeal
  <2>. HIDE DEF new
  <2>. QED BY <1>1, <2>1, <2>3, <2>4
<1>3. ASSUME NEW ms \in SUBSET MealIds, ImportMeals(ms) PROVE CookInv'
  <2>. DEFINE new == [m \in MealIds |-> IF m \in ms THEN [meals[m] EXCEPT !.status = "draft"]
                                        ELSE meals[m]]
  <2>1. new \in [MealIds -> Meal] /\ \A m \in ms : meals[m].status = "none"
    BY <1>3 DEF ImportMeals, MealsTyped, Meal
  <2>2. \A m \in ms : WaitsWhenUpdated(meals[m]) /\ meals[m].pending = NoPending
    BY <2>1 DEF WaitsWhenUpdated, CookInv
  <2>3. \A m \in ms : WaitsWhenUpdated(new[m])
    BY <2>2 DEF WaitsWhenUpdated, MealsTyped, Meal
  <2>4. meals' = new /\ UNCHANGED cook /\ \A k \in MealIds \ ms : new[k] = meals[k]
    BY <1>3 DEF ImportMeals
  <2>. HIDE DEF new
  <2>. QED BY <1>1, <2>1, <2>3, <2>4
<1>4. ASSUME NEW m \in MealIds, SoftDeleteMeal(m) PROVE CookInv'
  <2>1. /\ UNCHANGED cook /\ meals' \in [MealIds -> Meal]
        /\ \A k \in MealIds \ {m} : meals'[k] = meals[k]
        /\ meals'[m].deleted /\ meals'[m].pending = meals[m].pending
        /\ meals'[m].status = meals[m].status
    BY <1>4 DEF SoftDeleteMeal, MealsTyped, Meal
  <2>. QED BY <2>1 DEF CookInv, CookHolds, GetMealById, WaitsWhenUpdated
<1>5. ASSUME NEW c \in Cooks, NEW m \in MealIds, NEW edit \in Edits,
             BeginUpdateMeal(c, m, edit[1], edit[2])
      PROVE  CookInv'
  <2>. DEFINE f == edit[1]
              v == edit[2]
              inPlace == [meals[m] EXCEPT !.live[f] = v]
              waiting == [meals[m] EXCEPT !.status = "updated", !.pending =
                             MergeMealUpdates(SnapshotMealFields(meals[m]), f, v)]
  <2>1. f \in Fields /\ v \in Values /\ meals[m] \in Meal /\ WaitsWhenUpdated(meals[m])
    BY MealChoicesAssumption DEF MealsTyped, CookInv
  <2>2. inPlace \in Meal /\ waiting \in Meal
    BY <2>1, EditsTyped
  <2>3. CASE meals[m].status = "draft"
    <3>1. ReadMeal(c, "edit", m, inPlace, {"live"})
      BY <1>5, <2>3 DEF BeginUpdateMeal
    <3>2. /\ inPlace.live = [meals[m].live EXCEPT ![f] = v] /\ meals[m].live \in [Fields -> Values]
          /\ inPlace.status = meals[m].status /\ inPlace.pending = meals[m].pending
          /\ meals[m].pending = NoPending
      BY <2>1, <2>3 DEF Meal, MealFields, WaitsWhenUpdated
    <3>3. Gentle(meals[m], inPlace) /\ WaitsWhenUpdated(inPlace)
      BY <3>2 DEF Gentle, AsEdited, WaitsWhenUpdated
    <3>. HIDE DEF inPlace
    <3>. QED BY <2>2, <3>1, <3>2, <3>3, ReadHolds
  <2>4. CASE meals[m].status # "draft"
    <3>1. ReadMeal(c, "edit", m, waiting, {"status", "pending"})
      BY <1>5, <2>4 DEF BeginUpdateMeal
    <3>2. /\ waiting.status = "updated" /\ waiting.live = meals[m].live
          /\ waiting.pending = [AsEdited(meals[m]) EXCEPT ![f] = v]
          /\ waiting.pending \in MealFields /\ AsEdited(meals[m]) \in [Fields -> Values]
      BY <2>1, SnapshotTyped, MergeTyped DEF Meal, MealFields, MergeMealUpdates
    <3>3. AsEdited(waiting) = [AsEdited(meals[m]) EXCEPT ![f] = v]
      BY <3>2, MealsAssumption DEF AsEdited, MealFields
    <3>4. Gentle(meals[m], waiting) /\ WaitsWhenUpdated(waiting)
      BY <3>2, <3>3 DEF Gentle, WaitsWhenUpdated
    <3>. HIDE DEF waiting
    <3>. QED BY <2>2, <3>1, <3>2, <3>4, ReadHolds
  <2>. QED BY <2>3, <2>4
<1>6. ASSUME NEW c \in Cooks, NEW m \in MealIds, NEW to, NEW confirm, NEW live,
             BeginUpdateMealStatus(c, m, to, confirm, live)
      PROVE  CookInv'
  <2>. DEFINE applied == [meals[m] EXCEPT !.status = "active", !.pending = NoPending,
                                          !.live = AsEdited(meals[m])]
              dropped == [meals[m] EXCEPT !.status = "draft", !.pending = NoPending]
              started == [meals[m] EXCEPT !.status = "active"]
              cols == IF meals[m].status = "updated" \/ meals[m].pending # NoPending
                      THEN {"status", "pending"} ELSE {"status"}
  <2>1. meals[m] \in Meal /\ WaitsWhenUpdated(meals[m]) /\ AsEdited(meals[m]) \in MealFields
    BY SnapshotTyped DEF MealsTyped, CookInv
  <2>2. applied \in Meal /\ dropped \in Meal /\ started \in Meal
    BY <2>1 DEF Meal
  <2>3. CASE ReadMeal(c, "status", m, applied, {"status", "live", "pending"})
    <3>1. /\ applied.status = "active" /\ applied.pending = NoPending
          /\ applied.live = AsEdited(meals[m])
      BY <2>1 DEF Meal
    <3>2. Gentle(meals[m], applied) /\ WaitsWhenUpdated(applied)
      BY <3>1 DEF Gentle, AsEdited, WaitsWhenUpdated
    <3>. HIDE DEF applied
    <3>. QED BY <2>2, <2>3, <3>1, <3>2, ReadHolds
  <2>4. CASE ReadMeal(c, "status", m, dropped, cols)
    <3>1. /\ dropped.status = "draft" /\ dropped.pending = NoPending
          /\ dropped.live = meals[m].live
          /\ "pending" \notin cols => dropped.pending = meals[m].pending
          /\ "status" \in cols /\ "live" \notin cols /\ cols \in SUBSET {"status", "live", "pending"}
      BY <2>1 DEF Meal
    <3>2. meals[m].status = "draft" => AsEdited(dropped) = AsEdited(meals[m])
      BY <2>1, <3>1 DEF AsEdited, WaitsWhenUpdated
    <3>3. Gentle(meals[m], dropped) /\ WaitsWhenUpdated(dropped)
      BY <3>1, <3>2 DEF Gentle, WaitsWhenUpdated
    <3>. HIDE DEF dropped, cols
    <3>. QED BY <2>2, <2>4, <3>1, <3>3, ReadHolds
  <2>5. CASE ReadMeal(c, "status", m, started, {"status"}) /\ meals[m].status # "updated"
    <3>1. /\ started.status = "active" /\ started.pending = meals[m].pending
          /\ started.live = meals[m].live /\ meals[m].pending = NoPending
      BY <2>1, <2>5 DEF Meal, WaitsWhenUpdated
    <3>2. Gentle(meals[m], started) /\ WaitsWhenUpdated(started)
      BY <3>1 DEF Gentle, AsEdited, WaitsWhenUpdated
    <3>. HIDE DEF started
    <3>. QED BY <2>2, <2>5, <3>1, <3>2, ReadHolds
  <2>. QED BY <1>6, <2>3, <2>4, <2>5 DEF BeginUpdateMealStatus
<1>. QED BY <1>2, <1>3, <1>4, <1>5, <1>6 DEF BeginCatalogue

(* The write of a cook who works alone.                                     *)
LEMMA CookWrites ==
  ASSUME MealsTyped, CookInv, NEW c \in Cooks, UpdateMeal(c), \A k \in Cooks : k = c
  PROVE  /\ CookInv'
         /\ \A m \in MealIds : meals'[m] = meals[m] \/ Gentle(meals[m], meals'[m])
<1>. DEFINE my == cook[c]
<1>1. my \in CookLocal /\ my.cmd # NoCommand /\ CookHolds(my)
  BY DEF UpdateMeal, MealsTyped, CookInv
<1>2. \A k \in Cooks : cook'[k] = CookResting
  BY DEF UpdateMeal, MealsTyped
<1>3. CASE GetMealById(my.meal)
  <2>1. my.meal \in MealIds /\ meals[my.meal] \in Meal
    BY <1>1, <1>3 DEF CookHolds, MealsTyped
  <2>2. /\ meals'[my.meal] = Written(my, meals[my.meal])
        /\ \A m \in MealIds \ {my.meal} : meals'[m] = meals[m]
    BY <1>3, <2>1 DEF UpdateMeal, MealsTyped, Written
  <2>3. /\ Gentle(meals[my.meal], Written(my, meals[my.meal]))
        /\ WaitsWhenUpdated(Written(my, meals[my.meal]))
    BY <1>1, <1>3 DEF CookHolds
  <2>. HIDE DEF my
  <2>. QED BY <1>2, <2>1, <2>2, <2>3 DEF CookInv, CookHolds, CookResting
<1>4. CASE ~GetMealById(my.meal)
  BY <1>2, <1>4 DEF UpdateMeal, CookInv, CookHolds, CookResting
<1>. QED BY <1>3, <1>4

(* Every step.                                                              *)
LEMMA CookStep ==
  ASSUME \A c, k \in Cooks : c = k, TypeInv, CookInv, [Next]_vars
  PROVE  /\ CookInv'
         /\ \A m \in MealIds : \/ /\ meals'[m].status = meals[m].status \/ meals'[m].status = "draft"
                                  /\ AsEdited(meals'[m]) = AsEdited(meals[m])
                               \/ Gentle(meals[m], meals'[m])
<1>. DEFINE Kept == \A m \in MealIds :
                        \/ /\ meals'[m].status = meals[m].status \/ meals'[m].status = "draft"
                           /\ AsEdited(meals'[m]) = AsEdited(meals[m])
                        \/ Gentle(meals[m], meals'[m])
<1>0. MealsTyped
  BY DEF TypeInv
<1>1. CASE UNCHANGED catalogue
  BY <1>1 DEF catalogue, CookInv, CookHolds, GetMealById
<1>2. CASE BeginCatalogue
  <2>1. ASSUME NEW m \in MealIds
        PROVE  /\ AsEdited(meals'[m]) = AsEdited(meals[m])
               /\ meals'[m].status = meals[m].status \/ meals'[m].status = "draft"
    <3>1. \/ meals'[m] = meals[m]
          \/ meals'[m] = [meals[m] EXCEPT !.status = "draft"]
          \/ meals'[m] = [meals[m] EXCEPT !.deleted = TRUE]
      BY <1>0, <1>2 DEF BeginCatalogue, CreateMeal, ImportMeals, SoftDeleteMeal, BeginUpdateMeal,
                        BeginUpdateMealStatus, ReadMeal, MealsTyped
    <3>2. meals[m] \in Meal
      BY <1>0 DEF MealsTyped
    <3>. QED BY <3>1, <3>2 DEF AsEdited, Meal
  <2>. QED BY <1>0, <1>2, <2>1, CookBegins
<1>3. ASSUME NEW c \in Cooks, UpdateMeal(c) PROVE CookInv' /\ Kept
  BY <1>0, <1>3, CookWrites
<1>4. CASE Begin
  BY <1>1, <1>2, <1>4 DEF Begin
<1>5. CASE Continue
  BY <1>1, <1>3, <1>5 DEF Continue
<1>6. CASE Tick
  BY <1>1, <1>6 DEF Tick
<1>7. CASE UNCHANGED vars
  BY <1>1, <1>7 DEF vars, catalogue
<1>. QED BY <1>4, <1>5, <1>6, <1>7 DEF Next

(* While one command at a time is under way on the catalogue (two lose each *)
(* other's edits: README, section 4), what a dish will look like changes    *)
(* one field at a time, whether it is a draft, is edited again while edits  *)
(* wait, or is activated; only making it a draft drops them.                *)
THEOREM EditsAlwaysSurvive ==
  ASSUME \A c, k \in Cooks : c = k
  PROVE  Spec => EditsSurvive
<1>. DEFINE One(m) == \/ meals'[m].status = "draft" /\ meals[m].status # "draft"
                      \/ Cardinality({ f \in Fields :
                            AsEdited(meals'[m])[f] # AsEdited(meals[m])[f] }) <= 1
<1>1. Init => CookInv
  <2>1. SUFFICES ASSUME Init PROVE CookInv
    OBVIOUS
  <2>2. NewMeal \in Meal /\ NewMeal.pending = NoPending
    BY NewMealTyped DEF NewMeal
  <2>3. \A m \in MealIds : meals[m].pending = NoPending
    BY <2>1, <2>2 DEF Init, Meal
  <2>4. \A c \in Cooks : cook[c].cmd = NoCommand
    BY <2>1 DEF Init, CookResting
  <2>. QED BY <2>3, <2>4 DEF CookInv, CookHolds, WaitsWhenUpdated
<1>2. TypeInv /\ CookInv /\ [Next]_vars => CookInv'
  BY CookStep
<1>3. ASSUME TypeInv, CookInv, [Next]_vars, NEW m \in MealIds
      PROVE  One(m)
  <2>. DEFINE changed == { f \in Fields : AsEdited(meals'[m])[f] # AsEdited(meals[m])[f] }
  <2>1. CASE meals'[m].status = "draft" /\ meals[m].status # "draft"
    BY <2>1
  <2>2. CASE ~(meals'[m].status = "draft" /\ meals[m].status # "draft")
    <3>1. \A f, g \in changed : f = g
      BY <1>3, <2>2, CookStep DEF Gentle
    <3>. HIDE DEF changed
    <3>2. Cardinality(changed) <= 1
      BY <3>1, AtMostOneMember
    <3>. QED BY <3>2 DEF changed
  <2>. QED BY <2>1, <2>2
<1>4. TypeInv /\ CookInv /\ [Next]_vars => [\A m \in MealIds : One(m)]_vars
  BY <1>3
<1>. QED BY <1>1, <1>2, <1>4, InitTyped, StepTyped, PTL DEF Spec, EditsSurvive

-------------------------------------------------------------------------------
(* The menu of a published week                                            *)

(* The rows of the planner: a week that is there has the first slot of each *)
(* stream of its dates, a default has a dish, a stream has one default and  *)
(* a date has a dish once.                                                  *)
HasDefault(d, t) == \E id \in SlotsForStream(d, t) : slots[id].isDefault

PlannerInv ==
    /\ \A d \in MenuDates, t \in Streams :
           weeks[WeekOf(d)] # "absent" => <<d, t, 1>> \in DOMAIN slots
    /\ \A id \in DOMAIN slots : slots[id].isDefault => slots[id].meal # NoMeal
    /\ \A id, o \in DOMAIN slots :
           (id[1] = o[1] /\ id[2] = o[2] /\ slots[id].isDefault /\ slots[o].isDefault) => id = o
    /\ \A id, o \in DOMAIN slots :
           (id[1] = o[1] /\ slots[id].meal = slots[o].meal /\ slots[id].meal # NoMeal) => id = o

(* A published week has its defaults, but for the stream whose default is   *)
(* being replaced.                                                          *)
Replacing(my, d, t) ==
    my.cmd = "default" /\ my.pc = "set" /\ my.slot[1] = d /\ my.slot[2] = t

PublishedInv ==
    \A d \in MenuDates, t \in Streams :
        weeks[WeekOf(d)] = "published" =>
            HasDefault(d, t) \/ \E e \in Editors : Replacing(editor[e], d, t)

(* What an editor who works alone has read is still so.                     *)
EditorHolds(my) ==
    /\ my.cmd = NoCommand <=> my.pc = "idle"
    /\ my.pc \in {"create", "lookup", "assign"} => my.slot \in SlotIds
    /\ my.pc = "create" => /\ weeks[WeekOf(my.slot[1])] # "absent"
                           /\ my.meal # NoMeal => SlotsWithMealOnDate(my.slot[1], my.meal) = {}
    /\ my.pc \in {"lookup", "assign"} =>
           my.meal # NoMeal /\ SlotsWithMealOnDate(my.slot[1], my.meal) \subseteq {my.slot}
    /\ my.pc = "assign" =>
           my.otherDefault <=> \E o \in SlotsForStream(my.slot[1], my.slot[2]) :
                                   o # my.slot /\ slots[o].isDefault
    /\ my.pc = "clear" => /\ my.slot \in DOMAIN slots
                          /\ weeks[WeekOf(my.slot[1])] = "published" => ~slots[my.slot].isDefault
    /\ my.pc = "delete" => /\ my.slot \in DOMAIN slots /\ my.slot[3] > 1
                           /\ ~slots[my.slot].isDefault
    /\ my.pc = "unset" => my.cmd = "default" /\ my.slot \in DOMAIN slots /\ my.meal # NoMeal
    /\ my.pc = "set" => /\ my.cmd = "default" /\ my.slot \in DOMAIN slots
                        /\ slots[my.slot].meal # NoMeal
                        /\ ~HasDefault(my.slot[1], my.slot[2])
    /\ my.cmd \in {"publish", "unpublish"} => my.week \in Weeks /\ weeks[my.week] # "absent"
    /\ my.cmd = "publish" =>
           \A d \in DeliveryDates[my.week], t \in Streams : HasDefault(d, t)

EditorsInv == \A e \in Editors : EditorHolds(editor[e])

MenuInv == PlannerInv /\ PublishedInv /\ EditorsInv

(* A command that is over holds nothing.                                    *)
LEMMA RestingHolds ==
  ASSUME MenuTyped, NEW e \in Editors, \A k \in Editors : k = e, EndEdit(e)
  PROVE  EditorsInv' /\ \A d, t : ~Replacing(editor[e], d, t)'
<1>1. \A k \in Editors : editor'[k] = EditorResting
  BY DEF EndEdit, MenuTyped
<1>2. EditorHolds(EditorResting)'
  BY DEF EditorHolds, EditorResting, NoCommand
<1>. QED BY <1>1, <1>2 DEF EditorsInv, EditorResting, Replacing, NoCommand

(* Opening the planner creates weeks that nobody is editing.                *)
LEMMA EnsureWeekKeepsMenu ==
  ASSUME MenuTyped, MenuInv, NEW w \in Weeks, EnsureWeekExists(w)
  PROVE  MenuInv'
<1>. DEFINE new == (DeliveryDates[w] \X Streams \X {1}) \ DOMAIN slots
<1>0. \A v \in Weeks : \A d \in DeliveryDates[v] : d \in MenuDates /\ WeekOf(d) = v
  BY DatesOfWeeks
<1>1. /\ DOMAIN slots' = DOMAIN slots \cup new
      /\ \A id \in DOMAIN slots : slots'[id] = slots[id]
      /\ \A id \in new : slots'[id].meal = NoMeal /\ ~slots'[id].isDefault
      /\ UNCHANGED editor
  BY DEF EnsureWeekExists
<1>2. weeks[w] = "absent" /\ weeks' = [weeks EXCEPT ![w] = "draft"]
  <2>1. weeks[w] # "absent" => new = {}
    BY <1>0 DEF MenuInv, PlannerInv
  <2>. QED BY <2>1 DEF EnsureWeekExists
<1>3. /\ \A v \in Weeks : weeks'[v] = IF v = w THEN "draft" ELSE weeks[v]
      /\ \A d \in MenuDates : WeekOf(d) = w => d \in DeliveryDates[w]
  BY <1>2, DatesOfWeeks DEF MenuTyped
<1>4. ASSUME NEW d \in MenuDates, NEW t \in Streams, weeks'[WeekOf(d)] # "absent"
      PROVE  <<d, t, 1>> \in DOMAIN slots'
  <2>1. CASE WeekOf(d) = w
    BY <1>1, <1>3, <2>1
  <2>2. CASE WeekOf(d) # w
    BY <1>1, <1>3, <1>4, <2>2, DatesOfWeeks DEF MenuInv, PlannerInv
  <2>. QED BY <2>1, <2>2
<1>. HIDE DEF new
<1>5. PlannerInv'
  BY <1>1, <1>4 DEF MenuInv, PlannerInv
<1>6. \A d, t : HasDefault(d, t)' <=> HasDefault(d, t)
  BY <1>1 DEF HasDefault, SlotsForStream
<1>7. PublishedInv'
  BY <1>1, <1>2, <1>3, <1>6, DatesOfWeeks DEF MenuInv, PublishedInv, Replacing
<1>8. ASSUME NEW e \in Editors PROVE EditorHolds(editor[e])'
  <2>. PICK my \in EditorLocal : my = editor[e]
    BY DEF MenuTyped
  <2>0. EditorHolds(my) /\ editor'[e] = my
    BY <1>1 DEF MenuInv, EditorsInv
  <2>1. my.pc \in {"create", "lookup", "assign", "clear"} =>
            my.slot \in SlotIds /\ WeekOf(my.slot[1]) \in Weeks
    BY <2>0, DatesOfWeeks DEF EditorHolds, SlotIds, MenuTyped
  <2>2. \A d, m : m # NoMeal => SlotsWithMealOnDate(d, m)' = SlotsWithMealOnDate(d, m)
    BY <1>1 DEF SlotsWithMealOnDate
  <2>4. ASSUME NEW v \in Weeks, weeks[v] # "absent" PROVE weeks'[v] = weeks[v]
    BY <1>2, <1>3, <2>4
  <2>5. my.pc = "create" =>
            /\ weeks'[WeekOf(my.slot[1])] # "absent"
            /\ my.meal # NoMeal => SlotsWithMealOnDate(my.slot[1], my.meal)' = {}
    BY <2>0, <2>1, <2>2, <2>4 DEF EditorHolds
  <2>6. my.pc = "clear" => /\ my.slot \in DOMAIN slots'
                           /\ weeks'[WeekOf(my.slot[1])] = "published" => ~slots'[my.slot].isDefault
    BY <1>1, <1>3, <2>0, <2>1 DEF EditorHolds
  <2>7. /\ my.cmd \in {"publish", "unpublish"} =>
               my.week \in Weeks /\ weeks'[my.week] # "absent"
        /\ my.cmd = "publish" =>
               \A d \in DeliveryDates[my.week], t \in Streams : HasDefault(d, t)'
    BY <1>6, <2>0, <2>4 DEF EditorHolds
  <2>8. my.pc \in {"lookup", "assign"} =>
            my.meal # NoMeal /\ SlotsWithMealOnDate(my.slot[1], my.meal)' \subseteq {my.slot}
    BY <2>0, <2>2 DEF EditorHolds
  <2>9. my.pc = "assign" =>
            (my.otherDefault <=> \E o \in SlotsForStream(my.slot[1], my.slot[2])' :
                                     o # my.slot /\ slots'[o].isDefault)
    BY <1>1, <2>0 DEF EditorHolds, SlotsForStream
  <2>10. my.pc \in {"delete", "unset", "set"} =>
            my.slot \in DOMAIN slots' /\ slots'[my.slot] = slots[my.slot]
    BY <1>1, <2>0 DEF EditorHolds
  <2>11. EditorHolds(my)'
    BY <1>6, <2>0, <2>5, <2>6, <2>7, <2>8, <2>9, <2>10 DEF EditorHolds
  <2>. QED BY <2>0, <2>11 DEF EditorHolds
<1>. QED BY <1>5, <1>7, <1>8 DEF MenuInv, EditorsInv

(* A command that begins holds what it has just read.                       *)
LEMMA BeginEditHolds ==
  ASSUME MenuTyped, MenuInv, NEW e \in Editors, \A k \in Editors : k = e,
         editor[e].cmd = NoCommand, NEW my, EditorHolds(my),
         editor' = [editor EXCEPT ![e] = my], UNCHANGED <<weeks, slots>>
  PROVE  MenuInv'
<1>1. editor'[e] = my
  BY DEF MenuTyped
<1>2. PlannerInv' /\ \A d, t : HasDefault(d, t)' <=> HasDefault(d, t)
  BY DEF MenuInv, PlannerInv, HasDefault, SlotsForStream
<1>3. \A d, t : ~Replacing(editor[e], d, t)
  BY DEF Replacing, NoCommand
<1>4. PublishedInv'
  BY <1>2, <1>3 DEF MenuInv, PublishedInv
<1>5. EditorHolds(my)'
  BY DEF EditorHolds, HasDefault, SlotsForStream, SlotsWithMealOnDate
<1>6. EditorHolds(editor[e])'
  BY <1>1, <1>5 DEF EditorHolds
<1>. QED BY <1>2, <1>4, <1>6 DEF MenuInv, EditorsInv

(* Every command on the menu, when it begins.                               *)
LEMMA BeginEditingKeepsMenu ==
  ASSUME MenuTyped, MenuInv, NEW e \in Editors, \A k \in Editors : k = e, BeginEditing(e)
  PROVE  MenuInv'
<1>. DEFINE Read(cmd, pc, slot, m, w) == [cmd |-> cmd, pc |-> pc, slot |-> slot, meal |-> m,
                                          week |-> w, otherDefault |-> FALSE]
<1>0. /\ editor[e].cmd = NoCommand
      /\ DOMAIN slots \subseteq SlotIds
      /\ \A id \in SlotIds : id[1] \in MenuDates /\ id[2] \in Streams
  BY DEF BeginEditing, MenuTyped, SlotIds
<1>1. ASSUME NEW d \in MenuDates, NEW t \in Streams, NEW m \in MealIds \cup {NoMeal},
             BeginAddMenuSlot(e, d, t, m)
      PROVE  MenuInv'
  <2>1. PICK id \in SlotIds : id = <<d, t, NextAvailableSlotIndex(d, t)>>
    BY <1>1, SlotIdIsFree DEF BeginAddMenuSlot
  <2>2. BeginEdit(e, "add", "create", id, m, WeekOf(d)) /\ (m # NoMeal => MayAddMeal(d, m))
    BY <1>1, <2>1 DEF BeginAddMenuSlot
  <2>3. id[1] = d
    BY <2>1
  <2>4. EditorHolds(Read("add", "create", id, m, WeekOf(d)))
    BY <2>2, <2>3 DEF EditorHolds, BeginEdit, MayAddMeal, NoCommand
  <2>. QED BY <1>0, <2>2, <2>4, BeginEditHolds DEF BeginEdit
<1>2. ASSUME NEW id \in SlotIds, NEW m \in MealIds, BeginAssignMealToSlot(e, id, m) PROVE MenuInv'
  <2>1. /\ BeginEdit(e, "assign", "lookup", id, m, WeekOf(id[1]))
        /\ m # NoMeal /\ SlotsWithMealOnDate(id[1], m) \subseteq {id}
    BY <1>2 DEF BeginAssignMealToSlot, GetMealById
  <2>2. EditorHolds(Read("assign", "lookup", id, m, WeekOf(id[1])))
    BY <2>1 DEF EditorHolds, NoCommand
  <2>. QED BY <1>0, <2>1, <2>2, BeginEditHolds DEF BeginEdit
<1>3. ASSUME NEW id \in SlotIds, BeginClearMenuSlot(e, id) PROVE MenuInv'
  <2>1. BeginEdit(e, "clear", "clear", id, NoMeal, WeekOf(id[1])) /\ id \in DOMAIN slots
    BY <1>3 DEF BeginClearMenuSlot
  <2>2. weeks[WeekOf(id[1])] = "published" => ~slots[id].isDefault
    BY <1>3 DEF BeginClearMenuSlot
  <2>3. EditorHolds(Read("clear", "clear", id, NoMeal, WeekOf(id[1])))
    BY <2>1, <2>2 DEF EditorHolds, NoCommand
  <2>. QED BY <1>0, <2>1, <2>3, BeginEditHolds DEF BeginEdit
<1>4. ASSUME NEW id \in SlotIds, BeginSetMenuDayDefault(e, id) PROVE MenuInv'
  <2>1. /\ BeginEdit(e, "default", "unset", id, slots[id].meal, WeekOf(id[1]))
        /\ id \in DOMAIN slots /\ slots[id].meal # NoMeal
    BY <1>4 DEF BeginSetMenuDayDefault
  <2>2. EditorHolds(Read("default", "unset", id, slots[id].meal, WeekOf(id[1])))
    BY <2>1 DEF EditorHolds, NoCommand
  <2>. QED BY <1>0, <2>1, <2>2, BeginEditHolds DEF BeginEdit
<1>5. ASSUME NEW w \in Weeks, BeginPublishMenuWeek(e, w) PROVE MenuInv'
  <2>1. /\ BeginEdit(e, "publish", "save", NoSlot, NoMeal, w) /\ weeks[w] # "absent"
        /\ EvaluateWeekPublishReadiness(w)
    BY <1>5 DEF BeginPublishMenuWeek, MayPublish, BeginEdit
  <2>2. ASSUME NEW d \in DeliveryDates[w], NEW t \in Streams PROVE HasDefault(d, t)
    <3>1. d \in MenuDates /\ WeekOf(d) = w
      BY DatesOfWeeks
    <3>2. <<d, t, 1>> \in DOMAIN slots /\ <<d, t, 1>>[1] = d
      BY <2>1, <3>1 DEF MenuInv, PlannerInv
    <3>3. d \in SlotDates(w)
      BY <3>2 DEF SlotDates
    <3>4. DayFilled(d)
      BY <2>1, <3>3 DEF EvaluateWeekPublishReadiness, DayReady
    <3>. QED BY <3>4 DEF DayFilled, FilledSlotsForStream, HasDefault
  <2>3. EditorHolds(Read("publish", "save", NoSlot, NoMeal, w))
    BY <2>1, <2>2 DEF EditorHolds, NoCommand
  <2>. QED BY <1>0, <2>1, <2>3, BeginEditHolds DEF BeginEdit
<1>6. ASSUME NEW w \in Weeks, BeginUnpublishMenuWeek(e, w) PROVE MenuInv'
  <2>1. BeginEdit(e, "unpublish", "save", NoSlot, NoMeal, w) /\ weeks[w] # "absent"
    BY <1>6 DEF BeginUnpublishMenuWeek, BeginEdit
  <2>2. EditorHolds(Read("unpublish", "save", NoSlot, NoMeal, w))
    BY <2>1 DEF EditorHolds, NoCommand
  <2>. QED BY <1>0, <2>1, <2>2, BeginEditHolds DEF BeginEdit
<1>. QED BY <1>1, <1>2, <1>3, <1>4, <1>5, <1>6 DEF BeginEditing

(* The statements that add a slot and look for another default.             *)
LEMMA AddingKeepsMenu ==
  ASSUME MenuTyped, MenuInv, NEW e \in Editors, \A k \in Editors : k = e,
         CreateSlot(e) \/ FindOtherDefault(e)
  PROVE  MenuInv'
<1>. PICK my \in EditorLocal : my = editor[e]
  BY DEF MenuTyped
<1>0. EditorHolds(my) /\ DOMAIN slots \subseteq SlotIds
  BY DEF MenuInv, EditorsInv, MenuTyped
<1>1. CASE CreateSlot(e) /\ my.slot \in DOMAIN slots
  <2>1. UNCHANGED <<weeks, slots>> /\ EndEdit(e) /\ my.cmd # "default"
    BY <1>1 DEF CreateSlot, AtStep
  <2>2. EditorsInv'
    BY <2>1, RestingHolds
  <2>3. PlannerInv' /\ PublishedInv'
    BY <2>1 DEF MenuInv, PlannerInv, PublishedInv, HasDefault, SlotsForStream, Replacing
  <2>. QED BY <2>2, <2>3 DEF MenuInv
<1>2. CASE CreateSlot(e) /\ my.slot \notin DOMAIN slots
  <2>1. /\ DOMAIN slots' = DOMAIN slots \cup {my.slot}
        /\ \A id \in DOMAIN slots : slots'[id] = slots[id]
        /\ slots'[my.slot].meal = my.meal /\ ~slots'[my.slot].isDefault
        /\ weeks' = weeks /\ my.pc = "create" /\ my.cmd = "add"
        /\ IF my.meal = NoMeal THEN EndEdit(e) ELSE Step(e, "lookup")
    BY <1>2 DEF CreateSlot, AtStep
  <2>2. /\ my.slot \in SlotIds
        /\ \A o \in DOMAIN slots : o[1] = my.slot[1] /\ slots[o].meal = my.meal => my.meal = NoMeal
    BY <1>0, <2>1 DEF EditorHolds, SlotsWithMealOnDate
  <2>3. PlannerInv'
    BY <2>1, <2>2 DEF MenuInv, PlannerInv
  <2>4. \A d, t : ~Replacing(editor[e], d, t) /\ (HasDefault(d, t) => HasDefault(d, t)')
    BY <2>1 DEF HasDefault, SlotsForStream, Replacing
  <2>5. PublishedInv'
    BY <2>1, <2>4 DEF MenuInv, PublishedInv
  <2>6. CASE my.meal = NoMeal
    BY <2>1, <2>3, <2>5, <2>6, RestingHolds DEF MenuInv
  <2>7. CASE my.meal # NoMeal
    <3>1. editor'[e] = [my EXCEPT !.pc = "lookup"]
      BY <2>1, <2>7 DEF Step, MenuTyped
    <3>2. SlotsWithMealOnDate(my.slot[1], my.meal)' \subseteq {my.slot}
      BY <2>1, <2>2, <2>7 DEF SlotsWithMealOnDate
    <3>3. EditorHolds([my EXCEPT !.pc = "lookup"])'
      BY <2>1, <2>2, <2>7, <3>2 DEF EditorHolds, EditorLocal, NoCommand
    <3>4. EditorHolds(editor[e])'
      BY <3>1, <3>3 DEF EditorHolds
    <3>. QED BY <2>3, <2>5, <3>4 DEF MenuInv, EditorsInv
  <2>. QED BY <2>6, <2>7
<1>3. CASE FindOtherDefault(e)
  <2>1. UNCHANGED <<weeks, slots>> /\ my.pc = "lookup"
    BY <1>3 DEF FindOtherDefault
  <2>2. \A d, t : ~Replacing(editor[e], d, t)
    BY <2>1 DEF Replacing
  <2>3. PlannerInv' /\ PublishedInv'
    BY <2>1, <2>2 DEF MenuInv, PlannerInv, PublishedInv, HasDefault, SlotsForStream
  <2>4. CASE my.slot \notin DOMAIN slots
    <3>1. EndEdit(e)
      BY <1>3, <2>4 DEF FindOtherDefault
    <3>. QED BY <2>3, <3>1, RestingHolds DEF MenuInv
  <2>5. CASE my.slot \in DOMAIN slots
    <3>. DEFINE other == \E o \in SlotsForStream(my.slot[1], my.slot[2]) :
                             o # my.slot /\ slots[o].isDefault
    <3>1. editor'[e] = [my EXCEPT !.pc = "assign", !.otherDefault = other]
      BY <1>3, <2>5 DEF FindOtherDefault, MenuTyped
    <3>2. other \in BOOLEAN
      OBVIOUS
    <3>3. /\ editor'[e].pc = "assign" /\ (editor'[e].otherDefault <=> other)
          /\ editor'[e].cmd = my.cmd /\ editor'[e].slot = my.slot
          /\ editor'[e].meal = my.meal /\ editor'[e].week = my.week
      BY <3>1, <3>2 DEF EditorLocal
    <3>. HIDE DEF other
    <3>4. /\ SlotsWithMealOnDate(my.slot[1], my.meal)' = SlotsWithMealOnDate(my.slot[1], my.meal)
          /\ \A d, t : HasDefault(d, t)' <=> HasDefault(d, t)
      BY <2>1 DEF SlotsWithMealOnDate, HasDefault, SlotsForStream
    <3>5. other <=> \E o \in SlotsForStream(my.slot[1], my.slot[2])' :
                       o # my.slot /\ slots'[o].isDefault
      BY <2>1 DEF other, SlotsForStream
    <3>6. EditorHolds(editor[e])'
      BY <1>0, <2>1, <3>3, <3>4, <3>5 DEF EditorHolds
    <3>. QED BY <2>3, <3>6 DEF MenuInv, EditorsInv
  <2>. QED BY <2>4, <2>5
<1>. QED BY <1>1, <1>2, <1>3

(* The dish goes into the slot, which becomes the default if there is none. *)
LEMMA AssignKeepsMenu ==
  ASSUME MenuTyped, MenuInv, NEW e \in Editors, \A k \in Editors : k = e, AssignMealToSlot(e)
  PROVE  MenuInv'
<1>. PICK my \in EditorLocal : my = editor[e]
  BY DEF MenuTyped
<1>0. EditorHolds(my) /\ EditorsInv' /\ weeks' = weeks /\ my.pc = "assign"
  BY RestingHolds DEF MenuInv, EditorsInv, AssignMealToSlot
<1>1. \A d, t : ~Replacing(editor[e], d, t)
  BY <1>0 DEF Replacing
<1>2. CASE my.slot \notin DOMAIN slots
  <2>1. slots' = slots
    BY <1>2 DEF AssignMealToSlot
  <2>. QED BY <1>0, <1>1, <2>1 DEF MenuInv, PlannerInv, PublishedInv, HasDefault, SlotsForStream
<1>3. CASE my.slot \in DOMAIN slots
  <2>. DEFINE becomes == slots[my.slot].isDefault \/ ~my.otherDefault
  <2>0. /\ DOMAIN slots' = DOMAIN slots
        /\ slots'[my.slot] = [meal |-> my.meal, isDefault |-> becomes]
        /\ \A id \in DOMAIN slots : id # my.slot => slots'[id] = slots[id]
    BY <1>3 DEF AssignMealToSlot
  <2>. HIDE DEF becomes
  <2>1. /\ DOMAIN slots' = DOMAIN slots
        /\ \A id \in DOMAIN slots : id # my.slot => slots'[id] = slots[id]
        /\ slots'[my.slot].meal = my.meal
        /\ slots'[my.slot].isDefault <=> becomes
    BY <2>0
  <2>2. /\ my.meal # NoMeal
        /\ \A o \in DOMAIN slots : o[1] = my.slot[1] /\ slots[o].meal = my.meal => o = my.slot
    BY <1>0 DEF EditorHolds, SlotsWithMealOnDate
  <2>3. my.otherDefault <=> \E o \in DOMAIN slots :
            o[1] = my.slot[1] /\ o[2] = my.slot[2] /\ o # my.slot /\ slots[o].isDefault
    BY <1>0 DEF EditorHolds, SlotsForStream
  <2>. USE DEF becomes
  <2>4. PlannerInv'
    <3>1. \A d \in MenuDates, t \in Streams :
              weeks'[WeekOf(d)] # "absent" => <<d, t, 1>> \in DOMAIN slots'
      BY <1>0, <2>1 DEF MenuInv, PlannerInv
    <3>2. \A id \in DOMAIN slots' : slots'[id].isDefault => slots'[id].meal # NoMeal
      BY <2>1, <2>2 DEF MenuInv, PlannerInv
    <3>3. ASSUME NEW id \in DOMAIN slots', NEW o \in DOMAIN slots', id[1] = o[1], id[2] = o[2],
                 slots'[id].isDefault, slots'[o].isDefault
          PROVE  id = o
      BY <2>1, <2>3, <3>3 DEF MenuInv, PlannerInv
    <3>4. ASSUME NEW id \in DOMAIN slots', NEW o \in DOMAIN slots', id[1] = o[1],
                 slots'[id].meal = slots'[o].meal, slots'[id].meal # NoMeal
          PROVE  id = o
      BY <2>1, <2>2, <3>4 DEF MenuInv, PlannerInv
    <3>. QED BY <3>1, <3>2, <3>3, <3>4 DEF PlannerInv
  <2>5. \A d, t : HasDefault(d, t) => HasDefault(d, t)'
    BY <2>1 DEF HasDefault, SlotsForStream
  <2>. QED BY <1>0, <1>1, <2>4, <2>5 DEF MenuInv, PublishedInv
<1>. QED BY <1>2, <1>3

(* Clearing a slot, and deleting it unless it is the first one.             *)
LEMMA ClearKeepsMenu ==
  ASSUME MenuTyped, MenuInv, NEW e \in Editors, \A k \in Editors : k = e,
         ClearSlot(e) \/ DeleteSlot(e)
  PROVE  MenuInv'
<1>. PICK my \in EditorLocal : my = editor[e]
  BY DEF MenuTyped
<1>0. /\ EditorHolds(my) /\ weeks' = weeks /\ my.cmd = "clear" /\ my.slot \in DOMAIN slots
      /\ \A d, t : ~Replacing(editor[e], d, t)
      /\ DOMAIN slots \subseteq SlotIds
  BY DEF MenuInv, EditorsInv, EditorHolds, ClearSlot, DeleteSlot, AtStep, Replacing, MenuTyped
<1>1. CASE ClearSlot(e)
  <2>1. /\ DOMAIN slots' = DOMAIN slots
        /\ \A id \in DOMAIN slots : id # my.slot => slots'[id] = slots[id]
        /\ slots'[my.slot].meal = NoMeal /\ ~slots'[my.slot].isDefault
        /\ my.pc = "clear"
        /\ IF my.slot[3] > 1 THEN Step(e, "delete") ELSE EndEdit(e)
    BY <1>0, <1>1 DEF ClearSlot, AtStep
  <2>2. weeks[WeekOf(my.slot[1])] = "published" => ~slots[my.slot].isDefault
    BY <1>0, <2>1 DEF EditorHolds
  <2>3. PlannerInv'
    BY <1>0, <2>1 DEF MenuInv, PlannerInv
  <2>4. ASSUME NEW d \in MenuDates, NEW t \in Streams, weeks'[WeekOf(d)] = "published"
        PROVE  HasDefault(d, t)'
    <3>1. PICK id \in DOMAIN slots : id[1] = d /\ id[2] = t /\ slots[id].isDefault
      BY <1>0, <2>4 DEF MenuInv, PublishedInv, HasDefault, SlotsForStream
    <3>2. id # my.slot
      BY <1>0, <2>2, <2>4, <3>1
    <3>. QED BY <2>1, <3>1, <3>2 DEF HasDefault, SlotsForStream
  <2>5. PublishedInv'
    BY <2>4 DEF PublishedInv
  <2>6. CASE my.slot[3] > 1
    <3>1. editor'[e] = [my EXCEPT !.pc = "delete"]
      BY <2>1, <2>6 DEF Step, MenuTyped
    <3>2. EditorHolds([my EXCEPT !.pc = "delete"])'
      BY <1>0, <2>1, <2>6 DEF EditorHolds, EditorLocal, NoCommand
    <3>3. EditorHolds(editor[e])'
      BY <3>1, <3>2 DEF EditorHolds
    <3>. QED BY <2>3, <2>5, <3>3 DEF MenuInv, EditorsInv
  <2>7. CASE ~(my.slot[3] > 1)
    BY <2>1, <2>3, <2>5, <2>7, RestingHolds DEF MenuInv
  <2>. QED BY <2>6, <2>7
<1>2. CASE DeleteSlot(e)
  <2>1. /\ DOMAIN slots' = DOMAIN slots \ {my.slot}
        /\ \A id \in DOMAIN slots' : slots'[id] = slots[id]
        /\ my.pc = "delete" /\ EditorsInv'
    BY <1>2, RestingHolds DEF DeleteSlot, AtStep
  <2>2. my.slot[3] > 1 /\ ~slots[my.slot].isDefault
    BY <1>0, <2>1 DEF EditorHolds
  <2>3. \A d, t : <<d, t, 1>> # my.slot
    BY <2>2
  <2>4. PlannerInv'
    BY <1>0, <2>1, <2>3 DEF MenuInv, PlannerInv
  <2>5. \A d, t : HasDefault(d, t) => HasDefault(d, t)'
    BY <2>1, <2>2 DEF HasDefault, SlotsForStream
  <2>. QED BY <1>0, <2>1, <2>4, <2>5 DEF MenuInv, PublishedInv
<1>. QED BY <1>1, <1>2

(* The default of a stream is replaced in two statements.                   *)
LEMMA DefaultKeepsMenu ==
  ASSUME MenuTyped, MenuInv, NEW e \in Editors, \A k \in Editors : k = e,
         UnsetDayDefault(e) \/ SetDayDefault(e)
  PROVE  MenuInv'
<1>. PICK my \in EditorLocal : my = editor[e]
  BY DEF MenuTyped
<1>0. EditorHolds(my) /\ weeks' = weeks /\ my.cmd = "default" /\ my.slot \in DOMAIN slots
  BY DEF MenuInv, EditorsInv, EditorHolds, UnsetDayDefault, SetDayDefault, AtStep
<1>1. CASE UnsetDayDefault(e)
  <2>. DEFINE stream == SlotsForStream(my.slot[1], my.slot[2])
              found == { s \in stream : slots[s].meal = my.meal }
  <2>0. /\ my.pc = "unset" /\ my.meal # NoMeal
        /\ \A d, t : ~Replacing(editor[e], d, t)
    BY <1>0, <1>1 DEF UnsetDayDefault, AtStep, EditorHolds, Replacing
  <2>1. CASE found = {}
    <3>1. slots' = slots /\ EditorsInv'
      BY <1>1, <2>1, RestingHolds DEF UnsetDayDefault
    <3>. QED BY <1>0, <2>0, <3>1 DEF MenuInv, PlannerInv, PublishedInv, HasDefault, SlotsForStream
  <2>2. CASE found # {}
    <3>1. PICK s \in found :
              /\ slots' = [o \in DOMAIN slots |->
                              IF o \in stream THEN [slots[o] EXCEPT !.isDefault = FALSE]
                              ELSE slots[o]]
              /\ editor' = [editor EXCEPT ![e].pc = "set", ![e].slot = s]
      BY <1>1, <2>2 DEF UnsetDayDefault
    <3>2. \A o \in DOMAIN slots : slots[o] \in Slot
      BY DEF MenuTyped
    <3>3. /\ DOMAIN slots' = DOMAIN slots
          /\ \A o \in DOMAIN slots : slots'[o].meal = slots[o].meal
          /\ \A o \in stream : ~slots'[o].isDefault
          /\ \A o \in DOMAIN slots \ stream : slots'[o] = slots[o]
      BY <3>1, <3>2 DEF Slot, SlotsForStream
    <3>4. /\ s \in DOMAIN slots /\ s[1] = my.slot[1] /\ s[2] = my.slot[2] /\ slots[s].meal # NoMeal
          /\ \A o \in DOMAIN slots : o \in stream <=> (o[1] = s[1] /\ o[2] = s[2])
      BY <2>0 DEF SlotsForStream
    <3>. HIDE DEF stream, found
    <3>5. /\ editor'[e].pc = "set" /\ editor'[e].slot = s /\ editor'[e].cmd = "default"
      BY <1>0, <3>1 DEF MenuTyped, EditorLocal
    <3>6. PlannerInv'
      BY <1>0, <3>3 DEF MenuInv, PlannerInv
    <3>7. ~HasDefault(s[1], s[2])'
      BY <3>3, <3>4 DEF HasDefault, SlotsForStream
    <3>8. ASSUME NEW d \in MenuDates, NEW t \in Streams, weeks'[WeekOf(d)] = "published"
          PROVE  HasDefault(d, t)' \/ Replacing(editor[e], d, t)'
      <4>1. CASE d = s[1] /\ t = s[2]
        BY <3>5, <4>1 DEF Replacing
      <4>2. CASE ~(d = s[1] /\ t = s[2])
        <5>1. PICK id \in DOMAIN slots : id[1] = d /\ id[2] = t /\ slots[id].isDefault
          BY <1>0, <2>0, <3>8 DEF MenuInv, PublishedInv, HasDefault, SlotsForStream
        <5>2. slots'[id] = slots[id]
          BY <3>3, <3>4, <4>2, <5>1
        <5>. QED BY <3>3, <5>1, <5>2 DEF HasDefault, SlotsForStream
      <4>. QED BY <4>1, <4>2
    <3>9. PublishedInv'
      BY <3>8 DEF PublishedInv
    <3>10. EditorHolds(editor[e])'
      BY <3>3, <3>4, <3>5, <3>7 DEF EditorHolds, NoCommand
    <3>. QED BY <3>6, <3>9, <3>10 DEF MenuInv, EditorsInv
  <2>. QED BY <2>1, <2>2
<1>2. CASE SetDayDefault(e)
  <2>1. my.pc = "set" /\ EditorsInv'
    BY <1>2, RestingHolds DEF SetDayDefault, AtStep
  <2>2. /\ slots[my.slot].meal # NoMeal
        /\ \A o \in DOMAIN slots : o[1] = my.slot[1] /\ o[2] = my.slot[2] => ~slots[o].isDefault
    BY <1>0, <2>1 DEF EditorHolds, HasDefault, SlotsForStream
  <2>3. /\ DOMAIN slots' = DOMAIN slots
        /\ \A id \in DOMAIN slots : id # my.slot => slots'[id] = slots[id]
        /\ slots'[my.slot].meal = slots[my.slot].meal /\ slots'[my.slot].isDefault
    BY <1>0, <1>2 DEF SetDayDefault, MenuTyped, Slot
  <2>4. PlannerInv'
    <3>1. /\ \A d \in MenuDates, t \in Streams :
                weeks'[WeekOf(d)] # "absent" => <<d, t, 1>> \in DOMAIN slots'
          /\ \A id \in DOMAIN slots' : slots'[id].isDefault => slots'[id].meal # NoMeal
      BY <1>0, <2>2, <2>3 DEF MenuInv, PlannerInv
    <3>2. ASSUME NEW id \in DOMAIN slots', NEW o \in DOMAIN slots', id[1] = o[1], id[2] = o[2],
                 slots'[id].isDefault, slots'[o].isDefault
          PROVE  id = o
      BY <2>2, <2>3, <3>2 DEF MenuInv, PlannerInv
    <3>3. \A id \in DOMAIN slots : slots'[id].meal = slots[id].meal
      BY <2>3
    <3>. QED BY <2>3, <3>1, <3>2, <3>3 DEF MenuInv, PlannerInv
  <2>5. \A d, t : HasDefault(d, t) \/ Replacing(my, d, t) => HasDefault(d, t)'
    BY <1>0, <2>3 DEF HasDefault, SlotsForStream, Replacing
  <2>6. \A k \in Editors : editor[k] = my
    OBVIOUS
  <2>. QED BY <1>0, <2>1, <2>4, <2>5, <2>6 DEF MenuInv, PublishedInv
<1>. QED BY <1>1, <1>2

(* Publishing a week that has its defaults, and unpublishing one.           *)
LEMMA PublishKeepsMenu ==
  ASSUME MenuTyped, MenuInv, NEW e \in Editors, \A k \in Editors : k = e,
         PublishWeek(e) \/ UnpublishWeek(e)
  PROVE  MenuInv'
<1>. PICK my \in EditorLocal : my = editor[e]
  BY DEF MenuTyped
<1>0. /\ EditorHolds(my) /\ slots' = slots /\ EditorsInv' /\ my.cmd \in {"publish", "unpublish"}
      /\ \A d, t : ~Replacing(editor[e], d, t)
  BY RestingHolds DEF MenuInv, EditorsInv, PublishWeek, UnpublishWeek, AtStep, Replacing
<1>1. \A d, t : HasDefault(d, t)' <=> HasDefault(d, t)
  BY <1>0 DEF HasDefault, SlotsForStream
<1>2. CASE PublishWeek(e)
  <2>1. /\ my.cmd = "publish" /\ my.week \in Weeks /\ weeks[my.week] # "absent"
        /\ \A d \in DeliveryDates[my.week], t \in Streams : HasDefault(d, t)
    BY <1>0, <1>2 DEF PublishWeek, AtStep, EditorHolds
  <2>2. \A w \in Weeks : weeks'[w] = IF w = my.week THEN "published" ELSE weeks[w]
    BY <1>2, <2>1 DEF PublishWeek, MenuTyped
  <2>3. PlannerInv'
    BY <1>0, <2>1, <2>2, DatesOfWeeks DEF MenuInv, PlannerInv
  <2>4. PublishedInv'
    BY <1>0, <1>1, <2>1, <2>2, DatesOfWeeks DEF MenuInv, PublishedInv
  <2>. QED BY <1>0, <2>3, <2>4 DEF MenuInv
<1>3. CASE UnpublishWeek(e)
  <2>1. \A w \in Weeks : weeks'[w] = weeks[w] \/ (w = my.week /\ weeks'[w] = "draft")
    BY <1>3 DEF UnpublishWeek, MenuTyped
  <2>2. weeks[my.week] # "absent"
    BY <1>0 DEF EditorHolds
  <2>3. PlannerInv'
    BY <1>0, <2>1, <2>2, DatesOfWeeks DEF MenuInv, PlannerInv
  <2>4. PublishedInv'
    BY <1>0, <1>1, <2>1, DatesOfWeeks DEF MenuInv, PublishedInv
  <2>. QED BY <1>0, <2>3, <2>4 DEF MenuInv
<1>. QED BY <1>2, <1>3

(* Every step.                                                              *)
LEMMA MenuStep ==
  ASSUME \A e, f \in Editors : e = f, TypeInv, MenuInv, [Next]_vars
  PROVE  MenuInv'
<1>0. MenuTyped
  BY DEF TypeInv
<1>1. CASE UNCHANGED menu
  BY <1>1 DEF menu, MenuInv, PlannerInv, PublishedInv, EditorsInv, EditorHolds, HasDefault,
              SlotsForStream, SlotsWithMealOnDate, Replacing
<1>2. CASE BeginMenu
  BY <1>0, <1>2, EnsureWeekKeepsMenu, BeginEditingKeepsMenu DEF BeginMenu
<1>3. ASSUME NEW e \in Editors, ContinueEditing(e) PROVE MenuInv'
  BY <1>0, <1>3, AddingKeepsMenu, AssignKeepsMenu, ClearKeepsMenu, DefaultKeepsMenu,
     PublishKeepsMenu DEF ContinueEditing
<1>4. CASE Begin
  BY <1>1, <1>2, <1>4 DEF Begin
<1>5. CASE Continue
  BY <1>1, <1>3, <1>5 DEF Continue
<1>6. CASE Tick
  BY <1>1, <1>6 DEF Tick
<1>7. CASE UNCHANGED vars
  BY <1>1, <1>7 DEF vars, menu
<1>. QED BY <1>4, <1>5, <1>6, <1>7 DEF Next

(* A menu that is there at the start was filled and published.              *)
LEMMA MenuStarts ==
  ASSUME Init
  PROVE  MenuInv
<1>1. PICK start \in Starts : InitMenu(start)
  BY DEF Init
<1>2. /\ slots = start.slots /\ FilledAndPublished(slots)
      /\ \A e \in Editors : editor[e] = EditorResting
  BY <1>1, MealChoicesAssumption DEF InitMenu
<1>3. \A w \in Weeks : weeks[w] = IF \E id \in DOMAIN slots : WeekOf(id[1]) = w
                                  THEN "published" ELSE "absent"
  BY <1>1, <1>2 DEF InitMenu
<1>4. ASSUME NEW d \in MenuDates, NEW t \in Streams, weeks[WeekOf(d)] # "absent"
      PROVE  <<d, t, 1>> \in DOMAIN slots /\ HasDefault(d, t)
  <2>1. WeekOf(d) \in Weeks /\ d \in DeliveryDates[WeekOf(d)]
    BY DatesOfWeeks
  <2>2. PICK id \in DOMAIN slots : WeekOf(id[1]) = WeekOf(d)
    BY <1>3, <1>4, <2>1
  <2>3. d \in DeliveryDates[WeekOf(id[1])]
    BY <2>1, <2>2
  <2>. QED BY <1>2, <2>3 DEF FilledAndPublished, HasDefault, SlotsForStream
<1>5. PlannerInv
  <2>1. ASSUME NEW id \in DOMAIN slots, NEW o \in DOMAIN slots, id[1] = o[1], id # o
        PROVE  /\ id[2] = o[2] => ~(slots[id].isDefault /\ slots[o].isDefault)
               /\ slots[id].meal = slots[o].meal => slots[id].meal = NoMeal
    BY <1>2, <2>1 DEF FilledAndPublished
  <2>2. \A id \in DOMAIN slots : slots[id].isDefault => slots[id].meal # NoMeal
    BY <1>2 DEF FilledAndPublished
  <2>. QED BY <1>4, <2>1, <2>2 DEF PlannerInv
<1>6. PublishedInv
  BY <1>4 DEF PublishedInv
<1>7. EditorsInv
  BY <1>2 DEF EditorsInv, EditorHolds, EditorResting, NoCommand
<1>. QED BY <1>5, <1>6, <1>7 DEF MenuInv

(* Whatever an editor who works alone adds, overwrites, clears, makes the   *)
(* default, publishes or unpublishes, and whatever the cooks delete,        *)
(* between its commands a published week has a default dish in each stream  *)
(* of each date, one only, and no dish twice on a date: the guards of the   *)
(* menu's commands keep what publishing has checked.  (Two editors at once  *)
(* break it: README, section 4.)                                            *)
THEOREM PublishedAlwaysReady ==
  ASSUME \A e, f \in Editors : e = f
  PROVE  Spec => []PublishedStaysReady
<1>1. ASSUME MenuInv, \A e \in Editors : editor[e].cmd = NoCommand, NEW d \in MenuDates
      PROVE  /\ \A m \in MealIds : Cardinality(SlotsWithMealOnDate(d, m)) <= 1
             /\ \A t \in Streams :
                    LET defaults == GetMenuWeek(WeekOf(d)).defaults[<<d, t>>] IN
                    /\ Cardinality(defaults) <= 1
                    /\ weeks[WeekOf(d)] = "published" => defaults # {}
  <2>1. ASSUME NEW m \in MealIds PROVE Cardinality(SlotsWithMealOnDate(d, m)) <= 1
    <3>1. \A id, o \in SlotsWithMealOnDate(d, m) : id = o
      BY <1>1, MealsAssumption DEF MenuInv, PlannerInv, SlotsWithMealOnDate
    <3>. QED BY <3>1, AtMostOneMember
  <2>2. ASSUME NEW t \in Streams
        PROVE  LET defaults == GetMenuWeek(WeekOf(d)).defaults[<<d, t>>] IN
               /\ Cardinality(defaults) <= 1
               /\ weeks[WeekOf(d)] = "published" => defaults # {}
    <3>. DEFINE defaults == { id \in FilledSlotsForStream(d, t) : slots[id].isDefault }
    <3>1. d \in DeliveryDates[WeekOf(d)]
      BY DatesOfWeeks
    <3>2. GetMenuWeek(WeekOf(d)).defaults[<<d, t>>] = defaults
      BY <3>1 DEF GetMenuWeek
    <3>3. \A id, o \in defaults : id = o
      BY <1>1 DEF MenuInv, PlannerInv, FilledSlotsForStream, SlotsForStream
    <3>4. weeks[WeekOf(d)] = "published" => defaults # {}
      BY <1>1 DEF MenuInv, PlannerInv, PublishedInv, HasDefault, Replacing, NoCommand,
                  FilledSlotsForStream, SlotsForStream
    <3>. HIDE DEF defaults
    <3>5. Cardinality(defaults) <= 1
      BY <3>3, AtMostOneMember
    <3>. QED BY <3>2, <3>4, <3>5
  <2>. QED BY <2>1, <2>2
<1>2. MenuInv => PublishedStaysReady
  BY <1>1 DEF PublishedStaysReady
<1>3. TypeInv /\ MenuInv /\ [Next]_vars => MenuInv'
  BY MenuStep
<1>. QED BY <1>2, <1>3, MenuStarts, InitTyped, StepTyped, PTL DEF Spec

(* With one editor, on every published date, in every state of menu,        *)
(* catalogue and choices, the kitchen's list and the ERP's orders, ordered   *)
(* by SQL, name exactly the dish that the customer's screens show           *)
(* (effectiveMealJoin, resolveEffectiveMeal), while the pick is on the menu *)
(* or, for a day without one, the stream has a default, of which there is   *)
(* one at most; and without a default still a dish of the stream.           *)
THEOREM KitchenAlwaysAgrees ==
  ASSUME \A e, f \in Editors : e = f
  PROVE  Spec => []KitchenAgrees
<1>1. ASSUME TypeInv, MenuInv PROVE KitchenAgrees
  <2>. DEFINE t(d) == days[d].mealType
              pick(d) == days[d].selected
              options(d) == StreamOptions(d, t(d))
              defaults(d) == { id \in options(d) : slots[id].isDefault }
              shown(d) == ResolveEffectiveMeal(d, t(d), pick(d))
              live(d) == MealsOf(LiveSlots(GetMenuForDate(d)))
              dish(d, publishedOnly) == EffectiveMealLateralJoin(d, publishedOnly)
  <2>1. ASSUME NEW d \in MenuDates, NEW publishedOnly \in BOOLEAN
        PROVE  /\ pick(d) \in live(d) => shown(d) = {dish(d, publishedOnly)}
               /\ (pick(d) = NoMeal /\ defaults(d) # {}) => shown(d) = {dish(d, publishedOnly)}
               /\ (pick(d) = NoMeal /\ options(d) # {})
                  => dish(d, publishedOnly) \in MealsOf(options(d))
    <3>. DEFINE x == dish(d, publishedOnly)
    <3>1. NoMeal \notin live(d)
      BY MealsAssumption DEF MealsOf, LiveSlots, GetMealById
    <3>2. CASE pick(d) \in live(d)
      <4>1. pick(d) # NoMeal /\ x = pick(d)
        BY <1>1, <3>1, <3>2, JoinShows DEF TypeInv
      <4>2. shown(d) = {pick(d)}
        BY <3>2 DEF ResolveEffectiveMeal
      <4>. QED BY <4>1, <4>2
    <3>3. CASE pick(d) = NoMeal /\ options(d) # {}
      <4>1. x \in MealsOf(options(d)) /\ (defaults(d) # {} => x \in MealsOf(defaults(d)))
        BY <1>1, <3>3, JoinShows DEF TypeInv
      <4>2. defaults(d) # {} => shown(d) = MealsOf(defaults(d))
        BY <3>1, <3>3 DEF ResolveEffectiveMeal
      <4>3. \A id, o \in defaults(d) : id = o
        BY <1>1 DEF MenuInv, PlannerInv, StreamOptions, LiveSlots, GetMenuForDate
      <4>4. \A m, n \in MealsOf(defaults(d)) : m = n
        BY <4>3 DEF MealsOf
      <4>. HIDE DEF options, defaults, shown, dish, live
      <4>5. defaults(d) # {} => shown(d) = {x}
        BY <4>1, <4>2, <4>4
      <4>. QED BY <3>1, <3>3, <4>1, <4>5
    <3>. QED BY <3>2, <3>3
  <2>2. ASSUME NEW d \in MenuDates
        PROVE  LET listed == {dish(d, FALSE), dish(d, TRUE)}
                   known == \/ pick(d) \in live(d)
                            \/ pick(d) = NoMeal /\ \E id \in options(d) : slots[id].isDefault
               IN  /\ known => \A m \in listed : shown(d) = {m}
                   /\ (pick(d) = NoMeal /\ options(d) # {}) => listed \subseteq MealsOf(options(d))
    <3>1. (\E id \in options(d) : slots[id].isDefault) => defaults(d) # {}
      OBVIOUS
    <3>. HIDE DEF options, defaults, shown, dish, live, pick
    <3>. QED BY <2>1, <3>1
  <2>. QED BY <2>2, Zenon DEF KitchenAgrees, GetMealBreakdownByDate, GetDailyOrders
<1>2. TypeInv /\ MenuInv /\ [Next]_vars => MenuInv'
  BY MenuStep
<1>. QED BY <1>1, <1>2, MenuStarts, InitTyped, StepTyped, PTL DEF Spec

================================================================================
