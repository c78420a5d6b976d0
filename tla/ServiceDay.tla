------------------------------ MODULE ServiceDay ------------------------------
(***************************************************************************)
(* The days on which meals go out: which driver carries whose meal where,   *)
(* the stages of the day in the kitchen, the riders' marks, and what a      *)
(* customer says afterwards - an issue, settled with a credit, or a rating. *)
(* Staff read a row, decide, and then write it, with nothing in between that *)
(* stops another member of staff.                                           *)
(***************************************************************************)
EXTENDS DeliveryCalendar, Addresses

CONSTANTS
    Staff,           \* commands of operations staff in progress at once
    Issues,          \* ids of the issues customers may report
    NoIssue,
    NoCustomer,
    Starts,          \* the areas' and the customers' rows to start with
    MaxCommands      \* bound on the commands

ASSUME ServiceAssumption ==
    /\ NoIssue \notin Issues /\ NoCustomer \notin Customers
    /\ MaxCommands \in Nat

(* The rows there at the start: an area has one driver at most, and one that *)
(* is not there has none; one of a customer's addresses is the primary one.  *)
ASSUME StartsAssumption ==
    \A start \in Starts :
        /\ start.drivers \in [Drivers -> DriverStatus]
        /\ start.areas \in [Areas -> AreaStatus]
        /\ start.assigned \subseteq Drivers \X Areas
        /\ \A p, q \in start.assigned :
               /\ p[2] = q[2] => p = q
               /\ start.areas[p[2]] \notin {"absent", "deleted"}
        /\ start.buildings \in [Buildings -> Areas \cup {NoArea, Removed}]
        /\ start.locations \in [Customers -> Rows]
        /\ \A u \in Customers : LET rows == start.locations[u] IN
               /\ \A i, j \in DOMAIN rows : rows[i].isPrimary /\ rows[j].isPrimary => i = j
               /\ DOMAIN rows # {} => \E i \in DOMAIN rows : rows[i].isPrimary

VARIABLES
    plan,            \* is the customer's plan current: active, paused or cancelled
    days,            \* the status of a customer's delivery_days row of a date
    opsDays,         \* daily_ops_days: which of the two times of a date are set
    forced,          \* the dates locked by hand, in the memory of the process
    staff,           \* what a member of staff has read and will write
    issues,          \* the status of a reported issue
    credits,         \* wallet credits that refer to the issue
    ratings,         \* the rows of meal_ratings, by customer and date
    left             \* commands the bound still allows

network == <<drivers, areas, assigned, lockedBy, admin>>
addresses == <<buildings, locations, mover>>
service == <<opsDays, forced, staff, days>>
aftercare == <<issues, credits, ratings>>
vars == <<now, network, addresses, plan, service, aftercare, left>>

DeliveryDayStatus == {"scheduled", "skipped", "paused", "delivered"}
PipelineStage == {"pending", "locked", "dispatch", "delivered"}
OpsDay == [dispatchedAt: BOOLEAN, deliveredAt: BOOLEAN]
IssueStatus == {"absent", "open", "credited", "rejected"}
StaffLocal == [cmd: {"idle", "advance", "mark", "credit", "reject"},
               pc: {"idle", "write", "credit", "resolve"}, date: Dates,
               toStage: PipelineStage, customer: Customers \cup {NoCustomer},
               issue: Issues \cup {NoIssue}]
StaffResting == [cmd |-> "idle", pc |-> "idle", date |-> 1, toStage |-> "pending",
                 customer |-> NoCustomer, issue |-> NoIssue]

-----------------------------------------------------------------------------
(* The stages of a day.  What is not stored follows from the cutoff.        *)
IsLocked(d) == IsAfterSkipCutoff(d) \/ d \in forced

ComputeEffectiveStage(d) ==
    IF opsDays[d].deliveredAt THEN "delivered"
    ELSE IF opsDays[d].dispatchedAt THEN "dispatch"
    ELSE IF IsLocked(d) THEN "locked" ELSE "pending"

ManualStageOrder == <<"locked", "dispatch", "delivered">>
StageIndex(s) == IF s = "pending" THEN 0
                 ELSE CHOOSE i \in DOMAIN ManualStageOrder : ManualStageOrder[i] = s

(* The stage itself stands for "none" after the last one.                   *)
NextStage(s) == IF s \in {"pending", "delivered"} THEN s
                ELSE ManualStageOrder[StageIndex(s) + 1]

GetDailyOps(d) ==
    LET stage == ComputeEffectiveStage(d) IN
    [stage |-> stage, advanceTo |-> NextStage(stage), canAdvance |-> NextStage(stage) # stage]

MayAdvance(d, fromStage, toStage) ==
    /\ ComputeEffectiveStage(d) = fromStage
    /\ NextStage(fromStage) = toStage /\ toStage # fromStage

BeginStaff(s, cmd, pc, d, stage, u, i) ==
    /\ staff[s].cmd = "idle"
    /\ staff' = [staff EXCEPT ![s] = [cmd |-> cmd, pc |-> pc, date |-> d,
                     toStage |-> stage, customer |-> u, issue |-> i]]
EndStaff(s) == staff' = [staff EXCEPT ![s] = StaffResting]

BeginAdvancePipelineStage(s, d, fromStage, toStage) ==
    /\ MayAdvance(d, fromStage, toStage)
    /\ BeginStaff(s, "advance", "write", d, toStage, NoCustomer, NoIssue)
    /\ UNCHANGED <<opsDays, forced, days, aftercare>>

AdvanceStage_storesStage(s) ==
    LET my == staff[s] IN
    /\ my.cmd = "advance"
    /\ opsDays' = [opsDays EXCEPT ![my.date] =
                      [dispatchedAt |-> TRUE, deliveredAt |-> my.toStage = "delivered"]]
    /\ EndStaff(s)
    /\ UNCHANGED <<forced, days, aftercare>>

(* Each stage has a time of its own: a late write does not undo another.    *)
AdvanceStage(s) ==
    LET my == staff[s] IN
    /\ my.cmd = "advance"
    /\ opsDays' = IF my.toStage = "dispatch"
                  THEN [opsDays EXCEPT ![my.date].dispatchedAt = TRUE]
                  ELSE [opsDays EXCEPT ![my.date].deliveredAt = TRUE]
    /\ EndStaff(s)
    /\ UNCHANGED <<forced, days, aftercare>>

(* For staging servers only; a restart forgets it.                          *)
ForcePipelineLock(d) ==
    /\ d \in WorkingDays
    /\ ComputeEffectiveStage(d) \notin {"dispatch", "delivered"}
    /\ forced' = forced \cup {d}
    /\ UNCHANGED <<opsDays, staff, days, aftercare>>

-----------------------------------------------------------------------------
(* Who gets a meal on a date, and who carries it.                           *)
DailyOpsDeliverableDay(u, d) == days[u][d] \in {"scheduled", "delivered"} /\ plan[u]

(* The area of a stop: the one of the primary address unless it is deleted. *)
StopAreas(u) ==
    { ar \in { locations[u][i].area : i \in PrimaryLocations(u) } : GetAreaById(ar) }

GetMealBreakdownByDate(d) == { u \in Customers : DailyOpsDeliverableDay(u, d) }

(* The riders' rows of a date, of some areas or of all: without an area the  *)
(* row is there, for the labels and the sheet, but in no rider's list.      *)
GetRiderDeliveriesByDate(d, areaIds) ==
    { u \in Customers : /\ DailyOpsDeliverableDay(u, d)
                        /\ areaIds # {} => StopAreas(u) \cap areaIds # {} }
AllAreas == {}

GetDeliveryLabels(d) == { <<u, StopAreas(u)>> : u \in GetRiderDeliveriesByDate(d, AllAreas) }
GenerateDeliverySheetExport(d) == GetRiderDeliveriesByDate(d, AllAreas)

CanSeeDeliveries_noAreasIsAll(rider) == drivers[rider] = "active"

CanSeeDeliveries(rider) == drivers[rider] = "active" /\ GetAssignedAreaIds(rider) # {}

GetMyDeliveries(rider, d) ==
    IF CanSeeDeliveries(rider)
    THEN GetRiderDeliveriesByDate(d, GetAssignedAreaIds(rider)) ELSE {}

(* An administrator sees a driver's skipped and paused stops too.           *)
GetAdminDriverDeliveriesByDate(d, areaIds) ==
    { u \in Customers : plan[u] /\ StopAreas(u) \cap areaIds # {} }
GetAdminDriverDeliveries(rider, d) ==
    IF GetDriverById(rider) THEN GetAdminDriverDeliveriesByDate(d, AreasFor(rider)) ELSE {}

MayMarkDelivered(u, d) == days[u][d] # "delivered"

BeginMarkDeliveryDelivered(s, u, d) ==
    /\ MayMarkDelivered(u, d)
    /\ BeginStaff(s, "mark", "write", d, "pending", u, NoIssue)
    /\ UNCHANGED <<opsDays, forced, days, aftercare>>

MarkDeliveryDelivered(s) ==
    LET my == staff[s] IN
    /\ my.cmd = "mark"
    /\ days' = [days EXCEPT ![my.customer][my.date] = "delivered"]
    /\ EndStaff(s)
    /\ UNCHANGED <<opsDays, forced, aftercare>>

-----------------------------------------------------------------------------
(* Issues and ratings.                                                      *)
GetOpenIssues == { i \in Issues : issues[i] = "open" }

SubmitDeliveryIssue(u, i) ==
    /\ issues[i] = "absent" /\ plan[u]
    /\ issues' = [issues EXCEPT ![i] = "open"]
    /\ UNCHANGED <<service, credits, ratings>>

MaySettle(i) == issues[i] = "open"

BeginCreditDeliveryIssue_resolvesFirst(s, i) ==
    /\ issues[i] = "open"
    /\ issues' = [issues EXCEPT ![i] = "credited"]
    /\ BeginStaff(s, "credit", "credit", 1, "pending", NoCustomer, i)
    /\ UNCHANGED <<opsDays, forced, days, credits, ratings>>

BeginCreditDeliveryIssue(s, i) ==
    /\ MaySettle(i)
    /\ BeginStaff(s, "credit", "credit", 1, "pending", NoCustomer, i)
    /\ UNCHANGED <<opsDays, forced, days, aftercare>>

CreditIssueToWallet(s) ==
    LET my == staff[s] IN
    /\ my.pc = "credit"
    /\ credits' = [credits EXCEPT ![my.issue] = @ + 1]
    /\ staff' = [staff EXCEPT ![s].pc = "resolve"]
    /\ UNCHANGED <<opsDays, forced, days, issues, ratings>>

BeginRejectDeliveryIssue(s, i) ==
    /\ MaySettle(i)
    /\ BeginStaff(s, "reject", "resolve", 1, "pending", NoCustomer, i)
    /\ UNCHANGED <<opsDays, forced, days, aftercare>>

ResolveIssue(s) ==
    LET my == staff[s] IN
    /\ my.pc = "resolve"
    /\ issues' = [issues EXCEPT ![my.issue] = IF my.cmd = "credit" THEN "credited"
                                              ELSE "rejected"]
    /\ EndStaff(s)
    /\ UNCHANGED <<opsDays, forced, days, credits, ratings>>

(* Two statements of the same rule, one for the screen and one for the      *)
(* command.                                                                 *)
OpsClosed(d) == opsDays[d].deliveredAt

PendingRatingDelivered_anyDay(u, d) == days[u][d] = "delivered" \/ OpsClosed(d)

PendingRatingDelivered(u, d) ==
    days[u][d] = "delivered" \/ (days[u][d] = "scheduled" /\ OpsClosed(d))

GetPendingRatings(u) ==
    IF plan[u]
    THEN { d \in Dates : PendingRatingDelivered(u, d) /\ <<u, d>> \notin ratings } ELSE {}

IsDeliveryEligibleForRating(u, d) ==
    \/ days[u][d] = "delivered"
    \/ ComputeEffectiveStage(d) = "delivered" /\ days[u][d] = "scheduled"

MaySubmitRating(u, d) ==
    plan[u] /\ IsDeliveryEligibleForRating(u, d) /\ <<u, d>> \notin ratings

SubmitMealRating(u, d) ==
    /\ MaySubmitRating(u, d)
    /\ ratings' = ratings \cup {<<u, d>>}
    /\ UNCHANGED <<service, issues, credits>>

-----------------------------------------------------------------------------
(* What Subscriptions does meanwhile: a day is skipped or paused and comes   *)
(* back, until the cutoff, and a skip or an undo under way writes over what  *)
(* the rider has marked; the plan expires after its last day.               *)
DayChanges(u, d) ==
    /\ plan[u] /\ ~IsLocked(d)
    /\ \/ /\ days[u][d] = "scheduled"
          /\ \E to \in {"skipped", "paused"} : days' = [days EXCEPT ![u][d] = to]
       \/ /\ days[u][d] \in {"skipped", "paused"}
          /\ days' = [days EXCEPT ![u][d] = "scheduled"]
       \/ /\ days[u][d] = "delivered"
          /\ \E to \in {"skipped", "scheduled"} : days' = [days EXCEPT ![u][d] = to]
    /\ UNCHANGED <<opsDays, forced, staff, aftercare>>

PlanExpires(u) ==
    /\ plan[u] /\ Today > LastDate
    /\ plan' = [plan EXCEPT ![u] = FALSE]
    /\ UNCHANGED <<service, aftercare>>

(* Whatever was in progress is lost; the database rolls transactions back.  *)
Restart ==
    /\ forced' = {}
    /\ staff' = [s \in Staff |-> StaffResting]
    /\ admin' = [a \in Admins |-> AdminResting]
    /\ lockedBy' = [ar \in Areas |-> NoAdmin]
    /\ mover' = [u \in Customers |-> Interrupted(u)]
    /\ UNCHANGED <<now, drivers, areas, assigned, buildings, locations, plan, opsDays, days,
                   aftercare, left>>

Tick ==
    /\ Today <= LastDate
    /\ now' = now + 1
    /\ UNCHANGED <<network, addresses, plan, service, aftercare, left>>

Init ==
    /\ now = 0
    /\ \E start \in Starts : /\ drivers = start.drivers /\ areas = start.areas
                             /\ assigned = start.assigned
                             /\ buildings = start.buildings
                             /\ locations = start.locations
    /\ lockedBy = [ar \in Areas |-> NoAdmin]
    /\ admin = [a \in Admins |-> AdminResting]
    /\ mover = [u \in Customers |->
                   [cmd |-> "idle", pc |-> "idle", id |-> 0, area |-> NoArea,
                    building |-> NoBuilding, failed |-> FALSE]]
    /\ plan = [u \in Customers |-> TRUE]
    /\ days = [u \in Customers |-> [d \in Dates |-> "scheduled"]]
    /\ opsDays = [d \in Dates |-> [dispatchedAt |-> FALSE, deliveredAt |-> FALSE]]
    /\ forced = {}
    /\ staff = [s \in Staff |-> StaffResting]
    /\ issues = [i \in Issues |-> "absent"]
    /\ credits = [i \in Issues |-> 0]
    /\ ratings = {}
    /\ left = MaxCommands

BeginService ==
    \/ \E s \in Staff, d \in Dates :
           \/ \E from, to \in PipelineStage : BeginAdvancePipelineStage(s, d, from, to)
           \/ \E u \in Customers : BeginMarkDeliveryDelivered(s, u, d)
    \/ \E s \in Staff, i \in Issues :
           BeginCreditDeliveryIssue(s, i) \/ BeginRejectDeliveryIssue(s, i)
    \/ \E u \in Customers, i \in Issues : SubmitDeliveryIssue(u, i)
    \/ \E d \in Dates : \/ ForcePipelineLock(d)
                        \/ \E u \in Customers : SubmitMealRating(u, d) \/ DayChanges(u, d)

ContinueService ==
    \E s \in Staff : \/ AdvanceStage(s) \/ MarkDeliveryDelivered(s)
                     \/ CreditIssueToWallet(s) \/ ResolveIssue(s)

Command ==
    /\ left > 0
    /\ left' = left - 1
    /\ UNCHANGED now
    /\ \/ BeginNetwork /\ UNCHANGED <<addresses, plan, service, aftercare>>
       \/ BeginAddress /\ UNCHANGED <<network, plan, service, aftercare>>
       \/ BeginService /\ UNCHANGED <<network, addresses, plan>>

Continue ==
    /\ UNCHANGED <<now, left>>
    /\ \/ ContinueNetwork /\ UNCHANGED <<addresses, plan, service, aftercare>>
       \/ ContinueAddress /\ UNCHANGED <<network, plan, service, aftercare>>
       \/ ContinueService /\ UNCHANGED <<network, addresses, plan>>

Expiry == \E u \in Customers : PlanExpires(u) /\ UNCHANGED <<now, network, addresses, left>>

Next == Command \/ Continue \/ Expiry \/ Restart \/ Tick

Spec == Init /\ [][Next]_vars
-----------------------------------------------------------------------------
(* Properties.                                                              *)
TypeOK ==
    /\ now \in ClockHours
    /\ drivers \in [Drivers -> DriverStatus]
    /\ areas \in [Areas -> AreaStatus]
    /\ assigned \subseteq Drivers \X Areas
    /\ lockedBy \in [Areas -> Admins \cup {NoAdmin}]
    /\ admin \in [Admins -> AdminLocal]
    /\ buildings \in [Buildings -> Areas \cup {NoArea, Removed}]
    /\ locations \in [Customers -> Rows]
    /\ mover \in [Customers -> MoverLocal]
    /\ plan \in [Customers -> BOOLEAN]
    /\ days \in [Customers -> [Dates -> DeliveryDayStatus]]
    /\ opsDays \in [Dates -> OpsDay]
    /\ forced \subseteq Dates
    /\ staff \in [Staff -> StaffLocal]
    /\ issues \in [Issues -> IssueStatus]
    /\ credits \in [Issues -> Nat]
    /\ ratings \subseteq Customers \X Dates
    /\ left \in 0 .. MaxCommands

(* An area has one driver at most, a deleted one has none: the lock on the   *)
(* area's row is the only thing that sees to it.                            *)
OneDriverPerArea ==
    \A ar \in Areas :
        /\ \A d, e \in Holders(ar) : d = e
        /\ areas[ar] \in {"absent", "deleted"} => Holders(ar) = {}

(* So no meal is carried twice, whoever moves, claims, replaces or deletes,  *)
(* the administrator's page of a driver shows what the driver's own list    *)
(* has, and a meal the kitchen counts is on no list only if its customer has *)
(* no address in an area, or the area no driver on duty.                    *)
OneDriverPerStop ==
    \A d \in Dates :
        /\ \A r \in Drivers : GetMyDeliveries(r, d) \subseteq GetAdminDriverDeliveries(r, d)
        /\ \A u \in Customers :
               LET carriers == { r \in Drivers : u \in GetMyDeliveries(r, d) } IN
               /\ Cardinality(carriers) <= 1
               /\ u \in GetMealBreakdownByDate(d) /\ carriers = {} =>
                      \A ar \in StopAreas(u) :
                          \/ ar \in ListUnassignedAreas
                          \/ \E r \in Holders(ar) : drivers[r] # "active"
               /\ carriers # {} => /\ u \in GenerateDeliverySheetExport(d)
                                   /\ \E label \in GetDeliveryLabels(d) :
                                          label[1] = u /\ label[2] # {}

(* No circle of transactions, each waiting for an area the next one has     *)
(* locked, however the administrators ordered their areas.                  *)
NoLockCycle ==
    \A circle \in (SUBSET Admins) \ {{}} :
        \E a \in circle :
            \A ar \in Areas : IsNextToLock(admin[a], ar) => lockedBy[ar] \notin circle

(* Between the commands of a customer who has addresses one of them is      *)
(* primary, whatever was saved, moved, deleted or promoted, unless a command *)
(* was cut short; and a building newly written to an address is one of the  *)
(* address's area.                                                          *)
OnePrimary ==
    \A u \in Customers :
        /\ Cardinality(PrimaryLocations(u)) <= 1
        /\ mover[u].cmd = "idle" /\ ~mover[u].failed /\ DOMAIN locations[u] # {} =>
               PrimaryLocations(u) # {}
NewBuildingIsOfArea ==
    \A u \in Customers : \A i \in DOMAIN locations'[u] :
        LET new == locations'[u][i] IN
        (i \in DOMAIN locations[u] => locations[u][i].building # new.building)
            /\ new.building # NoBuilding => buildings'[new.building] = new.area
AddressIsSound == []OnePrimary /\ [][NewBuildingIsOfArea]_vars

(* docs/what_pending.md:189: the stage of a day cannot move back.  Two       *)
(* members of staff who both read it before they write do not manage to      *)
(* either; only a restart forgets a lock set by hand.  And no stage is left  *)
(* out.                                                                     *)
StagesOnlyAdvance ==
    [][\A d \in Dates :
          /\ \/ StageIndex(ComputeEffectiveStage(d)') >= StageIndex(ComputeEffectiveStage(d))
             \/ d \in forced /\ d \notin forced' /\ ComputeEffectiveStage(d) = "locked"
          /\ opsDays'[d].deliveredAt => opsDays'[d].dispatchedAt]_vars

(* What a screen offers, the command accepts: a day to rate, the next stage, *)
(* a stop still to deliver, an area without a driver for any driver, an      *)
(* active area with its buildings for an address.                           *)
OffersAreAccepted ==
    /\ \A u \in Customers : \A d \in GetPendingRatings(u) : MaySubmitRating(u, d)
    /\ \A d \in Dates :
           /\ LET ops == GetDailyOps(d) IN
              ops.canAdvance => MayAdvance(d, ops.stage, ops.advanceTo)
           /\ \A r \in Drivers : \A u \in GetMyDeliveries(r, d) :
                  days[u][d] # "delivered" => MayMarkDelivered(u, d)
    /\ \A ar \in ListUnassignedAreas : \A r \in Drivers : MayHold(r, ar)
    /\ \A ar \in GetActiveAreas : \A b \in GetBuildingsForArea(ar) : MaySaveLocation(ar, b)

(* An issue is only called credited once its customer has been given money, *)
(* a restart between the two statements and a second member of staff        *)
(* included.                                                                *)
CreditedHasMoney == \A i \in Issues : issues[i] = "credited" => credits[i] > 0

-----------------------------------------------------------------------------
(* The areas and their drivers, as others see them, and what is asked for.  *)
RequestOf(a) == [driver |-> admin[a].driver, areas |-> Range(admin[a].areaIds),
                 replace |-> admin[a].cmd = "update"]

Roster == INSTANCE AreaRoster WITH
    open <- { ar \in Areas : GetAreaById(ar) },
    holds <- assigned,
    request <- [a \in Admins |-> RequestOf(a)]

(* claimAreas in driver-admin-persistence.service.ts says that "Two          *)
(* transactions assigning the same area queue on that row lock, then the    *)
(* second sees the first commit and fails".  So each of them, though it      *)
(* takes its locks one after the other and writes when others may have       *)
(* committed since it looked, is as one step in which all its areas are      *)
(* found free and given to its driver, or it changes nothing.               *)
AssignsAtOnce == Roster!Spec
==============================================================================
