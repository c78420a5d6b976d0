---------------------------- MODULE Subscriptions ----------------------------
(***************************************************************************)
(* The plan a customer has bought, from its first delivery day to its      *)
(* expiry: skipping a day and undoing it, scheduling, cancelling and ending *)
(* a pause, cancelling the plan and taking that back, upgrading it in       *)
(* place.  A command reads the subscription once, writes delivery days, and *)
(* writes columns of the subscription from what it read; between its        *)
(* statements the rider, the expiry job, the clock and readers take steps.  *)
(***************************************************************************)
EXTENDS DeliveryCalendar, Functions

CONSTANTS
    Handlers,        \* commands in progress at once, of the customer's devices
    Plans,           \* plans in the order of their tiers, cheapest first
    MealCount,       \* [plan -> meals paid for]
    FlexAllowed,     \* [plan -> days that may be skipped or paused, one number for both]
    StartDate,       \* first delivery day of the plan
    MaxCommands      \* bound on the commands begun and the rows marked out of turn

PlanSet == Range(Plans)

ASSUME SubscriptionAssumption ==
    /\ Plans \in Seq(PlanSet) /\ Len(Plans) > 0
    /\ \A i, j \in DOMAIN Plans : i < j =>
           Plans[i] # Plans[j] /\ FlexAllowed[Plans[i]] <= FlexAllowed[Plans[j]]
    /\ MealCount \in [PlanSet -> Nat \ {0}]
    /\ FlexAllowed \in [PlanSet -> Nat]
    /\ StartDate \in Dates
    /\ MaxCommands \in Nat
    /\ Reaches(StartDate, MealCount[Plans[1]])

VARIABLES
    sub,             \* the row of subscriptions
    rows,            \* delivery_days: how many rows a date has in each status
    makeups,         \* audit log: makeup date of the last skip of a date, or 0
    upgrade,         \* plan of the paid-for upgrade not yet in place, or none
    left,            \* commands the bound still allows
    my               \* what each handler has read and what it does next

vars == <<now, sub, rows, makeups, upgrade, left, my>>

SubscriptionStatus == {"active", "paused", "cancelled", "expired"}
DayStatus == {"scheduled", "skipped", "delivered", "paused"}
NoPlan == "no plan"

(* skipDaysUsed and pauseDaysUsed are one counter: both are only written    *)
(* together.  0 stands for a null date.  deliveredCount is never written.   *)
Subscription ==
    [plan: PlanSet, status: SubscriptionStatus, totalMealDays: Nat,
     skippedCount: Nat, endDate: Dates, flexUsed: Nat,
     pausedFrom: Dates \cup {0}, pausedUntil: Dates \cup {0}]

DeliveryDays == [Dates \X DayStatus -> Nat]

Commands == {"skip", "undo", "pause", "cancelPause", "resume", "cancel",
             "resubscribe", "promote"}
Steps == {"idle", "days", "more", "save"}
Local == [cmd: Commands \cup {"none"}, pc: Steps, sub: Subscription,
          date: Dates \cup {0}, until: Dates \cup {0}, aged: BOOLEAN]

-----------------------------------------------------------------------------
(* The delivery days.                                                      *)
RowsAt(d) == { s \in DayStatus : rows[<<d, s>>] > 0 }
DatesWithRows == { d \in Dates : RowsAt(d) # {} }
RowsOf(ds, ss) == UNION { {p} \X (1 .. rows[p]) : p \in ds \X ss }
HowMany(ds, ss) == Cardinality(RowsOf(ds, ss))

BulkCreateDeliveryDays(ds) ==
    rows' = [p \in DOMAIN rows |->
                IF p[2] = "scheduled" /\ p[1] \in ds THEN rows[p] + 1 ELSE rows[p]]

(* By the id of the row that was found with status found, whatever its      *)
(* status is by now.  Rows of a date are told apart by their status: another *)
(* row of the date that has status found by now is taken for it.            *)
UpdateDeliveryDayStatus(d, found, to) ==
    \E s \in RowsAt(d) :
        /\ rows[<<d, found>>] > 0 => s = found
        /\ rows' = [rows EXCEPT ![<<d, s>>] = @ - 1, ![<<d, to>>] = @ + 1]

BulkUpdateDeliveryDayStatus(from, to, old, new) ==
    rows' = [p \in DOMAIN rows |->
                IF p[1] \notin from .. to \/ p[2] \notin {old, new} THEN rows[p]
                ELSE IF p[2] = old THEN 0
                ELSE rows[p] + rows[<<p[1], old>>]]

DeleteScheduledDeliveryDaysOutsideDates_anyStatus(keep) ==
    rows' = [p \in DOMAIN rows |-> IF p[1] \notin keep THEN 0 ELSE rows[p]]

DeleteScheduledDeliveryDaysOutsideDates(keep) ==
    rows' = [p \in DOMAIN rows |->
                IF p[2] = "scheduled" /\ p[1] \notin keep THEN 0 ELSE rows[p]]

-----------------------------------------------------------------------------
(* The flex allowance: skips and pauses draw on one pool of days.           *)
GetFlexDaysRemaining(s) ==
    IF FlexAllowed[s.plan] > s.flexUsed THEN FlexAllowed[s.plan] - s.flexUsed ELSE 0

Refund(used, days) == IF used > days THEN used - days ELSE 0

(* What a plan may do in its service period.                                *)
IsSubscriptionInServicePeriod(s) == s.status # "expired" /\ s.endDate >= Today

CanUseSkipAndPause(s) ==
    IsSubscriptionInServicePeriod(s) /\ s.status \in {"active", "cancelled"}

CanUpgradeSubscriptionPlan(s) ==
    IsSubscriptionInServicePeriod(s) /\ s.status \in {"active", "cancelled"}

HasPause(s) == s.pausedFrom # 0

IsPauseScheduled(s) ==
    /\ s.status \in {"active", "cancelled"}
    /\ HasPause(s)
    /\ ~IsAfterSkipCutoff(s.pausedFrom)

IsPauseInEffect(s) ==
    HasPause(s) /\ s.status = "paused" /\ IsAfterSkipCutoff(s.pausedFrom)

(* A scheduled pause begins when somebody looks at the plan after the       *)
(* cutoff of its first day; a cancelled plan is never flipped.              *)
EnsurePauseStatus(s) ==
    IF ~HasPause(s) THEN s
    ELSE IF s.status = "paused" /\ ~IsAfterSkipCutoff(s.pausedFrom)
         THEN [s EXCEPT !.status = "active"]
    ELSE IF s.status = "active" /\ IsAfterSkipCutoff(s.pausedFrom)
         THEN [s EXCEPT !.status = "paused"]
    ELSE s

-----------------------------------------------------------------------------
(* How a command runs.  getActiveSubscriptionByUserId finds the plan until  *)
(* it has expired.  A handler keeps in my[h].sub the row as it read it, with *)
(* the columns it is going to write already changed.                        *)
Idle(h) == my[h].cmd = "none"
AllIdle == \A h \in Handlers : Idle(h)
Busy(h, cmd, pc) == my[h].cmd = cmd /\ my[h].pc = pc

Resting == [cmd |-> "none", pc |-> "idle",
            sub |-> [plan |-> Plans[1], status |-> "active", totalMealDays |-> 0,
                     skippedCount |-> 0, endDate |-> StartDate, flexUsed |-> 0,
                     pausedFrom |-> 0, pausedUntil |-> 0],
            date |-> 0, until |-> 0, aged |-> FALSE]

MayBegin(h) == Idle(h) /\ left > 0 /\ sub.status # "expired"

(* s is the plan after ensurePauseStatus, which has written its status; w   *)
(* is s with the columns the command will save.                             *)
Start(h, cmd, pc, s, w, date, until) ==
    /\ MayBegin(h)
    /\ left' = left - 1
    /\ sub' = s
    /\ my' = [my EXCEPT ![h] = [cmd |-> cmd, pc |-> pc, sub |-> w, date |-> date,
                                until |-> until, aged |-> FALSE]]
    /\ UNCHANGED <<now, rows, makeups, upgrade>>

Goto(h, pc, w) ==
    /\ my' = [my EXCEPT ![h].pc = pc, ![h].sub = w]
    /\ UNCHANGED <<now, sub, makeups, upgrade, left>>

(* The columns a command saves; the others keep what the row has by then.   *)
UpdateSubscription(h, columns) ==
    /\ sub' = [f \in DOMAIN sub |->
                  IF f \in columns THEN my[h].sub[f] ELSE sub[f]]
    /\ my' = [my EXCEPT ![h] = Resting]
    /\ UNCHANGED <<now, rows, left>>

SkipColumns == {"flexUsed", "skippedCount", "endDate", "totalMealDays"}
PauseColumns == {"status", "pausedFrom", "pausedUntil", "flexUsed"}

-----------------------------------------------------------------------------
(* Skipping a day: its row is marked, a makeup day is added after the end of *)
(* the plan, the counters and the end date are saved, the skip is logged.   *)
MaySkip(s, d) ==
    /\ CanUseSkipAndPause(s)
    /\ ~IsAfterSkipCutoff(d)
    /\ GetFlexDaysRemaining(s) > 0
    /\ "scheduled" \in RowsAt(d)

MakeupAnchor(s, d) == Max({s.endDate, d}) + 1

BeginSkip(h, d) ==
    LET s == EnsurePauseStatus(sub) IN
    /\ MaySkip(s, d)
    /\ Reaches(MakeupAnchor(s, d), 1)
    /\ Start(h, "skip", "days", s,
             [s EXCEPT !.flexUsed = @ + 1, !.skippedCount = @ + 1,
                       !.totalMealDays = @ + 1,
                       !.endDate = AddWorkingDaysForward(MakeupAnchor(s, d), 1)],
             d, 0)

MarkSkipped(h) ==
    /\ Busy(h, "skip", "days")
    /\ UpdateDeliveryDayStatus(my[h].date, "scheduled", "skipped")
    /\ Goto(h, "more", my[h].sub)

AddMakeupDay(h) ==
    /\ Busy(h, "skip", "more")
    /\ BulkCreateDeliveryDays({my[h].sub.endDate})
    /\ Goto(h, "save", my[h].sub)

SaveSkip(h) ==
    /\ Busy(h, "skip", "save")
    /\ UpdateSubscription(h, SkipColumns)
    /\ makeups' = [makeups EXCEPT ![my[h].date] = my[h].sub.endDate]
    /\ UNCHANGED upgrade

(* Taking a skip back: the makeup day the log names is deleted while it is  *)
(* still scheduled, and the plan ends on the last day that is left.         *)
MayUndo(d) == ~IsAfterSkipCutoff(d) /\ "skipped" \in RowsAt(d)

BeginUndo(h, d) ==
    LET s == EnsurePauseStatus(sub) IN
    /\ MayUndo(d)
    /\ Start(h, "undo", "days", s,
             [s EXCEPT !.flexUsed = Refund(@, 1), !.skippedCount = Refund(@, 1)],
             d, 0)

MarkUnskipped(h) ==
    /\ Busy(h, "undo", "days")
    /\ UpdateDeliveryDayStatus(my[h].date, "skipped", "scheduled")
    /\ Goto(h, "more", my[h].sub)

DeleteMakeupDay_keepsEnd(h) ==
    LET m == makeups[my[h].date]
    IN  /\ Busy(h, "undo", "more")
        /\ IF m # 0 /\ "scheduled" \in RowsAt(m)
           THEN /\ DeleteScheduledDeliveryDaysOutsideDates(DatesWithRows \ {m})
                /\ Goto(h, "save", [my[h].sub EXCEPT
                                       !.totalMealDays = Max({1, @ - 1})])
           ELSE UNCHANGED rows /\ Goto(h, "save", my[h].sub)

DeleteMakeupDay(h) ==
    LET m == makeups[my[h].date]
        keep == DatesWithRows \ {m}
    IN  /\ Busy(h, "undo", "more")
        /\ IF m # 0 /\ "scheduled" \in RowsAt(m)
           THEN /\ DeleteScheduledDeliveryDaysOutsideDates(keep)
                /\ Goto(h, "save", [my[h].sub EXCEPT !.endDate = Max(keep),
                                       !.totalMealDays = Max({1, @ - 1})])
           ELSE UNCHANGED rows /\ Goto(h, "save", my[h].sub)

SaveUndo(h) ==
    /\ Busy(h, "undo", "save")
    /\ UpdateSubscription(h, SkipColumns)
    /\ UNCHANGED <<makeups, upgrade>>

-----------------------------------------------------------------------------
(* Pausing.  Every working day of the window is reserved from the flex pool. *)
PauseEndMax(s) == AddWorkingDaysForward(s.endDate, GetFlexDaysRemaining(s))

MayPause(s, from, until) ==
    /\ CanUseSkipAndPause(s)
    /\ ~HasPause(s)
    /\ from <= until
    /\ from >= StartDate
    /\ ~IsAfterSkipCutoff(from)
    /\ until <= PauseEndMax(s)
    /\ CountWorkingDaysInRange(from, until) \in 1 .. GetFlexDaysRemaining(s)

BeginPause(h, from, until) ==
    LET s == EnsurePauseStatus(sub) IN
    /\ MayPause(s, from, until)
    /\ Start(h, "pause", "days", s,
             [s EXCEPT !.pausedFrom = from, !.pausedUntil = until,
                       !.flexUsed = @ + CountWorkingDaysInRange(from, until)],
             from, until)

FreezeDays(h) ==
    /\ Busy(h, "pause", "days")
    /\ BulkUpdateDeliveryDayStatus(my[h].date, my[h].until, "scheduled", "paused")
    /\ Goto(h, "save", my[h].sub)

SavePause(h) ==
    /\ Busy(h, "pause", "save")
    /\ UpdateSubscription(h, PauseColumns)
    /\ UNCHANGED <<makeups, upgrade>>

(* Before the cutoff of its first day a pause is cancelled, and then the    *)
(* plan is active, also when it had been cancelled.                         *)
MayCancelPause(s) == HasPause(s) /\ IsPauseScheduled(s)

WithoutPause_keepsEnd(s, status, refund) ==
    [s EXCEPT !.status = status, !.pausedFrom = 0, !.flexUsed = Refund(@, refund)]

WithoutPause(s, status, refund) ==
    [s EXCEPT !.status = status, !.pausedFrom = 0, !.pausedUntil = 0,
              !.flexUsed = Refund(@, refund)]

BeginCancelPause_calendarDays(h) ==
    LET s == EnsurePauseStatus(sub) IN
    /\ MayCancelPause(s)
    /\ Start(h, "cancelPause", "days", s,
             WithoutPause(s, "active", s.pausedUntil - s.pausedFrom + 1),
             s.pausedFrom, s.pausedUntil)

BeginCancelPause(h) ==
    LET s == EnsurePauseStatus(sub) IN
    /\ MayCancelPause(s)
    /\ Start(h, "cancelPause", "days", s,
             WithoutPause(s, "active",
                          CountWorkingDaysInRange(s.pausedFrom, s.pausedUntil)),
             s.pausedFrom, s.pausedUntil)

RestoreDays(h) ==
    /\ Busy(h, "cancelPause", "days")
    /\ BulkUpdateDeliveryDayStatus(my[h].date, my[h].until, "paused", "scheduled")
    /\ Goto(h, "save", my[h].sub)

SaveCancelPause(h) ==
    /\ Busy(h, "cancelPause", "save")
    /\ UpdateSubscription(h, PauseColumns)
    /\ UNCHANGED <<makeups, upgrade>>

(* Afterwards it is resumed: the days from the resume date on come back and *)
(* are refunded, the lapsed ones are appended to the plan.                  *)
MayResume(s, r) ==
    /\ HasPause(s)
    /\ IsPauseInEffect(s)
    /\ r \in s.pausedFrom + 1 .. s.pausedUntil
    /\ IsWorkingDeliveryDate(r)
    /\ ~IsAfterSkipCutoff(s.pausedUntil)

BeginResume(h, r) ==
    LET s == EnsurePauseStatus(sub) IN
    /\ MayResume(s, r)
    /\ Reaches(s.endDate + 1, HowMany(s.pausedFrom .. r - 1, {"paused"}))
    /\ Start(h, "resume", "days", s,
             [s EXCEPT !.flexUsed =
                  Refund(@, CountWorkingDaysInRange(r, s.pausedUntil))],
             r, s.pausedUntil)

RestoreRest_fromNextDay(h) ==
    /\ Busy(h, "resume", "days")
    /\ BulkUpdateDeliveryDayStatus(my[h].date + 1, my[h].until, "paused", "scheduled")
    /\ Goto(h, "more", my[h].sub)

RestoreRest(h) ==
    /\ Busy(h, "resume", "days")
    /\ BulkUpdateDeliveryDayStatus(my[h].date, my[h].until, "paused", "scheduled")
    /\ Goto(h, "more", my[h].sub)

AppendLapsedDays(h) ==
    LET w == my[h].sub
        lapsed == HowMany(w.pausedFrom .. my[h].date - 1, {"paused"})
    IN  /\ Busy(h, "resume", "more")
        /\ BulkCreateDeliveryDays(
               GenerateWorkingDeliveryDates(w.endDate + 1, lapsed))
        /\ Goto(h, "save",
                [WithoutPause(w, "active", 0) EXCEPT
                    !.endDate = IF lapsed = 0 THEN @
                                ELSE AddWorkingDaysForward(@ + 1, lapsed)])

SaveResume(h) ==
    /\ Busy(h, "resume", "save")
    /\ UpdateSubscription(h, PauseColumns \cup {"endDate"})
    /\ UNCHANGED <<makeups, upgrade>>

-----------------------------------------------------------------------------
(* Cancelling leaves the window of a pause where it is.                     *)
BeginCancel(h) ==
    /\ sub.status \in {"active", "paused"}
    /\ Start(h, "cancel", "save", sub, [sub EXCEPT !.status = "cancelled"], 0, 0)

BeginResubscribe(h) ==
    /\ sub.status = "cancelled"
    /\ IsSubscriptionInServicePeriod(sub)
    /\ Start(h, "resubscribe", "save", sub, [sub EXCEPT !.status = "active"], 0, 0)

SaveStatus(h) ==
    /\ Busy(h, "cancel", "save") \/ Busy(h, "resubscribe", "save")
    /\ UpdateSubscription(h, {"status"})
    /\ UNCHANGED <<makeups, upgrade>>

(* An upgrade is ordered before the plan has ended; its payment may be      *)
(* fulfilled much later, whatever has become of the plan.                   *)
Tier(p) == CHOOSE i \in DOMAIN Plans : Plans[i] = p

OrderUpgrade(p) ==
    /\ upgrade = NoPlan
    /\ CanUpgradeSubscriptionPlan(sub)
    /\ Tier(p) > Tier(sub.plan)
    /\ upgrade' = p
    /\ UNCHANGED <<now, sub, rows, makeups, left, my>>

CanonicalDates(p) == GenerateWorkingDeliveryDates(StartDate, MealCount[p])

BeginPromote(h) ==
    /\ upgrade # NoPlan
    /\ Reaches(StartDate, MealCount[upgrade])
    /\ Idle(h)
    /\ my' = [my EXCEPT ![h] =
                 [cmd |-> "promote", pc |-> "days", date |-> 0, until |-> 0,
                  aged |-> FALSE,
                  sub |-> [sub EXCEPT !.plan = upgrade,
                                      !.totalMealDays = MealCount[upgrade],
                                      !.endDate = Max(CanonicalDates(upgrade))]]]
    /\ UNCHANGED <<now, sub, rows, makeups, upgrade, left>>

AddCanonicalDays(h) ==
    /\ Busy(h, "promote", "days")
    /\ BulkCreateDeliveryDays(CanonicalDates(my[h].sub.plan) \ DatesWithRows)
    /\ Goto(h, "more", my[h].sub)

DropOtherDays(h) ==
    /\ Busy(h, "promote", "more")
    /\ DeleteScheduledDeliveryDaysOutsideDates(CanonicalDates(my[h].sub.plan))
    /\ Goto(h, "save", my[h].sub)

SavePromote(h) ==
    /\ Busy(h, "promote", "save")
    /\ upgrade' = NoPlan
    /\ LET wasCancelled == my[h].sub.status = "cancelled" IN
       sub' = [sub EXCEPT !.plan = my[h].sub.plan,
                          !.totalMealDays = my[h].sub.totalMealDays,
                          !.endDate = my[h].sub.endDate,
                          !.status = IF wasCancelled THEN "active" ELSE @]
    /\ my' = [my EXCEPT ![h] = Resting]
    /\ UNCHANGED <<now, rows, makeups, left>>

-----------------------------------------------------------------------------
(* Around the commands.                                                     *)
(* Any screen of the app, and any command that is refused after its read.   *)
ReadSubscription ==
    /\ sub.status # "expired"
    /\ EnsurePauseStatus(sub) # sub
    /\ sub' = EnsurePauseStatus(sub)
    /\ UNCHANGED <<now, rows, makeups, upgrade, left, my>>

(* Any delivery of any date, whatever its status, but one that is delivered. *)
(* The row is read first and written by its id: the read only refuses, so   *)
(* the two count as the one step of the write.  Only a row that is not      *)
(* scheduled for today counts against the bound.                            *)
MarkDeliveryDelivered(d) ==
    \E s \in RowsAt(d) \ {"delivered"} :
        /\ UpdateDeliveryDayStatus(d, s, "delivered")
        /\ IF d = Today /\ s = "scheduled" THEN UNCHANGED left
           ELSE left > 0 /\ left' = left - 1
        /\ UNCHANGED <<now, sub, makeups, upgrade, my>>

ExpireActiveSubscriptions_onLastDay ==
    /\ sub.status \in {"active", "paused", "cancelled"}
    /\ sub.endDate <= Today
    /\ sub' = [sub EXCEPT !.status = "expired"]
    /\ UNCHANGED <<now, rows, makeups, upgrade, left, my>>

ExpireActiveSubscriptions_notCancelled ==
    /\ sub.status \in {"active", "paused"}
    /\ sub.endDate < Today
    /\ sub' = [sub EXCEPT !.status = "expired"]
    /\ UNCHANGED <<now, rows, makeups, upgrade, left, my>>

ExpireActiveSubscriptions ==
    /\ sub.status \in {"active", "paused", "cancelled"}
    /\ sub.endDate < Today
    /\ sub' = [sub EXCEPT !.status = "expired"]
    /\ UNCHANGED <<now, rows, makeups, upgrade, left, my>>

(* A command is over before the clock enters a second part of the day.      *)
Tick ==
    /\ now + 1 \in ClockHours
    /\ \A h \in Handlers : ~my[h].aged
    /\ now' = now + 1
    /\ my' = [h \in Handlers |-> [my[h] EXCEPT !.aged = ~Idle(h)]]
    /\ UNCHANGED <<sub, rows, makeups, upgrade, left>>

-----------------------------------------------------------------------------
(* The days the fulfilment of the first order has created.                  *)
GenerateDeliveryDays(p) == GenerateWorkingDeliveryDates(StartDate, MealCount[p])

Init ==
    /\ now = 0
    /\ sub = [plan |-> Plans[1], status |-> "active",
              totalMealDays |-> MealCount[Plans[1]], skippedCount |-> 0,
              endDate |-> Max(GenerateDeliveryDays(Plans[1])), flexUsed |-> 0,
              pausedFrom |-> 0, pausedUntil |-> 0]
    /\ rows = [p \in Dates \X DayStatus |->
                  IF p \in GenerateDeliveryDays(Plans[1]) \X {"scheduled"} THEN 1 ELSE 0]
    /\ makeups = [d \in Dates |-> 0]
    /\ upgrade = NoPlan
    /\ left = MaxCommands
    /\ my = [h \in Handlers |-> Resting]

Begin(h) ==
    /\ MayBegin(h)
    /\ \/ \E d \in Dates : BeginSkip(h, d) \/ BeginUndo(h, d) \/ BeginResume(h, d)
       \/ \E from, until \in Dates : BeginPause(h, from, until)
       \/ BeginCancelPause(h)
       \/ BeginCancel(h)
       \/ BeginResubscribe(h)

Continue(h) ==
    \/ MarkSkipped(h) \/ AddMakeupDay(h) \/ SaveSkip(h)
    \/ MarkUnskipped(h) \/ DeleteMakeupDay(h) \/ SaveUndo(h)
    \/ FreezeDays(h) \/ SavePause(h)
    \/ RestoreDays(h) \/ SaveCancelPause(h)
    \/ RestoreRest(h) \/ AppendLapsedDays(h) \/ SaveResume(h)
    \/ SaveStatus(h)
    \/ AddCanonicalDays(h) \/ DropOtherDays(h) \/ SavePromote(h)

Next ==
    \/ \E h \in Handlers : Begin(h) \/ BeginPromote(h) \/ Continue(h)
    \/ \E p \in PlanSet : OrderUpgrade(p)
    \/ ReadSubscription
    \/ \E d \in Dates : MarkDeliveryDelivered(d)
    \/ ExpireActiveSubscriptions
    \/ Tick

Spec == Init /\ [][Next]_vars

(* The process keeps answering the requests it has begun, the cron that     *)
(* posts to /internal/jobs/expire-subscriptions keeps running, time passes. *)
Fairness ==
    /\ \A h \in Handlers : WF_vars(Continue(h))
    /\ WF_vars(ExpireActiveSubscriptions)
    /\ WF_vars(Tick)

FairSpec == Spec /\ Fairness
-----------------------------------------------------------------------------
(* What the screens offer.                                                  *)
DayActionFlags(s, d, status) ==
    LET open == s.status \in {"active", "cancelled"}
                /\ (s.status = "cancelled" => IsSubscriptionInServicePeriod(s))
                /\ ~IsAfterSkipCutoff(d)
    IN  [skip_available |-> open /\ status = "scheduled" /\ GetFlexDaysRemaining(s) > 0,
         undoable |-> open /\ status = "skipped"]

SubscriptionDeliveries(s) ==
    { [date |-> p[1], flags |-> DayActionFlags(s, p[1], p[2])] :
          p \in { q \in DOMAIN rows : rows[q] > 0 } }

(* The earliest start of a pause, 0 when there is none.                     *)
PauseStartMin(s) ==
    LET starts == { d \in Max({StartDate, Today}) .. PauseEndMax(s) :
                        ~IsAfterSkipCutoff(d) }
    IN  IF starts = {} THEN 0 ELSE Min(starts)

PauseDatePickerVisible(s) ==
    /\ CanUseSkipAndPause(s)
    /\ GetFlexDaysRemaining(s) > 0
    /\ ~HasPause(s)
    /\ PauseStartMin(s) # 0

ResumeDatePickerVisible(s) ==
    /\ HasPause(s)
    /\ IsPauseInEffect(s)
    /\ ~IsAfterSkipCutoff(s.pausedUntil)
    /\ s.pausedFrom + 1 <= s.pausedUntil

SuggestedResumeDate_weekendToo(s) ==
    LET days == Max({Today + 1, s.pausedFrom + 1}) .. s.pausedUntil
    IN  IF days = {} THEN 0 ELSE Min(days)

(* The date the picker of a resume is opened on, 0 when there is none.      *)
SuggestedResumeDate(s) ==
    LET days == ListWorkingDaysInRange(Max({Today + 1, s.pausedFrom + 1}),
                                       s.pausedUntil)
    IN  IF days = {} THEN 0 ELSE Min(days)

SubscriptionScreen(s) ==
    [remaining_count |->
         LET gone == s.skippedCount IN
         IF s.totalMealDays > gone THEN s.totalMealDays - gone ELSE 0,
     skip_pause_days_remaining |-> GetFlexDaysRemaining(s),
     pause_start_min |-> IF PauseDatePickerVisible(s) THEN PauseStartMin(s) ELSE 0,
     resume_suggested |->
         IF ResumeDatePickerVisible(s) THEN SuggestedResumeDate(s) ELSE 0,
     cancel_pause_available |-> IsPauseScheduled(s)]

(* Home: its buttons, for skip and pause or for resume; its banner, and the  *)
(* words on every plan; the card of the plan with the days still to come or, *)
(* in a pause, the days it has frozen so far.                               *)
HomeActions(s) ==
    IF s.status = "active" \/ CanUseSkipAndPause(s) THEN {"skip", "pause"}
    ELSE IF s.status = "paused" THEN {"resume", "browse_menu"}
    ELSE {}

HomeBanner(s) ==
    IF s.status = "active" \/ CanUseSkipAndPause(s) THEN "running"
    ELSE IF s.status = "paused" /\ HasPause(s) THEN "resume"
    ELSE IF s.status = "cancelled" THEN "renew"
    ELSE "blank"

HomePlansLabel(s) ==
    IF s.status = "cancelled" /\ ~IsSubscriptionInServicePeriod(s)
    THEN "renew" ELSE "switch"

PauseDaysFrozen(s) ==
    IF Today < s.pausedFrom THEN 0
    ELSE CountWorkingDaysInRange(s.pausedFrom, Min({Today, s.pausedUntil}))

GetHome(s) ==
    [banner |-> HomeBanner(s), quick_actions |-> HomeActions(s),
     plans |-> HomePlansLabel(s),
     days_remaining |-> Refund(s.totalMealDays, s.skippedCount),
     pause_scheduled |-> IsPauseScheduled(s),
     days_frozen |-> IF HomeBanner(s) = "resume" THEN PauseDaysFrozen(s) ELSE 0]

-----------------------------------------------------------------------------
(* Properties.                                                              *)
TypeOK ==
    /\ now \in ClockHours
    /\ sub \in Subscription
    /\ sub.pausedFrom = 0 <=> sub.pausedUntil = 0
    /\ rows \in DeliveryDays
    /\ makeups \in [Dates -> Dates \cup {0}]
    /\ upgrade \in PlanSet \cup {NoPlan}
    /\ left \in 0 .. MaxCommands
    /\ my \in [Handlers -> Local]

Upgraded == sub.plan # Plans[1]
Quiet == AllIdle /\ ~Upgraded /\ sub.status # "expired"
Window(s) == IF HasPause(s) THEN s.pausedFrom .. s.pausedUntil ELSE {}

(* Between commands a customer who has not upgraded never has fewer days    *)
(* than the plan paid for: every day skipped, or lapsed in a pause that was *)
(* resumed, was replaced, and the days a pause froze are in its window.     *)
NoMealLost ==
    Quiet => HowMany(Dates, {"scheduled", "delivered"})
                + HowMany(Window(sub), {"paused"}) >= MealCount[Plans[1]]

(* One pool pays for skips and pauses: between commands it covers the days  *)
(* that are skipped and the working days of the booked window, and is never *)
(* overdrawn, through any order of skips, undos, pauses, resumes, upgrades. *)
FlexCovers ==
    AllIdle =>
        /\ sub.flexUsed <= FlexAllowed[sub.plan]
        /\ sub.flexUsed >= HowMany(Dates, {"skipped"})
               + Cardinality(Window(sub) \cap WorkingDays)

(* Between commands the plan ends on the last day it has a row for, so the  *)
(* end date the expiry job goes by is behind no meal and ahead of none.     *)
EndsOnLastDay == Quiet => sub.endDate = Max(DatesWithRows)

(* Unless a command is under way, the job expires a plan only when it has   *)
(* nothing left to deliver on a coming day.                                 *)
ExpiredIsOver ==
    [][Quiet /\ sub'.status = "expired"
           => \A d \in Dates : "scheduled" \in RowsAt(d) => d < Today]_vars

(* What the screens offer, the commands accept: a day shown as skippable or *)
(* undoable, the first date of the pause picker, the suggested date of a    *)
(* resume, and cancelling a pause.  Home says the same in each of its parts, *)
(* counts the meals to come as the plan's own page does, never shows more   *)
(* frozen days than were paid for, and asks to renew only a plan that has   *)
(* nothing left to deliver.  An upgrade may leave a skipped day behind the  *)
(* new end of the plan, which is shown as one to skip when it is undone.    *)
OfferedIsAccepted ==
    AllIdle /\ sub.status # "expired" =>
        LET s == EnsurePauseStatus(sub) IN
        /\ \A day \in SubscriptionDeliveries(s) :
               /\ day.flags.skip_available /\ (Upgraded => day.date <= s.endDate) =>
                      MaySkip(s, day.date) /\ "skip" \in HomeActions(s)
               /\ day.flags.undoable => MayUndo(day.date)
        /\ LET screen == SubscriptionScreen(s)
               home == GetHome(s)
           IN
           /\ home.banner # "blank"
           /\ home.banner = "running" <=> "skip" \in home.quick_actions
           /\ home.banner = "resume" <=> "resume" \in home.quick_actions
           /\ home.days_remaining = screen.remaining_count
           /\ home.pause_scheduled => MayCancelPause(s)
           /\ home.days_frozen <= s.flexUsed
           /\ home.plans = "renew" /\ ~Upgraded =>
                  \A d \in Dates : "scheduled" \in RowsAt(d) => d < Today
           /\ screen.pause_start_min # 0 /\ Reaches(s.endDate, GetFlexDaysRemaining(s)) =>
                  \E d \in Dates : MayPause(s, screen.pause_start_min, d)
           /\ screen.resume_suggested # 0 => MayResume(s, screen.resume_suggested)
           /\ screen.cancel_pause_available => MayCancelPause(s)

(* A skip or an undo has found a row of d that is not any more what it was  *)
(* found as, and is about to write it by its id.                            *)
WritesOver(h, d) ==
    /\ my[h].pc = "days" /\ my[h].date = d
    /\ \/ my[h].cmd = "skip" /\ rows[<<d, "scheduled">>] = 0
       \/ my[h].cmd = "undo" /\ rows[<<d, "skipped">>] = 0

(* A delivered row stays delivered: no resume, pause, cancelled pause,      *)
(* upgrade or deletion of a makeup day, whatever it read before, moves or   *)
(* deletes it.  The exception is the one row that a skip or an undo under   *)
(* way has found: marked delivered before it is written, it is written over. *)
DeliveredIsFinal ==
    [][\A d \in Dates :
          \/ rows'[<<d, "delivered">>] >= rows[<<d, "delivered">>]
          \/ /\ \E h \in Handlers : WritesOver(h, d)
             /\ rows'[<<d, "delivered">>] = rows[<<d, "delivered">>] - 1]_vars

(* Every plan expires in the end, whatever its customer does: no command    *)
(* that was under way when the job ran leaves it alive for good.            *)
EveryPlanExpires == <>[](sub.status = "expired")
=============================================================================
