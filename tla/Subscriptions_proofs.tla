------------------------- MODULE Subscriptions_proofs --------------------------
(***************************************************************************)
(* What holds of a plan for every calendar, allowance and number of         *)
(* commands.  That a delivered row is written over by the skip or the undo  *)
(* that had found it, and by nothing else, holds of any number of commands  *)
(* at once; the other theorems are about a customer whose commands are begun *)
(* one at a time, between the rider, the expiry job, the clock, readers and *)
(* the payment of an upgrade: two commands of one customer each write the   *)
(* columns they have read, and one of them is lost.                         *)
(***************************************************************************)
EXTENDS Subscriptions, SetLemmas, SequenceTheorems

-----------------------------------------------------------------------------
(* Delivered days.                                                         *)

IsLocal(v) ==
    v = [cmd |-> v.cmd, pc |-> v.pc, sub |-> v.sub, date |-> v.date, until |-> v.until,
         aged |-> v.aged]

(* The row a skip or an undo is going to write is one of a date.            *)
DatedOf(v) == v.cmd \in {"skip", "undo"} /\ v.pc = "days" => v.date \in Dates

DeliveriesInv ==
    /\ rows \in DeliveryDays /\ now \in ClockHours
    /\ DOMAIN my = Handlers /\ \A h \in Handlers : IsLocal(my[h]) /\ DatedOf(my[h])

(* A date is a number, and today is one too, up to the day after the        *)
(* calendar's last.                                                         *)
LEMMA TodayTyped ==
  ASSUME now \in ClockHours
  PROVE  Today \in Nat /\ Today <= LastDate + 1
<1>1. LastDate \in Nat /\ (Len(Hours) = 2 \/ Len(Hours) = 3)
  BY CalendarAssumption
<1>2. CASE Len(Hours) = 2
  BY <1>1, <1>2 DEF ClockHours, Today
<1>3. CASE Len(Hours) = 3
  BY <1>1, <1>3 DEF ClockHours, Today
<1> QED
  BY <1>1, <1>2, <1>3

(* How each statement of a command changes the rows, date by date.          *)
LEMMA Created ==
  ASSUME rows \in DeliveryDays, NEW ds, BulkCreateDeliveryDays(ds)
  PROVE  /\ rows' \in DeliveryDays
         /\ \A d \in Dates, s \in DayStatus :
                rows'[<<d, s>>] = IF d \in ds /\ s = "scheduled" THEN rows[<<d, s>>] + 1
                                  ELSE rows[<<d, s>>]
<1>1. DOMAIN rows = Dates \X DayStatus /\ \A p \in Dates \X DayStatus : rows[p] \in Nat
  BY DEF DeliveryDays
<1>2. rows' = [p \in Dates \X DayStatus |->
                  IF p[2] = "scheduled" /\ p[1] \in ds THEN rows[p] + 1 ELSE rows[p]]
  BY <1>1 DEF BulkCreateDeliveryDays
<1> QED
  BY <1>1, <1>2 DEF DeliveryDays

(* One row of the date d goes from status s to status to.                   *)
MovesRow(d, s, to) ==
    /\ rows' \in DeliveryDays
    /\ \A e \in Dates, t \in DayStatus :
           rows'[<<e, t>>] = IF e = d /\ s # to /\ t = to THEN rows[<<e, t>>] + 1
                             ELSE IF e = d /\ s # to /\ t = s THEN rows[<<e, t>>] - 1
                             ELSE rows[<<e, t>>]

(* The row a rider, a skip or an undo writes is one of the date it found    *)
(* it on.                                                                   *)
LEMMA Marked ==
  ASSUME NEW d, NEW found, NEW to, rows \in DeliveryDays, d \in Dates,
         found \in DayStatus, to \in DayStatus, UpdateDeliveryDayStatus(d, found, to)
  PROVE  \E s \in DayStatus :
             /\ rows[<<d, s>>] > 0
             /\ rows[<<d, found>>] > 0 => s = found
             /\ MovesRow(d, s, to)
<1>1. DOMAIN rows = Dates \X DayStatus /\ \A p \in Dates \X DayStatus : rows[p] \in Nat
  BY DEF DeliveryDays
<1>2. PICK s \in RowsAt(d) :
          /\ rows[<<d, found>>] > 0 => s = found
          /\ rows' = [rows EXCEPT ![<<d, s>>] = @ - 1, ![<<d, to>>] = @ + 1]
  BY DEF UpdateDeliveryDayStatus
<1>3. s \in DayStatus /\ rows[<<d, s>>] > 0
  BY <1>2 DEF RowsAt
<1>4. \A p \in Dates \X DayStatus :
          rows'[p] = rows[p] + (IF p = <<d, to>> THEN 1 ELSE 0)
                             - (IF p = <<d, s>> THEN 1 ELSE 0)
  <2>1. <<d, s>> \in Dates \X DayStatus /\ <<d, to>> \in Dates \X DayStatus
    BY <1>3
  <2> QED
    BY <1>1, <1>2, <2>1
<1>5. \A p \in Dates \X DayStatus : rows'[p] \in Nat
  BY <1>1, <1>3, <1>4
<1>6. rows' \in DeliveryDays
  BY <1>1, <1>2, <1>5 DEF DeliveryDays
<1>7. ASSUME NEW e \in Dates, NEW t \in DayStatus
      PROVE  rows'[<<e, t>>] = IF e = d /\ s # to /\ t = to THEN rows[<<e, t>>] + 1
                               ELSE IF e = d /\ s # to /\ t = s THEN rows[<<e, t>>] - 1
                               ELSE rows[<<e, t>>]
  BY <1>1, <1>4
<1> QED
  BY <1>2, <1>3, <1>6, <1>7 DEF MovesRow

(* When the row is still in the status it was found with.                   *)
LEMMA MarkedAs ==
  ASSUME NEW d, NEW found, NEW to, rows \in DeliveryDays, d \in Dates,
         found \in DayStatus, to \in DayStatus, found # to, rows[<<d, found>>] > 0,
         UpdateDeliveryDayStatus(d, found, to)
  PROVE  /\ rows' \in DeliveryDays
         /\ \A e \in Dates, t \in DayStatus :
                rows'[<<e, t>>] = IF e = d /\ t = to THEN rows[<<e, t>>] + 1
                                  ELSE IF e = d /\ t = found THEN rows[<<e, t>>] - 1
                                  ELSE rows[<<e, t>>]
<1>1. PICK s \in DayStatus :
          /\ rows[<<d, s>>] > 0 /\ (rows[<<d, found>>] > 0 => s = found)
          /\ MovesRow(d, s, to)
  BY Marked
<1>2. s = found
  BY <1>1
<1> QED
  BY <1>1, <1>2 DEF MovesRow

DaysOf(from, until) == from .. until

(* A pause, its cancellation and a resume move the rows of a range of       *)
(* dates from one status to another.                                        *)
LEMMA Moved ==
  ASSUME NEW from, NEW until, NEW old, NEW new,
         rows \in DeliveryDays, old \in DayStatus, new \in DayStatus, old # new,
         BulkUpdateDeliveryDayStatus(from, until, old, new)
  PROVE  /\ rows' \in DeliveryDays
         /\ \A d \in Dates, s \in DayStatus :
                /\ s # old /\ s # new => rows'[<<d, s>>] = rows[<<d, s>>]
                /\ d \notin DaysOf(from, until) => rows'[<<d, s>>] = rows[<<d, s>>]
         /\ \A d \in Dates :
                d \in DaysOf(from, until) =>
                    /\ rows'[<<d, old>>] = 0
                    /\ rows'[<<d, new>>] = rows[<<d, new>>] + rows[<<d, old>>]
<1>1. DOMAIN rows = Dates \X DayStatus /\ \A p \in Dates \X DayStatus : rows[p] \in Nat
  BY DEF DeliveryDays
<1>2. rows' = [p \in Dates \X DayStatus |->
                  IF p[1] \notin from .. until \/ p[2] \notin {old, new} THEN rows[p]
                  ELSE IF p[2] = old THEN 0
                  ELSE rows[p] + rows[<<p[1], old>>]]
  BY <1>1 DEF BulkUpdateDeliveryDayStatus
<1>3. \A p \in Dates \X DayStatus : <<p[1], old>> \in Dates \X DayStatus
  OBVIOUS
<1>4. rows' \in DeliveryDays
  BY <1>1, <1>2, <1>3 DEF DeliveryDays
<1> QED
  BY <1>2, <1>4 DEF DaysOf

(* A deletion takes scheduled rows only, and those of dates it does not     *)
(* keep.                                                                    *)
LEMMA Deleted ==
  ASSUME rows \in DeliveryDays, NEW keep, DeleteScheduledDeliveryDaysOutsideDates(keep)
  PROVE  /\ rows' \in DeliveryDays
         /\ \A d \in Dates, s \in DayStatus :
                rows'[<<d, s>>] = IF s = "scheduled" /\ d \notin keep THEN 0
                                  ELSE rows[<<d, s>>]
<1>1. DOMAIN rows = Dates \X DayStatus /\ \A p \in Dates \X DayStatus : rows[p] \in Nat
  BY DEF DeliveryDays
<1>2. rows' = [p \in Dates \X DayStatus |->
                  IF p[2] = "scheduled" /\ p[1] \notin keep THEN 0 ELSE rows[p]]
  BY <1>1 DEF DeleteScheduledDeliveryDaysOutsideDates
<1> QED
  BY <1>1, <1>2 DEF DeliveryDays

(* A command's own record is the one thing of it that a step changes.       *)
LEMMA OneMoves ==
  ASSUME DeliveriesInv, NEW h \in Handlers, NEW v, IsLocal(v), DatedOf(v),
         now' = now, rows' \in DeliveryDays, my' = [my EXCEPT ![h] = v]
  PROVE  DeliveriesInv'
<1>1. DOMAIN my' = Handlers /\ \A k \in Handlers : my'[k] = IF k = h THEN v ELSE my[k]
  BY DEF DeliveriesInv
<1>2. \A k \in Handlers : IsLocal(my[k]) /\ DatedOf(my[k])
  BY DEF DeliveriesInv
<1> HIDE DEF IsLocal
<1>3. ASSUME NEW k \in Handlers PROVE IsLocal(my'[k]) /\ DatedOf(my'[k])
  BY <1>1, <1>2
<1>4. (\A k \in Handlers : IsLocal(my[k]) /\ DatedOf(my[k]))'
  BY <1>3 DEF IsLocal, DatedOf
<1>5. (rows \in DeliveryDays)' /\ (now \in ClockHours)'
  BY DEF DeliveriesInv, DeliveryDays, ClockHours
<1> QED
  BY <1>1, <1>4, <1>5 DEF DeliveriesInv

(* A command that begins writes no row; a skip or an undo begins for a      *)
(* date.                                                                    *)
LEMMA StartMoves ==
  ASSUME DeliveriesInv, NEW h \in Handlers, NEW cmd, NEW pc, NEW s, NEW w, NEW d, NEW u,
         Start(h, cmd, pc, s, w, d, u), cmd \in {"skip", "undo"} => d \in Dates
  PROVE  DeliveriesInv'
<1> DEFINE v == [cmd |-> cmd, pc |-> pc, sub |-> w, date |-> d, until |-> u, aged |-> FALSE]
<1>1. v.cmd = cmd /\ v.date = d /\ IsLocal(v)
  BY DEF IsLocal
<1>2. my' = [my EXCEPT ![h] = v] /\ now' = now /\ rows' = rows
  BY DEF Start
<1> HIDE DEF v
<1>3. DatedOf(v)
  BY <1>1 DEF DatedOf
<1>4. rows' \in DeliveryDays
  BY <1>2 DEF DeliveriesInv
<1> QED
  BY <1>1, <1>2, <1>3, <1>4, OneMoves

(* The rows may gain what is not delivered, and lose it.                    *)
DeliveredKept ==
    /\ rows' \in DeliveryDays
    /\ \A d \in Dates : rows'[<<d, "delivered">>] = rows[<<d, "delivered">>]

(* No command goes back to its first statement.                             *)
LEMMA GotoMoves ==
  ASSUME DeliveriesInv, NEW h \in Handlers, NEW pc, NEW w, Goto(h, pc, w), pc # "days",
         rows' \in DeliveryDays
  PROVE  DeliveriesInv'
<1>1. PICK o : o = my[h]
  OBVIOUS
<1>2. IsLocal(o)
  BY <1>1 DEF DeliveriesInv
<1> DEFINE v == [cmd |-> o.cmd, pc |-> pc, sub |-> w, date |-> o.date, until |-> o.until,
                 aged |-> o.aged]
           u == [cmd |-> o.cmd, pc |-> pc, sub |-> o.sub, date |-> o.date, until |-> o.until,
                 aged |-> o.aged]
<1>3. [o EXCEPT !.pc = pc, !.sub = w] = v
  <2>1. [o EXCEPT !.pc = pc] = u
    BY <1>2 DEF IsLocal
  <2>2. [u EXCEPT !.sub = w] = v
    OBVIOUS
  <2> QED
    BY <2>1, <2>2
<1>4. IsLocal(v) /\ v.pc = pc
  BY DEF IsLocal
<1>5. my' = [my EXCEPT ![h] = v] /\ now' = now
  BY <1>1, <1>3 DEF Goto
<1> HIDE DEF v
<1>6. DatedOf(v)
  BY <1>4 DEF DatedOf
<1> QED
  BY <1>4, <1>5, <1>6, OneMoves

(* A command that saves its columns writes no row.                          *)
LEMMA SaveMoves ==
  ASSUME DeliveriesInv, NEW h \in Handlers, my' = [my EXCEPT ![h] = Resting],
         UNCHANGED <<now, rows>>
  PROVE  DeliveriesInv'
<1>1. IsLocal(Resting) /\ Resting.cmd = "none"
  BY DEF Resting, IsLocal
<1>2. DatedOf(Resting)
  BY <1>1 DEF DatedOf
<1>3. rows' \in DeliveryDays
  BY DEF DeliveriesInv
<1> QED
  BY <1>1, <1>2, <1>3, OneMoves

(* A delivered row may be lost to a skip or an undo under way only.         *)
KeptButOver ==
    \A d \in Dates :
        \/ rows'[<<d, "delivered">>] >= rows[<<d, "delivered">>]
        \/ /\ \E h \in Handlers : WritesOver(h, d)
           /\ rows'[<<d, "delivered">>] = rows[<<d, "delivered">>] - 1

(* The row a skip or an undo writes is delivered only when the status it    *)
(* was found with is gone from its date.                                    *)
LEMMA MarkedKeeps ==
  ASSUME DeliveriesInv, NEW d \in Dates,
         NEW found \in {"scheduled", "skipped"}, NEW to \in {"scheduled", "skipped"},
         UpdateDeliveryDayStatus(d, found, to)
  PROVE  /\ rows' \in DeliveryDays
         /\ \A e \in Dates :
                \/ rows'[<<e, "delivered">>] = rows[<<e, "delivered">>]
                \/ /\ e = d /\ rows[<<d, found>>] = 0
                   /\ rows'[<<e, "delivered">>] = rows[<<e, "delivered">>] - 1
<1>1. rows \in DeliveryDays /\ found \in DayStatus /\ to \in DayStatus
      /\ "delivered" \in DayStatus /\ to # "delivered" /\ found # "delivered"
  BY DEF DeliveriesInv, DayStatus
<1>2. PICK s \in DayStatus :
             /\ rows[<<d, s>>] > 0
             /\ rows[<<d, found>>] > 0 => s = found
             /\ MovesRow(d, s, to)
  BY <1>1, Marked
<1>3. rows[<<d, found>>] \in Nat /\ \A e \in Dates : rows[<<e, "delivered">>] \in Nat
  BY <1>1 DEF DeliveryDays
<1>4. s = "delivered" => rows[<<d, found>>] = 0
  BY <1>1, <1>2, <1>3
<1>5. ASSUME NEW e \in Dates
      PROVE  rows'[<<e, "delivered">>] = IF e = d /\ s = "delivered"
                                         THEN rows[<<e, "delivered">>] - 1
                                         ELSE rows[<<e, "delivered">>]
  BY <1>1, <1>2 DEF MovesRow
<1> QED
  BY <1>2, <1>4, <1>5 DEF MovesRow

(* No row that has been delivered is among those a range moves.             *)
LEMMA MovedKeeps ==
  ASSUME NEW from, NEW until, NEW old, NEW new,
         rows \in DeliveryDays, old \in DayStatus, new \in DayStatus, old # new,
         old # "delivered", new # "delivered",
         BulkUpdateDeliveryDayStatus(from, until, old, new)
  PROVE  DeliveredKept
<1>1. PICK s \in DayStatus : s = "delivered"
  BY DEF DayStatus
<1>2. rows' \in DeliveryDays
  BY Moved
<1>3. \A d \in Dates : rows'[<<d, s>>] = rows[<<d, s>>]
  BY <1>1, Moved
<1> QED
  BY <1>1, <1>2, <1>3 DEF DeliveredKept

(* Beginning any command keeps what was delivered.                          *)
LEMMA BeginMoves ==
  ASSUME DeliveriesInv, NEW h \in Handlers, Begin(h)
  PROVE  DeliveriesInv' /\ rows' = rows
<1>1. ASSUME NEW d \in Dates, BeginSkip(h, d) PROVE DeliveriesInv' /\ rows' = rows
  <2>1. PICK s, w : Start(h, "skip", "days", s, w, d, 0)
    BY <1>1 DEF BeginSkip
  <2>2. DeliveriesInv'
    BY <2>1, StartMoves
  <2> QED
    BY <2>1, <2>2 DEF Start
<1>2. ASSUME NEW d \in Dates, BeginUndo(h, d) PROVE DeliveriesInv' /\ rows' = rows
  <2>1. PICK s, w : Start(h, "undo", "days", s, w, d, 0)
    BY <1>2 DEF BeginUndo
  <2>2. DeliveriesInv'
    BY <2>1, StartMoves
  <2> QED
    BY <2>1, <2>2 DEF Start
<1>3. ASSUME NEW cmd, cmd \notin {"skip", "undo"}, NEW pc, NEW s, NEW w, NEW d, NEW u,
             Start(h, cmd, pc, s, w, d, u)
      PROVE  DeliveriesInv' /\ rows' = rows
  BY <1>3, StartMoves DEF Start
<1>4. ASSUME NEW d \in Dates, BeginResume(h, d) PROVE DeliveriesInv' /\ rows' = rows
  BY <1>3, <1>4 DEF BeginResume
<1>5. ASSUME NEW d \in Dates, NEW u \in Dates, BeginPause(h, d, u)
      PROVE  DeliveriesInv' /\ rows' = rows
  BY <1>3, <1>5 DEF BeginPause
<1>6. CASE BeginCancelPause(h)
  BY <1>3, <1>6 DEF BeginCancelPause
<1>7. CASE BeginCancel(h)
  BY <1>3, <1>7 DEF BeginCancel
<1>8. CASE BeginResubscribe(h)
  BY <1>3, <1>8 DEF BeginResubscribe
<1> QED
  BY <1>1, <1>2, <1>4, <1>5, <1>6, <1>7, <1>8 DEF Begin

(* So does every statement of a command under way, but for the first one of *)
(* a skip or an undo.                                                       *)
LEMMA ContinueMoves ==
  ASSUME DeliveriesInv, NEW h \in Handlers, Continue(h)
  PROVE  DeliveriesInv' /\ KeptButOver
<1>1. rows \in DeliveryDays /\ DatedOf(my[h]) /\ "delivered" \in DayStatus
      /\ {"scheduled", "skipped", "paused"} \subseteq DayStatus
  BY DEF DeliveriesInv, DayStatus
<1>2. ASSUME NEW cmd \in {"skip", "undo"}, Busy(h, cmd, "days"),
             NEW found \in {"scheduled", "skipped"}, NEW to \in {"scheduled", "skipped"},
             found = (IF cmd = "skip" THEN "scheduled" ELSE "skipped"),
             UpdateDeliveryDayStatus(my[h].date, found, to)
      PROVE  rows' \in DeliveryDays /\ KeptButOver
  <2>1. PICK v : v = my[h]
    OBVIOUS
  <2>2. v.cmd = cmd /\ v.pc = "days"
    BY <1>2, <2>1 DEF Busy
  <2>3. v.date \in Dates
    BY <1>1, <2>1, <2>2 DEF DatedOf
  <2>4. PICK d \in Dates : d = v.date
    BY <2>3
  <2>5. UpdateDeliveryDayStatus(d, found, to)
    BY <1>2, <2>1, <2>4
  <2>6. /\ rows' \in DeliveryDays
        /\ \A e \in Dates :
               \/ rows'[<<e, "delivered">>] = rows[<<e, "delivered">>]
               \/ /\ e = d /\ rows[<<d, found>>] = 0
                  /\ rows'[<<e, "delivered">>] = rows[<<e, "delivered">>] - 1
    BY <2>5, MarkedKeeps
  <2>7. rows[<<d, found>>] = 0 => WritesOver(h, d)
    BY <1>2, <2>1, <2>2, <2>4 DEF WritesOver
  <2>8. \A e \in Dates : rows[<<e, "delivered">>] \in Nat
    BY <1>1 DEF DeliveryDays
  <2> QED
    BY <2>6, <2>7, <2>8 DEF KeptButOver
<1>3. ASSUME UNCHANGED rows PROVE DeliveredKept
  BY <1>1, <1>3 DEF DeliveredKept
<1>4. ASSUME NEW ds, BulkCreateDeliveryDays(ds) PROVE DeliveredKept
  BY <1>1, <1>4, Created DEF DeliveredKept
<1>5. ASSUME NEW from, NEW u, NEW old \in {"scheduled", "paused"},
             NEW new \in {"scheduled", "paused"}, old # new,
             BulkUpdateDeliveryDayStatus(from, u, old, new)
      PROVE  DeliveredKept
  <2>1. old \in DayStatus /\ new \in DayStatus /\ old # "delivered" /\ new # "delivered"
    BY <1>1, <1>5
  <2> QED
    BY <1>1, <1>5, <2>1, MovedKeeps
<1>6. ASSUME NEW keep, DeleteScheduledDeliveryDaysOutsideDates(keep) PROVE DeliveredKept
  BY <1>1, <1>6, Deleted DEF DeliveredKept
<1>7. ASSUME NEW pc, NEW w, Goto(h, pc, w), pc # "days", DeliveredKept
      PROVE  DeliveriesInv' /\ KeptButOver
  <2>1. \A d \in Dates : rows[<<d, "delivered">>] \in Nat
    BY <1>1 DEF DeliveryDays
  <2> QED
    BY <1>7, <2>1, GotoMoves DEF DeliveredKept, KeptButOver
<1>9. ASSUME NEW pc, NEW w, Goto(h, pc, w), pc # "days", rows' \in DeliveryDays
      PROVE  DeliveriesInv'
  BY <1>9, GotoMoves
<1>8. ASSUME NEW columns, UpdateSubscription(h, columns)
      PROVE  DeliveriesInv' /\ KeptButOver
  <2>1. DeliveriesInv'
    BY <1>8, SaveMoves DEF UpdateSubscription
  <2>2. \A d \in Dates : rows[<<d, "delivered">>] \in Nat
    BY <1>1 DEF DeliveryDays
  <2> QED
    BY <1>8, <2>1, <2>2 DEF UpdateSubscription, KeptButOver
<1>a. CASE MarkSkipped(h)
  BY <1>2, <1>9, <1>a DEF MarkSkipped
<1>b. CASE AddMakeupDay(h)
  BY <1>4, <1>7, <1>b DEF AddMakeupDay
<1>c. CASE SaveSkip(h)
  BY <1>8, <1>c DEF SaveSkip
<1>d. CASE MarkUnskipped(h)
  BY <1>2, <1>9, <1>d DEF MarkUnskipped
<1>e. CASE DeleteMakeupDay(h)
  BY <1>3, <1>6, <1>7, <1>e DEF DeleteMakeupDay
<1>f. CASE SaveUndo(h)
  BY <1>8, <1>f DEF SaveUndo
<1>g. CASE FreezeDays(h)
  BY <1>5, <1>7, <1>g DEF FreezeDays
<1>h. CASE SavePause(h)
  BY <1>8, <1>h DEF SavePause
<1>i. CASE RestoreDays(h)
  BY <1>5, <1>7, <1>i DEF RestoreDays
<1>j. CASE SaveCancelPause(h)
  BY <1>8, <1>j DEF SaveCancelPause
<1>k. CASE RestoreRest(h)
  BY <1>5, <1>7, <1>k DEF RestoreRest
<1>l. CASE AppendLapsedDays(h)
  BY <1>4, <1>7, <1>l DEF AppendLapsedDays
<1>m. CASE SaveResume(h)
  BY <1>8, <1>m DEF SaveResume
<1>n. CASE SaveStatus(h)
  BY <1>8, <1>n DEF SaveStatus
<1>o. CASE AddCanonicalDays(h)
  BY <1>4, <1>7, <1>o DEF AddCanonicalDays
<1>p. CASE DropOtherDays(h)
  BY <1>6, <1>7, <1>p DEF DropOtherDays
<1>q. CASE SavePromote(h)
  <2>1. \A d \in Dates : rows[<<d, "delivered">>] \in Nat
    BY <1>1 DEF DeliveryDays
  <2>2. ASSUME NEW d \in Dates PROVE rows'[<<d, "delivered">>] >= rows[<<d, "delivered">>]
    <3>1. PICK n \in Nat : n = rows[<<d, "delivered">>]
      BY <2>1
    <3>2. rows'[<<d, "delivered">>] = n
      BY <1>q, <3>1 DEF SavePromote
    <3> QED
      BY <3>1, <3>2
  <2> QED
    BY <1>q, <2>1, <2>2, SaveMoves DEF SavePromote, KeptButOver
<1> QED
  BY <1>a, <1>b, <1>c, <1>d, <1>e, <1>f, <1>g, <1>h, <1>i, <1>j, <1>k, <1>l, <1>m, <1>n,
     <1>o, <1>p, <1>q DEF Continue

(* The rider marks one row of a date, and none of another.                  *)
LEMMA RiderMarks ==
  ASSUME rows \in DeliveryDays, NEW d \in Dates, MarkDeliveryDelivered(d)
  PROVE  \E s \in {"scheduled", "skipped", "paused"} :
             /\ rows[<<d, s>>] > 0
             /\ rows' \in DeliveryDays
             /\ \A e \in Dates, t \in DayStatus :
                    rows'[<<e, t>>] = IF e = d /\ t = "delivered" THEN rows[<<e, t>>] + 1
                                      ELSE IF e = d /\ t = s THEN rows[<<e, t>>] - 1
                                      ELSE rows[<<e, t>>]
<1>1. PICK s \in RowsAt(d) \ {"delivered"} : UpdateDeliveryDayStatus(d, s, "delivered")
  BY DEF MarkDeliveryDelivered
<1>2. s \in {"scheduled", "skipped", "paused"} /\ rows[<<d, s>>] > 0
      /\ s \in DayStatus /\ "delivered" \in DayStatus /\ s # "delivered"
  BY <1>1 DEF RowsAt, DayStatus
<1>3. /\ rows' \in DeliveryDays
      /\ \A e \in Dates, t \in DayStatus :
             rows'[<<e, t>>] = IF e = d /\ t = "delivered" THEN rows[<<e, t>>] + 1
                               ELSE IF e = d /\ t = s THEN rows[<<e, t>>] - 1
                               ELSE rows[<<e, t>>]
  BY <1>1, <1>2, MarkedAs
<1> QED
  BY <1>2, <1>3

(* A delivered row it leaves alone.                                         *)
LEMMA RiderMoves ==
  ASSUME DeliveriesInv, NEW d \in Dates, MarkDeliveryDelivered(d)
  PROVE  DeliveriesInv' /\ KeptButOver
<1>1. rows \in DeliveryDays /\ "delivered" \in DayStatus
  BY DEF DeliveriesInv, DayStatus
<1>2. PICK s \in {"scheduled", "skipped", "paused"} :
             /\ rows' \in DeliveryDays
             /\ \A e \in Dates, t \in DayStatus :
                    rows'[<<e, t>>] = IF e = d /\ t = "delivered" THEN rows[<<e, t>>] + 1
                                      ELSE IF e = d /\ t = s THEN rows[<<e, t>>] - 1
                                      ELSE rows[<<e, t>>]
  BY <1>1, RiderMarks
<1>3. \A e \in Dates : rows[<<e, "delivered">>] \in Nat
  BY <1>1 DEF DeliveryDays
<1>4. ASSUME NEW e \in Dates PROVE rows'[<<e, "delivered">>] >= rows[<<e, "delivered">>]
  <2>1. PICK n \in Nat : n = rows[<<e, "delivered">>]
    BY <1>3
  <2>2. rows'[<<e, "delivered">>] = IF e = d THEN n + 1 ELSE n
    BY <1>1, <1>2, <2>1
  <2> QED
    BY <2>1, <2>2
<1>5. now' = now /\ my' = my
  BY DEF MarkDeliveryDelivered
<1> QED
  BY <1>2, <1>4, <1>5 DEF DeliveriesInv, DeliveryDays, ClockHours, IsLocal, DatedOf,
     KeptButOver

(* The clock changes nothing of a command but that it is older.             *)
LEMMA TickMoves ==
  ASSUME DeliveriesInv, Tick
  PROVE  DeliveriesInv'
<1>1. now' \in ClockHours' /\ rows' = rows
  BY DEF Tick, DeliveriesInv, ClockHours
<1>2. ASSUME NEW h \in Handlers PROVE IsLocal(my'[h]) /\ DatedOf(my'[h])
  <2>1. PICK v : v = my[h]
    OBVIOUS
  <2>2. IsLocal(v) /\ DatedOf(v)
    BY <2>1 DEF DeliveriesInv
  <2>3. PICK b : my'[h] = [v EXCEPT !.aged = b]
    BY <2>1 DEF Tick
  <2>4. my'[h] = [cmd |-> v.cmd, pc |-> v.pc, sub |-> v.sub, date |-> v.date,
                  until |-> v.until, aged |-> b]
    BY <2>2, <2>3 DEF IsLocal
  <2>5. PICK w : w = my'[h]
    OBVIOUS
  <2>6. w.cmd = v.cmd /\ w.pc = v.pc /\ w.date = v.date /\ IsLocal(w)
    BY <2>4, <2>5 DEF IsLocal
  <2> QED
    BY <2>2, <2>5, <2>6 DEF DatedOf
<1>3. DOMAIN my' = Handlers
  BY DEF Tick
<1> QED
  BY <1>1, <1>2, <1>3 DEF DeliveriesInv, DeliveryDays, IsLocal, DatedOf

(* No step of the system takes a delivered row away but the writing over.   *)
LEMMA DeliveriesStep ==
  ASSUME DeliveriesInv, [Next]_vars
  PROVE  DeliveriesInv' /\ KeptButOver
<1>1. rows \in DeliveryDays /\ \A d \in Dates : rows[<<d, "delivered">>] \in Nat
  BY DEF DeliveriesInv, DeliveryDays, DayStatus
<1>2. ASSUME rows' = rows PROVE KeptButOver
  <2>1. ASSUME NEW d \in Dates PROVE rows'[<<d, "delivered">>] >= rows[<<d, "delivered">>]
    <3>1. PICK n \in Nat : n = rows[<<d, "delivered">>]
      BY <1>1
    <3>2. rows'[<<d, "delivered">>] = n
      BY <1>2, <3>1
    <3> QED
      BY <3>1, <3>2
  <2> QED
    BY <2>1 DEF KeptButOver
<1>3. ASSUME UNCHANGED <<now, rows, my>> PROVE DeliveriesInv' /\ KeptButOver
  <2>1. DeliveriesInv'
    BY <1>3 DEF DeliveriesInv, DeliveryDays, ClockHours, DatedOf, IsLocal
  <2> QED
    BY <1>2, <1>3, <2>1
<1>4. ASSUME NEW h \in Handlers, BeginPromote(h) PROVE DeliveriesInv' /\ KeptButOver
  <2>1. PICK w : my' = [my EXCEPT ![h] = [cmd |-> "promote", pc |-> "days", date |-> 0,
                                          until |-> 0, aged |-> FALSE, sub |-> w]]
    BY <1>4 DEF BeginPromote
  <2> DEFINE v == [cmd |-> "promote", pc |-> "days", date |-> 0, until |-> 0,
                   aged |-> FALSE, sub |-> w]
  <2>2. v.cmd = "promote" /\ IsLocal(v) /\ my' = [my EXCEPT ![h] = v]
    BY <2>1 DEF IsLocal
  <2> HIDE DEF v
  <2>3. now' = now /\ rows' = rows /\ DatedOf(v)
    BY <1>4, <2>2 DEF BeginPromote, DatedOf
  <2>4. DeliveriesInv'
    BY <1>1, <2>2, <2>3, OneMoves
  <2> QED
    BY <1>2, <2>3, <2>4
<1>5. ASSUME NEW h \in Handlers, Begin(h) PROVE DeliveriesInv' /\ KeptButOver
  BY <1>2, <1>5, BeginMoves
<1>6. ASSUME NEW h \in Handlers, Continue(h) PROVE DeliveriesInv' /\ KeptButOver
  BY <1>6, ContinueMoves
<1>7. ASSUME NEW p \in PlanSet, OrderUpgrade(p) PROVE DeliveriesInv' /\ KeptButOver
  BY <1>3, <1>7 DEF OrderUpgrade
<1>8. CASE ReadSubscription
  BY <1>3, <1>8 DEF ReadSubscription
<1>9. ASSUME NEW d \in Dates, MarkDeliveryDelivered(d) PROVE DeliveriesInv' /\ KeptButOver
  BY <1>9, RiderMoves
<1>10. CASE ExpireActiveSubscriptions
  BY <1>3, <1>10 DEF ExpireActiveSubscriptions
<1>11. CASE Tick
  BY <1>2, <1>11, TickMoves DEF Tick
<1>12. CASE UNCHANGED vars
  BY <1>3, <1>12 DEF vars
<1> QED
  BY <1>4, <1>5, <1>6, <1>7, <1>8, <1>9, <1>10, <1>11, <1>12 DEF Next

(* A new plan has delivered nothing.                                        *)
LEMMA DeliveriesStart == Init => DeliveriesInv
<1> SUFFICES ASSUME Init PROVE DeliveriesInv
  OBVIOUS
<1>1. now = 0 /\ LastDate \in Nat /\ Len(Hours) \in {2, 3}
  BY CalendarAssumption DEF Init
<1>2. now \in ClockHours
  BY <1>1 DEF ClockHours
<1>3. rows \in DeliveryDays
  <2>1. rows = [p \in Dates \X DayStatus |->
                    IF p \in GenerateDeliveryDays(Plans[1]) \X {"scheduled"} THEN 1 ELSE 0]
    BY DEF Init
  <2> QED
    BY <2>1 DEF DeliveryDays
<1>4. \A h \in Handlers : my[h] = Resting
  BY DEF Init
<1>5. IsLocal(Resting) /\ Resting.cmd = "none"
  BY DEF Resting, IsLocal
<1>6. DOMAIN my = Handlers
  BY DEF Init
<1> QED
  BY <1>2, <1>3, <1>4, <1>5, <1>6 DEF DeliveriesInv, DatedOf

(* A delivered row stays delivered, with any number of commands under way:  *)
(* no bulk statement touches it, and a statement that writes one row by its *)
(* id writes over it only in the skip or the undo that has found this row,  *)
(* not yet delivered, and not yet written it.                               *)
THEOREM DeliveredStays == Spec => DeliveredIsFinal
<1>1. DeliveriesInv /\ [Next]_vars => [KeptButOver]_vars
  BY DeliveriesStep
<1>2. DeliveriesInv /\ [Next]_vars => DeliveriesInv'
  BY DeliveriesStep
<1> QED
  BY <1>1, <1>2, DeliveriesStart, PTL DEF Spec, DeliveredIsFinal, KeptButOver

-----------------------------------------------------------------------------
(* The calendar.                                                           *)

LEMMA DatesTyped ==
  /\ LastDate \in Nat /\ LastDate >= 1 /\ Dates \subseteq Nat \ {0} /\ IsFiniteSet(Dates)
  /\ WorkingDays \subseteq Dates /\ IsFiniteSet(WorkingDays)
  /\ \A d \in Dates : d <= LastDate
<1>1. LastDate \in Nat /\ LastDate >= 1 /\ WorkingDays \subseteq Dates
  BY CalendarAssumption
<1>2. IsFiniteSet(Dates)
  BY <1>1, FS_Interval DEF Dates
<1>3. IsFiniteSet(WorkingDays)
  BY <1>1, <1>2, FS_Subset
<1>4. Dates \subseteq Nat \ {0} /\ \A d \in Dates : d <= LastDate
  BY <1>1 DEF Dates
<1> QED
  BY <1>1, <1>2, <1>3, <1>4

(* The working days of a range are finitely many.                           *)
LEMMA CountTyped ==
  ASSUME NEW from, NEW to
  PROVE  /\ ListWorkingDaysInRange(from, to) \subseteq WorkingDays
         /\ IsFiniteSet(ListWorkingDaysInRange(from, to))
         /\ CountWorkingDaysInRange(from, to) \in Nat
<1>1. ListWorkingDaysInRange(from, to) \subseteq WorkingDays
  BY DEF ListWorkingDaysInRange
<1>2. IsFiniteSet(ListWorkingDaysInRange(from, to))
  BY <1>1, DatesTyped, FS_Subset
<1>3. CountWorkingDaysInRange(from, to) \in Nat
  BY <1>2, FS_CardinalityType DEF CountWorkingDaysInRange
<1> QED
  BY <1>1, <1>2, <1>3

(* The days generated for n meals are working days from the first date on,  *)
(* and as many as there are meals when the calendar reaches that far.       *)
LEMMA Generated ==
  ASSUME NEW from \in Int, NEW n \in Nat
  PROVE  LET G == GenerateWorkingDeliveryDates(from, n) IN
         /\ G \subseteq WorkingDays /\ G \subseteq Dates /\ IsFiniteSet(G)
         /\ \A d \in G : d >= from
         /\ Cardinality(G) <= n
         /\ Reaches(from, n) => Cardinality(G) = n
<1> DEFINE L == ListWorkingDaysInRange(from, LastDate)
           G == GenerateWorkingDeliveryDates(from, n)
<1>1. /\ LastDate \in Nat /\ Dates \subseteq Nat \ {0} /\ WorkingDays \subseteq Dates
      /\ \A d \in Dates : d <= LastDate
  BY DatesTyped
<1>2. L \subseteq WorkingDays /\ IsFiniteSet(L) /\ Cardinality(L) \in Nat
  <2>1. L \subseteq WorkingDays /\ IsFiniteSet(L)
    BY CountTyped
  <2> QED
    BY <2>1, FS_CardinalityType
<1>3. G \subseteq L /\ \A d \in G : d >= from
  BY <1>1 DEF GenerateWorkingDeliveryDates, ListWorkingDaysInRange, Dates
<1>4. IsFiniteSet(G) /\ Cardinality(G) \in Nat
  <2>1. IsFiniteSet(G)
    BY <1>2, <1>3, FS_Subset
  <2> QED
    BY <2>1, FS_CardinalityType
<1>5. \A d : d \in ListWorkingDaysInRange(from, LastDate) <=> d \in WorkingDays /\ from <= d
  <2>1. \A d \in WorkingDays : d \in Int /\ d <= LastDate
    BY <1>1
  <2> SUFFICES ASSUME NEW d
               PROVE  d \in ListWorkingDaysInRange(from, LastDate)
                      <=> d \in WorkingDays /\ from <= d
    OBVIOUS
  <2>2. CASE d \in WorkingDays
    <3>1. d \in Int /\ d <= LastDate /\ LastDate \in Int
      BY <1>1, <2>1, <2>2
    <3> QED
      BY <2>2, <3>1 DEF ListWorkingDaysInRange
  <2>3. CASE d \notin WorkingDays
    BY <2>3 DEF ListWorkingDaysInRange
  <2> QED
    BY <2>2, <2>3
<1>6. \A d, to \in Dates :
          d \in ListWorkingDaysInRange(from, to) <=> d \in WorkingDays /\ from <= d /\ d <= to
  BY <1>1 DEF ListWorkingDaysInRange, Dates
<1>7. \A d : d \in G <=> d \in L /\ CountWorkingDaysInRange(from, d) <= n
  BY DEF GenerateWorkingDeliveryDates
<1>8. L \subseteq Dates /\ G \subseteq Int /\ L \subseteq Int
  <2>1. Dates \subseteq Int
    BY <1>1
  <2>2. WorkingDays \subseteq Int
    BY <1>1, <2>1
  <2> HIDE DEF G, L
  <2>3. L \subseteq Dates /\ L \subseteq Int
    BY <1>1, <1>2, <2>2
  <2> QED
    BY <1>3, <2>3
<1>9. \A to : IsFiniteSet(ListWorkingDaysInRange(from, to))
              /\ CountWorkingDaysInRange(from, to) \in Nat
  BY CountTyped
<1> HIDE DEF G, L
<1>10. Cardinality(G) <= n
  <2>1. CASE G = {}
    BY <2>1, FS_EmptySet
  <2>2. CASE G # {}
    <3>1. PICK x : x = Max(G)
      OBVIOUS
    <3>2. x \in G /\ \A d \in G : d <= x
      BY <1>4, <1>8, <2>2, <3>1, MaxIsMember
    <3>3. \A d \in G : d \in WorkingDays /\ from <= d /\ d \in Dates
      BY <1>2, <1>3, <1>8
    <3>4. G \subseteq ListWorkingDaysInRange(from, x)
      BY <1>6, <3>2, <3>3
    <3>5. Cardinality(G) <= CountWorkingDaysInRange(from, x)
      BY <1>9, <3>4, FS_Subset DEF CountWorkingDaysInRange
    <3>6. CountWorkingDaysInRange(from, x) <= n /\ CountWorkingDaysInRange(from, x) \in Nat
      BY <1>7, <1>9, <3>2
    <3> QED
      BY <1>4, <3>5, <3>6
  <2> QED
    BY <2>1, <2>2
<1>11. ASSUME Reaches(from, n) PROVE Cardinality(G) = n
  <2>1. Cardinality(L) >= n
    BY <1>11 DEF Reaches, CountWorkingDaysInRange, L
  <2>2. CASE G = L
    BY <1>2, <1>10, <2>1, <2>2
  <2>3. CASE G # L
    <3>1. IsFiniteSet(L \ G) /\ L \ G # {} /\ L \ G \subseteq Int
      <4>1. L \ G \subseteq L
        OBVIOUS
      <4>2. IsFiniteSet(L \ G)
        BY <1>2, <4>1, FS_Subset
      <4> QED
        BY <1>3, <1>8, <2>3, <4>2
    <3>2. PICK y : y = Min(L \ G)
      OBVIOUS
    <3>3. y \in L \ G /\ \A d \in L \ G : y <= d
      BY <3>1, <3>2, MinIsMember
    <3> DEFINE Y == ListWorkingDaysInRange(from, y)
    <3>4. y \in Dates /\ y \in Int
      BY <1>8, <3>3
    <3>5. \A d \in Y : d \in L /\ (d = y \/ d < y) /\ d \in Int
      <4>1. \A d \in Y : d \in WorkingDays /\ from <= d /\ d <= y
        <5>1. \A d \in Y : d \in Dates
          BY <1>1, CountTyped
        <5> QED
          BY <1>6, <3>4, <5>1
      <4>2. \A d \in Y : d \in L /\ d \in Int
        BY <1>5, <1>8, <4>1 DEF L
      <4> QED
        BY <3>4, <4>1, <4>2
    <3>6. Y \ {y} \subseteq G
      BY <3>3, <3>4, <3>5
    <3>7. y \in Y
      BY <1>1, <1>2, <1>5, <1>6, <3>3, <3>4 DEF L
    <3>8. IsFiniteSet(Y) /\ Cardinality(Y) \in Nat /\ ~(Cardinality(Y) <= n)
      BY <1>7, <1>9, <3>3 DEF CountWorkingDaysInRange
    <3> HIDE DEF Y
    <3>9. Cardinality(Y \ {y}) = Cardinality(Y) - 1
      BY <3>7, <3>8, FS_RemoveElement
    <3>10. Cardinality(Y \ {y}) <= Cardinality(G)
      BY <1>4, <3>6, FS_Subset
    <3> QED
      BY <1>4, <1>10, <3>8, <3>9, <3>10
  <2> QED
    BY <2>2, <2>3
<1>12. G \subseteq WorkingDays /\ G \subseteq Dates
  BY <1>1, <1>2, <1>3
<1> QED
  BY <1>3, <1>4, <1>10, <1>11, <1>12 DEF G

(* The last of n working days is one of them, and is on or after the date   *)
(* they are counted from.                                                   *)
LEMMA Forward ==
  ASSUME NEW from \in Int, NEW n \in Nat \ {0}, Reaches(from, n)
  PROVE  LET G == GenerateWorkingDeliveryDates(from, n)
             e == AddWorkingDaysForward(from, n) IN
         /\ e \in G /\ e \in Dates /\ e >= from
         /\ \A d \in G : d <= e
<1> DEFINE G == GenerateWorkingDeliveryDates(from, n)
<1>1. /\ G \subseteq Dates /\ IsFiniteSet(G) /\ Cardinality(G) = n
      /\ \A d \in G : d >= from
  BY Generated
<1>2. AddWorkingDaysForward(from, n) = Max(G)
  BY DEF AddWorkingDaysForward
<1> HIDE DEF G
<1>3. G # {}
  BY <1>1, FS_EmptySet
<1>4. G \subseteq Int
  BY <1>1, DatesTyped
<1>5. Max(G) \in G /\ \A d \in G : d <= Max(G)
  BY <1>1, <1>3, <1>4, MaxIsMember
<1> QED
  BY <1>1, <1>2, <1>5 DEF G

(* One working day forward is that one day.                                 *)
LEMMA OneForward ==
  ASSUME NEW from \in Int, Reaches(from, 1)
  PROVE  GenerateWorkingDeliveryDates(from, 1) = {AddWorkingDaysForward(from, 1)}
<1>1. AddWorkingDaysForward(from, 1) \in GenerateWorkingDeliveryDates(from, 1)
  BY Forward
<1>2. IsFiniteSet(GenerateWorkingDeliveryDates(from, 1))
      /\ Cardinality(GenerateWorkingDeliveryDates(from, 1)) = 1
  BY Generated
<1> QED
  BY <1>1, <1>2, FS_Singleton

-----------------------------------------------------------------------------
(* Counting rows.                                                          *)

Of(f, ds, ss) == UNION { {p} \X (1 .. f[p]) : p \in ds \X ss }

(* A row is a pair of its date and status, and its number among their       *)
(* rows.                                                                    *)
LEMMA OfMembers ==
  ASSUME NEW f, NEW ds, NEW ss, NEW x
  PROVE  x \in Of(f, ds, ss) <=> \E p \in ds \X ss : \E i \in 1 .. f[p] : x = <<p, i>>
BY DEF Of

(* A table of delivery days is finite.                                      *)
LEMMA OfFinite ==
  ASSUME NEW f \in DeliveryDays, NEW ds \in SUBSET Dates, NEW ss \in SUBSET DayStatus
  PROVE  IsFiniteSet(Of(f, ds, ss)) /\ Cardinality(Of(f, ds, ss)) \in Nat
<1> DEFINE P == ds \X ss
           Rows(p) == {p} \X (1 .. f[p])
           S == { Rows(p) : p \in P }
           g == [p \in P |-> Rows(p)]
<1>1. IsFiniteSet(ds) /\ IsFiniteSet(ss)
  <2>1. IsFiniteSet(DayStatus)
    <3>1. IsFiniteSet({"scheduled"})
      BY FS_Singleton
    <3>2. IsFiniteSet({"scheduled"} \cup {"skipped"})
      BY <3>1, FS_AddElement
    <3>3. IsFiniteSet(({"scheduled"} \cup {"skipped"}) \cup {"delivered"})
      BY <3>2, FS_AddElement
    <3>4. IsFiniteSet((({"scheduled"} \cup {"skipped"}) \cup {"delivered"}) \cup {"paused"})
      BY <3>3, FS_AddElement
    <3>5. DayStatus = (({"scheduled"} \cup {"skipped"}) \cup {"delivered"}) \cup {"paused"}
      BY DEF DayStatus
    <3> QED
      BY <3>4, <3>5
  <2> QED
    BY <2>1, DatesTyped, FS_Subset
<1>2. IsFiniteSet(P)
  BY <1>1, FS_Product
<1>3. g \in Surjection(P, S)
  BY DEF Surjection
<1>4. IsFiniteSet(S)
  BY <1>2, <1>3, FS_Surjection
<1>5. ASSUME NEW p \in P PROVE IsFiniteSet(Rows(p))
  <2>1. f[p] \in Nat
    BY DEF DeliveryDays
  <2>2. IsFiniteSet(1 .. f[p])
    BY <2>1, FS_Interval
  <2>3. IsFiniteSet({p})
    BY FS_Singleton
  <2> QED
    BY <2>2, <2>3, FS_Product
<1>6. \A T \in S : IsFiniteSet(T)
  BY <1>5
<1>7. Of(f, ds, ss) = UNION S
  BY DEF Of
<1> HIDE DEF S
<1>8. IsFiniteSet(Of(f, ds, ss))
  BY <1>4, <1>6, <1>7, FS_UNION
<1> QED
  BY <1>8, FS_CardinalityType

(* Tables that agree on some statuses of some dates have the same rows      *)
(* there.                                                                   *)
LEMMA OfSame ==
  ASSUME NEW f \in DeliveryDays, NEW g \in DeliveryDays, NEW ds, NEW ss,
         \A d \in ds, s \in ss : f[<<d, s>>] = g[<<d, s>>]
  PROVE  Of(f, ds, ss) = Of(g, ds, ss)
<1>1. \A p \in ds \X ss : f[p] = g[p]
  OBVIOUS
<1> QED
  BY <1>1 DEF Of

(* A row more in one place is a row more.                                   *)
LEMMA OfGrows ==
  ASSUME NEW f \in DeliveryDays, NEW g \in DeliveryDays,
         NEW ds \in SUBSET Dates, NEW ss \in SUBSET DayStatus,
         NEW d \in ds, NEW s \in ss, g[<<d, s>>] = f[<<d, s>>] + 1,
         \A e \in ds, t \in ss : e # d \/ t # s => g[<<e, t>>] = f[<<e, t>>]
  PROVE  Cardinality(Of(g, ds, ss)) = Cardinality(Of(f, ds, ss)) + 1
<1> DEFINE q == <<d, s>>
           r == <<q, f[q] + 1>>
<1>1. q \in ds \X ss /\ f[q] \in Nat /\ g[q] = f[q] + 1
  BY DEF DeliveryDays
<1>2. \A p \in ds \X ss : p # q => g[p] = f[p]
  OBVIOUS
<1> HIDE DEF q
<1>3. 1 .. (f[q] + 1) = (1 .. f[q]) \cup {f[q] + 1} /\ f[q] + 1 \notin 1 .. f[q]
  BY <1>1
<1>4. ASSUME NEW x \in Of(g, ds, ss) PROVE x \in Of(f, ds, ss) \cup {r}
  <2>1. PICK p \in ds \X ss : \E i \in 1 .. g[p] : x = <<p, i>>
    BY OfMembers
  <2>2. PICK i \in 1 .. g[p] : x = <<p, i>>
    BY <2>1
  <2>3. CASE p = q
    <3>1. i \in 1 .. f[q] \/ i = f[q] + 1
      BY <1>1, <1>3, <2>2, <2>3
    <3> QED
      BY <1>1, <2>2, <2>3, <3>1, OfMembers
  <2>4. CASE p # q
    <3>1. i \in 1 .. f[p]
      BY <1>2, <2>2, <2>4
    <3> QED
      BY <2>2, <3>1, OfMembers
  <2> QED
    BY <2>3, <2>4
<1>5. ASSUME NEW x \in Of(f, ds, ss) PROVE x \in Of(g, ds, ss)
  <2>1. PICK p \in ds \X ss : \E i \in 1 .. f[p] : x = <<p, i>>
    BY OfMembers
  <2>2. PICK i \in 1 .. f[p] : x = <<p, i>>
    BY <2>1
  <2>3. i \in 1 .. g[p]
    BY <1>1, <1>2, <1>3, <2>2
  <2> QED
    BY <2>2, <2>3, OfMembers
<1>6. r \in Of(g, ds, ss)
  <2>1. f[q] + 1 \in 1 .. g[q]
    BY <1>1, <1>3
  <2> QED
    BY <1>1, <2>1, OfMembers
<1>7. r \notin Of(f, ds, ss)
  <2> SUFFICES ASSUME r \in Of(f, ds, ss) PROVE FALSE
    OBVIOUS
  <2>1. PICK p \in ds \X ss : \E i \in 1 .. f[p] : r = <<p, i>>
    BY OfMembers
  <2> QED
    BY <1>3, <2>1
<1>8. Of(g, ds, ss) = Of(f, ds, ss) \cup {r}
  BY <1>4, <1>5, <1>6
<1>9. IsFiniteSet(Of(f, ds, ss))
  BY OfFinite
<1> HIDE DEF r
<1>10. Cardinality(Of(f, ds, ss) \cup {r}) = Cardinality(Of(f, ds, ss)) + 1
  BY <1>7, <1>9, FS_AddElement
<1> QED
  BY <1>8, <1>10

-----------------------------------------------------------------------------
(* Types.                                                                  *)

(* The customer's commands run one after the other.                         *)
OneHandler == Handlers # {} /\ \A h, k \in Handlers : h = k

TypedSub(s) == s \in Subscription /\ (s.pausedFrom = 0 <=> s.pausedUntil = 0)

(* The days that have lapsed in a pause fit after the end of the plan.      *)
LapsedFit(v) ==
    /\ v.date \in Dates /\ v.until \in Dates /\ v.sub.pausedFrom # 0
    /\ Reaches(v.sub.endDate + 1, HowMany(v.sub.pausedFrom .. v.date - 1, {"paused"}))

(* What a command has read, and what of the rows it relies on.              *)
LocalHolds(v) ==
    /\ v \in Local /\ TypedSub(v.sub)
    /\ v.cmd = "none" <=> v.pc = "idle"
    /\ v.cmd = "skip" => v.date \in Dates /\ v.sub.endDate > v.date
    /\ v.cmd = "undo" => v.date \in Dates /\ RowsAt(v.date) # {}
    /\ v.cmd \in {"pause", "cancelPause"} =>
           v.pc \in {"days", "save"} /\ v.date \in Dates /\ v.until \in Dates
    /\ v.cmd = "resume" /\ v.pc # "save" => LapsedFit(v)
    /\ v.cmd = "promote" => upgrade # NoPlan /\ v.sub.plan = upgrade

BoundsTyped ==
    /\ makeups \in [Dates -> Dates \cup {0}]
    /\ \A d \in Dates : makeups[d] # 0 => makeups[d] > d
    /\ left \in 0 .. MaxCommands

(* An upgrade is to a dearer plan.                                          *)
PlansTyped ==
    /\ TypedSub(sub)
    /\ upgrade \in PlanSet \cup {NoPlan}
    /\ upgrade # NoPlan => Tier(upgrade) > Tier(sub.plan)

LocalsTyped == my \in [Handlers -> Local] /\ \A h \in Handlers : LocalHolds(my[h])

TypeInv == DeliveriesInv /\ BoundsTyped /\ PlansTyped /\ LocalsTyped

(* The columns of a subscription.                                           *)
LEMMA SubFields ==
  ASSUME NEW s \in Subscription
  PROVE  /\ s.plan \in PlanSet /\ s.status \in SubscriptionStatus
         /\ s.totalMealDays \in Nat /\ s.skippedCount \in Nat /\ s.flexUsed \in Nat
         /\ s.endDate \in Dates
         /\ s.pausedFrom \in Dates \cup {0} /\ s.pausedUntil \in Dates \cup {0}
BY DEF Subscription

(* Looking at a plan changes nothing of it but its status.                  *)
LEMMA Ensured ==
  ASSUME NEW s, TypedSub(s)
  PROVE  LET e == EnsurePauseStatus(s) IN
         /\ TypedSub(e)
         /\ e.plan = s.plan /\ e.totalMealDays = s.totalMealDays
         /\ e.skippedCount = s.skippedCount /\ e.flexUsed = s.flexUsed
         /\ e.endDate = s.endDate
         /\ e.pausedFrom = s.pausedFrom /\ e.pausedUntil = s.pausedUntil
         /\ e.status = "expired" <=> s.status = "expired"
<1> DEFINE a == [s EXCEPT !.status = "active"]
           p == [s EXCEPT !.status = "paused"]
<1>1. s \in Subscription
  BY DEF TypedSub
<1>2. /\ a \in Subscription /\ a.status = "active"
      /\ a.plan = s.plan /\ a.totalMealDays = s.totalMealDays
      /\ a.skippedCount = s.skippedCount /\ a.flexUsed = s.flexUsed /\ a.endDate = s.endDate
      /\ a.pausedFrom = s.pausedFrom /\ a.pausedUntil = s.pausedUntil
  BY <1>1 DEF Subscription, SubscriptionStatus
<1>3. /\ p \in Subscription /\ p.status = "paused"
      /\ p.plan = s.plan /\ p.totalMealDays = s.totalMealDays
      /\ p.skippedCount = s.skippedCount /\ p.flexUsed = s.flexUsed /\ p.endDate = s.endDate
      /\ p.pausedFrom = s.pausedFrom /\ p.pausedUntil = s.pausedUntil
  BY <1>1 DEF Subscription, SubscriptionStatus
<1>4. \/ EnsurePauseStatus(s) = s
      \/ s.status = "paused" /\ EnsurePauseStatus(s) = a
      \/ s.status = "active" /\ EnsurePauseStatus(s) = p
  BY DEF EnsurePauseStatus
<1> HIDE DEF a, p
<1>5. TypedSub(a) /\ TypedSub(p)
  BY <1>2, <1>3 DEF TypedSub
<1> QED
  BY <1>2, <1>3, <1>4, <1>5

(* The greater of two numbers is one of them.                               *)
LEMMA MaxOfTwo ==
  ASSUME NEW a \in Int, NEW b \in Int
  PROVE  Max({a, b}) \in {a, b} /\ Max({a, b}) >= a /\ Max({a, b}) >= b
<1>1. IsFiniteSet({a}) /\ {a, b} = {a} \cup {b}
  BY FS_Singleton
<1>2. IsFiniteSet({a, b})
  BY <1>1, FS_AddElement
<1>3. {a, b} \in SUBSET Int /\ {a, b} # {}
  OBVIOUS
<1> QED
  BY <1>2, <1>3, MaxIsMember

(* A refund takes off what it is asked to and never goes below zero.        *)
LEMMA RefundTyped ==
  ASSUME NEW n \in Nat, NEW k \in Nat
  PROVE  Refund(n, k) \in Nat /\ Refund(n, k) <= n /\ n <= Refund(n, k) + k
BY DEF Refund

(* The number of rows, now and after a step.                                *)
LEMMA HowManyOf ==
  ASSUME NEW ds, NEW ss
  PROVE  /\ HowMany(ds, ss) = Cardinality(Of(rows, ds, ss))
         /\ HowMany(ds, ss)' = Cardinality(Of(rows', ds, ss))
BY DEF HowMany, RowsOf, Of

(* It is a natural number.                                                  *)
LEMMA HowManyTyped ==
  ASSUME rows \in DeliveryDays, NEW ds \in SUBSET Dates, NEW ss \in SUBSET DayStatus
  PROVE  HowMany(ds, ss) \in Nat
<1>1. PICK f \in DeliveryDays : f = rows
  OBVIOUS
<1>2. Cardinality(Of(f, ds, ss)) \in Nat
  BY OfFinite
<1> QED
  BY <1>1, <1>2, HowManyOf

(* It does not change when no row of those statuses does.                   *)
LEMMA HowManySame ==
  ASSUME rows \in DeliveryDays, rows' \in DeliveryDays, NEW ds, NEW ss,
         \A d \in ds, s \in ss : rows'[<<d, s>>] = rows[<<d, s>>]
  PROVE  HowMany(ds, ss)' = HowMany(ds, ss)
<1>1. PICK f \in DeliveryDays : f = rows
  OBVIOUS
<1>2. PICK g \in DeliveryDays : g = rows'
  OBVIOUS
<1>3. Of(f, ds, ss) = Of(g, ds, ss)
  BY <1>1, <1>2, OfSame
<1> QED
  BY <1>1, <1>2, <1>3, HowManyOf

(* It does not grow when no row of those statuses is added.                 *)
LEMMA HowManyShrinks ==
  ASSUME rows \in DeliveryDays, rows' \in DeliveryDays,
         NEW ds \in SUBSET Dates, NEW ss \in SUBSET DayStatus,
         \A d \in ds, s \in ss : rows'[<<d, s>>] <= rows[<<d, s>>]
  PROVE  /\ HowMany(ds, ss) \in Nat /\ HowMany(ds, ss)' \in Nat
         /\ HowMany(ds, ss)' <= HowMany(ds, ss)
<1>1. PICK f \in DeliveryDays : f = rows
  OBVIOUS
<1>2. PICK g \in DeliveryDays : g = rows'
  OBVIOUS
<1>3. ASSUME NEW p \in ds \X ss PROVE {p} \X (1 .. g[p]) \subseteq {p} \X (1 .. f[p])
  <2>1. f[p] \in Nat /\ g[p] \in Nat /\ g[p] <= f[p]
    BY <1>1, <1>2 DEF DeliveryDays
  <2>2. 1 .. g[p] \subseteq 1 .. f[p]
    BY <2>1
  <2> QED
    BY <2>2
<1>4. Of(g, ds, ss) \subseteq Of(f, ds, ss)
  BY <1>3 DEF Of
<1>5. IsFiniteSet(Of(f, ds, ss)) /\ Cardinality(Of(f, ds, ss)) \in Nat
      /\ Cardinality(Of(g, ds, ss)) \in Nat
  BY OfFinite
<1>6. Cardinality(Of(g, ds, ss)) <= Cardinality(Of(f, ds, ss))
  BY <1>4, <1>5, FS_Subset
<1> QED
  BY <1>1, <1>2, <1>5, <1>6, HowManyOf

(* It follows the one row that changes.                                     *)
LEMMA HowManyGrows ==
  ASSUME rows \in DeliveryDays, rows' \in DeliveryDays,
         NEW ds \in SUBSET Dates, NEW ss \in SUBSET DayStatus, NEW d \in ds, NEW s \in ss,
         \A e \in ds, t \in ss : e # d \/ t # s => rows'[<<e, t>>] = rows[<<e, t>>]
  PROVE  /\ rows'[<<d, s>>] = rows[<<d, s>>] + 1 => HowMany(ds, ss)' = HowMany(ds, ss) + 1
         /\ rows[<<d, s>>] = rows'[<<d, s>>] + 1 => HowMany(ds, ss)' = HowMany(ds, ss) - 1
<1>1. PICK f \in DeliveryDays : f = rows
  OBVIOUS
<1>2. PICK g \in DeliveryDays : g = rows'
  OBVIOUS
<1>3. Cardinality(Of(f, ds, ss)) \in Nat /\ Cardinality(Of(g, ds, ss)) \in Nat
  BY OfFinite
<1>4. g[<<d, s>>] = f[<<d, s>>] + 1
      => Cardinality(Of(g, ds, ss)) = Cardinality(Of(f, ds, ss)) + 1
  BY <1>1, <1>2, OfGrows
<1>5. f[<<d, s>>] = g[<<d, s>>] + 1
      => Cardinality(Of(f, ds, ss)) = Cardinality(Of(g, ds, ss)) + 1
  <2>1. \A e \in ds, t \in ss : e # d \/ t # s => f[<<e, t>>] = g[<<e, t>>]
    BY <1>1, <1>2
  <2> QED
    BY <2>1, OfGrows
<1> QED
  BY <1>1, <1>2, <1>3, <1>4, <1>5, HowManyOf

(* The columns a command saves are those it has read, the others stay.      *)
LEMMA Saved ==
  ASSUME NEW s \in Subscription, NEW w \in Subscription, NEW columns, NEW t,
         t = [f \in DOMAIN s |-> IF f \in columns THEN w[f] ELSE s[f]]
  PROVE  /\ t \in Subscription
         /\ t.plan = IF "plan" \in columns THEN w.plan ELSE s.plan
         /\ t.status = IF "status" \in columns THEN w.status ELSE s.status
         /\ t.endDate = IF "endDate" \in columns THEN w.endDate ELSE s.endDate
         /\ t.flexUsed = IF "flexUsed" \in columns THEN w.flexUsed ELSE s.flexUsed
         /\ t.pausedFrom = IF "pausedFrom" \in columns THEN w.pausedFrom ELSE s.pausedFrom
         /\ t.pausedUntil = IF "pausedUntil" \in columns THEN w.pausedUntil
                            ELSE s.pausedUntil
BY DEF Subscription

(* There is a cheapest plan, which a new customer has bought.               *)
LEMMA FirstPlan == Plans[1] \in PlanSet /\ 1 \in DOMAIN Plans
<1>1. Plans \in Seq(PlanSet) /\ Len(Plans) > 0
  BY SubscriptionAssumption
<1>2. 1 \in 1 .. Len(Plans)
  BY <1>1
<1> QED
  BY <1>1, <1>2

(* A handler at rest is typed.                                              *)
LEMMA RestingTyped ==
  /\ Resting \in Local /\ TypedSub(Resting.sub) /\ Resting.cmd = "none" /\ Resting.pc = "idle"
<1> DEFINE s == [plan |-> Plans[1], status |-> "active", totalMealDays |-> 0,
                 skippedCount |-> 0, endDate |-> StartDate, flexUsed |-> 0,
                 pausedFrom |-> 0, pausedUntil |-> 0]
<1>1. s \in Subscription /\ s.pausedFrom = 0 /\ s.pausedUntil = 0
  BY FirstPlan, SubscriptionAssumption DEF Subscription, SubscriptionStatus
<1> HIDE DEF s
<1>2. Resting = [cmd |-> "none", pc |-> "idle", sub |-> s, date |-> 0, until |-> 0,
                 aged |-> FALSE]
  BY DEF Resting, s
<1>3. Resting \in Local /\ Resting.sub = s /\ Resting.cmd = "none" /\ Resting.pc = "idle"
  BY <1>1, <1>2 DEF Local, Steps
<1> QED
  BY <1>1, <1>3 DEF TypedSub

(* With one handler, its record is the one to look at after a step.         *)
LEMMA OneTyped ==
  ASSUME OneHandler, LocalsTyped, NEW h \in Handlers, NEW v,
         my' = [my EXCEPT ![h] = v], LocalHolds(v)'
  PROVE  LocalsTyped'
<1>1. my \in [Handlers -> Local] /\ v \in Local
  BY DEF LocalsTyped, LocalHolds
<1>2. my' \in [Handlers -> Local] /\ my'[h] = v
  BY <1>1
<1>3. \A k \in Handlers : my'[k] = v
  BY <1>2 DEF OneHandler
<1> HIDE DEF LocalHolds
<1>4. \A k \in Handlers : LocalHolds(my[k])'
  BY <1>3 DEF LocalHolds, TypedSub, LapsedFit
<1> QED
  BY <1>2, <1>4 DEF LocalsTyped

(* A command that begins is typed when what it means to save is.            *)
LEMMA StartTyped ==
  ASSUME OneHandler, TypeInv, NEW h \in Handlers,
         NEW cmd, NEW pc, NEW s, NEW w, NEW d, NEW u, NEW v,
         Start(h, cmd, pc, s, w, d, u), TypedSub(s), s.plan = sub.plan,
         v = [cmd |-> cmd, pc |-> pc, sub |-> w, date |-> d, until |-> u, aged |-> FALSE],
         LocalHolds(v)
  PROVE  BoundsTyped' /\ PlansTyped' /\ LocalsTyped'
<1>1. /\ left > 0 /\ left' = left - 1 /\ sub' = s /\ my' = [my EXCEPT ![h] = v]
      /\ UNCHANGED <<now, rows, makeups, upgrade>>
  BY DEF Start, MayBegin
<1>2. BoundsTyped'
  BY <1>1, SubscriptionAssumption DEF TypeInv, BoundsTyped
<1>3. PlansTyped'
  BY <1>1 DEF TypeInv, PlansTyped, TypedSub
<1>4. LocalHolds(v)'
  BY <1>1 DEF LocalHolds, TypedSub, LapsedFit, HowMany, RowsOf, RowsAt
<1>5. LocalsTyped'
  BY <1>1, <1>4, OneTyped DEF TypeInv
<1> QED
  BY <1>2, <1>3, <1>5

(* A command stays typed as it goes on.                                     *)
LEMMA GotoTyped ==
  ASSUME OneHandler, TypeInv, NEW h \in Handlers, NEW pc, NEW w, NEW o, NEW v,
         Goto(h, pc, w), o = my[h],
         v = [cmd |-> o.cmd, pc |-> pc, sub |-> w, date |-> o.date, until |-> o.until,
              aged |-> o.aged],
         LocalHolds(v)'
  PROVE  BoundsTyped' /\ PlansTyped' /\ LocalsTyped'
<1>1. UNCHANGED <<now, sub, makeups, upgrade, left>>
      /\ my' = [my EXCEPT ![h] = [o EXCEPT !.pc = pc, !.sub = w]]
  BY DEF Goto
<1>2. IsLocal(o)
  BY DEF TypeInv, DeliveriesInv
<1>3. [o EXCEPT !.pc = pc, !.sub = w] = v
  <2>1. [o EXCEPT !.pc = pc] = [cmd |-> o.cmd, pc |-> pc, sub |-> o.sub, date |-> o.date,
                                until |-> o.until, aged |-> o.aged]
    BY <1>2 DEF IsLocal
  <2>2. [[cmd |-> o.cmd, pc |-> pc, sub |-> o.sub, date |-> o.date, until |-> o.until,
          aged |-> o.aged] EXCEPT !.sub = w] = v
    OBVIOUS
  <2> QED
    BY <2>1, <2>2
<1>4. BoundsTyped' /\ PlansTyped'
  BY <1>1 DEF TypeInv, BoundsTyped, PlansTyped, TypedSub
<1>5. LocalsTyped'
  BY <1>1, <1>3, OneTyped DEF TypeInv
<1> QED
  BY <1>4, <1>5

(* A handler that has saved is at rest.                                     *)
LEMMA SaveTyped ==
  ASSUME OneHandler, TypeInv, NEW h \in Handlers, my' = [my EXCEPT ![h] = Resting]
  PROVE  LocalsTyped'
<1>1. PICK v : v = Resting
  OBVIOUS
<1>2. v \in Local /\ TypedSub(v.sub) /\ v.cmd = "none" /\ v.pc = "idle"
  BY <1>1, RestingTyped
<1>3. LocalHolds(v)'
  BY <1>2 DEF LocalHolds, TypedSub
<1> QED
  BY <1>1, <1>3, OneTyped DEF TypeInv

(* What a handler has read, in the words of the steps that use it.          *)
LEMMA ReadTyped ==
  ASSUME TypeInv, NEW h \in Handlers, NEW o, o = my[h]
  PROVE  /\ o \in Local /\ o.sub \in Subscription /\ LocalHolds(o) /\ IsLocal(o)
         /\ o.date \in Dates \cup {0} /\ o.until \in Dates \cup {0} /\ o.aged \in BOOLEAN
         /\ sub \in Subscription /\ rows \in DeliveryDays
<1>1. LocalHolds(o) /\ IsLocal(o) /\ rows \in DeliveryDays /\ sub \in Subscription
  BY DEF TypeInv, LocalsTyped, DeliveriesInv, PlansTyped, TypedSub
<1>2. o \in Local /\ o.sub \in Subscription
  BY <1>1 DEF LocalHolds, TypedSub
<1> QED
  BY <1>1, <1>2 DEF Local

(* What every command means to save when it begins is typed.                *)
LEMMA BeginTyped ==
  ASSUME OneHandler, TypeInv, NEW h \in Handlers, Begin(h)
  PROVE  BoundsTyped' /\ PlansTyped' /\ LocalsTyped'
<1>1. TypedSub(sub) /\ rows \in DeliveryDays
  BY DEF TypeInv, PlansTyped, DeliveriesInv
<1>2. PICK s : s = EnsurePauseStatus(sub)
  OBVIOUS
<1>3. /\ s \in Subscription /\ TypedSub(s) /\ s.plan = sub.plan
      /\ s.pausedFrom = 0 <=> s.pausedUntil = 0
  <2>1. PICK r : r = sub
    OBVIOUS
  <2>2. TypedSub(r) /\ s = EnsurePauseStatus(r)
    BY <1>1, <1>2, <2>1 DEF EnsurePauseStatus, TypedSub, HasPause, IsAfterSkipCutoff
  <2> QED
    BY <2>1, <2>2, Ensured DEF TypedSub
<1>4. /\ s.plan \in PlanSet /\ s.status \in SubscriptionStatus
      /\ s.totalMealDays \in Nat /\ s.skippedCount \in Nat /\ s.flexUsed \in Nat
      /\ s.endDate \in Dates /\ s.endDate \in Nat
      /\ s.pausedFrom \in Dates \cup {0} /\ s.pausedUntil \in Dates \cup {0}
      /\ Dates \subseteq Nat
  BY <1>3, SubFields, DatesTyped
<1>5. ASSUME NEW d \in Dates, BeginSkip(h, d)
      PROVE  BoundsTyped' /\ PlansTyped' /\ LocalsTyped'
  <2>1. PICK m : m = MakeupAnchor(s, d)
    OBVIOUS
  <2>2. m \in Int /\ m > s.endDate /\ m > d
    <3>1. s.endDate \in Int /\ d \in Int
      BY <1>4
    <3>2. PICK x : x = Max({s.endDate, d})
      OBVIOUS
    <3>3. x \in {s.endDate, d} /\ x >= s.endDate /\ x >= d
      BY <3>1, <3>2, MaxOfTwo
    <3>4. m = x + 1
      BY <2>1, <3>2 DEF MakeupAnchor
    <3> QED
      BY <3>1, <3>3, <3>4
  <2>3. PICK e : e = AddWorkingDaysForward(m, 1)
    OBVIOUS
  <2>4. Reaches(m, 1)
    BY <1>2, <1>5, <2>1 DEF BeginSkip
  <2>5. e \in Dates /\ e >= m
    BY <2>2, <2>3, <2>4, Forward
  <2>6. PICK w : w = [s EXCEPT !.flexUsed = @ + 1, !.skippedCount = @ + 1,
                               !.totalMealDays = @ + 1, !.endDate = e]
    OBVIOUS
  <2>7. /\ w \in Subscription /\ w.endDate = e
        /\ w.pausedFrom = s.pausedFrom /\ w.pausedUntil = s.pausedUntil
    <3>1. PICK a \in Nat, b \in Nat, c \in Nat :
              a = s.flexUsed + 1 /\ b = s.skippedCount + 1 /\ c = s.totalMealDays + 1
      BY <1>4
    <3>2. w = [s EXCEPT !.flexUsed = a, !.skippedCount = b, !.totalMealDays = c,
                        !.endDate = e]
      BY <2>6, <3>1
    <3> QED
      BY <1>3, <2>5, <3>1, <3>2 DEF Subscription
  <2>8. Start(h, "skip", "days", s, w, d, 0)
    BY <1>2, <1>5, <2>1, <2>3, <2>6 DEF BeginSkip
  <2>9. PICK v : v = [cmd |-> "skip", pc |-> "days", sub |-> w, date |-> d, until |-> 0,
                      aged |-> FALSE]
    OBVIOUS
  <2>10. v \in Local /\ v.cmd = "skip" /\ v.pc = "days" /\ v.sub = w /\ v.date = d
    BY <2>7, <2>9 DEF Local, Commands, Steps
  <2>11. w.endDate > d
    BY <1>4, <2>2, <2>5, <2>7
  <2>12. LocalHolds(v)
    BY <1>3, <2>7, <2>10, <2>11 DEF LocalHolds, TypedSub
  <2> QED
    BY <1>3, <2>8, <2>9, <2>12, StartTyped
<1>6. ASSUME NEW d \in Dates, BeginUndo(h, d)
      PROVE  BoundsTyped' /\ PlansTyped' /\ LocalsTyped'
  <2>1. PICK w : w = [s EXCEPT !.flexUsed = Refund(@, 1), !.skippedCount = Refund(@, 1)]
    OBVIOUS
  <2>2. /\ w \in Subscription
        /\ w.pausedFrom = s.pausedFrom /\ w.pausedUntil = s.pausedUntil
    BY <1>3, <1>4, <2>1, RefundTyped DEF Subscription
  <2>3. Start(h, "undo", "days", s, w, d, 0) /\ RowsAt(d) # {}
    BY <1>2, <1>6, <2>1 DEF BeginUndo, MayUndo
  <2>4. PICK v : v = [cmd |-> "undo", pc |-> "days", sub |-> w, date |-> d, until |-> 0,
                      aged |-> FALSE]
    OBVIOUS
  <2>5. v \in Local /\ v.cmd = "undo" /\ v.pc = "days" /\ v.sub = w /\ v.date = d
    BY <2>2, <2>4 DEF Local, Commands, Steps
  <2>6. LocalHolds(v)
    BY <1>3, <2>2, <2>3, <2>5 DEF LocalHolds, TypedSub
  <2> QED
    BY <1>3, <2>3, <2>4, <2>6, StartTyped
<1>7. ASSUME NEW r \in Dates, BeginResume(h, r)
      PROVE  BoundsTyped' /\ PlansTyped' /\ LocalsTyped'
  <2>1. PICK n \in Nat : n = CountWorkingDaysInRange(r, s.pausedUntil)
    BY CountTyped
  <2>2. PICK w : w = [s EXCEPT !.flexUsed = Refund(@, n)]
    OBVIOUS
  <2>3. /\ w \in Subscription /\ w.endDate = s.endDate
        /\ w.pausedFrom = s.pausedFrom /\ w.pausedUntil = s.pausedUntil
    BY <1>3, <1>4, <2>2, RefundTyped DEF Subscription
  <2>4. /\ Start(h, "resume", "days", s, w, r, s.pausedUntil)
        /\ s.pausedFrom # 0 /\ s.pausedUntil # 0
        /\ Reaches(s.endDate + 1, HowMany(s.pausedFrom .. r - 1, {"paused"}))
    BY <1>2, <1>3, <1>7, <2>1, <2>2 DEF BeginResume, MayResume, HasPause
  <2>5. PICK v : v = [cmd |-> "resume", pc |-> "days", sub |-> w, date |-> r,
                      until |-> s.pausedUntil, aged |-> FALSE]
    OBVIOUS
  <2>6. /\ v \in Local /\ v.cmd = "resume" /\ v.pc = "days" /\ v.sub = w /\ v.date = r
        /\ v.until = s.pausedUntil
    BY <1>4, <2>3, <2>5 DEF Local, Commands, Steps
  <2>7. LapsedFit(v)
    BY <1>4, <2>3, <2>4, <2>6 DEF LapsedFit
  <2>8. LocalHolds(v)
    BY <1>3, <2>3, <2>6, <2>7 DEF LocalHolds, TypedSub
  <2> QED
    BY <1>3, <2>4, <2>5, <2>8, StartTyped
<1>8. ASSUME NEW from \in Dates, NEW u \in Dates, BeginPause(h, from, u)
      PROVE  BoundsTyped' /\ PlansTyped' /\ LocalsTyped'
  <2>1. PICK n \in Nat : n = CountWorkingDaysInRange(from, u)
    BY CountTyped
  <2>2. PICK w : w = [s EXCEPT !.pausedFrom = from, !.pausedUntil = u, !.flexUsed = @ + n]
    OBVIOUS
  <2>3. w \in Subscription /\ w.pausedFrom = from /\ w.pausedUntil = u
    <3>1. PICK a \in Nat : a = s.flexUsed + n
      BY <1>4
    <3>2. w = [s EXCEPT !.pausedFrom = from, !.pausedUntil = u, !.flexUsed = a]
      BY <2>2, <3>1
    <3> QED
      BY <1>3, <3>1, <3>2 DEF Subscription
  <2>4. Start(h, "pause", "days", s, w, from, u)
    BY <1>2, <1>8, <2>1, <2>2 DEF BeginPause
  <2>5. PICK v : v = [cmd |-> "pause", pc |-> "days", sub |-> w, date |-> from, until |-> u,
                      aged |-> FALSE]
    OBVIOUS
  <2>6. /\ v \in Local /\ v.cmd = "pause" /\ v.pc = "days" /\ v.sub = w /\ v.date = from
        /\ v.until = u
    BY <2>3, <2>5 DEF Local, Commands, Steps
  <2>7. from # 0 /\ u # 0
    BY DatesTyped
  <2>8. LocalHolds(v)
    BY <2>3, <2>6, <2>7 DEF LocalHolds, TypedSub
  <2> QED
    BY <1>3, <2>4, <2>5, <2>8, StartTyped
<1>9. CASE BeginCancelPause(h)
  <2>1. PICK n \in Nat : n = CountWorkingDaysInRange(s.pausedFrom, s.pausedUntil)
    BY CountTyped
  <2>2. PICK w : w = WithoutPause(s, "active", n)
    OBVIOUS
  <2>3. w \in Subscription /\ w.pausedFrom = 0 /\ w.pausedUntil = 0
    BY <1>3, <1>4, <2>2, RefundTyped DEF Subscription, SubscriptionStatus, WithoutPause
  <2>4. /\ Start(h, "cancelPause", "days", s, w, s.pausedFrom, s.pausedUntil)
        /\ s.pausedFrom \in Dates /\ s.pausedUntil \in Dates
    BY <1>2, <1>3, <1>4, <1>9, <2>1, <2>2 DEF BeginCancelPause, MayCancelPause, HasPause
  <2>5. PICK v : v = [cmd |-> "cancelPause", pc |-> "days", sub |-> w,
                      date |-> s.pausedFrom, until |-> s.pausedUntil, aged |-> FALSE]
    OBVIOUS
  <2>6. /\ v \in Local /\ v.cmd = "cancelPause" /\ v.pc = "days" /\ v.sub = w
        /\ v.date = s.pausedFrom /\ v.until = s.pausedUntil
    BY <2>3, <2>4, <2>5 DEF Local, Commands, Steps
  <2>7. LocalHolds(v)
    BY <2>3, <2>4, <2>6 DEF LocalHolds, TypedSub
  <2> QED
    BY <1>3, <2>4, <2>5, <2>7, StartTyped
<1>10. ASSUME NEW cmd \in {"cancel", "resubscribe"}, NEW status \in SubscriptionStatus,
              NEW r, r = sub, Start(h, cmd, "save", r, [r EXCEPT !.status = status], 0, 0)
       PROVE  BoundsTyped' /\ PlansTyped' /\ LocalsTyped'
  <2>1. r \in Subscription /\ TypedSub(r) /\ (r.pausedFrom = 0 <=> r.pausedUntil = 0)
    BY <1>1, <1>10 DEF TypedSub
  <2>2. PICK w : w = [r EXCEPT !.status = status]
    OBVIOUS
  <2>3. w \in Subscription /\ w.pausedFrom = r.pausedFrom /\ w.pausedUntil = r.pausedUntil
    BY <2>1, <2>2 DEF Subscription
  <2>4. PICK v : v = [cmd |-> cmd, pc |-> "save", sub |-> w, date |-> 0, until |-> 0,
                      aged |-> FALSE]
    OBVIOUS
  <2>5. v \in Local /\ v.cmd = cmd /\ v.pc = "save" /\ v.sub = w
    BY <1>10, <2>3, <2>4 DEF Local, Commands, Steps
  <2>6. LocalHolds(v)
    BY <1>10, <2>1, <2>3, <2>5 DEF LocalHolds, TypedSub
  <2> QED
    BY <1>1, <1>10, <2>1, <2>2, <2>4, <2>6, StartTyped
<1>11. CASE BeginCancel(h)
  <2>1. PICK r : r = sub
    OBVIOUS
  <2> QED
    BY <1>10, <1>11, <2>1 DEF BeginCancel, SubscriptionStatus
<1>12. CASE BeginResubscribe(h)
  <2>1. PICK r : r = sub
    OBVIOUS
  <2> QED
    BY <1>10, <1>12, <2>1 DEF BeginResubscribe, SubscriptionStatus
<1> QED
  BY <1>5, <1>6, <1>7, <1>8, <1>9, <1>11, <1>12 DEF Begin

(* A statement that writes rows leaves what its command relies on.          *)
LEMMA MovesTyped ==
  ASSUME OneHandler, TypeInv, NEW h \in Handlers, NEW pc \in Steps \ {"idle"}, NEW w,
         NEW o, o = my[h], o.cmd # "none", Goto(h, pc, w), TypedSub(w),
         rows' \in DeliveryDays,
         o.cmd = "skip" => w.endDate = o.sub.endDate,
         o.cmd = "undo" => RowsAt(o.date)' # {},
         o.cmd \in {"pause", "cancelPause"} => pc = "save",
         o.cmd = "resume" /\ pc # "save" =>
             /\ o.pc # "save" /\ w.endDate = o.sub.endDate /\ w.pausedFrom = o.sub.pausedFrom
             /\ \A d \in Dates : d < o.date => rows'[<<d, "paused">>] = rows[<<d, "paused">>],
         o.cmd = "promote" => w.plan = o.sub.plan
  PROVE  BoundsTyped' /\ PlansTyped' /\ LocalsTyped'
<1>1. /\ o \in Local /\ LocalHolds(o) /\ IsLocal(o) /\ rows \in DeliveryDays
      /\ o.sub \in Subscription /\ o.date \in Dates \cup {0} /\ o.until \in Dates \cup {0}
      /\ o.aged \in BOOLEAN
  BY ReadTyped
<1>2. o.cmd \in Commands
  BY <1>1 DEF Local
<1>3. PICK v : v = [cmd |-> o.cmd, pc |-> pc, sub |-> w, date |-> o.date,
                    until |-> o.until, aged |-> o.aged]
  OBVIOUS
<1>4. /\ v.cmd = o.cmd /\ v.pc = pc /\ v.sub = w /\ v.date = o.date /\ v.until = o.until
      /\ v \in Local
  BY <1>1, <1>2, <1>3 DEF Local, TypedSub
<1>5. upgrade' = upgrade
  BY DEF Goto
<1>6. v.cmd = "resume" /\ v.pc # "save" => LapsedFit(v)'
  <2> SUFFICES ASSUME v.cmd = "resume", v.pc # "save" PROVE LapsedFit(v)'
    OBVIOUS
  <2>1. LapsedFit(o)
    BY <1>1, <1>4 DEF LocalHolds
  <2>2. PICK ds : ds = o.sub.pausedFrom .. o.date - 1
    OBVIOUS
  <2>3. o.sub.pausedFrom \in Dates /\ o.date \in Dates /\ Dates \subseteq Nat \ {0}
    BY <1>1, <2>1, SubFields, DatesTyped DEF LapsedFit
  <2>4. ds \in SUBSET Dates /\ \A d \in ds : d < o.date
    BY <2>2, <2>3, DatesTyped DEF Dates
  <2>5. "paused" \in DayStatus /\ {"paused"} \in SUBSET DayStatus
    BY DEF DayStatus
  <2>6. \A d \in ds, s \in {"paused"} : rows'[<<d, s>>] = rows[<<d, s>>]
    BY <1>4, <2>4
  <2>7. HowMany(ds, {"paused"})' = HowMany(ds, {"paused"})
    BY <1>1, <2>6, HowManySame
  <2>8. Reaches(o.sub.endDate + 1, HowMany(ds, {"paused"}))
    BY <2>1, <2>2 DEF LapsedFit
  <2>9. v.sub.pausedFrom = o.sub.pausedFrom /\ v.sub.endDate = o.sub.endDate
    BY <1>4
  <2>10. Reaches(v.sub.endDate + 1, HowMany(v.sub.pausedFrom .. v.date - 1, {"paused"})')
    BY <1>4, <2>2, <2>7, <2>8, <2>9
  <2>11. v.date \in Dates /\ v.until \in Dates /\ v.sub.pausedFrom # 0
    BY <1>4, <2>1, <2>9 DEF LapsedFit
  <2> QED
    BY <2>10, <2>11 DEF LapsedFit
<1>7. v.cmd = "undo" => v.date \in Dates /\ RowsAt(v.date)' # {}
  BY <1>1, <1>4 DEF LocalHolds, RowsAt
<1>8. v.cmd = "skip" => v.date \in Dates /\ v.sub.endDate > v.date
  BY <1>1, <1>4 DEF LocalHolds
<1>9. v.cmd \in {"pause", "cancelPause"} =>
          v.pc \in {"days", "save"} /\ v.date \in Dates /\ v.until \in Dates
  BY <1>1, <1>4 DEF LocalHolds
<1>10. v.cmd = "promote" => upgrade' # NoPlan /\ v.sub.plan = upgrade'
  BY <1>1, <1>4, <1>5 DEF LocalHolds
<1>11. LocalHolds(v)'
  BY <1>4, <1>6, <1>7, <1>8, <1>9, <1>10 DEF LocalHolds, TypedSub
<1> QED
  BY <1>3, <1>11, GotoTyped

(* Saving columns leaves a plan of the kind it was.                         *)
LEMMA ColumnsTyped ==
  ASSUME OneHandler, TypeInv, NEW h \in Handlers,
         NEW columns \in {SkipColumns, PauseColumns, PauseColumns \cup {"endDate"},
                          {"status"}},
         UpdateSubscription(h, columns), upgrade' = upgrade
  PROVE  PlansTyped' /\ LocalsTyped' /\ left' = left
<1>1. PICK o : o = my[h]
  OBVIOUS
<1>2. PICK s : s = sub
  OBVIOUS
<1>3. PICK w : w = o.sub
  OBVIOUS
<1>4. /\ w \in Subscription /\ LocalHolds(o) /\ s \in Subscription /\ TypedSub(w)
      /\ TypedSub(s)
  BY <1>1, <1>2, <1>3, ReadTyped DEF LocalHolds, TypeInv, PlansTyped
<1>5. PICK t : t = sub'
  OBVIOUS
<1>6. t = [f \in DOMAIN s |-> IF f \in columns THEN w[f] ELSE s[f]]
      /\ my' = [my EXCEPT ![h] = Resting] /\ left' = left
  BY <1>1, <1>2, <1>3, <1>5 DEF UpdateSubscription
<1>7. /\ t \in Subscription
      /\ t.plan = IF "plan" \in columns THEN w.plan ELSE s.plan
      /\ t.pausedFrom = IF "pausedFrom" \in columns THEN w.pausedFrom ELSE s.pausedFrom
      /\ t.pausedUntil = IF "pausedUntil" \in columns THEN w.pausedUntil ELSE s.pausedUntil
  BY <1>4, <1>6, Saved
<1>8. "plan" \notin columns /\ ("pausedFrom" \in columns <=> "pausedUntil" \in columns)
  BY DEF SkipColumns, PauseColumns
<1>9. TypedSub(t) /\ t.plan = s.plan
  BY <1>4, <1>7, <1>8 DEF TypedSub
<1>10. PlansTyped'
  BY <1>2, <1>5, <1>9 DEF TypeInv, PlansTyped, TypedSub
<1>11. LocalsTyped'
  BY <1>6, SaveTyped
<1> QED
  BY <1>6, <1>10, <1>11

(* The steps of a skip: the makeup day it logs is after the day skipped.    *)
LEMMA SkipTyped ==
  ASSUME OneHandler, TypeInv, NEW h \in Handlers,
         MarkSkipped(h) \/ AddMakeupDay(h) \/ SaveSkip(h)
  PROVE  BoundsTyped' /\ PlansTyped' /\ LocalsTyped'
<1>1. PICK o : o = my[h]
  OBVIOUS
<1>2. o.cmd = "skip"
  BY <1>1 DEF MarkSkipped, AddMakeupDay, SaveSkip, Busy
<1>3. /\ rows \in DeliveryDays /\ LocalHolds(o) /\ TypedSub(o.sub)
      /\ o.sub \in Subscription /\ o.date \in Dates /\ o.sub.endDate > o.date
      /\ o.sub.endDate \in Dates
  BY <1>1, <1>2, ReadTyped, SubFields DEF LocalHolds
<1>4. CASE MarkSkipped(h)
  <2>1. UpdateDeliveryDayStatus(o.date, "scheduled", "skipped") /\ Goto(h, "more", o.sub)
    BY <1>1, <1>4 DEF MarkSkipped
  <2>2. "scheduled" \in DayStatus /\ "skipped" \in DayStatus
    BY DEF DayStatus
  <2>3. rows' \in DeliveryDays
    BY <1>3, <2>1, <2>2, Marked DEF MovesRow
  <2> QED
    BY <1>1, <1>2, <1>3, <2>1, <2>3, MovesTyped DEF Steps
<1>5. CASE AddMakeupDay(h)
  <2>1. BulkCreateDeliveryDays({o.sub.endDate}) /\ Goto(h, "save", o.sub)
    BY <1>1, <1>5 DEF AddMakeupDay
  <2>2. rows' \in DeliveryDays
    BY <1>3, <2>1, Created
  <2> QED
    BY <1>1, <1>2, <1>3, <2>1, <2>2, MovesTyped DEF Steps
<1>6. CASE SaveSkip(h)
  <2>1. /\ UpdateSubscription(h, SkipColumns) /\ upgrade' = upgrade
        /\ makeups' = [makeups EXCEPT ![o.date] = o.sub.endDate]
    BY <1>1, <1>6 DEF SaveSkip
  <2>2. PlansTyped' /\ LocalsTyped' /\ left' = left
    BY <2>1, ColumnsTyped
  <2>3. /\ makeups' \in [Dates -> Dates \cup {0}]
        /\ \A d \in Dates : makeups'[d] # 0 => makeups'[d] > d
    BY <1>3, <2>1 DEF TypeInv, BoundsTyped
  <2>4. BoundsTyped'
    BY <2>2, <2>3 DEF TypeInv, BoundsTyped
  <2> QED
    BY <2>2, <2>4
<1> QED
  BY <1>4, <1>5, <1>6

(* After the makeup day is deleted the plan still has rows: that of the     *)
(* date whose skip is undone, which the makeup day comes after.             *)
LEMMA UndoTyped ==
  ASSUME OneHandler, TypeInv, NEW h \in Handlers,
         MarkUnskipped(h) \/ DeleteMakeupDay(h) \/ SaveUndo(h)
  PROVE  BoundsTyped' /\ PlansTyped' /\ LocalsTyped'
<1>1. PICK o : o = my[h]
  OBVIOUS
<1>2. o.cmd = "undo"
  BY <1>1 DEF MarkUnskipped, DeleteMakeupDay, SaveUndo, Busy
<1>3. /\ rows \in DeliveryDays /\ LocalHolds(o) /\ TypedSub(o.sub)
      /\ o.sub \in Subscription /\ o.date \in Dates /\ RowsAt(o.date) # {}
  BY <1>1, <1>2, ReadTyped DEF LocalHolds
<1>4. CASE MarkUnskipped(h)
  <2>1. UpdateDeliveryDayStatus(o.date, "skipped", "scheduled") /\ Goto(h, "more", o.sub)
    BY <1>1, <1>4 DEF MarkUnskipped
  <2>2. "scheduled" \in DayStatus /\ "skipped" \in DayStatus
    BY DEF DayStatus
  <2>3. PICK s \in DayStatus :
            rows[<<o.date, s>>] > 0 /\ MovesRow(o.date, s, "scheduled")
    BY <1>3, <2>1, <2>2, Marked
  <2>4. rows[<<o.date, "scheduled">>] \in Nat
    BY <1>3, <2>2 DEF DeliveryDays
  <2>5. rows'[<<o.date, "scheduled">>] > 0
    BY <1>3, <2>2, <2>3, <2>4 DEF MovesRow
  <2>6. RowsAt(o.date)' # {}
    BY <2>2, <2>5 DEF RowsAt
  <2> QED
    BY <1>1, <1>2, <1>3, <2>1, <2>3, <2>6, MovesTyped DEF Steps, MovesRow
<1>5. CASE DeleteMakeupDay(h)
  <2>1. PICK m : m = makeups[o.date]
    OBVIOUS
  <2>2. CASE ~(m # 0 /\ "scheduled" \in RowsAt(m))
    <3>1. rows' = rows /\ Goto(h, "save", o.sub)
      BY <1>1, <1>5, <2>1, <2>2 DEF DeleteMakeupDay
    <3>2. RowsAt(o.date)' # {}
      BY <1>3, <3>1 DEF RowsAt
    <3> QED
      BY <1>1, <1>2, <1>3, <3>1, <3>2, MovesTyped DEF Steps
  <2>3. CASE m # 0 /\ "scheduled" \in RowsAt(m)
    <3>1. PICK keep : keep = DatesWithRows \ {m}
      OBVIOUS
    <3>2. PICK e : e = Max(keep)
      OBVIOUS
    <3>3. PICK n : n = Max({1, o.sub.totalMealDays - 1})
      OBVIOUS
    <3>4. PICK w : w = [o.sub EXCEPT !.endDate = e, !.totalMealDays = n]
      OBVIOUS
    <3>5. DeleteScheduledDeliveryDaysOutsideDates(keep) /\ Goto(h, "save", w)
      BY <1>1, <1>5, <2>1, <2>3, <3>1, <3>2, <3>3, <3>4 DEF DeleteMakeupDay
    <3>6. m > o.date /\ o.date \in Nat
      BY <1>3, <2>1, <2>3, DatesTyped DEF TypeInv, BoundsTyped
    <3>7. keep \subseteq Dates /\ o.date \in keep
      BY <1>3, <3>1, <3>6 DEF DatesWithRows
    <3>8. keep \in SUBSET Int /\ keep # {}
      BY <3>7, DatesTyped
    <3>9. IsFiniteSet(keep)
      BY <3>7, DatesTyped, FS_Subset
    <3>10. e \in Dates
      BY <3>2, <3>7, <3>8, <3>9, MaxIsMember
    <3>11. n \in Nat
      <4>1. o.sub.totalMealDays - 1 \in Int
        BY <1>3, SubFields
      <4>2. PICK k \in Int : k = o.sub.totalMealDays - 1
        BY <4>1
      <4>3. n = Max({1, k})
        BY <3>3, <4>2
      <4>4. Max({1, k}) \in {1, k} /\ Max({1, k}) >= 1
        BY MaxOfTwo
      <4> QED
        BY <4>3, <4>4
    <3>12. /\ w \in Subscription /\ w.pausedFrom = o.sub.pausedFrom
           /\ w.pausedUntil = o.sub.pausedUntil
      BY <1>3, <3>4, <3>10, <3>11 DEF Subscription
    <3>13. TypedSub(w)
      BY <1>3, <3>12 DEF TypedSub
    <3>14. /\ rows' \in DeliveryDays
           /\ \A s \in DayStatus : rows'[<<o.date, s>>] = rows[<<o.date, s>>]
      BY <1>3, <3>5, <3>7, Deleted
    <3>15. RowsAt(o.date)' # {}
      BY <1>3, <3>14 DEF RowsAt
    <3> QED
      BY <1>1, <1>2, <3>5, <3>13, <3>14, <3>15, MovesTyped DEF Steps
  <2> QED
    BY <2>2, <2>3
<1>6. CASE SaveUndo(h)
  <2>1. UpdateSubscription(h, SkipColumns) /\ upgrade' = upgrade /\ makeups' = makeups
    BY <1>6 DEF SaveUndo
  <2>2. PlansTyped' /\ LocalsTyped' /\ left' = left
    BY <2>1, ColumnsTyped
  <2> QED
    BY <2>1, <2>2 DEF TypeInv, BoundsTyped
<1> QED
  BY <1>4, <1>5, <1>6

(* So do those of a pause and of its cancellation.                          *)
LEMMA PauseTyped ==
  ASSUME OneHandler, TypeInv, NEW h \in Handlers,
         \/ FreezeDays(h) \/ SavePause(h)
         \/ RestoreDays(h) \/ SaveCancelPause(h)
         \/ SaveStatus(h)
  PROVE  BoundsTyped' /\ PlansTyped' /\ LocalsTyped'
<1>1. PICK o : o = my[h]
  OBVIOUS
<1>2. /\ rows \in DeliveryDays /\ TypedSub(o.sub)
      /\ {"scheduled", "paused"} \subseteq DayStatus
  BY <1>1, ReadTyped DEF LocalHolds, DayStatus
<1>3. CASE FreezeDays(h) \/ RestoreDays(h)
  <2>1. /\ o.cmd \in {"pause", "cancelPause"} /\ Goto(h, "save", o.sub)
        /\ \/ BulkUpdateDeliveryDayStatus(o.date, o.until, "scheduled", "paused")
           \/ BulkUpdateDeliveryDayStatus(o.date, o.until, "paused", "scheduled")
    BY <1>1, <1>3 DEF FreezeDays, RestoreDays, Busy
  <2>2. rows' \in DeliveryDays
    BY <1>2, <2>1, Moved
  <2> QED
    BY <1>1, <1>2, <2>1, <2>2, MovesTyped DEF Steps
<1>4. CASE SavePause(h) \/ SaveCancelPause(h) \/ SaveStatus(h)
  <2>1. /\ UpdateSubscription(h, PauseColumns) \/ UpdateSubscription(h, {"status"})
        /\ upgrade' = upgrade /\ makeups' = makeups
    BY <1>4 DEF SavePause, SaveCancelPause, SaveStatus
  <2>2. PlansTyped' /\ LocalsTyped' /\ left' = left
    BY <2>1, ColumnsTyped
  <2> QED
    BY <2>1, <2>2 DEF TypeInv, BoundsTyped
<1> QED
  BY <1>3, <1>4

(* And those of a resume, whose lapsed days fit in the calendar.            *)
LEMMA ResumeTyped ==
  ASSUME OneHandler, TypeInv, NEW h \in Handlers,
         RestoreRest(h) \/ AppendLapsedDays(h) \/ SaveResume(h)
  PROVE  BoundsTyped' /\ PlansTyped' /\ LocalsTyped'
<1>1. PICK o : o = my[h]
  OBVIOUS
<1>2. o.cmd = "resume"
  BY <1>1 DEF RestoreRest, AppendLapsedDays, SaveResume, Busy
<1>3. /\ rows \in DeliveryDays /\ LocalHolds(o) /\ TypedSub(o.sub)
      /\ o.sub \in Subscription /\ {"scheduled", "paused"} \subseteq DayStatus
      /\ o.sub.endDate \in Dates
  BY <1>1, <1>2, ReadTyped, SubFields DEF LocalHolds, DayStatus
<1>4. CASE RestoreRest(h)
  <2>1. /\ BulkUpdateDeliveryDayStatus(o.date, o.until, "paused", "scheduled")
        /\ Goto(h, "more", o.sub) /\ o.pc = "days"
    BY <1>1, <1>4 DEF RestoreRest, Busy
  <2>2. LapsedFit(o)
    BY <1>2, <1>3, <2>1 DEF LocalHolds
  <2>3. /\ rows' \in DeliveryDays
        /\ \A d \in Dates : d \notin DaysOf(o.date, o.until) =>
               rows'[<<d, "paused">>] = rows[<<d, "paused">>]
    <3>1. "paused" \in DayStatus /\ "scheduled" \in DayStatus /\ "paused" # "scheduled"
      BY <1>3
    <3> QED
      BY <1>3, <2>1, <3>1, Moved
  <2>4. \A d \in Dates : d < o.date => rows'[<<d, "paused">>] = rows[<<d, "paused">>]
    <3>1. o.date \in Nat /\ o.until \in Nat /\ Dates \subseteq Nat
      BY <2>2, DatesTyped DEF LapsedFit
    <3>2. \A d \in Dates : d < o.date => d \notin DaysOf(o.date, o.until)
      BY <3>1 DEF DaysOf
    <3> QED
      BY <1>3, <2>3, <3>2
  <2> QED
    BY <1>1, <1>2, <1>3, <2>1, <2>3, <2>4, MovesTyped DEF Steps
<1>5. CASE AppendLapsedDays(h)
  <2>1. o.pc = "more" /\ LapsedFit(o)
    BY <1>1, <1>2, <1>3, <1>5 DEF AppendLapsedDays, Busy, LocalHolds
  <2>2. PICK n : n = HowMany(o.sub.pausedFrom .. o.date - 1, {"paused"})
    OBVIOUS
  <2>3. n \in Nat /\ Reaches(o.sub.endDate + 1, n)
    <3>1. o.sub.pausedFrom \in Dates /\ o.date \in Dates
      BY <1>3, <2>1, SubFields DEF LapsedFit
    <3>2. PICK ds : ds = o.sub.pausedFrom .. o.date - 1
      OBVIOUS
    <3>3. ds \in SUBSET Dates
      BY <3>1, <3>2, DatesTyped DEF Dates
    <3>4. HowMany(ds, {"paused"}) \in Nat
      BY <1>3, <3>3, HowManyTyped
    <3> QED
      BY <2>1, <2>2, <3>2, <3>4 DEF LapsedFit
  <2>4. PICK e : e = IF n = 0 THEN o.sub.endDate
                     ELSE AddWorkingDaysForward(o.sub.endDate + 1, n)
    OBVIOUS
  <2>5. e \in Dates
    <3>1. CASE n = 0
      BY <1>3, <2>4, <3>1
    <3>2. CASE n # 0
      <4>1. PICK from \in Int : from = o.sub.endDate + 1
        <5>1. o.sub.endDate \in Nat
          BY <1>3, DatesTyped
        <5> QED
          BY <5>1
      <4>2. AddWorkingDaysForward(from, n) \in Dates
        BY <2>3, <3>2, <4>1, Forward
      <4> QED
        BY <2>4, <3>2, <4>1, <4>2
    <3> QED
      BY <3>1, <3>2
  <2>6. PICK w : w = [WithoutPause(o.sub, "active", 0) EXCEPT
                         !.endDate = IF n = 0 THEN @
                                     ELSE AddWorkingDaysForward(@ + 1, n)]
    OBVIOUS
  <2>7. w \in Subscription /\ w.pausedFrom = 0 /\ w.pausedUntil = 0
    <3>1. PICK u : u = WithoutPause(o.sub, "active", 0)
      OBVIOUS
    <3>2. u \in Subscription /\ u.endDate = o.sub.endDate /\ u.pausedFrom = 0
          /\ u.pausedUntil = 0
      <4>1. o.sub.flexUsed \in Nat
        BY <1>3, SubFields
      <4>2. Refund(o.sub.flexUsed, 0) \in Nat
        BY <4>1, RefundTyped
      <4> QED
        BY <1>3, <3>1, <4>2 DEF WithoutPause, Subscription, SubscriptionStatus
    <3>3. w = [u EXCEPT !.endDate = e]
      BY <2>4, <2>6, <3>1, <3>2
    <3> QED
      BY <2>5, <3>2, <3>3 DEF Subscription
  <2>8. /\ BulkCreateDeliveryDays(GenerateWorkingDeliveryDates(o.sub.endDate + 1, n))
        /\ Goto(h, "save", w)
    BY <1>1, <1>5, <2>2, <2>6 DEF AppendLapsedDays
  <2>9. rows' \in DeliveryDays
    BY <1>3, <2>8, Created
  <2>10. TypedSub(w)
    BY <2>7 DEF TypedSub
  <2> QED
    BY <1>1, <1>2, <2>8, <2>9, <2>10, MovesTyped DEF Steps
<1>6. CASE SaveResume(h)
  <2>1. /\ UpdateSubscription(h, PauseColumns \cup {"endDate"})
        /\ upgrade' = upgrade /\ makeups' = makeups
    BY <1>6 DEF SaveResume
  <2>2. PlansTyped' /\ LocalsTyped' /\ left' = left
    BY <2>1, ColumnsTyped
  <2> QED
    BY <2>1, <2>2 DEF TypeInv, BoundsTyped
<1> QED
  BY <1>4, <1>5, <1>6

(* An upgrade puts the plan in place that was ordered.                      *)
LEMMA PromoteTyped ==
  ASSUME OneHandler, TypeInv, NEW h \in Handlers,
         \/ BeginPromote(h)
         \/ AddCanonicalDays(h) \/ DropOtherDays(h) \/ SavePromote(h)
  PROVE  BoundsTyped' /\ PlansTyped' /\ LocalsTyped'
<1>1. PICK o : o = my[h]
  OBVIOUS
<1>2. /\ rows \in DeliveryDays /\ LocalHolds(o) /\ TypedSub(o.sub)
      /\ o.sub \in Subscription
  BY <1>1, ReadTyped DEF LocalHolds
<1>3. PICK s : s = sub
  OBVIOUS
<1>4. TypedSub(s) /\ s \in Subscription
  BY <1>3 DEF TypeInv, PlansTyped, TypedSub
<1>5. CASE BeginPromote(h)
  <2>1. PICK p : p = upgrade
    OBVIOUS
  <2>2. p \in PlanSet /\ MealCount[p] \in Nat \ {0} /\ StartDate \in Int
    <3>1. p \in PlanSet /\ StartDate \in Dates
      BY <1>5, <2>1, SubscriptionAssumption DEF BeginPromote, TypeInv, PlansTyped
    <3>2. StartDate \in Int
      BY <3>1, DatesTyped
    <3> QED
      BY <3>1, <3>2, SubscriptionAssumption
  <2>3. PICK e : e = Max(CanonicalDates(p))
    OBVIOUS
  <2>4. e \in Dates
    <3>1. Reaches(StartDate, MealCount[p])
      BY <1>5, <2>1 DEF BeginPromote
    <3>2. AddWorkingDaysForward(StartDate, MealCount[p]) \in Dates
      BY <2>2, <3>1, Forward
    <3> QED
      BY <2>2, <2>3, <3>2 DEF AddWorkingDaysForward, CanonicalDates
  <2>5. PICK w : w = [s EXCEPT !.plan = p, !.totalMealDays = MealCount[p], !.endDate = e]
    OBVIOUS
  <2>6. /\ w \in Subscription /\ w.pausedFrom = s.pausedFrom
        /\ w.pausedUntil = s.pausedUntil /\ w.plan = p
    <3>1. PICK n \in Nat : n = MealCount[p]
      BY <2>2
    <3>2. w = [s EXCEPT !.plan = p, !.totalMealDays = n, !.endDate = e]
      BY <2>5, <3>1
    <3> QED
      BY <1>4, <2>2, <2>4, <3>1, <3>2 DEF Subscription
  <2>7. PICK v : v = [cmd |-> "promote", pc |-> "days", date |-> 0, until |-> 0,
                      aged |-> FALSE, sub |-> w]
    OBVIOUS
  <2>8. /\ my' = [my EXCEPT ![h] = v] /\ p # NoPlan
        /\ UNCHANGED <<now, sub, rows, makeups, upgrade, left>>
    BY <1>3, <1>5, <2>1, <2>3, <2>5, <2>7 DEF BeginPromote
  <2>9. /\ v \in Local /\ v.cmd = "promote" /\ v.pc = "days" /\ v.sub = w
    BY <2>6, <2>7 DEF Local, Commands, Steps
  <2>10. LocalHolds(v)'
    BY <1>4, <2>1, <2>6, <2>8, <2>9 DEF LocalHolds, TypedSub
  <2>11. LocalsTyped'
    BY <2>8, <2>10, OneTyped DEF TypeInv
  <2> QED
    BY <2>8, <2>11 DEF TypeInv, BoundsTyped, PlansTyped, TypedSub
<1>6. CASE AddCanonicalDays(h)
  <2>1. /\ o.cmd = "promote" /\ Goto(h, "more", o.sub)
        /\ BulkCreateDeliveryDays(CanonicalDates(o.sub.plan) \ DatesWithRows)
    BY <1>1, <1>6 DEF AddCanonicalDays, Busy
  <2>2. PICK ds : ds = CanonicalDates(o.sub.plan) \ DatesWithRows
    OBVIOUS
  <2>3. rows' \in DeliveryDays
    BY <1>2, <2>1, <2>2, Created
  <2> QED
    BY <1>1, <1>2, <2>1, <2>3, MovesTyped DEF Steps
<1>7. CASE DropOtherDays(h)
  <2>1. /\ o.cmd = "promote" /\ Goto(h, "save", o.sub)
        /\ DeleteScheduledDeliveryDaysOutsideDates(CanonicalDates(o.sub.plan))
    BY <1>1, <1>7 DEF DropOtherDays, Busy
  <2>2. rows' \in DeliveryDays
    BY <1>2, <2>1, Deleted
  <2> QED
    BY <1>1, <1>2, <2>1, <2>2, MovesTyped DEF Steps
<1>8. CASE SavePromote(h)
  <2>1. PICK status : status = IF o.sub.status = "cancelled" THEN "active" ELSE s.status
    OBVIOUS
  <2>2. PICK t : t = [s EXCEPT !.plan = o.sub.plan, !.totalMealDays = o.sub.totalMealDays,
                               !.endDate = o.sub.endDate, !.status = status]
    OBVIOUS
  <2>3. /\ sub' = t /\ upgrade' = NoPlan /\ my' = [my EXCEPT ![h] = Resting]
        /\ makeups' = makeups /\ left' = left
    BY <1>1, <1>3, <1>8, <2>1, <2>2 DEF SavePromote
  <2>4. status \in SubscriptionStatus
    BY <1>4, <2>1, SubFields DEF SubscriptionStatus
  <2>5. /\ t \in Subscription /\ t.pausedFrom = s.pausedFrom
        /\ t.pausedUntil = s.pausedUntil
    <3>1. /\ o.sub.plan \in PlanSet /\ o.sub.totalMealDays \in Nat /\ o.sub.endDate \in Dates
      BY <1>2, SubFields
    <3> QED
      BY <1>4, <2>2, <2>4, <3>1 DEF Subscription
  <2>6. PlansTyped'
    BY <1>4, <2>3, <2>5 DEF PlansTyped, TypedSub
  <2> QED
    BY <2>3, <2>6, SaveTyped DEF TypeInv, BoundsTyped
<1> QED
  BY <1>5, <1>6, <1>7, <1>8

(* Around the commands only the rider writes rows: no date is left without  *)
(* one, and no row is paused.                                               *)
LEMMA AroundTyped ==
  ASSUME TypeInv, NEW h \in Handlers, NEW o, o = my[h], rows' \in DeliveryDays,
         upgrade = NoPlan \/ upgrade' = upgrade,
         \A d \in Dates : RowsAt(d) # {} => RowsAt(d)' # {},
         \A d \in Dates : rows'[<<d, "paused">>] <= rows[<<d, "paused">>]
  PROVE  LocalHolds(o)'
<1>1. o \in Local /\ LocalHolds(o) /\ rows \in DeliveryDays /\ o.sub \in Subscription
  BY ReadTyped
<1>2. ASSUME o.cmd = "resume", o.pc # "save" PROVE LapsedFit(o)'
  <2>1. LapsedFit(o)
    BY <1>1, <1>2 DEF LocalHolds
  <2>2. PICK ds : ds = o.sub.pausedFrom .. o.date - 1
    OBVIOUS
  <2>3. o.sub.pausedFrom \in Dates /\ o.date \in Dates
    BY <1>1, <2>1, SubFields DEF LapsedFit
  <2>4. ds \in SUBSET Dates
    BY <2>2, <2>3, DatesTyped DEF Dates
  <2>5. {"paused"} \in SUBSET DayStatus
        /\ \A d \in ds, s \in {"paused"} : rows'[<<d, s>>] <= rows[<<d, s>>]
    BY <2>4 DEF DayStatus
  <2>6. /\ HowMany(ds, {"paused"}) \in Nat /\ HowMany(ds, {"paused"})' \in Nat
        /\ HowMany(ds, {"paused"})' <= HowMany(ds, {"paused"})
    BY <1>1, <2>4, <2>5, HowManyShrinks
  <2>7. Reaches(o.sub.endDate + 1, HowMany(ds, {"paused"}))
    BY <2>1, <2>2 DEF LapsedFit
  <2>8. CountWorkingDaysInRange(o.sub.endDate + 1, LastDate) \in Nat
    BY CountTyped
  <2>9. Reaches(o.sub.endDate + 1, HowMany(ds, {"paused"})')
    BY <2>6, <2>7, <2>8 DEF Reaches
  <2> QED
    BY <2>1, <2>2, <2>9 DEF LapsedFit
<1>3. o.cmd = "undo" => o.date \in Dates /\ RowsAt(o.date)' # {}
  BY <1>1 DEF LocalHolds
<1>4. o.cmd = "promote" => upgrade' # NoPlan /\ o.sub.plan = upgrade'
  BY <1>1 DEF LocalHolds
<1> QED
  BY <1>1, <1>2, <1>3, <1>4 DEF LocalHolds, TypedSub

(* The rider keeps every type.                                              *)
LEMMA RiderTyped ==
  ASSUME TypeInv, NEW today \in Dates, MarkDeliveryDelivered(today)
  PROVE  BoundsTyped' /\ PlansTyped' /\ LocalsTyped'
<1>1. /\ rows \in DeliveryDays /\ {"delivered", "paused"} \subseteq DayStatus
      /\ UNCHANGED <<now, sub, makeups, upgrade, my>>
  BY DEF TypeInv, DeliveriesInv, DayStatus, MarkDeliveryDelivered
<1>2. left' \in 0 .. MaxCommands
  <2>1. left' = left \/ (left > 0 /\ left' = left - 1)
    BY DEF MarkDeliveryDelivered
  <2>2. left \in 0 .. MaxCommands /\ MaxCommands \in Nat
    BY SubscriptionAssumption DEF TypeInv, BoundsTyped
  <2> QED
    BY <2>1, <2>2
<1>3. PICK s \in {"scheduled", "skipped", "paused"} :
             /\ rows[<<today, s>>] > 0
             /\ rows' \in DeliveryDays
             /\ \A e \in Dates, t \in DayStatus :
                    rows'[<<e, t>>] = IF e = today /\ t = "delivered" THEN rows[<<e, t>>] + 1
                                      ELSE IF e = today /\ t = s THEN rows[<<e, t>>] - 1
                                      ELSE rows[<<e, t>>]
  BY <1>1, RiderMarks
<1>6. \A d \in Dates, t \in DayStatus : rows[<<d, t>>] \in Nat
  BY <1>1 DEF DeliveryDays
<1>7. \A d \in Dates : rows'[<<d, "paused">>] <= rows[<<d, "paused">>]
  <2> SUFFICES ASSUME NEW d \in Dates PROVE rows'[<<d, "paused">>] <= rows[<<d, "paused">>]
    OBVIOUS
  <2>1. PICK n \in Nat : n = rows[<<d, "paused">>]
    BY <1>1, <1>6
  <2>2. rows'[<<d, "paused">>] = n \/ rows'[<<d, "paused">>] = n - 1
    BY <1>1, <1>3, <2>1
  <2> QED
    BY <2>1, <2>2
<1>8. \A d \in Dates : RowsAt(d) # {} => RowsAt(d)' # {}
  <2> SUFFICES ASSUME NEW d \in Dates, RowsAt(d) # {} PROVE RowsAt(d)' # {}
    OBVIOUS
  <2>1. CASE d = today
    <3>1. rows'[<<d, "delivered">>] > 0
      BY <1>1, <1>3, <1>6, <2>1
    <3> QED
      BY <1>1, <3>1 DEF RowsAt
  <2>2. CASE d # today
    BY <1>3, <2>2 DEF RowsAt
  <2> QED
    BY <2>1, <2>2
<1>9. \A h \in Handlers : LocalHolds(my[h])'
  <2> SUFFICES ASSUME NEW h \in Handlers PROVE LocalHolds(my[h])'
    OBVIOUS
  <2>1. PICK o : o = my[h]
    OBVIOUS
  <2>2. LocalHolds(o)'
    BY <1>1, <1>3, <1>7, <1>8, <2>1, AroundTyped
  <2> QED
    BY <1>1, <2>1, <2>2 DEF LocalHolds, TypedSub, LapsedFit
<1> QED
  BY <1>1, <1>2, <1>9 DEF TypeInv, BoundsTyped, PlansTyped, TypedSub, LocalsTyped

(* Steps that write neither rows nor what a command has read.               *)
LEMMA OthersTyped ==
  ASSUME TypeInv, PlansTyped', UNCHANGED <<rows, makeups, left, my>>,
         upgrade = NoPlan \/ upgrade' = upgrade
  PROVE  BoundsTyped' /\ PlansTyped' /\ LocalsTyped'
<1>1. rows' \in DeliveryDays
  BY DEF TypeInv, DeliveriesInv
<1>2. \A h \in Handlers : LocalHolds(my[h])'
  <2> SUFFICES ASSUME NEW h \in Handlers PROVE LocalHolds(my[h])'
    OBVIOUS
  <2>1. PICK o : o = my[h]
    OBVIOUS
  <2>2. \A d \in Dates : RowsAt(d)' = RowsAt(d)
    BY DEF RowsAt
  <2>3. \A d \in Dates : rows'[<<d, "paused">>] <= rows[<<d, "paused">>]
    BY <1>1 DEF DeliveryDays, DayStatus
  <2>4. LocalHolds(o)'
    BY <1>1, <2>1, <2>2, <2>3, AroundTyped
  <2> QED
    BY <2>1, <2>4 DEF LocalHolds, TypedSub, LapsedFit
<1> QED
  BY <1>2 DEF TypeInv, BoundsTyped, LocalsTyped

(* The clock keeps every type.                                              *)
LEMMA TickTyped ==
  ASSUME TypeInv, Tick
  PROVE  BoundsTyped' /\ PlansTyped' /\ LocalsTyped'
<1>1. /\ UNCHANGED <<sub, rows, makeups, upgrade, left>>
      /\ my' = [h \in Handlers |-> [my[h] EXCEPT !.aged = ~Idle(h)]]
  BY DEF Tick
<1>2. rows' \in DeliveryDays /\ \A d \in Dates : RowsAt(d)' = RowsAt(d)
  BY <1>1 DEF TypeInv, DeliveriesInv, RowsAt
<1>3. ASSUME NEW h \in Handlers PROVE my'[h] \in Local /\ LocalHolds(my[h])'
  <2>1. PICK o : o = my[h]
    OBVIOUS
  <2>2. PICK b \in BOOLEAN : b <=> ~Idle(h)
    OBVIOUS
  <2>3. PICK v : v = [o EXCEPT !.aged = b]
    OBVIOUS
  <2>4. my'[h] = v
    BY <1>1, <2>1, <2>2, <2>3
  <2>5. IsLocal(o) /\ o \in Local
    BY <2>1, ReadTyped
  <2>6. /\ v.cmd = o.cmd /\ v.pc = o.pc /\ v.sub = o.sub /\ v.date = o.date
        /\ v.until = o.until /\ v \in Local
    BY <2>3, <2>5 DEF Local
  <2>7. LocalHolds(o)'
    <3>1. \A d \in Dates : rows'[<<d, "paused">>] <= rows[<<d, "paused">>]
      BY <1>1, <1>2 DEF DeliveryDays, DayStatus
    <3> QED
      BY <1>1, <1>2, <2>1, <3>1, AroundTyped
  <2>8. LocalHolds(v)'
    BY <2>6, <2>7 DEF LocalHolds, LapsedFit, TypedSub
  <2> QED
    BY <2>4, <2>6, <2>8 DEF LocalHolds, TypedSub, LapsedFit
<1>4. LocalsTyped'
  BY <1>1, <1>3 DEF LocalsTyped
<1> QED
  BY <1>1, <1>4 DEF TypeInv, BoundsTyped, PlansTyped, TypedSub

(* The typing invariant is inductive, when no two commands overlap.         *)
LEMMA TypesStep ==
  ASSUME OneHandler, TypeInv, [Next]_vars
  PROVE  TypeInv'
<1> DEFINE Goal == BoundsTyped' /\ PlansTyped' /\ LocalsTyped'
<1>1. DeliveriesInv'
  BY DeliveriesStep DEF TypeInv
<1> SUFFICES Goal
  BY <1>1 DEF TypeInv
<1>2. TypedSub(sub) /\ upgrade \in PlanSet \cup {NoPlan}
  BY DEF TypeInv, PlansTyped
<1>3. ASSUME NEW h \in Handlers, Begin(h) PROVE Goal
  BY <1>3, BeginTyped
<1>4. ASSUME NEW h \in Handlers, BeginPromote(h) PROVE Goal
  BY <1>4, PromoteTyped
<1>5. ASSUME NEW h \in Handlers, Continue(h) PROVE Goal
  BY <1>5, SkipTyped, UndoTyped, PauseTyped, ResumeTyped, PromoteTyped DEF Continue
<1>6. ASSUME NEW p \in PlanSet, OrderUpgrade(p) PROVE Goal
  <2>1. upgrade = NoPlan /\ UNCHANGED <<now, sub, rows, makeups, left, my>>
        /\ upgrade' = p /\ Tier(p) > Tier(sub.plan)
    BY <1>6 DEF OrderUpgrade
  <2>2. PlansTyped'
    BY <1>2, <2>1 DEF PlansTyped, TypedSub
  <2> QED
    BY <2>1, <2>2, OthersTyped
<1>7. CASE ReadSubscription
  <2>1. sub' = EnsurePauseStatus(sub) /\ UNCHANGED <<now, rows, makeups, upgrade, left, my>>
    BY <1>7 DEF ReadSubscription
  <2>2. PICK s : s = sub
    OBVIOUS
  <2>3. PICK e : e = EnsurePauseStatus(s)
    OBVIOUS
  <2>4. TypedSub(e) /\ e.plan = s.plan
    BY <1>2, <2>2, <2>3, Ensured DEF TypedSub
  <2>5. sub' = e
    BY <2>1, <2>2, <2>3 DEF EnsurePauseStatus, HasPause, IsAfterSkipCutoff
  <2>6. PlansTyped'
    BY <2>1, <2>2, <2>4, <2>5 DEF TypeInv, PlansTyped, TypedSub
  <2> QED
    BY <2>1, <2>6, OthersTyped
<1>8. ASSUME NEW d \in Dates, MarkDeliveryDelivered(d) PROVE Goal
  BY <1>8, RiderTyped
<1>9. CASE ExpireActiveSubscriptions
  <2>1. sub' = [sub EXCEPT !.status = "expired"]
        /\ UNCHANGED <<now, rows, makeups, upgrade, left, my>>
    BY <1>9 DEF ExpireActiveSubscriptions
  <2>2. PICK s : s = sub
    OBVIOUS
  <2>3. PICK e : e = [s EXCEPT !.status = "expired"]
    OBVIOUS
  <2>4. TypedSub(e) /\ e.plan = s.plan
    BY <1>2, <2>2, <2>3 DEF TypedSub, Subscription, SubscriptionStatus
  <2>5. PlansTyped'
    BY <2>1, <2>2, <2>3, <2>4 DEF TypeInv, PlansTyped, TypedSub
  <2> QED
    BY <2>1, <2>5, OthersTyped
<1>10. CASE Tick
  BY <1>10, TickTyped
<1>11. CASE UNCHANGED vars
  <2>1. UNCHANGED <<now, sub, rows, makeups, upgrade, left, my>>
    BY <1>11 DEF vars
  <2>2. PlansTyped'
    BY <2>1 DEF TypeInv, PlansTyped, TypedSub
  <2> QED
    BY <2>1, <2>2, OthersTyped
<1> HIDE DEF Goal
<1> QED
  BY <1>3, <1>4, <1>5, <1>6, <1>7, <1>8, <1>9, <1>10, <1>11 DEF Next

(* It holds of a new plan.                                                  *)
LEMMA TypesStart == Init => TypeInv
<1> SUFFICES ASSUME Init PROVE TypeInv
  OBVIOUS
<1>1. PICK p : p = Plans[1]
  OBVIOUS
<1>2. p \in PlanSet /\ MealCount[p] \in Nat \ {0} /\ Reaches(StartDate, MealCount[p])
  BY <1>1, FirstPlan, SubscriptionAssumption
<1>3. StartDate \in Int
  BY SubscriptionAssumption, DatesTyped
<1>4. PICK e : e = Max(GenerateDeliveryDays(p))
  OBVIOUS
<1>5. e \in Dates
  BY <1>2, <1>3, <1>4, Forward DEF AddWorkingDaysForward, GenerateDeliveryDays
<1>6. PICK n \in Nat : n = MealCount[p]
  BY <1>2
<1>7. sub = [plan |-> p, status |-> "active", totalMealDays |-> n, skippedCount |-> 0,
             endDate |-> e, flexUsed |-> 0, pausedFrom |-> 0, pausedUntil |-> 0]
  BY <1>1, <1>4, <1>6 DEF Init
<1>8. TypedSub(sub)
  BY <1>2, <1>5, <1>7 DEF TypedSub, Subscription, SubscriptionStatus
<1>9. BoundsTyped /\ PlansTyped
  BY <1>8, SubscriptionAssumption DEF Init, BoundsTyped, PlansTyped
<1>10. LocalsTyped
  <2>1. PICK v : v = Resting
    OBVIOUS
  <2>2. v \in Local /\ TypedSub(v.sub) /\ v.cmd = "none" /\ v.pc = "idle"
    BY <2>1, RestingTyped
  <2>3. LocalHolds(v)
    BY <2>2 DEF LocalHolds
  <2>4. my = [h \in Handlers |-> v]
    BY <2>1 DEF Init
  <2> QED
    BY <2>2, <2>3, <2>4 DEF LocalsTyped
<1> QED
  BY <1>9, <1>10, DeliveriesStart DEF TypeInv

(* With one command at a time the row of the plan, what commands have read  *)
(* and the delivery days stay within their types: no end date, makeup day   *)
(* or lapsed day is written that the calendar does not have.                *)
THEOREM SubscriptionTyping == ASSUME OneHandler PROVE Spec => []TypeOK
<1>1. TypeInv => TypeOK
  BY DEF TypeInv, TypeOK, DeliveriesInv, BoundsTyped, PlansTyped, TypedSub, LocalsTyped
<1>2. TypeInv /\ [Next]_vars => TypeInv'
  BY TypesStep
<1> QED
  BY <1>1, <1>2, TypesStart, PTL DEF Spec

-----------------------------------------------------------------------------
(* The pool of flex days.                                                  *)

Skips == HowMany(Dates, {"skipped"})
WindowDays(s) == Cardinality(Window(s) \cap WorkingDays)

(* What the pool covers while a command is under way: what a command is     *)
(* going to save covers the rows it has written so far.  The skipped row of *)
(* an undo may have been delivered in the meantime.                         *)
FlexHolds(v) ==
    LET w == v.sub IN
    /\ v.cmd \in {"none", "cancel", "resubscribe", "promote"} =>
           sub.flexUsed >= Skips + WindowDays(sub)
    /\ v.cmd \in {"skip", "undo", "pause", "cancelPause", "resume"} =>
           w.flexUsed <= FlexAllowed[sub.plan]
    /\ v.cmd = "skip" /\ v.pc = "days" => w.flexUsed >= Skips + WindowDays(sub) + 1
    /\ v.cmd = "undo" /\ v.pc = "days" =>
           w.flexUsed + (IF rows[<<v.date, "skipped">>] > 0 THEN 1 ELSE 0)
               >= Skips + WindowDays(sub)
    /\ v.cmd \in {"skip", "undo"} /\ v.pc # "days" => w.flexUsed >= Skips + WindowDays(sub)
    /\ v.cmd = "pause" => w.flexUsed >= Skips + WindowDays(w)
    /\ v.cmd \in {"cancelPause", "resume"} => w.flexUsed >= Skips
    /\ v.cmd = "cancelPause" \/ (v.cmd = "resume" /\ v.pc = "save") => w.pausedFrom = 0

FlexInv ==
    /\ sub.flexUsed <= FlexAllowed[sub.plan]
    /\ \A h \in Handlers : FlexHolds(my[h])

(* The days a window costs are a number, and no window costs none.          *)
LEMMA WindowDaysTyped ==
  ASSUME NEW s, TypedSub(s)
  PROVE  /\ WindowDays(s) \in Nat
         /\ WindowDays(s) = IF s.pausedFrom = 0 THEN 0
                            ELSE CountWorkingDaysInRange(s.pausedFrom, s.pausedUntil)
<1>1. CASE s.pausedFrom = 0
  <2>1. Window(s) \cap WorkingDays = {}
    BY <1>1 DEF Window, HasPause
  <2> QED
    BY <1>1, <2>1, FS_EmptySet DEF WindowDays
<1>2. CASE s.pausedFrom # 0
  <2>1. Window(s) \cap WorkingDays = ListWorkingDaysInRange(s.pausedFrom, s.pausedUntil)
    BY <1>2 DEF Window, HasPause, ListWorkingDaysInRange
  <2>2. WindowDays(s) = CountWorkingDaysInRange(s.pausedFrom, s.pausedUntil)
    BY <2>1 DEF WindowDays, CountWorkingDaysInRange
  <2> QED
    BY <1>2, <2>2, CountTyped
<1> QED
  BY <1>1, <1>2

(* Two plans with the same window have as many days in it.                  *)
LEMMA WindowDaysSame ==
  ASSUME NEW s, NEW t, s.pausedFrom = t.pausedFrom, s.pausedUntil = t.pausedUntil
  PROVE  WindowDays(s) = WindowDays(t)
BY DEF WindowDays, Window, HasPause

(* So are the days skipped.                                                 *)
LEMMA SkipsTyped ==
  ASSUME rows \in DeliveryDays
  PROVE  Skips \in Nat
<1>1. {"skipped"} \in SUBSET DayStatus /\ Dates \in SUBSET Dates
  BY DEF DayStatus
<1> QED
  BY <1>1, HowManyTyped DEF Skips

(* They stay as many when no skipped row changes.                           *)
LEMMA SkipsSame ==
  ASSUME rows \in DeliveryDays, rows' \in DeliveryDays,
         \A d \in Dates : rows'[<<d, "skipped">>] = rows[<<d, "skipped">>]
  PROVE  Skips' = Skips
<1>1. \A d \in Dates, s \in {"skipped"} : rows'[<<d, s>>] = rows[<<d, s>>]
  OBVIOUS
<1> QED
  BY <1>1, HowManySame DEF Skips

(* A row that is marked changes the number of skips by at most one.         *)
LEMMA SkipsMove ==
  ASSUME rows \in DeliveryDays, rows' \in DeliveryDays, NEW d \in Dates,
         \A e \in Dates : e # d => rows'[<<e, "skipped">>] = rows[<<e, "skipped">>]
  PROVE  /\ rows'[<<d, "skipped">>] = rows[<<d, "skipped">>] + 1 => Skips' = Skips + 1
         /\ rows[<<d, "skipped">>] = rows'[<<d, "skipped">>] + 1 => Skips' = Skips - 1
<1>1. {"skipped"} \in SUBSET DayStatus /\ Dates \in SUBSET Dates
  BY DEF DayStatus
<1>2. PICK s \in {"skipped"} : s = "skipped"
  OBVIOUS
<1>3. \A e \in Dates, t \in {"skipped"} : e # d \/ t # s => rows'[<<e, t>>] = rows[<<e, t>>]
  BY <1>2
<1> QED
  BY <1>1, <1>2, <1>3, HowManyGrows DEF Skips

(* With one handler only its own local state is to be looked at.            *)
LEMMA OneFlex ==
  ASSUME OneHandler, TypeInv, NEW h \in Handlers, NEW v, my' = [my EXCEPT ![h] = v],
         FlexHolds(v)', sub'.flexUsed <= FlexAllowed[sub'.plan]
  PROVE  FlexInv'
<1>1. \A k \in Handlers : my'[k] = v
  BY DEF OneHandler, TypeInv, DeliveriesInv
<1>2. \A k \in Handlers : FlexHolds(my[k])'
  BY <1>1 DEF FlexHolds
<1> QED
  BY <1>2 DEF FlexInv

(* The numbers of the pool, as the steps below use them.                    *)
LEMMA FlexRead ==
  ASSUME TypeInv, FlexInv, NEW h \in Handlers, NEW o, o = my[h]
  PROVE  /\ Skips \in Nat /\ WindowDays(sub) \in Nat /\ WindowDays(o.sub) \in Nat
         /\ sub.flexUsed \in Nat /\ o.sub.flexUsed \in Nat
         /\ FlexAllowed[sub.plan] \in Nat /\ sub.flexUsed <= FlexAllowed[sub.plan]
         /\ FlexHolds(o) /\ TypedSub(sub) /\ TypedSub(o.sub) /\ LocalHolds(o)
<1>1. PICK s : s = sub
  OBVIOUS
<1>2. TypedSub(s) /\ s \in Subscription
  BY <1>1 DEF TypeInv, PlansTyped, TypedSub
<1>3. s.flexUsed \in Nat /\ s.plan \in PlanSet /\ WindowDays(s) \in Nat
  BY <1>2, SubFields, WindowDaysTyped
<1>4. TypedSub(o.sub) /\ o.sub \in Subscription /\ LocalHolds(o) /\ rows \in DeliveryDays
  BY ReadTyped DEF LocalHolds
<1>5. o.sub.flexUsed \in Nat /\ WindowDays(o.sub) \in Nat
  BY <1>4, SubFields, WindowDaysTyped
<1>6. Skips \in Nat
  BY <1>4, SkipsTyped
<1>7. FlexAllowed[s.plan] \in Nat
  BY <1>3, SubscriptionAssumption
<1> QED
  BY <1>1, <1>2, <1>3, <1>4, <1>5, <1>6, <1>7 DEF FlexInv

(* A command that begins under the pool's cover.                            *)
LEMMA FlexStarted ==
  ASSUME OneHandler, TypeInv, FlexInv, NEW h \in Handlers,
         NEW cmd, NEW pc, NEW s, NEW w, NEW d, NEW u, NEW v,
         Start(h, cmd, pc, s, w, d, u), s.flexUsed = sub.flexUsed, s.plan = sub.plan,
         s.pausedFrom = sub.pausedFrom, s.pausedUntil = sub.pausedUntil,
         v = [cmd |-> cmd, pc |-> pc, sub |-> w, date |-> d, until |-> u, aged |-> FALSE],
         cmd \in Commands,
         cmd \in {"skip", "undo", "pause", "cancelPause", "resume"} =>
             w.flexUsed <= FlexAllowed[sub.plan] /\ pc = "days",
         cmd = "skip" => w.flexUsed >= Skips + WindowDays(sub) + 1,
         cmd = "undo" =>
             w.flexUsed + 1 >= Skips + WindowDays(sub) /\ rows[<<d, "skipped">>] > 0,
         cmd = "pause" => w.flexUsed >= Skips + WindowDays(w),
         cmd \in {"cancelPause", "resume"} => w.flexUsed >= Skips,
         cmd = "cancelPause" => w.pausedFrom = 0
  PROVE  FlexInv'
<1>1. /\ Idle(h) /\ sub' = s /\ my' = [my EXCEPT ![h] = v] /\ rows' = rows
  BY DEF Start, MayBegin
<1>2. /\ v.cmd = cmd /\ v.pc = pc /\ v.sub = w /\ v.date = d
  OBVIOUS
<1>3. PICK o : o = my[h]
  OBVIOUS
<1>4. sub.flexUsed <= FlexAllowed[sub.plan] /\ sub.flexUsed >= Skips + WindowDays(sub)
  BY <1>1, <1>3, FlexRead DEF FlexHolds, Idle
<1>5. Skips' = Skips
  BY <1>1, SkipsSame DEF TypeInv, DeliveriesInv
<1>6. WindowDays(sub') = WindowDays(sub)
  BY <1>1, WindowDaysSame
<1>7. FlexHolds(v)'
  BY <1>1, <1>2, <1>4, <1>5, <1>6 DEF FlexHolds
<1> QED
  BY <1>1, <1>4, <1>7, OneFlex

(* A statement that marks no row as skipped or unskipped.                   *)
LEMMA FlexMoves ==
  ASSUME OneHandler, TypeInv, FlexInv, NEW h \in Handlers, NEW pc, NEW w, NEW o, o = my[h],
         Goto(h, pc, w), o.cmd # "none", pc # "days", w.flexUsed = o.sub.flexUsed,
         o.cmd \in {"skip", "undo"} => o.pc # "days",
         rows' \in DeliveryDays,
         \A d \in Dates : rows'[<<d, "skipped">>] = rows[<<d, "skipped">>],
         o.cmd = "pause" => w = o.sub,
         o.cmd = "cancelPause" \/ (o.cmd = "resume" /\ pc = "save") => w.pausedFrom = 0
  PROVE  FlexInv'
<1>1. PICK v : v = [cmd |-> o.cmd, pc |-> pc, sub |-> w, date |-> o.date,
                    until |-> o.until, aged |-> o.aged]
  OBVIOUS
<1>2. v.cmd = o.cmd /\ v.pc = pc /\ v.sub = w /\ v.date = o.date
  BY <1>1
<1>3. sub' = sub /\ my' = [my EXCEPT ![h] = v]
  <2>1. IsLocal(o)
    BY ReadTyped
  <2>2. [o EXCEPT !.pc = pc, !.sub = w] = v
    <3>1. [o EXCEPT !.pc = pc] = [cmd |-> o.cmd, pc |-> pc, sub |-> o.sub, date |-> o.date,
                                  until |-> o.until, aged |-> o.aged]
      BY <2>1 DEF IsLocal
    <3>2. [[cmd |-> o.cmd, pc |-> pc, sub |-> o.sub, date |-> o.date, until |-> o.until,
            aged |-> o.aged] EXCEPT !.sub = w] = v
      BY <1>1
    <3> QED
      BY <3>1, <3>2
  <2> QED
    BY <2>2 DEF Goto
<1>4. Skips' = Skips
  BY SkipsSame DEF TypeInv, DeliveriesInv
<1>5. FlexHolds(o) /\ sub.flexUsed <= FlexAllowed[sub.plan]
  BY FlexRead
<1>6. WindowDays(sub') = WindowDays(sub)
  BY <1>3
<1>7. FlexHolds(v)'
  BY <1>2, <1>3, <1>4, <1>5, <1>6 DEF FlexHolds
<1> QED
  BY <1>3, <1>5, <1>7, OneFlex

(* A command that has saved leaves a pool that covers what it has done.     *)
LEMMA FlexRests ==
  ASSUME OneHandler, TypeInv, NEW h \in Handlers, my' = [my EXCEPT ![h] = Resting],
         sub'.flexUsed <= FlexAllowed[sub'.plan], sub'.flexUsed >= Skips' + WindowDays(sub')
  PROVE  FlexInv'
<1>1. PICK v : v = Resting
  OBVIOUS
<1>2. v.cmd = "none"
  BY <1>1, RestingTyped
<1>3. FlexHolds(v)'
  BY <1>2 DEF FlexHolds
<1> QED
  BY <1>1, <1>3, OneFlex

(* What a command saves covers what it has skipped or booked.               *)
LEMMA FlexSaved ==
  ASSUME OneHandler, TypeInv, FlexInv, NEW h \in Handlers, NEW o, o = my[h], NEW columns,
         UpdateSubscription(h, columns), o.pc = "save",
         \/ o.cmd \in {"skip", "undo"} /\ columns = SkipColumns
         \/ o.cmd \in {"pause", "cancelPause"} /\ columns = PauseColumns
         \/ o.cmd = "resume" /\ columns = PauseColumns \cup {"endDate"}
         \/ o.cmd \in {"cancel", "resubscribe"} /\ columns = {"status"}
  PROVE  FlexInv'
<1>1. PICK s : s = sub
  OBVIOUS
<1>2. PICK t : t = sub'
  OBVIOUS
<1>3. PICK w : w = o.sub
  OBVIOUS
<1>4. /\ t = [f \in DOMAIN s |-> IF f \in columns THEN w[f] ELSE s[f]]
      /\ my' = [my EXCEPT ![h] = Resting] /\ rows' = rows
  BY <1>1, <1>2, <1>3 DEF UpdateSubscription
<1>5. /\ s \in Subscription /\ w \in Subscription /\ TypedSub(s) /\ TypedSub(w)
      /\ FlexHolds(o) /\ s.flexUsed <= FlexAllowed[s.plan]
      /\ Skips \in Nat /\ WindowDays(s) \in Nat /\ WindowDays(w) \in Nat
  BY <1>1, <1>3, FlexRead DEF TypedSub
<1>6. /\ t.plan = IF "plan" \in columns THEN w.plan ELSE s.plan
      /\ t.flexUsed = IF "flexUsed" \in columns THEN w.flexUsed ELSE s.flexUsed
      /\ t.pausedFrom = IF "pausedFrom" \in columns THEN w.pausedFrom ELSE s.pausedFrom
      /\ t.pausedUntil = IF "pausedUntil" \in columns THEN w.pausedUntil ELSE s.pausedUntil
  BY <1>4, <1>5, Saved
<1>7. Skips' = Skips
  BY <1>4, SkipsSame DEF TypeInv, DeliveriesInv
<1>8. /\ t.flexUsed <= FlexAllowed[t.plan] /\ t.flexUsed >= Skips + WindowDays(t)
  <2>1. CASE o.cmd \in {"skip", "undo"} /\ columns = SkipColumns
    <3>1. /\ t.plan = s.plan /\ t.flexUsed = w.flexUsed
          /\ t.pausedFrom = s.pausedFrom /\ t.pausedUntil = s.pausedUntil
      BY <1>6, <2>1 DEF SkipColumns
    <3>2. WindowDays(t) = WindowDays(s)
      BY <3>1, WindowDaysSame
    <3> QED
      BY <1>1, <1>3, <1>5, <2>1, <3>1, <3>2 DEF FlexHolds
  <2>2. CASE \/ o.cmd \in {"pause", "cancelPause"} /\ columns = PauseColumns
             \/ o.cmd = "resume" /\ columns = PauseColumns \cup {"endDate"}
    <3>1. /\ t.plan = s.plan /\ t.flexUsed = w.flexUsed
          /\ t.pausedFrom = w.pausedFrom /\ t.pausedUntil = w.pausedUntil
      BY <1>6, <2>2 DEF PauseColumns
    <3>2. WindowDays(t) = WindowDays(w)
      BY <3>1, WindowDaysSame
    <3>3. CASE o.cmd = "pause"
      BY <1>1, <1>3, <1>5, <3>1, <3>2, <3>3 DEF FlexHolds
    <3>4. CASE o.cmd \in {"cancelPause", "resume"}
      <4>1. w.pausedFrom = 0 /\ w.flexUsed >= Skips /\ w.flexUsed <= FlexAllowed[s.plan]
        BY <1>1, <1>3, <1>5, <3>4 DEF FlexHolds
      <4>2. WindowDays(w) = 0
        BY <1>5, <4>1, WindowDaysTyped
      <4> QED
        BY <1>5, <3>1, <3>2, <4>1, <4>2
    <3> QED
      BY <2>2, <3>3, <3>4
  <2>3. CASE o.cmd \in {"cancel", "resubscribe"} /\ columns = {"status"}
    <3>1. /\ t.plan = s.plan /\ t.flexUsed = s.flexUsed
          /\ t.pausedFrom = s.pausedFrom /\ t.pausedUntil = s.pausedUntil
      BY <1>6, <2>3
    <3>2. WindowDays(t) = WindowDays(s)
      BY <3>1, WindowDaysSame
    <3> QED
      BY <1>1, <1>3, <1>5, <2>3, <3>1, <3>2 DEF FlexHolds
  <2> QED
    BY <2>1, <2>2, <2>3
<1> QED
  BY <1>2, <1>4, <1>7, <1>8, FlexRests

(* Every command begins under the pool's cover: it was counted before a     *)
(* day or a window was allowed.                                             *)
LEMMA FlexBegins ==
  ASSUME OneHandler, TypeInv, FlexInv, NEW h \in Handlers, Begin(h)
  PROVE  FlexInv'
<1>1. PICK s : s = EnsurePauseStatus(sub)
  OBVIOUS
<1>2. PICK r : r = sub
  OBVIOUS
<1>3. PICK o : o = my[h]
  OBVIOUS
<1>4. /\ Skips \in Nat /\ WindowDays(r) \in Nat /\ r.flexUsed \in Nat
      /\ FlexAllowed[r.plan] \in Nat /\ r.flexUsed <= FlexAllowed[r.plan] /\ TypedSub(r)
      /\ r.flexUsed >= Skips + WindowDays(r)
  BY <1>2, <1>3, FlexRead DEF FlexHolds, Begin, MayBegin, Idle
<1>5. /\ TypedSub(s) /\ s.plan = r.plan /\ s.flexUsed = r.flexUsed
      /\ s.pausedFrom = r.pausedFrom /\ s.pausedUntil = r.pausedUntil
  <2>1. s = EnsurePauseStatus(r)
    BY <1>1, <1>2 DEF EnsurePauseStatus, HasPause, IsAfterSkipCutoff
  <2> QED
    BY <1>4, <2>1, Ensured
<1>6. s \in Subscription /\ Dates \subseteq Nat \ {0}
  BY <1>5, DatesTyped DEF TypedSub
<1>7. /\ s.flexUsed \in Nat
      /\ s.pausedFrom \in Dates \cup {0} /\ s.pausedUntil \in Dates \cup {0}
      /\ s.pausedFrom = 0 <=> s.pausedUntil = 0
  BY <1>5, <1>6, SubFields DEF TypedSub
<1>8. /\ "skip" \in Commands /\ "undo" \in Commands /\ "pause" \in Commands
      /\ "resume" \in Commands /\ "cancelPause" \in Commands
      /\ "cancel" \in Commands /\ "resubscribe" \in Commands
  BY DEF Commands
<1>9. GetFlexDaysRemaining(s) \in Nat
      /\ s.flexUsed + GetFlexDaysRemaining(s) = FlexAllowed[s.plan]
  BY <1>4, <1>5 DEF GetFlexDaysRemaining
<1>10. ASSUME NEW d \in Dates, BeginSkip(h, d) PROVE FlexInv'
  <2>1. PICK e : e = AddWorkingDaysForward(MakeupAnchor(s, d), 1)
    OBVIOUS
  <2>2. PICK w : w = [s EXCEPT !.flexUsed = @ + 1, !.skippedCount = @ + 1,
                               !.totalMealDays = @ + 1, !.endDate = e]
    OBVIOUS
  <2>3. Start(h, "skip", "days", s, w, d, 0) /\ GetFlexDaysRemaining(s) > 0
    BY <1>1, <1>10, <2>1, <2>2 DEF BeginSkip, MaySkip
  <2>4. w.flexUsed = s.flexUsed + 1
    BY <1>6, <2>2 DEF Subscription
  <2>5. w.flexUsed <= FlexAllowed[r.plan] /\ w.flexUsed >= Skips + WindowDays(r) + 1
    BY <1>4, <1>5, <1>7, <1>9, <2>3, <2>4
  <2>6. PICK v : v = [cmd |-> "skip", pc |-> "days", sub |-> w, date |-> d, until |-> 0,
                      aged |-> FALSE]
    OBVIOUS
  <2> QED
    BY <1>2, <1>5, <1>8, <2>3, <2>5, <2>6, FlexStarted
<1>11. ASSUME NEW d \in Dates, BeginUndo(h, d) PROVE FlexInv'
  <2>1. PICK w : w = [s EXCEPT !.flexUsed = Refund(@, 1), !.skippedCount = Refund(@, 1)]
    OBVIOUS
  <2>2. Start(h, "undo", "days", s, w, d, 0) /\ rows[<<d, "skipped">>] > 0
    BY <1>1, <1>11, <2>1 DEF BeginUndo, MayUndo, RowsAt
  <2>3. w.flexUsed = Refund(s.flexUsed, 1)
    BY <1>6, <2>1 DEF Subscription
  <2>4. w.flexUsed \in Nat /\ w.flexUsed <= s.flexUsed /\ s.flexUsed <= w.flexUsed + 1
    BY <1>7, <2>3, RefundTyped
  <2>5. w.flexUsed <= FlexAllowed[r.plan] /\ w.flexUsed + 1 >= Skips + WindowDays(r)
    BY <1>4, <1>5, <1>7, <2>4
  <2>6. PICK v : v = [cmd |-> "undo", pc |-> "days", sub |-> w, date |-> d, until |-> 0,
                      aged |-> FALSE]
    OBVIOUS
  <2> QED
    BY <1>2, <1>5, <1>8, <2>2, <2>5, <2>6, FlexStarted
<1>12. ASSUME NEW d \in Dates, BeginResume(h, d) PROVE FlexInv'
  <2>1. PICK n \in Nat : n = CountWorkingDaysInRange(d, s.pausedUntil)
    BY CountTyped
  <2>2. PICK w : w = [s EXCEPT !.flexUsed = Refund(@, n)]
    OBVIOUS
  <2>3. /\ Start(h, "resume", "days", s, w, d, s.pausedUntil)
        /\ s.pausedFrom # 0 /\ d \in s.pausedFrom + 1 .. s.pausedUntil
    BY <1>1, <1>12, <2>1, <2>2 DEF BeginResume, MayResume, HasPause
  <2>4. w.flexUsed = Refund(s.flexUsed, n)
    BY <1>6, <2>2 DEF Subscription
  <2>5. w.flexUsed \in Nat /\ w.flexUsed <= s.flexUsed /\ s.flexUsed <= w.flexUsed + n
    BY <1>7, <2>1, <2>4, RefundTyped
  <2>6. n <= WindowDays(r)
    <3>1. s.pausedFrom \in Nat /\ s.pausedUntil \in Nat
      <4>1. \A e \in Dates \cup {0} : e \in Nat
        BY <1>6
      <4> QED
        BY <1>7, <4>1
    <3>2. ListWorkingDaysInRange(d, s.pausedUntil)
          \subseteq ListWorkingDaysInRange(s.pausedFrom, s.pausedUntil)
      BY <2>3, <3>1 DEF ListWorkingDaysInRange
    <3>3. CountWorkingDaysInRange(d, s.pausedUntil)
          <= CountWorkingDaysInRange(s.pausedFrom, s.pausedUntil)
      BY <3>2, CountTyped, FS_Subset DEF CountWorkingDaysInRange
    <3>4. WindowDays(s) = WindowDays(r)
      BY <1>5, WindowDaysSame
    <3>5. WindowDays(s) = CountWorkingDaysInRange(s.pausedFrom, s.pausedUntil)
      BY <1>5, <2>3, WindowDaysTyped
    <3> QED
      BY <2>1, <3>3, <3>4, <3>5
  <2>7. w.flexUsed <= FlexAllowed[r.plan] /\ w.flexUsed >= Skips
    BY <1>4, <1>5, <1>7, <2>1, <2>5, <2>6
  <2>8. PICK u : u = s.pausedUntil
    OBVIOUS
  <2>9. PICK v : v = [cmd |-> "resume", pc |-> "days", sub |-> w, date |-> d,
                      until |-> u, aged |-> FALSE]
    OBVIOUS
  <2>10. Start(h, "resume", "days", s, w, d, u) /\ w.flexUsed <= FlexAllowed[sub.plan]
    BY <1>2, <2>3, <2>7, <2>8
  <2> QED
    BY <1>2, <1>5, <1>8, <2>7, <2>9, <2>10, FlexStarted
<1>13. ASSUME NEW from \in Dates, NEW u \in Dates, BeginPause(h, from, u) PROVE FlexInv'
  <2>1. PICK n \in Nat : n = CountWorkingDaysInRange(from, u)
    BY CountTyped
  <2>2. PICK w : w = [s EXCEPT !.pausedFrom = from, !.pausedUntil = u, !.flexUsed = @ + n]
    OBVIOUS
  <2>3. /\ Start(h, "pause", "days", s, w, from, u)
        /\ s.pausedFrom = 0 /\ n <= GetFlexDaysRemaining(s)
    BY <1>1, <1>9, <1>13, <2>1, <2>2 DEF BeginPause, MayPause, HasPause
  <2>4. w.flexUsed = s.flexUsed + n /\ w.pausedFrom = from /\ w.pausedUntil = u
        /\ w \in Subscription
    <3>1. PICK a \in Nat : a = s.flexUsed + n
      BY <1>7
    <3>2. w = [s EXCEPT !.pausedFrom = from, !.pausedUntil = u, !.flexUsed = a]
      BY <2>2, <3>1
    <3> QED
      BY <1>6, <3>1, <3>2 DEF Subscription
  <2>5. TypedSub(w) /\ from # 0
    BY <1>6, <2>4 DEF TypedSub
  <2>6. WindowDays(w) = n
    BY <2>1, <2>4, <2>5, WindowDaysTyped
  <2>7. w.flexUsed <= FlexAllowed[r.plan] /\ w.flexUsed >= Skips + WindowDays(w)
    BY <1>4, <1>5, <1>7, <1>9, <2>1, <2>3, <2>4, <2>6
  <2>8. PICK v : v = [cmd |-> "pause", pc |-> "days", sub |-> w, date |-> from, until |-> u,
                      aged |-> FALSE]
    OBVIOUS
  <2> QED
    BY <1>2, <1>5, <1>8, <2>3, <2>7, <2>8, FlexStarted
<1>14. CASE BeginCancelPause(h)
  <2>1. PICK n \in Nat : n = CountWorkingDaysInRange(s.pausedFrom, s.pausedUntil)
    BY CountTyped
  <2>2. PICK w : w = WithoutPause(s, "active", n)
    OBVIOUS
  <2>3. /\ Start(h, "cancelPause", "days", s, w, s.pausedFrom, s.pausedUntil)
        /\ s.pausedFrom # 0
    BY <1>1, <1>14, <2>1, <2>2 DEF BeginCancelPause, MayCancelPause, HasPause
  <2>4. w.flexUsed = Refund(s.flexUsed, n) /\ w.pausedFrom = 0
    BY <1>6, <2>2 DEF Subscription, WithoutPause
  <2>5. w.flexUsed \in Nat /\ w.flexUsed <= s.flexUsed /\ s.flexUsed <= w.flexUsed + n
    BY <1>7, <2>1, <2>4, RefundTyped
  <2>6. n = WindowDays(r)
    BY <1>5, <2>1, <2>3, WindowDaysTyped, WindowDaysSame
  <2>7. w.flexUsed <= FlexAllowed[r.plan] /\ w.flexUsed >= Skips
    BY <1>4, <1>5, <1>7, <2>1, <2>5, <2>6
  <2>8. PICK v : v = [cmd |-> "cancelPause", pc |-> "days", sub |-> w,
                      date |-> s.pausedFrom, until |-> s.pausedUntil, aged |-> FALSE]
    OBVIOUS
  <2> QED
    BY <1>2, <1>5, <1>8, <2>3, <2>4, <2>7, <2>8, FlexStarted
<1>15. CASE BeginCancel(h) \/ BeginResubscribe(h)
  <2>1. PICK cmd \in {"cancel", "resubscribe"}, status \in SubscriptionStatus :
            Start(h, cmd, "save", r, [r EXCEPT !.status = status], 0, 0)
    BY <1>2, <1>15 DEF BeginCancel, BeginResubscribe, SubscriptionStatus
  <2>2. PICK w : w = [r EXCEPT !.status = status]
    OBVIOUS
  <2>3. PICK v : v = [cmd |-> cmd, pc |-> "save", sub |-> w, date |-> 0, until |-> 0,
                      aged |-> FALSE]
    OBVIOUS
  <2> QED
    BY <1>2, <1>8, <2>1, <2>2, <2>3, FlexStarted
<1> QED
  BY <1>10, <1>11, <1>12, <1>13, <1>14, <1>15 DEF Begin

(* The two statements that mark a row as skipped, or no longer skipped.     *)
LEMMA FlexMarks ==
  ASSUME OneHandler, TypeInv, FlexInv, NEW h \in Handlers,
         MarkSkipped(h) \/ MarkUnskipped(h)
  PROVE  FlexInv'
<1>1. PICK o : o = my[h]
  OBVIOUS
<1>2. /\ Skips \in Nat /\ WindowDays(sub) \in Nat /\ o.sub.flexUsed \in Nat
      /\ FlexHolds(o) /\ LocalHolds(o) /\ sub.flexUsed <= FlexAllowed[sub.plan]
      /\ rows \in DeliveryDays /\ IsLocal(o)
  BY <1>1, FlexRead, ReadTyped
<1>3. "scheduled" \in DayStatus /\ "skipped" \in DayStatus
  BY DEF DayStatus
<1>4. PICK v : v = [cmd |-> o.cmd, pc |-> "more", sub |-> o.sub, date |-> o.date,
                    until |-> o.until, aged |-> o.aged]
  OBVIOUS
<1>5. v.cmd = o.cmd /\ v.pc = "more" /\ v.sub = o.sub
  BY <1>4
<1>6. sub' = sub /\ my' = [my EXCEPT ![h] = v]
  <2>1. PICK w : w = o.sub
    OBVIOUS
  <2>2. Goto(h, "more", w)
    BY <1>1, <2>1 DEF MarkSkipped, MarkUnskipped
  <2>3. [o EXCEPT !.pc = "more", !.sub = w] = v
    <3>1. [o EXCEPT !.pc = "more"] = [cmd |-> o.cmd, pc |-> "more", sub |-> o.sub,
                                      date |-> o.date, until |-> o.until, aged |-> o.aged]
      BY <1>2 DEF IsLocal
    <3>2. [[cmd |-> o.cmd, pc |-> "more", sub |-> o.sub, date |-> o.date, until |-> o.until,
            aged |-> o.aged] EXCEPT !.sub = w] = v
      BY <1>4, <2>1
    <3> QED
      BY <3>1, <3>2
  <2> QED
    BY <1>1, <2>2, <2>3 DEF Goto
<1>7. WindowDays(sub') = WindowDays(sub)
  BY <1>6
<1>8. CASE MarkSkipped(h)
  <2>1. o.cmd = "skip" /\ o.pc = "days"
        /\ UpdateDeliveryDayStatus(o.date, "scheduled", "skipped")
    BY <1>1, <1>8 DEF MarkSkipped, Busy
  <2>2. o.date \in Dates
    BY <1>2, <2>1 DEF LocalHolds
  <2>3. PICK s \in DayStatus :
            rows[<<o.date, s>>] > 0 /\ MovesRow(o.date, s, "skipped")
    BY <1>2, <1>3, <2>1, <2>2, Marked
  <2>4. rows' \in DeliveryDays
        /\ \A e \in Dates : e # o.date => rows'[<<e, "skipped">>] = rows[<<e, "skipped">>]
    BY <1>3, <2>3 DEF MovesRow
  <2>5. Skips' = Skips \/ Skips' = Skips + 1
    <3>1. CASE s = "skipped"
      <4>1. \A e \in Dates : rows'[<<e, "skipped">>] = rows[<<e, "skipped">>]
        BY <1>3, <2>3, <3>1 DEF MovesRow
      <4> QED
        BY <1>2, <2>4, <4>1, SkipsSame
    <3>2. CASE s # "skipped"
      <4>1. rows'[<<o.date, "skipped">>] = rows[<<o.date, "skipped">>] + 1
        BY <1>3, <2>2, <2>3, <3>2 DEF MovesRow
      <4> QED
        BY <1>2, <2>2, <2>4, <4>1, SkipsMove
    <3> QED
      BY <3>1, <3>2
  <2>6. FlexHolds(v)'
    BY <1>2, <1>5, <1>6, <1>7, <2>1, <2>5 DEF FlexHolds
  <2> QED
    BY <1>2, <1>6, <2>6, OneFlex
<1>9. CASE MarkUnskipped(h)
  <2>1. o.cmd = "undo" /\ o.pc = "days"
        /\ UpdateDeliveryDayStatus(o.date, "skipped", "scheduled")
    BY <1>1, <1>9 DEF MarkUnskipped, Busy
  <2>2. /\ o.date \in Dates
        /\ o.sub.flexUsed + (IF rows[<<o.date, "skipped">>] > 0 THEN 1 ELSE 0)
               >= Skips + WindowDays(sub)
    BY <1>2, <2>1 DEF LocalHolds, FlexHolds
  <2>3. PICK s \in DayStatus :
            /\ rows[<<o.date, s>>] > 0
            /\ rows[<<o.date, "skipped">>] > 0 => s = "skipped"
            /\ MovesRow(o.date, s, "scheduled")
    BY <1>2, <1>3, <2>1, <2>2, Marked
  <2>4. /\ rows' \in DeliveryDays
        /\ \A e \in Dates : e # o.date => rows'[<<e, "skipped">>] = rows[<<e, "skipped">>]
    BY <1>3, <2>3 DEF MovesRow
  <2>5. ASSUME rows[<<o.date, "skipped">>] > 0 PROVE FlexHolds(v)'
    <3>1. rows'[<<o.date, "skipped">>] = rows[<<o.date, "skipped">>] - 1
      BY <1>3, <2>2, <2>3, <2>5 DEF MovesRow
    <3>2. rows[<<o.date, "skipped">>] \in Nat
      BY <1>2, <1>3, <2>2 DEF DeliveryDays
    <3>3. rows[<<o.date, "skipped">>] = rows'[<<o.date, "skipped">>] + 1
      BY <3>1, <3>2
    <3>4. Skips' = Skips - 1
      BY <1>2, <2>2, <2>4, <3>3, SkipsMove
    <3> QED
      BY <1>2, <1>5, <1>6, <1>7, <2>1, <2>2, <2>5, <3>4 DEF FlexHolds
  <2>6. ASSUME ~(rows[<<o.date, "skipped">>] > 0) PROVE FlexHolds(v)'
    <3>1. \A e \in Dates : rows'[<<e, "skipped">>] = rows[<<e, "skipped">>]
      BY <1>3, <2>2, <2>3, <2>6 DEF MovesRow
    <3>2. Skips' = Skips
      BY <1>2, <2>4, <3>1, SkipsSame
    <3> QED
      BY <1>2, <1>5, <1>6, <1>7, <2>1, <2>2, <2>6, <3>2 DEF FlexHolds
  <2>7. FlexHolds(v)'
    BY <2>5, <2>6
  <2> QED
    BY <1>2, <1>6, <2>7, OneFlex
<1> QED
  BY <1>8, <1>9

(* A dearer plan allows at least as many flex days.                         *)
LEMMA TierAllows ==
  ASSUME NEW p \in PlanSet, NEW q \in PlanSet, Tier(p) > Tier(q)
  PROVE  FlexAllowed[q] <= FlexAllowed[p]
<1>1. Plans \in Seq(PlanSet)
      /\ \A i, j \in DOMAIN Plans : i < j => FlexAllowed[Plans[i]] <= FlexAllowed[Plans[j]]
  BY SubscriptionAssumption
<1>2. DOMAIN Plans \subseteq Nat
  BY <1>1
<1>3. \A r \in PlanSet : Tier(r) \in DOMAIN Plans /\ Plans[Tier(r)] = r
  <2> SUFFICES ASSUME NEW r \in PlanSet
               PROVE  Tier(r) \in DOMAIN Plans /\ Plans[Tier(r)] = r
    OBVIOUS
  <2>1. \E i \in DOMAIN Plans : Plans[i] = r
    BY DEF PlanSet, Range
  <2> QED
    BY <2>1 DEF Tier
<1>4. PICK i \in DOMAIN Plans, j \in DOMAIN Plans :
          i = Tier(q) /\ j = Tier(p) /\ Plans[i] = q /\ Plans[j] = p
  BY <1>3
<1>5. i < j
  BY <1>2, <1>4
<1> QED
  BY <1>1, <1>4, <1>5

(* A greater plan allows no fewer days, so an upgrade does not overdraw     *)
(* the pool.                                                                *)
LEMMA FlexPromotes ==
  ASSUME OneHandler, TypeInv, FlexInv, NEW h \in Handlers,
         BeginPromote(h) \/ SavePromote(h)
  PROVE  FlexInv'
<1>1. PICK o : o = my[h]
  OBVIOUS
<1>2. PICK s : s = sub
  OBVIOUS
<1>3. /\ FlexHolds(o) /\ s.flexUsed <= FlexAllowed[s.plan] /\ s.flexUsed \in Nat
      /\ FlexAllowed[s.plan] \in Nat /\ Skips \in Nat /\ TypedSub(s) /\ LocalHolds(o)
      /\ s \in Subscription /\ o.sub \in Subscription
  BY <1>1, <1>2, FlexRead, ReadTyped DEF TypedSub
<1>4. o.cmd \in {"none", "promote"} /\ rows' = rows
  BY <1>1 DEF BeginPromote, SavePromote, Busy, Idle
<1>5. s.flexUsed >= Skips + WindowDays(s)
  BY <1>2, <1>3, <1>4 DEF FlexHolds
<1>6. Skips' = Skips
  BY <1>4, SkipsSame DEF TypeInv, DeliveriesInv
<1>7. CASE BeginPromote(h)
  <2>1. PICK w : my' = [my EXCEPT ![h] = [cmd |-> "promote", pc |-> "days", date |-> 0,
                                          until |-> 0, aged |-> FALSE, sub |-> w]]
    BY <1>7 DEF BeginPromote
  <2>2. PICK v : v = [cmd |-> "promote", pc |-> "days", date |-> 0, until |-> 0,
                      aged |-> FALSE, sub |-> w]
    OBVIOUS
  <2>3. v.cmd = "promote" /\ sub' = s /\ my' = [my EXCEPT ![h] = v]
    BY <1>2, <1>7, <2>1, <2>2 DEF BeginPromote
  <2>4. FlexHolds(v)'
    BY <1>5, <1>6, <2>3 DEF FlexHolds
  <2> QED
    BY <1>3, <2>3, <2>4, OneFlex
<1>8. CASE SavePromote(h)
  <2>1. PICK status : status = IF o.sub.status = "cancelled" THEN "active" ELSE s.status
    OBVIOUS
  <2>2. PICK t : t = [s EXCEPT !.plan = o.sub.plan, !.totalMealDays = o.sub.totalMealDays,
                               !.endDate = o.sub.endDate, !.status = status]
    OBVIOUS
  <2>3. sub' = t /\ my' = [my EXCEPT ![h] = Resting] /\ o.cmd = "promote"
    BY <1>1, <1>2, <1>8, <2>1, <2>2 DEF SavePromote, Busy
  <2>4. /\ t.plan = o.sub.plan /\ t.flexUsed = s.flexUsed
        /\ t.pausedFrom = s.pausedFrom /\ t.pausedUntil = s.pausedUntil
    BY <1>3, <2>2 DEF Subscription
  <2>5. PICK p : p = o.sub.plan
    OBVIOUS
  <2>6. p \in PlanSet /\ s.plan \in PlanSet /\ Tier(p) > Tier(s.plan)
    BY <1>2, <1>3, <2>3, <2>5, SubFields DEF LocalHolds, TypeInv, PlansTyped
  <2>7. FlexAllowed[s.plan] <= FlexAllowed[p] /\ FlexAllowed[p] \in Nat
    BY <2>6, TierAllows, SubscriptionAssumption
  <2>8. WindowDays(t) = WindowDays(s)
    BY <2>4, WindowDaysSame
  <2>9. t.flexUsed <= FlexAllowed[t.plan] /\ t.flexUsed >= Skips' + WindowDays(t)
    BY <1>3, <1>5, <1>6, <2>4, <2>5, <2>7, <2>8
  <2> QED
    BY <2>3, <2>9, FlexRests
<1> QED
  BY <1>7, <1>8

(* Every statement of a command keeps the cover.                            *)
LEMMA FlexContinues ==
  ASSUME OneHandler, TypeInv, FlexInv, NEW h \in Handlers, Continue(h)
  PROVE  FlexInv'
<1>1. PICK o : o = my[h]
  OBVIOUS
<1>2. /\ rows \in DeliveryDays /\ FlexHolds(o) /\ o.sub \in Subscription
      /\ o.sub.flexUsed \in Nat
      /\ "scheduled" \in DayStatus /\ "paused" \in DayStatus /\ "skipped" \in DayStatus
  BY <1>1, FlexRead, ReadTyped DEF DayStatus
<1>3. CASE MarkSkipped(h) \/ MarkUnskipped(h)
  BY <1>3, FlexMarks
<1>4. CASE SavePromote(h)
  BY <1>4, FlexPromotes
<1>5. CASE SaveSkip(h) \/ SaveUndo(h)
  <2>1. UpdateSubscription(h, SkipColumns) /\ o.cmd \in {"skip", "undo"} /\ o.pc = "save"
    BY <1>1, <1>5 DEF SaveSkip, SaveUndo, Busy
  <2> QED
    BY <1>1, <2>1, FlexSaved
<1>6. CASE SavePause(h) \/ SaveCancelPause(h)
  <2>1. /\ UpdateSubscription(h, PauseColumns) /\ o.cmd \in {"pause", "cancelPause"}
        /\ o.pc = "save"
    BY <1>1, <1>6 DEF SavePause, SaveCancelPause, Busy
  <2> QED
    BY <1>1, <2>1, FlexSaved
<1>7. CASE SaveResume(h)
  <2>1. /\ UpdateSubscription(h, PauseColumns \cup {"endDate"}) /\ o.cmd = "resume"
        /\ o.pc = "save"
    BY <1>1, <1>7 DEF SaveResume, Busy
  <2> QED
    BY <1>1, <2>1, FlexSaved
<1>8. CASE SaveStatus(h)
  <2>1. /\ UpdateSubscription(h, {"status"}) /\ o.cmd \in {"cancel", "resubscribe"}
        /\ o.pc = "save"
    BY <1>1, <1>8 DEF SaveStatus, Busy
  <2> QED
    BY <1>1, <2>1, FlexSaved
<1>9. CASE AddMakeupDay(h)
  <2>1. BulkCreateDeliveryDays({o.sub.endDate}) /\ Goto(h, "save", o.sub)
        /\ o.cmd = "skip" /\ o.pc = "more"
    BY <1>1, <1>9 DEF AddMakeupDay, Busy
  <2>2. rows' \in DeliveryDays
        /\ \A d \in Dates : rows'[<<d, "skipped">>] = rows[<<d, "skipped">>]
    BY <1>2, <2>1, Created
  <2> QED
    BY <1>1, <2>1, <2>2, FlexMoves
<1>10. CASE DeleteMakeupDay(h)
  <2>1. o.cmd = "undo" /\ o.pc = "more"
    BY <1>1, <1>10 DEF DeleteMakeupDay, Busy
  <2>2. PICK m : m = makeups[o.date]
    OBVIOUS
  <2>3. CASE ~(m # 0 /\ "scheduled" \in RowsAt(m))
    <3>1. rows' = rows /\ Goto(h, "save", o.sub)
      BY <1>1, <1>10, <2>2, <2>3 DEF DeleteMakeupDay
    <3> QED
      BY <1>1, <1>2, <2>1, <3>1, FlexMoves
  <2>4. CASE m # 0 /\ "scheduled" \in RowsAt(m)
    <3>1. PICK keep : keep = DatesWithRows \ {m}
      OBVIOUS
    <3>2. PICK e, n : e = Max(keep) /\ n = Max({1, o.sub.totalMealDays - 1})
      OBVIOUS
    <3>3. PICK w : w = [o.sub EXCEPT !.endDate = e, !.totalMealDays = n]
      OBVIOUS
    <3>4. DeleteScheduledDeliveryDaysOutsideDates(keep) /\ Goto(h, "save", w)
      BY <1>1, <1>10, <2>2, <2>4, <3>1, <3>2, <3>3 DEF DeleteMakeupDay
    <3>5. w.flexUsed = o.sub.flexUsed
      BY <1>2, <3>3 DEF Subscription
    <3>6. rows' \in DeliveryDays
          /\ \A d \in Dates : rows'[<<d, "skipped">>] = rows[<<d, "skipped">>]
      BY <1>2, <3>4, Deleted
    <3> QED
      BY <1>1, <2>1, <3>4, <3>5, <3>6, FlexMoves
  <2> QED
    BY <2>3, <2>4
<1>11. CASE FreezeDays(h) \/ RestoreDays(h)
  <2>1. /\ o.cmd \in {"pause", "cancelPause"} /\ Goto(h, "save", o.sub)
        /\ \/ BulkUpdateDeliveryDayStatus(o.date, o.until, "scheduled", "paused")
           \/ BulkUpdateDeliveryDayStatus(o.date, o.until, "paused", "scheduled")
    BY <1>1, <1>11 DEF FreezeDays, RestoreDays, Busy
  <2>2. rows' \in DeliveryDays
        /\ \A d \in Dates : rows'[<<d, "skipped">>] = rows[<<d, "skipped">>]
    BY <1>2, <2>1, Moved
  <2>3. o.cmd = "cancelPause" => o.sub.pausedFrom = 0
    BY <1>2 DEF FlexHolds
  <2> QED
    BY <1>1, <2>1, <2>2, <2>3, FlexMoves
<1>12. CASE RestoreRest(h)
  <2>1. /\ o.cmd = "resume" /\ Goto(h, "more", o.sub)
        /\ BulkUpdateDeliveryDayStatus(o.date, o.until, "paused", "scheduled")
    BY <1>1, <1>12 DEF RestoreRest, Busy
  <2>2. rows' \in DeliveryDays
        /\ \A d \in Dates : rows'[<<d, "skipped">>] = rows[<<d, "skipped">>]
    BY <1>2, <2>1, Moved
  <2> QED
    BY <1>1, <2>1, <2>2, FlexMoves
<1>13. CASE AppendLapsedDays(h)
  <2>1. PICK n : n = HowMany(o.sub.pausedFrom .. o.date - 1, {"paused"})
    OBVIOUS
  <2>2. PICK u : u = WithoutPause(o.sub, "active", 0)
    OBVIOUS
  <2>3. PICK w : w = [u EXCEPT !.endDate = IF n = 0 THEN @
                                           ELSE AddWorkingDaysForward(@ + 1, n)]
    OBVIOUS
  <2>4. /\ BulkCreateDeliveryDays(GenerateWorkingDeliveryDates(o.sub.endDate + 1, n))
        /\ Goto(h, "save", w) /\ o.cmd = "resume"
    BY <1>1, <1>13, <2>1, <2>2, <2>3 DEF AppendLapsedDays, Busy
  <2>5. w.flexUsed = o.sub.flexUsed /\ w.pausedFrom = 0
    <3>1. Refund(o.sub.flexUsed, 0) = o.sub.flexUsed
      BY <1>2 DEF Refund
    <3>2. PICK k : k = Refund(o.sub.flexUsed, 0)
      OBVIOUS
    <3>3. u = [o.sub EXCEPT !.status = "active", !.pausedFrom = 0, !.pausedUntil = 0,
                            !.flexUsed = k]
      BY <2>2, <3>2 DEF WithoutPause
    <3>4. u.flexUsed = k /\ u.pausedFrom = 0 /\ DOMAIN u = DOMAIN o.sub
      BY <1>2, <3>3 DEF Subscription
    <3>5. w.flexUsed = u.flexUsed /\ w.pausedFrom = u.pausedFrom
      BY <1>2, <2>3, <3>4 DEF Subscription
    <3> QED
      BY <3>1, <3>2, <3>4, <3>5
  <2>6. rows' \in DeliveryDays
        /\ \A d \in Dates : rows'[<<d, "skipped">>] = rows[<<d, "skipped">>]
    BY <1>2, <2>4, Created
  <2> QED
    BY <1>1, <2>4, <2>5, <2>6, FlexMoves
<1>14. CASE AddCanonicalDays(h) \/ DropOtherDays(h)
  <2>1. PICK pc \in {"more", "save"} : Goto(h, pc, o.sub)
    BY <1>1, <1>14 DEF AddCanonicalDays, DropOtherDays
  <2>2. o.cmd = "promote"
    BY <1>1, <1>14 DEF AddCanonicalDays, DropOtherDays, Busy
  <2>3. rows' \in DeliveryDays
        /\ \A d \in Dates : rows'[<<d, "skipped">>] = rows[<<d, "skipped">>]
    <3>1. CASE AddCanonicalDays(h)
      <4>1. PICK ds : BulkCreateDeliveryDays(ds)
        BY <3>1 DEF AddCanonicalDays
      <4> QED
        BY <1>2, <4>1, Created
    <3>2. CASE DropOtherDays(h)
      <4>1. PICK keep : DeleteScheduledDeliveryDaysOutsideDates(keep)
        BY <3>2 DEF DropOtherDays
      <4> QED
        BY <1>2, <4>1, Deleted
    <3> QED
      BY <1>14, <3>1, <3>2
  <2> QED
    BY <1>1, <2>1, <2>2, <2>3, FlexMoves
<1> QED
  BY <1>3, <1>4, <1>5, <1>6, <1>7, <1>8, <1>9, <1>10, <1>11, <1>12, <1>13, <1>14
  DEF Continue

(* What the pool has to cover is changed by nothing around the commands.    *)
LEMMA FlexAround ==
  ASSUME TypeInv, FlexInv, rows' \in DeliveryDays,
         \A d \in Dates : rows'[<<d, "skipped">>] = rows[<<d, "skipped">>],
         sub'.flexUsed = sub.flexUsed, sub'.plan = sub.plan,
         sub'.pausedFrom = sub.pausedFrom, sub'.pausedUntil = sub.pausedUntil,
         \A h \in Handlers : /\ my'[h].cmd = my[h].cmd /\ my'[h].pc = my[h].pc
                             /\ my'[h].sub = my[h].sub /\ my'[h].date = my[h].date
  PROVE  FlexInv'
<1>1. Skips' = Skips
  BY SkipsSame DEF TypeInv, DeliveriesInv
<1>2. WindowDays(sub') = WindowDays(sub)
  BY WindowDaysSame
<1>3. ASSUME NEW h \in Handlers PROVE FlexHolds(my[h])'
  <2>1. PICK o : o = my[h]
    OBVIOUS
  <2>2. PICK v : v = my'[h]
    OBVIOUS
  <2>3. v.cmd = o.cmd /\ v.pc = o.pc /\ v.sub = o.sub /\ v.date = o.date
    BY <2>1, <2>2
  <2>4. FlexHolds(o) /\ LocalHolds(o)
    BY <2>1, FlexRead
  <2>5. o.cmd = "undo" => o.date \in Dates
    BY <2>4 DEF LocalHolds
  <2>6. FlexHolds(v)'
    BY <1>1, <1>2, <2>3, <2>4, <2>5 DEF FlexHolds
  <2> QED
    BY <2>2, <2>6 DEF FlexHolds
<1> QED
  BY <1>3 DEF FlexInv

(* A row that the rider marks needs no cover any more.                      *)
LEMMA FlexDelivered ==
  ASSUME TypeInv, FlexInv, NEW d \in Dates, MarkDeliveryDelivered(d)
  PROVE  FlexInv'
<1>1. rows \in DeliveryDays /\ "skipped" \in DayStatus /\ sub' = sub /\ my' = my
  BY DEF TypeInv, DeliveriesInv, DayStatus, MarkDeliveryDelivered
<1>2. PICK s \in {"scheduled", "skipped", "paused"} :
             /\ rows[<<d, s>>] > 0
             /\ rows' \in DeliveryDays
             /\ \A e \in Dates, t \in DayStatus :
                    rows'[<<e, t>>] = IF e = d /\ t = "delivered" THEN rows[<<e, t>>] + 1
                                      ELSE IF e = d /\ t = s THEN rows[<<e, t>>] - 1
                                      ELSE rows[<<e, t>>]
  BY <1>1, RiderMarks
<1>3. \A e \in Dates : e # d => rows'[<<e, "skipped">>] = rows[<<e, "skipped">>]
  BY <1>1, <1>2
<1>4. rows[<<d, "skipped">>] \in Nat
  BY <1>1 DEF DeliveryDays
<1>5. Skips \in Nat /\ Skips' \in Nat
  <2>1. {"skipped"} \in SUBSET DayStatus /\ Dates \in SUBSET Dates
    BY DEF DayStatus
  <2>2. \A e \in Dates, t \in {"skipped"} : rows'[<<e, t>>] <= rows[<<e, t>>]
    <3> SUFFICES ASSUME NEW e \in Dates
                 PROVE  rows'[<<e, "skipped">>] <= rows[<<e, "skipped">>]
      OBVIOUS
    <3>1. PICK n \in Nat : n = rows[<<e, "skipped">>]
      BY <1>1 DEF DeliveryDays
    <3>2. rows'[<<e, "skipped">>] = n \/ rows'[<<e, "skipped">>] = n - 1
      BY <1>1, <1>2, <3>1
    <3> QED
      BY <3>1, <3>2
  <2> QED
    BY <1>1, <1>2, <2>1, <2>2, HowManyShrinks DEF Skips
<1>6. /\ Skips' = IF s = "skipped" THEN Skips - 1 ELSE Skips
      /\ s # "skipped" => rows'[<<d, "skipped">>] = rows[<<d, "skipped">>]
  <2>1. CASE s = "skipped"
    <3>1. rows[<<d, "skipped">>] = rows'[<<d, "skipped">>] + 1
      BY <1>1, <1>2, <1>4, <2>1
    <3> QED
      BY <1>1, <1>2, <1>3, <2>1, <3>1, SkipsMove
  <2>2. CASE s # "skipped"
    <3>1. \A e \in Dates : rows'[<<e, "skipped">>] = rows[<<e, "skipped">>]
      BY <1>1, <1>2, <2>2
    <3> QED
      BY <1>1, <1>2, <2>2, <3>1, SkipsSame
  <2> QED
    BY <2>1, <2>2
<1>7. WindowDays(sub') = WindowDays(sub)
  BY <1>1
<1>8. ASSUME NEW h \in Handlers PROVE FlexHolds(my[h])'
  <2>1. PICK o : o = my[h]
    OBVIOUS
  <2>2. /\ FlexHolds(o) /\ o.sub.flexUsed \in Nat /\ sub.flexUsed \in Nat
        /\ WindowDays(sub) \in Nat /\ WindowDays(o.sub) \in Nat
    BY <2>1, FlexRead
  <2>3. ASSUME o.cmd = "undo", o.pc = "days"
        PROVE  o.sub.flexUsed + (IF rows'[<<o.date, "skipped">>] > 0 THEN 1 ELSE 0)
                   >= Skips' + WindowDays(sub)
    <3>1. LocalHolds(o)
      BY <2>1, FlexRead
    <3>2. o.date \in Dates
      BY <2>3, <3>1 DEF LocalHolds
    <3>3. o.sub.flexUsed + (IF rows[<<o.date, "skipped">>] > 0 THEN 1 ELSE 0)
              >= Skips + WindowDays(sub)
      BY <2>2, <2>3 DEF FlexHolds
    <3>4. s # "skipped" => rows'[<<o.date, "skipped">>] = rows[<<o.date, "skipped">>]
      BY <1>3, <1>6, <3>2
    <3> QED
      BY <1>5, <1>6, <2>2, <3>3, <3>4
  <2>4. FlexHolds(o)'
    BY <1>1, <1>5, <1>6, <1>7, <2>2, <2>3 DEF FlexHolds
  <2> QED
    BY <1>1, <2>1, <2>4 DEF FlexHolds
<1> QED
  BY <1>1, <1>8 DEF FlexInv

(* The cover is inductive.                                                  *)
LEMMA FlexStep ==
  ASSUME OneHandler, TypeInv, FlexInv, [Next]_vars
  PROVE  FlexInv'
<1>1. rows \in DeliveryDays /\ TypedSub(sub) /\ "skipped" \in DayStatus
  BY DEF TypeInv, DeliveriesInv, PlansTyped, DayStatus
<1>2. ASSUME NEW h \in Handlers, Begin(h) PROVE FlexInv'
  BY <1>2, FlexBegins
<1>3. ASSUME NEW h \in Handlers, BeginPromote(h) PROVE FlexInv'
  BY <1>3, FlexPromotes
<1>4. ASSUME NEW h \in Handlers, Continue(h) PROVE FlexInv'
  BY <1>4, FlexContinues
<1>5. ASSUME NEW p \in PlanSet, OrderUpgrade(p) PROVE FlexInv'
  BY <1>1, <1>5, FlexAround DEF OrderUpgrade
<1>6. CASE ReadSubscription
  <2>1. PICK s : s = sub
    OBVIOUS
  <2>2. PICK e : e = EnsurePauseStatus(s)
    OBVIOUS
  <2>3. sub' = e /\ rows' = rows /\ my' = my
    BY <1>6, <2>1, <2>2 DEF ReadSubscription, EnsurePauseStatus, HasPause, IsAfterSkipCutoff
  <2>4. /\ e.plan = s.plan /\ e.flexUsed = s.flexUsed
        /\ e.pausedFrom = s.pausedFrom /\ e.pausedUntil = s.pausedUntil
    BY <1>1, <2>1, <2>2, Ensured DEF TypedSub
  <2> QED
    BY <1>1, <2>1, <2>3, <2>4, FlexAround
<1>7. ASSUME NEW d \in Dates, MarkDeliveryDelivered(d) PROVE FlexInv'
  BY <1>7, FlexDelivered
<1>8. CASE ExpireActiveSubscriptions
  <2>1. PICK s : s = sub
    OBVIOUS
  <2>2. PICK e : e = [s EXCEPT !.status = "expired"]
    OBVIOUS
  <2>3. sub' = e /\ rows' = rows /\ my' = my
    BY <1>8, <2>1, <2>2 DEF ExpireActiveSubscriptions
  <2>4. /\ e.plan = s.plan /\ e.flexUsed = s.flexUsed
        /\ e.pausedFrom = s.pausedFrom /\ e.pausedUntil = s.pausedUntil
    BY <1>1, <2>1, <2>2 DEF TypedSub, Subscription
  <2> QED
    BY <1>1, <2>1, <2>3, <2>4, FlexAround
<1>9. CASE Tick
  <2>1. sub' = sub /\ rows' = rows
        /\ my' = [h \in Handlers |-> [my[h] EXCEPT !.aged = ~Idle(h)]]
    BY <1>9 DEF Tick
  <2>2. ASSUME NEW h \in Handlers
        PROVE  /\ my'[h].cmd = my[h].cmd /\ my'[h].pc = my[h].pc
               /\ my'[h].sub = my[h].sub /\ my'[h].date = my[h].date
    <3>1. PICK o : o = my[h]
      OBVIOUS
    <3>2. PICK b \in BOOLEAN : b <=> ~Idle(h)
      OBVIOUS
    <3>3. my'[h] = [o EXCEPT !.aged = b]
      BY <2>1, <3>1, <3>2
    <3>4. IsLocal(o)
      BY <3>1, ReadTyped
    <3>5. PICK v : v = [o EXCEPT !.aged = b]
      OBVIOUS
    <3>6. v.cmd = o.cmd /\ v.pc = o.pc /\ v.sub = o.sub /\ v.date = o.date
      BY <3>4, <3>5 DEF IsLocal
    <3> QED
      BY <3>1, <3>3, <3>5, <3>6
  <2> QED
    BY <1>1, <2>1, <2>2, FlexAround
<1>10. CASE UNCHANGED vars
  BY <1>1, <1>10, FlexAround DEF vars
<1> QED
  BY <1>2, <1>3, <1>4, <1>5, <1>6, <1>7, <1>8, <1>9, <1>10 DEF Next

(* A new plan has skipped and booked nothing.                               *)
LEMMA FlexStart == ASSUME OneHandler PROVE Init => FlexInv
<1> SUFFICES ASSUME Init PROVE FlexInv
  OBVIOUS
<1>1. TypeInv
  BY TypesStart
<1>2. PICK s : s = sub
  OBVIOUS
<1>3. s.flexUsed = 0 /\ s.pausedFrom = 0 /\ s.plan \in PlanSet /\ TypedSub(s)
  BY <1>1, <1>2, FirstPlan DEF Init, TypeInv, PlansTyped, TypedSub
<1>4. FlexAllowed[s.plan] \in Nat
  BY <1>3, SubscriptionAssumption
<1>5. WindowDays(s) = 0
  BY <1>3, WindowDaysTyped
<1>6. Skips = 0
  <2>1. rows \in DeliveryDays /\ \A d \in Dates : rows[<<d, "skipped">>] = 0
    <3>1. rows = [p \in Dates \X DayStatus |->
                      IF p \in GenerateDeliveryDays(Plans[1]) \X {"scheduled"} THEN 1 ELSE 0]
          /\ "skipped" \in DayStatus
      BY DEF Init, DayStatus
    <3> QED
      BY <1>1, <3>1 DEF TypeInv, DeliveriesInv
  <2>2. Of(rows, Dates, {"skipped"}) = {}
    <3>1. \A p \in Dates \X {"skipped"} : 1 .. rows[p] = {}
      BY <2>1
    <3> QED
      BY <3>1 DEF Of
  <2> QED
    BY <2>2, HowManyOf, FS_EmptySet DEF Skips
<1>7. ASSUME NEW h \in Handlers PROVE FlexHolds(my[h])
  <2>1. PICK v : v = my[h]
    OBVIOUS
  <2>2. v.cmd = "none"
    BY <2>1, RestingTyped DEF Init
  <2>3. FlexHolds(v)
    BY <1>2, <1>3, <1>5, <1>6, <2>2 DEF FlexHolds
  <2> QED
    BY <2>1, <2>3
<1> QED
  BY <1>2, <1>3, <1>4, <1>7 DEF FlexInv

(* One pool pays for skips and pauses: it is never overdrawn, and covers    *)
(* what is skipped and what is booked, through any sequence of commands and *)
(* upgrades.                                                                *)
THEOREM FlexPoolCovers == ASSUME OneHandler PROVE Spec => []FlexCovers
<1>1. TypeInv /\ FlexInv => FlexCovers
  <2> SUFFICES ASSUME TypeInv, FlexInv, AllIdle PROVE FlexCovers
    BY DEF FlexCovers
  <2>1. PICK h : h \in Handlers
    BY DEF OneHandler
  <2>2. PICK o : o = my[h]
    OBVIOUS
  <2>3. o.cmd = "none"
    BY <2>1, <2>2 DEF AllIdle, Idle
  <2>4. sub.flexUsed <= FlexAllowed[sub.plan] /\ sub.flexUsed >= Skips + WindowDays(sub)
    BY <2>1, <2>2, <2>3, FlexRead DEF FlexHolds
  <2> QED
    BY <2>4 DEF FlexCovers, Skips, WindowDays
<1>2. TypeInv /\ FlexInv /\ [Next]_vars => (TypeInv /\ FlexInv)'
  BY TypesStep, FlexStep
<1>3. Init => TypeInv /\ FlexInv
  BY TypesStart, FlexStart
<1> QED
  BY <1>1, <1>2, <1>3, PTL DEF Spec

-----------------------------------------------------------------------------
(* The meals of a plan that has not been upgraded.                         *)

(* The rows f of a plan that has not been upgraded: a date has one row, and *)
(* is served when it is to be delivered, has been, or waits in the window.  *)
DaysIn(f) == { d \in Dates : \E s \in DayStatus : f[<<d, s>>] > 0 }

Served(f, win) ==
    { d \in Dates : \/ f[<<d, "scheduled">>] > 0
                    \/ f[<<d, "delivered">>] > 0
                    \/ d \in win /\ f[<<d, "paused">>] > 0 }

Enough(f, win, n) == Cardinality(Served(f, win)) >= n

Ends(f, e) == e \in DaysIn(f) /\ \A d \in DaysIn(f) : d <= e

OneRow(f) ==
    /\ \A d \in Dates, s \in DayStatus : f[<<d, s>>] <= 1
    /\ \A d \in Dates, s, t \in DayStatus :
           f[<<d, s>>] > 0 /\ f[<<d, t>>] > 0 => s = t

Paid == MealCount[Plans[1]]

(* What is served, and where the plan ends, before each statement of a      *)
(* command v of the plan s: a skip owes its makeup day, an undo has one to  *)
(* spare, and what a pause moves counts in the window it moves it in.  The  *)
(* row a skip or an undo has found may have been delivered in the meantime: *)
(* an undo then has one to spare already.                                   *)
MealsHold(v, f, s) ==
    LET w == v.sub
        At(cmd, pc) == v.cmd = cmd /\ v.pc = pc
    IN
    /\ v.cmd \in {"none", "cancel", "resubscribe"} =>
           Ends(f, s.endDate) /\ Enough(f, Window(s), Paid)
    /\ At("skip", "days") =>
           /\ Ends(f, s.endDate) /\ w.endDate > s.endDate
           /\ Enough(f, Window(s), Paid)
           /\ \E t \in {"scheduled", "delivered"} : f[<<v.date, t>>] > 0
    /\ At("skip", "more") =>
           /\ Ends(f, s.endDate) /\ w.endDate > s.endDate
           /\ Enough(f, Window(s), Paid - 1)
    /\ At("undo", "days") =>
           /\ Ends(f, s.endDate) /\ w.endDate = s.endDate
           /\ \/ Enough(f, Window(s), Paid) /\ f[<<v.date, "skipped">>] > 0
              \/ Enough(f, Window(s), Paid + 1) /\ f[<<v.date, "delivered">>] > 0
    /\ At("undo", "more") =>
           /\ Ends(f, s.endDate) /\ w.endDate = s.endDate
           /\ Enough(f, Window(s), Paid + 1)
    /\ At("skip", "save") \/ At("undo", "save") =>
           Ends(f, w.endDate) /\ Enough(f, Window(s), Paid)
    /\ At("pause", "days") =>
           /\ Ends(f, s.endDate) /\ Enough(f, {}, Paid)
           /\ v.date = w.pausedFrom /\ v.until = w.pausedUntil
    /\ At("cancelPause", "days") =>
           /\ Ends(f, s.endDate) /\ Enough(f, DaysOf(v.date, v.until), Paid)
           /\ w.pausedFrom = 0
    /\ At("pause", "save") \/ At("cancelPause", "save") =>
           Ends(f, s.endDate) /\ Enough(f, Window(w), Paid)
    /\ At("resume", "days") =>
           /\ Ends(f, s.endDate) /\ w.endDate = s.endDate /\ w.pausedFrom < v.date
           /\ Enough(f, DaysOf(w.pausedFrom, v.until), Paid)
    /\ At("resume", "more") =>
           /\ Ends(f, s.endDate) /\ w.endDate = s.endDate
           /\ Enough(f, DaysOf(w.pausedFrom, v.date - 1), Paid)
    /\ At("resume", "save") => Ends(f, w.endDate) /\ Enough(f, Window(w), Paid)

MealsInv ==
    \A h \in Handlers :
        sub.plan = Plans[1] /\ my[h].cmd # "promote" =>
            OneRow(rows) /\ MealsHold(my[h], rows, sub)

(* The dates that are served are finitely many.                             *)
LEMMA ServedTyped ==
  ASSUME NEW f, NEW win
  PROVE  /\ Served(f, win) \in SUBSET Dates /\ IsFiniteSet(Served(f, win))
         /\ Cardinality(Served(f, win)) \in Nat
<1>1. Served(f, win) \in SUBSET Dates
  BY DEF Served
<1>2. IsFiniteSet(Served(f, win))
  BY <1>1, DatesTyped, FS_Subset
<1> QED
  BY <1>1, <1>2, FS_CardinalityType

(* Serving more dates keeps enough served.                                  *)
LEMMA EnoughKept ==
  ASSUME NEW f, NEW g, NEW win, NEW vin, NEW n \in Int, Enough(f, win, n),
         Served(f, win) \subseteq Served(g, vin)
  PROVE  Enough(g, vin, n)
<1>1. Cardinality(Served(f, win)) <= Cardinality(Served(g, vin))
  BY ServedTyped, FS_Subset
<1>2. Cardinality(Served(f, win)) \in Nat /\ Cardinality(Served(g, vin)) \in Nat
  BY ServedTyped
<1> QED
  BY <1>1, <1>2 DEF Enough

(* Losing one date loses one meal at most.                                  *)
LEMMA EnoughOff ==
  ASSUME NEW f, NEW g, NEW win, NEW d, NEW n \in Int, Enough(f, win, n),
         Served(f, win) \ {d} \subseteq Served(g, win)
  PROVE  Enough(g, win, n - 1)
<1>1. PICK S : S = Served(f, win)
  OBVIOUS
<1>2. PICK T : T = Served(g, win)
  OBVIOUS
<1>3. IsFiniteSet(S) /\ IsFiniteSet(T) /\ Cardinality(S) \in Nat /\ Cardinality(T) \in Nat
  BY <1>1, <1>2, ServedTyped
<1>4. Cardinality(S \ {d}) <= Cardinality(T)
  BY <1>1, <1>2, <1>3, FS_Subset
<1>5. Cardinality(S \ {d}) = IF d \in S THEN Cardinality(S) - 1 ELSE Cardinality(S)
  BY <1>3, FS_RemoveElement
<1> QED
  BY <1>1, <1>2, <1>3, <1>4, <1>5 DEF Enough

(* One more date serves one more meal.                                      *)
LEMMA EnoughOn ==
  ASSUME NEW f, NEW g, NEW win, NEW d, NEW n \in Int, Enough(f, win, n),
         Served(f, win) \subseteq Served(g, win),
         d \notin Served(f, win), d \in Served(g, win)
  PROVE  Enough(g, win, n + 1)
<1>1. PICK S : S = Served(f, win)
  OBVIOUS
<1>2. PICK T : T = Served(g, win)
  OBVIOUS
<1>3. IsFiniteSet(S) /\ IsFiniteSet(T) /\ Cardinality(S) \in Nat /\ Cardinality(T) \in Nat
  BY <1>1, <1>2, ServedTyped
<1>4. Cardinality(S \cup {d}) = Cardinality(S) + 1
  BY <1>1, <1>3, FS_AddElement
<1>5. Cardinality(S \cup {d}) <= Cardinality(T)
  BY <1>1, <1>2, <1>3, FS_Subset
<1> QED
  BY <1>1, <1>2, <1>3, <1>4, <1>5 DEF Enough

(* The one row of a date is given another status.                           *)
Turned(f, g, d, to) ==
    /\ g \in DeliveryDays
    /\ g[<<d, to>>] = 1 /\ \A t \in DayStatus : t # to => g[<<d, t>>] = 0
    /\ \A e \in Dates, t \in DayStatus : e # d => g[<<e, t>>] = f[<<e, t>>]

(* A row that is given another status was the only one of its date.         *)
LEMMA OneTurns ==
  ASSUME NEW f, NEW g, NEW d, NEW found, NEW to, f \in DeliveryDays, g \in DeliveryDays,
         d \in Dates, found \in DayStatus, to \in DayStatus, found # to,
         OneRow(f), f[<<d, found>>] > 0,
         \A e \in Dates, t \in DayStatus :
             g[<<e, t>>] = IF e = d /\ t = to THEN f[<<e, t>>] + 1
                           ELSE IF e = d /\ t = found THEN f[<<e, t>>] - 1
                           ELSE f[<<e, t>>]
  PROVE  Turned(f, g, d, to)
<1>1. \A e \in Dates, t \in DayStatus : f[<<e, t>>] \in Nat
  BY DEF DeliveryDays
<1>2. f[<<d, found>>] = 1 /\ \A t \in DayStatus : t # found => f[<<d, t>>] = 0
  BY <1>1 DEF OneRow
<1> QED
  BY <1>1, <1>2 DEF Turned

(* A statement that writes a row by its id turns the one row of the date.   *)
LEMMA OneMarked ==
  ASSUME NEW f \in DeliveryDays, f = rows, NEW d \in Dates, NEW found \in DayStatus,
         NEW s \in DayStatus, NEW to \in DayStatus, s # to, OneRow(f), f[<<d, s>>] > 0,
         UpdateDeliveryDayStatus(d, found, to)
  PROVE  Turned(f, rows', d, to)
<1>1. PICK t \in DayStatus : rows[<<d, t>>] > 0 /\ MovesRow(d, t, to)
  BY Marked
<1>2. t = s
  BY <1>1 DEF OneRow
<1>3. PICK g : g = rows'
  OBVIOUS
<1>4. /\ g \in DeliveryDays
      /\ \A e \in Dates, u \in DayStatus :
             g[<<e, u>>] = IF e = d /\ u = to THEN f[<<e, u>>] + 1
                           ELSE IF e = d /\ u = s THEN f[<<e, u>>] - 1
                           ELSE f[<<e, u>>]
  BY <1>1, <1>2, <1>3 DEF MovesRow
<1>5. Turned(f, g, d, to)
  BY <1>4, OneTurns
<1> QED
  BY <1>3, <1>5

(* Turning a row leaves the dates with a row as they were.                  *)
LEMMA TurnedRows ==
  ASSUME NEW f, NEW g, NEW d, NEW found, NEW to, f \in DeliveryDays,
         d \in Dates, found \in DayStatus, to \in DayStatus, OneRow(f),
         f[<<d, found>>] > 0, Turned(f, g, d, to)
  PROVE  /\ OneRow(g) /\ DaysIn(g) = DaysIn(f)
         /\ \A t \in DayStatus : t # found => f[<<d, t>>] = 0
<1>1. \A e \in Dates, t \in DayStatus : f[<<e, t>>] \in Nat /\ g[<<e, t>>] \in Nat
  BY DEF DeliveryDays, Turned
<1>2. OneRow(g)
  BY <1>1 DEF OneRow, Turned
<1>3. DaysIn(g) = DaysIn(f)
  <2>1. ASSUME NEW e \in Dates PROVE e \in DaysIn(g) <=> e \in DaysIn(f)
    <3>1. CASE e = d
      BY <3>1 DEF DaysIn, Turned
    <3>2. CASE e # d
      BY <3>2 DEF DaysIn, Turned
    <3> QED
      BY <3>1, <3>2
  <2> QED
    BY <2>1 DEF DaysIn
<1>4. \A t \in DayStatus : t # found => f[<<d, t>>] = 0
  BY <1>1 DEF OneRow
<1> QED
  BY <1>2, <1>3, <1>4

(* New rows on dates that have none.                                        *)
LEMMA CreatedRows ==
  ASSUME NEW f, NEW g, NEW ds, f \in DeliveryDays, g \in DeliveryDays, OneRow(f),
         ds \in SUBSET Dates, ds \cap DaysIn(f) = {},
         \A d \in Dates, s \in DayStatus :
             g[<<d, s>>] = IF d \in ds /\ s = "scheduled" THEN f[<<d, s>>] + 1
                           ELSE f[<<d, s>>]
  PROVE  OneRow(g) /\ DaysIn(g) = DaysIn(f) \cup ds
<1>1. \A e \in Dates, t \in DayStatus : f[<<e, t>>] \in Nat
  BY DEF DeliveryDays
<1>2. \A e \in ds, t \in DayStatus : e \in Dates /\ f[<<e, t>>] = 0
  <2> SUFFICES ASSUME NEW e \in ds, NEW t \in DayStatus
               PROVE  e \in Dates /\ f[<<e, t>>] = 0
    OBVIOUS
  <2>1. e \in Dates /\ e \notin DaysIn(f)
    OBVIOUS
  <2>2. f[<<e, t>>] \in Nat /\ ~(f[<<e, t>>] > 0)
    BY <1>1, <2>1 DEF DaysIn
  <2> QED
    BY <2>1, <2>2
<1>3. "scheduled" \in DayStatus
  BY DEF DayStatus
<1>4. \A e \in Dates, t \in DayStatus :
          g[<<e, t>>] = IF e \in ds THEN (IF t = "scheduled" THEN 1 ELSE 0)
                        ELSE f[<<e, t>>]
  <2> SUFFICES ASSUME NEW e \in Dates, NEW t \in DayStatus
               PROVE  g[<<e, t>>] = IF e \in ds THEN (IF t = "scheduled" THEN 1 ELSE 0)
                                    ELSE f[<<e, t>>]
    OBVIOUS
  <2>1. CASE e \in ds
    <3>1. f[<<e, t>>] = 0
      BY <1>2, <2>1
    <3> QED
      BY <2>1, <3>1
  <2>2. CASE e \notin ds
    BY <2>2
  <2> QED
    BY <2>1, <2>2
<1>5. OneRow(g)
  <2>1. \A e \in Dates, t \in DayStatus : g[<<e, t>>] <= 1
    <3> SUFFICES ASSUME NEW e \in Dates, NEW t \in DayStatus PROVE g[<<e, t>>] <= 1
      OBVIOUS
    <3>1. f[<<e, t>>] <= 1
      BY DEF OneRow
    <3>2. CASE e \in ds
      BY <1>2, <3>2
    <3>3. CASE e \notin ds
      BY <3>1, <3>3
    <3> QED
      BY <3>2, <3>3
  <2>2. \A e \in Dates, s, t \in DayStatus : g[<<e, s>>] > 0 /\ g[<<e, t>>] > 0 => s = t
    BY <1>4 DEF OneRow
  <2> QED
    BY <2>1, <2>2 DEF OneRow
<1>6. DaysIn(g) = DaysIn(f) \cup ds
  <2>1. ASSUME NEW e \in Dates PROVE e \in DaysIn(g) <=> e \in DaysIn(f) \/ e \in ds
    <3>1. CASE e \in ds
      <4>1. g[<<e, "scheduled">>] > 0
        BY <1>3, <1>4, <3>1
      <4> QED
        BY <1>3, <3>1, <4>1 DEF DaysIn
    <3>2. CASE e \notin ds
      BY <1>4, <3>2 DEF DaysIn
    <3> QED
      BY <3>1, <3>2
  <2> QED
    BY <2>1 DEF DaysIn
<1> QED
  BY <1>5, <1>6

(* The rows of a range are moved from one status to another.                *)
RangeMoved(f, g, range, old, new) ==
    /\ \A d \in Dates, s \in DayStatus :
           /\ s # old /\ s # new => g[<<d, s>>] = f[<<d, s>>]
           /\ d \notin range => g[<<d, s>>] = f[<<d, s>>]
    /\ \A d \in Dates :
           d \in range => /\ g[<<d, old>>] = 0
                          /\ g[<<d, new>>] = f[<<d, new>>] + f[<<d, old>>]

(* They still have one row each, and no other date has one.                 *)
LEMMA MovedRows ==
  ASSUME NEW f, NEW g, NEW range, NEW old, NEW new, f \in DeliveryDays, g \in DeliveryDays,
         OneRow(f), old \in DayStatus, new \in DayStatus, old # new,
         RangeMoved(f, g, range, old, new)
  PROVE  OneRow(g) /\ DaysIn(g) = DaysIn(f)
<1> USE DEF RangeMoved
<1>1. \A e \in Dates, t \in DayStatus : f[<<e, t>>] \in Nat /\ g[<<e, t>>] \in Nat
  BY DEF DeliveryDays
<1>2. ASSUME NEW e \in Dates
      PROVE  /\ \A t \in DayStatus : g[<<e, t>>] <= 1
             /\ \A s, t \in DayStatus : g[<<e, s>>] > 0 /\ g[<<e, t>>] > 0 => s = t
             /\ e \in DaysIn(g) <=> e \in DaysIn(f)
  <2>1. CASE e \notin range
    BY <2>1 DEF OneRow, DaysIn
  <2>2. CASE e \in range
    <3>1. \A t \in DayStatus : t # old /\ t # new => g[<<e, t>>] = f[<<e, t>>]
      OBVIOUS
    <3>2. g[<<e, old>>] = 0 /\ g[<<e, new>>] = f[<<e, new>>] + f[<<e, old>>]
      BY <2>2
    <3>3. f[<<e, old>>] = 0 \/ f[<<e, new>>] = 0
      BY <1>1 DEF OneRow
    <3>4. f[<<e, old>>] \in Nat /\ f[<<e, new>>] \in Nat
      BY <1>1
    <3>5. \A t \in DayStatus : f[<<e, t>>] <= 1
      BY DEF OneRow
    <3>6. \A s, t \in DayStatus : f[<<e, s>>] > 0 /\ f[<<e, t>>] > 0 => s = t
      BY DEF OneRow
    <3>7. g[<<e, new>>] > 0 => f[<<e, new>>] > 0 \/ f[<<e, old>>] > 0
      BY <3>2, <3>4
    <3>8. g[<<e, new>>] <= 1
      BY <3>2, <3>3, <3>4, <3>5
    <3>9. \A t \in DayStatus : g[<<e, t>>] <= 1
      BY <3>1, <3>2, <3>5, <3>8
    <3>10. \A s, t \in DayStatus : g[<<e, s>>] > 0 /\ g[<<e, t>>] > 0 => s = t
      BY <3>1, <3>2, <3>6, <3>7
    <3>11. e \in DaysIn(g) <=> e \in DaysIn(f)
      <4>1. ASSUME NEW t \in DayStatus, f[<<e, t>>] > 0
            PROVE  \E s \in DayStatus : g[<<e, s>>] > 0
        <5>1. CASE t # old /\ t # new
          BY <3>1, <4>1, <5>1
        <5>2. CASE t = old \/ t = new
          BY <3>2, <3>4, <4>1, <5>2
        <5> QED
          BY <5>1, <5>2
      <4>2. ASSUME NEW t \in DayStatus, g[<<e, t>>] > 0
            PROVE  \E s \in DayStatus : f[<<e, s>>] > 0
        <5>1. CASE t # old /\ t # new
          BY <3>1, <4>2, <5>1
        <5>2. CASE t = old \/ t = new
          BY <3>2, <3>7, <4>2, <5>2
        <5> QED
          BY <5>1, <5>2
      <4> QED
        BY <4>1, <4>2 DEF DaysIn
    <3> QED
      BY <3>9, <3>10, <3>11
  <2> QED
    BY <2>1, <2>2
<1>3. OneRow(g)
  BY <1>2 DEF OneRow
<1>4. DaysIn(g) = DaysIn(f)
  BY <1>2 DEF DaysIn
<1> QED
  BY <1>3, <1>4

(* One date, whose row is scheduled, loses it.                              *)
LEMMA DeletedRows ==
  ASSUME NEW f, NEW g, NEW m, f \in DeliveryDays, g \in DeliveryDays, OneRow(f),
         f[<<m, "scheduled">>] > 0, m \in Dates,
         \A d \in Dates, s \in DayStatus :
             g[<<d, s>>] = IF s = "scheduled" /\ d \notin DaysIn(f) \ {m} THEN 0
                           ELSE f[<<d, s>>]
  PROVE  /\ OneRow(g) /\ DaysIn(g) = DaysIn(f) \ {m}
         /\ \A d \in Dates, s \in DayStatus : d # m => g[<<d, s>>] = f[<<d, s>>]
<1>1. \A e \in Dates, t \in DayStatus : f[<<e, t>>] \in Nat
  BY DEF DeliveryDays
<1>2. "scheduled" \in DayStatus
  BY DEF DayStatus
<1>3. \A t \in DayStatus : t # "scheduled" => f[<<m, t>>] = 0
  BY <1>1, <1>2 DEF OneRow
<1>4. \A t \in DayStatus : g[<<m, t>>] = 0
  BY <1>3
<1>5. \A d \in Dates, s \in DayStatus : d # m => g[<<d, s>>] = f[<<d, s>>]
  <2> SUFFICES ASSUME NEW d \in Dates, NEW s \in DayStatus, d # m
               PROVE  g[<<d, s>>] = f[<<d, s>>]
    OBVIOUS
  <2>1. CASE d \in DaysIn(f)
    BY <2>1
  <2>2. CASE d \notin DaysIn(f)
    <3>1. f[<<d, s>>] = 0
      BY <1>1, <2>2 DEF DaysIn
    <3> QED
      BY <3>1
  <2> QED
    BY <2>1, <2>2
<1>6. OneRow(g)
  BY <1>4, <1>5 DEF OneRow
<1>7. DaysIn(g) = DaysIn(f) \ {m}
  <2>1. ASSUME NEW d \in Dates PROVE d \in DaysIn(g) <=> d \in DaysIn(f) /\ d # m
    <3>1. CASE d = m
      <4>1. \A t \in DayStatus : ~(g[<<m, t>>] > 0)
        BY <1>4
      <4> QED
        BY <3>1, <4>1 DEF DaysIn
    <3>2. CASE d # m
      BY <1>5, <3>2 DEF DaysIn
    <3> QED
      BY <3>1, <3>2
  <2> QED
    BY <2>1 DEF DaysIn
<1> QED
  BY <1>5, <1>6, <1>7

(* A plan pays for some meals.                                              *)
LEMMA PaidTyped == Paid \in Nat /\ Paid > 0
BY FirstPlan, SubscriptionAssumption DEF Paid

(* The window depends on its two columns only.                              *)
LEMMA WindowSame ==
  ASSUME NEW s, NEW t, s.pausedFrom = t.pausedFrom, s.pausedUntil = t.pausedUntil
  PROVE  Window(s) = Window(t)
BY DEF Window, HasPause

(* With one handler only its own local state is to be looked at.            *)
LEMMA OneMeals ==
  ASSUME OneHandler, TypeInv, NEW h \in Handlers, NEW v, my' = [my EXCEPT ![h] = v],
         sub'.plan = Plans[1] /\ v.cmd # "promote" =>
             OneRow(rows') /\ MealsHold(v, rows', sub')
  PROVE  MealsInv'
<1>1. \A k \in Handlers : my'[k] = v
  BY DEF OneHandler, TypeInv, DeliveriesInv
<1> QED
  BY <1>1 DEF MealsInv

(* A command that begins finds what its first statement relies on.          *)
LEMMA MealsStarted ==
  ASSUME OneHandler, TypeInv, MealsInv, NEW h \in Handlers,
         NEW cmd, NEW pc, NEW s, NEW w, NEW d, NEW u, NEW v,
         Start(h, cmd, pc, s, w, d, u), s.plan = sub.plan,
         v = [cmd |-> cmd, pc |-> pc, sub |-> w, date |-> d, until |-> u, aged |-> FALSE],
         sub.plan = Plans[1] => MealsHold(v, rows, s)
  PROVE  MealsInv'
<1>1. Idle(h) /\ sub' = s /\ my' = [my EXCEPT ![h] = v] /\ rows' = rows
  BY DEF Start, MayBegin
<1>2. sub.plan = Plans[1] => OneRow(rows)
  BY <1>1 DEF MealsInv, Idle
<1> QED
  BY <1>1, <1>2, OneMeals

(* A statement of a command leaves what the next one relies on.             *)
LEMMA MealsMoved ==
  ASSUME OneHandler, TypeInv, NEW h \in Handlers, NEW pc, NEW w, NEW o, NEW v,
         Goto(h, pc, w), o = my[h],
         v = [cmd |-> o.cmd, pc |-> pc, sub |-> w, date |-> o.date, until |-> o.until,
              aged |-> o.aged],
         sub.plan = Plans[1] /\ o.cmd # "promote" =>
             OneRow(rows') /\ MealsHold(v, rows', sub)
  PROVE  MealsInv'
<1>1. sub' = sub /\ my' = [my EXCEPT ![h] = [o EXCEPT !.pc = pc, !.sub = w]]
  BY DEF Goto
<1>2. IsLocal(o) /\ v.cmd = o.cmd
  BY ReadTyped
<1>3. [o EXCEPT !.pc = pc, !.sub = w] = v
  <2>1. [o EXCEPT !.pc = pc] = [cmd |-> o.cmd, pc |-> pc, sub |-> o.sub, date |-> o.date,
                                until |-> o.until, aged |-> o.aged]
    BY <1>2 DEF IsLocal
  <2>2. [[cmd |-> o.cmd, pc |-> pc, sub |-> o.sub, date |-> o.date, until |-> o.until,
          aged |-> o.aged] EXCEPT !.sub = w] = v
    OBVIOUS
  <2> QED
    BY <2>1, <2>2
<1> QED
  BY <1>1, <1>2, <1>3, OneMeals

(* Every command begins with the meals there and the end where it was.      *)
LEMMA MealsBegins ==
  ASSUME OneHandler, TypeInv, MealsInv, NEW h \in Handlers, Begin(h)
  PROVE  MealsInv'
<1>1. PICK s : s = EnsurePauseStatus(sub)
  OBVIOUS
<1>2. PICK r : r = sub
  OBVIOUS
<1>3. PICK f \in DeliveryDays : f = rows
  BY DEF TypeInv, DeliveriesInv
<1>4. TypedSub(r)
  BY <1>2 DEF TypeInv, PlansTyped, TypedSub
<1>5. /\ TypedSub(s) /\ s.plan = r.plan /\ s.endDate = r.endDate
      /\ s.pausedFrom = r.pausedFrom /\ s.pausedUntil = r.pausedUntil
  <2>1. s = EnsurePauseStatus(r)
    BY <1>1, <1>2 DEF EnsurePauseStatus, HasPause, IsAfterSkipCutoff
  <2> QED
    BY <1>4, <2>1, Ensured
<1>6. r.plan = Plans[1] =>
          OneRow(f) /\ Ends(f, r.endDate) /\ Enough(f, Window(r), Paid)
  BY <1>2, <1>3 DEF MealsInv, MealsHold, Begin, MayBegin, Idle
<1>7. s \in Subscription /\ Dates \subseteq Nat \ {0} /\ Window(s) = Window(r)
  BY <1>5, DatesTyped, WindowSame DEF TypedSub
<1>8. s.endDate \in Nat /\ s.pausedFrom \in Dates \cup {0} /\ s.pausedUntil \in Dates \cup {0}
  BY <1>7, SubFields
<1>9. ASSUME NEW d \in Dates, BeginSkip(h, d) PROVE MealsInv'
  <2>1. PICK m : m = MakeupAnchor(s, d)
    OBVIOUS
  <2>2. m \in Int /\ m > s.endDate
    <3>1. s.endDate \in Int /\ d \in Int
      BY <1>7, <1>8
    <3>2. PICK x : x = Max({s.endDate, d})
      OBVIOUS
    <3>3. x \in {s.endDate, d} /\ x >= s.endDate
      BY <3>1, <3>2, MaxOfTwo
    <3>4. m = x + 1
      BY <2>1, <3>2 DEF MakeupAnchor
    <3> QED
      BY <3>1, <3>3, <3>4
  <2>3. PICK e : e = AddWorkingDaysForward(m, 1)
    OBVIOUS
  <2>4. Reaches(m, 1)
    BY <1>1, <1>9, <2>1 DEF BeginSkip
  <2>5. e \in Dates /\ e >= m
    BY <2>2, <2>3, <2>4, Forward
  <2>6. PICK w : w = [s EXCEPT !.flexUsed = @ + 1, !.skippedCount = @ + 1,
                               !.totalMealDays = @ + 1, !.endDate = e]
    OBVIOUS
  <2>7. w.endDate = e
    BY <1>7, <2>6 DEF Subscription
  <2>8. Start(h, "skip", "days", s, w, d, 0) /\ f[<<d, "scheduled">>] > 0
    BY <1>1, <1>3, <1>9, <2>1, <2>3, <2>6 DEF BeginSkip, MaySkip, RowsAt
  <2>9. PICK v : v = [cmd |-> "skip", pc |-> "days", sub |-> w, date |-> d, until |-> 0,
                      aged |-> FALSE]
    OBVIOUS
  <2>10. w.endDate > s.endDate
    BY <1>7, <1>8, <2>2, <2>5, <2>7
  <2>11. v.cmd = "skip" /\ v.pc = "days" /\ v.sub = w /\ v.date = d
    BY <2>9
  <2>12. r.plan = Plans[1] => MealsHold(v, f, s)
    BY <1>5, <1>6, <1>7, <2>8, <2>10, <2>11 DEF MealsHold
  <2> QED
    BY <1>2, <1>3, <1>5, <2>8, <2>9, <2>12, MealsStarted
<1>10. ASSUME NEW d \in Dates, BeginUndo(h, d) PROVE MealsInv'
  <2>1. PICK w : w = [s EXCEPT !.flexUsed = Refund(@, 1), !.skippedCount = Refund(@, 1)]
    OBVIOUS
  <2>2. Start(h, "undo", "days", s, w, d, 0) /\ f[<<d, "skipped">>] > 0
    BY <1>1, <1>3, <1>10, <2>1 DEF BeginUndo, MayUndo, RowsAt
  <2>3. w.endDate = s.endDate
    BY <1>7, <2>1 DEF Subscription
  <2>4. PICK v : v = [cmd |-> "undo", pc |-> "days", sub |-> w, date |-> d, until |-> 0,
                      aged |-> FALSE]
    OBVIOUS
  <2>5. v.cmd = "undo" /\ v.pc = "days" /\ v.sub = w /\ v.date = d
    BY <2>4
  <2>6. r.plan = Plans[1] => MealsHold(v, f, s)
    BY <1>5, <1>6, <1>7, <2>2, <2>3, <2>5 DEF MealsHold
  <2> QED
    BY <1>2, <1>3, <1>5, <2>2, <2>4, <2>6, MealsStarted
<1>11. ASSUME NEW d \in Dates, BeginResume(h, d) PROVE MealsInv'
  <2>1. PICK u : u = s.pausedUntil
    OBVIOUS
  <2>2. PICK w : w = [s EXCEPT !.flexUsed = Refund(@, CountWorkingDaysInRange(d, u))]
    OBVIOUS
  <2>3. /\ Start(h, "resume", "days", s, w, d, u)
        /\ s.pausedFrom # 0 /\ d \in s.pausedFrom + 1 .. u
    BY <1>1, <1>11, <2>1, <2>2 DEF BeginResume, MayResume, HasPause
  <2>4. w.endDate = s.endDate /\ w.pausedFrom = s.pausedFrom
    BY <1>7, <2>2 DEF Subscription
  <2>5. PICK v : v = [cmd |-> "resume", pc |-> "days", sub |-> w, date |-> d, until |-> u,
                      aged |-> FALSE]
    OBVIOUS
  <2>6. v.cmd = "resume" /\ v.pc = "days" /\ v.sub = w /\ v.date = d /\ v.until = u
    BY <2>5
  <2>7. Window(r) = DaysOf(w.pausedFrom, u)
    BY <1>7, <2>1, <2>3, <2>4 DEF Window, HasPause, DaysOf
  <2>8. w.pausedFrom < d
    <3>1. s.pausedFrom \in Nat /\ d \in Nat /\ d \in s.pausedFrom + 1 .. u
      <4>1. \A e \in Dates \cup {0} : e \in Nat
        BY <1>7
      <4> QED
        BY <1>8, <2>3, <4>1
    <3>2. d >= s.pausedFrom + 1
      BY <3>1
    <3> QED
      BY <2>4, <3>1, <3>2
  <2>9. r.plan = Plans[1] => MealsHold(v, f, s)
    BY <1>5, <1>6, <2>4, <2>6, <2>7, <2>8 DEF MealsHold
  <2> QED
    BY <1>2, <1>3, <1>5, <2>3, <2>5, <2>9, MealsStarted
<1>12. ASSUME NEW from \in Dates, NEW u \in Dates, BeginPause(h, from, u) PROVE MealsInv'
  <2>1. PICK w : w = [s EXCEPT !.pausedFrom = from, !.pausedUntil = u,
                               !.flexUsed = @ + CountWorkingDaysInRange(from, u)]
    OBVIOUS
  <2>2. Start(h, "pause", "days", s, w, from, u) /\ s.pausedFrom = 0
    BY <1>1, <1>12, <2>1 DEF BeginPause, MayPause, HasPause
  <2>3. w.pausedFrom = from /\ w.pausedUntil = u
    BY <1>7, <2>1 DEF Subscription
  <2>4. PICK v : v = [cmd |-> "pause", pc |-> "days", sub |-> w, date |-> from, until |-> u,
                      aged |-> FALSE]
    OBVIOUS
  <2>5. v.cmd = "pause" /\ v.pc = "days" /\ v.sub = w /\ v.date = from /\ v.until = u
    BY <2>4
  <2>6. Window(r) = {}
    BY <1>7, <2>2 DEF Window, HasPause
  <2>7. r.plan = Plans[1] => MealsHold(v, f, s)
    BY <1>5, <1>6, <2>3, <2>5, <2>6 DEF MealsHold
  <2> QED
    BY <1>2, <1>3, <1>5, <2>2, <2>4, <2>7, MealsStarted
<1>13. CASE BeginCancelPause(h)
  <2>1. PICK from, u : from = s.pausedFrom /\ u = s.pausedUntil
    OBVIOUS
  <2>2. PICK w : w = WithoutPause(s, "active", CountWorkingDaysInRange(from, u))
    OBVIOUS
  <2>3. Start(h, "cancelPause", "days", s, w, from, u) /\ s.pausedFrom # 0
    BY <1>1, <1>13, <2>1, <2>2 DEF BeginCancelPause, MayCancelPause, HasPause
  <2>4. w.pausedFrom = 0
    BY <1>7, <2>2 DEF Subscription, WithoutPause
  <2>5. PICK v : v = [cmd |-> "cancelPause", pc |-> "days", sub |-> w, date |-> from,
                      until |-> u, aged |-> FALSE]
    OBVIOUS
  <2>6. v.cmd = "cancelPause" /\ v.pc = "days" /\ v.sub = w /\ v.date = from /\ v.until = u
    BY <2>5
  <2>7. Window(r) = DaysOf(from, u)
    BY <1>7, <2>1, <2>3 DEF Window, HasPause, DaysOf
  <2>8. r.plan = Plans[1] => MealsHold(v, f, s)
    BY <1>5, <1>6, <2>4, <2>6, <2>7 DEF MealsHold
  <2> QED
    BY <1>2, <1>3, <1>5, <2>3, <2>5, <2>8, MealsStarted
<1>14. CASE BeginCancel(h) \/ BeginResubscribe(h)
  <2>1. PICK cmd \in {"cancel", "resubscribe"}, status \in SubscriptionStatus :
            Start(h, cmd, "save", r, [r EXCEPT !.status = status], 0, 0)
    BY <1>2, <1>14 DEF BeginCancel, BeginResubscribe, SubscriptionStatus
  <2>2. PICK w : w = [r EXCEPT !.status = status]
    OBVIOUS
  <2>3. PICK v : v = [cmd |-> cmd, pc |-> "save", sub |-> w, date |-> 0, until |-> 0,
                      aged |-> FALSE]
    OBVIOUS
  <2>4. v.cmd = cmd /\ v.pc = "save"
    BY <2>3
  <2>5. r.plan = Plans[1] => MealsHold(v, f, r)
    BY <1>6, <2>1, <2>4 DEF MealsHold
  <2> QED
    BY <1>2, <1>3, <2>1, <2>2, <2>3, <2>5, MealsStarted
<1> QED
  BY <1>9, <1>10, <1>11, <1>12, <1>13, <1>14 DEF Begin

(* Dates with a row of some statuses are no more than the rows.             *)
LEMMA DatesFew ==
  ASSUME NEW f \in DeliveryDays, NEW ds \in SUBSET Dates, NEW ss \in SUBSET DayStatus,
         NEW B, B = { d \in ds : \E s \in ss : f[<<d, s>>] > 0 }
  PROVE  /\ IsFiniteSet(B) /\ Cardinality(B) \in Nat
         /\ Cardinality(B) <= Cardinality(Of(f, ds, ss))
<1>1. PICK R : R = { x \in Of(f, ds, ss) : TRUE }
  OBVIOUS
<1>2. R = Of(f, ds, ss) /\ IsFiniteSet(R) /\ Cardinality(R) \in Nat
  BY <1>1, OfFinite
<1> DEFINE date == [x \in R |-> x[1][1]]
<1>3. ASSUME NEW x \in R PROVE date[x] \in B
  <2>1. PICK p \in ds \X ss : \E i \in 1 .. f[p] : x = <<p, i>>
    BY <1>2, OfMembers
  <2>2. PICK i \in 1 .. f[p] : x = <<p, i>>
    BY <2>1
  <2>3. PICK d \in ds, s \in ss : p = <<d, s>>
    OBVIOUS
  <2>4. f[<<d, s>>] \in Nat
    BY DEF DeliveryDays
  <2>5. f[<<d, s>>] > 0
    BY <2>2, <2>3, <2>4
  <2>6. x[1][1] = d
    BY <2>2, <2>3
  <2> QED
    BY <2>5, <2>6
<1>4. ASSUME NEW d \in B PROVE \E x \in R : date[x] = d
  <2>1. PICK s \in ss : f[<<d, s>>] > 0
    OBVIOUS
  <2>2. PICK p : p = <<d, s>>
    OBVIOUS
  <2>3. p \in ds \X ss /\ f[p] \in Nat /\ f[p] > 0
    BY <2>1, <2>2 DEF DeliveryDays
  <2>4. PICK i \in 1 .. f[p] : i = 1
    BY <2>3
  <2>5. PICK x : x = <<p, i>>
    OBVIOUS
  <2>6. x \in R
    BY <1>2, <2>3, <2>5, OfMembers
  <2>7. x[1][1] = d
    BY <2>2, <2>5
  <2> QED
    BY <2>6, <2>7
<1>5. date \in [R -> B] /\ \A d \in B : \E x \in R : date[x] = d
  BY <1>3, <1>4
<1>6. date \in Surjection(R, B)
  BY <1>5 DEF Surjection
<1>7. IsFiniteSet(B) /\ Cardinality(B) <= Cardinality(R)
  BY <1>2, <1>6, FS_Surjection
<1> QED
  BY <1>2, <1>7, FS_CardinalityType

(* A date whose row is turned is all that a window may lose.                *)
LEMMA TurnedServes ==
  ASSUME NEW f, NEW g, NEW d, NEW to, NEW win, Turned(f, g, d, to), d \in Dates
  PROVE  /\ Served(f, win) \ {d} \subseteq Served(g, win)
         /\ to \in {"scheduled", "delivered"} =>
                d \in Served(g, win) /\ Served(f, win) \subseteq Served(g, win)
<1>1. {"scheduled", "delivered", "paused"} \subseteq DayStatus
  BY DEF DayStatus
<1>2. Served(f, win) \ {d} \subseteq Served(g, win)
  BY <1>1 DEF Served, Turned
<1>3. to \in {"scheduled", "delivered"} => d \in Served(g, win)
  BY DEF Served, Turned
<1> QED
  BY <1>2, <1>3

(* What a command relies on, when the plan has not been upgraded.           *)
LEMMA MealsRead ==
  ASSUME TypeInv, MealsInv, NEW h \in Handlers, NEW o, o = my[h], sub.plan = Plans[1],
         o.cmd # "promote"
  PROVE  /\ OneRow(rows) /\ MealsHold(o, rows, sub) /\ rows \in DeliveryDays
         /\ LocalHolds(o) /\ o.sub \in Subscription /\ TypedSub(o.sub)
BY ReadTyped DEF MealsInv, LocalHolds

(* A skip takes a meal away and appends its makeup day after the end.       *)
LEMMA MealsSkips ==
  ASSUME OneHandler, TypeInv, MealsInv, NEW h \in Handlers,
         MarkSkipped(h) \/ AddMakeupDay(h)
  PROVE  MealsInv'
<1>1. PICK o : o = my[h]
  OBVIOUS
<1>2. PICK f \in DeliveryDays : f = rows
  BY DEF TypeInv, DeliveriesInv
<1>3. PICK g : g = rows'
  OBVIOUS
<1>4. PICK s : s = sub
  OBVIOUS
<1>5. o.cmd = "skip" /\ o.date \in Dates /\ o.sub.endDate \in Dates
  <2>1. o.cmd = "skip"
    BY <1>1 DEF MarkSkipped, AddMakeupDay, Busy
  <2> QED
    BY <1>1, <2>1, ReadTyped, SubFields DEF LocalHolds
<1>6. s.plan = Plans[1] => OneRow(f) /\ MealsHold(o, f, s)
  BY <1>1, <1>2, <1>4, <1>5, MealsRead
<1>7. "scheduled" \in DayStatus /\ "skipped" \in DayStatus
      /\ Paid \in Int /\ Paid - 1 \in Int /\ Dates \subseteq Nat
  BY PaidTyped, DatesTyped DEF DayStatus
<1>8. CASE MarkSkipped(h)
  <2>1. o.pc = "days" /\ UpdateDeliveryDayStatus(o.date, "scheduled", "skipped")
        /\ Goto(h, "more", o.sub)
    BY <1>1, <1>8 DEF MarkSkipped, Busy
  <2>2. PICK v : v = [cmd |-> o.cmd, pc |-> "more", sub |-> o.sub, date |-> o.date,
                      until |-> o.until, aged |-> o.aged]
    OBVIOUS
  <2>3. v.cmd = "skip" /\ v.pc = "more" /\ v.sub = o.sub
    BY <1>5, <2>2
  <2>4. ASSUME s.plan = Plans[1] PROVE OneRow(g) /\ MealsHold(v, g, s)
    <3>1. /\ OneRow(f) /\ Ends(f, s.endDate)
          /\ o.sub.endDate > s.endDate /\ Enough(f, Window(s), Paid)
          /\ \E t \in {"scheduled", "delivered"} : f[<<o.date, t>>] > 0
      BY <1>5, <1>6, <2>1, <2>4 DEF MealsHold
    <3>2. PICK t \in {"scheduled", "delivered"} : f[<<o.date, t>>] > 0
      BY <3>1
    <3>3. Turned(f, g, o.date, "skipped") /\ t \in DayStatus
      <4>1. t \in DayStatus /\ t # "skipped"
        BY <3>2 DEF DayStatus
      <4> QED
        BY <1>2, <1>3, <1>5, <1>7, <2>1, <3>1, <3>2, <4>1, OneMarked
    <3>4. OneRow(g) /\ DaysIn(g) = DaysIn(f)
      BY <1>5, <1>7, <3>1, <3>2, <3>3, TurnedRows
    <3>5. Served(f, Window(s)) \ {o.date} \subseteq Served(g, Window(s))
      BY <1>5, <3>3, TurnedServes
    <3>6. Enough(g, Window(s), Paid - 1)
      BY <1>7, <3>1, <3>5, EnoughOff
    <3> QED
      BY <2>3, <3>1, <3>4, <3>6 DEF MealsHold, Ends
  <2> QED
    BY <1>1, <1>3, <1>4, <2>1, <2>2, <2>4, MealsMoved
<1>9. CASE AddMakeupDay(h)
  <2>1. PICK e : e = o.sub.endDate
    OBVIOUS
  <2>2. o.pc = "more" /\ BulkCreateDeliveryDays({e}) /\ Goto(h, "save", o.sub)
    BY <1>1, <1>9, <2>1 DEF AddMakeupDay, Busy
  <2>3. PICK v : v = [cmd |-> o.cmd, pc |-> "save", sub |-> o.sub, date |-> o.date,
                      until |-> o.until, aged |-> o.aged]
    OBVIOUS
  <2>4. v.cmd = "skip" /\ v.pc = "save" /\ v.sub = o.sub
    BY <1>5, <2>3
  <2>5. ASSUME s.plan = Plans[1] PROVE OneRow(g) /\ MealsHold(v, g, s)
    <3>1. /\ OneRow(f) /\ Ends(f, s.endDate)
          /\ e > s.endDate /\ Enough(f, Window(s), Paid - 1)
      BY <1>5, <1>6, <2>1, <2>2, <2>5 DEF MealsHold
    <3>2. /\ g \in DeliveryDays
          /\ \A d \in Dates, t \in DayStatus :
                 g[<<d, t>>] = IF d \in {e} /\ t = "scheduled" THEN f[<<d, t>>] + 1
                               ELSE f[<<d, t>>]
      BY <1>2, <1>3, <2>2, Created
    <3>3. s.endDate \in Dates
      BY <3>1 DEF Ends, DaysIn
    <3>4. e \in Dates /\ s.endDate \in Nat /\ e \in Nat /\ \A d \in DaysIn(f) : d \in Nat
      BY <1>5, <1>7, <2>1, <3>3 DEF DaysIn
    <3>5. e \notin DaysIn(f) /\ \A d \in DaysIn(f) : d <= e
      BY <3>1, <3>4 DEF Ends
    <3>6. OneRow(g) /\ DaysIn(g) = DaysIn(f) \cup {e}
      <4>1. PICK ds : ds = {e}
        OBVIOUS
      <4>2. ds \in SUBSET Dates /\ ds \cap DaysIn(f) = {}
        BY <3>4, <3>5, <4>1
      <4>3. \A d \in Dates, t \in DayStatus :
                g[<<d, t>>] = IF d \in ds /\ t = "scheduled" THEN f[<<d, t>>] + 1
                              ELSE f[<<d, t>>]
        BY <3>2, <4>1
      <4> QED
        BY <3>1, <3>2, <4>1, <4>2, <4>3, CreatedRows
    <3>7. Ends(g, e)
      BY <3>4, <3>5, <3>6 DEF Ends
    <3>8. {"scheduled", "delivered", "paused"} \subseteq DayStatus
      BY DEF DayStatus
    <3>9. f[<<e, "scheduled">>] = 0 /\ f[<<e, "delivered">>] = 0 /\ f[<<e, "paused">>] = 0
      <4>1. \A t \in DayStatus : f[<<e, t>>] \in Nat /\ ~(f[<<e, t>>] > 0)
        BY <3>4, <3>5 DEF DaysIn, DeliveryDays
      <4> QED
        BY <3>8, <4>1
    <3>10. e \notin Served(f, Window(s))
      BY <3>9 DEF Served
    <3>11. g[<<e, "scheduled">>] = 1
      BY <3>2, <3>4, <3>8, <3>9
    <3>12. e \in Served(g, Window(s))
      BY <3>4, <3>11 DEF Served
    <3>13. Served(f, Window(s)) \subseteq Served(g, Window(s))
      <4>1. \A d \in Dates, t \in DayStatus : d # e => g[<<d, t>>] = f[<<d, t>>]
        BY <3>2
      <4> QED
        BY <3>8, <3>10, <4>1 DEF Served
    <3>14. Enough(g, Window(s), (Paid - 1) + 1)
      BY <1>7, <3>1, <3>10, <3>12, <3>13, EnoughOn
    <3>15. (Paid - 1) + 1 = Paid
      BY <1>7
    <3> QED
      BY <2>1, <2>4, <3>6, <3>7, <3>14, <3>15 DEF MealsHold
  <2> QED
    BY <1>1, <1>3, <1>4, <2>2, <2>3, <2>5, MealsMoved
<1> QED
  BY <1>8, <1>9

(* An undo brings the meal back and then deletes its makeup day, which may  *)
(* have been the last.                                                      *)
LEMMA MealsUndoes ==
  ASSUME OneHandler, TypeInv, MealsInv, NEW h \in Handlers,
         MarkUnskipped(h) \/ DeleteMakeupDay(h)
  PROVE  MealsInv'
<1>1. PICK o : o = my[h]
  OBVIOUS
<1>2. PICK f \in DeliveryDays : f = rows
  BY DEF TypeInv, DeliveriesInv
<1>3. PICK g : g = rows'
  OBVIOUS
<1>4. PICK s : s = sub
  OBVIOUS
<1>5. o.cmd = "undo" /\ o.date \in Dates /\ o.sub \in Subscription /\ RowsAt(o.date) # {}
  <2>1. o.cmd = "undo"
    BY <1>1 DEF MarkUnskipped, DeleteMakeupDay, Busy
  <2> QED
    BY <1>1, <2>1, ReadTyped DEF LocalHolds
<1>6. s.plan = Plans[1] => OneRow(f) /\ MealsHold(o, f, s)
  BY <1>1, <1>2, <1>4, <1>5, MealsRead
<1>7. "scheduled" \in DayStatus /\ "skipped" \in DayStatus
      /\ Paid \in Int /\ Paid + 1 \in Int /\ Dates \subseteq Nat /\ 0 \notin Dates
  BY PaidTyped, DatesTyped DEF DayStatus
<1>8. CASE MarkUnskipped(h)
  <2>1. o.pc = "days" /\ UpdateDeliveryDayStatus(o.date, "skipped", "scheduled")
        /\ Goto(h, "more", o.sub)
    BY <1>1, <1>8 DEF MarkUnskipped, Busy
  <2>2. PICK v : v = [cmd |-> o.cmd, pc |-> "more", sub |-> o.sub, date |-> o.date,
                      until |-> o.until, aged |-> o.aged]
    OBVIOUS
  <2>3. v.cmd = "undo" /\ v.pc = "more" /\ v.sub = o.sub
    BY <1>5, <2>2
  <2>4. ASSUME s.plan = Plans[1] PROVE OneRow(g) /\ MealsHold(v, g, s)
    <3>1. /\ OneRow(f) /\ Ends(f, s.endDate) /\ o.sub.endDate = s.endDate
          /\ \/ Enough(f, Window(s), Paid) /\ f[<<o.date, "skipped">>] > 0
             \/ Enough(f, Window(s), Paid + 1) /\ f[<<o.date, "delivered">>] > 0
      BY <1>5, <1>6, <2>1, <2>4 DEF MealsHold
    <3>2. PICK t \in {"skipped", "delivered"} :
              /\ f[<<o.date, t>>] > 0
              /\ Enough(f, Window(s), IF t = "skipped" THEN Paid ELSE Paid + 1)
      BY <3>1
    <3>3. Turned(f, g, o.date, "scheduled") /\ t \in DayStatus
      <4>1. t \in DayStatus /\ t # "scheduled"
        BY <3>2 DEF DayStatus
      <4> QED
        BY <1>2, <1>3, <1>5, <1>7, <2>1, <3>1, <3>2, <4>1, OneMarked
    <3>4. /\ OneRow(g) /\ DaysIn(g) = DaysIn(f)
          /\ \A u \in DayStatus : u # t => f[<<o.date, u>>] = 0
      <4>1. \A u \in DayStatus : f[<<o.date, u>>] \in Nat
        BY <1>5 DEF DeliveryDays
      <4>2. ASSUME NEW u \in DayStatus, u # t PROVE f[<<o.date, u>>] = 0
        <5>1. f[<<o.date, t>>] > 0 /\ t \in DayStatus
          BY <3>2, <3>3
        <5>2. ~(f[<<o.date, u>>] > 0)
          BY <1>5, <3>1, <4>2, <5>1 DEF OneRow
        <5> QED
          BY <4>1, <5>2
      <4>3. OneRow(g) /\ DaysIn(g) = DaysIn(f)
        <5>1. f[<<o.date, t>>] > 0
          BY <3>2
        <5> QED
          BY <1>5, <1>7, <3>1, <3>3, <5>1, TurnedRows
      <4> QED
        BY <4>2, <4>3
    <3>5. o.date \in Served(g, Window(s)) /\ Served(f, Window(s)) \subseteq Served(g, Window(s))
      BY <1>5, <3>3, TurnedServes
    <3>7. Enough(g, Window(s), Paid + 1)
      <4>1. CASE t = "skipped"
        <5>1. o.date \notin Served(f, Window(s))
          BY <3>4, <4>1 DEF Served, DayStatus
        <5> QED
          BY <1>7, <3>2, <3>5, <4>1, <5>1, EnoughOn
      <4>2. CASE t # "skipped"
        BY <1>7, <3>2, <3>5, <4>2, EnoughKept
      <4> QED
        BY <4>1, <4>2
    <3> QED
      BY <2>3, <3>1, <3>4, <3>7 DEF MealsHold, Ends
  <2> QED
    BY <1>1, <1>3, <1>4, <2>1, <2>2, <2>4, MealsMoved
<1>9. CASE DeleteMakeupDay(h)
  <2>1. PICK m : m = makeups[o.date]
    OBVIOUS
  <2>2. o.pc = "more"
    BY <1>1, <1>9 DEF DeleteMakeupDay, Busy
  <2>3. CASE ~(m # 0 /\ "scheduled" \in RowsAt(m))
    <3>1. rows' = rows /\ Goto(h, "save", o.sub)
      BY <1>1, <1>9, <2>1, <2>3 DEF DeleteMakeupDay
    <3>2. PICK v : v = [cmd |-> o.cmd, pc |-> "save", sub |-> o.sub, date |-> o.date,
                        until |-> o.until, aged |-> o.aged]
      OBVIOUS
    <3>3. v.cmd = "undo" /\ v.pc = "save" /\ v.sub = o.sub
      BY <1>5, <3>2
    <3>4. ASSUME s.plan = Plans[1] PROVE OneRow(f) /\ MealsHold(v, f, s)
      <4>1. /\ OneRow(f) /\ Ends(f, s.endDate)
            /\ o.sub.endDate = s.endDate /\ Enough(f, Window(s), Paid + 1)
        BY <1>5, <1>6, <2>2, <3>4 DEF MealsHold
      <4>2. Enough(f, Window(s), Paid)
        BY <1>7, <4>1, ServedTyped DEF Enough
      <4> QED
        BY <3>3, <4>1, <4>2 DEF MealsHold
    <3> QED
      BY <1>1, <1>2, <1>4, <3>1, <3>2, <3>4, MealsMoved
  <2>4. CASE m # 0 /\ "scheduled" \in RowsAt(m)
    <3>1. PICK keep : keep = DatesWithRows \ {m}
      OBVIOUS
    <3>2. PICK e, n : e = Max(keep) /\ n = Max({1, o.sub.totalMealDays - 1})
      OBVIOUS
    <3>3. PICK w : w = [o.sub EXCEPT !.endDate = e, !.totalMealDays = n]
      OBVIOUS
    <3>4. DeleteScheduledDeliveryDaysOutsideDates(keep) /\ Goto(h, "save", w)
      BY <1>1, <1>9, <2>1, <2>4, <3>1, <3>2, <3>3 DEF DeleteMakeupDay
    <3>5. w.endDate = e
      BY <1>5, <3>3 DEF Subscription
    <3>6. m \in Dates /\ m > o.date /\ f[<<m, "scheduled">>] > 0
      BY <1>2, <1>5, <2>1, <2>4 DEF TypeInv, BoundsTyped, RowsAt
    <3>7. keep = DaysIn(f) \ {m}
      BY <1>2, <3>1 DEF DatesWithRows, RowsAt, DaysIn
    <3>8. o.date \in keep /\ keep \subseteq Dates
      <4>1. o.date \in Nat /\ m \in Nat
        BY <1>5, <1>7, <3>6
      <4> QED
        BY <1>5, <3>1, <3>6, <4>1 DEF DatesWithRows
    <3>9. e \in keep /\ \A d \in keep : d <= e
      <4>1. IsFiniteSet(keep)
        BY <3>8, DatesTyped, FS_Subset
      <4>2. keep \in SUBSET Int /\ keep # {}
        BY <1>7, <3>8
      <4> QED
        BY <3>2, <4>1, <4>2, MaxIsMember
    <3>10. PICK v : v = [cmd |-> o.cmd, pc |-> "save", sub |-> w, date |-> o.date,
                         until |-> o.until, aged |-> o.aged]
      OBVIOUS
    <3>11. v.cmd = "undo" /\ v.pc = "save" /\ v.sub = w
      BY <1>5, <3>10
    <3>12. ASSUME s.plan = Plans[1] PROVE OneRow(g) /\ MealsHold(v, g, s)
      <4>1. OneRow(f) /\ Enough(f, Window(s), Paid + 1)
        BY <1>5, <1>6, <2>2, <3>12 DEF MealsHold
      <4>2. /\ g \in DeliveryDays
            /\ \A d \in Dates, t \in DayStatus :
                   g[<<d, t>>] = IF t = "scheduled" /\ d \notin keep THEN 0
                                 ELSE f[<<d, t>>]
        BY <1>2, <1>3, <3>4, Deleted
      <4>3. /\ OneRow(g) /\ DaysIn(g) = keep
            /\ \A d \in Dates, t \in DayStatus : d # m => g[<<d, t>>] = f[<<d, t>>]
        BY <3>6, <3>7, <4>1, <4>2, DeletedRows
      <4>4. Ends(g, e)
        BY <3>9, <4>3 DEF Ends
      <4>5. {"scheduled", "delivered", "paused"} \subseteq DayStatus
        BY DEF DayStatus
      <4>6. Served(f, Window(s)) \ {m} \subseteq Served(g, Window(s))
        BY <4>3, <4>5 DEF Served
      <4>7. Enough(g, Window(s), (Paid + 1) - 1)
        BY <1>7, <4>1, <4>6, EnoughOff
      <4>8. (Paid + 1) - 1 = Paid
        BY <1>7
      <4> QED
        BY <3>5, <3>11, <4>3, <4>4, <4>7, <4>8 DEF MealsHold
    <3> QED
      BY <1>1, <1>3, <1>4, <3>4, <3>10, <3>12, MealsMoved
  <2> QED
    BY <2>3, <2>4
<1> QED
  BY <1>8, <1>9

(* What a pause freezes lies in the window it books; what its cancellation  *)
(* thaws is served again.                                                   *)
LEMMA MealsPauses ==
  ASSUME OneHandler, TypeInv, MealsInv, NEW h \in Handlers,
         FreezeDays(h) \/ RestoreDays(h)
  PROVE  MealsInv'
<1>1. PICK o : o = my[h]
  OBVIOUS
<1>2. PICK f \in DeliveryDays : f = rows
  BY DEF TypeInv, DeliveriesInv
<1>3. PICK g : g = rows'
  OBVIOUS
<1>4. PICK s : s = sub
  OBVIOUS
<1>5. o.cmd \in {"pause", "cancelPause"} /\ o.pc = "days"
  BY <1>1 DEF FreezeDays, RestoreDays, Busy
<1>6. s.plan = Plans[1] => OneRow(f) /\ MealsHold(o, f, s)
  BY <1>1, <1>2, <1>4, <1>5, MealsRead
<1>7. /\ "scheduled" \in DayStatus /\ "paused" \in DayStatus /\ "delivered" \in DayStatus
      /\ Paid \in Int
      /\ \A d \in Dates, t \in DayStatus : f[<<d, t>>] \in Nat
  BY PaidTyped DEF DayStatus, DeliveryDays
<1>8. PICK range : range = DaysOf(o.date, o.until)
  OBVIOUS
<1>9. PICK v : v = [cmd |-> o.cmd, pc |-> "save", sub |-> o.sub, date |-> o.date,
                    until |-> o.until, aged |-> o.aged]
  OBVIOUS
<1>10. v.cmd = o.cmd /\ v.pc = "save" /\ v.sub = o.sub
  BY <1>9
<1>11. CASE FreezeDays(h)
  <2>1. o.cmd = "pause" /\ Goto(h, "save", o.sub)
        /\ BulkUpdateDeliveryDayStatus(o.date, o.until, "scheduled", "paused")
    BY <1>1, <1>11 DEF FreezeDays, Busy
  <2>2. /\ g \in DeliveryDays
        /\ \A d \in Dates, t \in DayStatus :
               /\ t # "scheduled" /\ t # "paused" => g[<<d, t>>] = f[<<d, t>>]
               /\ d \notin range => g[<<d, t>>] = f[<<d, t>>]
        /\ \A d \in Dates :
               d \in range => /\ g[<<d, "scheduled">>] = 0
                              /\ g[<<d, "paused">>] = f[<<d, "paused">>] + f[<<d, "scheduled">>]
    BY <1>2, <1>3, <1>7, <1>8, <2>1, Moved
  <2>3. ASSUME s.plan = Plans[1] PROVE OneRow(g) /\ MealsHold(v, g, s)
    <3>1. /\ OneRow(f) /\ Ends(f, s.endDate) /\ Enough(f, {}, Paid)
          /\ o.date = o.sub.pausedFrom /\ o.until = o.sub.pausedUntil
      BY <1>5, <1>6, <2>1, <2>3 DEF MealsHold
    <3>2. OneRow(g) /\ DaysIn(g) = DaysIn(f)
      <4>1. RangeMoved(f, g, range, "scheduled", "paused") /\ "scheduled" # "paused"
        BY <2>2 DEF RangeMoved
      <4> QED
        BY <1>7, <2>2, <3>1, <4>1, MovedRows
    <3>3. o.date # 0
      BY <1>1, <2>1, ReadTyped, DatesTyped DEF LocalHolds
    <3>4. Window(o.sub) = range
      BY <1>8, <3>1, <3>3 DEF Window, HasPause, DaysOf
    <3>5. Served(f, {}) \subseteq Served(g, range)
      <4> SUFFICES ASSUME NEW d \in Served(f, {}) PROVE d \in Served(g, range)
        OBVIOUS
      <4>1. d \in Dates /\ (f[<<d, "scheduled">>] > 0 \/ f[<<d, "delivered">>] > 0)
        BY DEF Served
      <4>2. CASE d \notin range
        BY <1>7, <2>2, <4>1, <4>2 DEF Served
      <4>3. CASE d \in range
        <5>1. g[<<d, "delivered">>] = f[<<d, "delivered">>]
              /\ g[<<d, "paused">>] = f[<<d, "paused">>] + f[<<d, "scheduled">>]
          BY <1>7, <2>2, <4>1, <4>3
        <5>2. f[<<d, "paused">>] \in Nat /\ f[<<d, "scheduled">>] \in Nat
          BY <1>7, <4>1
        <5>3. g[<<d, "delivered">>] > 0 \/ g[<<d, "paused">>] > 0
          BY <4>1, <5>1, <5>2
        <5> QED
          BY <4>1, <4>3, <5>3 DEF Served
      <4> QED
        BY <4>2, <4>3
    <3>6. Enough(g, Window(o.sub), Paid)
      BY <1>7, <3>1, <3>4, <3>5, EnoughKept
    <3> QED
      BY <1>10, <2>1, <3>1, <3>2, <3>6 DEF MealsHold, Ends
  <2> QED
    BY <1>1, <1>3, <1>4, <1>9, <2>1, <2>3, MealsMoved
<1>12. CASE RestoreDays(h)
  <2>1. o.cmd = "cancelPause" /\ Goto(h, "save", o.sub)
        /\ BulkUpdateDeliveryDayStatus(o.date, o.until, "paused", "scheduled")
    BY <1>1, <1>12 DEF RestoreDays, Busy
  <2>2. /\ g \in DeliveryDays
        /\ \A d \in Dates, t \in DayStatus :
               /\ t # "paused" /\ t # "scheduled" => g[<<d, t>>] = f[<<d, t>>]
               /\ d \notin range => g[<<d, t>>] = f[<<d, t>>]
        /\ \A d \in Dates :
               d \in range => /\ g[<<d, "paused">>] = 0
                              /\ g[<<d, "scheduled">>] = f[<<d, "scheduled">>] + f[<<d, "paused">>]
    BY <1>2, <1>3, <1>7, <1>8, <2>1, Moved
  <2>3. ASSUME s.plan = Plans[1] PROVE OneRow(g) /\ MealsHold(v, g, s)
    <3>1. /\ OneRow(f) /\ Ends(f, s.endDate) /\ Enough(f, range, Paid)
          /\ o.sub.pausedFrom = 0
      BY <1>5, <1>6, <1>8, <2>1, <2>3 DEF MealsHold
    <3>2. OneRow(g) /\ DaysIn(g) = DaysIn(f)
      <4>1. RangeMoved(f, g, range, "paused", "scheduled") /\ "scheduled" # "paused"
        BY <2>2 DEF RangeMoved
      <4> QED
        BY <1>7, <2>2, <3>1, <4>1, MovedRows
    <3>3. Window(o.sub) = {}
      BY <3>1 DEF Window, HasPause
    <3>4. Served(f, range) \subseteq Served(g, {})
      <4> SUFFICES ASSUME NEW d \in Served(f, range) PROVE d \in Served(g, {})
        OBVIOUS
      <4>1. d \in Dates /\ (\/ f[<<d, "scheduled">>] > 0 \/ f[<<d, "delivered">>] > 0
                            \/ d \in range /\ f[<<d, "paused">>] > 0)
        BY DEF Served
      <4>2. CASE d \notin range
        BY <1>7, <2>2, <4>1, <4>2 DEF Served
      <4>3. CASE d \in range
        <5>1. g[<<d, "delivered">>] = f[<<d, "delivered">>]
              /\ g[<<d, "scheduled">>] = f[<<d, "scheduled">>] + f[<<d, "paused">>]
          BY <1>7, <2>2, <4>1, <4>3
        <5>2. f[<<d, "paused">>] \in Nat /\ f[<<d, "scheduled">>] \in Nat
          BY <1>7, <4>1
        <5>3. g[<<d, "delivered">>] > 0 \/ g[<<d, "scheduled">>] > 0
          BY <4>1, <5>1, <5>2
        <5> QED
          BY <4>1, <5>3 DEF Served
      <4> QED
        BY <4>2, <4>3
    <3>5. Enough(g, Window(o.sub), Paid)
      BY <1>7, <3>1, <3>3, <3>4, EnoughKept
    <3> QED
      BY <1>10, <2>1, <3>1, <3>2, <3>5 DEF MealsHold, Ends
  <2> QED
    BY <1>1, <1>3, <1>4, <1>9, <2>1, <2>3, MealsMoved
<1> QED
  BY <1>11, <1>12

(* A resume: what comes back is served again, and as many working days as   *)
(* have lapsed are appended after the end of the plan.                      *)
LEMMA RestReturns ==
  ASSUME OneHandler, TypeInv, MealsInv, NEW h \in Handlers, RestoreRest(h)
  PROVE  MealsInv'
<1>1. PICK o : o = my[h]
  OBVIOUS
<1>2. PICK f \in DeliveryDays : f = rows
  BY DEF TypeInv, DeliveriesInv
<1>3. PICK g : g = rows'
  OBVIOUS
<1>4. PICK s : s = sub
  OBVIOUS
<1>5. o.cmd = "resume" /\ o.pc = "days" /\ Goto(h, "more", o.sub)
      /\ BulkUpdateDeliveryDayStatus(o.date, o.until, "paused", "scheduled")
  BY <1>1 DEF RestoreRest, Busy
<1>6. s.plan = Plans[1] => OneRow(f) /\ MealsHold(o, f, s)
  BY <1>1, <1>2, <1>4, <1>5, MealsRead
<1>7. /\ "scheduled" \in DayStatus /\ "paused" \in DayStatus /\ "delivered" \in DayStatus
      /\ Paid \in Int
      /\ \A d \in Dates, t \in DayStatus : f[<<d, t>>] \in Nat
  BY PaidTyped DEF DayStatus, DeliveryDays
<1>8. PICK range : range = DaysOf(o.date, o.until)
  OBVIOUS
<1>9. PICK from : from = o.sub.pausedFrom
  OBVIOUS
<1>10. from \in Int /\ o.date \in Int /\ o.until \in Int /\ Dates \subseteq Int
  <2>1. o.date \in Dates /\ o.until \in Dates /\ from \in Dates \cup {0}
    BY <1>1, <1>5, <1>9, ReadTyped, SubFields DEF LocalHolds, LapsedFit
  <2>2. \A e \in Dates \cup {0} : e \in Int
    BY DatesTyped
  <2> QED
    BY <2>1, <2>2
<1>11. PICK whole, part : whole = DaysOf(from, o.until) /\ part = DaysOf(from, o.date - 1)
  OBVIOUS
<1>12. PICK v : v = [cmd |-> o.cmd, pc |-> "more", sub |-> o.sub, date |-> o.date,
                     until |-> o.until, aged |-> o.aged]
  OBVIOUS
<1>13. v.cmd = "resume" /\ v.pc = "more" /\ v.sub = o.sub /\ v.date = o.date
  BY <1>5, <1>12
<1>14. /\ g \in DeliveryDays
       /\ \A d \in Dates, t \in DayStatus :
              /\ t # "paused" /\ t # "scheduled" => g[<<d, t>>] = f[<<d, t>>]
              /\ d \notin range => g[<<d, t>>] = f[<<d, t>>]
       /\ \A d \in Dates :
              d \in range => /\ g[<<d, "paused">>] = 0
                             /\ g[<<d, "scheduled">>] = f[<<d, "scheduled">>] + f[<<d, "paused">>]
  BY <1>2, <1>3, <1>5, <1>7, <1>8, Moved
<1>15. \A d \in Dates : d \in whole => d \in part \/ d \in range
  BY <1>8, <1>10, <1>11 DEF DaysOf
<1>16. ASSUME s.plan = Plans[1] PROVE OneRow(g) /\ MealsHold(v, g, s)
  <2>1. /\ OneRow(f) /\ Ends(f, s.endDate) /\ o.sub.endDate = s.endDate
        /\ Enough(f, whole, Paid)
    BY <1>5, <1>6, <1>9, <1>11, <1>16 DEF MealsHold
  <2>2. OneRow(g) /\ DaysIn(g) = DaysIn(f)
    <3>1. RangeMoved(f, g, range, "paused", "scheduled") /\ "scheduled" # "paused"
      BY <1>14 DEF RangeMoved
    <3> QED
      BY <1>7, <1>14, <2>1, <3>1, MovedRows
  <2>3. Served(f, whole) \subseteq Served(g, part)
    <3> SUFFICES ASSUME NEW d \in Served(f, whole) PROVE d \in Served(g, part)
      OBVIOUS
    <3>1. d \in Dates /\ (\/ f[<<d, "scheduled">>] > 0 \/ f[<<d, "delivered">>] > 0
                          \/ d \in whole /\ f[<<d, "paused">>] > 0)
      BY DEF Served
    <3>2. CASE d \notin range
      BY <1>7, <1>14, <1>15, <3>1, <3>2 DEF Served
    <3>3. CASE d \in range
      <4>1. g[<<d, "delivered">>] = f[<<d, "delivered">>]
            /\ g[<<d, "scheduled">>] = f[<<d, "scheduled">>] + f[<<d, "paused">>]
        BY <1>7, <1>14, <3>1, <3>3
      <4>2. f[<<d, "paused">>] \in Nat /\ f[<<d, "scheduled">>] \in Nat
        BY <1>7, <3>1
      <4>3. g[<<d, "delivered">>] > 0 \/ g[<<d, "scheduled">>] > 0
        BY <3>1, <4>1, <4>2
      <4> QED
        BY <3>1, <4>3 DEF Served
    <3> QED
      BY <3>2, <3>3
  <2>4. Enough(g, part, Paid)
    BY <1>7, <2>1, <2>3, EnoughKept
  <2> QED
    BY <1>9, <1>11, <1>13, <2>1, <2>2, <2>4 DEF MealsHold, Ends
<1> QED
  BY <1>1, <1>3, <1>4, <1>5, <1>12, <1>16, MealsMoved

(* As many new days as lapsed in a window make up for them.                 *)
LEMMA LapsedReplaced ==
  ASSUME NEW f \in DeliveryDays, NEW g \in DeliveryDays, NEW win \in SUBSET Dates,
         NEW G \in SUBSET Dates, NEW n \in Int,
         Enough(f, win, n), IsFiniteSet(G), G \cap DaysIn(f) = {},
         Cardinality(G) = Cardinality(Of(f, win, {"paused"})),
         \A d \in Dates, t \in DayStatus :
             g[<<d, t>>] = IF d \in G /\ t = "scheduled" THEN f[<<d, t>>] + 1
                           ELSE f[<<d, t>>]
  PROVE  Enough(g, {}, n)
<1>1. {"scheduled", "delivered", "paused"} \subseteq DayStatus
  BY DEF DayStatus
<1>2. \A d \in Dates, t \in DayStatus : f[<<d, t>>] \in Nat
  BY DEF DeliveryDays
<1>3. PICK B : B = { d \in win : \E t \in {"paused"} : f[<<d, t>>] > 0 }
  OBVIOUS
<1>4. PICK S : S = Served(f, win)
  OBVIOUS
<1>5. PICK T : T = Served(f, {})
  OBVIOUS
<1>6. PICK U : U = Served(g, {})
  OBVIOUS
<1>7. IsFiniteSet(B) /\ Cardinality(B) \in Nat /\ Cardinality(B) <= Cardinality(G)
  <2>1. {"paused"} \in SUBSET DayStatus
    BY <1>1
  <2> QED
    BY <1>3, <2>1, DatesFew
<1>8. /\ IsFiniteSet(S) /\ Cardinality(S) \in Nat /\ IsFiniteSet(T) /\ Cardinality(T) \in Nat
      /\ IsFiniteSet(U) /\ Cardinality(U) \in Nat /\ Cardinality(G) \in Nat
  BY <1>4, <1>5, <1>6, ServedTyped, FS_CardinalityType
<1>9. S \subseteq T \cup B
  BY <1>3, <1>4, <1>5 DEF Served
<1>10. Cardinality(S) <= Cardinality(T) + Cardinality(G)
  <2>1. /\ IsFiniteSet(T \cup B) /\ IsFiniteSet(T \cap B)
        /\ Cardinality(T \cup B) = Cardinality(T) + Cardinality(B) - Cardinality(T \cap B)
    BY <1>7, <1>8, FS_Union, FS_Intersection
  <2>2. Cardinality(S) <= Cardinality(T \cup B)
    BY <1>9, <2>1, FS_Subset
  <2>3. Cardinality(T \cap B) \in Nat /\ Cardinality(T \cup B) \in Nat
    BY <2>1, FS_CardinalityType
  <2> QED
    BY <1>7, <1>8, <2>1, <2>2, <2>3
<1>11. T \cap G = {} /\ T \cup G \subseteq U
  <2>1. T \subseteq DaysIn(f)
    BY <1>1, <1>5 DEF Served, DaysIn
  <2>2. G \subseteq U
    <3>1. \A d \in G : g[<<d, "scheduled">>] = f[<<d, "scheduled">>] + 1
                       /\ f[<<d, "scheduled">>] \in Nat
      BY <1>1, <1>2
    <3>2. ASSUME NEW d \in G PROVE g[<<d, "scheduled">>] > 0
      <4>1. PICK k \in Nat : k = f[<<d, "scheduled">>]
        BY <3>1
      <4>2. g[<<d, "scheduled">>] = k + 1
        BY <3>1, <4>1
      <4> QED
        BY <4>2
    <3> QED
      BY <1>6, <3>2 DEF Served
  <2>3. T \subseteq U
    <3> SUFFICES ASSUME NEW d \in T PROVE d \in U
      OBVIOUS
    <3>1. CASE d \in G
      BY <2>2, <3>1
    <3>2. CASE d \notin G
      <4>1. d \in Dates /\ (f[<<d, "scheduled">>] > 0 \/ f[<<d, "delivered">>] > 0)
        BY <1>5 DEF Served
      <4>2. g[<<d, "scheduled">>] > 0 \/ g[<<d, "delivered">>] > 0
        BY <1>1, <3>2, <4>1
      <4> QED
        BY <1>6, <4>1, <4>2 DEF Served
    <3> QED
      BY <3>1, <3>2
  <2> QED
    BY <2>1, <2>2, <2>3
<1>12. Cardinality(T) + Cardinality(G) <= Cardinality(U)
  <2>1. IsFiniteSet(T \cup G)
        /\ Cardinality(T \cup G) = Cardinality(T) + Cardinality(G) - Cardinality(T \cap G)
    BY <1>8, FS_Union
  <2>2. Cardinality(T \cap G) = 0
    BY <1>11, FS_EmptySet
  <2>3. Cardinality(T \cup G) <= Cardinality(U)
    BY <1>8, <1>11, FS_Subset
  <2> QED
    BY <1>8, <2>1, <2>2, <2>3
<1> QED
  BY <1>4, <1>6, <1>8, <1>10, <1>12 DEF Enough

(* A resume appends as many working days as have lapsed, and the plan ends  *)
(* on the last of them.                                                     *)
LEMMA LapsedReturns ==
  ASSUME OneHandler, TypeInv, MealsInv, NEW h \in Handlers, AppendLapsedDays(h)
  PROVE  MealsInv'
<1>1. PICK o : o = my[h]
  OBVIOUS
<1>2. PICK f \in DeliveryDays : f = rows
  BY DEF TypeInv, DeliveriesInv
<1>3. PICK g : g = rows'
  OBVIOUS
<1>4. PICK s : s = sub
  OBVIOUS
<1>5. o.cmd = "resume" /\ o.pc = "more"
  BY <1>1 DEF AppendLapsedDays, Busy
<1>6. s.plan = Plans[1] => OneRow(f) /\ MealsHold(o, f, s)
  BY <1>1, <1>2, <1>4, <1>5, MealsRead
<1>7. o.sub \in Subscription /\ LapsedFit(o) /\ Paid \in Int /\ Dates \subseteq Nat
  BY <1>1, <1>5, ReadTyped, PaidTyped, DatesTyped DEF LocalHolds
<1>8. /\ o.sub.endDate \in Dates /\ o.sub.endDate \in Nat /\ o.date \in Dates
      /\ o.sub.pausedFrom \in Dates
  BY <1>7, SubFields DEF LapsedFit
<1>9. PICK win \in SUBSET Dates : win = o.sub.pausedFrom .. o.date - 1
  BY <1>8, DatesTyped DEF Dates
<1>10. PICK n : n = HowMany(win, {"paused"})
  OBVIOUS
<1>11. n \in Nat /\ n = Cardinality(Of(f, win, {"paused"}))
  <2>1. {"paused"} \in SUBSET DayStatus
    BY DEF DayStatus
  <2>2. n = Cardinality(Of(rows, win, {"paused"}))
    BY <1>10, HowManyOf
  <2> QED
    BY <1>2, <2>1, <2>2, OfFinite
<1>12. PICK start \in Int : start = o.sub.endDate + 1
  BY <1>8
<1>13. Reaches(start, n)
  BY <1>7, <1>9, <1>10, <1>12 DEF LapsedFit
<1>14. PICK G : G = GenerateWorkingDeliveryDates(start, n)
  OBVIOUS
<1>15. /\ G \in SUBSET Dates /\ IsFiniteSet(G) /\ Cardinality(G) = n
       /\ \A d \in G : d >= start
  BY <1>11, <1>12, <1>13, <1>14, Generated
<1>16. PICK u : u = WithoutPause(o.sub, "active", 0)
  OBVIOUS
<1>17. PICK w : w = [u EXCEPT !.endDate = IF n = 0 THEN @
                                          ELSE AddWorkingDaysForward(@ + 1, n)]
  OBVIOUS
<1>18. BulkCreateDeliveryDays(G) /\ Goto(h, "save", w)
  BY <1>1, <1>9, <1>10, <1>12, <1>14, <1>16, <1>17 DEF AppendLapsedDays
<1>19. /\ w.pausedFrom = 0
       /\ w.endDate = IF n = 0 THEN o.sub.endDate ELSE AddWorkingDaysForward(start, n)
  <2>1. PICK k : k = Refund(o.sub.flexUsed, 0)
    OBVIOUS
  <2>2. u = [o.sub EXCEPT !.status = "active", !.pausedFrom = 0, !.pausedUntil = 0,
                          !.flexUsed = k]
    BY <1>16, <2>1 DEF WithoutPause
  <2>3. u.endDate = o.sub.endDate /\ u.pausedFrom = 0 /\ DOMAIN u = DOMAIN o.sub
    BY <1>7, <2>2 DEF Subscription
  <2>4. w.pausedFrom = u.pausedFrom
        /\ w.endDate = IF n = 0 THEN u.endDate ELSE AddWorkingDaysForward(u.endDate + 1, n)
    BY <1>7, <1>17, <2>3 DEF Subscription
  <2> QED
    BY <1>12, <2>3, <2>4
<1>20. /\ g \in DeliveryDays
       /\ \A d \in Dates, t \in DayStatus :
              g[<<d, t>>] = IF d \in G /\ t = "scheduled" THEN f[<<d, t>>] + 1
                            ELSE f[<<d, t>>]
  BY <1>2, <1>3, <1>18, Created
<1>21. PICK v : v = [cmd |-> o.cmd, pc |-> "save", sub |-> w, date |-> o.date,
                     until |-> o.until, aged |-> o.aged]
  OBVIOUS
<1>22. v.cmd = "resume" /\ v.pc = "save" /\ v.sub = w
  BY <1>5, <1>21
<1>23. ASSUME s.plan = Plans[1] PROVE OneRow(g) /\ MealsHold(v, g, s)
  <2>1. OneRow(f) /\ Ends(f, o.sub.endDate) /\ Enough(f, win, Paid)
    <3>1. OneRow(f) /\ Ends(f, s.endDate) /\ o.sub.endDate = s.endDate
          /\ Enough(f, DaysOf(o.sub.pausedFrom, o.date - 1), Paid)
      BY <1>5, <1>6, <1>23 DEF MealsHold
    <3> QED
      BY <1>9, <3>1 DEF DaysOf
  <2>2. G \cap DaysIn(f) = {}
    <3>1. \A d \in DaysIn(f) : d <= o.sub.endDate /\ d \in Nat
      BY <1>7, <2>1 DEF Ends, DaysIn
    <3> QED
      BY <1>8, <1>12, <1>15, <3>1
  <2>3. OneRow(g) /\ DaysIn(g) = DaysIn(f) \cup G
    BY <1>15, <1>20, <2>1, <2>2, CreatedRows
  <2>4. Enough(g, {}, Paid)
    BY <1>7, <1>11, <1>15, <1>20, <2>1, <2>2, LapsedReplaced
  <2>5. Window(w) = {}
    BY <1>19 DEF Window, HasPause
  <2>6. Ends(g, w.endDate)
    <3>1. CASE n = 0
      <4>1. G = {}
        BY <1>15, <3>1, FS_EmptySet
      <4> QED
        BY <1>19, <2>1, <2>3, <3>1, <4>1 DEF Ends
    <3>2. CASE n # 0
      <4>1. PICK e : e = AddWorkingDaysForward(start, n)
        OBVIOUS
      <4>2. e \in G /\ e >= start /\ \A d \in G : d <= e
        BY <1>11, <1>12, <1>13, <1>14, <3>2, <4>1, Forward
      <4>3. e \in Nat
        BY <1>7, <1>15, <4>2
      <4>4. \A d \in DaysIn(f) : d <= e
        <5>1. \A d \in DaysIn(f) : d <= o.sub.endDate /\ d \in Nat
          BY <1>7, <2>1 DEF Ends, DaysIn
        <5> QED
          BY <1>8, <1>12, <4>2, <4>3, <5>1
      <4> QED
        BY <1>19, <2>3, <3>2, <4>1, <4>2, <4>4 DEF Ends
    <3> QED
      BY <3>1, <3>2
  <2> QED
    BY <1>22, <2>3, <2>4, <2>5, <2>6 DEF MealsHold
<1> QED
  BY <1>1, <1>3, <1>4, <1>18, <1>21, <1>23, MealsMoved

(* What a command saves is what its days were prepared for.                 *)
LEMMA MealsSaved ==
  ASSUME OneHandler, TypeInv, MealsInv, NEW h \in Handlers, NEW o, o = my[h], NEW columns,
         UpdateSubscription(h, columns), o.pc = "save",
         \/ o.cmd \in {"skip", "undo"} /\ columns = SkipColumns
         \/ o.cmd \in {"pause", "cancelPause"} /\ columns = PauseColumns
         \/ o.cmd = "resume" /\ columns = PauseColumns \cup {"endDate"}
         \/ o.cmd \in {"cancel", "resubscribe"} /\ columns = {"status"}
  PROVE  MealsInv'
<1>1. PICK s : s = sub
  OBVIOUS
<1>2. PICK t : t = sub'
  OBVIOUS
<1>3. PICK w : w = o.sub
  OBVIOUS
<1>4. PICK f : f = rows
  OBVIOUS
<1>5. /\ t = [c \in DOMAIN s |-> IF c \in columns THEN w[c] ELSE s[c]]
      /\ my' = [my EXCEPT ![h] = Resting] /\ rows' = f
  BY <1>1, <1>2, <1>3, <1>4 DEF UpdateSubscription
<1>6. s \in Subscription /\ w \in Subscription
  BY <1>1, <1>3, ReadTyped
<1>7. /\ t.plan = IF "plan" \in columns THEN w.plan ELSE s.plan
      /\ t.endDate = IF "endDate" \in columns THEN w.endDate ELSE s.endDate
      /\ t.pausedFrom = IF "pausedFrom" \in columns THEN w.pausedFrom ELSE s.pausedFrom
      /\ t.pausedUntil = IF "pausedUntil" \in columns THEN w.pausedUntil ELSE s.pausedUntil
  BY <1>5, <1>6, Saved
<1>8. PICK v : v = Resting
  OBVIOUS
<1>9. v.cmd = "none"
  BY <1>8, RestingTyped
<1>10. t.plan = s.plan
  BY <1>7 DEF SkipColumns, PauseColumns
<1>11. ASSUME s.plan = Plans[1]
       PROVE  OneRow(f) /\ Ends(f, t.endDate) /\ Enough(f, Window(t), Paid)
  <2>1. o.cmd # "promote"
    OBVIOUS
  <2>2. OneRow(f) /\ MealsHold(o, f, s)
    BY <1>1, <1>4, <1>11, <2>1, MealsRead
  <2>3. CASE o.cmd \in {"skip", "undo"} /\ columns = SkipColumns
    <3>1. /\ t.endDate = w.endDate
          /\ t.pausedFrom = s.pausedFrom /\ t.pausedUntil = s.pausedUntil
      BY <1>7, <2>3 DEF SkipColumns
    <3>2. Window(t) = Window(s)
      BY <3>1, WindowSame
    <3> QED
      BY <1>3, <2>2, <2>3, <3>1, <3>2 DEF MealsHold
  <2>4. CASE o.cmd \in {"pause", "cancelPause"} /\ columns = PauseColumns
    <3>1. /\ t.endDate = s.endDate
          /\ t.pausedFrom = w.pausedFrom /\ t.pausedUntil = w.pausedUntil
      BY <1>7, <2>4 DEF PauseColumns
    <3>2. Window(t) = Window(w)
      BY <3>1, WindowSame
    <3> QED
      BY <1>3, <2>2, <2>4, <3>1, <3>2 DEF MealsHold
  <2>5. CASE o.cmd = "resume" /\ columns = PauseColumns \cup {"endDate"}
    <3>1. /\ t.endDate = w.endDate
          /\ t.pausedFrom = w.pausedFrom /\ t.pausedUntil = w.pausedUntil
      BY <1>7, <2>5 DEF PauseColumns
    <3>2. Window(t) = Window(w)
      BY <3>1, WindowSame
    <3> QED
      BY <1>3, <2>2, <2>5, <3>1, <3>2 DEF MealsHold
  <2>6. CASE o.cmd \in {"cancel", "resubscribe"} /\ columns = {"status"}
    <3>1. /\ t.endDate = s.endDate
          /\ t.pausedFrom = s.pausedFrom /\ t.pausedUntil = s.pausedUntil
      BY <1>7, <2>6
    <3>2. Window(t) = Window(s)
      BY <3>1, WindowSame
    <3> QED
      BY <2>2, <2>6, <3>1, <3>2 DEF MealsHold
  <2> QED
    BY <2>3, <2>4, <2>5, <2>6
<1>12. s.plan = Plans[1] => OneRow(f) /\ MealsHold(v, f, t)
  BY <1>9, <1>11 DEF MealsHold
<1> QED
  BY <1>2, <1>5, <1>8, <1>10, <1>12, OneMeals

(* No plan has a tier below the first one's.                                *)
LEMMA FirstTier ==
  ASSUME NEW p \in PlanSet
  PROVE  Tier(p) >= Tier(Plans[1]) /\ Tier(p) \in Nat
<1>1. \A q \in PlanSet : Tier(q) \in DOMAIN Plans /\ Plans[Tier(q)] = q
  <2> SUFFICES ASSUME NEW q \in PlanSet PROVE Tier(q) \in DOMAIN Plans /\ Plans[Tier(q)] = q
    OBVIOUS
  <2>1. \E i \in DOMAIN Plans : Plans[i] = q
    BY DEF PlanSet, Range
  <2> QED
    BY <2>1 DEF Tier
<1>2. DOMAIN Plans = 1 .. Len(Plans) /\ Len(Plans) \in Nat
  BY SubscriptionAssumption
<1>3. Plans[1] \in PlanSet /\ 1 \in DOMAIN Plans
  BY FirstPlan
<1>4. PICK i : i = Tier(Plans[1])
  OBVIOUS
<1>5. i \in DOMAIN Plans /\ Plans[i] = Plans[1]
  BY <1>1, <1>3, <1>4
<1>6. ~(1 < i)
  BY <1>3, <1>5, SubscriptionAssumption
<1>7. i = 1
  BY <1>2, <1>5, <1>6
<1>8. PICK j : j = Tier(p)
  OBVIOUS
<1>9. j \in DOMAIN Plans
  BY <1>1, <1>8
<1> QED
  BY <1>2, <1>4, <1>7, <1>8, <1>9

(* An upgrade in place has no first plan any more.                          *)
LEMMA MealsPromotes ==
  ASSUME OneHandler, TypeInv, MealsInv, NEW h \in Handlers,
         BeginPromote(h) \/ AddCanonicalDays(h) \/ DropOtherDays(h) \/ SavePromote(h)
  PROVE  MealsInv'
<1>1. CASE BeginPromote(h)
  <2>1. PICK v : v = [cmd |-> "promote", pc |-> "days", date |-> 0, until |-> 0,
                      aged |-> FALSE,
                      sub |-> [sub EXCEPT !.plan = upgrade,
                                          !.totalMealDays = MealCount[upgrade],
                                          !.endDate = Max(CanonicalDates(upgrade))]]
    OBVIOUS
  <2>2. my' = [my EXCEPT ![h] = v] /\ v.cmd = "promote"
    BY <1>1, <2>1 DEF BeginPromote
  <2> QED
    BY <2>2, OneMeals
<1>2. CASE AddCanonicalDays(h) \/ DropOtherDays(h)
  <2>1. PICK o : o = my[h]
    OBVIOUS
  <2>2. PICK pc \in {"more", "save"} : Goto(h, pc, o.sub)
    BY <1>2, <2>1 DEF AddCanonicalDays, DropOtherDays
  <2>3. o.cmd = "promote"
    BY <1>2, <2>1 DEF AddCanonicalDays, DropOtherDays, Busy
  <2>4. PICK v : v = [cmd |-> o.cmd, pc |-> pc, sub |-> o.sub, date |-> o.date,
                      until |-> o.until, aged |-> o.aged]
    OBVIOUS
  <2> QED
    BY <2>1, <2>2, <2>3, <2>4, MealsMoved
<1>3. CASE SavePromote(h)
  <2>1. PICK o : o = my[h]
    OBVIOUS
  <2>2. PICK s : s = sub
    OBVIOUS
  <2>3. o.cmd = "promote"
    BY <1>3, <2>1 DEF SavePromote, Busy
  <2>4. upgrade # NoPlan /\ o.sub.plan = upgrade /\ s \in Subscription
    BY <2>1, <2>2, <2>3, ReadTyped DEF LocalHolds
  <2>5. upgrade \in PlanSet /\ s.plan \in PlanSet /\ Tier(upgrade) > Tier(s.plan)
    BY <2>2, <2>4, SubFields DEF TypeInv, PlansTyped
  <2>6. upgrade # Plans[1]
    <3>1. Tier(s.plan) >= Tier(Plans[1]) /\ Tier(s.plan) \in Nat /\ Tier(Plans[1]) \in Nat
      BY <2>5, FirstTier, FirstPlan
    <3> QED
      BY <2>5, <3>1
  <2>7. PICK p, n, e, st : p = o.sub.plan /\ n = o.sub.totalMealDays /\ e = o.sub.endDate
                           /\ st = IF o.sub.status = "cancelled" THEN "active" ELSE s.status
    OBVIOUS
  <2>8. PICK t : t = [s EXCEPT !.plan = p, !.totalMealDays = n, !.endDate = e, !.status = st]
    OBVIOUS
  <2>9. sub' = t /\ my' = [my EXCEPT ![h] = Resting]
    BY <1>3, <2>1, <2>2, <2>7, <2>8 DEF SavePromote
  <2>10. t.plan = p
    BY <2>4, <2>8 DEF Subscription
  <2>11. PICK v : v = Resting
    OBVIOUS
  <2> QED
    BY <2>4, <2>6, <2>7, <2>9, <2>10, <2>11, OneMeals
<1> QED
  BY <1>1, <1>2, <1>3

(* Every statement of a command keeps the meals.                            *)
LEMMA MealsContinues ==
  ASSUME OneHandler, TypeInv, MealsInv, NEW h \in Handlers, Continue(h)
  PROVE  MealsInv'
<1>1. PICK o : o = my[h]
  OBVIOUS
<1>2. CASE SaveSkip(h) \/ SaveUndo(h) \/ SavePause(h) \/ SaveCancelPause(h)
           \/ SaveResume(h) \/ SaveStatus(h)
  <2>1. CASE SaveSkip(h) \/ SaveUndo(h)
    <3>1. o.cmd \in {"skip", "undo"} /\ o.pc = "save" /\ UpdateSubscription(h, SkipColumns)
      BY <1>1, <2>1 DEF SaveSkip, SaveUndo, Busy
    <3> QED
      BY <1>1, <3>1, MealsSaved
  <2>2. CASE SavePause(h) \/ SaveCancelPause(h)
    <3>1. o.cmd \in {"pause", "cancelPause"} /\ o.pc = "save"
          /\ UpdateSubscription(h, PauseColumns)
      BY <1>1, <2>2 DEF SavePause, SaveCancelPause, Busy
    <3> QED
      BY <1>1, <3>1, MealsSaved
  <2>3. CASE SaveResume(h)
    <3>1. o.cmd = "resume" /\ o.pc = "save"
          /\ UpdateSubscription(h, PauseColumns \cup {"endDate"})
      BY <1>1, <2>3 DEF SaveResume, Busy
    <3> QED
      BY <1>1, <3>1, MealsSaved
  <2>4. CASE SaveStatus(h)
    <3>1. o.cmd \in {"cancel", "resubscribe"} /\ o.pc = "save"
          /\ UpdateSubscription(h, {"status"})
      BY <1>1, <2>4 DEF SaveStatus, Busy
    <3> QED
      BY <1>1, <3>1, MealsSaved
  <2> QED
    BY <1>2, <2>1, <2>2, <2>3, <2>4
<1>3. CASE AddCanonicalDays(h) \/ DropOtherDays(h) \/ SavePromote(h)
  BY <1>3, MealsPromotes
<1>4. CASE MarkSkipped(h) \/ AddMakeupDay(h)
  BY <1>4, MealsSkips
<1>5. CASE MarkUnskipped(h) \/ DeleteMakeupDay(h)
  BY <1>5, MealsUndoes
<1>6. CASE FreezeDays(h) \/ RestoreDays(h)
  BY <1>6, MealsPauses
<1>7. CASE RestoreRest(h)
  BY <1>7, RestReturns
<1>8. CASE AppendLapsedDays(h)
  BY <1>8, LapsedReturns
<1> QED
  BY <1>2, <1>3, <1>4, <1>5, <1>6, <1>7, <1>8 DEF Continue

(* What a command relies on does not depend on rows that stay served, nor   *)
(* on the status of the plan.                                               *)
LEMMA MealsKept ==
  ASSUME NEW v, NEW u, NEW f, NEW g, NEW s, NEW t, MealsHold(v, f, s),
         u.cmd = v.cmd, u.pc = v.pc, u.sub = v.sub, u.date = v.date, u.until = v.until,
         t.endDate = s.endDate, t.pausedFrom = s.pausedFrom, t.pausedUntil = s.pausedUntil,
         DaysIn(g) = DaysIn(f), \A win : Served(f, win) \subseteq Served(g, win),
         v.cmd \in {"skip", "undo"} /\ v.pc = "days" =>
             /\ g[<<v.date, "scheduled">>] = f[<<v.date, "scheduled">>]
             /\ g[<<v.date, "skipped">>] = f[<<v.date, "skipped">>]
             /\ g[<<v.date, "delivered">>] = f[<<v.date, "delivered">>]
  PROVE  MealsHold(u, g, t)
<1>1. Window(t) = Window(s)
  BY WindowSame
<1>2. Paid \in Int /\ Paid - 1 \in Int /\ Paid + 1 \in Int
  BY PaidTyped
<1>3. \A n \in Int : \A win : Enough(f, win, n) => Enough(g, win, n)
  BY EnoughKept
<1>4. \A e : Ends(f, e) => Ends(g, e)
  BY DEF Ends
<1> QED
  BY <1>1, <1>2, <1>3, <1>4 DEF MealsHold

(* Steps that keep the plan's window and end, and serve what was served,    *)
(* keep the meals.                                                          *)
LEMMA MealsAround ==
  ASSUME TypeInv, MealsInv,
         sub'.plan = sub.plan, sub'.endDate = sub.endDate,
         sub'.pausedFrom = sub.pausedFrom, sub'.pausedUntil = sub.pausedUntil,
         OneRow(rows) => /\ OneRow(rows') /\ DaysIn(rows') = DaysIn(rows)
                         /\ \A win : Served(rows, win) \subseteq Served(rows', win),
         \A h \in Handlers : /\ my'[h].cmd = my[h].cmd /\ my'[h].pc = my[h].pc
                             /\ my'[h].sub = my[h].sub /\ my'[h].date = my[h].date
                             /\ my'[h].until = my[h].until,
         \A h \in Handlers :
             my[h].cmd \in {"skip", "undo"} /\ my[h].pc = "days" =>
                 \/ /\ rows'[<<my[h].date, "scheduled">>] = rows[<<my[h].date, "scheduled">>]
                    /\ rows'[<<my[h].date, "skipped">>] = rows[<<my[h].date, "skipped">>]
                    /\ rows'[<<my[h].date, "delivered">>] = rows[<<my[h].date, "delivered">>]
                 \/ OneRow(rows) /\ MealsHold(my[h], rows, sub) =>
                        MealsHold(my'[h], rows', sub')
  PROVE  MealsInv'
<1> SUFFICES ASSUME NEW h \in Handlers, sub'.plan = Plans[1], my'[h].cmd # "promote"
             PROVE  OneRow(rows') /\ MealsHold(my'[h], rows', sub')
  BY DEF MealsInv
<1>1. PICK o : o = my[h]
  OBVIOUS
<1>2. PICK u : u = my'[h]
  OBVIOUS
<1>3. PICK f : f = rows
  OBVIOUS
<1>4. PICK g : g = rows'
  OBVIOUS
<1>5. PICK s : s = sub
  OBVIOUS
<1>6. PICK t : t = sub'
  OBVIOUS
<1>7. u.cmd = o.cmd /\ u.pc = o.pc /\ u.sub = o.sub /\ u.date = o.date /\ u.until = o.until
  BY <1>1, <1>2
<1>8. OneRow(f) /\ MealsHold(o, f, s)
  <2>1. o.cmd # "promote" /\ sub.plan = Plans[1]
    BY <1>2, <1>7
  <2> QED
    BY <1>1, <1>3, <1>5, <2>1, MealsRead
<1>9. /\ OneRow(g) /\ DaysIn(g) = DaysIn(f) /\ \A win : Served(f, win) \subseteq Served(g, win)
  BY <1>3, <1>4, <1>8
<1>10. o.cmd \in {"skip", "undo"} /\ o.pc = "days" =>
           \/ /\ g[<<o.date, "scheduled">>] = f[<<o.date, "scheduled">>]
              /\ g[<<o.date, "skipped">>] = f[<<o.date, "skipped">>]
              /\ g[<<o.date, "delivered">>] = f[<<o.date, "delivered">>]
           \/ MealsHold(u, g, t)
  BY <1>1, <1>2, <1>3, <1>4, <1>5, <1>6, <1>8
<1>11. t.endDate = s.endDate /\ t.pausedFrom = s.pausedFrom /\ t.pausedUntil = s.pausedUntil
  BY <1>5, <1>6
<1>12. MealsHold(u, g, t)
  BY <1>7, <1>8, <1>9, <1>10, <1>11, MealsKept
<1> QED
  BY <1>2, <1>4, <1>6, <1>9, <1>12

(* The row the rider turns is served afterwards, also when a skip or an     *)
(* undo is about it.                                                        *)
LEMMA MealsDelivered ==
  ASSUME TypeInv, MealsInv, NEW d \in Dates, MarkDeliveryDelivered(d)
  PROVE  MealsInv'
<1>1. /\ rows \in DeliveryDays /\ {"delivered", "scheduled", "skipped"} \subseteq DayStatus
      /\ sub' = sub /\ my' = my
  BY DEF TypeInv, DeliveriesInv, DayStatus, MarkDeliveryDelivered
<1>2. PICK f \in DeliveryDays : f = rows
  BY <1>1
<1>3. PICK g : g = rows'
  OBVIOUS
<1>4. PICK s \in {"scheduled", "skipped", "paused"} :
             /\ f[<<d, s>>] > 0
             /\ g \in DeliveryDays
             /\ \A e \in Dates, t \in DayStatus :
                    g[<<e, t>>] = IF e = d /\ t = "delivered" THEN f[<<e, t>>] + 1
                                  ELSE IF e = d /\ t = s THEN f[<<e, t>>] - 1
                                  ELSE f[<<e, t>>]
  BY <1>1, <1>2, <1>3, RiderMarks
<1>5. s \in DayStatus /\ s # "delivered"
  BY <1>4 DEF DayStatus
<1>6. ASSUME OneRow(f)
      PROVE  /\ Turned(f, g, d, "delivered") /\ OneRow(g) /\ DaysIn(g) = DaysIn(f)
             /\ \A t \in DayStatus : t # s => f[<<d, t>>] = 0
             /\ \A win : Served(f, win) \subseteq Served(g, win) /\ d \in Served(g, win)
  <2>1. Turned(f, g, d, "delivered")
    BY <1>1, <1>4, <1>5, <1>6, OneTurns
  <2>2. /\ OneRow(g) /\ DaysIn(g) = DaysIn(f)
        /\ \A t \in DayStatus : t # s => f[<<d, t>>] = 0
    <3>1. \A t \in DayStatus : f[<<d, t>>] \in Nat
      BY DEF DeliveryDays
    <3>2. \A t \in DayStatus : t # s => f[<<d, t>>] = 0
      BY <1>4, <1>5, <1>6, <3>1 DEF OneRow
    <3>3. OneRow(g) /\ DaysIn(g) = DaysIn(f)
      <4>1. f[<<d, s>>] > 0
        BY <1>4
      <4> QED
        BY <1>1, <1>5, <1>6, <2>1, <4>1, TurnedRows
    <3> QED
      BY <3>2, <3>3
  <2>3. "delivered" \in {"scheduled", "delivered"}
    OBVIOUS
  <2>4. ASSUME NEW win
        PROVE  Served(f, win) \subseteq Served(g, win) /\ d \in Served(g, win)
    BY <2>1, <2>3, TurnedServes
  <2> QED
    BY <2>1, <2>2, <2>4
<1>7. ASSUME NEW h \in Handlers, my[h].cmd \in {"skip", "undo"}, my[h].pc = "days"
      PROVE  \/ /\ g[<<my[h].date, "scheduled">>] = f[<<my[h].date, "scheduled">>]
                /\ g[<<my[h].date, "skipped">>] = f[<<my[h].date, "skipped">>]
                /\ g[<<my[h].date, "delivered">>] = f[<<my[h].date, "delivered">>]
             \/ OneRow(f) /\ MealsHold(my[h], f, sub) => MealsHold(my'[h], g, sub')
  <2>1. PICK o : o = my[h]
    OBVIOUS
  <2>2. PICK r : r = sub
    OBVIOUS
  <2>3. o.date \in Dates /\ o.cmd \in {"skip", "undo"} /\ o.pc = "days"
    BY <1>7, <2>1 DEF TypeInv, DeliveriesInv, DatedOf
  <2>4. CASE o.date # d
    BY <1>1, <1>4, <2>1, <2>3, <2>4
  <2>5. CASE o.date = d
    <3>1. SUFFICES ASSUME OneRow(f), MealsHold(o, f, r) PROVE MealsHold(o, g, r)
      BY <1>1, <2>1, <2>2
    <3>2. g[<<o.date, "delivered">>] = 1 /\ g[<<o.date, "delivered">>] > 0
      BY <1>6, <2>5, <3>1 DEF Turned
    <3>3. Paid \in Int /\ Paid + 1 \in Int
      BY PaidTyped
    <3>4. \A n \in Int : Enough(f, Window(r), n) => Enough(g, Window(r), n)
      BY <1>6, <3>1, EnoughKept
    <3>5. Ends(f, r.endDate) => Ends(g, r.endDate)
      BY <1>6, <3>1 DEF Ends
    <3>6. CASE o.cmd = "skip"
      <4>1. Ends(f, r.endDate) /\ o.sub.endDate > r.endDate /\ Enough(f, Window(r), Paid)
        BY <2>3, <3>1, <3>6 DEF MealsHold
      <4> QED
        BY <2>3, <3>2, <3>3, <3>4, <3>5, <3>6, <4>1 DEF MealsHold
    <3>7. CASE o.cmd = "undo"
      <4>1. /\ Ends(f, r.endDate) /\ o.sub.endDate = r.endDate
            /\ \/ Enough(f, Window(r), Paid) /\ f[<<o.date, "skipped">>] > 0
               \/ Enough(f, Window(r), Paid + 1) /\ f[<<o.date, "delivered">>] > 0
        BY <2>3, <3>1, <3>7 DEF MealsHold
      <4>2. f[<<o.date, "delivered">>] = 0
        BY <1>1, <1>5, <1>6, <2>5, <3>1
      <4>3. Enough(f, Window(r), Paid) /\ f[<<d, "skipped">>] > 0
        BY <2>5, <4>1, <4>2
      <4>4. s = "skipped"
        BY <1>1, <1>6, <3>1, <4>3
      <4>5. d \notin Served(f, Window(r))
        BY <1>6, <3>1, <4>4 DEF Served, DayStatus
      <4>6. Enough(g, Window(r), Paid + 1)
        BY <1>6, <3>1, <3>3, <4>3, <4>5, EnoughOn
      <4> QED
        BY <2>3, <3>2, <3>5, <3>7, <4>1, <4>6 DEF MealsHold
    <3> QED
      BY <2>3, <3>6, <3>7
  <2> QED
    BY <2>4, <2>5
<1>8. OneRow(rows) => /\ OneRow(rows') /\ DaysIn(rows') = DaysIn(rows)
                      /\ \A win : Served(rows, win) \subseteq Served(rows', win)
  BY <1>2, <1>3, <1>6
<1> QED
  BY <1>1, <1>2, <1>3, <1>7, <1>8, MealsAround

(* The invariant of the meals is inductive.                                 *)
LEMMA MealsStep ==
  ASSUME OneHandler, TypeInv, MealsInv, [Next]_vars
  PROVE  MealsInv'
<1>1. TypedSub(sub)
  BY DEF TypeInv, PlansTyped
<1>2. ASSUME NEW h \in Handlers, Begin(h) PROVE MealsInv'
  BY <1>2, MealsBegins
<1>3. ASSUME NEW h \in Handlers, BeginPromote(h) PROVE MealsInv'
  BY <1>3, MealsPromotes
<1>4. ASSUME NEW h \in Handlers, Continue(h) PROVE MealsInv'
  BY <1>4, MealsContinues
<1>5. ASSUME NEW p \in PlanSet, OrderUpgrade(p) PROVE MealsInv'
  BY <1>5, MealsAround DEF OrderUpgrade
<1>6. CASE ReadSubscription
  <2>1. PICK s : s = sub
    OBVIOUS
  <2>2. PICK e : e = EnsurePauseStatus(s)
    OBVIOUS
  <2>3. sub' = e /\ rows' = rows /\ my' = my
    BY <1>6, <2>1, <2>2 DEF ReadSubscription, EnsurePauseStatus, HasPause, IsAfterSkipCutoff
  <2>4. /\ e.plan = s.plan /\ e.endDate = s.endDate
        /\ e.pausedFrom = s.pausedFrom /\ e.pausedUntil = s.pausedUntil
    BY <1>1, <2>1, <2>2, Ensured DEF TypedSub
  <2> QED
    BY <2>1, <2>3, <2>4, MealsAround
<1>7. ASSUME NEW d \in Dates, MarkDeliveryDelivered(d) PROVE MealsInv'
  BY <1>7, MealsDelivered
<1>8. CASE ExpireActiveSubscriptions
  <2>1. PICK s : s = sub
    OBVIOUS
  <2>2. PICK e : e = [s EXCEPT !.status = "expired"]
    OBVIOUS
  <2>3. sub' = e /\ rows' = rows /\ my' = my
    BY <1>8, <2>1, <2>2 DEF ExpireActiveSubscriptions
  <2>4. /\ e.plan = s.plan /\ e.endDate = s.endDate
        /\ e.pausedFrom = s.pausedFrom /\ e.pausedUntil = s.pausedUntil
    BY <1>1, <2>1, <2>2 DEF TypedSub, Subscription
  <2> QED
    BY <2>1, <2>3, <2>4, MealsAround
<1>9. CASE Tick
  <2>1. sub' = sub /\ rows' = rows
        /\ my' = [h \in Handlers |-> [my[h] EXCEPT !.aged = ~Idle(h)]]
    BY <1>9 DEF Tick
  <2>2. ASSUME NEW h \in Handlers
        PROVE  /\ my'[h].cmd = my[h].cmd /\ my'[h].pc = my[h].pc
               /\ my'[h].sub = my[h].sub /\ my'[h].date = my[h].date
               /\ my'[h].until = my[h].until
    <3>1. PICK o : o = my[h]
      OBVIOUS
    <3>2. PICK b \in BOOLEAN : b <=> ~Idle(h)
      OBVIOUS
    <3>3. my'[h] = [o EXCEPT !.aged = b]
      BY <2>1, <3>1, <3>2
    <3>4. IsLocal(o)
      BY <3>1, ReadTyped
    <3>5. PICK v : v = [o EXCEPT !.aged = b]
      OBVIOUS
    <3>6. v.cmd = o.cmd /\ v.pc = o.pc /\ v.sub = o.sub /\ v.date = o.date
          /\ v.until = o.until
      BY <3>4, <3>5 DEF IsLocal
    <3> QED
      BY <3>1, <3>3, <3>5, <3>6
  <2> QED
    BY <2>1, <2>2, MealsAround
<1>10. CASE UNCHANGED vars
  BY <1>10, MealsAround DEF vars
<1> QED
  BY <1>2, <1>3, <1>4, <1>5, <1>6, <1>7, <1>8, <1>9, <1>10 DEF Next

(* The days a first plan is created with are as many as were paid for, and  *)
(* it ends on their last.                                                   *)
LEMMA MealsStart == Init => MealsInv
<1> SUFFICES ASSUME Init PROVE MealsInv
  OBVIOUS
<1>1. PICK f \in DeliveryDays : f = rows
  BY TypesStart DEF TypeInv, DeliveriesInv
<1>2. PICK n : n = Paid
  OBVIOUS
<1>3. n \in Nat /\ n > 0 /\ n = MealCount[Plans[1]] /\ Reaches(StartDate, n)
  BY <1>2, PaidTyped, SubscriptionAssumption DEF Paid
<1>4. PICK from \in Int : from = StartDate
  BY SubscriptionAssumption, DatesTyped
<1>5. PICK G : G = GenerateWorkingDeliveryDates(from, n)
  OBVIOUS
<1>6. G \in SUBSET Dates /\ IsFiniteSet(G) /\ Cardinality(G) = n
  BY <1>3, <1>4, <1>5, Generated
<1>7. PICK e : e = AddWorkingDaysForward(from, n)
  OBVIOUS
<1>8. e \in G /\ \A d \in G : d <= e
  BY <1>3, <1>4, <1>5, <1>7, Forward
<1>9. PICK s : s = sub
  OBVIOUS
<1>10. s.endDate = e /\ s.pausedFrom = 0
  BY <1>3, <1>4, <1>5, <1>7, <1>9 DEF Init, GenerateDeliveryDays, AddWorkingDaysForward
<1>11. f = [p \in Dates \X DayStatus |-> IF p \in G \X {"scheduled"} THEN 1 ELSE 0]
  BY <1>1, <1>3, <1>4, <1>5 DEF Init, GenerateDeliveryDays
<1>12. "scheduled" \in DayStatus
       /\ \A d \in Dates, t \in DayStatus :
              f[<<d, t>>] = IF d \in G /\ t = "scheduled" THEN 1 ELSE 0
  BY <1>11 DEF DayStatus
<1>13. OneRow(f)
  BY <1>12 DEF OneRow
<1>14. DaysIn(f) = G
  <2>1. ASSUME NEW d \in Dates PROVE d \in DaysIn(f) <=> d \in G
    <3>1. CASE d \in G
      <4>1. f[<<d, "scheduled">>] > 0
        BY <1>12, <3>1
      <4> QED
        BY <1>12, <3>1, <4>1 DEF DaysIn
    <3>2. CASE d \notin G
      <4>1. \A t \in DayStatus : ~(f[<<d, t>>] > 0)
        BY <1>12, <3>2
      <4> QED
        BY <3>2, <4>1 DEF DaysIn
    <3> QED
      BY <3>1, <3>2
  <2>2. DaysIn(f) \in SUBSET Dates
    BY DEF DaysIn
  <2> QED
    BY <1>6, <2>1, <2>2
<1>15. Ends(f, s.endDate)
  BY <1>8, <1>10, <1>14 DEF Ends
<1>16. Enough(f, Window(s), n)
  <2>1. G \subseteq Served(f, Window(s))
    BY <1>6, <1>12 DEF Served
  <2>2. Cardinality(G) <= Cardinality(Served(f, Window(s)))
    BY <2>1, ServedTyped, FS_Subset
  <2> QED
    BY <1>6, <2>2 DEF Enough
<1>17. ASSUME NEW h \in Handlers PROVE MealsHold(my[h], f, s)
  <2>1. PICK v : v = my[h]
    OBVIOUS
  <2>2. v.cmd = "none"
    BY <2>1, RestingTyped DEF Init
  <2>3. MealsHold(v, f, s)
    BY <1>2, <1>15, <1>16, <2>2 DEF MealsHold
  <2> QED
    BY <2>1, <2>3
<1> QED
  BY <1>1, <1>9, <1>13, <1>17 DEF MealsInv

(* What it says when no command is under way.                               *)
LEMMA MealsQuiet ==
  ASSUME OneHandler, TypeInv, MealsInv, Quiet
  PROVE  /\ OneRow(rows) /\ Ends(rows, sub.endDate) /\ Enough(rows, Window(sub), Paid)
         /\ rows \in DeliveryDays /\ TypedSub(sub)
<1>1. PICK h : h \in Handlers
  BY DEF OneHandler
<1>2. PICK o : o = my[h]
  OBVIOUS
<1>3. o.cmd = "none" /\ sub.plan = Plans[1]
  BY <1>1, <1>2 DEF Quiet, Upgraded, AllIdle, Idle
<1>4. OneRow(rows) /\ MealsHold(o, rows, sub) /\ rows \in DeliveryDays
  BY <1>1, <1>2, <1>3, MealsRead
<1> QED
  BY <1>3, <1>4 DEF MealsHold, TypeInv, PlansTyped

(* With one command at a time it always holds.                              *)
LEMMA MealsInvariant == ASSUME OneHandler PROVE Spec => [](TypeInv /\ MealsInv)
<1>1. TypeInv /\ MealsInv /\ [Next]_vars => (TypeInv /\ MealsInv)'
  BY TypesStep, MealsStep
<1>2. Init => TypeInv /\ MealsInv
  BY TypesStart, MealsStart
<1> QED
  BY <1>1, <1>2, PTL DEF Spec

(* Between commands a customer who has not upgraded never has fewer days    *)
(* than the plan paid for, through any sequence of skips, undos, pauses,    *)
(* resumes and cancellations, on any calendar.                              *)
THEOREM MealsAreNotLost == ASSUME OneHandler PROVE Spec => []NoMealLost
<1>1. TypeInv /\ MealsInv => NoMealLost
  <2> SUFFICES ASSUME TypeInv, MealsInv, Quiet
               PROVE  HowMany(Dates, {"scheduled", "delivered"})
                          + HowMany(Window(sub), {"paused"}) >= MealCount[Plans[1]]
    BY DEF NoMealLost
  <2>1. PICK f \in DeliveryDays : f = rows
    BY MealsQuiet
  <2>2. PICK s : s = sub
    OBVIOUS
  <2>3. PICK win : win = Window(s)
    OBVIOUS
  <2>4. Enough(f, win, Paid) /\ TypedSub(s)
    BY <2>1, <2>2, <2>3, MealsQuiet
  <2>5. win \in SUBSET Dates
    <3>1. CASE s.pausedFrom = 0
      BY <2>3, <3>1 DEF Window, HasPause
    <3>2. CASE s.pausedFrom # 0
      <4>1. PICK from \in Dates, until \in Dates :
                from = s.pausedFrom /\ until = s.pausedUntil
        BY <2>4, <3>2, SubFields DEF TypedSub
      <4>2. from \in Nat /\ from >= 1 /\ until \in Nat /\ until <= LastDate
            /\ LastDate \in Nat
        BY CalendarAssumption DEF Dates
      <4>3. from .. until \subseteq 1 .. LastDate
        BY <4>2
      <4> QED
        BY <2>3, <3>2, <4>1, <4>3 DEF Window, HasPause, Dates
    <3> QED
      BY <3>1, <3>2
  <2>6. PICK ss \in SUBSET DayStatus : ss = {"scheduled", "delivered"}
    BY DEF DayStatus
  <2>7. PICK pp \in SUBSET DayStatus : pp = {"paused"}
    BY DEF DayStatus
  <2>8. PICK A : A = { d \in Dates : \E t \in ss : f[<<d, t>>] > 0 }
    OBVIOUS
  <2>9. PICK B : B = { d \in win : \E t \in pp : f[<<d, t>>] > 0 }
    OBVIOUS
  <2>10. PICK a, b : a = HowMany(Dates, ss) /\ b = HowMany(win, pp)
    OBVIOUS
  <2>11. a \in Nat /\ b \in Nat
    BY <2>1, <2>5, <2>10, HowManyTyped
  <2>12. IsFiniteSet(A) /\ Cardinality(A) \in Nat /\ Cardinality(A) <= a
    <3>1. a = Cardinality(Of(f, Dates, ss))
      BY <2>1, <2>10, HowManyOf
    <3> QED
      BY <2>8, <3>1, DatesFew
  <2>13. IsFiniteSet(B) /\ Cardinality(B) \in Nat /\ Cardinality(B) <= b
    <3>1. b = Cardinality(Of(f, win, pp))
      BY <2>1, <2>10, HowManyOf
    <3> QED
      BY <2>5, <2>9, <3>1, DatesFew
  <2>14. Served(f, win) \subseteq A \cup B
    BY <2>6, <2>7, <2>8, <2>9 DEF Served
  <2>15. Cardinality(Served(f, win)) <= Cardinality(A) + Cardinality(B)
    <3>1. /\ IsFiniteSet(A \cup B) /\ IsFiniteSet(A \cap B)
          /\ Cardinality(A \cup B) = Cardinality(A) + Cardinality(B) - Cardinality(A \cap B)
      BY <2>12, <2>13, FS_Union, FS_Intersection
    <3>2. Cardinality(Served(f, win)) <= Cardinality(A \cup B)
      BY <2>14, <3>1, FS_Subset
    <3>3. /\ Cardinality(A \cap B) \in Nat /\ Cardinality(A \cup B) \in Nat
          /\ Cardinality(Served(f, win)) \in Nat
      BY <3>1, FS_CardinalityType, ServedTyped
    <3> QED
      BY <2>12, <2>13, <3>1, <3>2, <3>3
  <2>16. Cardinality(Served(f, win)) >= Paid /\ Cardinality(Served(f, win)) \in Nat
         /\ Paid \in Nat
    BY <2>4, ServedTyped, PaidTyped DEF Enough
  <2>17. a + b >= Paid
    BY <2>11, <2>12, <2>13, <2>15, <2>16
  <2> QED
    BY <2>2, <2>3, <2>6, <2>7, <2>10, <2>17 DEF Paid
<1> QED
  BY <1>1, MealsInvariant, PTL

(* Between commands the plan ends on the last day it has a row for, so the  *)
(* end date the expiry job goes by is behind no meal and ahead of none.     *)
THEOREM EndIsLastDay == ASSUME OneHandler PROVE Spec => []EndsOnLastDay
<1>1. TypeInv /\ MealsInv => EndsOnLastDay
  <2> SUFFICES ASSUME TypeInv, MealsInv, Quiet PROVE sub.endDate = Max(DatesWithRows)
    BY DEF EndsOnLastDay
  <2>1. PICK S : S = DatesWithRows
    OBVIOUS
  <2>2. S = DaysIn(rows)
    BY <2>1 DEF DatesWithRows, RowsAt, DaysIn
  <2>3. PICK e : e = sub.endDate
    OBVIOUS
  <2>4. e \in S /\ \A d \in S : d <= e
    BY <2>2, <2>3, MealsQuiet DEF Ends
  <2>5. S \in SUBSET Int /\ S # {} /\ IsFiniteSet(S)
    <3>1. S \in SUBSET Dates
      BY <2>1 DEF DatesWithRows
    <3>2. IsFiniteSet(S)
      BY <3>1, DatesTyped, FS_Subset
    <3>3. \A d \in Dates : d \in Int
      BY DatesTyped
    <3>4. S \in SUBSET Int
      BY <3>1, <3>3
    <3> QED
      BY <2>4, <3>2, <3>4
  <2>6. PICK m : m = Max(S)
    OBVIOUS
  <2>7. m \in S /\ \A d \in S : d <= m
    BY <2>5, <2>6, MaxIsMember
  <2>8. e = m
    BY <2>4, <2>5, <2>7
  <2> QED
    BY <2>1, <2>3, <2>6, <2>8
<1> QED
  BY <1>1, MealsInvariant, PTL

(* Only the expiry job expires a plan.                                      *)
LEMMA OnlyTheJobExpires ==
  ASSUME TypeInv, AllIdle, [Next]_vars, sub.status # "expired", sub'.status = "expired"
  PROVE  ExpireActiveSubscriptions
<1>1. TypedSub(sub)
  BY DEF TypeInv, PlansTyped
<1>2. PICK s : s = sub
  OBVIOUS
<1>3. s \in Subscription /\ s.status # "expired"
  BY <1>1, <1>2 DEF TypedSub
<1>4. PICK e : e = EnsurePauseStatus(s)
  OBVIOUS
<1>5. e.status # "expired"
  BY <1>1, <1>2, <1>3, <1>4, Ensured
<1>6. e = EnsurePauseStatus(sub)
  BY <1>2, <1>4 DEF EnsurePauseStatus, HasPause, IsAfterSkipCutoff
<1>7. ASSUME NEW h \in Handlers, Begin(h) PROVE FALSE
  <2>1. sub' = e \/ sub' = s
    BY <1>2, <1>6, <1>7
    DEF Begin, BeginSkip, BeginUndo, BeginResume, BeginPause, BeginCancelPause,
        BeginCancel, BeginResubscribe, Start
  <2> QED
    BY <1>2, <1>3, <1>5, <2>1
<1>8. ASSUME NEW h \in Handlers, Continue(h) PROVE FALSE
  <2>1. my[h].cmd = "none"
    BY DEF AllIdle, Idle
  <2> QED
    BY <1>8, <2>1
    DEF Continue, Busy, MarkSkipped, AddMakeupDay, SaveSkip, MarkUnskipped,
        DeleteMakeupDay, SaveUndo, FreezeDays, SavePause, RestoreDays, SaveCancelPause,
        RestoreRest, AppendLapsedDays, SaveResume, SaveStatus, AddCanonicalDays,
        DropOtherDays, SavePromote
<1>9. CASE ReadSubscription
  BY <1>5, <1>6, <1>9 DEF ReadSubscription
<1>10. ASSUME NEW h \in Handlers, BeginPromote(h) PROVE FALSE
  BY <1>10 DEF BeginPromote
<1>11. ASSUME NEW p \in PlanSet, OrderUpgrade(p) PROVE FALSE
  BY <1>11 DEF OrderUpgrade
<1>12. CASE (\E d \in Dates : MarkDeliveryDelivered(d)) \/ Tick \/ UNCHANGED vars
  BY <1>12 DEF MarkDeliveryDelivered, Tick, vars
<1> QED
  BY <1>7, <1>8, <1>9, <1>10, <1>11, <1>12 DEF Next

(* Unless a command is under way, the job expires a plan only when it has   *)
(* nothing left to deliver on a coming day.                                 *)
THEOREM PlansExpireWhenOver == ASSUME OneHandler PROVE Spec => ExpiredIsOver
<1> DEFINE Over == Quiet /\ sub'.status = "expired"
                       => \A d \in Dates : "scheduled" \in RowsAt(d) => d < Today
<1>1. TypeInv /\ MealsInv /\ [Next]_vars => Over
  <2> SUFFICES ASSUME TypeInv, MealsInv, [Next]_vars, Quiet, sub'.status = "expired",
                      NEW d \in Dates, "scheduled" \in RowsAt(d)
               PROVE  d < Today
    OBVIOUS
  <2>1. sub.endDate < Today
    BY OnlyTheJobExpires DEF Quiet, ExpireActiveSubscriptions
  <2>2. d <= sub.endDate
    <3>1. d \in DaysIn(rows)
      BY DEF DaysIn, RowsAt
    <3> QED
      BY <3>1, MealsQuiet DEF Ends
  <2>3. sub.endDate \in Nat /\ d \in Nat
    <3>1. sub.endDate \in Dates
      BY MealsQuiet, SubFields DEF TypedSub
    <3> QED
      BY <3>1, DatesTyped
  <2>4. Today \in Nat
    BY TodayTyped DEF TypeInv, DeliveriesInv
  <2> QED
    BY <2>1, <2>2, <2>3, <2>4
<1>2. [](TypeInv /\ MealsInv) /\ [][Next]_vars => [][Over]_vars
  BY <1>1, PTL
<1> QED
  BY <1>2, MealsInvariant, PTL DEF Spec, ExpiredIsOver

-----------------------------------------------------------------------------
(* What the screens offer.                                                 *)

Paused(s) == s.status = "paused" => s.pausedFrom # 0

(* No command saves a status of paused without a window.                    *)
PauseHolds(v) ==
    /\ v.cmd = "pause" => v.sub.pausedFrom # 0
    /\ v.cmd \in {"cancelPause", "cancel", "resubscribe"} => v.sub.status # "paused"
    /\ v.cmd = "resume" /\ v.pc = "save" => v.sub.status # "paused"

PauseInv == Paused(sub) /\ \A h \in Handlers : PauseHolds(my[h])

(* Looking at a plan begins a pause only where there is one.                *)
LEMMA PausedRead ==
  ASSUME NEW s, TypedSub(s), Paused(s)
  PROVE  Paused(EnsurePauseStatus(s))
<1>1. s \in Subscription
  BY DEF TypedSub
<1>2. CASE EnsurePauseStatus(s) = s
  BY <1>2
<1>3. CASE EnsurePauseStatus(s) = [s EXCEPT !.status = "active"]
  BY <1>1, <1>3 DEF Paused, Subscription
<1>4. CASE HasPause(s) /\ EnsurePauseStatus(s) = [s EXCEPT !.status = "paused"]
  BY <1>1, <1>4 DEF Paused, HasPause, Subscription
<1> QED
  BY <1>2, <1>3, <1>4 DEF EnsurePauseStatus

(* The local state of the handler that has taken a step.                    *)
LEMMA OnePauses ==
  ASSUME TypeInv, PauseInv, NEW h \in Handlers, NEW v, my' = [my EXCEPT ![h] = v],
         PauseHolds(v), Paused(sub')
  PROVE  PauseInv'
<1>1. \A k \in Handlers : my'[k] = v \/ my'[k] = my[k]
  BY DEF TypeInv, DeliveriesInv
<1>2. \A k \in Handlers : PauseHolds(my'[k])
  BY <1>1 DEF PauseInv
<1> QED
  BY <1>2 DEF PauseInv, PauseHolds, Paused

(* A command that begins has read a plan without such a status.             *)
LEMMA PauseBegins ==
  ASSUME TypeInv, PauseInv, NEW h \in Handlers, NEW cmd, NEW pc, NEW s, NEW w, NEW d,
         NEW u, Start(h, cmd, pc, s, w, d, u), pc # "save" \/ cmd # "resume", Paused(s),
         cmd = "pause" => w.pausedFrom # 0,
         cmd \in {"cancelPause", "cancel", "resubscribe"} => w.status # "paused"
  PROVE  PauseInv'
<1>1. PICK v : v = [cmd |-> cmd, pc |-> pc, sub |-> w, date |-> d, until |-> u,
                    aged |-> FALSE]
  OBVIOUS
<1>2. v.cmd = cmd /\ v.pc = pc /\ v.sub = w
  BY <1>1
<1>3. PauseHolds(v)
  BY <1>2 DEF PauseHolds
<1>4. my' = [my EXCEPT ![h] = v] /\ sub' = s
  BY <1>1 DEF Start
<1> QED
  BY <1>3, <1>4, OnePauses

(* A statement between the first and the last of a command.                 *)
LEMMA PauseGoes ==
  ASSUME TypeInv, PauseInv, NEW h \in Handlers, NEW pc, NEW w, NEW o, o = my[h],
         Goto(h, pc, w), o.cmd \in {"skip", "undo", "promote"} \/ w = o.sub \/ o.cmd = "resume",
         o.cmd = "resume" /\ pc = "save" => w.status # "paused"
  PROVE  PauseInv'
<1>1. PICK v : v = [cmd |-> o.cmd, pc |-> pc, sub |-> w, date |-> o.date, until |-> o.until,
                    aged |-> o.aged]
  OBVIOUS
<1>2. v.cmd = o.cmd /\ v.pc = pc /\ v.sub = w
  BY <1>1
<1>3. PauseHolds(o)
  BY DEF PauseInv
<1>4. PauseHolds(v)
  BY <1>2, <1>3 DEF PauseHolds
<1>5. [o EXCEPT !.pc = pc, !.sub = w] = v
  <2>1. IsLocal(o)
    BY ReadTyped
  <2>2. [o EXCEPT !.pc = pc] = [cmd |-> o.cmd, pc |-> pc, sub |-> o.sub, date |-> o.date,
                                until |-> o.until, aged |-> o.aged]
    BY <2>1 DEF IsLocal
  <2>3. [[cmd |-> o.cmd, pc |-> pc, sub |-> o.sub, date |-> o.date, until |-> o.until,
          aged |-> o.aged] EXCEPT !.sub = w] = v
    BY <1>1
  <2> QED
    BY <2>2, <2>3
<1>6. my' = [my EXCEPT ![h] = v] /\ sub' = sub
  BY <1>5 DEF Goto
<1>7. Paused(sub')
  BY <1>6 DEF PauseInv
<1> QED
  BY <1>4, <1>6, <1>7, OnePauses

(* A handler that has saved.                                                *)
LEMMA PauseRests ==
  ASSUME TypeInv, PauseInv, NEW h \in Handlers, my' = [my EXCEPT ![h] = Resting],
         Paused(sub')
  PROVE  PauseInv'
<1>1. PICK v : v = Resting
  OBVIOUS
<1>2. PauseHolds(v)
  BY <1>1, RestingTyped DEF PauseHolds
<1> QED
  BY <1>1, <1>2, OnePauses

(* The columns a command saves keep a paused plan's window.                 *)
LEMMA PauseSaves ==
  ASSUME TypeInv, PauseInv, NEW h \in Handlers, NEW columns, UpdateSubscription(h, columns),
         NEW o, o = my[h], o.pc = "save",
         \/ o.cmd \in {"skip", "undo"} /\ columns = SkipColumns
         \/ o.cmd \in {"pause", "cancelPause"} /\ columns = PauseColumns
         \/ o.cmd = "resume" /\ columns = PauseColumns \cup {"endDate"}
         \/ o.cmd \in {"cancel", "resubscribe"} /\ columns = {"status"}
  PROVE  PauseInv'
<1>1. PICK s : s = sub
  OBVIOUS
<1>2. PICK t : t = sub'
  OBVIOUS
<1>3. PICK w : w = o.sub
  OBVIOUS
<1>4. /\ t = [c \in DOMAIN s |-> IF c \in columns THEN w[c] ELSE s[c]]
      /\ my' = [my EXCEPT ![h] = Resting]
  BY <1>1, <1>2, <1>3 DEF UpdateSubscription
<1>5. s \in Subscription /\ w \in Subscription
  BY <1>1, <1>3, ReadTyped
<1>6. /\ t.status = IF "status" \in columns THEN w.status ELSE s.status
      /\ t.pausedFrom = IF "pausedFrom" \in columns THEN w.pausedFrom ELSE s.pausedFrom
  BY <1>4, <1>5, Saved
<1>7. Paused(s) /\ PauseHolds(o)
  BY <1>1 DEF PauseInv
<1>8. Paused(t)
  BY <1>3, <1>6, <1>7 DEF PauseHolds, Paused, SkipColumns, PauseColumns
<1> QED
  BY <1>2, <1>4, <1>8, PauseRests

(* Every command begins that way.                                           *)
LEMMA PauseBegun ==
  ASSUME TypeInv, PauseInv, NEW h \in Handlers, Begin(h)
  PROVE  PauseInv'
<1>1. PICK s : s = sub
  OBVIOUS
<1>2. PICK e : e = EnsurePauseStatus(s)
  OBVIOUS
<1>3. TypedSub(s) /\ Paused(s) /\ s \in Subscription
  BY <1>1 DEF TypeInv, PlansTyped, PauseInv, TypedSub
<1>4. TypedSub(e) /\ Paused(e) /\ e \in Subscription
      /\ e.pausedFrom = s.pausedFrom
  BY <1>2, <1>3, Ensured, PausedRead DEF TypedSub
<1>5. EnsurePauseStatus(sub) = e
  BY <1>1, <1>2
<1>6. ASSUME NEW d \in Dates, BeginSkip(h, d) PROVE PauseInv'
  <2>1. \E w : Start(h, "skip", "days", e, w, d, 0)
    BY <1>5, <1>6 DEF BeginSkip
  <2> QED
    BY <1>4, <2>1, PauseBegins
<1>7. ASSUME NEW d \in Dates, BeginUndo(h, d) PROVE PauseInv'
  <2>1. \E w : Start(h, "undo", "days", e, w, d, 0)
    BY <1>5, <1>7 DEF BeginUndo
  <2> QED
    BY <1>4, <2>1, PauseBegins
<1>8. ASSUME NEW d \in Dates, BeginResume(h, d) PROVE PauseInv'
  <2>1. \E w : Start(h, "resume", "days", e, w, d, e.pausedUntil)
    BY <1>5, <1>8 DEF BeginResume
  <2> QED
    BY <1>4, <2>1, PauseBegins
<1>9. ASSUME NEW from \in Dates, NEW until \in Dates, BeginPause(h, from, until)
      PROVE  PauseInv'
  <2>1. PICK n : n = CountWorkingDaysInRange(from, until)
    OBVIOUS
  <2>2. PICK w : w = [e EXCEPT !.pausedFrom = from, !.pausedUntil = until, !.flexUsed = @ + n]
    OBVIOUS
  <2>3. Start(h, "pause", "days", e, w, from, until)
    BY <1>5, <1>9, <2>1, <2>2 DEF BeginPause
  <2>4. w.pausedFrom = from
    BY <1>4, <2>2 DEF Subscription
  <2>5. from # 0
    BY DatesTyped
  <2> QED
    BY <1>4, <2>3, <2>4, <2>5, PauseBegins
<1>10. CASE BeginCancelPause(h)
  <2>1. PICK n : n = CountWorkingDaysInRange(e.pausedFrom, e.pausedUntil)
    OBVIOUS
  <2>2. PICK w : w = WithoutPause(e, "active", n)
    OBVIOUS
  <2>3. Start(h, "cancelPause", "days", e, w, e.pausedFrom, e.pausedUntil)
    BY <1>5, <1>10, <2>1, <2>2 DEF BeginCancelPause
  <2>4. PICK k : k = Refund(e.flexUsed, n)
    OBVIOUS
  <2>5. w = [e EXCEPT !.status = "active", !.pausedFrom = 0, !.pausedUntil = 0,
                      !.flexUsed = k]
    BY <2>2, <2>4 DEF WithoutPause
  <2>6. w.status = "active"
    BY <1>4, <2>5 DEF Subscription
  <2> QED
    BY <1>4, <2>3, <2>6, PauseBegins
<1>11. CASE BeginCancel(h)
  <2>1. PICK w : w = [s EXCEPT !.status = "cancelled"]
    OBVIOUS
  <2>2. Start(h, "cancel", "save", s, w, 0, 0) /\ w.status = "cancelled"
    BY <1>1, <1>3, <1>11, <2>1 DEF BeginCancel, Subscription
  <2> QED
    BY <1>3, <2>2, PauseBegins
<1>12. CASE BeginResubscribe(h)
  <2>1. PICK w : w = [s EXCEPT !.status = "active"]
    OBVIOUS
  <2>2. Start(h, "resubscribe", "save", s, w, 0, 0) /\ w.status = "active"
    BY <1>1, <1>3, <1>12, <2>1 DEF BeginResubscribe, Subscription
  <2> QED
    BY <1>3, <2>2, PauseBegins
<1> QED
  BY <1>6, <1>7, <1>8, <1>9, <1>10, <1>11, <1>12 DEF Begin

(* And goes on that way.                                                    *)
LEMMA PauseContinues ==
  ASSUME TypeInv, PauseInv, NEW h \in Handlers, Continue(h)
  PROVE  PauseInv'
<1>1. PICK o : o = my[h]
  OBVIOUS
<1>2. o.sub \in Subscription
  BY <1>1, ReadTyped
<1>3. CASE SaveSkip(h) \/ SaveUndo(h)
  <2>1. UpdateSubscription(h, SkipColumns) /\ o.cmd \in {"skip", "undo"} /\ o.pc = "save"
    BY <1>1, <1>3 DEF SaveSkip, SaveUndo, Busy
  <2> QED
    BY <1>1, <2>1, PauseSaves
<1>4. CASE SavePause(h) \/ SaveCancelPause(h)
  <2>1. /\ UpdateSubscription(h, PauseColumns) /\ o.cmd \in {"pause", "cancelPause"}
        /\ o.pc = "save"
    BY <1>1, <1>4 DEF SavePause, SaveCancelPause, Busy
  <2> QED
    BY <1>1, <2>1, PauseSaves
<1>5. CASE SaveResume(h)
  <2>1. /\ UpdateSubscription(h, PauseColumns \cup {"endDate"}) /\ o.cmd = "resume"
        /\ o.pc = "save"
    BY <1>1, <1>5 DEF SaveResume, Busy
  <2> QED
    BY <1>1, <2>1, PauseSaves
<1>6. CASE SaveStatus(h)
  <2>1. /\ UpdateSubscription(h, {"status"}) /\ o.cmd \in {"cancel", "resubscribe"}
        /\ o.pc = "save"
    BY <1>1, <1>6 DEF SaveStatus, Busy
  <2> QED
    BY <1>1, <2>1, PauseSaves
<1>7. CASE SavePromote(h)
  <2>1. PICK s : s = sub
    OBVIOUS
  <2>2. PICK t : t = sub'
    OBVIOUS
  <2>3. PICK a, b, c, d : t = [s EXCEPT !.plan = a, !.totalMealDays = b, !.endDate = c,
                                        !.status = d] /\ d \in {"active", s.status}
    BY <1>7, <2>1, <2>2 DEF SavePromote
  <2>4. s \in Subscription /\ Paused(s)
    BY <1>1, <2>1, ReadTyped DEF PauseInv
  <2>5. t.status = d /\ t.pausedFrom = s.pausedFrom
    BY <2>3, <2>4 DEF Subscription
  <2>6. Paused(t) /\ my' = [my EXCEPT ![h] = Resting]
    BY <1>7, <2>3, <2>4, <2>5 DEF SavePromote, Paused
  <2> QED
    BY <2>2, <2>6, PauseRests
<1>8. CASE AppendLapsedDays(h)
  <2>1. PICK n : n = HowMany(o.sub.pausedFrom .. o.date - 1, {"paused"})
    OBVIOUS
  <2>2. PICK u : u = WithoutPause(o.sub, "active", 0)
    OBVIOUS
  <2>3. PICK w : w = [u EXCEPT !.endDate = IF n = 0 THEN @
                                           ELSE AddWorkingDaysForward(@ + 1, n)]
    OBVIOUS
  <2>4. Goto(h, "save", w) /\ o.cmd = "resume"
    BY <1>1, <1>8, <2>1, <2>2, <2>3 DEF AppendLapsedDays, Busy
  <2>5. PICK k : k = Refund(o.sub.flexUsed, 0)
    OBVIOUS
  <2>6. u = [o.sub EXCEPT !.status = "active", !.pausedFrom = 0, !.pausedUntil = 0,
                          !.flexUsed = k]
    BY <2>2, <2>5 DEF WithoutPause
  <2>7. u.status = "active" /\ DOMAIN u = DOMAIN o.sub
    BY <1>2, <2>6 DEF Subscription
  <2>8. w.status = "active"
    BY <1>2, <2>3, <2>7 DEF Subscription
  <2> QED
    BY <1>1, <2>4, <2>8, PauseGoes
<1>9. CASE DeleteMakeupDay(h)
  <2>1. \E w : Goto(h, "save", w)
    BY <1>9 DEF DeleteMakeupDay
  <2>2. o.cmd = "undo"
    BY <1>1, <1>9 DEF DeleteMakeupDay, Busy
  <2> QED
    BY <1>1, <2>1, <2>2, PauseGoes
<1>10. CASE \/ MarkSkipped(h) \/ AddMakeupDay(h) \/ MarkUnskipped(h) \/ FreezeDays(h)
            \/ RestoreDays(h) \/ RestoreRest(h) \/ AddCanonicalDays(h) \/ DropOtherDays(h)
  <2>1. PICK pc : Goto(h, pc, o.sub) /\ (o.cmd = "resume" => pc # "save")
    BY <1>1, <1>10
    DEF MarkSkipped, AddMakeupDay, MarkUnskipped, FreezeDays, RestoreDays, RestoreRest,
        AddCanonicalDays, DropOtherDays, Busy
  <2> QED
    BY <1>1, <2>1, PauseGoes
<1> QED
  BY <1>3, <1>4, <1>5, <1>6, <1>7, <1>8, <1>9, <1>10 DEF Continue

(* What is around the commands changes neither the window nor what they     *)
(* have read.                                                               *)
LEMMA PauseAround ==
  ASSUME PauseInv, Paused(sub'),
         \A h \in Handlers : /\ my'[h].cmd = my[h].cmd /\ my'[h].pc = my[h].pc
                             /\ my'[h].sub = my[h].sub
  PROVE  PauseInv'
<1>1. \A h \in Handlers : PauseHolds(my'[h])
  BY DEF PauseInv, PauseHolds
<1> QED
  BY <1>1 DEF PauseInv, PauseHolds, Paused

(* No step leaves a paused plan without a window.                           *)
LEMMA PauseStep ==
  ASSUME TypeInv, PauseInv, [Next]_vars
  PROVE  PauseInv'
<1>1. PICK s : s = sub
  OBVIOUS
<1>2. TypedSub(s) /\ Paused(s) /\ s \in Subscription
  BY <1>1 DEF TypeInv, PlansTyped, PauseInv, TypedSub
<1>3. ASSUME NEW h \in Handlers, Begin(h) PROVE PauseInv'
  BY <1>3, PauseBegun
<1>4. ASSUME NEW h \in Handlers, Continue(h) PROVE PauseInv'
  BY <1>4, PauseContinues
<1>5. ASSUME NEW h \in Handlers, BeginPromote(h) PROVE PauseInv'
  <2>1. PICK w, v : v = [cmd |-> "promote", pc |-> "days", date |-> 0, until |-> 0,
                         aged |-> FALSE, sub |-> w]
                    /\ my' = [my EXCEPT ![h] = v] /\ sub' = sub
    BY <1>5 DEF BeginPromote
  <2>2. v.cmd = "promote"
    BY <2>1
  <2>3. PauseHolds(v) /\ Paused(sub')
    BY <1>1, <1>2, <2>1, <2>2 DEF PauseHolds
  <2> QED
    BY <2>1, <2>3, OnePauses
<1>6. CASE \/ \E p \in PlanSet : OrderUpgrade(p)
           \/ \E d \in Dates : MarkDeliveryDelivered(d)
           \/ UNCHANGED vars
  <2>1. sub' = sub /\ my' = my
    BY <1>6 DEF OrderUpgrade, MarkDeliveryDelivered, vars
  <2> QED
    BY <1>1, <1>2, <2>1, PauseAround
<1>7. CASE ReadSubscription
  <2>1. sub' = EnsurePauseStatus(s) /\ my' = my
    BY <1>1, <1>7 DEF ReadSubscription
  <2>2. Paused(sub')
    BY <1>2, <2>1, PausedRead
  <2> QED
    BY <2>1, <2>2, PauseAround
<1>8. CASE ExpireActiveSubscriptions
  <2>1. sub' = [s EXCEPT !.status = "expired"] /\ my' = my
    BY <1>1, <1>8 DEF ExpireActiveSubscriptions
  <2>2. Paused(sub')
    BY <1>2, <2>1 DEF Paused, Subscription
  <2> QED
    BY <2>1, <2>2, PauseAround
<1>9. CASE Tick
  <2>1. sub' = sub /\ my' = [h \in Handlers |-> [my[h] EXCEPT !.aged = ~Idle(h)]]
    BY <1>9 DEF Tick
  <2>2. ASSUME NEW h \in Handlers
        PROVE  /\ my'[h].cmd = my[h].cmd /\ my'[h].pc = my[h].pc
               /\ my'[h].sub = my[h].sub
    <3>1. PICK o : o = my[h]
      OBVIOUS
    <3>2. PICK b \in BOOLEAN : b <=> ~Idle(h)
      OBVIOUS
    <3>3. my'[h] = [o EXCEPT !.aged = b]
      BY <2>1, <3>1, <3>2
    <3>4. IsLocal(o)
      BY <3>1, ReadTyped
    <3>5. PICK v : v = [o EXCEPT !.aged = b]
      OBVIOUS
    <3>6. v.cmd = o.cmd /\ v.pc = o.pc /\ v.sub = o.sub
      BY <3>4, <3>5 DEF IsLocal
    <3> QED
      BY <3>1, <3>3, <3>5, <3>6
  <2> QED
    BY <1>1, <1>2, <2>1, <2>2, PauseAround
<1> QED
  BY <1>3, <1>4, <1>5, <1>6, <1>7, <1>8, <1>9 DEF Next

(* A new plan is active.                                                    *)
LEMMA PauseStart == ASSUME OneHandler PROVE Init => PauseInv
<1> SUFFICES ASSUME Init PROVE PauseInv
  OBVIOUS
<1>1. sub.status = "active"
  BY DEF Init
<1>2. PICK r : r = Resting
  OBVIOUS
<1>3. PauseHolds(r)
  BY <1>2, RestingTyped DEF PauseHolds
<1>4. \A h \in Handlers : my[h] = r
  BY <1>2 DEF Init
<1> QED
  BY <1>1, <1>3, <1>4 DEF PauseInv, Paused

(* A day is offered to be skipped before its cutoff, with days left in the  *)
(* pool, by a plan that may skip once it is in its service period.          *)
LEMMA SkipOffered ==
  ASSUME TypeInv, NEW s, TypedSub(s), NEW day \in SubscriptionDeliveries(s)
  PROVE  /\ day.date \in Dates
         /\ day.flags.skip_available /\ day.date <= s.endDate =>
                MaySkip(s, day.date) /\ "skip" \in HomeActions(s)
         /\ day.flags.skip_available => "scheduled" \in RowsAt(day.date)
         /\ day.flags.undoable => MayUndo(day.date)
<1>1. PICK q \in DOMAIN rows : /\ rows[q] > 0
                               /\ day = [date |-> q[1], flags |-> DayActionFlags(s, q[1], q[2])]
  BY DEF SubscriptionDeliveries
<1>2. rows \in DeliveryDays
  BY DEF TypeInv, DeliveriesInv
<1>3. PICK d \in Dates, st \in DayStatus : q = <<d, st>>
  BY <1>2 DEF DeliveryDays
<1>4. q[1] = d /\ q[2] = st /\ st \in RowsAt(d)
  BY <1>1, <1>3 DEF RowsAt
<1>5. day.date = d /\ day.flags = DayActionFlags(s, d, st)
  BY <1>1, <1>4
<1>6. PICK fl : fl = DayActionFlags(s, d, st)
  OBVIOUS
<1>7. /\ fl.skip_available => /\ s.status \in {"active", "cancelled"} /\ st = "scheduled"
                              /\ ~IsAfterSkipCutoff(d) /\ GetFlexDaysRemaining(s) > 0
      /\ fl.undoable => st = "skipped" /\ ~IsAfterSkipCutoff(d)
  BY <1>6 DEF DayActionFlags
<1>8. ASSUME fl.skip_available, d <= s.endDate
      PROVE  MaySkip(s, d) /\ "skip" \in HomeActions(s)
  <2>1. s.endDate \in Nat /\ d \in Nat /\ Today \in Nat
    BY SubFields, DatesTyped, TodayTyped DEF TypedSub, TypeInv, DeliveriesInv
  <2>2. d > Today
    BY <1>7, <1>8, <2>1 DEF IsAfterSkipCutoff
  <2>3. s.endDate >= Today
    BY <1>8, <2>1, <2>2
  <2>4. CanUseSkipAndPause(s)
    BY <1>7, <1>8, <2>3 DEF CanUseSkipAndPause, IsSubscriptionInServicePeriod
  <2> QED
    BY <1>4, <1>7, <1>8, <2>4 DEF MaySkip, HomeActions
<1> QED
  BY <1>4, <1>5, <1>6, <1>7, <1>8 DEF MayUndo

(* The parts of Home say the same, and its count is the one of the plan's   *)
(* own page.                                                                *)
LEMMA HomeAgrees ==
  ASSUME NEW s, TypedSub(s), Paused(s), s.status # "expired"
  PROVE  /\ HomeBanner(s) # "blank"
         /\ HomeBanner(s) = "running" <=> "skip" \in HomeActions(s)
         /\ HomeBanner(s) = "resume" <=> "resume" \in HomeActions(s)
         /\ GetHome(s).days_remaining = SubscriptionScreen(s).remaining_count
         /\ IsPauseScheduled(s) => MayCancelPause(s)
<1>1. s.status \in {"active", "paused", "cancelled"}
  BY SubFields DEF TypedSub, SubscriptionStatus
<1>2. s.status = "paused" => HasPause(s)
  BY DEF Paused, HasPause
<1>3. CASE s.status = "active" \/ CanUseSkipAndPause(s)
  <2>1. HomeBanner(s) = "running" /\ HomeActions(s) = {"skip", "pause"}
    BY <1>3 DEF HomeBanner, HomeActions
  <2> QED
    BY <2>1 DEF GetHome, SubscriptionScreen, Refund, IsPauseScheduled, MayCancelPause
<1>4. CASE s.status # "active" /\ ~CanUseSkipAndPause(s) /\ s.status = "paused"
  <2>1. HomeBanner(s) = "resume" /\ HomeActions(s) = {"resume", "browse_menu"}
    BY <1>2, <1>4 DEF HomeBanner, HomeActions
  <2> QED
    BY <2>1 DEF GetHome, SubscriptionScreen, Refund, IsPauseScheduled, MayCancelPause
<1>5. CASE s.status # "active" /\ ~CanUseSkipAndPause(s) /\ s.status = "cancelled"
  <2>1. HomeBanner(s) = "renew" /\ HomeActions(s) = {}
    BY <1>5 DEF HomeBanner, HomeActions
  <2> QED
    BY <2>1 DEF GetHome, SubscriptionScreen, Refund, IsPauseScheduled, MayCancelPause
<1> QED
  BY <1>1, <1>3, <1>4, <1>5

(* A pause has frozen no more days than were booked for it.                 *)
LEMMA FrozenFew ==
  ASSUME TypeInv, NEW s, TypedSub(s), HasPause(s)
  PROVE  PauseDaysFrozen(s) \in Nat /\ PauseDaysFrozen(s) <= WindowDays(s)
<1>1. PICK f : f = s.pausedFrom
  OBVIOUS
<1>2. PICK u : u = s.pausedUntil
  OBVIOUS
<1>3. f \in Nat /\ u \in Nat /\ f # 0 /\ Today \in Nat
  BY <1>1, <1>2, SubFields, DatesTyped, TodayTyped
  DEF TypedSub, HasPause, TypeInv, DeliveriesInv
<1>4. WindowDays(s) \in Nat
  BY WindowDaysTyped
<1>5. CASE Today < f
  BY <1>1, <1>4, <1>5 DEF PauseDaysFrozen
<1>6. CASE ~(Today < f)
  <2>1. PICK m : m = Min({Today, u})
    OBVIOUS
  <2>2. PICK P : P = {Today, u}
    OBVIOUS
  <2>3. m \in Int /\ m <= u
    <3>1. P \in SUBSET Int /\ P # {} /\ u \in P
      BY <1>3, <2>2
    <3>2. P = ({} \cup {Today}) \cup {u}
      BY <2>2
    <3>3. IsFiniteSet(P)
      BY <3>2, FS_EmptySet, FS_AddElement
    <3>4. m = Min(P)
      BY <2>1, <2>2
    <3> QED
      BY <3>1, <3>3, <3>4, MinIsMember
  <2>4. PICK A : A = ListWorkingDaysInRange(f, m)
    OBVIOUS
  <2>5. PICK B : B = ListWorkingDaysInRange(f, u)
    OBVIOUS
  <2>6. A \subseteq B /\ IsFiniteSet(B)
    <3>1. A \subseteq B
      BY <1>3, <2>3, <2>4, <2>5, DatesTyped DEF ListWorkingDaysInRange
    <3> QED
      BY <2>5, <3>1, CountTyped
  <2>7. Cardinality(A) \in Nat /\ Cardinality(A) <= Cardinality(B)
    BY <2>6, FS_Subset, FS_CardinalityType
  <2>8. PauseDaysFrozen(s) = Cardinality(A)
    BY <1>1, <1>2, <1>6, <2>1, <2>4 DEF PauseDaysFrozen, CountWorkingDaysInRange
  <2>9. WindowDays(s) = Cardinality(B)
    BY <1>1, <1>2, <1>3, <2>5, WindowDaysTyped DEF CountWorkingDaysInRange
  <2> QED
    BY <2>7, <2>8, <2>9
<1> QED
  BY <1>5, <1>6

(* The first date of the pause picker begins a pause: it ends on the first  *)
(* working day from there, which costs one day of the pool.                 *)
LEMMA PauseOffered ==
  ASSUME TypeInv, NEW s, TypedSub(s), PauseDatePickerVisible(s),
         Reaches(s.endDate, GetFlexDaysRemaining(s))
  PROVE  \E d \in Dates : MayPause(s, PauseStartMin(s), d)
<1>1. PICK n : n = GetFlexDaysRemaining(s)
  OBVIOUS
<1>2. PICK e : e = s.endDate
  OBVIOUS
<1>3. PICK p : p = PauseEndMax(s)
  OBVIOUS
<1>4. n \in Nat /\ n > 0 /\ e \in Nat
  <2>1. s.flexUsed \in Nat /\ s.plan \in PlanSet /\ e \in Nat
    BY <1>2, SubFields, DatesTyped DEF TypedSub
  <2>2. FlexAllowed[s.plan] \in Nat
    BY <2>1, SubscriptionAssumption
  <2> QED
    BY <1>1, <2>1, <2>2 DEF GetFlexDaysRemaining, PauseDatePickerVisible
<1>5. p \in WorkingDays /\ p \in Nat
  <2>1. p = AddWorkingDaysForward(e, n) /\ Reaches(e, n)
    BY <1>1, <1>2, <1>3 DEF PauseEndMax
  <2>2. p \in GenerateWorkingDeliveryDates(e, n) /\ p \in Dates
    BY <1>4, <2>1, Forward
  <2> QED
    BY <1>4, <2>2, Generated, DatesTyped
<1>6. PICK a : a = Max({StartDate, Today})
  OBVIOUS
<1>7. a \in Int /\ a >= StartDate /\ StartDate \in Nat
  <2>1. StartDate \in Nat /\ Today \in Nat
    BY SubscriptionAssumption, DatesTyped, TodayTyped DEF TypeInv, DeliveriesInv
  <2> QED
    BY <1>6, <2>1, MaxOfTwo
<1>8. PICK S : S = { d \in a .. p : ~IsAfterSkipCutoff(d) }
  OBVIOUS
<1>9. PICK m : m = PauseStartMin(s)
  OBVIOUS
<1>10. m = (IF S = {} THEN 0 ELSE Min(S)) /\ m # 0
  BY <1>3, <1>6, <1>8, <1>9 DEF PauseStartMin, PauseDatePickerVisible
<1>11. S \in SUBSET Int /\ IsFiniteSet(S) /\ S # {}
  <2>1. IsFiniteSet(a .. p)
    BY <1>5, <1>7, FS_Interval
  <2>2. S \subseteq a .. p
    BY <1>8
  <2>3. IsFiniteSet(S)
    BY <2>1, <2>2, FS_Subset
  <2>4. S \in SUBSET Int
    BY <1>5, <1>7, <2>2
  <2> QED
    BY <1>10, <2>3, <2>4
<1>12. m \in S
  BY <1>10, <1>11, MinIsMember
<1>13. m \in Int /\ m >= a /\ m <= p /\ ~IsAfterSkipCutoff(m)
  BY <1>5, <1>7, <1>8, <1>12
<1>14. PICK W : W = ListWorkingDaysInRange(m, p)
  OBVIOUS
<1>15. W \in SUBSET Int /\ IsFiniteSet(W) /\ p \in W
  <2>1. W \subseteq WorkingDays /\ IsFiniteSet(W)
    BY <1>14, CountTyped
  <2>2. p \in W
    BY <1>5, <1>13, <1>14 DEF ListWorkingDaysInRange
  <2>3. WorkingDays \in SUBSET Int
    BY DatesTyped
  <2> QED
    BY <2>1, <2>2, <2>3
<1>16. PICK u : u = Min(W)
  OBVIOUS
<1>17. u \in W /\ \A y \in W : u <= y
  BY <1>15, <1>16, MinIsMember
<1>18. u \in WorkingDays /\ u \in Int /\ m <= u /\ u <= p
  BY <1>13, <1>14, <1>15, <1>17 DEF ListWorkingDaysInRange
<1>19. ListWorkingDaysInRange(m, u) = {u}
  <2>1. ASSUME NEW y \in ListWorkingDaysInRange(m, u) PROVE y = u
    <3>1. y \in WorkingDays /\ y \in Int /\ m <= y /\ y <= u
      BY <1>13, <1>18 DEF ListWorkingDaysInRange
    <3>2. y \in W
      BY <1>5, <1>13, <1>14, <1>18, <3>1 DEF ListWorkingDaysInRange
    <3> QED
      BY <1>17, <1>18, <3>1, <3>2
  <2>2. u \in ListWorkingDaysInRange(m, u)
    BY <1>13, <1>18 DEF ListWorkingDaysInRange
  <2> QED
    BY <2>1, <2>2
<1>20. CountWorkingDaysInRange(m, u) = 1
  BY <1>19, FS_Singleton DEF CountWorkingDaysInRange
<1>21. u \in Dates
  BY <1>18, DatesTyped
<1>22. CanUseSkipAndPause(s) /\ ~HasPause(s)
  BY DEF PauseDatePickerVisible
<1>23. m >= StartDate
  BY <1>7, <1>13
<1>24. CountWorkingDaysInRange(m, u) \in 1 .. n
  BY <1>4, <1>20
<1>25. MayPause(s, m, u)
  BY <1>1, <1>3, <1>13, <1>18, <1>22, <1>23, <1>24 DEF MayPause
<1> QED
  BY <1>9, <1>21, <1>25

(* The suggested date of a resume is accepted.                              *)
LEMMA ResumeOffered ==
  ASSUME TypeInv, NEW s, TypedSub(s), ResumeDatePickerVisible(s), SuggestedResumeDate(s) # 0
  PROVE  MayResume(s, SuggestedResumeDate(s))
<1>1. PICK f : f = s.pausedFrom
  OBVIOUS
<1>2. PICK u : u = s.pausedUntil
  OBVIOUS
<1>3. f \in Nat /\ u \in Nat /\ Today \in Nat
  <2>1. f \in Dates \cup {0} /\ u \in Dates \cup {0}
    BY <1>1, <1>2, SubFields DEF TypedSub
  <2>2. Today \in Nat
    BY TodayTyped DEF TypeInv, DeliveriesInv
  <2> QED
    BY <2>1, <2>2, DatesTyped
<1>4. PICK a : a = Max({Today + 1, f + 1})
  OBVIOUS
<1>5. a \in Int /\ a >= f + 1
  <2>1. Today + 1 \in Int /\ f + 1 \in Int
    BY <1>3
  <2> QED
    BY <1>4, <2>1, MaxOfTwo
<1>6. PICK D : D = ListWorkingDaysInRange(a, u)
  OBVIOUS
<1>7. PICK r : r = SuggestedResumeDate(s)
  OBVIOUS
<1>8. r = Min(D) /\ D # {}
  BY <1>1, <1>2, <1>4, <1>6, <1>7 DEF SuggestedResumeDate
<1>9. D \in SUBSET Int /\ IsFiniteSet(D)
  <2>1. D \subseteq WorkingDays /\ IsFiniteSet(D) /\ WorkingDays \in SUBSET Int
    BY <1>6, CountTyped, DatesTyped
  <2> QED
    BY <2>1
<1>10. r \in D
  BY <1>8, <1>9, MinIsMember
<1>11. r \in WorkingDays /\ r \in f + 1 .. u
  BY <1>3, <1>5, <1>6, <1>9, <1>10 DEF ListWorkingDaysInRange
<1> QED
  BY <1>1, <1>2, <1>7, <1>11 DEF MayResume, ResumeDatePickerVisible, IsWorkingDeliveryDate

(* A plan at rest that has not been upgraded has no row behind its end.     *)
LEMMA RowsEnd ==
  ASSUME OneHandler, TypeInv, MealsInv, AllIdle, sub.status # "expired", ~Upgraded,
         NEW d \in Dates, RowsAt(d) # {}
  PROVE  d <= sub.endDate
<1>1. d \in DaysIn(rows)
  BY DEF DaysIn, RowsAt
<1> QED
  BY <1>1, MealsQuiet DEF Ends, Quiet

(* What the screens offer, the commands accept, and Home says the same in   *)
(* each of its parts.                                                       *)
THEOREM OffersAreAccepted == ASSUME OneHandler PROVE Spec => []OfferedIsAccepted
<1> DEFINE Inv == TypeInv /\ FlexInv /\ MealsInv /\ PauseInv
<1>1. Inv => OfferedIsAccepted
  <2> SUFFICES ASSUME TypeInv, FlexInv, MealsInv, PauseInv, AllIdle, sub.status # "expired"
               PROVE  OfferedIsAccepted
    BY DEF OfferedIsAccepted
  <2>1. PICK s : s = EnsurePauseStatus(sub)
    OBVIOUS
  <2>2. TypedSub(s) /\ Paused(s) /\ s.status # "expired" /\ s.endDate = sub.endDate
        /\ s.flexUsed = sub.flexUsed /\ WindowDays(s) = WindowDays(sub)
    <3>1. PICK q : q = sub
      OBVIOUS
    <3>2. TypedSub(q) /\ Paused(q)
      BY <3>1 DEF TypeInv, PlansTyped, PauseInv
    <3> QED
      BY <2>1, <3>1, <3>2, Ensured, PausedRead, WindowDaysSame
  <2>3. s.endDate \in Nat /\ Today \in Nat
    BY <2>2, SubFields, DatesTyped, TodayTyped DEF TypedSub, TypeInv, DeliveriesInv
  <2>4. ASSUME NEW day \in SubscriptionDeliveries(s)
        PROVE  /\ day.flags.skip_available /\ (Upgraded => day.date <= s.endDate) =>
                      MaySkip(s, day.date) /\ "skip" \in HomeActions(s)
               /\ day.flags.undoable => MayUndo(day.date)
    BY <2>2, SkipOffered, RowsEnd
  <2>5. s.flexUsed \in Nat /\ WindowDays(s) \in Nat /\ s.flexUsed >= WindowDays(s)
    <3>1. PICK h \in Handlers : TRUE
      BY DEF OneHandler
    <3>2. PICK o : o = my[h]
      OBVIOUS
    <3>3. o.cmd = "none"
      BY <3>2 DEF AllIdle, Idle
    <3>4. /\ sub.flexUsed >= Skips + WindowDays(sub) /\ Skips \in Nat
          /\ sub.flexUsed \in Nat /\ WindowDays(sub) \in Nat
      BY <3>2, <3>3, FlexRead DEF FlexHolds
    <3> QED
      BY <2>2, <3>4
  <2>6. HomeBanner(s) = "resume" => PauseDaysFrozen(s) <= s.flexUsed
    <3>1. HomeBanner(s) = "resume" => HasPause(s)
      BY DEF HomeBanner
    <3> QED
      BY <2>2, <2>5, <3>1, FrozenFew
  <2>7. GetHome(s).days_frozen <= s.flexUsed
    BY <2>5, <2>6 DEF GetHome
  <2>8. ASSUME GetHome(s).plans = "renew", ~Upgraded,
               NEW d \in Dates, "scheduled" \in RowsAt(d)
        PROVE  d < Today
    <3>1. HomePlansLabel(s) = "renew"
      BY <2>8 DEF GetHome
    <3>2. ~(s.endDate >= Today)
      BY <2>2, <3>1 DEF HomePlansLabel, IsSubscriptionInServicePeriod
    <3>3. d <= s.endDate
      BY <2>2, <2>8, RowsEnd
    <3> QED
      BY <2>3, <3>2, <3>3, DatesTyped
  <2>9. /\ GetHome(s).banner = HomeBanner(s)
        /\ GetHome(s).quick_actions = HomeActions(s)
        /\ GetHome(s).pause_scheduled = IsPauseScheduled(s)
        /\ SubscriptionScreen(s).cancel_pause_available = IsPauseScheduled(s)
        /\ SubscriptionScreen(s).pause_start_min # 0 =>
               PauseDatePickerVisible(s) /\ SubscriptionScreen(s).pause_start_min = PauseStartMin(s)
        /\ SubscriptionScreen(s).resume_suggested # 0 =>
               /\ ResumeDatePickerVisible(s)
               /\ SubscriptionScreen(s).resume_suggested = SuggestedResumeDate(s)
    BY DEF GetHome, SubscriptionScreen
  <2>10. PICK home : home = GetHome(s)
    OBVIOUS
  <2>11. PICK screen : screen = SubscriptionScreen(s)
    OBVIOUS
  <2>12. /\ home.banner # "blank"
         /\ home.banner = "running" <=> "skip" \in home.quick_actions
         /\ home.banner = "resume" <=> "resume" \in home.quick_actions
         /\ home.days_remaining = screen.remaining_count
         /\ home.pause_scheduled => MayCancelPause(s)
         /\ screen.cancel_pause_available => MayCancelPause(s)
    BY <2>2, <2>9, <2>10, <2>11, HomeAgrees
  <2>13. screen.pause_start_min # 0 /\ Reaches(s.endDate, GetFlexDaysRemaining(s)) =>
             \E d \in Dates : MayPause(s, screen.pause_start_min, d)
    BY <2>2, <2>9, <2>11, PauseOffered
  <2>14. screen.resume_suggested # 0 => MayResume(s, screen.resume_suggested)
    BY <2>2, <2>9, <2>11, ResumeOffered
  <2>15. /\ home.days_frozen <= s.flexUsed
         /\ home.plans = "renew" /\ ~Upgraded =>
                \A d \in Dates : "scheduled" \in RowsAt(d) => d < Today
    BY <2>7, <2>8, <2>10
  <2> QED
    BY <2>1, <2>4, <2>10, <2>11, <2>12, <2>13, <2>14, <2>15 DEF OfferedIsAccepted
<1>2. Inv /\ [Next]_vars => Inv'
  BY TypesStep, FlexStep, MealsStep, PauseStep
<1>3. Init => Inv
  BY TypesStart, FlexStart, MealsStart, PauseStart
<1> QED
  BY <1>1, <1>2, <1>3, PTL DEF Spec

================================================================================
