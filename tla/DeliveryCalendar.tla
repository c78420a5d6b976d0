-------------------------- MODULE DeliveryCalendar ---------------------------
(***************************************************************************)
(* The calendar every command about a delivery day consults: dates are     *)
(* numbered, the clock runs through the Hours of a date, and the cutoff of *)
(* a date is 18:00 in Riyadh the evening before it.                        *)
(***************************************************************************)
EXTENDS Naturals, Sequences, FiniteSets, FiniteSetsExt

CONSTANTS
    LastDate,        \* the calendar is 1..LastDate
    WorkingDays,     \* Sundays to Thursdays that are not public holidays
    Hours            \* the parts of a day that the clock distinguishes

Dates == 1 .. LastDate

(* "night" is 00:00-03:00 in Riyadh, when the UTC date is still yesterday's; *)
(* "evening" is 18:00-24:00.                                                *)
ASSUME CalendarAssumption ==
    /\ LastDate \in Nat \ {0}
    /\ WorkingDays \subseteq Dates
    /\ Hours \in { <<"day", "evening">>, <<"night", "day", "evening">> }

VARIABLE now         \* hours passed since the start of date 0

(* The clock stops after the date that follows the calendar's last one.     *)
ClockHours == 0 .. (LastDate + 2) * Len(Hours) - 1

Today == now \div Len(Hours)
Hour  == Hours[(now % Len(Hours)) + 1]

(* new Date() read as a UTC date: one behind Riyadh until 03:00.            *)
UtcToday == IF Hour = "night" THEN Today - 1 ELSE Today

IsAfterSkipCutoff(d) == d <= Today \/ (d = Today + 1 /\ Hour = "evening")

ListWorkingDaysInRange(from, to) == WorkingDays \cap (from .. to)

CountWorkingDaysInRange(from, to) == Cardinality(ListWorkingDaysInRange(from, to))

IsWorkingDeliveryDate(d) == d \in WorkingDays

(* The first n working days on or after date from; the calendar must reach  *)
(* that far, which Reaches says.                                            *)
Reaches(from, n) == CountWorkingDaysInRange(from, LastDate) >= n

GenerateWorkingDeliveryDates(from, n) ==
    { d \in ListWorkingDaysInRange(from, LastDate) :
          CountWorkingDaysInRange(from, d) <= n }

AddWorkingDaysForward(from, n) ==
    IF n = 0 THEN from ELSE Max(GenerateWorkingDeliveryDates(from, n))
==============================================================================
