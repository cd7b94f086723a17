------------------------------- MODULE Actuals -------------------------------
(***************************************************************************)
(* What the reports make of the work logs: the ledger of seconds per task  *)
(* and day (daily_ledger.py), the periods it is cut into                   *)
(* (report_period.py, half_month_period.py), the groups it is added up by  *)
(* (actuals_use_cases.py, breakdown) and the tasks whose remaining hours   *)
(* are to be looked at again (remaining_review.py).                        *)
(*                                                                         *)
(* Days are numbers.  Hours are counted in hundredths, as the column       *)
(* work_logs.hours keeps them.                                             *)
(***************************************************************************)
EXTENDS ProjectTree, Integers, Sequences, FiniteSetsExt

CONSTANTS
    NoProject, NoHours, NoSeconds,   \* NULL
    Months,             \* the months of the calendar: records [first, last]
    FirstHalfLastDay,   \* FIRST_HALF_LAST_DAY
    WeekLength          \* seven

\* Months do not overlap, and have days after their first half.
ASSUME CalendarAssumption ==
    /\ WeekLength \in Nat \ {0} /\ FirstHalfLastDay \in Nat \ {0} /\ NoSeconds \notin Int
    /\ \A m \in Months : m.first \in Nat \ {0} /\ m.last \in Nat /\ m.first + FirstHalfLastDay <= m.last
    /\ \A m, n \in Months : m = n \/ m.last < n.first \/ n.last < m.first
------------------------------------------------------------------------------
(***************************************************************************)
(* Lengths.                                                                *)
(***************************************************************************)
\* hours_of: hundredths of an hour, halves rounded up.
HoursOf(seconds) == (seconds + 18) \div 36

\* WorkLog.seconds: the exact length where there is one.
Seconds(r) == IF r.seconds # NoSeconds THEN r.seconds ELSE r.hours * 36

(***************************************************************************)
(* Periods.                                                                *)
(***************************************************************************)
MonthOf(d) == CHOOSE m \in Months : d \in m.first..m.last

\* _bounds_containing.
HalfMonthOf(d) ==
    LET m == MonthOf(d)
        middle == m.first + FirstHalfLastDay - 1
    IN  IF d <= middle THEN [first |-> m.first, last |-> middle] ELSE [first |-> middle + 1, last |-> m.last]

ReportPeriodContaining(unit, d) ==
    CASE unit = "closing" -> HalfMonthOf(d)
      [] unit = "week"    -> [first |-> d - (d % WeekLength), last |-> d - (d % WeekLength) + WeekLength - 1]
      [] unit = "month"   -> MonthOf(d)

\* The periods that touch first..last, each found from the day after the one before.
ReportPeriodsBetween(unit, first, last) ==
    LET from[d \in Nat \ {0}] == IF d > last THEN {}
                                 ELSE LET p == ReportPeriodContaining(unit, d) IN {p} \cup from[p.last + 1]
    IN  from[first]

(***************************************************************************)
(* The ledger of the rows of the tasks in scope.                           *)
(***************************************************************************)
Ledger(rows, scope) ==
    LET counted == {r \in rows : Seconds(r) > 0 /\ r.task \in scope}
    IN  [key \in {<<r.task, r.day>> : r \in counted} |->
            SumFunctionOnSet([r \in counted |-> Seconds(r)], {r \in counted : <<r.task, r.day>> = key})]

InPeriod(ledger, p) == {key \in DOMAIN ledger : key[2] \in p.first..p.last}

Total(ledger, p) == SumFunctionOnSet(ledger, InPeriod(ledger, p))

\* grouped: the seconds of each group that has any.
Grouped(ledger, p, groupOf) ==
    [g \in {groupOf[key[1]] : key \in InPeriod(ledger, p)} |->
        SumFunctionOnSet(ledger, {key \in InPeriod(ledger, p) : groupOf[key[1]] = g})]

\* Mutant: what stands directly in the project on top is in no branch.
GroupBelow(par, known, q, top) ==
    LET branch == {c \in AncestorsOrSelf(par, known, q) : par[c] = top} IN
    IF branch = {} THEN NoProject ELSE CHOOSE c \in branch : TRUE

\* group_under: the branch right under top that holds q, or top itself.
GroupUnder(par, known, q, top) ==
    LET branch == {c \in AncestorsOrSelf(par, known, q) : par[c] = top} IN
    IF q \notin known THEN NoProject
    ELSE IF top = NoProject THEN RootOf(par, known, q)
    ELSE IF q = top THEN top
    ELSE IF branch = {} THEN NoProject ELSE CHOOSE c \in branch : TRUE

(***************************************************************************)
(* Tasks.                                                                  *)
(***************************************************************************)
\* Task.remaining_hours_from, for a task that is not done.
OpenRemaining(task, actual) ==
    IF task.remaining # NoHours THEN task.remaining
    ELSE IF task.estimate = NoHours THEN NoHours ELSE Max({task.estimate - actual, 0})

\* remaining_review_reasons; changed says whether the latest closing came after
\* the task's last change.
ReviewReasons(task, actual, hasSubtasks, closedHours, changed) ==
    IF task.status \in {"DONE", "CANCELLED"} \/ hasSubtasks THEN {}
    ELSE IF task.remaining = NoHours THEN
        IF task.estimate = NoHours THEN (IF actual > 0 THEN {"unknown_remaining"} ELSE {})
        ELSE IF actual > task.estimate THEN {"over_estimate"}
        ELSE IF actual > 0 /\ OpenRemaining(task, actual) = 0 THEN {"no_remaining"} ELSE {}
    ELSE IF task.remaining = 0 THEN {"no_remaining"}
    ELSE IF closedHours > 0 /\ changed THEN {"stale_remaining"} ELSE {}
==============================================================================
