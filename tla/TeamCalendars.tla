---------------------------- MODULE TeamCalendars ----------------------------
(***************************************************************************)
(* The working calendar of projects and people: team_calendar_use_cases.py, *)
(* layer_calendar_days and what create, move and delete of a project do to *)
(* it.  Working weekdays stand on the root; days off and extra workdays    *)
(* stand on any project and are inherited, the nearest project deciding;   *)
(* leave belongs to a person.                                              *)
(***************************************************************************)
EXTENDS Projects

CONSTANTS
    Day,
    Holiday,       \* the national holidays among the days
    Workweek,      \* sets of weekdays a team may choose
    NoWorkweek     \* no row: Monday to Friday

ASSUME CalendarAssumption == Holiday \subseteq Day /\ NoWorkweek \notin Workweek

VARIABLES
    workweek,   \* team_workweeks
    off,        \* team_days_off of each project
    extra,      \* team_extra_workdays of each project
    leave       \* member_days_off of each person

calendarVars == <<workweek, off, extra, leave>>
teamVars == <<projectVars, calendarVars>>

CalendarTypeOK ==
    /\ workweek \in [Project -> Workweek \cup {NoWorkweek}]
    /\ off \in [Project -> SUBSET Day]
    /\ extra \in [Project -> SUBSET Day]
    /\ leave \in [User -> SUBSET Day]

CalendarInit ==
    /\ Init
    /\ workweek = [p \in Project |-> NoWorkweek]
    /\ off = [p \in Project |-> {}]
    /\ extra = [p \in Project |-> {}]
    /\ leave = [u \in User |-> {}]

------------------------------------------------------------------------------
\* layer_calendar_days for one day, seen from p: the nearest project of the
\* chain that says something decides; a day off is looked at first.
DayMark(known, p, d) ==
    LET chain(x) == AncestorsOrSelf(parent, known, x)
        says     == {a \in chain(p) : d \in off[a] \cup extra[a]}
    IN  IF says = {} THEN "plain"
        ELSE IF d \in off[CHOOSE a \in says : says \subseteq chain(a)] THEN "off" ELSE "extra"

\* The weekdays view shows: those of the root.
WeekOf(known, p) == workweek[RootOf(parent, known, p)]

\* _managed_root.
MayManageCalendar(u, p) == p \in Visible(u) /\ IsManager(u, TopOf(u, p))

SetWorkdays(u, p, w) ==
    /\ MayManageCalendar(u, p)
    /\ workweek' = [workweek EXCEPT ![TopOf(u, p)] = w]
    /\ UNCHANGED <<projectVars, off, extra, leave>>

\* Putting a day off takes the extra workday away, and the other way round.
AddDayOff(u, p, d) ==
    /\ MayManageCalendar(u, p)
    /\ off' = [off EXCEPT ![p] = @ \cup {d}]
    /\ extra' = [extra EXCEPT ![p] = @ \ {d}]
    /\ UNCHANGED <<projectVars, workweek, leave>>

RemoveDayOff(u, p, d) ==
    /\ MayManageCalendar(u, p)
    /\ off' = [off EXCEPT ![p] = @ \ {d}]
    /\ UNCHANGED <<projectVars, workweek, extra, leave>>

AddExtraWorkday(u, p, d) ==
    /\ MayManageCalendar(u, p)
    /\ off' = [off EXCEPT ![p] = @ \ {d}]
    /\ extra' = [extra EXCEPT ![p] = @ \cup {d}]
    /\ UNCHANGED <<projectVars, workweek, leave>>

RemoveExtraWorkday(u, p, d) ==
    /\ MayManageCalendar(u, p)
    /\ extra' = [extra EXCEPT ![p] = @ \ {d}]
    /\ UNCHANGED <<projectVars, workweek, off, leave>>

\* import_japanese_holidays: the holidays that are no day off of the project or
\* an ancestor.  Extra workdays are not looked at.
ImportHolidays(u, p) ==
    LET lineage == AncestorsOrSelf(parent, Visible(u), p) IN
    /\ MayManageCalendar(u, p)
    /\ off' = [off EXCEPT ![p] = @ \cup (Holiday \ UNION {off[a] : a \in lineage})]
    /\ UNCHANGED <<projectVars, workweek, extra, leave>>

\* _leave_editable: a member of the tree, by themselves or by a manager.
MayEditLeave(u, p, v) ==
    /\ p \in Visible(u)
    /\ role[TopOf(u, p)][v] # "none"
    /\ v # u => IsManager(u, TopOf(u, p))

AddLeave(u, p, v, d) ==
    /\ MayEditLeave(u, p, v)
    /\ leave' = [leave EXCEPT ![v] = @ \cup {d}]
    /\ UNCHANGED <<projectVars, workweek, off, extra>>

RemoveLeave(u, p, v, d) ==
    /\ MayEditLeave(u, p, v)
    /\ leave' = [leave EXCEPT ![v] = @ \ {d}]
    /\ UNCHANGED <<projectVars, workweek, off, extra>>

------------------------------------------------------------------------------
(* move_project and delete_project, with what they do to the calendar.      *)

\* Mutant: the weekdays stay when a root goes under another project.
WeekAfterMoveKept(u, p, q) ==
    IF parent[p] # NoProject /\ q = NoProject THEN [workweek EXCEPT ![p] = workweek[TopOf(u, p)]]
    ELSE workweek

\* forget_workdays, or the old root's weekdays copied by _copy_team_calendar.
WeekAfterMove(u, p, q) ==
    IF parent[p] = NoProject /\ q # NoProject THEN [workweek EXCEPT ![p] = NoWorkweek]
    ELSE IF parent[p] # NoProject /\ q = NoProject /\ workweek[TopOf(u, p)] # NoWorkweek
    THEN [workweek EXCEPT ![p] = workweek[TopOf(u, p)]]
    ELSE workweek

\* Mutant: inherited days are copied over what the project says itself.
InheritedDaysOverOwn(u, p, mark) == {d \in Day : DayMark(Visible(u), parent[p], d) = mark}

\* The days of this mark p inherits and has no word of its own about.
InheritedDays(u, p, mark) ==
    {d \in Day \ (off[p] \cup extra[p]) : DayMark(Visible(u), parent[p], d) = mark}

MoveWithCalendar(u, p, q) ==
    /\ MoveProject(u, p, q)
    /\ workweek' = WeekAfterMove(u, p, q)
    /\ IF parent[p] # NoProject /\ q = NoProject
       THEN /\ off' = [off EXCEPT ![p] = @ \cup InheritedDays(u, p, "off")]
            /\ extra' = [extra EXCEPT ![p] = @ \cup InheritedDays(u, p, "extra")]
       ELSE UNCHANGED <<off, extra>>
    /\ UNCHANGED leave

\* Deleting a project deletes its calendar rows.
RowsOfDeleted(rows, p, none) == [rows EXCEPT ![p] = none]

DeleteWithCalendar(u, p) ==
    /\ DeleteProject(u, p)
    /\ workweek' = RowsOfDeleted(workweek, p, NoWorkweek)
    /\ off' = RowsOfDeleted(off, p, {})
    /\ extra' = RowsOfDeleted(extra, p, {})
    /\ UNCHANGED leave

CalendarStep(u) ==
    \/ \E p \in live, w \in Workweek : SetWorkdays(u, p, w)
    \/ \E p \in live, d \in Day : AddDayOff(u, p, d)
    \/ \E p \in live, d \in Day : RemoveDayOff(u, p, d)
    \/ \E p \in live, d \in Day : AddExtraWorkday(u, p, d)
    \/ \E p \in live, d \in Day : RemoveExtraWorkday(u, p, d)
    \/ \E p \in live : ImportHolidays(u, p)
    \/ \E p \in live, v \in User, d \in Day : AddLeave(u, p, v, d)
    \/ \E p \in live, v \in User, d \in Day : RemoveLeave(u, p, v, d)
    \/ \E p \in live, q \in live \cup {NoProject} : MoveWithCalendar(u, p, q)
    \/ \E p \in live : DeleteWithCalendar(u, p)

\* Requests that leave the calendar alone.
OtherStep(u) ==
    /\ \/ \E q \in live \cup {NoProject}, p \in Project : CreateProject(u, q, p)
       \/ \E p \in live, v \in User, r \in Role : AddMember(u, p, v, r)
       \/ \E p \in live, v \in User : RemoveMember(u, p, v)
       \/ \E p \in live, v \in User, r \in Role : ChangeRole(u, p, v, r)
       \/ \E p \in live, v \in User, c \in Capacity : ChangeCapacity(u, p, v, c)
       \/ \E allowed \in BOOLEAN : AllowCreator(u, allowed)
    /\ UNCHANGED calendarVars

CalendarNext == \E u \in User : CalendarStep(u) \/ OtherStep(u)

CalendarSpec == CalendarInit /\ [][CalendarNext]_teamVars

------------------------------------------------------------------------------
\* Calendar rows keep their types and belong to projects that exist, and
\* weekdays to roots: through every move in and out and every deletion.
CalendarRowsInPlace ==
    /\ CalendarTypeOK
    /\ \A p \in Project :
          /\ off[p] \cup extra[p] # {} => p \in live
          /\ workweek[p] # NoWorkweek => p \in live /\ parent[p] = NoProject

\* Taking a project out of its tree as a root leaves the calendar by which it
\* and everything under it is planned exactly as it was (_copy_team_calendar:
\* "does not change the forecast").
BecomingRootKeepsCalendar ==
    [][\A p \in live \cap live' :
          (parent[p] # NoProject /\ parent'[p] = NoProject) =>
              \A x \in SubtreeIds(parent, live, p) :
                  /\ WeekOf(live, x)' = WeekOf(live, x)
                  /\ \A d \in Day : DayMark(live, x, d)' = DayMark(live, x, d)]_teamVars
==============================================================================
