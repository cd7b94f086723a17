-------------------------- MODULE CompletionForecast --------------------------
(***************************************************************************)
(* domain/services/completion_forecast.py: the remaining hours of every    *)
(* task are laid into its assignee's free hours, day by day from today.    *)
(* completion_forecast_use_cases.py gathers what goes in.                  *)
(*                                                                         *)
(* Day 0 is today.  A seat is a person in one root project, or with the    *)
(* tasks of no project.  Hours are counted in units small enough for every *)
(* share to be whole.  The code serves the seats of a day in the order in  *)
(* which the tasks were loaded; here any order is possible.                *)
(***************************************************************************)
EXTENDS ProjectTree, Integers, Sequences, SequencesExt, FiniteSetsExt

CONSTANTS
    Task, User,
    NoProject, NoUser, NoDay, NoHours,   \* NULL
    Scenario,      \* what may be forecast: see ForecastInit
    Horizon,       \* HORIZON_DAYS
    DateMax,       \* date.max
    DefaultHours   \* DEFAULT_DAILY_HOURS

ASSUME HorizonAssumption ==
    /\ Horizon \in Nat \ {0} /\ DateMax \in Int /\ DefaultHours \in Nat /\ NoDay \notin Int
    /\ Task \in SUBSET Nat /\ IsFiniteSet(Task)

\* Hours are not negative, shares of engagement and leave are percentages, no
\* date is later than date.max.
ASSUME ScenarioAssumption ==
    \A s \in Scenario :
        /\ \A t \in Task : LET task == s.tasks[t] IN
              /\ task.manual \in Nat \cup {NoHours} /\ task.estimate \in Nat \cup {NoHours} /\ task.actual \in Nat
              /\ task.percent \in Nat /\ task.priority \in Int
              /\ task.start \in Int \cup {NoDay} /\ task.due \in Int \cup {NoDay} /\ task.assignee \in User \cup {NoUser}
              /\ \A d \in {task.start, task.due} \ {NoDay} : d <= DateMax
        /\ IsFiniteSet(s.dependencies)
        /\ \A c \in s.dependencies : c.predecessor \in Task /\ c.successor \in Task /\ c.lag \in Int
        /\ \A p \in DOMAIN s.members : \A u \in DOMAIN s.members[p] :
              s.members[p][u].hours \in Nat /\ s.members[p][u].engagement \in 0..100
        /\ \A u \in User : \A d \in DOMAIN s.dayHours[u] : s.dayHours[u][d] \in Nat
        /\ \A u \in User : \A d \in DOMAIN s.leave[u] : s.leave[u][d] \in 0..100

VARIABLES
    inst,      \* the scenario
    board,     \* the leaves under each task, and each leaf's dependencies and seat
    phase,
    leaves,    \* tasks to be laid out
    gap,       \* ForecastGap of a task, "none" where it has dates
    rem,       \* hours still to be laid out
    start, finish,
    day,       \* the day being laid out
    left,      \* each seat's hours left of that day
    given,     \* tasks served that day
    queue,     \* what _hand_out, or a pass of _apply_finish_floors, still has to do
    raised,    \* whether the pass has raised an end
    rounds     \* passes begun

forecastVars == <<inst, board, phase, leaves, gap, rem, start, finish, day, left, given, queue, raised, rounds>>

LastDay == Horizon - 1
Gap == {"none", "finished", "no_assignee", "no_remaining", "no_capacity", "waiting",
        "child_unforecast", "beyond_horizon"}

------------------------------------------------------------------------------
(***************************************************************************)
(* The board (task_progress_board.py): tasks, children, remaining hours.   *)
(***************************************************************************)
T(t) == inst.tasks[t]
Parent == [t \in Task |-> T(t).parent]

HasSubtasks(t) == \E c \in Task \ {t} : Parent[c] = t
Descendants(t) == SubtreeIds(Parent, Task, t) \ {t}
LeavesUnder(t) == IF HasSubtasks(t) THEN {c \in Descendants(t) : ~HasSubtasks(c)} ELSE {t}
LeafIds(t) == board.leafIds[t]

\* Task.remaining_hours_from.
RemainingFrom(t) ==
    CASE T(t).status = "DONE" -> 0
      [] T(t).status # "DONE" /\ T(t).manual # NoHours -> T(t).manual
      [] T(t).status # "DONE" /\ T(t).manual = NoHours /\ T(t).estimate = NoHours -> NoHours
      [] OTHER -> Max({T(t).estimate - T(t).actual, 0})

(***************************************************************************)
(* Calendars and seats.                                                    *)
(***************************************************************************)
\* TeamCalendar.is_working_day.
IsWorkingDay(p, d) ==
    LET calendar == inst.calendar[p]
    IN  d \in calendar.extra \/ (d \in calendar.workdays /\ d \notin calendar.off)

SeatKey(t) == <<T(t).assignee, IF T(t).project = NoProject THEN NoProject
                               ELSE RootOf(inst.projectParent, DOMAIN inst.projectParent, T(t).project)>>
SeatOf(t) == board.seat[t]

\* _seats: the members of a root project, and whoever has tasks of no project
\* (eight hours, full time).  One who left the project has no seat.
Seats ==
    {key \in User \X DOMAIN inst.members : key[1] \in DOMAIN inst.members[key[2]]} \cup
    {<<T(t).assignee, NoProject>> : t \in {x \in Task : T(x).project = NoProject /\ T(x).assignee # NoUser}}

Capacity(key) ==
    IF key[2] = NoProject THEN [hours |-> DefaultHours, engagement |-> 100] ELSE inst.members[key[2]][key[1]]

HoursPerDay(key) == (Capacity(key).hours * Capacity(key).engagement) \div 100

HasCapacity(key) ==
    /\ Capacity(key).engagement > 0
    /\ \/ HoursPerDay(key) > 0 /\ inst.calendar[key[2]].workdays # {}
       \/ \E d \in DOMAIN inst.dayHours[key[1]] : inst.dayHours[key[1]][d] > 0

\* person_hours: the hours decided for that day, or the usual less leave.
PersonHours(key, d) ==
    IF d \in DOMAIN inst.dayHours[key[1]]
    THEN (inst.dayHours[key[1]][d] * Capacity(key).engagement) \div 100
    ELSE LET offPercent == IF d \in DOMAIN inst.leave[key[1]] THEN inst.leave[key[1]][d] ELSE 0
         IN  (HoursPerDay(key) * (100 - offPercent)) \div 100

WorksOn(key, d, p) ==
    (d \in DOMAIN inst.dayHours[key[1]] /\ inst.dayHours[key[1]][d] > 0) \/ IsWorkingDay(p, d)

------------------------------------------------------------------------------
(***************************************************************************)
(* _classify, _constraints and _wait_for_unforecast.                       *)
(***************************************************************************)
Classify(t) ==
    CASE T(t).status \in {"DONE", "CANCELLED"} -> "finished"
      [] T(t).status \notin {"DONE", "CANCELLED"} /\ RemainingFrom(t) = NoHours -> "no_remaining"
      [] OTHER ->
           IF RemainingFrom(t) = 0 THEN "finished"
           ELSE IF T(t).assignee = NoUser THEN "no_assignee"
           ELSE IF SeatOf(t) \notin Seats \/ ~HasCapacity(SeatOf(t)) THEN "no_capacity"
           ELSE "none"

StartedBeforeToday(t) == T(t).actual > 0 \/ T(t).status = "DOING"

\* _constraints: a dependency of a task with children holds for each leaf.
ConstraintsOf(t) == {c \in inst.dependencies : t \in LeavesUnder(c.successor)}
Constraints(t) == board.constraints[t]

WorkSeats == {board.seat[t] : t \in leaves}

IsUnforecast(t) == \E l \in LeafIds(t) : l \notin leaves /\ gap[l] # "finished"

\* A scenario is a record: tasks, dependencies, and what the seats are made of.
ForecastInit ==
    /\ inst \in Scenario
    /\ board = [leafIds |-> [t \in Task |-> LeavesUnder(t)],
                constraints |-> [t \in Task |-> ConstraintsOf(t)],
                seat |-> [t \in Task |-> SeatKey(t)]]
    /\ phase = "classify"
    /\ leaves = {}
    /\ gap = [t \in Task |-> "none"]
    /\ rem = [t \in Task |-> 0]
    /\ start = [t \in Task |-> NoDay] /\ finish = [t \in Task |-> NoDay]
    /\ day = 0 /\ left = [key \in {} |-> 0] /\ given = {}
    /\ queue = <<>> /\ raised = FALSE /\ rounds = 0

ClassifyAll ==
    /\ phase = "classify"
    /\ LET bottom == {t \in Task : ~HasSubtasks(t)}
       IN  /\ leaves' = {t \in bottom : Classify(t) = "none"}
           /\ gap' = [t \in Task |-> IF t \in bottom THEN Classify(t) ELSE "none"]
    /\ rem' = [t \in Task |-> IF t \in leaves' THEN RemainingFrom(t) ELSE 0]
    /\ phase' = "wait"
    /\ UNCHANGED <<inst, board, start, finish, day, left, given, queue, raised, rounds>>

\* Mutant: only the dependencies of the task itself are followed, one step.
WaitsOnClassified(t) == \E c \in Constraints(t) :
    \E l \in LeafIds(c.predecessor) : gap[l] \in {"no_assignee", "no_remaining"}

WaitsOnUnforecast(t) == \E c \in Constraints(t) : IsUnforecast(c.predecessor)

\* One round of the loop finds one task whose predecessor has no forecast.
WaitForUnforecast ==
    /\ phase = "wait"
    /\ \E t \in leaves :
         /\ WaitsOnUnforecast(t)
         /\ leaves' = leaves \ {t}
         /\ gap' = [gap EXCEPT ![t] = "waiting"]
    /\ UNCHANGED <<inst, board, phase, rem, start, finish, day, left, given, queue, raised, rounds>>

HoursOf(d) == [key \in WorkSeats |-> PersonHours(key, d)]

BeginSimulation ==
    /\ phase = "wait"
    /\ ~\E t \in leaves : WaitsOnUnforecast(t)
    /\ phase' = IF leaves = {} THEN "floors" ELSE "simulate"
    /\ left' = HoursOf(0)
    /\ UNCHANGED <<inst, board, leaves, gap, rem, start, finish, day, given, queue, raised, rounds>>

------------------------------------------------------------------------------
(***************************************************************************)
(* _simulate.                                                              *)
(***************************************************************************)
\* _node_finish: yesterday for what is finished, NoDay while a leaf is open.
NodeFinish(t) ==
    LET ls == LeafIds(t) \cap leaves
    IN  IF \E l \in ls : finish[l] = NoDay THEN NoDay
        ELSE Max({-1} \cup {finish[l] : l \in ls})

\* _node_start: yesterday for what has begun or is finished.
NodeStart(t) ==
    LET ls == LeafIds(t)
        begun == {start[l] : l \in {x \in ls : start[x] # NoDay}}
    IN  IF \E l \in ls : l \notin leaves \/ StartedBeforeToday(l) THEN -1
        ELSE IF begun = {} THEN NoDay ELSE Min(begun)

\* Mutant: a finish-to-start successor may begin on the very day.
SatisfiedTheSameDay(c, d) ==
    CASE c.kind = "FS" -> NodeFinish(c.predecessor) # NoDay /\ d >= NodeFinish(c.predecessor) + c.lag
      [] c.kind = "SS" -> NodeStart(c.predecessor) # NoDay /\ d >= NodeStart(c.predecessor) + c.lag
      [] OTHER -> TRUE

\* FF and SF never stop a start.
IsSatisfied(c, d) ==
    CASE c.kind = "FS" -> NodeFinish(c.predecessor) # NoDay /\ d >= NodeFinish(c.predecessor) + 1 + c.lag
      [] c.kind = "SS" -> NodeStart(c.predecessor) # NoDay /\ d >= NodeStart(c.predecessor) + c.lag
      [] OTHER -> TRUE

IsReady(t, d) ==
    /\ T(t).start = NoDay \/ d >= T(t).start
    /\ \A c \in Constraints(t) : IsSatisfied(c, d)

OrLast(d) == IF d = NoDay THEN DateMax ELSE d

\* _queue_order: due date, priority, planned start, id.
QueueBefore(a, b) ==
    LET key(t) == <<OrLast(T(t).due), -T(t).priority, OrLast(T(t).start), t>>
    IN  \E i \in 1..4 : key(a)[i] < key(b)[i] /\ \A j \in 1..(i - 1) : key(a)[j] = key(b)[j]

\* Mutant: a seat is served once a day.
ReadyOncePerDay(key) ==
    {t \in leaves : /\ SeatOf(t) = key /\ finish[t] = NoDay
                    /\ ~\E g \in given : SeatOf(g) = key
                    /\ WorksOn(key, day, T(t).project)
                    /\ IsReady(t, day)}

\* Whom the seat can serve now.
Ready(key) ==
    {t \in leaves : /\ SeatOf(t) = key /\ finish[t] = NoDay /\ t \notin given
                    /\ WorksOn(key, day, T(t).project)
                    /\ IsReady(t, day)}

\* _hand_out: the shares first, then the rest, each in the order of the queue.
ServedBefore(a, b) ==
    IF T(a).percent > 0 <=> T(b).percent > 0 THEN QueueBefore(a, b) ELSE T(a).percent > 0

\* A share is a part of the whole day, scaled down when they exceed it.
ShareOf(t, ready, capacity) ==
    IF T(t).percent = 0 THEN NoHours
    ELSE (capacity * T(t).percent) \div Max({100, SumFunction([x \in ready |-> T(x).percent])})

HandOut(ready, capacity) ==
    LET nth(i) == CHOOSE t \in ready : Cardinality({x \in ready : ServedBefore(x, t)}) = i - 1
    IN  [i \in 1..Cardinality(ready) |-> [task |-> nth(i), share |-> ShareOf(nth(i), ready, capacity)]]

ServeSeat(key) ==
    /\ phase = "simulate" /\ queue = <<>>
    /\ left[key] > 0
    /\ Ready(key) # {}
    /\ queue' = HandOut(Ready(key), PersonHours(key, day))
    /\ UNCHANGED <<inst, board, phase, leaves, gap, rem, start, finish, day, left, given, raised, rounds>>

\* Mutant: what is begun is finished, however long the day.
WorkOvertime(t, hours) == rem[t]

\* _work: the hours used of those offered.
Used(t, hours) == Min({hours, rem[t]})

\* The next task of the queue gets its share, or all that is left.
ServeTask ==
    /\ phase = "simulate" /\ queue # <<>>
    /\ LET t     == Head(queue).task
           share == Head(queue).share
           key   == SeatOf(t)
           used  == Used(t, IF share = NoHours THEN left[key] ELSE Min({share, left[key]}))
       IN  /\ rem' = [rem EXCEPT ![t] = @ - used]
           /\ left' = [left EXCEPT ![key] = @ - used]
           /\ start' = IF used > 0 /\ start[t] = NoDay THEN [start EXCEPT ![t] = day] ELSE start
           /\ finish' = IF used > 0 /\ used = rem[t] THEN [finish EXCEPT ![t] = day] ELSE finish
           /\ given' = IF share = NoHours /\ left[key] = 0 THEN given ELSE given \cup {t}
    /\ queue' = Tail(queue)
    /\ UNCHANGED <<inst, board, phase, leaves, gap, day, raised, rounds>>

\* Mutant: the day ends only after somebody worked.
EndDayOfWork ==
    /\ phase = "simulate" /\ queue = <<>>
    /\ given # {}
    /\ ~\E key \in WorkSeats : left[key] > 0 /\ Ready(key) # {}
    /\ day' = day + 1
    /\ left' = HoursOf(day + 1)
    /\ given' = {}
    /\ phase' = IF day = LastDay \/ \A t \in leaves : finish[t] # NoDay THEN "floors" ELSE "simulate"
    /\ UNCHANGED <<inst, board, leaves, gap, rem, start, finish, queue, raised, rounds>>

\* Nobody can be served any more today.
EndDay ==
    /\ phase = "simulate" /\ queue = <<>>
    /\ ~\E key \in WorkSeats : left[key] > 0 /\ Ready(key) # {}
    /\ day' = day + 1
    /\ left' = HoursOf(day + 1)
    /\ given' = {}
    /\ phase' = IF day = LastDay \/ \A t \in leaves : finish[t] # NoDay THEN "floors" ELSE "simulate"
    /\ UNCHANGED <<inst, board, leaves, gap, rem, start, finish, queue, raised, rounds>>

------------------------------------------------------------------------------
(***************************************************************************)
(* _apply_finish_floors, the tasks without an end, _roll_up.               *)
(***************************************************************************)
\* What a constraint says of the end of its successor, NoDay for nothing.
Base(c) ==
    CASE c.kind = "FF" -> NodeFinish(c.predecessor)
      [] c.kind = "SF" -> NodeStart(c.predecessor)
      [] OTHER -> NoDay

\* Mutant: one pass is taken to be enough.
OnePass == rounds = 1

\* A pass that changed nothing was the last, and there are not more than the
\* number of leaves and one.
PassesDone == (rounds > 0 /\ ~raised) \/ rounds = Cardinality(leaves) + 1

BeginPass ==
    /\ phase = "floors" /\ queue = <<>>
    /\ IF PassesDone THEN phase' = "report" /\ UNCHANGED <<queue, raised, rounds>>
       ELSE /\ queue' = SetToSeq({x \in leaves \X inst.dependencies : x[2] \in Constraints(x[1])})
            /\ raised' = FALSE /\ rounds' = rounds + 1 /\ UNCHANGED phase
    /\ UNCHANGED <<inst, board, leaves, gap, rem, start, finish, day, left, given>>

RaiseEnd ==
    /\ phase = "floors" /\ queue # <<>>
    /\ LET t == Head(queue)[1]
           c == Head(queue)[2]
           raise == finish[t] # NoDay /\ Base(c) # NoDay /\ Base(c) + c.lag > finish[t]
       IN  /\ finish' = IF raise THEN [finish EXCEPT ![t] = Base(c) + c.lag] ELSE finish
           /\ raised' = (raised \/ raise)
    /\ queue' = Tail(queue)
    /\ UNCHANGED <<inst, board, phase, leaves, gap, rem, start, day, left, given, rounds>>

Unfinished == {t \in leaves : finish[t] = NoDay}

\* Mutant: only a planned start is taken as a reason to wait.
NeverBeganAsPlanned(t) == start[t] = NoDay /\ T(t).start # NoDay

NeverBegan(t) == start[t] = NoDay /\ \E c \in Constraints(t) : ~IsSatisfied(c, LastDay + 1)

\* What a task with children shows, from what its leaves show (g, start, finish).
RollUp(t, g) ==
    LET open == {l \in LeafIds(t) : g[l] # "finished"}
    IN  IF T(t).status \in {"DONE", "CANCELLED"} \/ open = {} THEN "finished"
        ELSE IF \E l \in open : g[l] # "none" THEN "child_unforecast" ELSE "none"

Report ==
    /\ phase = "report"
    /\ LET g == [t \in Task |-> IF t \in Unfinished
                                THEN IF NeverBegan(t) THEN "waiting" ELSE "beyond_horizon"
                                ELSE gap[t]]
           spans(t) == {l \in LeafIds(t) : g[l] = "none"}
           shown(t) == HasSubtasks(t) /\ RollUp(t, g) = "none"
       IN  /\ gap' = [t \in Task |-> IF HasSubtasks(t) THEN RollUp(t, g) ELSE g[t]]
           /\ start' = [t \in Task |-> IF shown(t) THEN Min({start[l] : l \in spans(t)})
                                       ELSE IF t \in Unfinished THEN NoDay ELSE start[t]]
           /\ finish' = [t \in Task |-> IF shown(t) THEN Max({finish[l] : l \in spans(t)}) ELSE finish[t]]
           /\ leaves' = leaves \ Unfinished
    /\ phase' = "done"
    /\ UNCHANGED <<inst, board, rem, day, left, given, queue, raised, rounds>>

ForecastNext ==
    \/ ClassifyAll \/ WaitForUnforecast \/ BeginSimulation
    \/ \E key \in WorkSeats : ServeSeat(key)
    \/ ServeTask \/ EndDay \/ BeginPass \/ RaiseEnd \/ Report

\* The computation is one call that runs on.
ForecastSpec == ForecastInit /\ [][ForecastNext]_forecastVars /\ WF_forecastVars(ForecastNext)
------------------------------------------------------------------------------
(***************************************************************************)
(* Properties.                                                             *)
(***************************************************************************)
\* Types; nobody is given more hours than the day has, work begins within the
\* horizon and does not end before it begins.
ForecastTypeOK ==
    /\ phase \in {"classify", "wait", "simulate", "floors", "report", "done"}
    /\ leaves \subseteq Task /\ given \subseteq leaves
    /\ \A t \in Task : /\ gap[t] \in Gap /\ rem[t] >= 0 /\ start[t] \in (0..LastDay) \cup {NoDay}
                        /\ finish[t] # NoDay => start[t] # NoDay /\ start[t] <= finish[t]
    /\ day \in 0..Horizon
    /\ \A key \in DOMAIN left : left[key] >= 0 /\ (phase = "simulate" => left[key] <= PersonHours(key, day))

\* While the days are laid out, no task begins before its FS predecessor has
\* ended or its SS predecessor has begun, lag included, whatever the seats'
\* order and however often a day is handed out (_is_satisfied).
StartsRespectDependencies ==
    phase \in {"simulate", "floors"} /\ rounds = 0 =>
        \A t \in leaves : start[t] # NoDay =>
            \A c \in Constraints(t) :
                /\ c.kind = "FS" => /\ NodeFinish(c.predecessor) # NoDay
                                    /\ start[t] > NodeFinish(c.predecessor) + c.lag
                /\ c.kind = "SS" => /\ NodeStart(c.predecessor) # NoDay
                                    /\ start[t] >= NodeStart(c.predecessor) + c.lag

\* Nobody sits idle: when a day ends with hours left, every task of that seat
\* that could be worked on is finished or has its share of the day
\* ("handed out again while starts are added", _simulate).
NoIdleHands ==
    [][ day' > day =>
          \A key \in WorkSeats : left[key] > 0 =>
              \A t \in leaves : ( /\ SeatOf(t) = key /\ finish[t] = NoDay
                                  /\ WorksOn(key, day, T(t).project) /\ IsReady(t, day) )
                                => T(t).percent > 0 ]_forecastVars

\* Open tasks that wait for each other, through parents and children too, get
\* no dates and are reported as waiting, not as too far away (_simulate).
RingsWait ==
    phase = "done" =>
        \A ring \in SUBSET {t \in Task : ~HasSubtasks(t) /\ Classify(t) = "none"} :
            (\A t \in ring : \E c \in Constraints(t) : c.kind = "FS" /\ LeafIds(c.predecessor) \cap ring # {})
            => \A t \in ring : gap[t] = "waiting"

\* What nobody can forecast for want of an assignee, hours or capacity.
Unknown == {"no_assignee", "no_remaining", "no_capacity"}

\* Whoever gets dates does not depend on an unknown: neither does it, nor does
\* an unfinished task that it depends on over dependencies of whatever kind and
\* however many.  And whatever it has to begin after has dates or is finished
\* (_wait_for_unforecast, _is_satisfied).
UnknownsArePassedOn ==
    phase = "done" =>
        \A t \in leaves :
            /\ \E known \in SUBSET Task :
                  /\ t \in known
                  /\ \A k \in known :
                        /\ gap[k] \notin Unknown
                        /\ gap[k] # "finished" => \A c \in Constraints(k) : LeafIds(c.predecessor) \subseteq known
            /\ \A c \in Constraints(t) :
                  c.kind = "FS" => \A l \in LeafIds(c.predecessor) : gap[l] \in {"none", "finished"}

\* Unless FF dependencies form a ring, every end that is reported respects
\* all FF and SF predecessors, also along chains (_apply_finish_floors).
FinishFloorsHold ==
    ( /\ phase = "report"
      /\ ~\E ring \in (SUBSET leaves) \ {{}} :
            \A t \in ring : \E c \in Constraints(t) : c.kind = "FF" /\ LeafIds(c.predecessor) \cap ring # {} )
    => \A t \in leaves : finish[t] # NoDay =>
          \A c \in Constraints(t) : Base(c) # NoDay => finish[t] >= Base(c) + c.lag

\* The forecast ends, rings and holidays or not.
ForecastEnds == <>(phase = "done")
==============================================================================
