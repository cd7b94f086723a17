------------------------------- MODULE WorkLogs ------------------------------
(***************************************************************************)
(* Hours worked: written by hand (work_log_use_cases.py), delivered by the *)
(* Tracker period by period (tracker_closed_time_use_cases.py), read by    *)
(* the reports (Actuals), and what they mean for tasks that change, are    *)
(* archived or deleted (task_removal_use_cases.py), or come from the inbox *)
(* (inbox_use_cases.py).                                                   *)
(*                                                                         *)
(* A delivery overlaps with everything else: it reads first and writes     *)
(* later, as ProjectRequests explains.  A person's own request is one step.*)
(* Rows that were removed (deleted_at) are not kept: nothing reads them.   *)
(*                                                                         *)
(* Timestamps: a report compares a task's updated_at with those of rows.   *)
(* seen[t] holds the rows not written since the task was last saved.       *)
(***************************************************************************)
EXTENDS Actuals, SequencesExt

CONSTANTS
    User, Task, Item,
    TrackerUser,                \* who works with the Tracker
    Slot,                       \* threads that serve deliveries
    Parent, TaskHome,           \* the project tree; where each first task belongs
    NoTask, Idle, Keep, Mixed,
    Day, Hours, Remaining, Estimate,
    ReportRange,                    \* ranges to report on: [unit, first, last]
    Delivery,                   \* what the Tracker may send: [first, last, entries]
    MaxEntries,                 \* MAX_ENTRIES
    LogIds,                     \* bound: live rows
    MaxRequests                 \* bound: requests begun

VARIABLES
    tasks, members, logs, seen, inbox,
    inflight,   \* deliveries that have read and not yet written
    sent,       \* what stands of the last delivery of each period (for the properties)
    requests    \* requests begun

logVars == <<tasks, members, logs, seen, inbox, inflight, sent, requests>>

Project == DOMAIN Parent
Status == {"TODO", "DOING", "WAITING", "DONE", "CANCELLED"}
PeriodStart == {d.first : d \in Delivery}

\* Ids, days and lengths are numbers, days from 1; the first tasks belong to
\* somebody; there is a month for every day up to the last of a report.
ASSUME WorkLogAssumption ==
    /\ LogIds \in SUBSET Nat /\ LogIds # {} /\ IsFiniteSet(LogIds)
    /\ Task \in SUBSET Nat /\ DOMAIN TaskHome \in SUBSET Task /\ 1 \in DOMAIN TaskHome
    /\ \A t \in DOMAIN TaskHome : TaskHome[t].owner \in User /\ TaskHome[t].project \in Project \cup {NoProject}
    /\ TrackerUser \in SUBSET User
    /\ Hours \in SUBSET Int /\ NoProject \notin Project
    /\ \A d \in Delivery : /\ d.first \in Nat \ {0} /\ IsFiniteSet(DOMAIN d.entries)
                          /\ \A i \in DOMAIN d.entries : d.entries[i].seconds \in Int
    /\ \A range \in ReportRange : /\ range.unit \in {"closing", "week", "month"}
                                 /\ range.first \in Nat \ {0} /\ range.last \in Nat /\ range.first <= range.last
                                 /\ \A d \in 1..range.last : \E m \in Months : d \in m.first..m.last
------------------------------------------------------------------------------
(***************************************************************************)
(* Who sees what (project_visibility.py), with one root and its members.   *)
(***************************************************************************)
VisibleProjects(u) == IF u \in members THEN Project ELSE {}

VisibleTo(u, t) ==
    \/ tasks[t].project \in VisibleProjects(u)
    \/ tasks[t].project = NoProject /\ tasks[t].owner = u

Exists(t) == t \in DOMAIN tasks /\ ~tasks[t].deleted
Found(u, t) == Exists(t) /\ VisibleTo(u, t)

\* get_actual_hours: everybody's rows.
ActualHours(t) == SumFunctionOnSet([r \in logs |-> r.hours], {r \in logs : r.task = t})

FreeIds == LogIds \ ({r.id : r \in logs} \cup UNION {inflight[s].old : s \in {x \in Slot : inflight[x] # Idle}})

\* A request comes in.
Request == requests < MaxRequests /\ requests' = requests + 1

\* The task is saved: everything written so far is older.
Touch(t) == seen' = [seen EXCEPT ![t] = {r.id : r \in logs}]
\* Rows are written or removed.
Unsee(ids) == seen' = [x \in DOMAIN seen |-> seen[x] \ ids]

NewTask(u, q, above) ==
    [owner |-> u, project |-> q, parent |-> above, status |-> "TODO", completed |-> FALSE,
     archived |-> FALSE, deleted |-> FALSE, remaining |-> NoHours, estimate |-> Estimate]

\* A row of the WBS's own closing, from before the Tracker.
OwnClosing(u, t, d, id) == [id |-> id, user |-> u, task |-> t, day |-> d, origin |-> d, hours |-> 100,
                            seconds |-> 3600, source |-> "closing", period |-> 0]

NothingSent == [last |-> 0, rows |-> {}]

WorkLogInit ==
    /\ tasks = [t \in DOMAIN TaskHome |-> NewTask(TaskHome[t].owner, TaskHome[t].project, NoTask)]
    /\ members = User
    /\ \E d \in Day : logs = {OwnClosing(TaskHome[1].owner, 1, d, Min(LogIds))}
    /\ seen = [t \in Task |-> {}]
    /\ inbox = [i \in {} |-> NoTask]
    /\ inflight = [s \in Slot |-> Idle]
    /\ sent = [u \in User |-> [p \in PeriodStart |-> NothingSent]]
    /\ requests = 0
------------------------------------------------------------------------------
(***************************************************************************)
(* By hand.                                                                *)
(***************************************************************************)
CreateWorkLog(u, t, d, h) ==
    /\ Request /\ Found(u, t) /\ FreeIds # {}
    /\ logs' = logs \cup {[id |-> Min(FreeIds), user |-> u, task |-> t, day |-> d, origin |-> d, hours |-> h,
                           seconds |-> NoSeconds, source |-> "manual", period |-> 0]}
    /\ UNCHANGED <<tasks, members, seen, inbox, inflight, sent>>

\* Only rows of a closing are protected, not those of the Tracker.
MayChange(u, r) == r.user = u /\ r.source # "closing"

\* The length in seconds stays; so does the period.
UpdateWorkLog(u, r, d, h) ==
    /\ Request /\ MayChange(u, r)
    /\ logs' = (logs \ {r}) \cup {[r EXCEPT !.day = d, !.hours = h]}
    /\ Unsee({r.id})
    /\ UNCHANGED <<tasks, members, inbox, inflight, sent>>

\* (sent no longer counts the row.)
DeleteWorkLog(u, r) ==
    /\ Request /\ MayChange(u, r)
    /\ logs' = logs \ {r}
    /\ Unsee({r.id})
    /\ sent' = IF r.source = "tracker" /\ sent[u][r.period] # Mixed
               THEN [sent EXCEPT ![u][r.period].rows = @ \ {[task |-> r.task, day |-> r.origin, seconds |-> r.seconds]}]
               ELSE sent
    /\ UNCHANGED <<tasks, members, inbox, inflight>>

(***************************************************************************)
(* Tasks and inbox.                                                        *)
(***************************************************************************)
AllowedNext(s) ==
    CASE s = "TODO"      -> {"DOING", "CANCELLED"}
      [] s = "DOING"     -> {"DONE", "WAITING"}
      [] s = "WAITING"   -> {"DOING"}
      [] s = "DONE"      -> {"TODO", "DOING", "WAITING"}
      [] s = "CANCELLED" -> {"TODO"}

\* Mutant: the time of completion is only ever set.
KeepCompleted(task, s) ==
    IF s = task.status THEN task
    ELSE [task EXCEPT !.status = s, !.completed = @ \/ s = "DONE"]

\* change_status.
ChangeStatus(task, s) ==
    IF s = task.status THEN task
    ELSE [task EXCEPT !.status = s,
                      !.completed = IF s = "DONE" THEN TRUE ELSE IF task.status = "DONE" THEN FALSE ELSE @]

\* update_task: status and remaining hours.
UpdateTask(u, t, s, h) ==
    /\ Request /\ Found(u, t)
    /\ s = tasks[t].status \/ s \in AllowedNext(tasks[t].status)
    /\ tasks' = [tasks EXCEPT ![t] = [ChangeStatus(tasks[t], s) EXCEPT !.remaining = IF h = Keep THEN @ ELSE h]]
    /\ Touch(t)
    /\ UNCHANGED <<members, logs, inbox, inflight, sent>>

\* create_task with a parent, whose project it takes.
CreateSubtask(u, above) ==
    /\ Request /\ Found(u, above)
    /\ Task \ DOMAIN tasks # {}
    /\ LET t == Min(Task \ DOMAIN tasks)
       IN  /\ tasks' = [x \in DOMAIN tasks \cup {t} |->
                           IF x = t THEN NewTask(u, tasks[above].project, above) ELSE tasks[x]]
           /\ Touch(t)
    /\ UNCHANGED <<members, logs, inbox, inflight, sent>>

DeleteTask(u, t) ==
    /\ Request /\ Found(u, t)
    /\ ~(ActualHours(t) > 0)
    /\ tasks' = [tasks EXCEPT ![t].deleted = TRUE]
    /\ UNCHANGED <<members, logs, seen, inbox, inflight, sent>>

ArchiveTask(u, t) ==
    /\ Request /\ Found(u, t)
    /\ tasks' = [tasks EXCEPT ![t].archived = TRUE]
    /\ Touch(t)
    /\ UNCHANGED <<members, logs, inbox, inflight, sent>>

CreateItem(u, i) ==
    /\ Request /\ i \notin DOMAIN inbox
    /\ inbox' = [x \in DOMAIN inbox \cup {i} |-> IF x = i THEN [owner |-> u, task |-> NoTask, deleted |-> FALSE] ELSE inbox[x]]
    /\ UNCHANGED <<tasks, members, logs, seen, inflight, sent>>

OwnItem(u, i) == i \in DOMAIN inbox /\ inbox[i].owner = u /\ ~inbox[i].deleted

DeleteItem(u, i) ==
    /\ Request /\ OwnItem(u, i)
    /\ inbox' = [inbox EXCEPT ![i].deleted = TRUE]
    /\ UNCHANGED <<tasks, members, logs, seen, inflight, sent>>

\* Nothing asks whether the item was converted before.
ConvertToTask(u, i) ==
    /\ Request /\ OwnItem(u, i)
    /\ Task \ DOMAIN tasks # {}
    /\ LET t == Min(Task \ DOMAIN tasks)
       IN  /\ tasks' = [x \in DOMAIN tasks \cup {t} |-> IF x = t THEN NewTask(u, NoProject, NoTask) ELSE tasks[x]]
           /\ inbox' = [inbox EXCEPT ![i].task = t]
           /\ Touch(t)
    /\ UNCHANGED <<members, logs, inflight, sent>>

\* Somebody leaves the team of the root, or comes back (Projects).
ChangeTeam(u) ==
    /\ Request
    /\ members' = IF u \in members THEN members \ {u} ELSE members \cup {u}
    /\ UNCHANGED <<tasks, logs, seen, inbox, inflight, sent>>

------------------------------------------------------------------------------
(***************************************************************************)
(* The Tracker.                                                            *)
(***************************************************************************)
\* The entries of a delivery, those of the same task and day added up.
SecondsSent(entries, t, d) ==
    SumFunctionOnSet([i \in DOMAIN entries |-> entries[i].seconds],
                     {i \in DOMAIN entries : entries[i].task = t /\ entries[i].day = d})

Totals(entries) ==
    {[task |-> entries[i].task, day |-> entries[i].day,
      seconds |-> SecondsSent(entries, entries[i].task, entries[i].day)] : i \in DOMAIN entries}

Valid(d) ==
    /\ d.first <= d.last
    /\ Len(d.entries) <= MaxEntries
    /\ \A i \in DOMAIN d.entries : d.entries[i].day \in d.first..d.last /\ d.entries[i].seconds >= 0

\* A delivery that has read.
InFlight == [op : {"replace", "remove"}, user : TrackerUser, first : PeriodStart,
             last : {d.last : d \in Delivery} \cup {0}, rows : SUBSET UNION {Totals(d.entries) : d \in Delivery},
             old : SUBSET LogIds, overtaken : BOOLEAN]

ASSUME InFlightAssumption == Idle \notin InFlight

\* The rows of a period that remove_tracker_period selects.
TrackerPeriod(u, first) == {r \in logs : r.user = u /\ r.source = "tracker" /\ r.period = first}

\* replace, up to its first write.  A task is known even where u cannot see it.
BeginReplace(s, u, d) ==
    /\ Request /\ inflight[s] = Idle /\ Valid(d)
    /\ inflight' = [inflight EXCEPT ![s] =
           [op |-> "replace", user |-> u, first |-> d.first, last |-> d.last,
            rows |-> {e \in Totals(d.entries) : e.seconds > 0 /\ Exists(e.task)},
            old |-> {r.id : r \in TrackerPeriod(u, d.first)}, overtaken |-> FALSE]]
    /\ UNCHANGED <<tasks, members, logs, seen, inbox, sent>>

BeginRemove(s, u, first) ==
    /\ Request /\ inflight[s] = Idle
    /\ inflight' = [inflight EXCEPT ![s] =
           [op |-> "remove", user |-> u, first |-> first, last |-> 0, rows |-> {},
            old |-> {r.id : r \in TrackerPeriod(u, first)}, overtaken |-> FALSE]]
    /\ UNCHANGED <<tasks, members, logs, seen, inbox, sent>>

\* Mutant: only the rows of the tasks that are sent again are replaced.
RemovesWhatIsSentAgain(w) ==
    {r.id : r \in {x \in logs : x.id \in w.old /\ \E e \in w.rows : e.task = x.task}}

\* The rows read before, and the WBS's own closings of those days (nothing
\* adds to these, so it does not matter when they are read).
Removed(w) ==
    w.old \cup {r.id : r \in {x \in logs : x.user = w.user /\ x.source = "closing" /\ x.day \in w.first..w.last}}

\* The row of one total.
TrackerRow(w, e, id) ==
    [id |-> id, user |-> w.user, task |-> e.task, day |-> e.day, origin |-> e.day, hours |-> HoursOf(e.seconds),
     seconds |-> e.seconds, source |-> "tracker", period |-> w.first]

\* One transaction; the other deliveries of the period have read too early.
FinishDelivery(s) ==
    /\ inflight[s] # Idle
    /\ LET w   == inflight[s]
           new == SetToSeq(w.rows)
           ids == SetToSeq(FreeIds)
       IN  /\ Len(new) <= Len(ids)
           /\ logs' = {r \in logs : r.id \notin Removed(w)} \cup
                      {TrackerRow(w, new[i], ids[i]) : i \in DOMAIN new}
           /\ Unsee(Removed(w))
           /\ sent' = [sent EXCEPT ![w.user][w.first] =
                          IF w.overtaken THEN Mixed ELSE [last |-> w.last, rows |-> w.rows]]
           /\ inflight' = [x \in Slot |->
                  IF x = s THEN Idle
                  ELSE IF inflight[x] # Idle /\ inflight[x].user = w.user /\ inflight[x].first = w.first
                  THEN [inflight[x] EXCEPT !.overtaken = TRUE] ELSE inflight[x]]
    /\ UNCHANGED <<tasks, members, inbox, requests>>

\* The process dies or the database stays locked: nothing is written.
FailDelivery(s) ==
    /\ inflight[s] # Idle
    /\ inflight' = [inflight EXCEPT ![s] = Idle]
    /\ UNCHANGED <<tasks, members, logs, seen, inbox, sent, requests>>

HandStep(u) ==
    \/ \E t \in Task, d \in Day, h \in Hours : CreateWorkLog(u, t, d, h)
    \/ \E r \in logs : DeleteWorkLog(u, r) \/ \E d \in Day, h \in Hours : UpdateWorkLog(u, r, d, h)
    \/ \E t \in Task : \/ CreateSubtask(u, t) \/ DeleteTask(u, t) \/ ArchiveTask(u, t)
                       \/ \E s \in Status, h \in Remaining \cup {Keep} : UpdateTask(u, t, s, h)
    \/ \E i \in Item : CreateItem(u, i) \/ DeleteItem(u, i) \/ ConvertToTask(u, i)
    \/ ChangeTeam(u)

DeliveryStep(s) ==
    \/ \E u \in TrackerUser : (\E d \in Delivery : BeginReplace(s, u, d)) \/ \E p \in PeriodStart : BeginRemove(s, u, p)
    \/ FinishDelivery(s) \/ FailDelivery(s)

WorkLogNext == (\E u \in User : HandStep(u)) \/ \E s \in Slot : DeliveryStep(s)

WorkLogSpec == WorkLogInit /\ [][WorkLogNext]_logVars
------------------------------------------------------------------------------
(***************************************************************************)
(* The reports (actuals_use_cases.py).                                     *)
(***************************************************************************)
\* find_for_user: u's own rows of the tasks u sees; the task may be deleted.
LogsOf(u) == {r \in logs : r.user = u /\ VisibleTo(u, r.task)}
Owned(u) == {t \in DOMAIN tasks : Found(u, t)}

\* _task_scope: the tasks of the project and its descendants.
TaskScope(u, top) ==
    IF top = NoProject THEN Task
    ELSE {t \in Owned(u) : tasks[t].project \in SubtreeIds(Parent, VisibleProjects(u), top)}

\* breakdown by project: NoProject stands for the group "ungrouped".
GroupOf(u, t, top) ==
    IF t \in Owned(u) THEN GroupUnder(Parent, VisibleProjects(u), tasks[t].project, top) ELSE NoProject

\* Mutant: the period delivered first is taken.
FirstClosed(u) ==
    LET delivered == {r \in LogsOf(u) : r.source = "tracker"}
    IN  {r \in delivered : \A x \in delivered : x.period >= r.period}

\* _latest_closed: the newest period the Tracker delivered, and its rows.
LatestClosed(u) ==
    LET delivered == {r \in LogsOf(u) : r.source = "tracker"}
    IN  {r \in delivered : \A x \in delivered : x.period <= r.period}

\* list_tasks.
Listed(u, t) == Found(u, t) /\ ~tasks[t].archived

\* has_subtasks of the board of all u's tasks, archived ones too.
HasSubtasks(u, t) == \E c \in Owned(u) : tasks[c].parent = t

\* task_board: why u is asked to look at the remaining hours of t.
Reasons(u, t) ==
    LET latest == LatestClosed(u)
        closed == SumFunctionOnSet([r \in latest |-> Seconds(r)], {r \in latest : r.task = t})
    IN  IF ~Listed(u, t) THEN {}
        ELSE ReviewReasons(tasks[t], ActualHours(t), HasSubtasks(u, t), HoursOf(closed),
                           \E r \in latest : r.id \notin seen[t])
------------------------------------------------------------------------------
(***************************************************************************)
(* Properties.                                                             *)
(***************************************************************************)
\* Types, distinct rows, and a time of completion only on a task that is done.
WorkLogTypeOK ==
    /\ DOMAIN tasks \subseteq Task /\ members \subseteq User
    /\ \A t \in DOMAIN tasks : tasks[t].status \in Status /\ (tasks[t].completed => tasks[t].status = "DONE")
    /\ \A r \in logs : /\ r.id \in LogIds /\ r.user \in User /\ r.task \in DOMAIN tasks
                       /\ \A x \in logs : x.id = r.id => x = r
    /\ \A t \in Task : seen[t] \subseteq {r.id : r \in logs}
    /\ \A i \in DOMAIN inbox : inbox[i].task \in DOMAIN tasks \cup {NoTask}
    /\ inflight \in [Slot -> InFlight \cup {Idle}]

\* However often, in whatever order and beside whatever hand work the Tracker
\* delivers and reopens periods, each period holds exactly what was last
\* written for it, less the rows the person deleted, each once; and no closing
\* of the WBS's own stands on the same days.  Two deliveries of one period that
\* overlap are the exception, until the next one (replace: "the same result
\* however often it is sent").
PeriodIsAsLastSent ==
    \A u \in User, p \in PeriodStart : sent[u][p] # Mixed =>
        /\ {[task |-> r.task, day |-> r.origin, seconds |-> r.seconds] : r \in TrackerPeriod(u, p)} = sent[u][p].rows
        /\ Cardinality(TrackerPeriod(u, p)) = Cardinality(sent[u][p].rows)
        /\ ~\E r \in logs : r.user = u /\ r.source = "closing" /\ r.day \in p..sent[u][p].last

\* Every second that a report over any range and part of the tree counts is in
\* exactly one of its periods and one of its groups, whatever was archived,
\* deleted or lost from sight (breakdown, _task_scope, group_under).
BreakdownAddsUp ==
    \A u \in {r.user : r \in logs} : \A top \in VisibleProjects(u) \cup {NoProject} :
        LET rows   == {r \in LogsOf(u) : r.task \in TaskScope(u, top)}
            ledger == Ledger(LogsOf(u), TaskScope(u, top))
            groupOf == [t \in Task |-> IF t \in DOMAIN tasks THEN GroupOf(u, t, top) ELSE NoProject]
        IN  /\ \A range \in ReportRange :
                  LET periods == ReportPeriodsBetween(range.unit, range.first, range.last)
                      whole   == Min({p.first : p \in periods})..Max({p.last : p \in periods})
                  IN  /\ SumFunction([p \in periods |-> Total(ledger, p)])
                         = SumFunction([r \in {x \in rows : x.day \in whole} |-> Max({Seconds(r), 0})])
                      /\ \A p \in periods :
                            SumFunction(Grouped(ledger, p, groupOf)) = Total(ledger, p)
            /\ top # NoProject => \A r \in rows : groupOf[r.task] # NoProject

\* When hours of the newest period arrive, the person they are of is asked to
\* look again at the remaining hours entered for those tasks, even when the
\* same period is only delivered again: for every open task on the board, which
\* archived tasks are not, that has no subtasks (remaining_review.py:
\* stale_remaining).
AskedAfterClosing ==
    [][ \A s \in Slot, u \in User, p \in PeriodStart :
          ( /\ inflight[s] # Idle /\ inflight'[s] = Idle /\ logs' # logs
            /\ inflight[s].op = "replace" /\ inflight[s].user = u /\ inflight[s].first = p
            /\ \A r \in LogsOf(u)' : r.source = "tracker" => r.period <= p ) =>
              \A t \in DOMAIN tasks :
                  ( /\ Listed(u, t) /\ ~HasSubtasks(u, t) /\ tasks[t].status \notin {"DONE", "CANCELLED"}
                    /\ tasks[t].remaining \notin {NoHours, 0}
                    /\ \E e \in inflight[s].rows : e.task = t /\ HoursOf(e.seconds) > 0 )
                  => Reasons(u, t)' = {"stale_remaining"} ]_logVars
==============================================================================
