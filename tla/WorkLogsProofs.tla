--------------------------- MODULE WorkLogsProofs ----------------------------
(***************************************************************************)
(* What the work logs keep, whatever is delivered, deleted and corrected   *)
(* in whatever order, for every number of people, tasks, periods, threads  *)
(* and rows.                                                               *)
(*                                                                         *)
(* A delivery in flight carries the ids of the rows it will remove.  The   *)
(* argument is that these ids still mean what they meant when they were    *)
(* read: rows may go meanwhile, none takes their place, and only another   *)
(* delivery of the same period adds to it (OldRowsStand).                  *)
(***************************************************************************)
EXTENDS WorkLogs, SetLemmas

------------------------------------------------------------------------------
(* The inductive invariant.                                                 *)

RowShape(r) ==
    r = [id |-> r.id, user |-> r.user, task |-> r.task, day |-> r.day, origin |-> r.origin, hours |-> r.hours,
         seconds |-> r.seconds, source |-> r.source, period |-> r.period]

TotalShape(e) == e = [task |-> e.task, day |-> e.day, seconds |-> e.seconds]

DeliveryShape(w) ==
    w = [op |-> w.op, user |-> w.user, first |-> w.first, last |-> w.last, rows |-> w.rows, old |-> w.old,
         overtaken |-> w.overtaken]

\* The total that a row of the Tracker was written from.
TotalOf(r) == [task |-> r.task, day |-> r.origin, seconds |-> r.seconds]

TaskRow == [owner : User, project : Project \cup {NoProject}, parent : Task \cup {NoTask}, status : Status, completed : BOOLEAN,
            archived : BOOLEAN, deleted : BOOLEAN, remaining : Remaining \cup {NoHours}, estimate : {Estimate}]

InboxRow == [owner : User, task : DOMAIN tasks \cup {NoTask}, deleted : BOOLEAN]

TaskRows ==
    /\ tasks \in [DOMAIN tasks -> TaskRow]
    /\ DOMAIN tasks \in SUBSET Task
    /\ \A t \in DOMAIN tasks : tasks[t].completed => tasks[t].status = "DONE"
    /\ members \in SUBSET User

LogRows ==
    /\ \A r \in logs : /\ RowShape(r) /\ r.id \in LogIds /\ r.user \in User /\ r.task \in DOMAIN tasks
                       /\ r.source = "tracker" => r.period \in PeriodStart
    /\ \A r, x \in logs : x.id = r.id => x = r

SeenRows == seen \in [Task -> SUBSET {r.id : r \in logs}]

InboxRows == inbox \in [DOMAIN inbox -> InboxRow]

DeliveryRows ==
    /\ inflight = [s \in Slot |-> inflight[s]]
    /\ \A s \in Slot : inflight[s] # Idle =>
          LET w == inflight[s]
          IN  /\ DeliveryShape(w) /\ w.user \in User /\ w.first \in PeriodStart /\ w.overtaken \in BOOLEAN
              /\ IsFiniteSet(w.rows)
              /\ \A e \in w.rows : TotalShape(e) /\ e.task \in DOMAIN tasks

\* The ids a delivery has read belong to rows of its period or to none; and
\* it has read all of the period unless another one was faster.
OldRowsStand ==
    \A s \in Slot : inflight[s] # Idle =>
        LET w == inflight[s]
        IN  /\ \A r \in logs : r.id \in w.old => r \in TrackerPeriod(w.user, w.first)
            /\ ~w.overtaken => \A r \in TrackerPeriod(w.user, w.first) : r.id \in w.old

SentRows ==
    /\ sent = [u \in User |-> sent[u]]
    /\ \A u \in User : sent[u] = [p \in PeriodStart |-> sent[u][p]]
    /\ \A u \in User, p \in PeriodStart :
          sent[u][p] # Mixed => sent[u][p] = [last |-> sent[u][p].last, rows |-> sent[u][p].rows]

\* What PeriodIsAsLastSent says of one period, the number of rows put as
\* "no total twice".
PeriodHolds(u, p) ==
    sent[u][p] # Mixed =>
        /\ \A r \in TrackerPeriod(u, p) : TotalOf(r) \in sent[u][p].rows
        /\ \A e \in sent[u][p].rows : \E r \in TrackerPeriod(u, p) : TotalOf(r) = e
        /\ \A r, x \in TrackerPeriod(u, p) : TotalOf(r) = TotalOf(x) => r = x
        /\ \A r \in logs : r.user = u /\ r.source = "closing" => r.day \notin p..sent[u][p].last

PeriodsHold == \A u \in User, p \in PeriodStart : PeriodHolds(u, p)

WorkLogInv ==
    /\ TaskRows /\ LogRows /\ SeenRows /\ InboxRows /\ DeliveryRows /\ OldRowsStand /\ SentRows /\ PeriodsHold

------------------------------------------------------------------------------
(* The operators.                                                           *)

\* A delivery has finitely many totals.
LEMMA TotalsAreRows ==
    ASSUME NEW entries, IsFiniteSet(DOMAIN entries)
    PROVE  IsFiniteSet(Totals(entries)) /\ \A e \in Totals(entries) : TotalShape(e)
<1> DEFINE total(i) == [task |-> entries[i].task, day |-> entries[i].day,
                        seconds |-> SecondsSent(entries, entries[i].task, entries[i].day)]
           f == [i \in DOMAIN entries |-> total(i)]
<1>1. Totals(entries) = {total(i) : i \in DOMAIN entries}
  BY DEF Totals
<1>2. \A i : TotalShape(total(i))
  BY DEF TotalShape
<1> HIDE DEF total
<1>3. f \in Surjection(DOMAIN entries, Totals(entries))
  BY <1>1 DEF Surjection
<1>4. IsFiniteSet(Totals(entries))
  BY <1>3, FS_Surjection
<1> QED
  BY <1>1, <1>2, <1>4

------------------------------------------------------------------------------
(* What a step that leaves rows and deliveries alone has to show.           *)

LEMMA RowsAlone ==
    ASSUME WorkLogInv, UNCHANGED <<logs, inflight, sent>>, DOMAIN tasks \subseteq DOMAIN tasks'
    PROVE  LogRows' /\ DeliveryRows' /\ OldRowsStand' /\ SentRows' /\ PeriodsHold'
<1>1. LogRows'
  BY DEF WorkLogInv, LogRows
<1>2. DeliveryRows'
  BY DEF WorkLogInv, DeliveryRows
<1>3. OldRowsStand'
  BY DEF WorkLogInv, OldRowsStand, TrackerPeriod
<1>4. SentRows'
  BY DEF WorkLogInv, SentRows
<1>5. PeriodsHold'
  BY DEF WorkLogInv, PeriodsHold, PeriodHolds, TrackerPeriod
<1> QED
  BY <1>1, <1>2, <1>3, <1>4, <1>5

LEMMA TouchKeepsSeen ==
    ASSUME WorkLogInv, NEW t \in Task, Touch(t), logs' = logs
    PROVE  SeenRows'
BY DEF WorkLogInv, SeenRows, Touch

LEMMA InboxAlone ==
    ASSUME WorkLogInv, inbox' = inbox, DOMAIN tasks \subseteq DOMAIN tasks'
    PROVE  InboxRows'
BY DEF WorkLogInv, InboxRows, InboxRow

------------------------------------------------------------------------------
(* Tasks, inbox and team.                                                   *)

LEMMA InitHolds == WorkLogInit => WorkLogInv
<1> SUFFICES ASSUME WorkLogInit PROVE WorkLogInv
  OBVIOUS
<1> USE WorkLogAssumption DEF WorkLogInit
<1>1. TaskRows
  BY DEF TaskRows, TaskRow, NewTask, Status
<1>2. PICK d \in Day : logs = {OwnClosing(TaskHome[1].owner, 1, d, Min(LogIds))}
  OBVIOUS
<1>3. Min(LogIds) \in LogIds
  BY MinInSet
<1>4. DOMAIN tasks = DOMAIN TaskHome
  OBVIOUS
<1>5. LogRows
  BY <1>2, <1>3, <1>4 DEF LogRows, OwnClosing, RowShape
<1>6. SeenRows
  BY DEF SeenRows
<1>7. InboxRows
  BY DEF InboxRows
<1>8. DeliveryRows /\ OldRowsStand
  BY DEF DeliveryRows, OldRowsStand
<1>9. SentRows
  BY DEF SentRows, NothingSent
<1>10. \A r \in logs : r.source # "tracker"
  BY <1>2 DEF OwnClosing
<1>11. ASSUME NEW u \in User, NEW p \in PeriodStart PROVE PeriodHolds(u, p)
  <2>1. sent[u][p].last = 0 /\ sent[u][p].rows = {}
    BY DEF NothingSent
  <2>2. TrackerPeriod(u, p) = {}
    BY <1>10 DEF TrackerPeriod
  <2>3. p \in Nat /\ p # 0
    BY DEF PeriodStart
  <2>4. p..0 = {}
    BY <2>3
  <2> QED
    BY <2>1, <2>2, <2>4 DEF PeriodHolds
<1> QED
  BY <1>1, <1>5, <1>6, <1>7, <1>8, <1>9, <1>11 DEF WorkLogInv, PeriodsHold

LEMMA ChangeStatusKeeps ==
    ASSUME NEW task \in TaskRow, task.completed => task.status = "DONE", NEW s \in Status
    PROVE  /\ ChangeStatus(task, s) \in TaskRow
           /\ ChangeStatus(task, s).completed => ChangeStatus(task, s).status = "DONE"
<1>1. CASE s = task.status
  BY <1>1 DEF ChangeStatus
<1>2. CASE s # task.status
  <2>1. PICK done \in BOOLEAN : /\ ChangeStatus(task, s) = [task EXCEPT !.status = s, !.completed = done]
                                /\ done => s = "DONE"
    <3>1. CASE s = "DONE"
      BY <1>2, <3>1 DEF ChangeStatus
    <3>2. CASE s # "DONE" /\ task.status = "DONE"
      BY <1>2, <3>2 DEF ChangeStatus
    <3>3. CASE s # "DONE" /\ task.status # "DONE"
      BY <1>2, <3>3 DEF ChangeStatus, TaskRow
    <3> QED
      BY <3>1, <3>2, <3>3
  <2> QED
    BY <2>1 DEF TaskRow
<1> QED
  BY <1>1, <1>2

\* A task that is marked stays a task.
LEMMA TaskMarked ==
    ASSUME WorkLogInv, NEW t \in DOMAIN tasks, NEW task \in TaskRow, task.completed => task.status = "DONE",
           tasks' = [tasks EXCEPT ![t] = task], members' = members
    PROVE  TaskRows' /\ DOMAIN tasks' = DOMAIN tasks
BY DEF WorkLogInv, TaskRows

LEMMA UpdateTaskKeeps ==
    ASSUME WorkLogInv, NEW u \in User, NEW t \in Task, NEW s \in Status, NEW h \in Remaining \cup {Keep},
           UpdateTask(u, t, s, h)
    PROVE  WorkLogInv'
<1> DEFINE changed == ChangeStatus(tasks[t], s)
           task == [changed EXCEPT !.remaining = IF h = Keep THEN @ ELSE h]
<1> USE DEF UpdateTask
<1>1. t \in DOMAIN tasks
  BY DEF Found, Exists
<1>2. tasks[t] \in TaskRow /\ (tasks[t].completed => tasks[t].status = "DONE")
  BY <1>1 DEF WorkLogInv, TaskRows
<1>3. changed \in TaskRow /\ (changed.completed => changed.status = "DONE")
  BY <1>2, ChangeStatusKeeps
<1>4. tasks' = [tasks EXCEPT ![t] = task]
  OBVIOUS
<1> HIDE DEF changed
<1>5. task \in TaskRow /\ (task.completed => task.status = "DONE")
  BY <1>3 DEF TaskRow
<1> HIDE DEF task
<1>6. DOMAIN tasks' = DOMAIN tasks /\ TaskRows'
  BY <1>1, <1>4, <1>5, TaskMarked
<1>7. SeenRows'
  BY TouchKeepsSeen
<1> QED
  BY <1>6, <1>7, RowsAlone, InboxAlone DEF WorkLogInv

LEMMA DeleteTaskKeeps ==
    ASSUME WorkLogInv, NEW u \in User, NEW t \in Task, DeleteTask(u, t)
    PROVE  WorkLogInv'
<1> USE DEF DeleteTask
<1>1. t \in DOMAIN tasks
  BY DEF Found, Exists
<1>2. DOMAIN tasks' = DOMAIN tasks /\ TaskRows'
  <2> DEFINE task == [tasks[t] EXCEPT !.deleted = TRUE]
  <2>1. tasks[t] \in TaskRow /\ (tasks[t].completed => tasks[t].status = "DONE")
    BY <1>1 DEF WorkLogInv, TaskRows
  <2>2. task \in TaskRow /\ (task.completed => task.status = "DONE")
    BY <2>1 DEF TaskRow
  <2>3. tasks' = [tasks EXCEPT ![t] = task]
    OBVIOUS
  <2> HIDE DEF task
  <2> QED
    BY <1>1, <2>2, <2>3, TaskMarked
<1>3. SeenRows'
  BY DEF WorkLogInv, SeenRows
<1> QED
  BY <1>2, <1>3, RowsAlone, InboxAlone DEF WorkLogInv

LEMMA ArchiveTaskKeeps ==
    ASSUME WorkLogInv, NEW u \in User, NEW t \in Task, ArchiveTask(u, t)
    PROVE  WorkLogInv'
<1> USE DEF ArchiveTask
<1>1. t \in DOMAIN tasks
  BY DEF Found, Exists
<1>2. DOMAIN tasks' = DOMAIN tasks /\ TaskRows'
  <2> DEFINE task == [tasks[t] EXCEPT !.archived = TRUE]
  <2>1. tasks[t] \in TaskRow /\ (tasks[t].completed => tasks[t].status = "DONE")
    BY <1>1 DEF WorkLogInv, TaskRows
  <2>2. task \in TaskRow /\ (task.completed => task.status = "DONE")
    BY <2>1 DEF TaskRow
  <2>3. tasks' = [tasks EXCEPT ![t] = task]
    OBVIOUS
  <2> HIDE DEF task
  <2> QED
    BY <1>1, <2>2, <2>3, TaskMarked
<1>3. SeenRows'
  BY TouchKeepsSeen
<1> QED
  BY <1>2, <1>3, RowsAlone, InboxAlone DEF WorkLogInv

LEMMA InboxStepKeeps ==
    ASSUME WorkLogInv, NEW u \in User, NEW i \in Item, CreateItem(u, i) \/ DeleteItem(u, i)
    PROVE  WorkLogInv'
<1>1. UNCHANGED <<tasks, members, logs, seen, inflight, sent>>
  BY DEF CreateItem, DeleteItem
<1>2. TaskRows' /\ SeenRows'
  BY <1>1 DEF WorkLogInv, TaskRows, SeenRows
<1>3. InboxRows'
  <2>1. CASE CreateItem(u, i)
    BY <1>1, <2>1 DEF CreateItem, WorkLogInv, InboxRows, InboxRow
  <2>2. CASE DeleteItem(u, i)
    <3> DEFINE item == [inbox[i] EXCEPT !.deleted = TRUE]
    <3>1. /\ i \in DOMAIN inbox /\ inbox \in [DOMAIN inbox -> InboxRow] /\ inbox[i] \in InboxRow
          /\ inbox' = [inbox EXCEPT ![i] = item]
      BY <2>2 DEF DeleteItem, OwnItem, WorkLogInv, InboxRows
    <3>2. item \in InboxRow
      BY <3>1 DEF InboxRow
    <3>3. InboxRow' = InboxRow
      BY <1>1 DEF InboxRow
    <3> HIDE DEF item
    <3> QED
      BY <3>1, <3>2, <3>3 DEF InboxRows
  <2> QED
    BY <2>1, <2>2
<1> QED
  BY <1>1, <1>2, <1>3, RowsAlone DEF WorkLogInv

LEMMA ConvertToTaskKeeps ==
    ASSUME WorkLogInv, NEW u \in User, NEW i \in Item, ConvertToTask(u, i)
    PROVE  WorkLogInv'
<1> DEFINE t == Min(Task \ DOMAIN tasks)
<1>1. /\ Task \ DOMAIN tasks # {}
      /\ tasks' = [x \in DOMAIN tasks \cup {t} |-> IF x = t THEN NewTask(u, NoProject, NoTask) ELSE tasks[x]]
      /\ inbox' = [inbox EXCEPT ![i].task = t]
      /\ Touch(t)
      /\ i \in DOMAIN inbox
      /\ UNCHANGED <<members, logs, inflight, sent>>
  BY DEF ConvertToTask, OwnItem
<1>2. t \in Task \ DOMAIN tasks
  BY <1>1, MinInSet, WorkLogAssumption
<1> HIDE DEF t
<1>3. NewTask(u, NoProject, NoTask) \in TaskRow /\ ~NewTask(u, NoProject, NoTask).completed
  BY DEF NewTask, TaskRow, Status
<1>4. DOMAIN tasks \subseteq DOMAIN tasks' /\ t \in DOMAIN tasks'
  BY <1>1
<1>5. TaskRows'
  BY <1>1, <1>2, <1>3 DEF WorkLogInv, TaskRows
<1>6. SeenRows'
  BY <1>1, <1>2, TouchKeepsSeen
<1>7. InboxRows'
  BY <1>1, <1>4 DEF WorkLogInv, InboxRows, InboxRow
<1> QED
  BY <1>1, <1>4, <1>5, <1>6, <1>7, RowsAlone DEF WorkLogInv

LEMMA CreateSubtaskKeeps ==
    ASSUME WorkLogInv, NEW u \in User, NEW above \in Task, CreateSubtask(u, above)
    PROVE  WorkLogInv'
<1> DEFINE t == Min(Task \ DOMAIN tasks)
           q == tasks[above].project
<1>1. /\ Task \ DOMAIN tasks # {}
      /\ tasks' = [x \in DOMAIN tasks \cup {t} |-> IF x = t THEN NewTask(u, q, above) ELSE tasks[x]]
      /\ Touch(t)
      /\ above \in DOMAIN tasks
      /\ UNCHANGED <<members, logs, inbox, inflight, sent>>
  BY DEF CreateSubtask, Found, Exists
<1>2. t \in Task \ DOMAIN tasks
  BY <1>1, MinInSet, WorkLogAssumption
<1>3. q \in Project \cup {NoProject}
  BY <1>1 DEF WorkLogInv, TaskRows, TaskRow
<1> HIDE DEF t, q
<1>4. NewTask(u, q, above) \in TaskRow /\ ~NewTask(u, q, above).completed
  BY <1>3 DEF NewTask, TaskRow, Status
<1>5. TaskRows'
  BY <1>1, <1>2, <1>4 DEF WorkLogInv, TaskRows
<1>6. SeenRows'
  BY <1>1, <1>2, TouchKeepsSeen
<1>7. DOMAIN tasks \subseteq DOMAIN tasks'
  BY <1>1
<1>8. InboxRows'
  BY <1>1, <1>7 DEF WorkLogInv, InboxRows, InboxRow
<1> QED
  BY <1>1, <1>5, <1>6, <1>7, <1>8, RowsAlone DEF WorkLogInv

LEMMA ChangeTeamKeeps ==
    ASSUME WorkLogInv, NEW u \in User, ChangeTeam(u)
    PROVE  WorkLogInv'
<1> USE DEF ChangeTeam
<1>1. TaskRows' /\ SeenRows'
  BY DEF WorkLogInv, TaskRows, SeenRows
<1> QED
  BY <1>1, RowsAlone, InboxAlone DEF WorkLogInv

------------------------------------------------------------------------------
(* Rows by hand.                                                            *)

LEMMA CreateWorkLogKeeps ==
    ASSUME WorkLogInv, NEW u \in User, NEW t \in Task, NEW d, NEW h, CreateWorkLog(u, t, d, h)
    PROVE  WorkLogInv'
<1> DEFINE id  == Min(FreeIds)
           row == [id |-> id, user |-> u, task |-> t, day |-> d, origin |-> d, hours |-> h,
                   seconds |-> NoSeconds, source |-> "manual", period |-> 0]
<1>1. /\ logs' = logs \cup {row} /\ t \in DOMAIN tasks /\ FreeIds # {}
      /\ UNCHANGED <<tasks, members, seen, inbox, inflight, sent>>
  BY DEF CreateWorkLog, Found, Exists
<1>2. id \in FreeIds
  <2>1. FreeIds \in SUBSET Nat
    BY WorkLogAssumption DEF FreeIds
  <2> QED
    BY <1>1, <2>1, MinInSet
<1>3. /\ id \in LogIds /\ \A r \in logs : r.id # id
      /\ \A s \in Slot : inflight[s] # Idle => id \notin inflight[s].old
  BY <1>2 DEF FreeIds
<1> HIDE DEF id
<1>4. /\ RowShape(row) /\ row.id = id /\ row.user = u /\ row.task = t /\ row.source = "manual"
  BY DEF RowShape
<1> HIDE DEF row
<1>5. \A v, p : TrackerPeriod(v, p)' = TrackerPeriod(v, p)
  BY <1>1, <1>4 DEF TrackerPeriod
<1>6. LogRows'
  BY <1>1, <1>3, <1>4 DEF WorkLogInv, LogRows
<1>7. TaskRows' /\ InboxRows' /\ DeliveryRows' /\ SentRows'
  BY <1>1 DEF WorkLogInv, TaskRows, InboxRows, InboxRow, DeliveryRows, SentRows
<1>8. SeenRows'
  BY <1>1 DEF WorkLogInv, SeenRows
<1>9. OldRowsStand'
  BY <1>1, <1>3, <1>4, <1>5 DEF WorkLogInv, OldRowsStand
<1>10. ASSUME NEW v \in User, NEW p \in PeriodStart PROVE PeriodHolds(v, p)'
  BY <1>1, <1>4, <1>5 DEF WorkLogInv, PeriodsHold, PeriodHolds
<1> QED
  BY <1>6, <1>7, <1>8, <1>9, <1>10 DEF WorkLogInv, PeriodsHold

\* A correction leaves the total that the row was written from.
LEMMA UpdateWorkLogKeeps ==
    ASSUME WorkLogInv, NEW u \in User, NEW r \in logs, NEW d, NEW h, UpdateWorkLog(u, r, d, h)
    PROVE  WorkLogInv'
<1> DEFINE new == [r EXCEPT !.day = d, !.hours = h]
<1>1. /\ logs' = (logs \ {r}) \cup {new} /\ r.source # "closing"
      /\ seen' = [x \in DOMAIN seen |-> seen[x] \ {r.id}]
      /\ UNCHANGED <<tasks, members, inbox, inflight, sent>>
  BY DEF UpdateWorkLog, MayChange, Unsee
<1>2. RowShape(r)
  BY DEF WorkLogInv, LogRows
<1>3. /\ RowShape(new) /\ new.id = r.id /\ new.user = r.user /\ new.task = r.task /\ new.source = r.source
      /\ new.period = r.period /\ new.origin = r.origin /\ new.seconds = r.seconds
  <2>1. PICK a, v, t, b, o, c, n, f, p :
           r = [id |-> a, user |-> v, task |-> t, day |-> b, origin |-> o, hours |-> c,
                seconds |-> n, source |-> f, period |-> p]
    BY <1>2 DEF RowShape
  <2>2. /\ new = [x \in {"id", "user", "task", "day", "origin", "hours", "seconds", "source", "period"} |-> new[x]]
        /\ new.id = a /\ new.user = v /\ new.task = t /\ new.day = d /\ new.origin = o /\ new.hours = h
        /\ new.seconds = n /\ new.source = f /\ new.period = p
    BY <2>1
  <2> HIDE DEF new
  <2>3. new = [id |-> a, user |-> v, task |-> t, day |-> d, origin |-> o, hours |-> h,
               seconds |-> n, source |-> f, period |-> p]
    BY <2>2
  <2> QED
    BY <2>1, <2>3 DEF RowShape
<1> HIDE DEF new
<1>4. TotalOf(new) = TotalOf(r)
  BY <1>3 DEF TotalOf
<1>5. ASSUME NEW v, NEW p
      PROVE  TrackerPeriod(v, p)' = IF r \in TrackerPeriod(v, p) THEN (TrackerPeriod(v, p) \ {r}) \cup {new}
                                    ELSE TrackerPeriod(v, p)
  BY <1>1, <1>3 DEF TrackerPeriod
<1>6. LogRows'
  BY <1>1, <1>3 DEF WorkLogInv, LogRows
<1>7. TaskRows' /\ InboxRows' /\ DeliveryRows' /\ SentRows'
  BY <1>1 DEF WorkLogInv, TaskRows, InboxRows, InboxRow, DeliveryRows, SentRows
<1>8. SeenRows'
  BY <1>1, <1>3 DEF WorkLogInv, SeenRows
<1>9. OldRowsStand'
  <2>1. ASSUME NEW s \in Slot, inflight[s] # Idle, NEW T, T = TrackerPeriod(inflight[s].user, inflight[s].first)
        PROVE  LET after == IF r \in T THEN (T \ {r}) \cup {new} ELSE T
               IN  /\ \A x \in logs' : x.id \in inflight[s].old => x \in after
                   /\ ~inflight[s].overtaken => \A x \in after : x.id \in inflight[s].old
    <3>1. /\ \A x \in logs : x.id \in inflight[s].old => x \in T
          /\ ~inflight[s].overtaken => \A x \in T : x.id \in inflight[s].old
      BY <2>1 DEF WorkLogInv, OldRowsStand
    <3> QED
      BY <1>1, <1>3, <3>1
  <2> QED
    BY <1>1, <1>5, <2>1 DEF OldRowsStand
<1>10. ASSUME NEW v \in User, NEW p \in PeriodStart PROVE PeriodHolds(v, p)'
  <2> DEFINE T == TrackerPeriod(v, p)
  <2> SUFFICES ASSUME sent[v][p] # Mixed
               PROVE  /\ \A x \in T' : TotalOf(x) \in sent[v][p].rows
                      /\ \A e \in sent[v][p].rows : \E x \in T' : TotalOf(x) = e
                      /\ \A x, y \in T' : TotalOf(x) = TotalOf(y) => x = y
                      /\ \A x \in logs' : x.user = v /\ x.source = "closing" => x.day \notin p..sent[v][p].last
    BY <1>1 DEF PeriodHolds, TotalOf
  <2>1. /\ \A x \in T : TotalOf(x) \in sent[v][p].rows
        /\ \A e \in sent[v][p].rows : \E x \in T : TotalOf(x) = e
        /\ \A x, y \in T : TotalOf(x) = TotalOf(y) => x = y
        /\ \A x \in logs : x.user = v /\ x.source = "closing" => x.day \notin p..sent[v][p].last
    BY DEF WorkLogInv, PeriodsHold, PeriodHolds
  <2>2. T' = IF r \in T THEN (T \ {r}) \cup {new} ELSE T
    BY <1>5
  <2> HIDE DEF T
  <2> QED
    BY <1>1, <1>3, <1>4, <2>1, <2>2
<1> QED
  BY <1>6, <1>7, <1>8, <1>9, <1>10 DEF WorkLogInv, PeriodsHold

LEMMA DeleteWorkLogKeeps ==
    ASSUME WorkLogInv, NEW u \in User, NEW r \in logs, DeleteWorkLog(u, r)
    PROVE  WorkLogInv'
<1> DEFINE counted == r.source = "tracker" /\ sent[u][r.period] # Mixed
<1>1. /\ logs' = logs \ {r} /\ r.source # "closing" /\ r.user = u
      /\ seen' = [x \in DOMAIN seen |-> seen[x] \ {r.id}]
      /\ UNCHANGED <<tasks, members, inbox, inflight>>
      /\ sent' = IF counted THEN [sent EXCEPT ![u][r.period].rows = @ \ {TotalOf(r)}] ELSE sent
  BY DEF DeleteWorkLog, MayChange, Unsee, TotalOf
<1>2. r.source = "tracker" => r.period \in PeriodStart
  BY DEF WorkLogInv, LogRows
<1>3. \A v, p : TrackerPeriod(v, p)' = TrackerPeriod(v, p) \ {r}
  BY <1>1 DEF TrackerPeriod
<1>4. LogRows'
  BY <1>1 DEF WorkLogInv, LogRows
<1>5. TaskRows' /\ InboxRows' /\ DeliveryRows'
  BY <1>1 DEF WorkLogInv, TaskRows, InboxRows, InboxRow, DeliveryRows
<1>6. SeenRows'
  BY <1>1 DEF WorkLogInv, SeenRows
<1>7. OldRowsStand'
  BY <1>1, <1>3 DEF WorkLogInv, OldRowsStand
<1>a. ASSUME counted
      PROVE  /\ sent' = [v \in User |-> sent'[v]]
             /\ \A v \in User : sent'[v] = [p \in PeriodStart |-> sent'[v][p]]
             /\ \A v \in User, p \in PeriodStart : v # u \/ p # r.period => sent'[v][p] = sent[v][p]
             /\ sent'[u][r.period] = [sent[u][r.period] EXCEPT !.rows = @ \ {TotalOf(r)}]
  <2>1. sent' = [sent EXCEPT ![u][r.period].rows = @ \ {TotalOf(r)}]
    BY <1>1, <1>a
  <2>2. /\ sent = [v \in User |-> sent[v]] /\ r.period \in PeriodStart
        /\ \A v \in User : sent[v] = [p \in PeriodStart |-> sent[v][p]]
    BY <1>2, <1>a DEF WorkLogInv, SentRows
  <2> QED
    BY <2>1, <2>2
<1>8. ASSUME NEW v \in User, NEW p \in PeriodStart, v # u \/ p # r.period \/ ~counted
      PROVE  sent'[v][p] = sent[v][p]
  BY <1>1, <1>8, <1>a
<1>9. ASSUME counted
      PROVE  sent'[u][r.period] = [last |-> sent[u][r.period].last, rows |-> sent[u][r.period].rows \ {TotalOf(r)}]
  <2>1. sent[u][r.period] = [last |-> sent[u][r.period].last, rows |-> sent[u][r.period].rows]
    BY <1>2, <1>9 DEF WorkLogInv, SentRows
  <2> QED
    BY <1>9, <1>a, <2>1
<1>10. /\ sent' = [v \in User |-> sent'[v]]
       /\ \A v \in User : sent'[v] = [p \in PeriodStart |-> sent'[v][p]]
  BY <1>1, <1>a DEF WorkLogInv, SentRows
<1>11. SentRows'
  <2>1. ASSUME NEW v \in User, NEW p \in PeriodStart, sent'[v][p] # Mixed
        PROVE  sent'[v][p] = [last |-> sent'[v][p].last, rows |-> sent'[v][p].rows]
    <3>1. CASE v # u \/ p # r.period \/ ~counted
      BY <1>8, <2>1, <3>1 DEF WorkLogInv, SentRows
    <3>2. CASE v = u /\ p = r.period /\ counted
      BY <1>9, <3>2
    <3> QED
      BY <3>1, <3>2
  <2> QED
    BY <1>10, <2>1 DEF SentRows
<1>12. ASSUME NEW v \in User, NEW p \in PeriodStart PROVE PeriodHolds(v, p)'
  <2> DEFINE T == TrackerPeriod(v, p)
  <2>1. sent[v][p] # Mixed =>
           /\ \A x \in T : TotalOf(x) \in sent[v][p].rows
           /\ \A e \in sent[v][p].rows : \E x \in T : TotalOf(x) = e
           /\ \A x, y \in T : TotalOf(x) = TotalOf(y) => x = y
           /\ \A x \in logs : x.user = v /\ x.source = "closing" => x.day \notin p..sent[v][p].last
    BY DEF WorkLogInv, PeriodsHold, PeriodHolds
  <2>2. T' = T \ {r} /\ (r \in T <=> v = u /\ r.source = "tracker" /\ p = r.period)
    BY <1>1, <1>3 DEF TrackerPeriod
  <2> SUFFICES ASSUME sent'[v][p] # Mixed
               PROVE  /\ \A x \in T' : TotalOf(x) \in sent'[v][p].rows
                      /\ \A e \in sent'[v][p].rows : \E x \in T' : TotalOf(x) = e
                      /\ \A x, y \in T' : TotalOf(x) = TotalOf(y) => x = y
                      /\ \A x \in logs' : x.user = v /\ x.source = "closing" => x.day \notin p..sent'[v][p].last
    BY DEF PeriodHolds, TotalOf
  <2> HIDE DEF T
  <2>3. CASE v # u \/ p # r.period \/ ~counted
    <3>1. sent'[v][p] = sent[v][p]
      BY <1>8, <2>3
    <3>2. r \notin T
      BY <2>2, <2>3, <3>1
    <3> QED
      BY <1>1, <2>1, <2>2, <3>1, <3>2
  <2>4. CASE v = u /\ p = r.period /\ counted
    <3>1. /\ sent[v][p] # Mixed /\ r \in T
          /\ sent'[v][p].rows = sent[v][p].rows \ {TotalOf(r)} /\ sent'[v][p].last = sent[v][p].last
      BY <1>9, <2>2, <2>4
    <3> QED
      BY <1>1, <2>1, <2>2, <3>1
  <2> QED
    BY <2>3, <2>4
<1> QED
  BY <1>4, <1>5, <1>6, <1>7, <1>11, <1>12 DEF WorkLogInv, PeriodsHold

------------------------------------------------------------------------------
(* Deliveries.                                                              *)

LEMMA FailDeliveryKeeps ==
    ASSUME WorkLogInv, NEW s \in Slot, FailDelivery(s)
    PROVE  WorkLogInv'
<1> USE DEF FailDelivery
<1>1. TaskRows' /\ LogRows' /\ SeenRows' /\ InboxRows' /\ SentRows'
  BY DEF WorkLogInv, TaskRows, LogRows, SeenRows, InboxRows, InboxRow, SentRows
<1>2. /\ inflight' = [x \in Slot |-> inflight'[x]]
      /\ \A x \in Slot : inflight'[x] # Idle => inflight'[x] = inflight[x]
  BY DEF WorkLogInv, DeliveryRows
<1>3. DeliveryRows'
  BY <1>2 DEF WorkLogInv, DeliveryRows
<1>4. OldRowsStand'
  BY <1>2 DEF WorkLogInv, OldRowsStand, TrackerPeriod
<1>5. PeriodsHold'
  BY DEF WorkLogInv, PeriodsHold, PeriodHolds, TrackerPeriod
<1> QED
  BY <1>1, <1>3, <1>4, <1>5 DEF WorkLogInv

\* What a delivery has to bring along when it has read.
LEMMA BeginKeeps ==
    ASSUME WorkLogInv, NEW s \in Slot, NEW w, inflight' = [inflight EXCEPT ![s] = w],
           UNCHANGED <<tasks, members, logs, seen, inbox, sent>>,
           DeliveryShape(w), w.user \in User, w.first \in PeriodStart, w.overtaken = FALSE, IsFiniteSet(w.rows),
           \A e \in w.rows : TotalShape(e) /\ e.task \in DOMAIN tasks,
           w.old = {r.id : r \in TrackerPeriod(w.user, w.first)}
    PROVE  WorkLogInv'
<1>1. TaskRows' /\ LogRows' /\ SeenRows' /\ InboxRows' /\ SentRows'
  BY DEF WorkLogInv, TaskRows, LogRows, SeenRows, InboxRows, InboxRow, SentRows
<1>2. /\ inflight' = [x \in Slot |-> inflight'[x]]
      /\ \A x \in Slot : inflight'[x] = IF x = s THEN w ELSE inflight[x]
  BY DEF WorkLogInv, DeliveryRows
<1>3. DeliveryRows'
  BY <1>2 DEF WorkLogInv, DeliveryRows
<1>4. \A r \in logs : r.id \in w.old => r \in TrackerPeriod(w.user, w.first)
  BY DEF WorkLogInv, LogRows, TrackerPeriod
<1>5. \A v, p : TrackerPeriod(v, p)' = TrackerPeriod(v, p)
  BY DEF TrackerPeriod
<1>6. OldRowsStand'
  <2>1. ASSUME NEW x \in Slot, inflight'[x] # Idle
        PROVE  /\ \A r \in logs : r.id \in inflight'[x].old
                      => r \in TrackerPeriod(inflight'[x].user, inflight'[x].first)
               /\ ~inflight'[x].overtaken
                      => \A r \in TrackerPeriod(inflight'[x].user, inflight'[x].first) : r.id \in inflight'[x].old
    <3>1. CASE x = s
      BY <1>2, <1>4, <3>1
    <3>2. CASE x # s
      BY <1>2, <2>1, <3>2 DEF WorkLogInv, OldRowsStand
    <3> QED
      BY <3>1, <3>2
  <2> QED
    BY <1>5, <2>1 DEF OldRowsStand
<1>7. PeriodsHold'
  BY <1>5 DEF WorkLogInv, PeriodsHold, PeriodHolds
<1> QED
  BY <1>1, <1>3, <1>6, <1>7 DEF WorkLogInv

LEMMA BeginReplaceKeeps ==
    ASSUME WorkLogInv, NEW s \in Slot, NEW u \in TrackerUser, NEW d \in Delivery, BeginReplace(s, u, d)
    PROVE  WorkLogInv'
<1> DEFINE rows == {e \in Totals(d.entries) : e.seconds > 0 /\ Exists(e.task)}
           w == [op |-> "replace", user |-> u, first |-> d.first, last |-> d.last, rows |-> rows,
                 old |-> {r.id : r \in TrackerPeriod(u, d.first)}, overtaken |-> FALSE]
<1>1. /\ inflight' = [inflight EXCEPT ![s] = w]
      /\ UNCHANGED <<tasks, members, logs, seen, inbox, sent>>
  BY DEF BeginReplace
<1>2. IsFiniteSet(Totals(d.entries)) /\ \A e \in Totals(d.entries) : TotalShape(e)
  BY TotalsAreRows, WorkLogAssumption
<1>3. IsFiniteSet(rows)
  <2>1. rows \in SUBSET Totals(d.entries)
    OBVIOUS
  <2> QED
    BY <1>2, <2>1, FS_Subset
<1>4. \A e \in rows : TotalShape(e) /\ e.task \in DOMAIN tasks
  BY <1>2 DEF Exists
<1>5. u \in User /\ d.first \in PeriodStart
  BY WorkLogAssumption DEF PeriodStart
<1> HIDE DEF rows
<1>6. /\ DeliveryShape(w) /\ w.user = u /\ w.first = d.first /\ w.overtaken = FALSE /\ w.rows = rows
      /\ w.old = {r.id : r \in TrackerPeriod(u, d.first)}
  BY DEF DeliveryShape
<1> HIDE DEF w
<1> QED
  BY <1>1, <1>3, <1>4, <1>5, <1>6, BeginKeeps

LEMMA BeginRemoveKeeps ==
    ASSUME WorkLogInv, NEW s \in Slot, NEW u \in TrackerUser, NEW p \in PeriodStart, BeginRemove(s, u, p)
    PROVE  WorkLogInv'
<1> DEFINE w == [op |-> "remove", user |-> u, first |-> p, last |-> 0, rows |-> {},
                 old |-> {r.id : r \in TrackerPeriod(u, p)}, overtaken |-> FALSE]
<1>1. /\ inflight' = [inflight EXCEPT ![s] = w]
      /\ UNCHANGED <<tasks, members, logs, seen, inbox, sent>>
  BY DEF BeginRemove
<1>2. u \in User /\ IsFiniteSet({})
  BY WorkLogAssumption, FS_EmptySet
<1>3. /\ DeliveryShape(w) /\ w.user = u /\ w.first = p /\ w.overtaken = FALSE /\ w.rows = {}
      /\ w.old = {r.id : r \in TrackerPeriod(u, p)}
  BY DEF DeliveryShape
<1> HIDE DEF w
<1> QED
  BY <1>1, <1>2, <1>3, BeginKeeps

\* The rows a delivery writes: one for each total, each with an id that no
\* row has and no delivery has read.
Writes(w, N) ==
    /\ \A x \in N : /\ RowShape(x) /\ x.id \in FreeIds /\ x.user = w.user /\ x.task \in DOMAIN tasks
                     /\ x.source = "tracker" /\ x.period = w.first /\ TotalOf(x) \in w.rows
                     /\ x.hours = HoursOf(x.seconds)
    /\ \A x, y \in N : x.id = y.id \/ TotalOf(x) = TotalOf(y) => x = y
    /\ \A e \in w.rows : \E x \in N : TotalOf(x) = e

LEMMA OneRowEach ==
    ASSUME WorkLogInv, NEW s \in Slot, inflight[s] # Idle,
           NEW N, N = {TrackerRow(inflight[s], SetToSeq(inflight[s].rows)[i], SetToSeq(FreeIds)[i]) :
                          i \in DOMAIN SetToSeq(inflight[s].rows)},
           Len(SetToSeq(inflight[s].rows)) <= Len(SetToSeq(FreeIds))
    PROVE  Writes(inflight[s], N)
<1> DEFINE w   == inflight[s]
           new == SetToSeq(w.rows)
           ids == SetToSeq(FreeIds)
           n   == Cardinality(w.rows)
           m   == Cardinality(FreeIds)
           row(i) == TrackerRow(w, new[i], ids[i])
<1>1. IsFiniteSet(w.rows) /\ \A e \in w.rows : TotalShape(e) /\ e.task \in DOMAIN tasks
  BY DEF WorkLogInv, DeliveryRows
<1>2. IsFiniteSet(FreeIds)
  <2>1. FreeIds \in SUBSET LogIds
    BY DEF FreeIds
  <2> QED
    BY <2>1, WorkLogAssumption, FS_Subset
<1>3. /\ n \in Nat /\ new \in [1..n -> w.rows] /\ Len(new) = n
      /\ \A i, j \in 1..n : new[i] = new[j] => i = j
      /\ \A e \in w.rows : \E i \in 1..n : new[i] = e
  BY <1>1, SetInARow
<1>4. /\ m \in Nat /\ ids \in [1..m -> FreeIds] /\ Len(ids) = m
      /\ \A i, j \in 1..m : ids[i] = ids[j] => i = j
  BY <1>2, SetInARow
<1>5. n <= m /\ N = {row(i) : i \in 1..n}
  BY <1>3, <1>4
<1> HIDE DEF new, ids, n, m
<1>6. ASSUME NEW i \in 1..n
      PROVE  /\ new[i] \in w.rows /\ ids[i] \in FreeIds /\ RowShape(row(i)) /\ row(i).id = ids[i] /\ row(i).user = w.user
             /\ row(i).task = new[i].task /\ row(i).source = "tracker" /\ row(i).period = w.first
             /\ TotalOf(row(i)) = new[i] /\ row(i).hours = HoursOf(row(i).seconds)
  <2>1. i \in 1..m /\ new[i] \in w.rows /\ ids[i] \in FreeIds
    BY <1>3, <1>4, <1>5
  <2>2. new[i] = [task |-> new[i].task, day |-> new[i].day, seconds |-> new[i].seconds]
    BY <1>1, <2>1 DEF TotalShape
  <2>3. TotalOf(row(i)) = [task |-> new[i].task, day |-> new[i].day, seconds |-> new[i].seconds]
    BY DEF TotalOf, TrackerRow
  <2> QED
    BY <2>1, <2>2, <2>3 DEF TrackerRow, RowShape
<1> HIDE DEF row
<1>7. ASSUME NEW i \in 1..n, NEW j \in 1..n, row(i).id = row(j).id \/ TotalOf(row(i)) = TotalOf(row(j))
      PROVE  i = j
  <2>1. i \in 1..m /\ j \in 1..m
    BY <1>3, <1>4, <1>5
  <2>2. /\ row(i).id = ids[i] /\ TotalOf(row(i)) = new[i]
        /\ row(j).id = ids[j] /\ TotalOf(row(j)) = new[j]
    BY <1>6
  <2>3. ids[i] = ids[j] \/ new[i] = new[j]
    BY <1>7, <2>2
  <2> QED
    BY <1>3, <1>4, <2>1, <2>3
<1>8. ASSUME NEW x \in N
      PROVE  /\ RowShape(x) /\ x.id \in FreeIds /\ x.user = w.user /\ x.task \in DOMAIN tasks
             /\ x.source = "tracker" /\ x.period = w.first /\ TotalOf(x) \in w.rows
             /\ x.hours = HoursOf(x.seconds)
  <2>1. PICK i \in 1..n : x = row(i)
    BY <1>5
  <2> QED
    BY <1>1, <1>6, <2>1
<1>9. ASSUME NEW x \in N, NEW y \in N, x.id = y.id \/ TotalOf(x) = TotalOf(y) PROVE x = y
  <2>1. PICK i \in 1..n : x = row(i)
    BY <1>5
  <2>2. PICK j \in 1..n : y = row(j)
    BY <1>5
  <2> QED
    BY <1>7, <1>9, <2>1, <2>2
<1>10. ASSUME NEW e \in w.rows PROVE \E x \in N : TotalOf(x) = e
  <2>1. PICK i \in 1..n : new[i] = e
    BY <1>3
  <2>2. row(i) \in N /\ TotalOf(row(i)) = e
    BY <1>5, <1>6, <2>1
  <2> QED
    BY <2>2
<1> QED
  BY <1>8, <1>9, <1>10 DEF Writes

\* A delivery that is overtaken keeps all it has read.
LEMMA MarkedShape ==
    ASSUME NEW w, DeliveryShape(w), NEW mark, NEW v, v = [w EXCEPT !.overtaken = mark]
    PROVE  /\ DeliveryShape(v) /\ v.overtaken = mark /\ v.user = w.user /\ v.first = w.first
           /\ v.rows = w.rows /\ v.old = w.old
<1>1. PICK o, u, f, l, q, a, b :
         w = [op |-> o, user |-> u, first |-> f, last |-> l, rows |-> q, old |-> a, overtaken |-> b]
  BY DEF DeliveryShape
<1>2. v = [op |-> o, user |-> u, first |-> f, last |-> l, rows |-> q, old |-> a, overtaken |-> mark]
  BY <1>1
<1> QED
  BY <1>1, <1>2 DEF DeliveryShape

LEMMA FinishDeliveryKeeps ==
    ASSUME WorkLogInv, NEW s \in Slot, FinishDelivery(s)
    PROVE  WorkLogInv'
<1> SUFFICES ASSUME NEW w, w = inflight[s] PROVE WorkLogInv'
  OBVIOUS
<1> DEFINE keep == {r \in logs : r.id \notin Removed(w)}
           N == {TrackerRow(w, SetToSeq(w.rows)[i], SetToSeq(FreeIds)[i]) : i \in DOMAIN SetToSeq(w.rows)}
<1>1. /\ w # Idle /\ logs' = keep \cup N
      /\ seen' = [x \in DOMAIN seen |-> seen[x] \ Removed(w)]
      /\ sent' = [sent EXCEPT ![w.user][w.first] = IF w.overtaken THEN Mixed ELSE [last |-> w.last, rows |-> w.rows]]
      /\ inflight' = [x \in Slot |->
             IF x = s THEN Idle
             ELSE IF inflight[x] # Idle /\ inflight[x].user = w.user /\ inflight[x].first = w.first
             THEN [inflight[x] EXCEPT !.overtaken = TRUE] ELSE inflight[x]]
      /\ UNCHANGED <<tasks, members, inbox>>
  BY DEF FinishDelivery, Unsee
<1>2. Writes(w, N)
  <2>1. Len(SetToSeq(w.rows)) <= Len(SetToSeq(FreeIds))
    BY DEF FinishDelivery
  <2> QED
    BY <1>1, <2>1, OneRowEach
<1>3. w.user \in User /\ w.first \in PeriodStart /\ w.overtaken \in BOOLEAN
  BY <1>1 DEF WorkLogInv, DeliveryRows
<1> HIDE DEF N, keep
<1>4. /\ keep \subseteq logs
      /\ \A r \in logs : r.id \notin Removed(w) => r \in keep
      /\ \A r \in keep : r.id \notin Removed(w)
  BY DEF keep
<1>5. \A id \in FreeIds : /\ id \in LogIds /\ \A r \in logs : r.id # id
                         /\ \A x \in Slot : inflight[x] # Idle => id \notin inflight[x].old
  BY DEF FreeIds
\* Only rows of the period and closings of its days go.
<1>6. \A r \in logs : r.id \in Removed(w) =>
          \/ r \in TrackerPeriod(w.user, w.first)
          \/ r.user = w.user /\ r.source = "closing" /\ r.day \in w.first..w.last
  BY <1>1 DEF Removed, WorkLogInv, OldRowsStand, LogRows
\* All of them go, unless another delivery was faster.
<1>7. ~w.overtaken => \A r \in keep : r \notin TrackerPeriod(w.user, w.first)
  BY <1>1, <1>4 DEF Removed, WorkLogInv, OldRowsStand
<1>8. \A r \in keep : ~(r.user = w.user /\ r.source = "closing" /\ r.day \in w.first..w.last)
  BY <1>4 DEF Removed
<1>9. \A v, p : v # w.user \/ p # w.first => TrackerPeriod(v, p)' = TrackerPeriod(v, p)
  BY <1>1, <1>2, <1>4, <1>6 DEF TrackerPeriod, Writes
<1>10. ~w.overtaken => TrackerPeriod(w.user, w.first)' = N
  <2>1. {r \in keep \cup N : r.user = w.user /\ r.source = "tracker" /\ r.period = w.first}
          = {r \in keep : r \in TrackerPeriod(w.user, w.first)} \cup N
    BY <1>2, <1>4 DEF TrackerPeriod, Writes
  <2>2. ASSUME ~w.overtaken
        PROVE  {r \in logs' : r.user = w.user /\ r.source = "tracker" /\ r.period = w.first} = N
    BY <1>1, <1>7, <2>1, <2>2
  <2> QED
    BY <2>2 DEF TrackerPeriod
<1>11. LogRows'
  <2>1. ASSUME NEW r \in logs'
        PROVE  /\ RowShape(r) /\ r.id \in LogIds /\ r.user \in User /\ r.task \in DOMAIN tasks
               /\ r.source = "tracker" => r.period \in PeriodStart
    BY <1>1, <1>2, <1>3, <1>4, <1>5 DEF WorkLogInv, LogRows, Writes
  <2>2. ASSUME NEW r \in logs', NEW x \in logs', x.id = r.id PROVE x = r
    BY <1>1, <1>2, <1>4, <1>5, <2>2 DEF WorkLogInv, LogRows, Writes
  <2> QED
    BY <1>1, <2>1, <2>2 DEF LogRows, RowShape
<1>12. TaskRows' /\ InboxRows'
  BY <1>1 DEF WorkLogInv, TaskRows, InboxRows, InboxRow
<1>13. SeenRows'
  BY <1>1, <1>4 DEF WorkLogInv, SeenRows
<1>14. ASSUME NEW x \in Slot, inflight'[x] # Idle
       PROVE  /\ inflight[x] # Idle /\ DeliveryShape(inflight'[x]) /\ inflight'[x].overtaken \in BOOLEAN
              /\ inflight'[x].user = inflight[x].user /\ inflight'[x].first = inflight[x].first
              /\ inflight'[x].rows = inflight[x].rows /\ inflight'[x].old = inflight[x].old
              /\ ~inflight'[x].overtaken =>
                    ~inflight[x].overtaken /\ (inflight[x].user # w.user \/ inflight[x].first # w.first)
  <2>1. inflight[x] # Idle
    BY <1>1, <1>14
  <2>2. DeliveryShape(inflight[x]) /\ inflight[x].overtaken \in BOOLEAN
    BY <2>1 DEF WorkLogInv, DeliveryRows
  <2>3. CASE inflight[x].user = w.user /\ inflight[x].first = w.first
    <3>1. inflight'[x] = [inflight[x] EXCEPT !.overtaken = TRUE]
      BY <1>1, <1>14, <2>1, <2>3
    <3> QED
      BY <2>1, <2>2, <3>1, MarkedShape
  <2>4. CASE inflight[x].user # w.user \/ inflight[x].first # w.first
    <3>1. inflight'[x] = inflight[x]
      BY <1>1, <1>14, <2>4
    <3> QED
      BY <2>1, <2>2, <2>4, <3>1
  <2> QED
    BY <2>3, <2>4
<1>15. DeliveryRows'
  <2>1. inflight' = [x \in Slot |-> inflight'[x]]
    BY <1>1
  <2>2. ASSUME NEW x \in Slot, inflight'[x] # Idle
        PROVE  /\ inflight'[x].user \in User /\ inflight'[x].first \in PeriodStart /\ IsFiniteSet(inflight'[x].rows)
               /\ \A e \in inflight'[x].rows : TotalShape(e) /\ e.task \in DOMAIN tasks'
    BY <1>1, <1>14, <2>2 DEF WorkLogInv, DeliveryRows
  <2> QED
    BY <1>14, <2>1, <2>2 DEF DeliveryRows
<1>16. OldRowsStand'
  <2>1. ASSUME NEW x \in Slot, inflight'[x] # Idle, NEW r \in logs', r.id \in inflight'[x].old
        PROVE  r.user = inflight'[x].user /\ r.source = "tracker" /\ r.period = inflight'[x].first
    <3>1. r \in logs
      BY <1>1, <1>2, <1>4, <1>5, <1>14, <2>1 DEF Writes
    <3> QED
      BY <1>14, <2>1, <3>1 DEF WorkLogInv, OldRowsStand, TrackerPeriod
  <2>2. ASSUME NEW x \in Slot, inflight'[x] # Idle, ~inflight'[x].overtaken, NEW r \in logs',
               r.user = inflight'[x].user, r.source = "tracker", r.period = inflight'[x].first
        PROVE  r.id \in inflight'[x].old
    <3>1. r \in logs
      BY <1>1, <1>2, <1>4, <1>14, <2>2 DEF Writes
    <3> QED
      BY <1>14, <2>2, <3>1 DEF WorkLogInv, OldRowsStand, TrackerPeriod
  <2> QED
    BY <2>1, <2>2 DEF OldRowsStand, TrackerPeriod
<1> DEFINE written == IF w.overtaken THEN Mixed ELSE [last |-> w.last, rows |-> w.rows]
<1>17. /\ sent' = [v \in User |-> sent'[v]]
       /\ \A v \in User : sent'[v] = [p \in PeriodStart |-> sent'[v][p]]
       /\ \A v \in User, p \in PeriodStart : v # w.user \/ p # w.first => sent'[v][p] = sent[v][p]
       /\ sent'[w.user][w.first] = written
  <2>1. /\ sent = [v \in User |-> sent[v]]
        /\ \A v \in User : sent[v] = [p \in PeriodStart |-> sent[v][p]]
    BY DEF WorkLogInv, SentRows
  <2>2. sent' = [sent EXCEPT ![w.user][w.first] = written]
    BY <1>1
  <2> HIDE DEF written
  <2> QED
    BY <1>3, <2>1, <2>2
<1>18. SentRows'
  <2>1. ASSUME NEW v \in User, NEW p \in PeriodStart, sent'[v][p] # Mixed
        PROVE  sent'[v][p] = [last |-> sent'[v][p].last, rows |-> sent'[v][p].rows]
    <3>1. CASE v # w.user \/ p # w.first
      BY <1>17, <2>1, <3>1 DEF WorkLogInv, SentRows
    <3>2. CASE v = w.user /\ p = w.first
      BY <1>17, <2>1, <3>2
    <3> QED
      BY <3>1, <3>2
  <2> QED
    BY <1>17, <2>1 DEF SentRows
<1>19. ASSUME NEW v \in User, NEW p \in PeriodStart PROVE PeriodHolds(v, p)'
  <2>1. \A r \in logs' : r.source = "closing" => r \in keep /\ r \in logs
    BY <1>1, <1>2, <1>4 DEF Writes
  <2>2. CASE v # w.user \/ p # w.first
    <3>1. sent'[v][p] = sent[v][p] /\ TrackerPeriod(v, p)' = TrackerPeriod(v, p)
      BY <1>9, <1>17, <2>2
    <3> QED
      BY <2>1, <3>1 DEF WorkLogInv, PeriodsHold, PeriodHolds
  <2>3. CASE v = w.user /\ p = w.first
    <3> SUFFICES ASSUME sent'[v][p] # Mixed PROVE PeriodHolds(v, p)'
      BY DEF PeriodHolds
    <3>1. ~w.overtaken /\ sent'[v][p].last = w.last /\ sent'[v][p].rows = w.rows
      BY <1>17, <2>3
    <3>2. TrackerPeriod(v, p)' = N
      BY <1>10, <2>3, <3>1
    <3>3. \A r \in logs' : r.user = v /\ r.source = "closing" => r.day \notin p..w.last
      BY <1>8, <2>1, <2>3
    <3> QED
      BY <1>2, <3>1, <3>2, <3>3 DEF PeriodHolds, Writes, TotalOf
  <2> QED
    BY <2>2, <2>3
<1> QED
  BY <1>11, <1>12, <1>13, <1>15, <1>16, <1>18, <1>19 DEF WorkLogInv, PeriodsHold

------------------------------------------------------------------------------
(* The theorems.                                                            *)

LEMMA StepKeeps == WorkLogInv /\ [WorkLogNext]_logVars => WorkLogInv'
<1> SUFFICES ASSUME WorkLogInv, [WorkLogNext]_logVars PROVE WorkLogInv'
  OBVIOUS
<1>1. ASSUME NEW u \in User, HandStep(u) PROVE WorkLogInv'
  BY <1>1, CreateWorkLogKeeps, DeleteWorkLogKeeps, UpdateWorkLogKeeps, DeleteTaskKeeps, ArchiveTaskKeeps,
     UpdateTaskKeeps, InboxStepKeeps, ConvertToTaskKeeps, CreateSubtaskKeeps, ChangeTeamKeeps DEF HandStep
<1>2. ASSUME NEW s \in Slot, DeliveryStep(s) PROVE WorkLogInv'
  BY <1>2, BeginReplaceKeeps, BeginRemoveKeeps, FinishDeliveryKeeps, FailDeliveryKeeps DEF DeliveryStep
<1>3. CASE UNCHANGED logVars
  <2>1. UNCHANGED <<tasks, members, logs, seen, inbox, inflight, sent>>
    BY <1>3 DEF logVars
  <2>2. TaskRows' /\ SeenRows'
    BY <2>1 DEF WorkLogInv, TaskRows, SeenRows
  <2> QED
    BY <2>1, <2>2, RowsAlone, InboxAlone DEF WorkLogInv
<1> QED
  BY <1>1, <1>2, <1>3 DEF WorkLogNext

LEMMA InvAlways == WorkLogSpec => []WorkLogInv
<1> QED
  BY InitHolds, StepKeeps, PTL DEF WorkLogSpec

------------------------------------------------------------------------------
(* Lengths are numbers, and what is in flight is a delivery.                *)

Lengths ==
    /\ \A r \in logs : /\ r.hours \in Int /\ r.seconds \in Nat \cup {NoSeconds}
                       /\ r.source = "tracker" => r.seconds \in Nat
    /\ \A s \in Slot : inflight[s] # Idle =>
          inflight[s] \in InFlight /\ \A e \in inflight[s].rows : e.seconds \in Nat

\* The entries of a delivery that is valid add up to no less than nothing.
LEMMA TotalsAreNumbers ==
    ASSUME NEW d \in Delivery, Valid(d)
    PROVE  \A e \in Totals(d.entries) : e.seconds \in Nat
<1> DEFINE D == DOMAIN d.entries
           f == [i \in D |-> d.entries[i].seconds]
           same(t, b) == {i \in D : d.entries[i].task = t /\ d.entries[i].day = b}
<1>1. IsFiniteSet(D) /\ \A i \in D : f[i] \in Nat
  BY WorkLogAssumption DEF Valid
<1>2. ASSUME NEW t, NEW b PROVE SecondsSent(d.entries, t, b) \in Nat
  <2>1. SecondsSent(d.entries, t, b) = SumFunctionOnSet(f, same(t, b))
    BY DEF SecondsSent
  <2>2. same(t, b) \in SUBSET D
    OBVIOUS
  <2> HIDE DEF f, same, D
  <2>3. IsFiniteSet(same(t, b)) /\ \A i \in same(t, b) : f[i] \in Nat
    BY <1>1, <2>2, FS_Subset
  <2> QED
    BY <2>1, <2>3, SumBounds
<1>3. ASSUME NEW e \in Totals(d.entries) PROVE e.seconds \in Nat
  <2>1. PICK i \in D : e = [task |-> d.entries[i].task, day |-> d.entries[i].day,
                            seconds |-> SecondsSent(d.entries, d.entries[i].task, d.entries[i].day)]
    BY DEF Totals
  <2> QED
    BY <1>2, <2>1
<1> QED
  BY <1>3

LEMMA HoursAreNumbers ==
    ASSUME NEW n \in Nat
    PROVE  HoursOf(n) \in Nat
BY DEF HoursOf

\* What a step by hand has to show.
LEMMA LengthsByHand ==
    ASSUME Lengths, inflight' = inflight,
           \A r \in logs' : r \in logs \/ ( /\ r.hours \in Int /\ r.seconds \in Nat \cup {NoSeconds}
                                            /\ r.source = "tracker" => r.seconds \in Nat )
    PROVE  Lengths'
BY DEF Lengths

LEMMA UpdateKeepsLengths ==
    ASSUME WorkLogInv, Lengths, NEW u \in User, NEW r \in logs, NEW d, NEW h \in Hours, UpdateWorkLog(u, r, d, h)
    PROVE  Lengths'
<1> DEFINE new == [r EXCEPT !.day = d, !.hours = h]
<1>1. logs' = (logs \ {r}) \cup {new} /\ inflight' = inflight
  BY DEF UpdateWorkLog
<1>2. RowShape(r)
  BY DEF WorkLogInv, LogRows
<1>3. new.hours = h /\ new.seconds = r.seconds /\ new.source = r.source
  <2>1. PICK a, v, t, b, o, c, n, f, p :
           r = [id |-> a, user |-> v, task |-> t, day |-> b, origin |-> o, hours |-> c,
                seconds |-> n, source |-> f, period |-> p]
    BY <1>2 DEF RowShape
  <2> QED
    BY <2>1
<1>4. h \in Int
  BY WorkLogAssumption
<1>5. r.seconds \in Nat \cup {NoSeconds} /\ (r.source = "tracker" => r.seconds \in Nat)
  BY DEF Lengths
<1> HIDE DEF new
<1> QED
  BY <1>1, <1>3, <1>4, <1>5, LengthsByHand

LEMMA CreateKeepsLengths ==
    ASSUME Lengths, NEW u, NEW t, NEW d, NEW h \in Hours, CreateWorkLog(u, t, d, h)
    PROVE  Lengths'
<1> DEFINE new == [id |-> Min(FreeIds), user |-> u, task |-> t, day |-> d, origin |-> d, hours |-> h,
                   seconds |-> NoSeconds, source |-> "manual", period |-> 0]
<1>1. logs' = logs \cup {new} /\ inflight' = inflight
  BY DEF CreateWorkLog
<1>2. new.hours \in Int /\ new.seconds = NoSeconds /\ new.source # "tracker"
  BY WorkLogAssumption
<1> HIDE DEF new
<1> QED
  BY <1>1, <1>2, LengthsByHand

LEMMA HandKeepsLengths ==
    ASSUME WorkLogInv, Lengths, NEW u \in User, HandStep(u)
    PROVE  Lengths'
<1>1. ASSUME NEW t \in Task, NEW d \in Day, NEW h \in Hours, CreateWorkLog(u, t, d, h) PROVE Lengths'
  BY <1>1, CreateKeepsLengths
<1>2. ASSUME NEW r \in logs, DeleteWorkLog(u, r) PROVE Lengths'
  <2>1. logs' \subseteq logs /\ inflight' = inflight
    BY <1>2 DEF DeleteWorkLog
  <2> QED
    BY <2>1, LengthsByHand
<1>3. ASSUME NEW r \in logs, NEW d \in Day, NEW h \in Hours, UpdateWorkLog(u, r, d, h) PROVE Lengths'
  BY <1>3, UpdateKeepsLengths
<1>4. ASSUME logs' = logs, inflight' = inflight PROVE Lengths'
  BY <1>4, LengthsByHand
<1>5. ASSUME NEW t \in Task,
             \/ CreateSubtask(u, t) \/ DeleteTask(u, t) \/ ArchiveTask(u, t)
             \/ \E s \in Status, h \in Remaining \cup {Keep} : UpdateTask(u, t, s, h)
      PROVE  Lengths'
  BY <1>4, <1>5 DEF CreateSubtask, DeleteTask, ArchiveTask, UpdateTask
<1>6. ASSUME NEW i \in Item, CreateItem(u, i) \/ DeleteItem(u, i) \/ ConvertToTask(u, i) PROVE Lengths'
  BY <1>4, <1>6 DEF CreateItem, DeleteItem, ConvertToTask
<1>7. ASSUME ChangeTeam(u) PROVE Lengths'
  BY <1>4, <1>7 DEF ChangeTeam
<1> QED
  BY <1>1, <1>2, <1>3, <1>5, <1>6, <1>7 DEF HandStep

LEMMA BeginKeepsLengths ==
    ASSUME WorkLogInv, Lengths, NEW s \in Slot, NEW w \in InFlight, inflight' = [inflight EXCEPT ![s] = w],
           logs' = logs, \A e \in w.rows : e.seconds \in Nat
    PROVE  Lengths'
<1>1. \A x \in Slot : inflight'[x] = IF x = s THEN w ELSE inflight[x]
  BY DEF WorkLogInv, DeliveryRows
<1> QED
  BY <1>1 DEF Lengths

LEMMA OldIsOfRows ==
    ASSUME WorkLogInv, NEW u, NEW p
    PROVE  {r.id : r \in TrackerPeriod(u, p)} \in SUBSET LogIds
BY DEF WorkLogInv, LogRows, TrackerPeriod

LEMMA DeliveryKeepsLengths ==
    ASSUME WorkLogInv, Lengths, NEW s \in Slot, DeliveryStep(s)
    PROVE  Lengths'
<1>1. ASSUME NEW u \in TrackerUser, NEW d \in Delivery, BeginReplace(s, u, d) PROVE Lengths'
  <2> DEFINE rows == {e \in Totals(d.entries) : e.seconds > 0 /\ Exists(e.task)}
             old == {r.id : r \in TrackerPeriod(u, d.first)}
             w == [op |-> "replace", user |-> u, first |-> d.first, last |-> d.last, rows |-> rows,
                   old |-> old, overtaken |-> FALSE]
  <2>1. inflight' = [inflight EXCEPT ![s] = w] /\ logs' = logs /\ Valid(d)
    BY <1>1 DEF BeginReplace
  <2>2. \A e \in rows : e.seconds \in Nat
    BY <2>1, TotalsAreNumbers
  <2>3. rows \in SUBSET UNION {Totals(x.entries) : x \in Delivery}
    OBVIOUS
  <2>4. old \in SUBSET LogIds
    BY OldIsOfRows
  <2>5. d.first \in PeriodStart
    BY DEF PeriodStart
  <2> HIDE DEF rows, old
  <2>6. w \in InFlight
    BY <2>3, <2>4, <2>5 DEF InFlight
  <2> QED
    BY <2>1, <2>2, <2>6, BeginKeepsLengths
<1>2. ASSUME NEW u \in TrackerUser, NEW p \in PeriodStart, BeginRemove(s, u, p) PROVE Lengths'
  <2> DEFINE old == {r.id : r \in TrackerPeriod(u, p)}
             w == [op |-> "remove", user |-> u, first |-> p, last |-> 0, rows |-> {}, old |-> old,
                   overtaken |-> FALSE]
  <2>1. inflight' = [inflight EXCEPT ![s] = w] /\ logs' = logs
    BY <1>2 DEF BeginRemove
  <2>2. old \in SUBSET LogIds
    BY OldIsOfRows
  <2> HIDE DEF old
  <2>3. w \in InFlight /\ \A e \in w.rows : e.seconds \in Nat
    BY <2>2 DEF InFlight
  <2> QED
    BY <2>1, <2>3, BeginKeepsLengths
<1>3. ASSUME FailDelivery(s) PROVE Lengths'
  <2>1. logs' = logs /\ \A x \in Slot : inflight'[x] # Idle => inflight'[x] = inflight[x]
    BY <1>3 DEF FailDelivery, WorkLogInv, DeliveryRows
  <2> QED
    BY <2>1 DEF Lengths
<1>4. ASSUME FinishDelivery(s) PROVE Lengths'
  <2> SUFFICES ASSUME NEW w, w = inflight[s] PROVE Lengths'
    OBVIOUS
  <2> DEFINE N == {TrackerRow(w, SetToSeq(w.rows)[i], SetToSeq(FreeIds)[i]) : i \in DOMAIN SetToSeq(w.rows)}
  <2>1. /\ w # Idle /\ logs' = {r \in logs : r.id \notin Removed(w)} \cup N
        /\ inflight' = [x \in Slot |->
               IF x = s THEN Idle
               ELSE IF inflight[x] # Idle /\ inflight[x].user = w.user /\ inflight[x].first = w.first
               THEN [inflight[x] EXCEPT !.overtaken = TRUE] ELSE inflight[x]]
        /\ Len(SetToSeq(w.rows)) <= Len(SetToSeq(FreeIds))
    BY <1>4 DEF FinishDelivery
  <2>2. Writes(w, N)
    BY <2>1, OneRowEach
  <2> HIDE DEF N
  <2>3. ASSUME NEW r \in N PROVE r.hours \in Int /\ r.seconds \in Nat
    <3>1. TotalOf(r) \in w.rows /\ r.hours = HoursOf(r.seconds)
      BY <2>2 DEF Writes
    <3>2. TotalOf(r).seconds \in Nat
      BY <2>1, <3>1 DEF Lengths
    <3>3. r.seconds \in Nat
      BY <3>2 DEF TotalOf
    <3> QED
      BY <3>1, <3>3, HoursAreNumbers
  <2>4. ASSUME NEW x \in Slot, inflight'[x] # Idle
        PROVE  inflight'[x] \in InFlight /\ \A e \in inflight'[x].rows : e.seconds \in Nat
    <3>1. inflight[x] # Idle
      BY <2>1, <2>4
    <3>2. inflight[x] \in InFlight /\ \A e \in inflight[x].rows : e.seconds \in Nat
      BY <3>1 DEF Lengths
    <3>3. inflight'[x] = inflight[x] \/ inflight'[x] = [inflight[x] EXCEPT !.overtaken = TRUE]
      BY <2>1, <2>4
    <3>4. ASSUME NEW v \in InFlight PROVE [v EXCEPT !.overtaken = TRUE] \in InFlight /\ [v EXCEPT !.overtaken = TRUE].rows = v.rows
      BY DEF InFlight
    <3> QED
      BY <3>2, <3>3, <3>4
  <2> QED
    BY <2>1, <2>3, <2>4 DEF Lengths
<1> QED
  BY <1>1, <1>2, <1>3, <1>4 DEF DeliveryStep

LEMMA LengthsAlways == WorkLogSpec => []Lengths
<1>1. WorkLogInit => Lengths
  <2> SUFFICES ASSUME WorkLogInit PROVE Lengths
    OBVIOUS
  <2>1. \A r \in logs : r.hours \in Int /\ r.seconds \in Nat
    BY DEF WorkLogInit, OwnClosing
  <2>2. \A s \in Slot : inflight[s] = Idle
    BY DEF WorkLogInit
  <2> QED
    BY <2>1, <2>2 DEF Lengths
<1>2. WorkLogInv /\ Lengths /\ [WorkLogNext]_logVars => Lengths'
  <2> SUFFICES ASSUME WorkLogInv, Lengths, [WorkLogNext]_logVars PROVE Lengths'
    OBVIOUS
  <2>1. CASE UNCHANGED logVars
    <3>1. logs' = logs /\ inflight' = inflight
      BY <2>1 DEF logVars
    <3> QED
      BY <3>1, LengthsByHand
  <2> QED
    BY <2>1, HandKeepsLengths, DeliveryKeepsLengths DEF WorkLogNext
<1> QED
  BY <1>1, <1>2, InvAlways, PTL DEF WorkLogSpec

------------------------------------------------------------------------------
(* The rows.                                                                *)

\* Every row belongs to a task that exists and to somebody, has an id of its
\* own, a task is only marked as completed while it is done, and what a task
\* is said to have seen are rows that are there; a delivery in flight is one
\* that was sent (change_status, the ids of work_logs, updated_at, replace).
THEOREM RowsAreSound == WorkLogSpec => []WorkLogTypeOK
<1>1. WorkLogInv /\ Lengths => WorkLogTypeOK
  <2> SUFFICES ASSUME WorkLogInv, Lengths PROVE WorkLogTypeOK
    OBVIOUS
  <2>1. /\ DOMAIN tasks \subseteq Task /\ members \subseteq User
        /\ \A t \in DOMAIN tasks : tasks[t].status \in Status /\ (tasks[t].completed => tasks[t].status = "DONE")
    BY DEF WorkLogInv, TaskRows, TaskRow
  <2>2. \A r \in logs : /\ r.id \in LogIds /\ r.user \in User /\ r.task \in DOMAIN tasks
                        /\ \A x \in logs : x.id = r.id => x = r
    BY DEF WorkLogInv, LogRows
  <2>3. \A t \in Task : seen[t] \subseteq {r.id : r \in logs}
    BY DEF WorkLogInv, SeenRows
  <2>4. \A i \in DOMAIN inbox : inbox[i].task \in DOMAIN tasks \cup {NoTask}
    BY DEF WorkLogInv, InboxRows, InboxRow
  <2>5. inflight \in [Slot -> InFlight \cup {Idle}]
    BY DEF WorkLogInv, DeliveryRows, Lengths
  <2> QED
    BY <2>1, <2>2, <2>3, <2>4, <2>5 DEF WorkLogTypeOK
<1> QED
  BY <1>1, InvAlways, LengthsAlways, PTL

\* With no total twice, a period has as many rows as totals.
LEMMA AsManyRowsAsTotals ==
    ASSUME WorkLogInv, NEW u \in User, NEW p \in PeriodStart, sent[u][p] # Mixed
    PROVE  /\ {TotalOf(r) : r \in TrackerPeriod(u, p)} = sent[u][p].rows
           /\ Cardinality(TrackerPeriod(u, p)) = Cardinality(sent[u][p].rows)
<1> DEFINE T == TrackerPeriod(u, p)
           f == [r \in T |-> TotalOf(r)]
           g == [r \in T |-> r.id]
<1>1. /\ \A r \in T : TotalOf(r) \in sent[u][p].rows
      /\ \A e \in sent[u][p].rows : \E r \in T : TotalOf(r) = e
      /\ \A r, x \in T : TotalOf(r) = TotalOf(x) => r = x
  BY DEF WorkLogInv, PeriodsHold, PeriodHolds
<1>2. /\ \A r \in T : r.id \in LogIds
      /\ \A r, x \in T : x.id = r.id => x = r
  BY DEF WorkLogInv, LogRows, TrackerPeriod
<1> HIDE DEF T
<1>3. g \in Injection(T, LogIds)
  BY <1>2 DEF Injection, IsInjective
<1>4. IsFiniteSet(T)
  BY <1>3, WorkLogAssumption, FS_Injection
<1>5. f \in Injection(T, sent[u][p].rows)
  BY <1>1 DEF Injection, IsInjective
<1>6. f \in Surjection(T, sent[u][p].rows)
  BY <1>1 DEF Surjection
<1>7. Cardinality(T) = Cardinality(sent[u][p].rows)
  BY <1>4, <1>5, <1>6, FS_Surjection
<1>8. {TotalOf(r) : r \in T} = sent[u][p].rows
  BY <1>1
<1> QED
  BY <1>7, <1>8 DEF T

\* However often, in whatever order and beside whatever hand work the Tracker
\* delivers and reopens periods, each period holds exactly what was last
\* written for it, each total once, less the rows the person deleted, and no
\* closing of the WBS's own stands on its days; only two deliveries of one
\* period that overlap can leave it otherwise, until the next (replace).
THEOREM PeriodsAreAsLastSent == WorkLogSpec => []PeriodIsAsLastSent
<1>1. WorkLogInv => PeriodIsAsLastSent
  <2> SUFFICES ASSUME WorkLogInv, NEW u \in User, NEW p \in PeriodStart, sent[u][p] # Mixed
               PROVE  /\ {[task |-> r.task, day |-> r.origin, seconds |-> r.seconds] : r \in TrackerPeriod(u, p)}
                            = sent[u][p].rows
                      /\ Cardinality(TrackerPeriod(u, p)) = Cardinality(sent[u][p].rows)
                      /\ ~\E r \in logs : r.user = u /\ r.source = "closing" /\ r.day \in p..sent[u][p].last
    BY DEF PeriodIsAsLastSent
  <2>1. {TotalOf(r) : r \in TrackerPeriod(u, p)}
          = {[task |-> r.task, day |-> r.origin, seconds |-> r.seconds] : r \in TrackerPeriod(u, p)}
    BY DEF TotalOf
  <2>2. ~\E r \in logs : r.user = u /\ r.source = "closing" /\ r.day \in p..sent[u][p].last
    BY DEF WorkLogInv, PeriodsHold, PeriodHolds
  <2> QED
    BY <2>1, <2>2, AsManyRowsAsTotals
<1> QED
  BY <1>1, InvAlways, PTL

------------------------------------------------------------------------------
(* Whoever entered remaining hours is asked when closed hours arrive.       *)

\* There are finitely many rows.
LEMMA RowsAreFinite == WorkLogInv => IsFiniteSet(logs)
<1> SUFFICES ASSUME WorkLogInv PROVE IsFiniteSet(logs)
  OBVIOUS
<1> DEFINE g == [r \in logs |-> r.id]
<1>1. g \in Injection(logs, LogIds)
  BY DEF WorkLogInv, LogRows, Injection, IsInjective
<1> QED
  BY <1>1, WorkLogAssumption, FS_Injection

\* Only the end of the delivery itself frees its thread and writes rows.
LEMMA OnlyTheEndWrites ==
    ASSUME WorkLogInv, Lengths, [WorkLogNext]_logVars, NEW s \in Slot,
           inflight[s] # Idle, inflight'[s] = Idle, logs' # logs
    PROVE  FinishDelivery(s)
<1>1. ASSUME NEW u \in User, HandStep(u) PROVE inflight' = inflight
  BY <1>1 DEF HandStep, CreateWorkLog, DeleteWorkLog, UpdateWorkLog, DeleteTask, ArchiveTask, UpdateTask,
     CreateSubtask, CreateItem, DeleteItem, ConvertToTask, ChangeTeam
<1>2. CASE UNCHANGED logVars
  BY <1>2 DEF logVars
<1>3. ASSUME NEW x \in Slot, FinishDelivery(x), x # s PROVE FALSE
  <2>1. inflight'[s] = inflight[s] \/ inflight'[s] = [inflight[s] EXCEPT !.overtaken = TRUE]
    BY <1>3 DEF FinishDelivery
  <2>2. inflight[s] \in InFlight
    BY DEF Lengths
  <2>3. ASSUME NEW v \in InFlight PROVE [v EXCEPT !.overtaken = TRUE] \in InFlight
    BY DEF InFlight
  <2> QED
    BY <2>1, <2>2, <2>3, InFlightAssumption
<1>4. ASSUME NEW x \in Slot, DeliveryStep(x) PROVE FinishDelivery(x)
  BY <1>4 DEF DeliveryStep, BeginReplace, BeginRemove, FailDelivery
<1> QED
  BY <1>1, <1>2, <1>3, <1>4 DEF WorkLogNext

\* The row of a total is among the latest closed, later than the task's last
\* save, when its period is the newest.
LEMMA ArrivesUnseen ==
    ASSUME WorkLogInv, Lengths, NEW s \in Slot, FinishDelivery(s), NEW u \in User, inflight[s].user = u,
           \A r \in LogsOf(u)' : r.source = "tracker" => r.period <= inflight[s].first,
           NEW e \in inflight[s].rows, VisibleTo(u, e.task)
    PROVE  \E x \in LatestClosed(u)' : x.task = e.task /\ x.seconds = e.seconds /\ x.id \notin seen'[e.task]
<1> SUFFICES ASSUME NEW w, w = inflight[s]
             PROVE  \E x \in LatestClosed(u)' : x.task = e.task /\ x.seconds = e.seconds /\ x.id \notin seen'[e.task]
  OBVIOUS
<1> DEFINE N == {TrackerRow(w, SetToSeq(w.rows)[i], SetToSeq(FreeIds)[i]) : i \in DOMAIN SetToSeq(w.rows)}
<1>1. /\ w # Idle /\ logs' = {r \in logs : r.id \notin Removed(w)} \cup N
      /\ seen' = [x \in DOMAIN seen |-> seen[x] \ Removed(w)]
      /\ Len(SetToSeq(w.rows)) <= Len(SetToSeq(FreeIds))
      /\ UNCHANGED <<tasks, members>>
  BY DEF FinishDelivery, Unsee
<1>2. Writes(w, N)
  BY <1>1, OneRowEach
<1> HIDE DEF N
<1>3. PICK x \in N : TotalOf(x) = e
  BY <1>2 DEF Writes
<1>4. x \in logs' /\ x.user = u /\ x.source = "tracker" /\ x.period = w.first /\ x.id \in FreeIds
  BY <1>1, <1>2, <1>3 DEF Writes
<1>5. x.task = e.task /\ x.seconds = e.seconds
  BY <1>3 DEF TotalOf
<1>6. x \in LogsOf(u)'
  BY <1>1, <1>4, <1>5 DEF LogsOf, VisibleTo, VisibleProjects
<1>7. x \in LatestClosed(u)'
  BY <1>4, <1>6 DEF LatestClosed
<1>8. x.id \notin {r.id : r \in logs}
  BY <1>4 DEF FreeIds
<1>9. e.task \in Task
  BY <1>1 DEF WorkLogInv, DeliveryRows, TaskRows
<1>10. x.id \notin seen'[e.task]
  BY <1>1, <1>8, <1>9 DEF WorkLogInv, SeenRows
<1> QED
  BY <1>5, <1>7, <1>10

\* The closed seconds of a task are at least those of each of its rows.
LEMMA ClosedAdds ==
    ASSUME NEW L, IsFiniteSet(L), \A r \in L : r.seconds \in Nat, NEW t, NEW x \in L, x.task = t,
           NEW closed, closed = SumFunctionOnSet([r \in L |-> Seconds(r)], {r \in L : r.task = t})
    PROVE  closed \in Nat /\ x.seconds \in Nat /\ x.seconds <= closed
<1> DEFINE f == [r \in L |-> Seconds(r)]
           S == {r \in L : r.task = t}
<1>1. \A r \in L : Seconds(r) = r.seconds
  BY CalendarAssumption DEF Seconds
<1>2. S \in SUBSET L
  OBVIOUS
<1>3. IsFiniteSet(S)
  BY <1>2, FS_Subset
<1>4. (\A r \in S : f[r] \in Nat) /\ x \in S /\ f[x] = x.seconds
  BY <1>1
<1>5. closed = SumFunctionOnSet(f, S)
  OBVIOUS
<1> HIDE DEF f, S
<1> QED
  BY <1>3, <1>4, <1>5, SumBounds

LEMMA HoursGrow ==
    ASSUME NEW a \in Nat, NEW b \in Nat, a <= b, HoursOf(a) > 0
    PROVE  HoursOf(b) > 0
BY DEF HoursOf

\* When hours of the newest period arrive, also when it is only delivered
\* again, and whatever else is in flight, the person they are of is asked to look
\* again at the remaining hours entered for the open leaf tasks on their board
\* (replace, task_board, remaining_review_reasons).
THEOREM ArrivalsAreNoticed == WorkLogSpec => AskedAfterClosing
<1>1. ASSUME WorkLogInv, WorkLogInv', Lengths, Lengths', [WorkLogNext]_logVars,
             NEW s \in Slot, NEW u \in User, NEW p \in PeriodStart,
             inflight[s] # Idle, inflight'[s] = Idle, logs' # logs, inflight[s].user = u, inflight[s].first = p,
             \A r \in LogsOf(u)' : r.source = "tracker" => r.period <= p,
             NEW t \in DOMAIN tasks, Listed(u, t), ~HasSubtasks(u, t), tasks[t].status \notin {"DONE", "CANCELLED"},
             tasks[t].remaining \notin {NoHours, 0}, NEW e \in inflight[s].rows, e.task = t, HoursOf(e.seconds) > 0
      PROVE  Reasons(u, t)' = {"stale_remaining"}
  <2>1. FinishDelivery(s)
    BY <1>1, OnlyTheEndWrites
  <2>2. PICK x \in LatestClosed(u)' : x.task = t /\ x.seconds = e.seconds /\ x.id \notin seen'[t]
    BY <1>1, <2>1, ArrivesUnseen DEF Listed, Found
  <2> DEFINE closed == SumFunctionOnSet([r \in LatestClosed(u) |-> Seconds(r)], {r \in LatestClosed(u) : r.task = t})
  <2>3. closed' \in Nat /\ x.seconds \in Nat /\ x.seconds <= closed'
    <3>1. LatestClosed(u)' \subseteq logs' /\ \A r \in LatestClosed(u)' : r.source = "tracker"
      BY DEF LatestClosed, LogsOf
    <3>2. IsFiniteSet(LatestClosed(u)')
      <4>1. IsFiniteSet(logs')
        <5>1. (WorkLogInv => IsFiniteSet(logs))'
          BY RowsAreFinite, PTL
        <5> QED
          BY <1>1, <5>1
      <4> QED
        BY <3>1, <4>1, FS_Subset
    <3>3. \A r \in LatestClosed(u)' : r.seconds \in Nat
      BY <1>1, <3>1 DEF Lengths
    <3> QED
      BY <2>2, <3>2, <3>3, ClosedAdds
  <2> HIDE DEF closed
  <2>4. HoursOf(closed') > 0
    BY <1>1, <2>2, <2>3, HoursGrow
  <2>5. tasks' = tasks /\ members' = members
    BY <2>1 DEF FinishDelivery
  <2>6. Listed(u, t)' /\ ~HasSubtasks(u, t)'
    BY <1>1, <2>5 DEF Listed, HasSubtasks, Owned, Found, Exists, VisibleTo, VisibleProjects
  <2>7. Reasons(u, t)' = ReviewReasons(tasks'[t], ActualHours(t)', HasSubtasks(u, t)', HoursOf(closed'),
                                       \E r \in LatestClosed(u)' : r.id \notin seen'[t])
    BY <2>6 DEF Reasons, closed
  <2> QED
    BY <1>1, <2>2, <2>4, <2>5, <2>6, <2>7 DEF ReviewReasons
<1>2. WorkLogInv /\ WorkLogInv' /\ Lengths /\ Lengths' /\ [WorkLogNext]_logVars =>
        \A s \in Slot, u \in User, p \in PeriodStart :
          ( /\ inflight[s] # Idle /\ inflight'[s] = Idle /\ logs' # logs
            /\ inflight[s].op = "replace" /\ inflight[s].user = u /\ inflight[s].first = p
            /\ \A r \in LogsOf(u)' : r.source = "tracker" => r.period <= p ) =>
              \A t \in DOMAIN tasks :
                  ( /\ Listed(u, t) /\ ~HasSubtasks(u, t) /\ tasks[t].status \notin {"DONE", "CANCELLED"}
                    /\ tasks[t].remaining \notin {NoHours, 0}
                    /\ \E e \in inflight[s].rows : e.task = t /\ HoursOf(e.seconds) > 0 )
                  => Reasons(u, t)' = {"stale_remaining"}
  BY <1>1
<1> QED
  BY <1>2, InvAlways, LengthsAlways, PTL DEF WorkLogSpec, AskedAfterClosing

------------------------------------------------------------------------------
(* The periods of a report.                                                 *)

Unit == {"closing", "week", "month"}

InSomeMonth(d) == \E m \in Months : d \in m.first..m.last

\* A number of the week from q * n on is q * n and its remainder.
LEMMA SameWeek ==
    ASSUME NEW n \in Nat \ {0}, NEW d \in Nat, NEW x \in Nat,
           d - (d % n) <= x, x <= d - (d % n) + n - 1
    PROVE  x - (x % n) = d - (d % n)
<1>1. PICK q \in Nat : d = n * q + (d % n)
  <2>1. d \div n \in Nat /\ d = n * (d \div n) + (d % n)
    OBVIOUS
  <2> QED
    BY <2>1
<1>2. PICK k \in Nat : x = n * k + (x % n)
  <2>1. x \div n \in Nat /\ x = n * (x \div n) + (x % n)
    OBVIOUS
  <2> QED
    BY <2>1
<1>3. d % n \in 0..(n - 1) /\ x % n \in 0..(n - 1)
  OBVIOUS
<1>4. n * q <= x /\ x <= n * q + n - 1
  BY <1>1, <1>3
<1>5. n * k <= x /\ x <= n * k + n - 1
  BY <1>2, <1>3
<1>6. q = k
  <2>1. ASSUME NEW a \in Nat, NEW b \in Nat, a < b PROVE n * a + n <= n * b
    <3>1. PICK c \in Nat : b = a + 1 + c
      <4>1. b - a - 1 \in Nat /\ b = a + 1 + (b - a - 1)
        BY <2>1
      <4> QED
        BY <4>1
    <3>2. n * b = n * a + n + n * c /\ n * c \in Nat /\ n * a \in Nat
      BY <3>1
    <3> QED
      BY <3>2
  <2>2. n * q \in Nat /\ n * k \in Nat
    OBVIOUS
  <2>3. ~(q < k) /\ ~(k < q)
    BY <1>4, <1>5, <2>1, <2>2
  <2> QED
    BY <2>3
<1> QED
  BY <1>1, <1>2, <1>3, <1>6

\* A day is in one month only.
LEMMA OneMonth ==
    ASSUME NEW d \in Nat, InSomeMonth(d)
    PROVE  /\ MonthOf(d) \in Months /\ d \in MonthOf(d).first..MonthOf(d).last
           /\ \A x \in MonthOf(d).first..MonthOf(d).last : MonthOf(x) = MonthOf(d)
<1>1. \A y : InSomeMonth(y) => MonthOf(y) \in Months /\ y \in MonthOf(y).first..MonthOf(y).last
  BY DEF InSomeMonth, MonthOf
<1>2. MonthOf(d) \in Months /\ d \in MonthOf(d).first..MonthOf(d).last
  BY <1>1
<1>3. ASSUME NEW x \in MonthOf(d).first..MonthOf(d).last PROVE MonthOf(x) = MonthOf(d)
  <2>1. MonthOf(x) \in Months /\ x \in MonthOf(x).first..MonthOf(x).last
    BY <1>1, <1>2 DEF InSomeMonth
  <2>2. \A m \in Months : m.first \in Nat /\ m.last \in Nat
    BY CalendarAssumption
  <2>3. ASSUME NEW m \in Months, NEW k \in Months, x \in m.first..m.last, x \in k.first..k.last PROVE m = k
    <3>1. ~(m.last < k.first) /\ ~(k.last < m.first)
      BY <2>2, <2>3
    <3> QED
      BY <3>1, CalendarAssumption
  <2> QED
    BY <1>2, <1>3, <2>1, <2>3
<1> QED
  BY <1>2, <1>3

\* The period of a day holds it, and is the period of all its days.
LEMMA OnePeriod ==
    ASSUME NEW unit \in Unit, NEW d \in Nat, InSomeMonth(d),
           NEW p, p = ReportPeriodContaining(unit, d)
    PROVE  /\ p.first \in Nat /\ p.last \in Nat /\ p.first <= d /\ d <= p.last
           /\ \A x \in p.first..p.last : ReportPeriodContaining(unit, x) = p
<1> DEFINE m == MonthOf(d)
<1>1. /\ m \in Months /\ d \in m.first..m.last
      /\ \A x \in m.first..m.last : MonthOf(x) = m
  BY OneMonth
<1>2. m.first \in Nat /\ m.last \in Nat /\ FirstHalfLastDay \in Nat \ {0} /\ m.first + FirstHalfLastDay <= m.last
  BY <1>1, CalendarAssumption
<1>3. CASE unit = "month"
  <2>1. \A x : ReportPeriodContaining(unit, x) = MonthOf(x)
    BY <1>3 DEF ReportPeriodContaining
  <2> QED
    BY <1>1, <1>2, <2>1
<1>4. CASE unit = "closing"
  <2> DEFINE middle == m.first + FirstHalfLastDay - 1
  <2>1. \A x \in m.first..m.last : ReportPeriodContaining(unit, x) =
            IF x <= middle THEN [first |-> m.first, last |-> middle] ELSE [first |-> middle + 1, last |-> m.last]
    BY <1>1, <1>4 DEF ReportPeriodContaining, HalfMonthOf
  <2>2. middle \in Nat /\ m.first <= middle /\ middle < m.last
    BY <1>2
  <2> HIDE DEF middle, m
  <2>3. CASE d <= middle
    <3>1. p = [first |-> m.first, last |-> middle]
      BY <1>1, <2>1, <2>3
    <3>2. p.first = m.first /\ p.last = middle
      BY <3>1
    <3>3. \A x \in m.first..middle : x \in m.first..m.last /\ x <= middle
      BY <1>2, <2>2
    <3> QED
      BY <1>1, <1>2, <2>1, <2>2, <2>3, <3>1, <3>2, <3>3
  <2>4. CASE ~(d <= middle)
    <3>1. p = [first |-> middle + 1, last |-> m.last]
      BY <1>1, <2>1, <2>4
    <3>2. p.first = middle + 1 /\ p.last = m.last
      BY <3>1
    <3>3. \A x \in (middle + 1)..m.last : x \in m.first..m.last /\ ~(x <= middle)
      BY <1>2, <2>2
    <3> QED
      BY <1>1, <1>2, <2>1, <2>2, <2>4, <3>1, <3>2, <3>3
  <2> QED
    BY <2>3, <2>4
<1>5. CASE unit = "week"
  <2> DEFINE n == WeekLength
             monday(x) == x - (x % n)
  <2>1. \A x : ReportPeriodContaining(unit, x) = [first |-> monday(x), last |-> monday(x) + n - 1]
    BY <1>5 DEF ReportPeriodContaining
  <2>2. n \in Nat \ {0}
    BY CalendarAssumption
  <2>3. monday(d) \in Nat /\ monday(d) <= d /\ d <= monday(d) + n - 1
    <3>1. d % n \in 0..(n - 1) /\ d % n <= d
      <4>1. d \div n \in Nat /\ d = n * (d \div n) + (d % n) /\ d % n \in 0..(n - 1)
        BY <2>2
      <4>2. n * (d \div n) \in Nat
        BY <2>2, <4>1
      <4> QED
        BY <4>1, <4>2
    <3> QED
      BY <2>2, <3>1
  <2>4. ASSUME NEW x \in monday(d)..(monday(d) + n - 1) PROVE monday(x) = monday(d)
    <3>1. x \in Nat /\ monday(d) <= x /\ x <= monday(d) + n - 1
      BY <2>2, <2>3
    <3> QED
      BY <2>2, <3>1, SameWeek
  <2> HIDE DEF monday, n
  <2>5. p.first = monday(d) /\ p.last = monday(d) + n - 1
    BY <2>1
  <2>6. \A x \in p.first..p.last : ReportPeriodContaining(unit, x) = p
    BY <2>1, <2>4, <2>5
  <2> QED
    BY <2>2, <2>3, <2>5, <2>6
<1> QED
  BY <1>3, <1>4, <1>5 DEF Unit

\* The walk from one period to the next meets the period of every day.
LEMMA WalkMeetsAll ==
    ASSUME NEW unit \in Unit, NEW first \in Nat \ {0}, NEW last \in Nat, \A d \in 1..last : InSomeMonth(d)
    PROVE  ReportPeriodsBetween(unit, first, last) = {ReportPeriodContaining(unit, d) : d \in first..last}
<1> DEFINE P(d) == ReportPeriodContaining(unit, d)
           Days == Nat \ {0}
           Eq(f) == f = [d \in Days |-> IF d > last THEN {} ELSE {P(d)} \cup f[P(d).last + 1]]
           w == [d \in Days |-> {P(x) : x \in d..last}]
           F == CHOOSE f : Eq(f)
<1>1. ReportPeriodsBetween(unit, first, last) = F[first]
  BY DEF ReportPeriodsBetween
<1>2. \A d \in 1..last : /\ P(d).last \in Nat /\ d <= P(d).last /\ P(d).last + 1 \in Days
                         /\ \A x \in d..P(d).last : P(x) = P(d)
  <2>1. ASSUME NEW d \in 1..last
        PROVE  /\ P(d).last \in Nat /\ d <= P(d).last /\ P(d).last + 1 \in Days
               /\ \A x \in d..P(d).last : P(x) = P(d)
    <3>1. /\ P(d).first \in Nat /\ P(d).last \in Nat /\ P(d).first <= d /\ d <= P(d).last
          /\ \A x \in P(d).first..P(d).last : P(x) = P(d)
      <4>1. d \in Nat /\ InSomeMonth(d)
        OBVIOUS
      <4> QED
        BY <4>1, OnePeriod
    <3> HIDE DEF P
    <3> QED
      BY <3>1
  <2> QED
    BY <2>1
<1> HIDE DEF P
<1>3. ASSUME NEW d \in Days PROVE w[d] = IF d > last THEN {} ELSE {P(d)} \cup w[P(d).last + 1]
  <2>1. CASE d > last
    <3>1. d..last = {}
      BY <2>1
    <3> QED
      BY <2>1, <3>1
  <2>2. CASE ~(d > last)
    <3>1. d \in 1..last
      BY <2>2
    <3>2. w[P(d).last + 1] = {P(x) : x \in (P(d).last + 1)..last}
      BY <1>2, <3>1
    <3>3. \A x \in d..last : P(x) = P(d) \/ x \in (P(d).last + 1)..last
      BY <1>2, <3>1
    <3>4. d \in d..last /\ (P(d).last + 1)..last \subseteq d..last
      BY <1>2, <3>1
    <3>5. {P(x) : x \in d..last} = {P(d)} \cup {P(x) : x \in (P(d).last + 1)..last}
      BY <3>3, <3>4
    <3> QED
      BY <2>2, <3>2, <3>5
  <2> QED
    BY <2>1, <2>2
<1>4. Eq(w)
  BY <1>3
<1> HIDE DEF w
<1>5. Eq(F)
  BY <1>4
<1> HIDE DEF F
<1>6. \A d \in Days : F[d] = IF d > last THEN {} ELSE {P(d)} \cup F[P(d).last + 1]
  BY <1>5
<1> DEFINE bad == {d \in 1..last : F[d] # w[d]}
<1>7. bad = {}
  <2> SUFFICES ASSUME bad # {} PROVE FALSE
    OBVIOUS
  <2>1. bad \in SUBSET Int /\ IsFiniteSet(bad)
    <3>1. IsFiniteSet(1..last) /\ bad \in SUBSET (1..last)
      BY FS_Interval
    <3> QED
      BY <3>1, FS_Subset
  <2>2. PICK d \in bad : \A y \in bad : y <= d
    <3> HIDE DEF bad
    <3> QED
      BY <2>1, MaxInSet
  <2>3. d \in 1..last /\ F[d] # w[d]
    BY <2>2
  <2> DEFINE next == P(d).last + 1
  <2>4. next \in Days /\ next > d
    BY <1>2, <2>3
  <2>5. F[next] = w[next]
    <3> HIDE DEF next
    <3>1. CASE next > last
      BY <1>3, <1>6, <2>4, <3>1
    <3>2. CASE ~(next > last)
      BY <2>2, <2>3, <2>4, <3>2
    <3> QED
      BY <3>1, <3>2
  <2>6. d \in Days /\ ~(d > last)
    BY <2>3
  <2> QED
    BY <1>3, <1>6, <2>3, <2>5, <2>6
<1>8. F[first] = w[first]
  <2>1. CASE first > last
    BY <1>3, <1>6, <2>1
  <2>2. CASE ~(first > last)
    BY <1>7, <2>2
  <2> QED
    BY <2>1, <2>2
<1>9. w[first] = {P(d) : d \in first..last}
  BY DEF w
<1> QED
  BY <1>1, <1>8, <1>9 DEF P

\* The days from the first to the last of all periods are in one each.
LEMMA PeriodsTile ==
    ASSUME NEW range \in ReportRange,
           NEW periods, periods = ReportPeriodsBetween(range.unit, range.first, range.last),
           NEW lo, lo = Min({p.first : p \in periods}), NEW hi, hi = Max({p.last : p \in periods})
    PROVE  /\ IsFiniteSet(periods)
           /\ \A x \in lo..hi : ReportPeriodContaining(range.unit, x) \in periods
           /\ \A x \in lo..hi : \A p \in periods :
                 x \in p.first..p.last <=> ReportPeriodContaining(range.unit, x) = p
           /\ \A p \in periods : p.first..p.last \subseteq lo..hi
<1> DEFINE first == range.first
           last == range.last
           P(d) == ReportPeriodContaining(range.unit, d)
           f == [d \in first..last |-> P(d)]
<1>1. /\ range.unit \in Unit /\ first \in Nat \ {0} /\ last \in Nat /\ first <= last
      /\ \A d \in 1..last : InSomeMonth(d)
  BY WorkLogAssumption DEF Unit, InSomeMonth
<1>2. periods = {P(d) : d \in first..last}
  BY <1>1, WalkMeetsAll
<1>3. ASSUME NEW d \in first..last
      PROVE  /\ P(d).first \in Nat /\ P(d).last \in Nat /\ P(d).first <= d /\ d <= P(d).last
             /\ \A x \in P(d).first..P(d).last : P(x) = P(d)
  <2>1. d \in Nat /\ InSomeMonth(d)
    BY <1>1
  <2> QED
    BY <1>1, <2>1, OnePeriod
<1> HIDE DEF P, first, last
<1>4. IsFiniteSet(periods)
  <2>1. IsFiniteSet(first..last)
    BY <1>1, FS_Interval
  <2>2. f \in Surjection(first..last, periods)
    BY <1>2 DEF Surjection
  <2> QED
    BY <2>1, <2>2, FS_Surjection
<1>5. \A p \in periods : /\ p.first \in Nat /\ p.last \in Nat
                         /\ \A x \in p.first..p.last : P(x) = p
                         /\ \E d \in first..last : p.first <= d /\ d <= p.last
  BY <1>2, <1>3
<1> DEFINE lows == {p.first : p \in periods}
           highs == {p.last : p \in periods}
<1>6. periods # {}
  BY <1>1, <1>2
<1>7. lo \in lows /\ \A y \in lows : lo <= y
  <2>1. lows \in SUBSET Nat /\ lows # {}
    BY <1>5, <1>6
  <2>2. lo = Min(lows)
    OBVIOUS
  <2> HIDE DEF lows
  <2>3. Min(lows) \in lows /\ \A y \in lows : Min(lows) <= y
    BY <2>1, MinInSet
  <2> QED
    BY <2>2, <2>3
<1>8. hi \in highs /\ \A y \in highs : y <= hi
  <2>1. highs \in SUBSET Int /\ highs # {}
    BY <1>5, <1>6
  <2>2. IsFiniteSet(highs)
    <3> DEFINE g == [p \in periods |-> p.last]
    <3>1. g \in Surjection(periods, highs)
      BY DEF Surjection
    <3> QED
      BY <1>4, <3>1, FS_Surjection
  <2>3. hi = Max(highs)
    OBVIOUS
  <2> HIDE DEF highs
  <2> QED
    BY <2>1, <2>2, <2>3, MaxInSet
<1>10. PICK a \in periods : lo = a.first
  BY <1>7
<1>11. PICK b \in periods : hi = b.last
  BY <1>8
<1>9. lo \in Nat /\ hi \in Nat
  BY <1>5, <1>10, <1>11
<1>12. ASSUME NEW p \in periods PROVE p.first..p.last \subseteq lo..hi
  <2>1. lo <= p.first /\ p.last <= hi
    BY <1>7, <1>8
  <2>2. p.first \in Nat /\ p.last \in Nat
    BY <1>5
  <2>3. ASSUME NEW x \in p.first..p.last PROVE x \in lo..hi
    BY <1>9, <2>1, <2>2
  <2> QED
    BY <2>3
<1>13. ASSUME NEW x \in lo..hi PROVE \E p \in periods : x \in p.first..p.last
  <2>1. x \in Int /\ a.first <= x /\ x <= b.last
    BY <1>10, <1>11, <1>9
  <2>2. PICK d \in first..last : a.first <= d /\ d <= a.last
    BY <1>5
  <2>3. PICK e \in first..last : b.first <= e /\ e <= b.last
    BY <1>5
  <2>4. CASE x < first
    <3>1. x \in a.first..a.last
      BY <1>1, <1>5, <2>1, <2>2, <2>4
    <3> QED
      BY <3>1
  <2>5. CASE x > last
    <3>1. x \in b.first..b.last
      BY <1>1, <1>5, <2>1, <2>3, <2>5
    <3> QED
      BY <3>1
  <2>6. CASE x \in first..last
    <3>1. P(x) \in periods /\ x \in P(x).first..P(x).last
      BY <1>1, <1>2, <1>3, <2>6
    <3> QED
      BY <3>1
  <2> QED
    BY <1>1, <2>1, <2>4, <2>5, <2>6
<1>14. ASSUME NEW x \in lo..hi PROVE P(x) \in periods /\ x \in P(x).first..P(x).last
  BY <1>5, <1>13
<1>15. \A x \in lo..hi : \A p \in periods : x \in p.first..p.last <=> P(x) = p
  BY <1>5, <1>14
<1> QED
  BY <1>4, <1>12, <1>14, <1>15 DEF P

------------------------------------------------------------------------------
(* The ledger and the groups of a report.                                   *)

PeriodsOf(range) == ReportPeriodsBetween(range.unit, range.first, range.last)

\* The days from the first period to the last.
WholeOf(range) == Min({p.first : p \in PeriodsOf(range)})..Max({p.last : p \in PeriodsOf(range)})

OverPeriods(ledger, range) == SumFunction([p \in PeriodsOf(range) |-> Total(ledger, p)])

OnDays(ledger, W) == SumFunctionOnSet(ledger, {k \in DOMAIN ledger : k[2] \in W})

RowsOnDays(rows, W) == SumFunction([r \in {x \in rows : x.day \in W} |-> Max({Seconds(r), 0})])

\* Added up day by day and task by task, nothing is lost or counted twice.
LEMMA LedgerAddsUp ==
    ASSUME NEW R, IsFiniteSet(R), \A r \in R : Seconds(r) \in Int, NEW scope, NEW W,
           NEW ledger, ledger = Ledger(R, scope), NEW rows, rows = {x \in R : x.task \in scope}
    PROVE  /\ IsFiniteSet(DOMAIN ledger) /\ \A k \in DOMAIN ledger : ledger[k] \in Int
           /\ OnDays(ledger, W) = RowsOnDays(rows, W)
<1> SUFFICES ASSUME NEW T, T = {x \in rows : x.day \in W}
             PROVE  /\ IsFiniteSet(DOMAIN ledger) /\ \A k \in DOMAIN ledger : ledger[k] \in Int
                    /\ OnDays(ledger, W) = RowsOnDays(rows, W)
  OBVIOUS
<1> DEFINE counted == {r \in R : Seconds(r) > 0 /\ r.task \in scope}
           f == [r \in counted |-> Seconds(r)]
           place == [r \in counted |-> <<r.task, r.day>>]
           K == {place[r] : r \in counted}
           at(k) == {r \in counted : place[r] = k}
<1>1. ledger = [k \in K |-> SumFunctionOnSet(f, at(k))]
  <2>1. {<<r.task, r.day>> : r \in counted} = K
    OBVIOUS
  <2>2. \A k : {r \in counted : <<r.task, r.day>> = k} = at(k)
    OBVIOUS
  <2>3. ledger = [k \in {<<r.task, r.day>> : r \in counted} |->
                    SumFunctionOnSet(f, {r \in counted : <<r.task, r.day>> = k})]
    BY DEF Ledger
  <2> HIDE DEF counted, f, at, K, place
  <2> QED
    BY <2>1, <2>2, <2>3
<1>2. IsFiniteSet(counted)
  <2>1. counted \in SUBSET R
    OBVIOUS
  <2> QED
    BY <2>1, FS_Subset
<1>3. \A r \in counted : f[r] = Seconds(r) /\ f[r] \in Int /\ place[r] = <<r.task, r.day>>
  OBVIOUS
<1>4. \A r \in counted : place[r][2] = r.day
  BY <1>3
<1>5. \A r \in R : r \in counted <=> Seconds(r) > 0 /\ r.task \in scope
  OBVIOUS
<1>6. counted \subseteq R
  OBVIOUS
<1> HIDE DEF counted, f, place
<1>7. IsFiniteSet(K)
  BY <1>2, ImageIsFinite
<1>8. \A k : at(k) \in SUBSET counted
  OBVIOUS
<1> HIDE DEF at
<1>9. \A k \in K : ledger[k] = SumFunctionOnSet(f, at(k)) /\ ledger[k] \in Int
  <2>1. ASSUME NEW k \in K PROVE SumFunctionOnSet(f, at(k)) \in Int
    <3>1. IsFiniteSet(at(k)) /\ \A r \in at(k) : f[r] \in Int
      BY <1>2, <1>3, <1>8, FS_Subset
    <3> QED
      BY <3>1, SumType
  <2> QED
    BY <1>1, <2>1
<1>10. DOMAIN ledger = K
  BY <1>1
<1> DEFINE S == {r \in counted : r.day \in W}
           G == {k \in K : k[2] \in W}
           inner(g) == {x \in S : place[x] = g}
           e == [g \in G |-> SumFunctionOnSet(f, inner(g))]
           h == [r \in T |-> Max({Seconds(r), 0})]
<1>11. SumFunctionOnSet(e, G) = SumFunctionOnSet(f, S)
  <2>1. IsFiniteSet(S) /\ \A r \in S : f[r] \in Int
    <3>1. S \in SUBSET counted
      OBVIOUS
    <3> QED
      BY <1>2, <1>3, <3>1, FS_Subset
  <2>2. IsFiniteSet(G)
    <3>1. G \in SUBSET K
      OBVIOUS
    <3> QED
      BY <1>7, <3>1, FS_Subset
  <2>3. \A r \in S : place[r] \in G
    BY <1>4
  <2> HIDE DEF S, G
  <2> QED
    BY <2>1, <2>2, <2>3, SumByGroups
<1>12. SumFunctionOnSet(ledger, G) = SumFunctionOnSet(e, G)
  <2>1. \A g \in G : inner(g) = at(g)
    BY <1>4 DEF at
  <2>2. \A g \in G : e[g] = SumFunctionOnSet(f, inner(g)) /\ g \in K
    OBVIOUS
  <2>3. IsFiniteSet(G)
    <3>1. G \in SUBSET K
      OBVIOUS
    <3> QED
      BY <1>7, <3>1, FS_Subset
  <2> HIDE DEF G, e, inner
  <2>4. \A g \in G : ledger[g] = e[g]
    BY <1>9, <2>1, <2>2
  <2> QED
    BY <2>3, <2>4, SumOfTheSame
<1>13. SumFunctionOnSet(h, T) = SumFunctionOnSet(f, S)
  <2>1. IsFiniteSet(T)
    <3>1. T \in SUBSET R
      OBVIOUS
    <3> QED
      BY <3>1, FS_Subset
  <2>2. \A r \in T : h[r] = IF Seconds(r) >= 0 THEN Seconds(r) ELSE 0
    BY GreaterOfTwo
  <2>3. \A r \in T : Seconds(r) \in Int
    OBVIOUS
  <2>4. S \in SUBSET T /\ \A r \in T \ S : ~(Seconds(r) > 0)
    BY <1>5, <1>6
  <2>5. \A r \in S : Seconds(r) > 0 /\ f[r] = Seconds(r)
    BY <1>3, <1>5, <1>6
  <2> HIDE DEF h, S
  <2>6. (\A r \in T : h[r] \in Int) /\ \A r \in T \ S : h[r] = 0
    BY <2>2, <2>3, <2>4
  <2>7. SumFunctionOnSet(h, T) = SumFunctionOnSet(h, S)
    BY <2>1, <2>4, <2>6, SumWithoutZeros
  <2>8. \A r \in S : h[r] = f[r]
    BY <2>2, <2>3, <2>4, <2>5
  <2>9. IsFiniteSet(S)
    BY <2>1, <2>4, FS_Subset
  <2> QED
    BY <2>7, <2>8, <2>9, SumOfTheSame
<1>14. SumFunction(h) = SumFunctionOnSet(h, T)
  <2>1. DOMAIN h = T
    OBVIOUS
  <2> HIDE DEF h
  <2> QED
    BY <2>1 DEF SumFunction
<1>15. {k \in DOMAIN ledger : k[2] \in W} = G
  BY <1>10
<1>16. RowsOnDays(rows, W) = SumFunction(h)
  BY DEF RowsOnDays
<1> HIDE DEF G, S, e, h
<1>17. OnDays(ledger, W) = SumFunctionOnSet(ledger, G)
  BY <1>15 DEF OnDays
<1>18. OnDays(ledger, W) = RowsOnDays(rows, W)
  BY <1>11, <1>12, <1>13, <1>14, <1>16, <1>17
<1> QED
  BY <1>7, <1>9, <1>10, <1>18

\* Period by period.
LEMMA PeriodsAddUp ==
    ASSUME NEW range \in ReportRange,
           NEW ledger, IsFiniteSet(DOMAIN ledger), \A k \in DOMAIN ledger : ledger[k] \in Int
    PROVE  OverPeriods(ledger, range) = OnDays(ledger, WholeOf(range))
<1> SUFFICES ASSUME NEW periods, periods = PeriodsOf(range),
                    NEW lo, lo = Min({p.first : p \in periods}), NEW hi, hi = Max({p.last : p \in periods})
             PROVE  OverPeriods(ledger, range) = OnDays(ledger, lo..hi)
  BY DEF WholeOf
<1> DEFINE P(d) == ReportPeriodContaining(range.unit, d)
           S == {k \in DOMAIN ledger : k[2] \in lo..hi}
           c == [k \in S |-> P(k[2])]
           part(p) == {k \in S : c[k] = p}
           e == [p \in periods |-> SumFunctionOnSet(ledger, part(p))]
           t == [p \in periods |-> Total(ledger, p)]
<1>1. /\ IsFiniteSet(periods)
      /\ \A x \in lo..hi : P(x) \in periods
      /\ \A x \in lo..hi : \A p \in periods : x \in p.first..p.last <=> P(x) = p
      /\ \A p \in periods : p.first..p.last \subseteq lo..hi
  BY PeriodsTile DEF PeriodsOf
<1> HIDE DEF P
<1>2. \A k \in S : k \in DOMAIN ledger /\ k[2] \in lo..hi /\ c[k] = P(k[2])
  OBVIOUS
<1>3. ASSUME NEW p \in periods PROVE InPeriod(ledger, p) = part(p)
  <2>1. \A k \in DOMAIN ledger : k[2] \in p.first..p.last <=> k[2] \in lo..hi /\ P(k[2]) = p
    BY <1>1
  <2>2. part(p) = {k \in DOMAIN ledger : k[2] \in lo..hi /\ P(k[2]) = p}
    OBVIOUS
  <2>3. InPeriod(ledger, p) = {k \in DOMAIN ledger : k[2] \in p.first..p.last}
    BY DEF InPeriod
  <2> HIDE DEF part
  <2> QED
    BY <2>1, <2>2, <2>3
<1>4. IsFiniteSet(S)
  <2>1. S \in SUBSET DOMAIN ledger
    OBVIOUS
  <2> QED
    BY <2>1, FS_Subset
<1>5. SumFunctionOnSet(e, periods) = SumFunctionOnSet(ledger, S)
  <2>1. \A k \in S : c[k] \in periods /\ ledger[k] \in Int
    BY <1>1, <1>2
  <2> HIDE DEF S, c
  <2> QED
    BY <1>1, <1>4, <2>1, SumByGroups
<1>6. SumFunctionOnSet(t, periods) = SumFunctionOnSet(e, periods)
  <2>1. \A p \in periods : e[p] = SumFunctionOnSet(ledger, part(p)) /\ t[p] = Total(ledger, p)
    OBVIOUS
  <2> HIDE DEF part, e, t
  <2>2. \A p \in periods : t[p] = e[p]
    BY <1>3, <2>1 DEF Total
  <2> QED
    BY <1>1, <2>2, SumOfTheSame
<1>7. SumFunction(t) = SumFunctionOnSet(t, periods)
  <2>1. DOMAIN t = periods
    OBVIOUS
  <2> HIDE DEF t
  <2> QED
    BY <2>1 DEF SumFunction
<1>8. OverPeriods(ledger, range) = SumFunction(t)
  BY DEF OverPeriods
<1>9. OnDays(ledger, lo..hi) = SumFunctionOnSet(ledger, S)
  BY DEF OnDays
<1> HIDE DEF S, e, t
<1> QED
  BY <1>5, <1>6, <1>7, <1>8, <1>9

\* Group by group.
LEMMA GroupsAddUp ==
    ASSUME NEW ledger, IsFiniteSet(DOMAIN ledger), \A k \in DOMAIN ledger : ledger[k] \in Int, NEW p, NEW groupOf
    PROVE  SumFunction(Grouped(ledger, p, groupOf)) = Total(ledger, p)
<1> DEFINE S == InPeriod(ledger, p)
           c == [k \in S |-> groupOf[k[1]]]
           G == {c[k] : k \in S}
           e == [g \in G |-> SumFunctionOnSet(ledger, {k \in S : c[k] = g})]
<1>1. S \in SUBSET DOMAIN ledger
  BY DEF InPeriod
<1>2. \A k \in S : c[k] = groupOf[k[1]]
  OBVIOUS
<1>3. Grouped(ledger, p, groupOf) = e
  <2>1. Grouped(ledger, p, groupOf) = [g \in {groupOf[k[1]] : k \in S} |->
                                         SumFunctionOnSet(ledger, {k \in S : groupOf[k[1]] = g})]
    BY DEF Grouped
  <2>2. {groupOf[k[1]] : k \in S} = G
    OBVIOUS
  <2>3. \A g : {k \in S : groupOf[k[1]] = g} = {k \in S : c[k] = g}
    OBVIOUS
  <2> HIDE DEF S, c, G
  <2> QED
    BY <2>1, <2>2, <2>3
<1>4. \A k \in S : c[k] \in G
  OBVIOUS
<1> HIDE DEF S, c
<1>5. IsFiniteSet(S) /\ \A k \in S : ledger[k] \in Int
  BY <1>1, FS_Subset
<1>6. IsFiniteSet(G)
  BY <1>5, ImageIsFinite
<1> HIDE DEF G
<1>7. SumFunctionOnSet(e, G) = SumFunctionOnSet(ledger, S)
  BY <1>4, <1>5, <1>6, SumByGroups
<1>8. SumFunction(e) = SumFunctionOnSet(e, G)
  <2>1. DOMAIN e = G
    OBVIOUS
  <2> HIDE DEF e
  <2> QED
    BY <2>1 DEF SumFunction
<1>9. Total(ledger, p) = SumFunctionOnSet(ledger, S)
  BY DEF Total, S
<1> QED
  BY <1>3, <1>7, <1>8, <1>9

\* Under a project, all below it comes through one of its children.
LEMMA ThroughAChild ==
    ASSUME NEW par, NEW known, NEW q \in known, NEW top \in AncestorsOrSelf(par, known, q), q # top
    PROVE  \E c \in AncestorsOrSelf(par, known, q) : par[c] = top
<1> DEFINE A == AncestorsOrSelf(par, known, q)
           closed == {S \in SUBSET known : q \in S /\ ClosedUpwards(par, known, S)}
           S == A \ {top}
<1>1. A = {x \in known : \A C \in closed : x \in C}
  BY DEF AncestorsOrSelf
<1> SUFFICES ASSUME \A c \in A : par[c] # top PROVE FALSE
  OBVIOUS
<1>2. q \in A
  BY <1>1
<1>3. \A x \in A : par[x] \in known => par[x] \in A
  BY <1>1 DEF ClosedUpwards
<1>4. A \in SUBSET known
  BY <1>1
<1> HIDE DEF A
<1>5. S \in SUBSET known /\ q \in S /\ ClosedUpwards(par, known, S)
  BY <1>2, <1>3, <1>4 DEF ClosedUpwards
<1>6. S \in closed
  BY <1>5
<1>7. top \in A
  BY DEF A
<1> HIDE DEF S
<1>8. top \in S
  BY <1>1, <1>6, <1>7
<1> QED
  BY <1>8 DEF S

\* What is in the scope of a project is in one of its branches.
LEMMA EveryTaskHasAGroup ==
    ASSUME WorkLogInv, NEW u \in User, NEW top \in VisibleProjects(u), NEW t \in TaskScope(u, top)
    PROVE  GroupOf(u, t, top) # NoProject
<1> DEFINE known == VisibleProjects(u)
           q == tasks[t].project
<1>1. known \in SUBSET Project /\ NoProject \notin known /\ top # NoProject
  BY WorkLogAssumption DEF VisibleProjects
<1>2. t \in Owned(u) /\ q \in SubtreeIds(Parent, known, top)
  BY <1>1 DEF TaskScope
<1>3. q \in known /\ top \in AncestorsOrSelf(Parent, known, q)
  BY <1>2 DEF SubtreeIds
<1> HIDE DEF known, q
<1>4. GroupOf(u, t, top) = GroupUnder(Parent, known, q, top)
  BY <1>2 DEF GroupOf, known, q
<1>5. CASE q = top
  BY <1>1, <1>3, <1>4, <1>5 DEF GroupUnder
<1>6. CASE q # top
  <2> DEFINE branch == {c \in AncestorsOrSelf(Parent, known, q) : Parent[c] = top}
  <2>1. branch # {}
    BY <1>3, <1>6, ThroughAChild
  <2>2. branch \in SUBSET known
    BY DEF AncestorsOrSelf
  <2>3. GroupUnder(Parent, known, q, top) = CHOOSE c \in branch : TRUE
    BY <1>1, <1>3, <1>6, <2>1 DEF GroupUnder
  <2> HIDE DEF branch
  <2>4. (CHOOSE c \in branch : TRUE) \in known
    BY <2>1, <2>2
  <2> QED
    BY <1>1, <1>4, <2>3, <2>4
<1> QED
  BY <1>5, <1>6

\* What BreakdownAddsUp says of the rows of one reader in one part of the tree.
AddsUp(top, rows, ledger, groupOf) ==
    /\ \A range \in ReportRange :
          /\ OverPeriods(ledger, range) = RowsOnDays(rows, WholeOf(range))
          /\ \A p \in PeriodsOf(range) : SumFunction(Grouped(ledger, p, groupOf)) = Total(ledger, p)
    /\ top # NoProject => \A r \in rows : groupOf[r.task] # NoProject

ScopeRows(u, top) == {r \in LogsOf(u) : r.task \in TaskScope(u, top)}
ScopeLedger(u, top) == Ledger(LogsOf(u), TaskScope(u, top))
Groups(u, top) == [t \in Task |-> IF t \in DOMAIN tasks THEN GroupOf(u, t, top) ELSE NoProject]

LEMMA ReportAddsUp ==
    ASSUME WorkLogInv, Lengths, NEW u \in {r.user : r \in logs}, NEW top \in VisibleProjects(u) \cup {NoProject}
    PROVE  AddsUp(top, ScopeRows(u, top), ScopeLedger(u, top), Groups(u, top))
<1> DEFINE rows == ScopeRows(u, top)
           ledger == ScopeLedger(u, top)
           groupOf == Groups(u, top)
<1>1. LogsOf(u) \in SUBSET logs
  BY DEF LogsOf
<1>2. IsFiniteSet(LogsOf(u))
  BY <1>1, RowsAreFinite, FS_Subset
<1>3. \A r \in LogsOf(u) : Seconds(r) \in Int
  <2>1. ASSUME NEW r \in logs PROVE Seconds(r) \in Int
    <3>1. r.hours \in Int /\ r.seconds \in Nat \cup {NoSeconds}
      BY DEF Lengths
    <3> QED
      BY <3>1 DEF Seconds
  <2> QED
    BY <1>1, <2>1
<1>4. ledger = Ledger(LogsOf(u), TaskScope(u, top)) /\ rows = {x \in LogsOf(u) : x.task \in TaskScope(u, top)}
  BY DEF ScopeLedger, ScopeRows
<1>5. groupOf = [t \in Task |-> IF t \in DOMAIN tasks THEN GroupOf(u, t, top) ELSE NoProject]
  BY DEF Groups
<1> HIDE DEF rows, ledger, groupOf
<1>6. IsFiniteSet(DOMAIN ledger) /\ \A k \in DOMAIN ledger : ledger[k] \in Int
  BY <1>2, <1>3, <1>4, LedgerAddsUp
<1>7. \A W : OnDays(ledger, W) = RowsOnDays(rows, W)
  BY <1>2, <1>3, <1>4, LedgerAddsUp
<1>8. \A range \in ReportRange : OverPeriods(ledger, range) = RowsOnDays(rows, WholeOf(range))
  BY <1>6, <1>7, PeriodsAddUp
<1>9. \A p : SumFunction(Grouped(ledger, p, groupOf)) = Total(ledger, p)
  BY <1>6, GroupsAddUp
<1>10. ASSUME top # NoProject, NEW r \in rows PROVE groupOf[r.task] # NoProject
  <2>1. r \in logs /\ r.task \in TaskScope(u, top)
    BY <1>1, <1>4
  <2>2. r.task \in DOMAIN tasks /\ r.task \in Task /\ u \in User
    BY <2>1 DEF WorkLogInv, LogRows, TaskRows
  <2>3. GroupOf(u, r.task, top) # NoProject
    BY <1>10, <2>1, <2>2, EveryTaskHasAGroup
  <2> QED
    BY <1>5, <2>2, <2>3
<1>11. AddsUp(top, rows, ledger, groupOf)
  BY <1>8, <1>9, <1>10 DEF AddsUp
<1> QED
  BY <1>11 DEF rows, ledger, groupOf

\* Every second that a report counts is in exactly one of its periods and one
\* of its groups, for any calendar, tree of projects and rows, whatever was
\* archived, deleted or lost from sight (breakdown, report_periods_between,
\* DailyLedger, group_under).
THEOREM ReportsAddUp == WorkLogSpec => []BreakdownAddsUp
<1>1. WorkLogInv /\ Lengths => \A u \in {r.user : r \in logs} : \A top \in VisibleProjects(u) \cup {NoProject} :
                                  AddsUp(top, ScopeRows(u, top), ScopeLedger(u, top), Groups(u, top))
  BY ReportAddsUp
<1>2. WorkLogInv /\ Lengths => BreakdownAddsUp
  BY <1>1 DEF BreakdownAddsUp, AddsUp, ScopeRows, ScopeLedger, Groups, OverPeriods, RowsOnDays, WholeOf, PeriodsOf
<1> QED
  BY <1>2, InvAlways, LengthsAlways, PTL

==============================================================================
