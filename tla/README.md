# WBS: a verification project in TLA+

WBS is a web application for planning work in teams: a FastAPI server over a SQL
database (SQLite or MariaDB), a React frontend, and sign-in through an OpenID
Connect provider. This directory holds TLA+ modules that model the parts of the
server where state is shared and changed by several people or processes, TLC
configurations that check them on small instances, an abstract specification of
what a start of the program promises about the database, and TLAPS proofs, for
every number of projects, people, tasks, days, sessions and threads, of most of
the safety properties that the runs check.

## 1. Inventory

| Component | State | Operations | What is hard | What makes it correct |
|---|---|---|---|---|
| Project tree and membership (`project_use_cases`, `project_member_use_cases`, `project_membership`, `project_tree`, `project_visibility`) | `projects` (parent, sort order), `project_members` (role, capacity) on top projects only, `users.can_create_projects` | create, move, delete; add, remove, change role, change capacity; allow creator | every guard looks at the part of the forest its caller sees; member rows appear and disappear as projects become or stop being roots | a forest; rows on roots only; a manager for every root; nobody widens their own access; whoever carries a project across trees manages both |
| Overlapping requests (thread pool, one database session per request) | what each handler has read | check, then write | reads hold no lock; the application alone refuses cycles and the last manager's leaving | a handler that reads first and writes later implements the atomic one |
| Tasks and milestones (`task_use_cases`, `task_removal_use_cases`, `milestone_use_cases`) | project, parent task, milestone, creator of each row, soft deletion | create, update (PUT), bulk move, delete; the project requests that reach them | unclassified tasks are seen by their creator only, so a task can leave the sight of a handler in the middle of it | subtasks in their parent's project; no parent cycle; milestones within reach; no row pointing to a deleted project; no task revealed by one's own request |
| Dependencies (`dependency_use_cases`) | rows predecessor/successor without an owner | add, remove | the cycle check walks what the caller sees | no cycle |
| Team calendars (`team_calendar_use_cases`, `project_calendar`) | weekdays on roots, days off and extra workdays on any project, personal leave | set weekdays, add/remove days, import holidays, leave; move and delete of projects | layers, and copying them when a project becomes a root | rows in their place; becoming a root changes no plan |
| Sign-in and sessions (`authentication_use_cases`, `routers/auth`) | login transactions, state cookie, session rows, access tokens, identity links | start login, start renewal, callback, decline, logout, reissue | duplicate callbacks, a renewal racing a logout, tokens believed without the database | one sign-in per round trip; ended sessions stay ended; renewals keep the person |
| Back-channel logout (`backchannel_logout_use_cases`) | recorded notices | receive | redelivery, a crash between recording and ending | a redelivery ends nothing that began later |
| Reconciliation (`reconcile_federated_users`, `reconciliation`, `interval_worker`) | the round under way | fetch the list, end sessions, unlink | commits in the middle of a round, lost notices, failed rounds | whoever is stopped at the provider is signed out in the end |
| Completion forecast (`completion_forecast`, `completion_forecast_use_cases`, `task_progress_board`) | none kept; the state of one computation: remaining hours, starts, ends, hours left of each seat's day | classify, wait for what cannot be forecast, lay out day by day and seat by seat, raise ends, roll up | tasks of different seats wait for each other within a day; dependencies on parents; floors that move other floors; a horizon | dates respect dependencies, nobody idles, unknowns and rings get no dates, it ends |
| Work logs and the life of a task (`work_log_use_cases`, `task_removal_use_cases`, `task`, `task_status`) | `work_logs` (by hand, own closings, from the Tracker); status, completion, remaining hours, archive and deletion of tasks | create, update, delete a log; update, archive, delete a task | hours that arrive while a task is changed or deleted | completion time only on done tasks; every hour counted once |
| Tracker closed time, machine router (`tracker_closed_time_use_cases`, `machine`) | the rows of each delivered period | replace, withdraw | periods sent again, out of order, overlapping, lost half-way | a period holds what was last sent for it |
| Inbox (`inbox_use_cases`) | items and the task each became | create, delete, convert | double conversion (nothing forbids it) | an item points to a task that exists |
| Actuals (`actuals_use_cases`, `daily_ledger`, `report_period`, `half_month_period`, `remaining_review`) | none | breakdown per period and branch, reasons to review the remaining hours | rows of deleted, archived or invisible tasks; which closing is the latest | a report adds up; whoever has closed hours delivered is asked about the open tasks of their board |
| Schema migration and start (`schema_migration`, `session`, `entrypoint.sh`, `migrations/versions`, `models`) | tables, foreign keys, AUTOINCREMENT, `alembic_version`, the open transaction, the container | start, adopt, statement, record, commit, seed, serve; crash, deploy, downgrade, reset; what people enter meanwhile | 36 revisions in both directions, databases from before Alembic, a crash between statements | all or nothing; the recorded revision tells the tables; the tables are those of the models; no rows lost; it comes up |
| Categories, settings, dashboard, Gantt | rows of one owner; none | | | not modelled: no interaction, or no state |
| OIDC provider, discovery, HTTP gateways, admin token | caches | HTTP, cryptography | | external to the models |
| Frontend | | | one renewal shared by many waiting requests and tabs | not modelled |

Interaction: every request of tasks, milestones, dependencies and calendars asks
the project tree and the member rows what its caller sees and manages;
`move_project` and `delete_project` write to all of these tables in one
transaction; sign-in decides who the caller is. Reconciliation and back-channel
logout delete the session rows that sign-in writes. Reports and the forecast read
tasks, work logs, dependencies and calendars; the Tracker writes work logs. The
start of the container decides on which tables all of this runs.

## 2. Modules

```
ProjectTree <- Projects <- ProjectsProofs
                  ^-- ProjectOrdering  (sort_order)          \
                  ^-- ProjectRequests  (overlapping handlers) > <- ProjectVariantsProofs
                  ^-- TeamCalendars    (calendar tables)     /
                  ^-- Workspace <- TaskDependencies        <- WorkspaceProofs
        (these two proof modules extend ProjectsProofs too)
ProjectTree <- Actuals <- WorkLogs                         <- WorkLogsProofs
ProjectTree <- CompletionForecast                          <- ForecastProofs
        (these two extend SetLemmas: finite sets and their sums)
SsoSignIn <- SsoReconciliation                             <- SsoProofs
SchemaRevisions <- OrmModels <- SchemaMigration            <- MigrationProofs
                                    \--refines--> AtomicUpgrade
```

**ProjectTree** states the walks of `project_tree.py` (ancestors, root, subtree,
would_cycle, milestone_reachable) as least closed sets. The second parameter is
the set of projects that were loaded; `find_all` loads what the user sees, and a
parent outside that set ends the walk, as in the code.

**Projects** has one action per request on projects and members, run to its
commit, with the guards in the order and on the view the code uses:
`Visible(u)` is the SQL of `visible_project_ids`, `TopOf(u, p)` the root in the
tree u has loaded. Ids come from AUTOINCREMENT and are never used again.
Columns no guard reads (name, colour, code, description, status) are left out,
and with them `update_project`. The actions are projections: what the same
handlers do to further tables is conjoined to them in the modules below, in the
same step.

**ProjectOrdering** adds `sort_order` to create, move and delete.

**ProjectRequests** splits each request where it stops reading and starts
writing. `Check...` evaluates the guards of Projects and keeps what was loaded;
`Write...` applies the SQL to the tables as they are by then (an UPDATE of a project
needs its row and writes changed columns only, a DELETE takes what is there).
`WriteMember` is `save` of the member repository, which all requests that add a
person, change a role or change a capacity end with: it selects the row once more,
writes role and capacity together as the request has them, and inserts the row
when it has gone. `Fail` is a refused flush or commit.
This is the behaviour of SQLite in its default mode, where SQLAlchemy begins the
transaction at the first write, and of READ COMMITTED elsewhere. Foreign keys are
not enforced on SQLite because nothing turns them on.

**Workspace** adds tasks and milestones with the columns that say where they
belong. Handlers look again after they have written, so the operators take the
columns as parameters: `UpdateTask` saves the row, looks up the subtree with the
*new* project deciding what the user still sees, writes the subtree's project,
and takes off milestones out of reach. Whether a task has logged hours (then
deletion is refused) may go either way.

**TaskDependencies** adds the dependency rows.

**TeamCalendars** adds weekdays, days off, extra workdays and leave, the copying
of inherited days when a project becomes a root, and the import of holidays (a
constant set). A day is a model value; names and hours of days are left out.

**SsoSignIn** models round trips to the identity provider, the state cookie, the
callback split at its commits (read the transaction, conditional DELETE, resolve
the person, extend or insert the session row), access tokens, renewal, reissue
after a change of settings, logout, and notices in two commits. There is no
clock: transactions and session rows may be treated as expired whenever the code
sweeps them, and a token goes from fresh to old to expired to unreadable. Two
fields of a session row, `born` and `heard`, are history used by properties
only. The provider's answers, restarts and the random ids are external.
Abstracted: a response that is lost on its way to the browser, and stopped local
accounts (`is_active`), which nothing in the application sets.

**SsoReconciliation** adds the provider's list of people and the rounds of the
worker, one commit per step. A round that fails is a round that does not happen;
a state the server does not recognise leaves the person alone and is left out.

**Actuals** holds the pure parts of the reports: rounding of seconds to hundredths
of hours, half months, weeks and months and the periods that touch a range, the
ledger per task and day, `group_under`, and `remaining_review_reasons`.

**WorkLogs** has rows of three sources (by hand, the closings WBS itself made
before the Tracker existed, the Tracker), the columns of tasks that hours have to
do with, and the inbox. A person's request is one step. A delivery of the Tracker
reads first (which tasks exist, which rows the period has) and writes later, like
the requests of ProjectRequests, so two threads can overlap with each other and
with hand work; `FailDelivery` is a refused commit or the end of the process.
`sent` is history: what was last written for each period, `Mixed` after two
deliveries of one period overlapped. Timestamps are not numbers: `seen[t]` holds
the rows that are older than the task's last save, which is all that
`updated_at < closed_at` tells. The team is the members of one root; people leave
and come back (`ChangeTeam`). Tasks get subtasks (`CreateSubtask`) and are archived:
`Reasons` is asked of what `list_tasks` lists, which archived tasks are not part of,
and a task with subtasks is asked about by its subtasks only; the board that decides
whether there are subtasks counts archived ones too. In the database the id of a
row never comes again, because rows are only ever marked as deleted. The model has
few ids: it gives a new row the least one that no row has and no delivery under way
has read, so an id comes again only when nothing remembers it.

**CompletionForecast** is one call of `CompletionForecaster.forecast` as a state
machine, because what is hard in it is an order of events: the rounds over the
seats within a day, a task that becomes ready because another began, the passes
that raise ends. `inst` is the input, chosen in the initial state among the
scenarios of the MC module and never changed. Seats are served in any order the
dictionary of the code may have.

**SchemaRevisions** lists what each of the 36 revisions does, upwards and
downwards, statement by statement, for tables, foreign keys, the columns that
some revision adds or drops, and AUTOINCREMENT. **OrmModels** lists what
`models.py` expects. **SchemaMigration** runs them: a start opens a transaction,
adopts a database from before Alembic or not, executes statement after statement,
records each revision, commits, seeds, serves. It follows three kinds of rows that
revisions move: holidays (0010, 0013), root projects and managers (0024), and who
may create (0032). While the server runs people change these rows too: they sign in,
enter holidays, create root projects, become managers of a root and leave it, its
maker included, as long as another manager stays (`AddManager`, `RemoveManager`), and
the mark of 0032 is granted and revoked with `scripts/grant_project_creator.py` in
the running container (`AllowCreator`). A deployment changes the image or the mode;
both together are two deployments. A crash rolls the transaction back, which is what
`migration_engine` arranges by taking over `BEGIN` from the driver. **AtomicUpgrade**
says the same with no statement, transaction or crash in sight.

The MC modules give constants their values: symmetry sets, the initial team of
the two-person task runs (a state reachable by project requests, so that the
search is spent on tasks), and the logins and notices of the SSO runs.

## 3. What TLC checks

| Run | Instance | Shows |
|---|---|---|
| `projects` | 3 projects, 2 people, 1 capacity, positions 0..2 | forest, live parents, rows on roots, a manager for every root; `CrossingTakesBothManagers`; `BecomingRootChangesNobody`; from every reachable numbering (gaps, ties) every allowed move lands at its place and keeps the other siblings in order |
| `requests_serial` | 3 projects, 2 people, 1 thread | `ImplementsProjects`: read-then-write refines the atomic handlers; `NobodyPromotesThemselves` |
| `workspace_alone` | 2 projects, 2 tasks, 1 milestone, 1 person | milestones within reach, no row on a deleted project |
| `workspace_team` | 2 projects, 2 tasks, 2 people who may both create projects | nobody's own request shows them a task they did not see |
| `dependencies` | 1 project, 3 tasks, 1 person | no cycle of dependencies or parents, subtasks with their parent |
| `calendars` | 3 projects, 1 day, 1 person | rows in place; becoming a root keeps the calendar |
| `sso` | 2 people (one with an account from before, who may be removed; one who may be blocked and allowed again), 1 browser, 2 round trips, 2 callback threads, 1 notice, 1 restart | the safety properties of sign-in, and `BlockedLosesAccess` |
| `worklogs` | 2 people, 2 tasks and one more from the inbox or as a subtask, a root with a child, 4 deliveries of 3 periods that overlap (one invalid, one with too few seconds to count or none, one for a task that may not exist), hand entries on one day, 2 threads, 4 requests | `PeriodIsAsLastSent`, `BreakdownAddsUp`, `AskedAfterClosing` |
| `forecast` | 3 tasks, 2 people, 6 loads x 3 placements x 2 task trees x every pair of dependencies of the four kinds with lags, a calendar with holidays, leave of half a day | `StartsRespectDependencies`, `NoIdleHands`, `RingsWait`, `UnknownsArePassedOn`, `FinishFloorsHold`, `ForecastEnds` |
| `startup` | the real 36 revisions, releases 6, 12, 31 and 36, 2 people, an empty database and every database from before Alembic with late or odd columns and accounts of both, 3 disruptions, 3 changes by people | `UpgradesAreAtomic` (refinement of AtomicUpgrade), `VersionTellsTheSchema`, `StatementsFollowOn`, `TablesAreTheModels`, `HolidaysKept`, `RootsKeepTheirPeople`, `EventuallyServes` |

Two runs show a disagreement between the code and what it says of itself:

| Run | Trace |
|---|---|
| `race_last_manager` | Two managers of one tree leave (or step down) in overlapping requests. `_keep_a_manager` of each still sees the other; both rows go, and nobody can manage the tree. |
| `sso_removed` | A round ends the sessions of a person removed at the provider; a callback under way writes its session; the round removes the link. No later round or notice finds the row, and `reissue_access`, which looks neither at `expires_at` nor at the link, gives a new token at every save of the settings. |

Further behaviours the models reach, described here without a run of their own:

* Two overlapping moves, 1 under 2 and 2 under 1, are both legal on what they read
  and make a cycle, although the application alone is to refuse cycles
  (`project_use_cases.py:117`).
* A manager makes somebody else's task unclassified with PUT. After its row is
  saved the manager no longer sees it, `subtree_ids` is empty, and the subtasks
  stay in the project, although "moving a parent moves its descendants"
  (`update_task`). `move_to_project` collects the branch first and is not affected.
* With two overlapping requests, `add_member` may insert a row on a project that
  `move_project` has just put under another one, and `create_project` may put a
  child under a project that is being deleted.
* With two people, a task can be put under its own subtask when the path between
  them runs through a task the mover does not see (a → b → c, b made unclassified
  by somebody else); a milestone stays on a task that its manager made
  unclassified, because `detach_unreachable_milestones` looks at what the caller
  sees after the move; a cycle of dependencies can be closed over rows the adder
  does not see.
* `create_project` numbers a new project by the count of its siblings ("to the
  end of the siblings"), and deletions leave gaps: with siblings 0, 1, 2 and the
  first two deleted, the new project is listed before the one numbered 2.
* `import_japanese_holidays` puts a day off beside an extra workday on the same
  day, which `add_day_off` would have removed.
* A restart between recording a notice and ending its sessions loses the notice;
  the redelivery is answered without ending anything. Reconciliation makes up for
  it when the person is blocked.
* Completing one round trip clears the state cookie as a whole, so a sign-in under
  way in another tab fails; a renewal completed late puts its token over that of
  somebody who signed in in the meantime.
* Two deliveries of one period that overlap (a timeout and its retry) both remove
  the rows they read and both write: every row stands twice until the next
  delivery, although `machine.py:119` says the result is the same however often a
  period is sent. This is the exception in `PeriodIsAsLastSent`.
* A task whose rows round to 0.00 h (less than 18 seconds) can be deleted, and a
  delivery that found a task may write hours to it after its deletion: a deleted
  task can have hours, which `task_removal_use_cases.py:3` wants to avoid. Its
  hours are then in the group without a name; the totals stay right.
* Correcting a delivered row by hand changes `hours` and not `duration_seconds`, so
  the reports (seconds) and the task's actual hours part ways.
* The question about stale remaining hours goes away when a newer period arrives
  that has no hours of the task.
* An inbox item can be converted more than once; each conversion makes a task.
* The forecast of an FF or SF successor is not withheld when its predecessor lies
  beyond the horizon or in a ring, nor that of an SS successor when its predecessor
  has begun and runs past the horizon (or is a parent of which one leaf has begun),
  although `_wait_for_unforecast` says that a successor gets no dates when its
  predecessor has none. `UnknownsArePassedOn` therefore says two things of a task
  with dates: over dependencies of any kind, however many and through parents, it
  does not depend on a task without assignee, hours or capacity; and what it has to
  begin after (FS) has dates or is finished. Ends raised after the
  layout can pass the start of an FS successor. Which of two seats is served first
  can change the dates when shares become ready in different rounds.
* The downgrades of 0011, 0026, 0027 and 0028 rebuild tables without
  AUTOINCREMENT; after the next upgrade the ids of deleted rows are used again,
  although `models.py:49` says they are not (`downgraded` in `TablesAreTheModels`).
* In mode `reset` the database is removed at every restart of the container.

### Bounds

Three projects are enough for a root, a child and a grandchild or a second tree,
which every rule about trees needs; two people for one who may and one who may
not. Three tasks make a chain with a middle. One day suffices for calendars
because days do not interact. Two round trips are a login and a renewal of it, or
two competing logins; two threads are a callback and its duplicate; one notice and
its redeliveries; one restart. `MaxPosition`, `Trip`, `SessionId`, `MaxCrashes`
and `StateCapacity` (3 in the code; 2 with two round trips) are the named bounds.
Three periods of the Tracker are an older one, a newer one and one over both; four requests are two
deliveries of one period, a change by hand and a withdrawal or a third delivery.
Months of four and five days with halves of two and weeks of three days keep every
boundary within nine days. A horizon of a few days lets one load outlast it. The
releases of `startup` lie before and after each revision that moves rows; three
disruptions are a crash, a downgrade and a deployment, and three changes by people
are a root, a second manager and the maker's leaving. Only one of the releases has
the mark of 0032, so that it is kept between two such releases is shown by the proof
alone. `MaxRequests`, `LogIds`,
`MaxEntries`, `MaxDisruptions` and `Horizon` are the further named bounds.
The SSO runs, `worklogs`, `forecast` and `startup` turn deadlock checking off
because round trips, requests and disruptions of the models run out, or because
the computation ends; everywhere else it is on.

The type invariant of a module that is built on another one is the first conjunct
of a property of its run (`ContentsHaveAProject`, `CalendarRowsInPlace`,
`VersionTellsTheSchema`, `MoveKeepsTheOthersInOrder`, `ReconcileTypeOK`).

Symmetry is used for people, tasks and threads in runs without liveness only.

### Fairness

`ReconcileSpec`. Rounds: `run_once` swallows every exception and
`_run` returns after each interval, so fetching and applying are weakly fair,
given that the provider is reachable again and again and that restarts are finite
in number. Time: a token ages. Nothing is assumed of browsers, callbacks, notices
or the provider's operators; a person may save the settings as often as they like.

`MigrationSpec`: the steps of a start are weakly fair because the container is
restarted (`restart: unless-stopped`) and a running process runs on; disruptions
are finite in number. Nothing is assumed of operators and people.

`ForecastSpec`: the computation is a call that runs on.

## 4. What is proved

`ProjectsProofs` proves, for every set `Project` of naturals, every `User` and
`Capacity`, under `ProjectAssumption` and `CapacityAssumption` only:

* `TypesHold`, `ProjectsStayAForest`, `MembersStayOnRoots`, `RootsKeepAManager`:
  `Spec => []TypeOK`, `[]IsForest`, `[]MembersOnRoots`, `[]RootHasManager`.

None of these is inductive alone. `would_cycle` looks at the tree the mover sees;
that it is enough rests on the mover seeing a tree wholly or not at all
(`VisibleUpwards`), which holds because member rows stand on roots. That rows stay
on roots rests on `root_of` finding a root (`TopIsRoot`), which needs the absence
of cycles (`RootInTree`). Both need that no parent is missing, and the copying of
rows to a new root needs a manager on the old one. `IInv` is the conjunction of
the five, and each action has its lemma. Acyclicity is stated without a walk (no
nonempty set of projects is closed under the parent), which makes
`MoveMakesNoCycle` provable without induction over paths.

The same module proves the action properties from the same `IInv`:
`BecomingRootDisturbsNobody`, `CrossingNeedsBothManagers` and
`NobodyLetsThemselvesIn` (`Spec => BecomingRootChangesNobody`,
`Spec => CrossingTakesBothManagers`, `Spec => NobodyPromotesThemselves`). The second is
about the person whose request the step is (`ActsAs`): that somebody manages both trees
is not enough (ADR-0066). The module's
lemmas are about any tree, so that they serve for the state before a step and for
the one after: a chain has one top (`OneTop`), a project shares it with its
ancestors (`SameTop`), cutting a branch off makes its head the top of everything
under it (`TopAfterCut`), hanging it elsewhere gives it the top of the new place
(`TopAfterMove`), and a leaf that comes or goes changes no other top
(`TopWithoutLeaf`). `IInv` ties this to people: one sees a project exactly when
one has a row on its root (`VisibleFromRoot`), and the root a handler finds in the
part of the tree its user sees is the true one (`TopIsTreeOf`). Rights are thus
rows of roots (`RightsAreRows`), and each action is left with showing what it does
to its user's row on each project's root.

`ProjectVariantsProofs` is about the three modules that add to the requests on
projects. In its first part it shows that the sort orders add no behaviour
(`OrderingImplementsProjects`: `OrderingSpec => Spec`), so that the theorems hold of
the specification that the run `projects` checks (`OrderedProjectsAreSafe`).
`MovesKeepTheOthersInOrder` proves `MoveKeepsTheOthersInOrder` for any number of
siblings: sorting by `sort_order` and id is a strict order (`BeforeIsAnOrder`), so
the rank of a sibling grows along it (`RankGrows`), and counting shows that n
siblings have the ranks 0 to n - 1, each once (`RanksAreAllTheIndices`). The
invariant is `IInv`, numbers in the column and finitely many rows.

Its second part is the refinement `ImplementsProjects`, under the hypothesis
`OneAtATime`: no two threads are inside a request at the same moment, which is all
that one thread can do and what two threads do when they are lucky. Without it the
refinement is false, as the run `race_last_manager` shows. `ChecksHold` says of a
request that has read that what it read is what the tables hold now and that the
guards of Projects hold of it; a write is then the step of Projects. From that,
`SerialRequestsAreSafe` transfers the forest, the rows on roots, the managers and
`NobodyPromotesThemselves`.

Its third part proves `CalendarRowsStayInPlace` (`CalendarRowsInPlace`,
inductive with `IInv`) and `BecomingRootKeepsThePlan` (`BecomingRootKeepsCalendar`).
The second is about chains: the nearest ancestor with a mark decides about a day;
cutting a chain at the project that becomes a root leaves the part below it as it
was (`ChainAfterCut`), and the marks copied to the new root are those that the part
above would have decided (`MarkAfterCut`). That a nearest one exists needs that two
projects are not above each other (`AncestorsAntisymmetric`).

`WorkspaceProofs` proves for all people `RowsKeepTheirProject`
(`ContentsHaveAProject`) and `RequestsRevealNoTask` (`OwnStepsRevealNoTask`) from
`WorkspaceInv`: `IInv`, the property itself, and that rows refer to rows. The three
properties of where work belongs, and the absence of cycles of dependencies, are
false among people who do not see each other's rows (section 3). The theorems say
exactly where the line is:

* `FullViewKeepsWorkInPlace`: tasks stay a forest, subtasks stay in the project of
  their parent and milestones within reach as long as every request that puts a
  task, a milestone or a project elsewhere is made by somebody who sees every row
  before and after it (`InFullView`, an action; creating and deleting projects and
  changing members is free). People may join and leave, and any of them may work,
  so this is more than the case of one person. What makes it true is that the
  subtree `update_task` looks up after its write is then all that is under the task
  (`BranchIsDown`) and that detaching reaches every task (`DetachedIsWithinReach`).
* `FullViewKeepsDependenciesAcyclic`: no task waits for itself as long as whoever
  adds a dependency sees all there are (`AddedInFullView`).
* `AloneTasksStayATree`, `AloneSubtasksFollow`, `AloneMilestonesStayWithinReach`,
  `AloneDependenciesStayAcyclic`: with one person (`\A v, w \in User : v = w`) no
  condition is needed. A manager exists on every root, so the one person is a member
  everywhere (`OnePersonSeesAll`). These are the runs `workspace_alone` and
  `dependencies` for any number of projects, tasks and milestones.

`WorkspaceAssumption` asks for at least one person: the columns of a row that does
not exist yet hold some person, and the program creates a default user at its start.

`SsoProofs` proves of `ReconcileSpec`, for any number of people, browsers, round
trips, threads, sessions, notices and restarts, all five safety properties of the
run `sso`: `SignInRowsKeepTheirShape` (`ReconcileTypeOK`), `RoundTripsSignInOnce`
(`OneSignInPerTrip`), `EndedSessionsStayEnded` (`EndedStaysEnded`),
`RenewalsKeepThePerson` (`RenewalKeepsThePerson`) and `RedeliveriesEndNothingNew`
(`RedeliveryEndsNothingNew`). `SignInInv` adds to the shape of the rows that a
callback past its conditional DELETE holds a round trip whose row is gone and which
no other callback and no session has (`TripsSpentOnce`), that a renewal past its
checks is by the person it is for (`RenewalsMatch`), and that what a session counts
as heard was recorded and is not still to be dealt with (`HeardInTime`). Fairness is
not used.

`WorkLogsProofs` proves all four properties of the run `worklogs`, for any number of
people, tasks, threads, periods, rows and deliveries, under `WorkLogAssumption`,
`CalendarAssumption` (months are disjoint and longer than their first half) and
`InFlightAssumption` (a thread at rest is not one with a delivery):

* `RowsAreSound` (`WorkLogTypeOK`) and `PeriodsAreAsLastSent` (`PeriodIsAsLastSent`)
  from `WorkLogInv`. Its heart is `OldRowsStand`: a delivery carries the ids it read,
  and when it writes they still belong to rows of its period or to none, and to all of
  them unless it was overtaken. A new row gets an id that no row has and no delivery
  has read, and rows change neither person nor period, so corrections and deletions by hand cannot
  turn an id into another row. Counting rows is replaced by "no total twice"
  (`PeriodsHold`), which is inductive.
* `ArrivalsAreNoticed` (`AskedAfterClosing`): after the write the rows of the delivery
  are newer than the task's last save, the latest closing that is left is the one just
  delivered, and its hours are positive. It is about the person of the delivery and
  the open tasks without subtasks on that person's board. This needs the second invariant, `Lengths`:
  what the Tracker sends has a length in seconds.
* `ReportsAddUp` (`BreakdownAddsUp`). The walk of `report_periods_between` from one
  period to the day after meets the periods of all days of the range and no others
  (`WalkMeetsAll`); periods of one unit do not overlap (`OnePeriod`) and leave no day
  out (`PeriodsTile`). The ledger sums rows by task and day, the total sums a period's
  cells, the groups sum tasks: each is a sum by groups of the one before it
  (`LedgerAddsUp`, `PeriodsAddUp`, `GroupsAddUp`). That no task of a project is without
  a group is a fact about trees: the way up from a project below the top passes through
  exactly one child of the top (`ThroughAChild`, `EveryTaskHasAGroup`).

`SetLemmas` has what both this and the forecast need of finite sets: least and greatest
elements, a set put in a row, and sums. The library's induction theorems cannot be used
here, so the lemmas take a smallest counterexample instead: finite subsets are well
founded under inclusion (`SmallestSubset`), a sum over a set is one over a smaller set
and one summand more (`SumOfOneMore`), and so on up to `SumByGroups`, which says that
summing by groups and then the groups is summing.

`ForecastProofs` proves all safety properties of the run `forecast`, for any number of
tasks, people, seats and days, any trees and any dependencies with any lags, under
`HorizonAssumption` and `ScenarioAssumption` (hours are not negative, shares are
percentages, finitely many tasks and dependencies): `HoursAndDatesAreSound`
(`ForecastTypeOK`), `NothingBeginsTooEarly` (`StartsRespectDependencies`),
`HandsAreNotIdle` (`NoIdleHands`), `RingsAreReported` (`RingsWait`),
`UnknownsReachEveryone` (`UnknownsArePassedOn`) and `PassesAreEnough`
(`FinishFloorsHold`). `ForecastInv` is their common invariant (`ForecastStands`):

* While days are laid out, starts and ends are written once (`Dates`), so what a task
  waited for when it began still stands (`EndedBefore`), and whoever is in the queue of
  a seat may begin today (`Queued`). No task of a ring can be the first to begin
  (`RingsNeverBegin`).
* A seat is left when its hours are used up or everybody who may work has been served,
  and a task that is served and not done has a share of the day that is used up or
  leaves no hours (`Hands`); the queue is the order of the code, each task once
  (`ServingIsAnOrder`, `EveryRankIsTaken`).
* The code allows as many passes over the ends as there are leaves, and one.
  `FloorsRise` says why that suffices without a ring of FF dependencies: there is a set
  of tasks whose ends are final because their floors rest on each other only, every
  pass adds at least one task to it, and a pass that raises nothing ends them.

`MigrationProofs` proves the refinement `UpgradesAreAtomic` (`StartsAreAtomic`)
without opening a single revision: the statements write to the open transaction
only, and `MigrationInv` says how a transaction came about (by a start on a database
that is not newer than the release, or by a downgrade of a managed one) and that a
database from before Alembic got its stamp by being adopted.

It then opens all of them for `RootsNeverLoseTheirPeople` (`RootsKeepTheirPeople`) and
`NoHolidayIsLost` (`HolidaysKept`). Most statements leave the rows of people alone
(`QuietUps`, `QuietDowns`); the few others are listed with their place (`UpKind`,
`DownKind`). `KeptInv` follows the rows through a transaction: which rows a database at
a revision cannot have (no layers before 0010, no business calendars from 0013 on),
what the revision under way has already done, and where the holidays of the committed
rows are at that moment (in the layers from the first statement of 0013 up, in the
business calendars from the last one of 0013 down). `RootsKeepTheirPeople` is a
property of the step that commits a migration, because in between people leave and
marks are revoked (ADR-0065 decision 4). The invariant says of every moment of a
transaction what has become of the committed roots, managers and creators: on the way
up they stand until 0024 gives makers their rows and 0032 gives managers their mark
(`UpPeople`), on the way down until their table or column is dropped (`DownPeople`).
`NoneAssumption` says that having
no calendar is not the same as having one without days.

Every inductive invariant of SSO, the start, work logs and forecast was checked with
TLC on the instances of the runs, or on parts of them, before it was proved.

Only model-checked, and why:

* Liveness (`BlockedLosesAccess`, `EventuallyServes`, `ForecastEnds`): out of the
  prover's reach.
* What the 36 revisions make of the tables (`VersionTellsTheSchema`,
  `StatementsFollowOn`, `TablesAreTheModels`): the schema at a revision is a fold over
  all statements before it. It has to be executed, which TLC does completely: revisions
  are constants, and the databases it starts from are all those the code distinguishes.

## 5. Not modelled

* `update_project`, and titles, dates, priorities, colours, memos everywhere: no
  guard of another operation reads them.
* Categories, personal settings, dashboard, Gantt and export: rows of one owner
  without interaction, or reports over the ledger that is modelled.
* The layers of a project's calendar are in TeamCalendars; the forecast takes the
  resulting days as input. Overdue days and the milestone summary only read the
  forecast.
* Japanese national holidays: date arithmetic; a constant set here.
* Startup on MariaDB, where every DDL statement commits by itself, and the alembic
  command line, which brings its own connection; column types and indexes; the
  statements that rewrite columns nothing here follows (in 0004, 0009, 0016, 0019,
  `_unname_adjustments` of 0013, the calendars that 0015 deletes on its way down, the
  assignees that 0024 fills in).
* Cryptography and HTTP of the OIDC provider, the discovery cache and the admin
  token cache: their answers are nondeterministic in the SSO modules.
* The frontend (continuing a session, drafts, offline use).
* The limit of 120 periods in a report and groups by category and milestone.

## 6. Plan

1. *Done:* all modules above, and proofs of every safety property of the passing runs
   except the three about the tables of the 36 revisions (section 4).
2. *Proofs to come:* that the tables of a revision do not depend on the way there, by a
   recursive function for the schema in place of the fold, so that only the ways down
   are left to execution.
3. *Models to come:* the frontend's shared renewal (requests that meet an expired
   token wait for one renewal across tabs) composed with SsoSignIn; the admin token
   cache.
