--------------------------- MODULE SchemaMigration ----------------------------
(***************************************************************************)
(* The life of the database under the program: infrastructure/database/    *)
(* schema_migration.py, session.py and connection.py, scripts/             *)
(* run_db_migrations.py and entrypoint.sh, the lifespan of main.py.        *)
(*                                                                         *)
(* A release is the number of the newest revision in its image.  Starting  *)
(* the container upgrades the database in one SQLite transaction, statement *)
(* by statement; it may die at any point, and Docker starts it again.      *)
(***************************************************************************)
EXTENDS OrmModels, Integers, FiniteSets, SequencesExt

CONSTANTS
    Release,          \* heads of the releases that get deployed
    User,             \* people who may have an account
    DefaultUser,      \* users.id = 1
    Day,              \* days that may be entered as holidays
    None,             \* no calendar, no transaction
    MaxDisruptions,   \* crashes, deployments, downgrades together
    MaxEntries        \* rows people enter

ASSUME ReleaseAssumption == Release \subseteq 1..Newest
ASSUME UserAssumption == DefaultUser \in User
ASSUME NoneAssumption == \A days \in SUBSET Day : days # None

VARIABLES
    release,      \* head of the installed image
    mode,         \* argument of entrypoint.sh
    db,           \* what is committed: schema, version, whether alembic_version exists, rows
    txn,          \* the open migration transaction, or None
    phase,        \* how far the container has come
    downgraded,   \* TRUE once a downgrade has been committed
    disruptions, entries

migrationVars == <<release, mode, db, txn, phase, downgraded, disruptions, entries>>

------------------------------------------------------------------------------
(***************************************************************************)
(* What a statement does to the tables, and to the rows the properties     *)
(* follow: holidays, root projects and who may create them.                *)
(***************************************************************************)

Applicable(s, schema) ==
    CASE s.op = "create" -> s.table \notin DOMAIN schema
      [] s.op = "drop"   -> s.table \in DOMAIN schema
      [] s.op = "alter"  -> /\ s.table \in DOMAIN schema
                            /\ s.add \cap schema[s.table].cols = {}
                            /\ s.cut \subseteq schema[s.table].cols
      [] s.op = "rows"   -> TRUE

Altered(s, t) ==
    [keys |-> s.keys @@ Restrict(t.keys, DOMAIN t.keys \ s.cut),
     cols |-> (t.cols \ s.cut) \cup s.add,
     auto |-> IF s.auto = "as_is" THEN t.auto ELSE s.auto = "on"]

Apply(s, schema) ==
    CASE s.op = "create" -> s.table :> Table(s.keys, s.cols, s.auto) @@ schema
      [] s.op = "drop"   -> Restrict(schema, DOMAIN schema \ {s.table})
      [] s.op = "alter"  -> [schema EXCEPT ![s.table] = Altered(s, @)]
      [] s.op = "rows"   -> schema

NoRows ==
    [users |-> {}, business |-> [u \in User |-> None], layer |-> [u \in User |-> None],
     roots |-> {}, managers |-> [u \in User |-> {}], creators |-> {}]

\* The rows go with their table, and a flag with its column.  A root project is
\* named by its maker; managers[u] are the managers of the root that u made.
RowsAfterDrop(t, r) ==
    CASE t = "business_calendar_holidays" ->
             [r EXCEPT !.business = [u \in User |-> IF @[u] = None THEN None ELSE {}]]
      [] t = "business_calendars" -> [r EXCEPT !.business = [u \in User |-> None]]
      [] t = "calendar_days_off"  -> [r EXCEPT !.layer = [u \in User |-> IF @[u] = None THEN None ELSE {}]]
      [] t = "calendars"          -> [r EXCEPT !.layer = [u \in User |-> None]]
      [] t = "projects"           -> [r EXCEPT !.roots = {}]
      [] t = "project_members"    -> [r EXCEPT !.managers = [u \in User |-> {}]]
      [] t = "users"              -> [r EXCEPT !.users = {}]
      [] OTHER -> r

DaysIn(holidays) == IF holidays = None THEN {} ELSE holidays

\* 0010: four layers for everyone, the national one with all business holidays.
MakeLayers(r) ==
    [r EXCEPT !.layer = [u \in User |-> IF u \in r.users THEN DaysIn(r.business[u]) ELSE None]]

\* 0010, down.
DeleteLayers(r) == [r EXCEPT !.layer = [u \in User |-> None]]

\* 0013: the holidays entered on the old screen since, for who has a business
\* calendar; the layers are made where there are none.
CopyLegacyHolidays(r) ==
    [r EXCEPT !.layer = [u \in User |-> IF r.business[u] = None THEN @[u]
                                        ELSE DaysIn(@[u]) \cup r.business[u]]]

\* 0013, down: one business calendar for whoever has layers.
BusinessCalendarsFromLayers(r) == [r EXCEPT !.business = r.layer]

\* 0024: whoever made a root project manages it.
OwnersManage(r) == [r EXCEPT !.managers = [u \in User |-> IF u \in r.roots THEN {u} ELSE {}]]

\* Mutant: the makers of roots may create, whoever manages them by now.
MakersMayCreate(r) == [r EXCEPT !.creators = r.roots \cup (r.users \cap {DefaultUser})]

ManagersOfRoots(r) == UNION {r.managers[u] : u \in r.roots}

\* 0032: the default user and the managers of roots may create roots.
ManagersMayCreate(r) ==
    [r EXCEPT !.creators = ManagersOfRoots(r) \cup (r.users \cap {DefaultUser})]

ApplyRows(s, r) ==
    CASE s.op = "drop" -> RowsAfterDrop(s.table, r)
      [] s.op = "alter" /\ "can_create_projects" \in s.cut -> [r EXCEPT !.creators = {}]
      [] s.op = "rows" ->
           CASE s.what = "make_layers"          -> MakeLayers(r)
             [] s.what = "delete_layers"        -> DeleteLayers(r)
             [] s.what = "copy_legacy_holidays" -> CopyLegacyHolidays(r)
             [] s.what = "business_calendars_from_layers" -> BusinessCalendarsFromLayers(r)
             [] s.what = "owners_manage"        -> OwnersManage(r)
             [] s.what = "managers_may_create"  -> ManagersMayCreate(r)
             [] OTHER -> r
      [] OTHER -> r

\* The tables after the upgrades 0001 to v on an empty database, for each v.
Upgraded(schema, revision) == FoldLeft(LAMBDA t, s : Apply(s, t), schema, revision.up)

History == FoldLeft(LAMBDA h, revision : Append(h, Upgraded(Last(h), revision)), << <<>> >>, Revision)

SchemaAt(v) == History[v + 1]

\* describe_schema: the columns and keys; it does not see AUTOINCREMENT.
Described(schema) == [t \in DOMAIN schema |-> <<schema[t].keys, schema[t].cols>>]

------------------------------------------------------------------------------
(***************************************************************************)
(* Databases from before Alembic: the baseline less tables and columns     *)
(* that came late, with tasks.remaining_hours before it was dropped, or    *)
(* with a column that nobody knows.                                        *)
(***************************************************************************)
LegacySchema(late, columns) ==
    LET baseline == Restrict(SchemaAt(1), DOMAIN SchemaAt(1) \ late)
    IN  [t \in DOMAIN baseline |->
            [baseline[t] EXCEPT !.cols =
                CASE t = "users" -> columns \cap {"language"}
                  [] t = "auth_sessions" -> columns \cap {"idp_session_id"}
                  [] t = "tasks" -> columns \cap {"remaining_hours"}
                  [] t = "categories" -> columns \cap {"legacy_note"}
                  [] OTHER -> {}]]

Legacy ==
    {LegacySchema(late, columns) :
        late \in {{}, {"auth_backchannel_logout_deliveries"}},
        columns \in SUBSET {"language", "idp_session_id", "remaining_hours", "legacy_note"}}

\* adopt_legacy_schema, up to the comparison with the baseline.
Completed(schema) ==
    LET full == schema @@ SchemaAt(1)
    IN  [full EXCEPT !["users"].cols = @ \cup {"language"},
                     !["auth_sessions"].cols = @ \cup {"idp_session_id"},
                     !["tasks"].cols = @ \ {"remaining_hours"}]

Adoptable(schema) == Described(Completed(schema)) = Described(SchemaAt(1))

EmptyDb == [schema |-> <<>>, version |-> 0, stamped |-> FALSE, rows |-> NoRows]

MigrationInit ==
    /\ release \in Release
    /\ mode = "app"
    /\ db \in {EmptyDb} \cup
         {[EmptyDb EXCEPT !.schema = s, !.rows.users = User] : s \in Legacy}
    /\ txn = None
    /\ phase = "stopped"
    /\ downgraded = FALSE
    /\ disruptions = 0
    /\ entries = 0

------------------------------------------------------------------------------
(***************************************************************************)
(* The container's start.                                                  *)
(***************************************************************************)

Transaction(down, target) ==
    [schema |-> db.schema, version |-> db.version, stamped |-> db.stamped, rows |-> db.rows,
     down |-> down, target |-> target, done |-> 0]

\* entrypoint.sh app, migrate: upgrade_to_head begins.  A database that is
\* newer than the image is refused ("can't locate revision"): the process ends.
Start ==
    /\ phase = "stopped" /\ mode # "reset"
    /\ db.version <= release
    /\ txn' = Transaction(FALSE, release)
    /\ phase' = "migrating"
    /\ UNCHANGED <<release, mode, db, downgraded, disruptions, entries>>

\* entrypoint.sh reset: the database file is removed first, on every start.
StartReset ==
    /\ phase = "stopped" /\ mode = "reset"
    /\ db' = EmptyDb
    /\ txn' = [schema |-> <<>>, version |-> 0, stamped |-> FALSE, rows |-> NoRows,
               down |-> FALSE, target |-> release, done |-> 0]
    /\ phase' = "migrating"
    /\ downgraded' = FALSE
    /\ UNCHANGED <<release, mode, disruptions, entries>>

IsLegacy == ~txn.stamped /\ DOMAIN db.schema # {}

\* Mutant: the adopted database is not stamped.
AdoptWithoutStamp ==
    /\ txn # None
    /\ IsLegacy
    /\ IF Adoptable(txn.schema)
       THEN txn' = [txn EXCEPT !.schema = Completed(@)] /\ UNCHANGED phase
       ELSE txn' = None /\ phase' = "stopped"
    /\ UNCHANGED <<release, mode, db, downgraded, disruptions, entries>>

\* adopt_legacy_schema and stamp 0001, or LegacySchemaMismatchError.
AdoptLegacy ==
    /\ txn # None
    /\ IsLegacy
    /\ IF Adoptable(txn.schema)
       THEN /\ txn' = [txn EXCEPT !.schema = Completed(@), !.version = 1, !.stamped = TRUE]
            /\ UNCHANGED phase
       ELSE txn' = None /\ phase' = "stopped"
    /\ UNCHANGED <<release, mode, db, downgraded, disruptions, entries>>

Steps == IF txn.down THEN Revision[txn.version].down ELSE Revision[txn.version + 1].up

Pending == txn # None /\ ~IsLegacy /\ txn.version # txn.target

\* One statement of the revision's upgrade() or downgrade(); one the database
\* refuses ends the process and rolls everything back.
Statement ==
    /\ Pending
    /\ txn.done < Len(Steps)
    /\ LET s == Steps[txn.done + 1]
       IN  IF Applicable(s, txn.schema)
           THEN /\ txn' = [txn EXCEPT !.schema = Apply(s, @), !.rows = ApplyRows(s, @), !.done = @ + 1]
                /\ UNCHANGED phase
           ELSE txn' = None /\ phase' = "stopped"
    /\ UNCHANGED <<release, mode, db, downgraded, disruptions, entries>>

\* Alembic records the revision in alembic_version, in the same transaction.
RecordRevision ==
    /\ Pending
    /\ txn.done = Len(Steps)
    /\ txn' = [txn EXCEPT !.version = IF txn.down THEN @ - 1 ELSE @ + 1, !.stamped = TRUE, !.done = 0]
    /\ UNCHANGED <<release, mode, db, phase, downgraded, disruptions, entries>>

Written == [schema |-> txn.schema, version |-> txn.version, stamped |-> txn.stamped, rows |-> txn.rows]

\* engine.begin() ends: COMMIT.
Commit ==
    /\ txn # None /\ ~IsLegacy /\ txn.version = txn.target
    /\ db' = Written
    /\ txn' = None
    /\ phase' = IF txn.down THEN "stopped" ELSE "migrated"
    /\ downgraded' = (downgraded \/ txn.down)
    /\ UNCHANGED <<release, mode, disruptions, entries>>

\* ensure_schema_is_current.
IsCurrent == db.stamped /\ db.version = release

\* init_engine and seed_default_user; seed_master_data.py does nothing more
\* to these rows.  In mode migrate the entrypoint then exits.
SeedDefaultUser ==
    /\ phase = "migrated"
    /\ IF IsCurrent
       THEN /\ db' = [db EXCEPT !.rows.users = @ \cup {DefaultUser},
                                !.rows.creators = IF release >= 32 /\ DefaultUser \notin db.rows.users
                                                  THEN @ \cup {DefaultUser} ELSE @]
            /\ phase' = IF mode = "migrate" THEN "stopped" ELSE "seeded"
       ELSE UNCHANGED db /\ phase' = "stopped"
    /\ UNCHANGED <<release, mode, txn, downgraded, disruptions, entries>>

\* uvicorn: the lifespan of main.py checks once more.
Serve ==
    /\ phase = "seeded"
    /\ phase' = IF IsCurrent THEN "serving" ELSE "stopped"
    /\ UNCHANGED <<release, mode, db, txn, downgraded, disruptions, entries>>

\* uvicorn run by hand, without the entrypoint: only the lifespan's check.
ServeByHand ==
    /\ phase = "stopped"
    /\ IsCurrent
    /\ phase' = "manual"
    /\ UNCHANGED <<release, mode, db, txn, downgraded, disruptions, entries>>

------------------------------------------------------------------------------
(***************************************************************************)
(* What operators, faults and people do.                                   *)
(***************************************************************************)
Disrupt == disruptions < MaxDisruptions /\ disruptions' = disruptions + 1

\* Mutant: DDL commits by itself, as pysqlite does unless told otherwise.
CrashKeepsStatements ==
    /\ Disrupt
    /\ phase # "stopped"
    /\ phase' = "stopped" /\ txn' = None
    /\ db' = IF txn # None THEN Written ELSE db
    /\ UNCHANGED <<release, mode, downgraded, entries>>

\* The process dies; SQLite rolls the open transaction back.
Crash ==
    /\ Disrupt
    /\ phase # "stopped"
    /\ phase' = "stopped" /\ txn' = None
    /\ UNCHANGED <<release, mode, db, downgraded, entries>>

\* Another image, or another APP_MODE; both at once are two deployments.
Deploy(r, how) ==
    /\ Disrupt
    /\ (r = release) # (how = mode)
    /\ release' = r /\ mode' = how
    /\ phase' = "stopped" /\ txn' = None
    /\ UNCHANGED <<db, downgraded, entries>>

\* command.downgrade on a connection with a transaction, the server stopped.
Downgrade(target) ==
    /\ Disrupt
    /\ phase = "stopped"
    /\ db.stamped /\ db.version <= release /\ target < db.version
    /\ txn' = Transaction(TRUE, target)
    /\ phase' = "migrating"
    /\ UNCHANGED <<release, mode, db, downgraded, entries>>

Enter == phase \in {"serving", "manual"} /\ entries < MaxEntries /\ entries' = entries + 1

\* Somebody signs in for the first time.
NewUser(u) ==
    /\ Enter
    /\ u \notin db.rows.users
    /\ db' = [db EXCEPT !.rows.users = @ \cup {u}]
    /\ UNCHANGED <<release, mode, txn, phase, downgraded, disruptions>>

\* A holiday on the screen of that time: business calendars until 0013, the
\* layers from 0010 until 0035.
EnterHoliday(u, d) ==
    /\ Enter
    /\ u \in db.rows.users
    /\ \/ /\ db.version \in 3..12
          /\ d \notin DaysIn(db.rows.business[u])
          /\ db' = [db EXCEPT !.rows.business[u] = DaysIn(@) \cup {d}]
       \/ /\ db.version \in 10..34
          /\ d \notin DaysIn(db.rows.layer[u])
          /\ db' = [db EXCEPT !.rows.layer[u] = DaysIn(@) \cup {d}]
    /\ UNCHANGED <<release, mode, txn, phase, downgraded, disruptions>>

\* A root project, with its maker as manager from 0024 on, and only by those
\* who may from 0032 on.
CreateRoot(u) ==
    /\ Enter
    /\ u \in db.rows.users \ db.rows.roots
    /\ db.version >= 7
    /\ db.version >= 32 => u \in db.rows.creators
    /\ db' = [db EXCEPT !.rows.roots = @ \cup {u},
                        !.rows.managers[u] = IF db.version >= 24 THEN {u} ELSE @]
    /\ UNCHANGED <<release, mode, txn, phase, downgraded, disruptions>>

\* add_member: a manager of u's root makes v another one.
AddManager(u, v) ==
    /\ Enter
    /\ db.version >= 24 /\ u \in db.rows.roots
    /\ db.rows.managers[u] # {}
    /\ v \in db.rows.users \ db.rows.managers[u]
    /\ db' = [db EXCEPT !.rows.managers[u] = @ \cup {v}]
    /\ UNCHANGED <<release, mode, txn, phase, downgraded, disruptions>>

\* remove_member: v leaves u's root, the maker too, when another manager stays.
RemoveManager(u, v) ==
    /\ Enter
    /\ db.version >= 24 /\ u \in db.rows.roots
    /\ v \in db.rows.managers[u]
    /\ db.rows.managers[u] # {v}
    /\ db' = [db EXCEPT !.rows.managers[u] = @ \ {v}]
    /\ UNCHANGED <<release, mode, txn, phase, downgraded, disruptions>>

\* grant_project_creator.py, with and without --revoke, in the running container
\* (docs/OPERATIONS.md): it checks the revision with init_engine first.
AllowCreator(u, allowed) ==
    /\ Enter
    /\ IsCurrent /\ release >= 32
    /\ u \in db.rows.users
    /\ (u \in db.rows.creators) # allowed
    /\ db' = [db EXCEPT !.rows.creators = IF allowed THEN @ \cup {u} ELSE @ \ {u}]
    /\ UNCHANGED <<release, mode, txn, phase, downgraded, disruptions>>

MigrationStep ==
    \/ Start \/ StartReset \/ AdoptLegacy \/ Statement \/ RecordRevision \/ Commit
    \/ SeedDefaultUser \/ Serve

Operator ==
    \/ ServeByHand \/ Crash
    \/ \E r \in Release, how \in {"app", "migrate", "reset"} : Deploy(r, how)
    \/ \E target \in Release \cup {0} : Downgrade(target)
    \/ \E u \in User : NewUser(u) \/ CreateRoot(u) \/ \E d \in Day : EnterHoliday(u, d)
    \/ \E u, v \in User : AddManager(u, v) \/ RemoveManager(u, v)
    \/ \E u \in User, allowed \in BOOLEAN : AllowCreator(u, allowed)

MigrationNext == MigrationStep \/ Operator

\* Docker restarts the container (restart: unless-stopped), and a running
\* process runs on.
MigrationSpec == MigrationInit /\ [][MigrationNext]_migrationVars /\ WF_migrationVars(MigrationStep)
------------------------------------------------------------------------------
(***************************************************************************)
(* Properties.                                                             *)
(***************************************************************************)
Phase == {"stopped", "migrating", "migrated", "seeded", "serving", "manual"}

\* Types: a transaction is open exactly while the container migrates.
MigrationTypeOK ==
    /\ release \in Release /\ mode \in {"app", "migrate", "reset"}
    /\ db.version \in 0..Newest /\ db.stamped \in BOOLEAN
    /\ phase \in Phase /\ downgraded \in BOOLEAN
    /\ (txn # None) <=> (phase = "migrating")
    /\ txn # None => txn.version \in 0..Newest /\ txn.target \in Release \cup {0}

\* The types hold, and the recorded revision tells the shape of the tables: whatever adoption,
\* crash, upgrade and downgrade led there, it is the shape that the straight
\* upgrade of an empty database has (schema_migration.py, all of versions/).
VersionTellsTheSchema ==
    /\ MigrationTypeOK
    /\ db.stamped => Described(db.schema) = Described(SchemaAt(db.version))
    /\ (txn # None /\ ~IsLegacy /\ txn.done = 0) =>
          Described(txn.schema) = Described(SchemaAt(txn.version))

\* No revision, up or down, trips over what the ones before it left: the next
\* statement can be executed, and no key ever points to a table that is gone
\* (the order in which versions/*.py create and drop).
StatementsFollowOn ==
    txn # None =>
        /\ (Pending /\ txn.done < Len(Steps)) => Applicable(Steps[txn.done + 1], txn.schema)
        /\ ~IsLegacy => \A t \in DOMAIN txn.schema :
              \A c \in DOMAIN txn.schema[t].keys : txn.schema[t].keys[c] \in DOMAIN txn.schema

\* At the newest revision the tables are those of models.py, AUTOINCREMENT
\* included ("ids are not reused"), unless a downgrade has rebuilt them.
TablesAreTheModels ==
    (db.stamped /\ db.version = Newest) =>
        /\ Described(db.schema) = Described(Models)
        /\ ~downgraded => db.schema = Models

HolidaysOf(r, u) == DaysIn(r.business[u]) \cup DaysIn(r.layer[u])

\* No holiday is lost while the database moves between revisions that have
\* holidays (0003 to 0034), in one jump or several, except by the documented
\* way down from the layers' first revisions (0010's docstring).
HolidaysKept ==
    [][ ( /\ txn # None /\ txn' = None /\ db' # db
          /\ db.version \in 3..34 /\ db'.version \in 3..34
          /\ ~(db.version \in 10..12 /\ db'.version < 10) )
        => \A u \in User : HolidaysOf(db.rows, u) \subseteq HolidaysOf(db'.rows, u) ]_migrationVars

PeopleKept(old, new) ==
    /\ (old.version >= 7 /\ new.version >= 7) => new.rows.roots = old.rows.roots
    /\ new.version >= 24 =>
          \A u \in new.rows.roots :
              new.rows.managers[u] = IF old.version >= 24 THEN old.rows.managers[u] ELSE {u}
    /\ new.version >= 32 =>
          new.rows.creators = IF old.version >= 32 THEN old.rows.creators
                              ELSE ManagersOfRoots(new.rows) \cup (new.rows.users \cap {DefaultUser})

\* A migration, up or down and over however many revisions, keeps every root
\* project, its managers and who may create roots as people left them.  Where the
\* database had no managers yet (before 0024) each root's maker is its manager,
\* and where it had no creators (before 0032) the managers of roots and the
\* default user are, and nobody else (ADR-0055 decision 7, ADR-0065).
RootsKeepTheirPeople ==
    [][ (txn # None /\ txn' = None /\ db' # db) => PeopleKept(db, db') ]_migrationVars

\* A database that this release cannot take: newer, or from before Alembic
\* and not fit for adoption.
Refused ==
    \/ mode = "migrate"
    \/ /\ mode = "app"
       /\ \/ db.version > release
          \/ ~db.stamped /\ DOMAIN db.schema # {} /\ ~Adoptable(db.schema)

\* Once crashes and deployments stop, the server runs, unless the database is
\* refused for good.
EventuallyServes == []<>(phase \in {"serving", "manual"}) \/ <>[]Refused

Kind ==
    CASE db.stamped -> "managed"
      [] ~db.stamped /\ DOMAIN db.schema = {} -> "empty"
      [] OTHER -> IF Adoptable(db.schema) THEN "legacy" ELSE "odd"

Atomic == INSTANCE AtomicUpgrade WITH version <- db.version, kind <- Kind,
                                      serving <- phase \in {"serving", "manual"}

\* Refinement: seen from the committed database, the statements of a start
\* happen all at once or not at all.
UpgradesAreAtomic == Atomic!AtomicSpec
==============================================================================
