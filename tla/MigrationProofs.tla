--------------------------- MODULE MigrationProofs ---------------------------
(***************************************************************************)
(* Proofs about SchemaMigration.  First, starting a release is all or      *)
(* nothing: with its statements, crashes and adoptions it implements       *)
(* AtomicUpgrade for any releases, whatever their revisions consist of.    *)
(* Then, from the statements of all 36 revisions: a migration keeps the    *)
(* people of root projects, and loses no holidays.                         *)
(***************************************************************************)
EXTENDS SchemaMigration, TLAPS

\* The database and the open transaction are what they are read as.
DbShape  == DOMAIN db = {"schema", "version", "stamped", "rows"}
TxnShape == DOMAIN txn = {"schema", "version", "stamped", "rows", "down", "target", "done"}

\* What is known of an open transaction: it is made by Start on a database that
\* is not newer than the release, or by Downgrade on a managed one; and a
\* database from before Alembic got its stamp by being adopted.
TxnInv ==
    /\ TxnShape
    /\ phase = "migrating"
    /\ ~txn.stamped => txn.version = 0
    /\ ~txn.down => txn.target = release /\ db.version <= release
    /\ txn.down => /\ db.stamped /\ txn.stamped
                   /\ txn.target \in Release \cup {0} /\ txn.target < db.version
    /\ ~txn.stamped => txn.schema = db.schema \/ DOMAIN db.schema = {}
    /\ txn.stamped => db.stamped \/ DOMAIN db.schema = {} \/ Adoptable(db.schema)

MigrationInv ==
    /\ release \in Release
    /\ DbShape
    /\ ~db.stamped => db.version = 0
    /\ txn # None => TxnInv

Serving == phase \in {"serving", "manual"}

\* The part of a database the abstract specification sees.
SameDb == db'.version = db.version /\ db'.stamped = db.stamped /\ db'.schema = db.schema

LEMMA ReleasesCount == Release \subseteq Nat \ {0}
<1>1. Newest \in Nat
  BY DEF Newest, Revision
<1> QED
  BY <1>1, ReleaseAssumption

LEMMA SameKind == SameDb => Kind' = Kind
BY DEF SameDb, Kind

LEMMA NotServing == /\ ~Serving => Serving = FALSE
                    /\ ~Serving' => Serving' = FALSE
<1>1. ASSUME phase \notin {"serving", "manual"}
      PROVE  (phase \in {"serving", "manual"}) = FALSE
  BY <1>1
<1>2. ASSUME phase' \notin {"serving", "manual"}
      PROVE  (phase' \in {"serving", "manual"}) = FALSE
  BY <1>2
<1> QED
  BY <1>1, <1>2 DEF Serving

------------------------------------------------------------------------------
(* Steps that the abstract specification does not see, or sees as Halt.     *)

LEMMA StutterIsAtomic ==
    ASSUME UNCHANGED release, SameDb, Serving' = Serving
    PROVE  [Atomic!AtomicNext]_Atomic!atomicVars
BY SameKind DEF SameDb, Serving, Atomic!atomicVars

LEMMA HaltIsAtomic ==
    ASSUME release' \in Release, UNCHANGED db, ~Serving'
    PROVE  [Atomic!AtomicNext]_Atomic!atomicVars
<1>1. Kind' = Kind
  BY SameKind DEF SameDb
<1>2. Serving' = FALSE
  BY NotServing
<1>3. Atomic!Halt
  BY <1>1, <1>2 DEF Serving, Atomic!Halt
<1> QED
  BY <1>3 DEF Atomic!AtomicNext

------------------------------------------------------------------------------
(* One lemma for each kind of step: it keeps the invariant, and is a step   *)
(* of the abstract specification.                                           *)

Good == MigrationInv' /\ [Atomic!AtomicNext]_Atomic!atomicVars

LEMMA StartIsAtomic ==
    ASSUME MigrationInv, Start \/ \E target \in Release \cup {0} : Downgrade(target)
    PROVE  Good
<1>1. /\ phase = "stopped" /\ phase' = "migrating"
      /\ UNCHANGED <<release, db>>
  BY DEF Start, Downgrade
<1>2. PICK down \in BOOLEAN, target \in Release \cup {0} :
         /\ txn' = Transaction(down, target)
         /\ ~down => target = release /\ db.version <= release
         /\ down => db.stamped /\ target < db.version
  BY DEF Start, Downgrade, MigrationInv
<1>3. /\ DOMAIN txn' = {"schema", "version", "stamped", "rows", "down", "target", "done"}
      /\ txn'.schema = db.schema /\ txn'.version = db.version /\ txn'.stamped = db.stamped
      /\ txn'.down = down /\ txn'.target = target
  BY <1>2 DEF Transaction
<1>4. MigrationInv'
  BY <1>1, <1>2, <1>3 DEF MigrationInv, TxnInv, DbShape, TxnShape, Adoptable
<1>5. [Atomic!AtomicNext]_Atomic!atomicVars
  BY <1>1, StutterIsAtomic DEF SameDb, Serving
<1> QED
  BY <1>4, <1>5 DEF Good

LEMMA ResetIsAtomic ==
    ASSUME MigrationInv, StartReset
    PROVE  Good
<1>1. /\ phase = "stopped" /\ phase' = "migrating" /\ UNCHANGED release
      /\ db' = EmptyDb
      /\ txn' = [schema |-> <<>>, version |-> 0, stamped |-> FALSE, rows |-> NoRows,
                 down |-> FALSE, target |-> release, done |-> 0]
  BY DEF StartReset
<1>2. /\ DOMAIN db' = {"schema", "version", "stamped", "rows"}
      /\ db'.version = 0 /\ ~db'.stamped /\ db'.schema = <<>> /\ DOMAIN db'.schema = {}
  BY <1>1 DEF EmptyDb
<1>3. /\ DOMAIN txn' = {"schema", "version", "stamped", "rows", "down", "target", "done"}
      /\ txn'.version = 0 /\ ~txn'.stamped /\ ~txn'.down /\ txn'.target = release
  BY <1>1
<1>4. MigrationInv'
  BY <1>1, <1>2, <1>3, ReleasesCount DEF MigrationInv, TxnInv, DbShape, TxnShape
<1>5. Kind' = "empty"
  BY <1>2 DEF Kind
<1>6. Atomic!Reset /\ ~Serving
  BY <1>1, <1>2, <1>5 DEF Atomic!Reset, Serving
<1> QED
  BY <1>4, <1>6 DEF Good, Atomic!AtomicNext, Serving

\* A transaction that goes on or is rolled back leaves the database as it is.
LEMMA WithinIsAtomic ==
    ASSUME MigrationInv, AdoptLegacy \/ Statement \/ RecordRevision
    PROVE  Good
<1>1. txn # None /\ TxnInv /\ UNCHANGED <<release, db>>
  BY DEF MigrationInv, AdoptLegacy, Statement, RecordRevision, Pending
<1>2. \/ txn' = None /\ phase' = "stopped"
      \/ phase' = phase /\ DOMAIN txn' = DOMAIN txn /\ TxnInv'
  <2>1. CASE AdoptLegacy
    <3>1. CASE Adoptable(txn.schema)
      <4>1. txn' = [txn EXCEPT !.schema = Completed(@), !.version = 1, !.stamped = TRUE]
            /\ UNCHANGED phase
        BY <2>1, <3>1 DEF AdoptLegacy
      <4>2. /\ DOMAIN txn' = DOMAIN txn /\ txn'.stamped /\ txn'.down = txn.down
            /\ txn'.target = txn.target
        BY <1>1, <4>1 DEF TxnInv, TxnShape
      <4>3. ~txn.stamped /\ Adoptable(db.schema)
        BY <1>1, <2>1, <3>1 DEF AdoptLegacy, IsLegacy, TxnInv
      <4>4. Adoptable(db.schema)'
        BY <1>1, <4>3
      <4> QED
        BY <1>1, <4>1, <4>2, <4>3, <4>4 DEF TxnInv, TxnShape
    <3>2. CASE ~Adoptable(txn.schema)
      BY <2>1, <3>2 DEF AdoptLegacy
    <3> QED
      BY <3>1, <3>2
  <2>2. CASE Statement
    <3> DEFINE s == Steps[txn.done + 1]
    <3>1. CASE Applicable(s, txn.schema)
      <4>1. /\ txn' = [txn EXCEPT !.schema = Apply(s, @), !.rows = ApplyRows(s, @), !.done = @ + 1]
            /\ UNCHANGED phase
        BY <2>2, <3>1 DEF Statement
      <4>2. /\ DOMAIN txn' = DOMAIN txn /\ txn'.stamped = txn.stamped /\ txn'.down = txn.down
            /\ txn'.target = txn.target /\ txn'.version = txn.version
        BY <1>1, <4>1 DEF TxnInv, TxnShape
      <4>3. txn.stamped \/ DOMAIN db.schema = {}
        BY <2>2 DEF Statement, Pending, IsLegacy
      <4>4. Adoptable(db.schema)' = Adoptable(db.schema)
        BY <1>1
      <4> QED
        BY <1>1, <4>1, <4>2, <4>3, <4>4 DEF TxnInv, TxnShape
    <3>2. CASE ~Applicable(s, txn.schema)
      BY <2>2, <3>2 DEF Statement
    <3> QED
      BY <3>1, <3>2
  <2>3. CASE RecordRevision
    <3>1. /\ txn' = [txn EXCEPT !.version = IF txn.down THEN @ - 1 ELSE @ + 1, !.stamped = TRUE, !.done = 0]
          /\ UNCHANGED phase
      BY <2>3 DEF RecordRevision
    <3>2. /\ DOMAIN txn' = DOMAIN txn /\ txn'.stamped /\ txn'.down = txn.down
          /\ txn'.target = txn.target
      BY <1>1, <3>1 DEF TxnInv, TxnShape
    <3>3. txn.stamped \/ DOMAIN db.schema = {}
      BY <2>3 DEF RecordRevision, Pending, IsLegacy
    <3>4. Adoptable(db.schema)' = Adoptable(db.schema)
      BY <1>1
    <3> QED
      BY <1>1, <3>1, <3>2, <3>3, <3>4 DEF TxnInv, TxnShape
  <2> QED
    BY <2>1, <2>2, <2>3
<1>3. MigrationInv'
  BY <1>1, <1>2 DEF MigrationInv, DbShape
<1>4. ~Serving /\ ~Serving'
  BY <1>1, <1>2 DEF TxnInv, Serving
<1>5. [Atomic!AtomicNext]_Atomic!atomicVars
  <2>1. Serving' = Serving
    BY <1>4, NotServing
  <2> QED
    BY <1>1, <2>1, StutterIsAtomic DEF SameDb
<1> QED
  BY <1>3, <1>5 DEF Good

\* COMMIT: all revisions up to the release at once, or the way down at once.
LEMMA CommitIsAtomic ==
    ASSUME MigrationInv, Commit
    PROVE  Good
<1>1. /\ TxnInv /\ ~IsLegacy /\ txn.version = txn.target
      /\ txn' = None /\ UNCHANGED release
      /\ phase = "migrating" /\ phase' \in {"stopped", "migrated"}
      /\ db' = Written
  BY DEF Commit, MigrationInv, TxnInv
<1>2. /\ DOMAIN db' = {"schema", "version", "stamped", "rows"}
      /\ db'.version = txn.target /\ db'.stamped = txn.stamped
  BY <1>1 DEF Written
<1>3. MigrationInv'
  BY <1>1, <1>2 DEF MigrationInv, TxnInv, DbShape
<1>4. ~Serving /\ Serving' = Serving
  <2>1. ~Serving /\ ~Serving'
    BY <1>1 DEF Serving
  <2> QED
    BY <2>1, NotServing
<1>5. CASE txn.down
  <2>1. Kind = "managed" /\ Kind' = "managed"
    BY <1>1, <1>2, <1>5 DEF TxnInv, Kind
  <2>2. Atomic!Revert
    <3>1. db'.version \in {r \in Release \cup {0} : r < db.version}
      BY <1>1, <1>2, <1>5 DEF TxnInv
    <3> QED
      BY <1>1, <1>4, <2>1, <3>1 DEF Atomic!Revert, Serving
  <2> QED
    BY <1>3, <1>4, <2>2 DEF Good, Atomic!AtomicNext, Serving
<1>6. CASE ~txn.down
  <2>1. txn.stamped /\ txn.target = release /\ db.version <= release
    BY <1>1, <1>6, ReleasesCount DEF TxnInv, MigrationInv
  <2>2. Kind # "odd" /\ Kind' = "managed"
    BY <1>1, <1>2, <2>1 DEF TxnInv, Kind
  <2>3. Atomic!Upgrade
    BY <1>1, <1>2, <1>4, <2>1, <2>2 DEF Atomic!Upgrade, Serving
  <2> QED
    BY <1>3, <1>4, <2>3 DEF Good, Atomic!AtomicNext, Serving
<1> QED
  BY <1>5, <1>6

\* The checks of a start that runs on: the database has the release's schema.
LEMMA ServingIsAtomic ==
    ASSUME MigrationInv, SeedDefaultUser \/ Serve \/ ServeByHand
    PROVE  Good
<1>1. /\ UNCHANGED <<release, txn>> /\ ~Serving /\ phase # "migrating" /\ phase' # "migrating"
      /\ txn = None
  BY DEF SeedDefaultUser, Serve, ServeByHand, MigrationInv, TxnInv, Serving
<1>2. CASE SeedDefaultUser
  <2>1. DOMAIN db' = DOMAIN db /\ SameDb
    BY <1>2 DEF SeedDefaultUser, MigrationInv, DbShape, SameDb
  <2>2. ~Serving'
    BY <1>2 DEF SeedDefaultUser, Serving
  <2>3. Serving' = Serving
    BY <1>1, <2>2, NotServing
  <2>4. MigrationInv'
    BY <1>1, <2>1 DEF MigrationInv, DbShape, SameDb
  <2> QED
    BY <1>1, <2>1, <2>3, <2>4, StutterIsAtomic DEF Good
<1>3. CASE Serve \/ ServeByHand
  <2>1. UNCHANGED db /\ (IsCurrent \/ phase' = "stopped")
    BY <1>3 DEF Serve, ServeByHand
  <2>2. MigrationInv'
    BY <1>1, <2>1 DEF MigrationInv, DbShape
  <2>3. CASE phase' = "stopped"
    <3>1. ~Serving'
      BY <2>3 DEF Serving
    <3>2. Serving' = Serving
      BY <1>1, <3>1, NotServing
    <3> QED
      BY <1>1, <2>1, <2>2, <3>2, StutterIsAtomic DEF Good, SameDb
  <2>4. CASE IsCurrent /\ phase' # "stopped"
    <3>1. phase' \in {"serving", "manual"}
      BY <1>3, <2>4 DEF Serve, ServeByHand
    <3>2. (phase' \in {"serving", "manual"}) = TRUE
      BY <3>1
    <3>3. Kind = "managed" /\ Kind' = Kind /\ db.version = release
      BY <2>1, <2>4, SameKind DEF IsCurrent, Kind, SameDb
    <3>4. Atomic!Run
      BY <1>1, <2>1, <3>2, <3>3 DEF Atomic!Run
    <3> QED
      BY <2>2, <3>4 DEF Good, Atomic!AtomicNext
  <2> QED
    BY <2>1, <2>3, <2>4
<1> QED
  BY <1>2, <1>3

\* Dying and deploying: the open transaction is rolled back.
LEMMA StoppingIsAtomic ==
    ASSUME MigrationInv,
           Crash \/ \E r \in Release, how \in {"app", "migrate", "reset"} : Deploy(r, how)
    PROVE  Good
<1>1. /\ UNCHANGED db /\ txn' = None /\ phase' = "stopped" /\ release' \in Release
  BY DEF Crash, Deploy, MigrationInv
<1>2. MigrationInv'
  BY <1>1 DEF MigrationInv, DbShape
<1>3. ~Serving'
  BY <1>1 DEF Serving
<1> QED
  BY <1>1, <1>2, <1>3, HaltIsAtomic DEF Good

\* People enter rows while the server runs; the tables stay.
Entry ==
    \/ \E u \in User : NewUser(u) \/ CreateRoot(u) \/ \E d \in Day : EnterHoliday(u, d)
    \/ \E u, v \in User : AddManager(u, v) \/ RemoveManager(u, v)
    \/ \E u \in User, allowed \in BOOLEAN : AllowCreator(u, allowed)

LEMMA EnteringIsAtomic ==
    ASSUME MigrationInv, Entry
    PROVE  Good
<1>1. UNCHANGED <<release, txn, phase>>
  BY DEF Entry, NewUser, CreateRoot, EnterHoliday, AddManager, RemoveManager, AllowCreator
<1>2. phase \in {"serving", "manual"}
  BY DEF Entry, NewUser, CreateRoot, EnterHoliday, AddManager, RemoveManager, AllowCreator, Enter
<1>3. txn = None
  BY <1>2 DEF MigrationInv, TxnInv
<1>4. \E r : db' = [db EXCEPT !.rows = r]
  <2>1. ASSUME NEW u \in User, NewUser(u) PROVE \E r : db' = [db EXCEPT !.rows = r]
    BY <2>1 DEF NewUser
  <2>2. ASSUME NEW u \in User, CreateRoot(u) PROVE \E r : db' = [db EXCEPT !.rows = r]
    BY <2>2 DEF CreateRoot
  <2>3. ASSUME NEW u \in User, NEW d \in Day, EnterHoliday(u, d)
        PROVE  \E r : db' = [db EXCEPT !.rows = r]
    BY <2>3 DEF EnterHoliday
  <2>4. ASSUME NEW u \in User, NEW v \in User, AddManager(u, v) \/ RemoveManager(u, v)
        PROVE  \E r : db' = [db EXCEPT !.rows = r]
    BY <2>4 DEF AddManager, RemoveManager
  <2>5. ASSUME NEW u \in User, NEW allowed \in BOOLEAN, AllowCreator(u, allowed)
        PROVE  \E r : db' = [db EXCEPT !.rows = r]
    BY <2>5 DEF AllowCreator
  <2> QED
    BY <2>1, <2>2, <2>3, <2>4, <2>5 DEF Entry
<1>5. DOMAIN db' = DOMAIN db /\ SameDb
  BY <1>4 DEF MigrationInv, DbShape, SameDb
<1>6. MigrationInv'
  BY <1>1, <1>3, <1>5 DEF MigrationInv, DbShape, SameDb
<1>7. Serving' = Serving
  BY <1>1 DEF Serving
<1> QED
  BY <1>1, <1>5, <1>6, <1>7, StutterIsAtomic DEF Good

------------------------------------------------------------------------------
(* The theorem.                                                             *)

LEMMA NextIsGood == MigrationInv /\ [MigrationNext]_migrationVars => Good
<1> SUFFICES ASSUME MigrationInv, [MigrationNext]_migrationVars PROVE Good
  OBVIOUS
<1>1. CASE UNCHANGED migrationVars
  <2>1. UNCHANGED <<release, db, txn, phase>>
    BY <1>1 DEF migrationVars
  <2>2. MigrationInv'
    BY <2>1 DEF MigrationInv, TxnInv, DbShape, TxnShape, Adoptable
  <2>3. SameDb /\ Serving' = Serving
    BY <2>1 DEF SameDb, Serving
  <2> QED
    BY <2>1, <2>2, <2>3, StutterIsAtomic DEF Good
<1> QED
  BY <1>1, StartIsAtomic, ResetIsAtomic, WithinIsAtomic, CommitIsAtomic, ServingIsAtomic,
     StoppingIsAtomic, EnteringIsAtomic DEF MigrationNext, MigrationStep, Operator, Entry

LEMMA FirstIsGood == MigrationInit => MigrationInv /\ Atomic!AtomicInit
<1> SUFFICES ASSUME MigrationInit PROVE MigrationInv /\ Atomic!AtomicInit
  OBVIOUS
<1>1. release \in Release /\ txn = None /\ phase = "stopped"
  BY DEF MigrationInit
<1>2. DOMAIN db = {"schema", "version", "stamped", "rows"} /\ db.version = 0 /\ ~db.stamped
  <2>1. CASE db = EmptyDb
    BY <2>1 DEF EmptyDb
  <2>2. ASSUME NEW s, db = [EmptyDb EXCEPT !.schema = s, !.rows.users = User]
        PROVE  DOMAIN db = {"schema", "version", "stamped", "rows"} /\ db.version = 0 /\ ~db.stamped
    BY <2>2 DEF EmptyDb
  <2> QED
    BY <2>1, <2>2 DEF MigrationInit
<1>3. Kind \in {"empty", "legacy", "odd"}
  BY <1>2 DEF Kind
<1>4. ~Serving
  BY <1>1 DEF Serving
<1>5. Serving = FALSE
  BY <1>4, NotServing
<1>6. Atomic!AtomicInit
  BY <1>1, <1>2, <1>3, <1>5 DEF Atomic!AtomicInit, Serving
<1> QED
  BY <1>1, <1>2, <1>6 DEF MigrationInv, DbShape

\* Whatever the revisions do statement by statement, and wherever the process
\* dies, is refused or is replaced, the committed database goes from one
\* release's schema to another's in one step, an unfit database from before
\* Alembic is never touched, and a server runs only on its own release's schema.
THEOREM StartsAreAtomic == MigrationSpec => UpgradesAreAtomic
BY FirstIsGood, NextIsGood, PTL DEF MigrationSpec, UpgradesAreAtomic, Good, Atomic!AtomicSpec
------------------------------------------------------------------------------
(***************************************************************************)
(* What becomes of people's rows on the way: managers and creators of root *)
(* projects, and holidays.  Only eleven statements of all revisions touch  *)
(* these rows.  KeptInv says how far the rows of an open transaction have  *)
(* come, statement by statement, and what the committed ones may contain   *)
(* at which revision.                                                      *)
(***************************************************************************)
HolidayColumn == [User -> (SUBSET Day) \cup {None}]

RowsShape(r) ==
    /\ DOMAIN r = {"users", "business", "layer", "roots", "managers", "creators"}
    /\ r.business \in HolidayColumn /\ r.layer \in HolidayColumn
    /\ r.roots \subseteq User

NoLayers(r)   == \A u \in User : r.layer[u] = None
NoBusiness(r) == \A u \in User : r.business[u] = None

\* The rows of a database at revision v: there are no layers before 0010 and no
\* business calendars after 0013.
RowsAt(r, v) ==
    /\ v < 10 => NoLayers(r)
    /\ v >= 13 => NoBusiness(r)

\* On the way up, with done statements of the next revision executed, the rows
\* are those of revision v, and what 0010 and 0013 have already done is done.
UpRows(v, done, r) ==
    /\ v < 9 \/ (v = 9 /\ done < 3) => NoLayers(r)
    /\ v >= 13 \/ (v = 12 /\ done >= 3) => NoBusiness(r)

\* On the way down, layers are gone after the second statement of 0010, and
\* business calendars are back with the third of 0013.
DownRows(v, done, r) ==
    /\ v < 10 \/ (v = 10 /\ done >= 2) => NoLayers(r)
    /\ v > 13 \/ (v = 13 /\ done < 3) => NoBusiness(r)

\* The people of root projects, against the committed rows, old, of the revision
\* the transaction began at: on the way up what is there stays, and what 0024 and
\* 0032 fill in is filled in once they have run.
UpPeople(v, done, r, old, from) ==
    /\ r.roots = old.roots
    /\ from >= 24 => r.managers = old.managers
    /\ from < 24 /\ (v >= 24 \/ (v = 23 /\ done >= 3)) => \A u \in User \cap r.roots : r.managers[u] = {u}
    /\ from >= 32 => r.creators = old.creators
    /\ from < 32 /\ (v >= 32 \/ (v = 31 /\ done >= 2)) =>
          r.creators = ManagersOfRoots(r) \cup (r.users \cap {DefaultUser})

\* On the way down they are given up with the first statement of 0032, 0024 and
\* 0007.
DownPeople(v, done, r, old) ==
    /\ v > 7  \/ (v = 7 /\ done = 0)  => r.roots = old.roots
    /\ v > 24 \/ (v = 24 /\ done = 0) => r.managers = old.managers
    /\ v > 32 \/ (v = 32 /\ done = 0) => r.creators = old.creators

\* The holidays of the committed rows, old, are still there; from the first
\* statement of 0013 up they are in the layers, and from the last one of 0013
\* down in the business calendars.
UpHolidays(v, done, r, old) ==
    \A u \in User :
        /\ HolidaysOf(old, u) \subseteq HolidaysOf(r, u)
        /\ v = 12 /\ done >= 1 => HolidaysOf(old, u) \subseteq DaysIn(r.layer[u])

DownHolidays(v, done, r, old, from) ==
    \A u \in User :
        /\ HolidaysOf(old, u) \subseteq HolidaysOf(r, u)
        /\ from >= 13 /\ (v < 13 \/ (v = 13 /\ done >= 3)) =>
              HolidaysOf(old, u) \subseteq DaysIn(r.business[u])

\* The ways that keep holidays: between 0003 and 0034, and not down from the
\* first revisions of the layers.
UpKeeps(from, target)   == from >= 3 /\ target <= 34
DownKeeps(from, target) == from <= 34 /\ target >= 3 /\ ~(from \in 10..12 /\ target < 10)

OpenInv ==
    /\ RowsShape(txn.rows)
    /\ txn.version \in 0..36 /\ txn.done \in Nat /\ txn.down \in BOOLEAN
    /\ txn.target \in 0..36
    /\ IsLegacy => txn.version = 0 /\ txn.done = 0 /\ ~txn.down
    /\ txn.version = txn.target => txn.done = 0
    /\ ~txn.down =>
          /\ db.version <= txn.version /\ txn.version <= txn.target
          /\ UpRows(txn.version, txn.done, txn.rows)
          /\ UpPeople(txn.version, txn.done, txn.rows, db.rows, db.version)
          /\ UpKeeps(db.version, txn.target) => UpHolidays(txn.version, txn.done, txn.rows, db.rows)
    /\ txn.down =>
          /\ txn.target <= txn.version /\ txn.version <= db.version
          /\ DownRows(txn.version, txn.done, txn.rows)
          /\ DownPeople(txn.version, txn.done, txn.rows, db.rows)
          /\ DownKeeps(db.version, txn.target) =>
                DownHolidays(txn.version, txn.done, txn.rows, db.rows, db.version)

KeptInv ==
    /\ db.version \in 0..36
    /\ RowsShape(db.rows)
    /\ RowsAt(db.rows, db.version)
    /\ txn # None => OpenInv

------------------------------------------------------------------------------
(* The statements that leave the rows alone.                                *)

Watched == {"business_calendar_holidays", "business_calendars", "calendar_days_off", "calendars",
            "projects", "project_members", "users"}

Quiet(s) ==
    \/ s.op = "create"
    \/ s.op = "drop" /\ s.table \notin Watched
    \/ s.op = "alter" /\ "can_create_projects" \notin s.cut
    \/ s.op = "rows" /\ s.what = "unique_client_ref"

AllQuiet(q) == Len(q) \in Nat /\ \A i \in 1..Len(q) : Quiet(q[i])

LEMMA QuietKeepsRows == ASSUME NEW s, Quiet(s), NEW r PROVE ApplyRows(s, r) = r
<1>1. CASE s.op = "create"
  BY <1>1 DEF ApplyRows
<1>2. CASE s.op = "drop" /\ s.table \notin Watched
  BY <1>2 DEF ApplyRows, RowsAfterDrop, Watched
<1>3. CASE s.op = "alter" /\ "can_create_projects" \notin s.cut
  BY <1>3 DEF ApplyRows
<1>4. CASE s.op = "rows" /\ s.what = "unique_client_ref"
  BY <1>4 DEF ApplyRows
<1> QED
  BY <1>1, <1>2, <1>3, <1>4 DEF Quiet

LEMMA CreatesAreQuiet ==
    ASSUME NEW t, NEW keys, NEW cols
    PROVE  Quiet(Create(t, keys, cols)) /\ Quiet(CreateAuto(t, keys, cols)) /\ Quiet(Add(t, cols))
BY DEF Quiet, Create, CreateAuto, Add

LEMMA RebuildsAreQuiet ==
    ASSUME NEW t, NEW add, NEW cut, NEW keys, "can_create_projects" \notin cut
    PROVE  Quiet(Rebuild(t, add, cut, keys)) /\ Quiet(RebuildAuto(t, add, cut, keys))
BY DEF Quiet, Rebuild, RebuildAuto

LEMMA DropsAreQuiet == ASSUME NEW t, t \notin Watched PROVE Quiet(Drop(t))
BY DEF Quiet, Drop

LEMMA QuietTogether ==
    ASSUME NEW S, NEW p \in Seq(S), NEW q \in Seq(S), AllQuiet(p), AllQuiet(q)
    PROVE  AllQuiet(p \o q)
<1> SUFFICES ASSUME NEW i \in 1..Len(p \o q) PROVE Quiet((p \o q)[i])
  BY DEF AllQuiet
<1>1. CASE i <= Len(p)
  BY <1>1 DEF AllQuiet
<1>2. CASE i > Len(p)
  <2>1. (p \o q)[i] = q[i - Len(p)] /\ i - Len(p) \in 1..Len(q)
    BY <1>2
  <2> QED
    BY <2>1 DEF AllQuiet
<1> QED
  BY <1>1, <1>2
------------------------------------------------------------------------------
(* The revisions that change people's rows, and all the others.             *)

UpLoud   == {10, 13, 24, 32, 35}
DownLoud == {1, 3, 7, 9, 10, 13, 24, 32}

LEMMA RevisionsCount == Newest = 36
BY DEF Newest, Revision

LEMMA QuietUps ==
    /\ AllQuiet(Rev01.up) /\ AllQuiet(Rev02.up) /\ AllQuiet(Rev03.up) /\ AllQuiet(Rev04.up)
    /\ AllQuiet(Rev05.up) /\ AllQuiet(Rev06.up) /\ AllQuiet(Rev07.up) /\ AllQuiet(Rev08.up)
    /\ AllQuiet(Rev09.up) /\ AllQuiet(Rev11.up) /\ AllQuiet(Rev12.up) /\ AllQuiet(Rev14.up)
    /\ AllQuiet(Rev15.up) /\ AllQuiet(Rev16.up) /\ AllQuiet(Rev17.up) /\ AllQuiet(Rev18.up)
    /\ AllQuiet(Rev19.up) /\ AllQuiet(Rev20.up) /\ AllQuiet(Rev21.up) /\ AllQuiet(Rev22.up)
    /\ AllQuiet(Rev23.up) /\ AllQuiet(Rev25.up) /\ AllQuiet(Rev26.up) /\ AllQuiet(Rev27.up)
    /\ AllQuiet(Rev28.up) /\ AllQuiet(Rev29.up) /\ AllQuiet(Rev30.up) /\ AllQuiet(Rev31.up)
    /\ AllQuiet(Rev33.up) /\ AllQuiet(Rev34.up) /\ AllQuiet(Rev36.up)
<1>1. AllQuiet(Rev01.up)
  <2> DEFINE S == {Rev01Work[i] : i \in 1..7} \cup {Rev01Auth[i] : i \in 1..4}
  <2>1. Rev01Work \in Seq(S) /\ Rev01Auth \in Seq(S)
    BY DEF Rev01Work, Rev01Auth
  <2>2. AllQuiet(Rev01Work)
    BY CreatesAreQuiet DEF AllQuiet, Rev01Work
  <2>3. AllQuiet(Rev01Auth)
    BY CreatesAreQuiet DEF AllQuiet, Rev01Auth
  <2>4. AllQuiet(Rev01Work \o Rev01Auth)
    BY <2>1, <2>2, <2>3, QuietTogether
  <2> QED
    BY <2>4 DEF Rev01
<1>2. AllQuiet(Rev02.up)
  BY CreatesAreQuiet DEF AllQuiet, Rev02
<1>3. AllQuiet(Rev03.up)
  BY CreatesAreQuiet DEF AllQuiet, Rev03
<1>4. AllQuiet(Rev04.up)
  BY CreatesAreQuiet DEF AllQuiet, Rev04
<1>5. AllQuiet(Rev05.up)
  BY CreatesAreQuiet, RebuildsAreQuiet DEF AllQuiet, Rev05
<1>6. AllQuiet(Rev06.up)
  BY RebuildsAreQuiet DEF AllQuiet, Rev06, AlarmColumns
<1>7. AllQuiet(Rev07.up)
  BY CreatesAreQuiet, RebuildsAreQuiet DEF AllQuiet, Rev07
<1>8. AllQuiet(Rev08.up)
  BY CreatesAreQuiet DEF AllQuiet, Rev08
<1>9. AllQuiet(Rev09.up)
  BY CreatesAreQuiet, RebuildsAreQuiet DEF AllQuiet, Rev09
<1>11. AllQuiet(Rev11.up)
  BY CreatesAreQuiet DEF AllQuiet, Rev11
<1>12. AllQuiet(Rev12.up)
  BY CreatesAreQuiet DEF AllQuiet, Rev12
<1>14. AllQuiet(Rev14.up)
  BY CreatesAreQuiet DEF AllQuiet, Rev14
<1>15. AllQuiet(Rev15.up)
  BY CreatesAreQuiet DEF AllQuiet, Rev15
<1>16. AllQuiet(Rev16.up)
  BY DEF AllQuiet, Rev16
<1>17. AllQuiet(Rev17.up)
  BY CreatesAreQuiet DEF AllQuiet, Rev17
<1>18. AllQuiet(Rev18.up)
  BY CreatesAreQuiet DEF AllQuiet, Rev18
<1>19. AllQuiet(Rev19.up)
  BY CreatesAreQuiet DEF AllQuiet, Rev19
<1>20. AllQuiet(Rev20.up)
  BY CreatesAreQuiet DEF AllQuiet, Rev20
<1>21. AllQuiet(Rev21.up)
  BY CreatesAreQuiet DEF AllQuiet, Rev21
<1>22. AllQuiet(Rev22.up)
  BY CreatesAreQuiet DEF AllQuiet, Rev22
<1>23. AllQuiet(Rev23.up)
  BY CreatesAreQuiet DEF AllQuiet, Rev23, WindowColumns
<1>25. AllQuiet(Rev25.up)
  BY CreatesAreQuiet DEF AllQuiet, Rev25
<1>26. AllQuiet(Rev26.up)
  BY CreatesAreQuiet DEF AllQuiet, Rev26
<1>27. AllQuiet(Rev27.up)
  BY CreatesAreQuiet DEF AllQuiet, Rev27
<1>28. AllQuiet(Rev28.up)
  BY CreatesAreQuiet DEF AllQuiet, Rev28
<1>29. AllQuiet(Rev29.up)
  BY RebuildsAreQuiet DEF AllQuiet, Rev29
<1>30. AllQuiet(Rev30.up)
  BY CreatesAreQuiet DEF AllQuiet, Rev30, ProjectWorkLogs
<1>31. AllQuiet(Rev31.up)
  BY DropsAreQuiet DEF AllQuiet, Rev31, Watched
<1>33. AllQuiet(Rev33.up)
  BY CreatesAreQuiet DEF AllQuiet, Rev33
<1>34. AllQuiet(Rev34.up)
  BY CreatesAreQuiet, DropsAreQuiet DEF AllQuiet, Rev34, JtiColumns, Watched
<1>36. AllQuiet(Rev36.up)
  BY CreatesAreQuiet, RebuildsAreQuiet DEF AllQuiet, Rev36, JtiColumns
<1> QED
    BY <1>1, <1>2, <1>3, <1>4, <1>5, <1>6, <1>7, <1>8, <1>9, <1>11, <1>12, <1>14, <1>15, <1>16,
     <1>17, <1>18, <1>19, <1>20, <1>21, <1>22, <1>23, <1>25, <1>26, <1>27, <1>28, <1>29, <1>30,
     <1>31, <1>33, <1>34, <1>36

LEMMA QuietDowns ==
    /\ AllQuiet(Rev02.down) /\ AllQuiet(Rev04.down) /\ AllQuiet(Rev05.down) /\ AllQuiet(Rev06.down)
    /\ AllQuiet(Rev08.down) /\ AllQuiet(Rev11.down) /\ AllQuiet(Rev12.down) /\ AllQuiet(Rev14.down)
    /\ AllQuiet(Rev15.down) /\ AllQuiet(Rev16.down) /\ AllQuiet(Rev17.down) /\ AllQuiet(Rev18.down)
    /\ AllQuiet(Rev19.down) /\ AllQuiet(Rev20.down) /\ AllQuiet(Rev21.down) /\ AllQuiet(Rev22.down)
    /\ AllQuiet(Rev23.down) /\ AllQuiet(Rev25.down) /\ AllQuiet(Rev26.down) /\ AllQuiet(Rev27.down)
    /\ AllQuiet(Rev28.down) /\ AllQuiet(Rev29.down) /\ AllQuiet(Rev30.down) /\ AllQuiet(Rev31.down)
    /\ AllQuiet(Rev33.down) /\ AllQuiet(Rev34.down) /\ AllQuiet(Rev35.down) /\ AllQuiet(Rev36.down)
<1>2. AllQuiet(Rev02.down)
  BY DropsAreQuiet DEF AllQuiet, Rev02, Watched
<1>4. AllQuiet(Rev04.down)
  BY RebuildsAreQuiet DEF AllQuiet, Rev04
<1>5. AllQuiet(Rev05.down)
  BY RebuildsAreQuiet, DropsAreQuiet DEF AllQuiet, Rev05, Watched
<1>6. AllQuiet(Rev06.down)
  BY RebuildsAreQuiet DEF AllQuiet, Rev06, AlarmColumns
<1>8. AllQuiet(Rev08.down)
  BY RebuildsAreQuiet, DropsAreQuiet DEF AllQuiet, Rev08, Watched
<1>11. AllQuiet(Rev11.down)
  BY RebuildsAreQuiet DEF AllQuiet, Rev11
<1>12. AllQuiet(Rev12.down)
  BY DropsAreQuiet DEF AllQuiet, Rev12, Watched
<1>14. AllQuiet(Rev14.down)
  BY RebuildsAreQuiet DEF AllQuiet, Rev14
<1>15. AllQuiet(Rev15.down)
  BY DropsAreQuiet DEF AllQuiet, Rev15, Watched
<1>16. AllQuiet(Rev16.down)
  BY DEF AllQuiet, Rev16
<1>17. AllQuiet(Rev17.down)
  BY RebuildsAreQuiet DEF AllQuiet, Rev17
<1>18. AllQuiet(Rev18.down)
  BY DropsAreQuiet DEF AllQuiet, Rev18, Watched
<1>19. AllQuiet(Rev19.down)
  <2>1. Quiet(Rows("unique_client_ref"))
    BY DEF Quiet, Rows
  <2> QED
    BY <2>1, RebuildsAreQuiet, DropsAreQuiet DEF AllQuiet, Rev19, Watched
<1>20. AllQuiet(Rev20.down)
  BY RebuildsAreQuiet DEF AllQuiet, Rev20
<1>21. AllQuiet(Rev21.down)
  BY DropsAreQuiet DEF AllQuiet, Rev21, Watched
<1>22. AllQuiet(Rev22.down)
  BY DropsAreQuiet DEF AllQuiet, Rev22, Watched
<1>23. AllQuiet(Rev23.down)
  BY RebuildsAreQuiet DEF AllQuiet, Rev23, WindowColumns
<1>25. AllQuiet(Rev25.down)
  BY RebuildsAreQuiet DEF AllQuiet, Rev25
<1>26. AllQuiet(Rev26.down)
  BY RebuildsAreQuiet, DropsAreQuiet DEF AllQuiet, Rev26, Watched
<1>27. AllQuiet(Rev27.down)
  BY RebuildsAreQuiet DEF AllQuiet, Rev27
<1>28. AllQuiet(Rev28.down)
  BY RebuildsAreQuiet, DropsAreQuiet DEF AllQuiet, Rev28, Watched
<1>29. AllQuiet(Rev29.down)
  BY RebuildsAreQuiet DEF AllQuiet, Rev29
<1>30. AllQuiet(Rev30.down)
  BY DropsAreQuiet DEF AllQuiet, Rev30, Watched
<1>31. AllQuiet(Rev31.down)
  BY CreatesAreQuiet DEF AllQuiet, Rev31, ProjectWorkLogs
<1>33. AllQuiet(Rev33.down)
  BY DropsAreQuiet DEF AllQuiet, Rev33, Watched
<1>34. AllQuiet(Rev34.down)
  BY CreatesAreQuiet, DropsAreQuiet DEF AllQuiet, Rev34, Watched
<1>35. AllQuiet(Rev35.down)
  <2> DEFINE S == {Rev35DownTracker[i] : i \in 1..9} \cup {Rev35DownScheduler[i] : i \in 1..9}
                  \cup {Rev35DownPush[i] : i \in 1..4}
  <2>1. Rev35DownTracker \in Seq(S) /\ Rev35DownScheduler \in Seq(S) /\ Rev35DownPush \in Seq(S)
    BY DEF Rev35DownTracker, Rev35DownScheduler, Rev35DownPush
  <2>2. AllQuiet(Rev35DownTracker)
    BY CreatesAreQuiet DEF AllQuiet, Rev35DownTracker
  <2>3. AllQuiet(Rev35DownScheduler)
    BY CreatesAreQuiet DEF AllQuiet, Rev35DownScheduler
  <2>4. AllQuiet(Rev35DownPush)
    BY CreatesAreQuiet, RebuildsAreQuiet DEF AllQuiet, Rev35DownPush
  <2> HIDE DEF S
  <2>5. Rev35DownTracker \o Rev35DownScheduler \in Seq(S)
    BY <2>1
  <2>6. AllQuiet(Rev35DownTracker \o Rev35DownScheduler)
    BY <2>1, <2>2, <2>3, QuietTogether
  <2>7. AllQuiet((Rev35DownTracker \o Rev35DownScheduler) \o Rev35DownPush)
    BY <2>1, <2>4, <2>5, <2>6, QuietTogether
  <2> QED
    BY <2>7 DEF Rev35
<1>36. AllQuiet(Rev36.down)
  BY CreatesAreQuiet, RebuildsAreQuiet DEF AllQuiet, Rev36, JtiColumns
<1> QED
    BY <1>2, <1>4, <1>5, <1>6, <1>8, <1>11, <1>12, <1>14, <1>15, <1>16, <1>17, <1>18, <1>19, <1>20,
     <1>21, <1>22, <1>23, <1>25, <1>26, <1>27, <1>28, <1>29, <1>30, <1>31, <1>33, <1>34, <1>35,
     <1>36

LEMMA QuietUpwards == ASSUME NEW k \in 1..36, k \notin UpLoud PROVE AllQuiet(Revision[k].up)
BY QuietUps DEF Revision, UpLoud

LEMMA QuietDownwards == ASSUME NEW k \in 1..36, k \notin DownLoud PROVE AllQuiet(Revision[k].down)
BY QuietDowns DEF Revision, DownLoud

LEMMA LoudUpwards ==
    /\ Len(Revision[10].up) = 3 /\ Quiet(Revision[10].up[1]) /\ Quiet(Revision[10].up[2])
    /\ Revision[10].up[3] = Rows("make_layers")
    /\ Len(Revision[13].up) = 3 /\ Revision[13].up[1] = Rows("copy_legacy_holidays")
    /\ Revision[13].up[2] = Drop("business_calendar_holidays")
    /\ Revision[13].up[3] = Drop("business_calendars")
    /\ Len(Revision[24].up) = 3 /\ Quiet(Revision[24].up[1]) /\ Quiet(Revision[24].up[2])
    /\ Revision[24].up[3] = Rows("owners_manage")
    /\ Len(Revision[32].up) = 2 /\ Quiet(Revision[32].up[1])
    /\ Revision[32].up[2] = Rows("managers_may_create")
    /\ Len(Revision[35].up) \in Nat
    /\ \A i \in 1..Len(Revision[35].up) :
          \/ Quiet(Revision[35].up[i])
          \/ Revision[35].up[i] \in {Drop("calendar_days_off"), Drop("calendars")}
<1>1. /\ Revision[10] = Rev10 /\ Revision[13] = Rev13 /\ Revision[24] = Rev24
      /\ Revision[32] = Rev32 /\ Revision[35] = Rev35
  BY DEF Revision
<1>2. /\ Len(Rev10.up) = 3 /\ Quiet(Rev10.up[1]) /\ Quiet(Rev10.up[2])
      /\ Rev10.up[3] = Rows("make_layers")
  BY CreatesAreQuiet, RebuildsAreQuiet DEF Rev10
<1>3. /\ Len(Rev13.up) = 3 /\ Rev13.up[1] = Rows("copy_legacy_holidays")
      /\ Rev13.up[2] = Drop("business_calendar_holidays") /\ Rev13.up[3] = Drop("business_calendars")
  BY DEF Rev13, Rev13Up
<1>4. /\ Len(Rev24.up) = 3 /\ Quiet(Rev24.up[1]) /\ Quiet(Rev24.up[2])
      /\ Rev24.up[3] = Rows("owners_manage")
  BY CreatesAreQuiet, RebuildsAreQuiet DEF Rev24
<1>5. Len(Rev32.up) = 2 /\ Quiet(Rev32.up[1]) /\ Rev32.up[2] = Rows("managers_may_create")
  BY RebuildsAreQuiet DEF Rev32
<1>6. /\ Len(Rev35.up) \in Nat
      /\ \A i \in 1..Len(Rev35.up) : \/ Quiet(Rev35.up[i])
                                     \/ Rev35.up[i] \in {Drop("calendar_days_off"), Drop("calendars")}
  BY RebuildsAreQuiet, DropsAreQuiet DEF Rev35, Rev35Up, Watched
<1> QED
  BY <1>1, <1>2, <1>3, <1>4, <1>5, <1>6

LEMMA LoudDownwards ==
    /\ \A k \in {1, 3, 7, 9, 24} : Len(Revision[k].down) \in Nat
    /\ \A i \in 1..Len(Revision[1].down) :
          Quiet(Revision[1].down[i]) \/ Revision[1].down[i] = Drop("users")
    /\ \A i \in 1..Len(Revision[3].down) :
          \/ Quiet(Revision[3].down[i])
          \/ Revision[3].down[i] \in {Drop("business_calendar_holidays"), Drop("business_calendars")}
    /\ \A i \in 1..Len(Revision[7].down) :
          Quiet(Revision[7].down[i]) \/ Revision[7].down[i] = Drop("projects")
    /\ \A i \in 1..Len(Revision[9].down) :
          Quiet(Revision[9].down[i]) \/ Revision[9].down[i] = Drop("calendars")
    /\ Len(Revision[10].down) = 3 /\ Revision[10].down[1] = Drop("calendar_days_off")
    /\ Revision[10].down[2] = Rows("delete_layers") /\ Quiet(Revision[10].down[3])
    /\ Len(Revision[13].down) = 3 /\ Quiet(Revision[13].down[1]) /\ Quiet(Revision[13].down[2])
    /\ Revision[13].down[3] = Rows("business_calendars_from_layers")
    /\ \A i \in 1..Len(Revision[24].down) :
          Quiet(Revision[24].down[i]) \/ Revision[24].down[i] = Drop("project_members")
    /\ Len(Revision[32].down) = 1
    /\ Revision[32].down[1] = Rebuild("users", {}, {"can_create_projects"}, NoKeys)
<1>1. /\ Revision[1] = Rev01 /\ Revision[3] = Rev03 /\ Revision[7] = Rev07 /\ Revision[9] = Rev09
      /\ Revision[10] = Rev10 /\ Revision[13] = Rev13 /\ Revision[24] = Rev24 /\ Revision[32] = Rev32
  BY DEF Revision
<1>2. \A i \in 1..Len(Rev01.down) : Quiet(Rev01.down[i]) \/ Rev01.down[i] = Drop("users")
  BY DropsAreQuiet DEF Rev01, Rev01Down, Watched
<1>3. \A i \in 1..Len(Rev03.down) :
         \/ Quiet(Rev03.down[i])
         \/ Rev03.down[i] \in {Drop("business_calendar_holidays"), Drop("business_calendars")}
  BY DropsAreQuiet DEF Rev03, Watched
<1>4. \A i \in 1..Len(Rev07.down) : Quiet(Rev07.down[i]) \/ Rev07.down[i] = Drop("projects")
  BY RebuildsAreQuiet DEF Rev07
<1>5. \A i \in 1..Len(Rev09.down) : Quiet(Rev09.down[i]) \/ Rev09.down[i] = Drop("calendars")
  BY RebuildsAreQuiet, DropsAreQuiet DEF Rev09, Watched
<1>6. /\ Len(Rev10.down) = 3 /\ Rev10.down[1] = Drop("calendar_days_off")
      /\ Rev10.down[2] = Rows("delete_layers") /\ Quiet(Rev10.down[3])
  BY RebuildsAreQuiet DEF Rev10, LayerColumns
<1>7. /\ Len(Rev13.down) = 3 /\ Quiet(Rev13.down[1]) /\ Quiet(Rev13.down[2])
      /\ Rev13.down[3] = Rows("business_calendars_from_layers")
  BY CreatesAreQuiet DEF Rev13, Rev13Down
<1>8. \A i \in 1..Len(Rev24.down) : Quiet(Rev24.down[i]) \/ Rev24.down[i] = Drop("project_members")
  BY RebuildsAreQuiet DEF Rev24
<1>9. Len(Rev32.down) = 1 /\ Rev32.down[1] = Rebuild("users", {}, {"can_create_projects"}, NoKeys)
  BY DEF Rev32
<1>10. /\ Len(Rev01.down) = 11 /\ Len(Rev03.down) = 5 /\ Len(Rev07.down) = 3
       /\ Len(Rev09.down) = 3 /\ Len(Rev24.down) = 2
  BY DEF Rev01, Rev01Down, Rev03, Rev07, Rev09, Rev24
<1>11. \A k \in {1, 3, 7, 9, 24} : Len(Revision[k].down) \in Nat
  BY <1>1, <1>10
<1> QED
  BY <1>1, <1>2, <1>3, <1>4, <1>5, <1>6, <1>7, <1>8, <1>9, <1>11

------------------------------------------------------------------------------
(* What the other statements do, column by column.                          *)

SameProjects(r, q) ==
    q.users = r.users /\ q.roots = r.roots /\ q.managers = r.managers /\ q.creators = r.creators
SameHolidays(r, q) == q.business = r.business /\ q.layer = r.layer

LEMMA UpEffects ==
    ASSUME NEW r, RowsShape(r)
    PROVE  /\ ApplyRows(Rows("make_layers"), r) = MakeLayers(r)
           /\ ApplyRows(Rows("copy_legacy_holidays"), r) = CopyLegacyHolidays(r)
           /\ ApplyRows(Drop("business_calendar_holidays"), r) =
                 [r EXCEPT !.business = [u \in User |-> IF @[u] = None THEN None ELSE {}]]
           /\ ApplyRows(Drop("business_calendars"), r) = [r EXCEPT !.business = [u \in User |-> None]]
           /\ ApplyRows(Rows("owners_manage"), r) = OwnersManage(r)
           /\ ApplyRows(Rows("managers_may_create"), r) = ManagersMayCreate(r)
<1>1. ApplyRows(Rows("make_layers"), r) = MakeLayers(r)
  BY DEF ApplyRows, Rows
<1>2. ApplyRows(Rows("copy_legacy_holidays"), r) = CopyLegacyHolidays(r)
  BY DEF ApplyRows, Rows
<1>3. ApplyRows(Drop("business_calendar_holidays"), r) =
         [r EXCEPT !.business = [u \in User |-> IF @[u] = None THEN None ELSE {}]]
  BY DEF ApplyRows, Drop, RowsAfterDrop
<1>4. ApplyRows(Drop("business_calendars"), r) = [r EXCEPT !.business = [u \in User |-> None]]
  BY DEF ApplyRows, Drop, RowsAfterDrop
<1>5. ApplyRows(Rows("owners_manage"), r) = OwnersManage(r)
  BY DEF ApplyRows, Rows
<1>6. ApplyRows(Rows("managers_may_create"), r) = ManagersMayCreate(r)
  BY DEF ApplyRows, Rows
<1> QED
  BY <1>1, <1>2, <1>3, <1>4, <1>5, <1>6

LEMMA DownEffects ==
    ASSUME NEW r, RowsShape(r)
    PROVE  /\ ApplyRows(Drop("users"), r) = [r EXCEPT !.users = {}]
           /\ ApplyRows(Drop("projects"), r) = [r EXCEPT !.roots = {}]
           /\ ApplyRows(Drop("project_members"), r) = [r EXCEPT !.managers = [u \in User |-> {}]]
           /\ ApplyRows(Drop("calendars"), r) = [r EXCEPT !.layer = [u \in User |-> None]]
           /\ ApplyRows(Drop("calendar_days_off"), r) =
                 [r EXCEPT !.layer = [u \in User |-> IF @[u] = None THEN None ELSE {}]]
           /\ ApplyRows(Rows("delete_layers"), r) = DeleteLayers(r)
           /\ ApplyRows(Rows("business_calendars_from_layers"), r) = BusinessCalendarsFromLayers(r)
           /\ ApplyRows(Rebuild("users", {}, {"can_create_projects"}, NoKeys), r) =
                 [r EXCEPT !.creators = {}]
<1>1. ApplyRows(Drop("users"), r) = [r EXCEPT !.users = {}]
  BY DEF ApplyRows, Drop, RowsAfterDrop
<1>2. ApplyRows(Drop("projects"), r) = [r EXCEPT !.roots = {}]
  BY DEF ApplyRows, Drop, RowsAfterDrop
<1>3. ApplyRows(Drop("project_members"), r) = [r EXCEPT !.managers = [u \in User |-> {}]]
  BY DEF ApplyRows, Drop, RowsAfterDrop
<1>4. ApplyRows(Drop("calendars"), r) = [r EXCEPT !.layer = [u \in User |-> None]]
  BY DEF ApplyRows, Drop, RowsAfterDrop
<1>5. ApplyRows(Drop("calendar_days_off"), r) =
         [r EXCEPT !.layer = [u \in User |-> IF @[u] = None THEN None ELSE {}]]
  BY DEF ApplyRows, Drop, RowsAfterDrop
<1>6. ApplyRows(Rows("delete_layers"), r) = DeleteLayers(r)
  BY DEF ApplyRows, Rows
<1>7. ApplyRows(Rows("business_calendars_from_layers"), r) = BusinessCalendarsFromLayers(r)
  BY DEF ApplyRows, Rows
<1>8. ApplyRows(Rebuild("users", {}, {"can_create_projects"}, NoKeys), r) = [r EXCEPT !.creators = {}]
  <2>1. "can_create_projects" \in {"can_create_projects"}
    OBVIOUS
  <2> QED
    BY <2>1 DEF ApplyRows, Rebuild
<1> QED
  BY <1>1, <1>2, <1>3, <1>4, <1>5, <1>6, <1>7, <1>8

LEMMA LayersAreMade ==
    ASSUME NEW r, RowsShape(r), NEW q, q = MakeLayers(r)
    PROVE  RowsShape(q) /\ SameProjects(r, q) /\ q.business = r.business
<1>1. \A u \in User : DaysIn(r.business[u]) \in SUBSET Day
  BY DEF RowsShape, HolidayColumn, DaysIn
<1> QED
  BY <1>1 DEF MakeLayers, RowsShape, HolidayColumn, SameProjects

LEMMA LegacyIsCopied ==
    ASSUME NEW r, RowsShape(r), NEW q, q = CopyLegacyHolidays(r)
    PROVE  /\ RowsShape(q) /\ SameProjects(r, q) /\ q.business = r.business
           /\ \A u \in User : HolidaysOf(r, u) \subseteq DaysIn(q.layer[u])
<1> DEFINE both(u) == DaysIn(r.layer[u]) \cup r.business[u]
<1>1. \A u \in User : r.business[u] # None => both(u) \in SUBSET Day /\ both(u) # None
  BY NoneAssumption DEF RowsShape, HolidayColumn, DaysIn
<1>2. \A u \in User : q.layer[u] = IF r.business[u] = None THEN r.layer[u] ELSE both(u)
  BY DEF CopyLegacyHolidays, RowsShape
<1>3. q.layer \in HolidayColumn
  BY <1>1 DEF CopyLegacyHolidays, RowsShape, HolidayColumn
<1>4. RowsShape(q) /\ SameProjects(r, q) /\ q.business = r.business
  BY <1>3 DEF CopyLegacyHolidays, RowsShape, SameProjects
<1>5. \A u \in User : HolidaysOf(r, u) \subseteq DaysIn(q.layer[u])
  BY <1>1, <1>2 DEF HolidaysOf, DaysIn
<1> QED
  BY <1>4, <1>5

------------------------------------------------------------------------------
(* One statement on the way up.                                             *)

\* The i-th statement of revision k leaves the rows alone, or is one of those
\* listed; what 0024 and 0032 do comes last, and all of 0013 is listed.
UpKind(k, i, s) ==
    \/ Quiet(s) /\ k # 13 /\ (k = 24 => i < 3) /\ (k = 32 => i < 2)
    \/ k = 10 /\ i = 3 /\ s = Rows("make_layers")
    \/ k = 13 /\ i = 1 /\ s = Rows("copy_legacy_holidays")
    \/ k = 13 /\ i = 2 /\ s = Drop("business_calendar_holidays")
    \/ k = 13 /\ i = 3 /\ s = Drop("business_calendars")
    \/ k = 24 /\ i = 3 /\ s = Rows("owners_manage")
    \/ k = 32 /\ i = 2 /\ s = Rows("managers_may_create")
    \/ k = 35 /\ s = Drop("calendar_days_off")
    \/ k = 35 /\ s = Drop("calendars")

LEMMA UpKinds ==
    ASSUME NEW k \in 1..36, NEW n, n = Len(Revision[k].up), NEW i \in 1..n
    PROVE  n \in Nat /\ UpKind(k, i, Revision[k].up[i])
<1>1. CASE k \notin UpLoud
  <2>1. n \in Nat /\ Quiet(Revision[k].up[i])
    BY <1>1, QuietUpwards DEF AllQuiet
  <2>2. k # 13 /\ k # 24 /\ k # 32
    BY <1>1 DEF UpLoud
  <2> QED
    BY <2>1, <2>2 DEF UpKind
<1>2. CASE k = 10
  <2>1. n = 3 /\ (i = 1 \/ i = 2 \/ i = 3)
    BY <1>2, LoudUpwards
  <2> QED
    BY <1>2, <2>1, LoudUpwards DEF UpKind
<1>3. CASE k = 13
  <2>1. n = 3 /\ (i = 1 \/ i = 2 \/ i = 3)
    BY <1>3, LoudUpwards
  <2> QED
    BY <1>3, <2>1, LoudUpwards DEF UpKind
<1>4. CASE k = 24
  <2>1. n = 3 /\ (i = 1 \/ i = 2 \/ i = 3)
    BY <1>4, LoudUpwards
  <2> QED
    BY <1>4, <2>1, LoudUpwards DEF UpKind
<1>5. CASE k = 32
  <2>1. n = 2 /\ (i = 1 \/ i = 2)
    BY <1>5, LoudUpwards
  <2> QED
    BY <1>5, <2>1, LoudUpwards DEF UpKind
<1>6. CASE k = 35
  <2>1. /\ n \in Nat
        /\ \/ Quiet(Revision[k].up[i])
           \/ Revision[k].up[i] \in {Drop("calendar_days_off"), Drop("calendars")}
    BY <1>6, LoudUpwards
  <2> QED
    BY <1>6, <2>1 DEF UpKind
<1> QED
  BY <1>1, <1>2, <1>3, <1>4, <1>5, <1>6 DEF UpLoud

LEMMA UpStatementKeeps ==
    ASSUME NEW v \in 0..35, NEW d \in Nat, NEW r, RowsShape(r), NEW s, UpKind(v + 1, d + 1, s),
           UpRows(v, d, r), NEW q, q = ApplyRows(s, r)
    PROVE  /\ RowsShape(q) /\ UpRows(v, d + 1, q)
           /\ \A old, from : (from \in 0..v /\ UpPeople(v, d, r, old, from)) => UpPeople(v, d + 1, q, old, from)
           /\ v < 34 => \A old : UpHolidays(v, d, r, old) => UpHolidays(v, d + 1, q, old)
<1>0. ASSUME SameProjects(r, q), v # 23 \/ d # 2, v # 31 \/ d # 1,
             NEW old, NEW from, UpPeople(v, d, r, old, from)
      PROVE  UpPeople(v, d + 1, q, old, from)
  BY <1>0 DEF UpPeople, SameProjects, ManagersOfRoots
<1>1. CASE /\ Quiet(s) /\ v # 12
           /\ v = 23 => d < 2
           /\ v = 31 => d < 1
  <2>1. q = r
    BY <1>1, QuietKeepsRows
  <2>2. UpRows(v, d + 1, q)
    BY <1>1, <2>1 DEF UpRows
  <2>3. SameProjects(r, q)
    BY <2>1 DEF SameProjects
  <2> QED
    BY <1>0, <1>1, <2>1, <2>2, <2>3 DEF UpHolidays
<1>2. CASE v = 9 /\ d = 2 /\ s = Rows("make_layers")
  <2>1. RowsShape(q) /\ SameProjects(r, q) /\ q.business = r.business
    BY <1>2, UpEffects, LayersAreMade
  <2>2. NoLayers(r)
    BY <1>2 DEF UpRows
  <2>3. UpRows(v, d + 1, q)
    BY <1>2 DEF UpRows
  <2>4. \A u \in User : HolidaysOf(r, u) \subseteq HolidaysOf(q, u)
    BY <2>1, <2>2 DEF HolidaysOf, DaysIn, NoLayers
  <2> QED
    BY <1>0, <1>2, <2>1, <2>3, <2>4 DEF UpHolidays
<1>3. CASE v = 12 /\ d = 0 /\ s = Rows("copy_legacy_holidays")
  <2>1. /\ RowsShape(q) /\ SameProjects(r, q) /\ q.business = r.business
        /\ \A u \in User : HolidaysOf(r, u) \subseteq DaysIn(q.layer[u])
    BY <1>3, UpEffects, LegacyIsCopied
  <2>2. UpRows(v, d + 1, q)
    BY <1>3 DEF UpRows
  <2>3. \A u \in User : HolidaysOf(r, u) \subseteq HolidaysOf(q, u)
    BY <2>1 DEF HolidaysOf
  <2> QED
    BY <1>0, <1>3, <2>1, <2>2, <2>3 DEF UpHolidays
<1>4. CASE v = 12 /\ d \in {1, 2} /\ SameProjects(r, q) /\ q.layer = r.layer /\ RowsShape(q) /\ (d = 2 => NoBusiness(q))
  <2>1. UpRows(v, d + 1, q)
    BY <1>4 DEF UpRows
  <2>2. \A old : UpHolidays(v, d, r, old) => UpHolidays(v, d + 1, q, old)
    BY <1>4 DEF UpHolidays, HolidaysOf
  <2> QED
    BY <1>0, <1>4, <2>1, <2>2
<1>5. CASE v = 12 /\ d = 1 /\ s = Drop("business_calendar_holidays")
  <2>1. q = [r EXCEPT !.business = [u \in User |-> IF @[u] = None THEN None ELSE {}]]
    BY <1>5, UpEffects
  <2>2. RowsShape(q) /\ q.layer = r.layer /\ SameProjects(r, q)
    BY <2>1 DEF RowsShape, HolidayColumn, SameProjects
  <2> QED
    BY <1>4, <1>5, <2>2
<1>6. CASE v = 12 /\ d = 2 /\ s = Drop("business_calendars")
  <2>1. q = [r EXCEPT !.business = [u \in User |-> None]]
    BY <1>6, UpEffects
  <2>2. RowsShape(q) /\ q.layer = r.layer /\ NoBusiness(q) /\ SameProjects(r, q)
    BY <2>1 DEF RowsShape, HolidayColumn, NoBusiness, SameProjects
  <2> QED
    BY <1>4, <1>6, <2>2
<1>7. CASE v = 23 /\ d = 2 /\ s = Rows("owners_manage")
  <2>1. q = OwnersManage(r)
    BY <1>7, UpEffects
  <2>2. /\ RowsShape(q) /\ SameHolidays(r, q) /\ q.roots = r.roots
        /\ q.managers = [u \in User |-> IF u \in r.roots THEN {u} ELSE {}]
    BY <2>1 DEF OwnersManage, RowsShape, SameHolidays
  <2>3. UpRows(v, d + 1, q)
    BY <1>7, <2>2 DEF UpRows, NoBusiness, SameHolidays
  <2>4. \A u \in User \cap q.roots : q.managers[u] = {u}
    BY <2>2
  <2>5. ASSUME NEW old, NEW from, from \in 0..v, UpPeople(v, d, r, old, from)
        PROVE  UpPeople(v, d + 1, q, old, from)
    BY <1>7, <2>2, <2>4, <2>5 DEF UpPeople
  <2> QED
    BY <1>7, <2>2, <2>3, <2>5 DEF UpHolidays, HolidaysOf, SameHolidays
<1>8. CASE v = 31 /\ d = 1 /\ s = Rows("managers_may_create")
  <2>1. q = ManagersMayCreate(r)
    BY <1>8, UpEffects
  <2>2. /\ RowsShape(q) /\ SameHolidays(r, q) /\ q.roots = r.roots /\ q.managers = r.managers
        /\ q.users = r.users /\ q.creators = ManagersOfRoots(r) \cup (r.users \cap {DefaultUser})
    BY <2>1 DEF ManagersMayCreate, RowsShape, SameHolidays
  <2>3. ManagersOfRoots(q) = ManagersOfRoots(r)
    BY <2>2 DEF ManagersOfRoots
  <2>4. UpRows(v, d + 1, q)
    BY <1>8, <2>2 DEF UpRows, NoBusiness, SameHolidays
  <2>5. ASSUME NEW old, NEW from, from \in 0..v, UpPeople(v, d, r, old, from)
        PROVE  UpPeople(v, d + 1, q, old, from)
    BY <1>8, <2>2, <2>3, <2>5 DEF UpPeople
  <2> QED
    BY <1>8, <2>2, <2>4, <2>5 DEF UpHolidays, HolidaysOf, SameHolidays
<1>9. CASE v = 34 /\ (s = Drop("calendar_days_off") \/ s = Drop("calendars"))
  <2>1. \/ q = [r EXCEPT !.layer = [u \in User |-> IF @[u] = None THEN None ELSE {}]]
        \/ q = [r EXCEPT !.layer = [u \in User |-> None]]
    BY <1>9, DownEffects
  <2>2. RowsShape(q) /\ SameProjects(r, q) /\ q.business = r.business
    BY <2>1 DEF RowsShape, HolidayColumn, SameProjects
  <2>3. UpRows(v, d + 1, q)
    BY <1>9, <2>2 DEF UpRows, NoBusiness, SameProjects
  <2> QED
    BY <1>0, <1>9, <2>2, <2>3
<1> QED
  <2>1. UpKind(v + 1, d + 1, s) => \/ Quiet(s) /\ v # 12 /\ (v = 23 => d < 2) /\ (v = 31 => d < 1)
                                   \/ v = 9 /\ d = 2 /\ s = Rows("make_layers")
                                   \/ v = 12 /\ d = 0 /\ s = Rows("copy_legacy_holidays")
                                   \/ v = 12 /\ d = 1 /\ s = Drop("business_calendar_holidays")
                                   \/ v = 12 /\ d = 2 /\ s = Drop("business_calendars")
                                   \/ v = 23 /\ d = 2 /\ s = Rows("owners_manage")
                                   \/ v = 31 /\ d = 1 /\ s = Rows("managers_may_create")
                                   \/ v = 34 /\ (s = Drop("calendar_days_off") \/ s = Drop("calendars"))
    BY DEF UpKind
  <2> QED
    BY <1>1, <1>2, <1>3, <1>5, <1>6, <1>7, <1>8, <1>9, <2>1

------------------------------------------------------------------------------
(* One statement on the way down.                                           *)

DownKind(k, i, s) ==
    \/ Quiet(s) /\ (k = 10 => i = 3) /\ (k = 13 => i < 3) /\ k # 32
    \/ k = 1 /\ s = Drop("users")
    \/ k = 3 /\ s \in {Drop("business_calendar_holidays"), Drop("business_calendars")}
    \/ k = 7 /\ s = Drop("projects")
    \/ k = 9 /\ s = Drop("calendars")
    \/ k = 10 /\ i = 1 /\ s = Drop("calendar_days_off")
    \/ k = 10 /\ i = 2 /\ s = Rows("delete_layers")
    \/ k = 13 /\ i = 3 /\ s = Rows("business_calendars_from_layers")
    \/ k = 24 /\ s = Drop("project_members")
    \/ k = 32 /\ i = 1 /\ s = Rebuild("users", {}, {"can_create_projects"}, NoKeys)

LEMMA DownKinds ==
    ASSUME NEW k \in 1..36, NEW n, n = Len(Revision[k].down), NEW i \in 1..n
    PROVE  n \in Nat /\ DownKind(k, i, Revision[k].down[i])
<1> DEFINE s == Revision[k].down[i]
<1>1. CASE k \notin DownLoud
  <2>1. n \in Nat /\ Quiet(s)
    BY <1>1, QuietDownwards DEF AllQuiet
  <2>2. k # 10 /\ k # 13 /\ k # 32
    BY <1>1 DEF DownLoud
  <2> QED
    BY <2>1, <2>2 DEF DownKind
<1>2. CASE k \in {1, 3, 7, 9, 24}
  <2>1. n \in Nat
    BY <1>2, LoudDownwards
  <2>2. /\ k # 10 /\ k # 13 /\ k # 32
        /\ k = 1 \/ k = 3 \/ k = 7 \/ k = 9 \/ k = 24
    BY <1>2
  <2>3. \/ Quiet(s)
        \/ k = 1 /\ s = Drop("users")
        \/ k = 3 /\ s \in {Drop("business_calendar_holidays"), Drop("business_calendars")}
        \/ k = 7 /\ s = Drop("projects")
        \/ k = 9 /\ s = Drop("calendars")
        \/ k = 24 /\ s = Drop("project_members")
    <3>1. CASE k = 1
      BY <3>1, LoudDownwards
    <3>2. CASE k = 3
      BY <3>2, LoudDownwards
    <3>3. CASE k = 7
      BY <3>3, LoudDownwards
    <3>4. CASE k = 9
      BY <3>4, LoudDownwards
    <3>5. CASE k = 24
      BY <3>5, LoudDownwards
    <3> QED
      BY <2>2, <3>1, <3>2, <3>3, <3>4, <3>5
  <2> QED
    BY <2>1, <2>2, <2>3 DEF DownKind
<1>3. CASE k = 10
  <2>1. n = 3 /\ (i = 1 \/ i = 2 \/ i = 3)
    BY <1>3, LoudDownwards
  <2> QED
    BY <1>3, <2>1, LoudDownwards DEF DownKind
<1>4. CASE k = 13
  <2>1. n = 3 /\ (i = 1 \/ i = 2 \/ i = 3)
    BY <1>4, LoudDownwards
  <2> QED
    BY <1>4, <2>1, LoudDownwards DEF DownKind
<1>5. CASE k = 32
  <2>1. n = 1 /\ i = 1
    BY <1>5, LoudDownwards
  <2> QED
    BY <1>5, <2>1, LoudDownwards DEF DownKind
<1> QED
  BY <1>1, <1>2, <1>3, <1>4, <1>5 DEF DownLoud

LEMMA DownStatementKeeps ==
    ASSUME NEW v \in 1..36, NEW d \in Nat, NEW r, RowsShape(r), NEW s, DownKind(v, d + 1, s),
           DownRows(v, d, r), NEW q, q = ApplyRows(s, r)
    PROVE  /\ RowsShape(q) /\ DownRows(v, d + 1, q)
           /\ \A old, from : /\ v # 3
                             /\ v = 10 => from >= 13
                             /\ DownHolidays(v, d, r, old, from)
                             => DownHolidays(v, d + 1, q, old, from)
<1>1. CASE Quiet(s) /\ (v = 10 => d = 2) /\ (v = 13 => d < 2)
  <2>1. q = r
    BY <1>1, QuietKeepsRows
  <2>2. DownRows(v, d + 1, q)
    BY <1>1, <2>1 DEF DownRows
  <2> QED
    BY <1>1, <2>1, <2>2 DEF DownHolidays
<1>2. CASE v = 1 /\ s = Drop("users")
  <2>1. q = [r EXCEPT !.users = {}]
    BY <1>2, DownEffects
  <2>2. RowsShape(q) /\ SameHolidays(r, q)
    BY <2>1 DEF RowsShape, SameHolidays
  <2>3. DownRows(v, d + 1, q)
    BY <1>2, <2>2 DEF DownRows, SameHolidays, NoLayers
  <2> QED
    BY <1>2, <2>2, <2>3 DEF DownHolidays, HolidaysOf, SameHolidays
<1>3. CASE v = 3 /\ s \in {Drop("business_calendar_holidays"), Drop("business_calendars")}
  <2>1. \/ q = [r EXCEPT !.business = [u \in User |-> IF @[u] = None THEN None ELSE {}]]
        \/ q = [r EXCEPT !.business = [u \in User |-> None]]
    BY <1>3, UpEffects
  <2>2. RowsShape(q) /\ q.layer = r.layer
    BY <2>1 DEF RowsShape, HolidayColumn
  <2>3. DownRows(v, d + 1, q)
    BY <1>3, <2>2 DEF DownRows, NoLayers
  <2> QED
    BY <1>3, <2>2, <2>3
<1>4. CASE v = 7 /\ s = Drop("projects")
  <2>1. q = [r EXCEPT !.roots = {}]
    BY <1>4, DownEffects
  <2>2. RowsShape(q) /\ SameHolidays(r, q)
    BY <2>1 DEF RowsShape, SameHolidays
  <2>3. DownRows(v, d + 1, q)
    BY <1>4, <2>2 DEF DownRows, SameHolidays, NoLayers
  <2> QED
    BY <1>4, <2>2, <2>3 DEF DownHolidays, HolidaysOf, SameHolidays
<1>5. CASE v = 9 /\ s = Drop("calendars")
  <2>1. q = [r EXCEPT !.layer = [u \in User |-> None]]
    BY <1>5, DownEffects
  <2>2. RowsShape(q) /\ q.business = r.business /\ NoLayers(q)
    BY <2>1 DEF RowsShape, HolidayColumn, NoLayers
  <2>3. DownRows(v, d + 1, q)
    BY <1>5, <2>2 DEF DownRows
  <2>4. NoLayers(r)
    BY <1>5 DEF DownRows
  <2>5. \A u \in User : HolidaysOf(q, u) = HolidaysOf(r, u)
    BY <2>2, <2>4 DEF NoLayers, HolidaysOf
  <2> QED
    BY <1>5, <2>2, <2>3, <2>5 DEF DownHolidays
<1>6. CASE v = 10 /\ RowsShape(q) /\ q.business = r.business /\ (d + 1 >= 2 => NoLayers(q))
  <2>1. DownRows(v, d + 1, q)
    BY <1>6 DEF DownRows
  <2>2. ASSUME NEW old, NEW from, from >= 13, DownHolidays(v, d, r, old, from)
        PROVE  DownHolidays(v, d + 1, q, old, from)
    <3>1. \A u \in User : HolidaysOf(old, u) \subseteq DaysIn(q.business[u])
      BY <1>6, <2>2 DEF DownHolidays
    <3>2. \A u \in User : HolidaysOf(old, u) \subseteq HolidaysOf(q, u)
      BY <3>1 DEF HolidaysOf
    <3> QED
      BY <3>1, <3>2 DEF DownHolidays
  <2> QED
    BY <1>6, <2>1, <2>2
<1>7. CASE v = 10 /\ d = 0 /\ s = Drop("calendar_days_off")
  <2>1. q = [r EXCEPT !.layer = [u \in User |-> IF @[u] = None THEN None ELSE {}]]
    BY <1>7, DownEffects
  <2>2. RowsShape(q) /\ q.business = r.business
    BY <2>1 DEF RowsShape, HolidayColumn
  <2> QED
    BY <1>6, <1>7, <2>2
<1>8. CASE v = 10 /\ d = 1 /\ s = Rows("delete_layers")
  <2>1. q = DeleteLayers(r)
    BY <1>8, DownEffects
  <2>2. RowsShape(q) /\ q.business = r.business /\ NoLayers(q)
    BY <2>1 DEF DeleteLayers, RowsShape, HolidayColumn, NoLayers
  <2> QED
    BY <1>6, <1>8, <2>2
<1>9. CASE v = 13 /\ d = 2 /\ s = Rows("business_calendars_from_layers")
  <2>1. q = BusinessCalendarsFromLayers(r)
    BY <1>9, DownEffects
  <2>2. RowsShape(q) /\ q.business = r.layer /\ q.layer = r.layer
    BY <2>1 DEF BusinessCalendarsFromLayers, RowsShape
  <2>3. NoBusiness(r)
    BY <1>9 DEF DownRows
  <2>4. DownRows(v, d + 1, q)
    BY <1>9 DEF DownRows
  <2>5. \A u \in User : HolidaysOf(r, u) \subseteq DaysIn(q.business[u])
    BY <2>2, <2>3 DEF NoBusiness, HolidaysOf, DaysIn
  <2>6. \A u \in User : DaysIn(q.business[u]) \subseteq HolidaysOf(q, u)
    BY DEF HolidaysOf
  <2> QED
    BY <1>9, <2>2, <2>4, <2>5, <2>6 DEF DownHolidays
<1>10. CASE v = 24 /\ s = Drop("project_members")
  <2>1. q = [r EXCEPT !.managers = [u \in User |-> {}]]
    BY <1>10, DownEffects
  <2>2. RowsShape(q) /\ SameHolidays(r, q)
    BY <2>1 DEF RowsShape, SameHolidays
  <2>3. DownRows(v, d + 1, q)
    BY <1>10, <2>2 DEF DownRows, SameHolidays, NoBusiness
  <2> QED
    BY <1>10, <2>2, <2>3 DEF DownHolidays, HolidaysOf, SameHolidays
<1>11. CASE v = 32 /\ d = 0 /\ s = Rebuild("users", {}, {"can_create_projects"}, NoKeys)
  <2>1. q = [r EXCEPT !.creators = {}]
    BY <1>11, DownEffects
  <2>2. RowsShape(q) /\ SameHolidays(r, q) /\ q.roots = r.roots /\ q.managers = r.managers
    BY <2>1 DEF RowsShape, SameHolidays
  <2>3. DownRows(v, d + 1, q)
    BY <1>11, <2>2 DEF DownRows, SameHolidays, NoBusiness
  <2> QED
    BY <1>11, <2>2, <2>3 DEF DownHolidays, HolidaysOf, SameHolidays
<1> QED
  <2>1. \/ Quiet(s) /\ (v = 10 => d = 2) /\ (v = 13 => d < 2)
        \/ v = 1 /\ s = Drop("users")
        \/ v = 3 /\ s \in {Drop("business_calendar_holidays"), Drop("business_calendars")}
        \/ v = 7 /\ s = Drop("projects")
        \/ v = 9 /\ s = Drop("calendars")
        \/ v = 10 /\ d = 0 /\ s = Drop("calendar_days_off")
        \/ v = 10 /\ d = 1 /\ s = Rows("delete_layers")
        \/ v = 13 /\ d = 2 /\ s = Rows("business_calendars_from_layers")
        \/ v = 24 /\ s = Drop("project_members")
        \/ v = 32 /\ d = 0 /\ s = Rebuild("users", {}, {"can_create_projects"}, NoKeys)
    BY DEF DownKind
  <2> QED
    BY <1>1, <1>2, <1>3, <1>4, <1>5, <1>7, <1>8, <1>9, <1>10, <1>11, <2>1

LEMMA DownKeepsPeople ==
    ASSUME NEW v \in 1..36, NEW d \in Nat, NEW r, RowsShape(r), NEW s, DownKind(v, d + 1, s),
           NEW q, q = ApplyRows(s, r), NEW old, DownPeople(v, d, r, old)
    PROVE  DownPeople(v, d + 1, q, old)
<1>1. CASE v < 7
  BY <1>1 DEF DownPeople
<1>2. CASE SameProjects(r, q)
  BY <1>2 DEF DownPeople, SameProjects
<1>3. CASE Quiet(s)
  BY <1>2, <1>3, QuietKeepsRows DEF SameProjects
<1>4. CASE v = 7 /\ s = Drop("projects")
  BY <1>4 DEF DownPeople
<1>5. CASE v = 9 /\ s = Drop("calendars")
  <2>1. q = [r EXCEPT !.layer = [u \in User |-> None]]
    BY <1>5, DownEffects
  <2> QED
    BY <1>2, <2>1 DEF RowsShape, SameProjects
<1>6. CASE v = 10 /\ s = Drop("calendar_days_off")
  <2>1. q = [r EXCEPT !.layer = [u \in User |-> IF @[u] = None THEN None ELSE {}]]
    BY <1>6, DownEffects
  <2> QED
    BY <1>2, <2>1 DEF RowsShape, SameProjects
<1>7. CASE v = 10 /\ s = Rows("delete_layers")
  <2>1. q = DeleteLayers(r)
    BY <1>7, DownEffects
  <2> QED
    BY <1>2, <2>1 DEF RowsShape, SameProjects, DeleteLayers
<1>8. CASE v = 13 /\ s = Rows("business_calendars_from_layers")
  <2>1. q = BusinessCalendarsFromLayers(r)
    BY <1>8, DownEffects
  <2> QED
    BY <1>2, <2>1 DEF RowsShape, SameProjects, BusinessCalendarsFromLayers
<1>9. CASE v = 24 /\ s = Drop("project_members")
  <2>1. q = [r EXCEPT !.managers = [u \in User |-> {}]]
    BY <1>9, DownEffects
  <2>2. q.roots = r.roots
    BY <2>1 DEF RowsShape
  <2> QED
    BY <1>9, <2>2 DEF DownPeople
<1>10. CASE v = 32 /\ s = Rebuild("users", {}, {"can_create_projects"}, NoKeys)
  <2>1. q = [r EXCEPT !.creators = {}]
    BY <1>10, DownEffects
  <2>2. q.roots = r.roots /\ q.managers = r.managers
    BY <2>1 DEF RowsShape
  <2> QED
    BY <1>10, <2>2 DEF DownPeople
<1> QED
  BY <1>1, <1>3, <1>4, <1>5, <1>9, <1>10, <1>6, <1>7, <1>8 DEF DownKind

------------------------------------------------------------------------------
(* Every step keeps the invariant.                                          *)

LEMMA TargetsCount == Release \subseteq 1..36
BY ReleaseAssumption, RevisionsCount

LEMMA UpLengths == ASSUME NEW k \in 1..36 PROVE Len(Revision[k].up) \in Nat
<1>1. CASE k \notin UpLoud
  BY <1>1, QuietUpwards DEF AllQuiet
<1>2. CASE k \in UpLoud
  <2>1. k = 10 \/ k = 13 \/ k = 24 \/ k = 32 \/ k = 35
    BY <1>2 DEF UpLoud
  <2> QED
    BY <2>1, LoudUpwards
<1> QED
  BY <1>1, <1>2

LEMMA DownLengths == ASSUME NEW k \in 1..36 PROVE Len(Revision[k].down) \in Nat
<1>1. CASE k \notin DownLoud
  BY <1>1, QuietDownwards DEF AllQuiet
<1>2. CASE k \in DownLoud
  <2>1. k \in {1, 3, 7, 9, 24} \/ k = 10 \/ k = 13 \/ k = 32
    BY <1>2 DEF DownLoud
  <2> QED
    BY <2>1, LoudDownwards
<1> QED
  BY <1>1, <1>2

LEMMA StatementKeepsRows == ASSUME MigrationInv, KeptInv, Statement PROVE KeptInv'
<1>1. /\ txn # None /\ Pending /\ TxnInv /\ OpenInv /\ UNCHANGED db
  BY DEF Statement, Pending, MigrationInv, KeptInv
<1>2. CASE txn' = None
  BY <1>1, <1>2 DEF KeptInv, RowsShape, RowsAt, NoLayers, NoBusiness
<1>3. ASSUME txn' # None PROVE OpenInv'
  <2> DEFINE s == Steps[txn.done + 1]
  <2>1. txn' = [txn EXCEPT !.schema = Apply(s, @), !.rows = ApplyRows(s, @), !.done = @ + 1]
    BY <1>3 DEF Statement
  <2>2. /\ txn'.rows = ApplyRows(s, txn.rows) /\ txn'.version = txn.version
        /\ txn'.target = txn.target /\ txn'.down = txn.down
        /\ txn'.stamped = txn.stamped /\ txn'.done = txn.done + 1
    BY <1>1, <2>1 DEF TxnInv, TxnShape
  <2>3. ~IsLegacy /\ txn.version # txn.target
    BY DEF Statement, Pending
  <2>4. ~IsLegacy'
    BY <1>1, <2>2, <2>3 DEF IsLegacy
  <2>5. /\ txn.version \in 0..36 /\ txn.done \in Nat /\ txn.target \in 0..36
        /\ RowsShape(txn.rows) /\ db.version \in 0..36 /\ txn.down \in BOOLEAN
    BY <1>1 DEF OpenInv, KeptInv
  <2>6. txn.done + 1 \in Nat
    BY <2>5
  <2>7. txn.done < Len(Steps)
    BY DEF Statement
  <2>8. CASE ~txn.down
    <3>1. /\ txn.version \in 0..35 /\ txn.version + 1 \in 1..36 /\ txn.version < txn.target
          /\ db.version <= txn.version
          /\ UpRows(txn.version, txn.done, txn.rows)
          /\ UpPeople(txn.version, txn.done, txn.rows, db.rows, db.version)
          /\ UpKeeps(db.version, txn.target) => UpHolidays(txn.version, txn.done, txn.rows, db.rows)
      BY <1>1, <2>3, <2>5, <2>8 DEF OpenInv
    <3>2. Steps = Revision[txn.version + 1].up
      BY <2>8 DEF Steps
    <3>3. UpKind(txn.version + 1, txn.done + 1, s)
      <4>1. PICK k \in 1..36 : k = txn.version + 1
        BY <3>1
      <4>2. PICK n : n = Len(Revision[k].up)
        OBVIOUS
      <4>3. n \in Nat
        BY <4>2, UpLengths
      <4>4. txn.done + 1 \in 1..n
        BY <2>7, <2>5, <3>2, <4>1, <4>2, <4>3
      <4> QED
        BY <3>2, <4>1, <4>2, <4>4, UpKinds
    <3>4. /\ RowsShape(txn'.rows) /\ UpRows(txn.version, txn.done + 1, txn'.rows)
          /\ UpPeople(txn.version, txn.done + 1, txn'.rows, db.rows, db.version)
          /\ txn.version < 34 => (UpHolidays(txn.version, txn.done, txn.rows, db.rows)
                                  => UpHolidays(txn.version, txn.done + 1, txn'.rows, db.rows))
      <4>1. db.version \in 0..txn.version
        BY <2>5, <3>1
      <4> QED
        BY <2>2, <2>5, <3>1, <3>3, <4>1, UpStatementKeeps
    <3>5. UpKeeps(db.version, txn.target) => UpHolidays(txn.version, txn.done + 1, txn'.rows, db.rows)
      BY <2>5, <3>1, <3>4 DEF UpKeeps
    <3>6. /\ RowsShape(txn.rows)'
          /\ UpRows(txn.version, txn.done, txn.rows)'
          /\ UpPeople(txn.version, txn.done, txn.rows, db.rows, db.version)'
          /\ UpKeeps(db.version, txn.target)' => UpHolidays(txn.version, txn.done, txn.rows, db.rows)'
      BY <1>1, <2>2, <3>4, <3>5
    <3> QED
      BY <1>1, <2>2, <2>4, <2>5, <2>6, <2>8, <3>1, <3>6 DEF OpenInv
  <2>9. CASE txn.down
    <3>1. /\ txn.version \in 1..36 /\ txn.target < txn.version
          /\ txn.version <= db.version
          /\ DownRows(txn.version, txn.done, txn.rows)
          /\ DownPeople(txn.version, txn.done, txn.rows, db.rows)
          /\ DownKeeps(db.version, txn.target) =>
                DownHolidays(txn.version, txn.done, txn.rows, db.rows, db.version)
      BY <1>1, <2>3, <2>5, <2>9 DEF OpenInv
    <3>2. Steps = Revision[txn.version].down
      BY <2>9 DEF Steps
    <3>3. DownKind(txn.version, txn.done + 1, s)
      <4>1. PICK n : n = Len(Revision[txn.version].down)
        OBVIOUS
      <4>2. n \in Nat
        BY <3>1, <4>1, DownLengths
      <4>3. txn.done + 1 \in 1..n
        BY <2>7, <2>5, <3>2, <4>1, <4>2
      <4> QED
        BY <3>1, <3>2, <4>1, <4>3, DownKinds
    <3>4. /\ RowsShape(txn'.rows) /\ DownRows(txn.version, txn.done + 1, txn'.rows)
          /\ (/\ txn.version # 3
              /\ txn.version = 10 => db.version >= 13
              /\ DownHolidays(txn.version, txn.done, txn.rows, db.rows, db.version))
             => DownHolidays(txn.version, txn.done + 1, txn'.rows, db.rows, db.version)
      BY <2>2, <2>5, <3>1, <3>3, DownStatementKeeps
    <3>5. DownPeople(txn.version, txn.done + 1, txn'.rows, db.rows)
      BY <2>2, <2>5, <3>1, <3>3, DownKeepsPeople
    <3>6. DownKeeps(db.version, txn.target) => txn.version # 3 /\ (txn.version = 10 => db.version >= 13)
      BY <2>5, <3>1 DEF DownKeeps
    <3>7. /\ RowsShape(txn.rows)'
          /\ DownRows(txn.version, txn.done, txn.rows)'
          /\ DownPeople(txn.version, txn.done, txn.rows, db.rows)'
          /\ DownKeeps(db.version, txn.target)' =>
                DownHolidays(txn.version, txn.done, txn.rows, db.rows, db.version)'
      BY <1>1, <2>2, <3>1, <3>4, <3>5, <3>6
    <3> QED
      BY <1>1, <2>2, <2>4, <2>5, <2>6, <2>9, <3>1, <3>7 DEF OpenInv
  <2> QED
    BY <2>5, <2>8, <2>9
<1> QED
  BY <1>1, <1>2, <1>3 DEF KeptInv, RowsShape, RowsAt, NoLayers, NoBusiness

\* A recorded revision: all its statements are executed.
LEMMA UpRecorded ==
    ASSUME NEW v \in 0..35, NEW d \in Nat, NEW r, UpRows(v, d, r),
           NEW old, NEW from, UpPeople(v, d, r, old, from),
           (v = 12 \/ v = 23) => d = 3, v = 31 => d = 2
    PROVE  UpRows(v + 1, 0, r) /\ UpPeople(v + 1, 0, r, old, from)
BY DEF UpRows, UpPeople

LEMMA DownRecorded ==
    ASSUME NEW v \in 1..36, NEW d \in Nat, NEW r, DownRows(v, d, r), (v = 10 \/ v = 13) => d = 3
    PROVE  /\ DownRows(v - 1, 0, r)
           /\ \A old : DownPeople(v, d, r, old) => DownPeople(v - 1, 0, r, old)
           /\ \A old, from : DownHolidays(v, d, r, old, from) => DownHolidays(v - 1, 0, r, old, from)
<1>1. DownRows(v - 1, 0, r)
  BY DEF DownRows
<1>2. v - 1 < 13 => v < 13 \/ (v = 13 /\ d >= 3)
  OBVIOUS
<1>3. \A old : DownPeople(v, d, r, old) => DownPeople(v - 1, 0, r, old)
  BY DEF DownPeople
<1> QED
  BY <1>1, <1>2, <1>3 DEF DownHolidays

LEMMA RecordKeepsRows == ASSUME MigrationInv, KeptInv, RecordRevision PROVE KeptInv'
<1>1. /\ txn # None /\ TxnInv /\ OpenInv /\ UNCHANGED db
      /\ ~IsLegacy /\ txn.version # txn.target
      /\ txn' = [txn EXCEPT !.version = IF txn.down THEN @ - 1 ELSE @ + 1, !.stamped = TRUE, !.done = 0]
  BY DEF RecordRevision, Pending, MigrationInv, KeptInv
<1>2. /\ txn'.rows = txn.rows /\ txn'.target = txn.target /\ txn'.down = txn.down
      /\ txn'.stamped /\ txn'.done = 0
      /\ txn'.version = IF txn.down THEN txn.version - 1 ELSE txn.version + 1
  BY <1>1 DEF TxnInv, TxnShape
<1>3. ~IsLegacy'
  BY <1>2 DEF IsLegacy
<1>4. /\ txn.version \in 0..36 /\ txn.target \in 0..36 /\ txn.done \in Nat
      /\ RowsShape(txn.rows) /\ db.version \in 0..36 /\ txn.down \in BOOLEAN
  BY <1>1 DEF OpenInv, KeptInv
<1>5. CASE ~txn.down
  <2>1. /\ txn.version \in 0..35 /\ txn.version + 1 \in 0..36 /\ txn.version + 1 <= txn.target
        /\ db.version <= txn.version + 1
        /\ UpRows(txn.version, txn.done, txn.rows)
        /\ UpPeople(txn.version, txn.done, txn.rows, db.rows, db.version)
        /\ UpKeeps(db.version, txn.target) => UpHolidays(txn.version, txn.done, txn.rows, db.rows)
    BY <1>1, <1>4, <1>5 DEF OpenInv
  <2>2. /\ txn.version = 12 \/ txn.version = 23 => txn.done = 3
        /\ txn.version = 31 => txn.done = 2
    <3>1. txn.done = Len(Revision[txn.version + 1].up)
      BY <1>5 DEF RecordRevision, Steps
    <3> QED
      BY <3>1, LoudUpwards
  <2>3. /\ UpRows(txn.version + 1, 0, txn.rows)
        /\ UpPeople(txn.version + 1, 0, txn.rows, db.rows, db.version)
    BY <1>4, <2>1, <2>2, UpRecorded
  <2>4. UpKeeps(db.version, txn.target) => UpHolidays(txn.version + 1, 0, txn.rows, db.rows)
    BY <2>1 DEF UpHolidays
  <2>5. /\ RowsShape(txn.rows)'
        /\ UpRows(txn.version, txn.done, txn.rows)'
        /\ UpPeople(txn.version, txn.done, txn.rows, db.rows, db.version)'
        /\ UpKeeps(db.version, txn.target)' => UpHolidays(txn.version, txn.done, txn.rows, db.rows)'
    BY <1>1, <1>2, <1>4, <1>5, <2>3, <2>4
  <2>6. OpenInv'
    BY <1>1, <1>2, <1>3, <1>4, <1>5, <2>1, <2>5 DEF OpenInv
  <2> QED
    BY <1>1, <2>6 DEF KeptInv, RowsShape, RowsAt, NoLayers, NoBusiness
<1>6. CASE txn.down
  <2>1. /\ txn.version \in 1..36 /\ txn.version - 1 \in 0..36 /\ txn.target <= txn.version - 1
        /\ txn.version - 1 <= db.version
        /\ DownRows(txn.version, txn.done, txn.rows)
        /\ DownPeople(txn.version, txn.done, txn.rows, db.rows)
        /\ DownKeeps(db.version, txn.target) =>
              DownHolidays(txn.version, txn.done, txn.rows, db.rows, db.version)
    BY <1>1, <1>4, <1>6 DEF OpenInv
  <2>2. txn.version = 10 \/ txn.version = 13 => txn.done = 3
    <3>1. txn.done = Len(Revision[txn.version].down)
      BY <1>6 DEF RecordRevision, Steps
    <3> QED
      BY <3>1, LoudDownwards
  <2>3. /\ DownRows(txn.version - 1, 0, txn.rows)
        /\ DownPeople(txn.version - 1, 0, txn.rows, db.rows)
        /\ DownKeeps(db.version, txn.target) =>
              DownHolidays(txn.version - 1, 0, txn.rows, db.rows, db.version)
    BY <1>4, <2>1, <2>2, DownRecorded
  <2>4. /\ RowsShape(txn.rows)'
        /\ DownRows(txn.version, txn.done, txn.rows)'
        /\ DownPeople(txn.version, txn.done, txn.rows, db.rows)'
        /\ DownKeeps(db.version, txn.target)' =>
              DownHolidays(txn.version, txn.done, txn.rows, db.rows, db.version)'
    BY <1>1, <1>2, <1>4, <1>6, <2>3
  <2>5. txn'.version = txn.version - 1 /\ txn'.down
    BY <1>2, <1>6
  <2>6. /\ txn'.version \in 0..36 /\ txn'.target \in 0..36 /\ txn'.done \in Nat
        /\ txn'.target <= txn'.version /\ txn'.version <= db'.version
        /\ txn'.done = 0
    BY <1>1, <1>2, <1>4, <2>1, <2>5
  <2>7. txn'.down \in BOOLEAN
    BY <1>2, <1>4
  <2>8. OpenInv'
    BY <1>3, <2>4, <2>5, <2>6, <2>7 DEF OpenInv
  <2> QED
    BY <1>1, <2>8 DEF KeptInv, RowsShape, RowsAt, NoLayers, NoBusiness
<1> QED
  BY <1>4, <1>5, <1>6

LEMMA RowsAtStart ==
    ASSUME NEW v \in 0..36, NEW r, RowsShape(r), RowsAt(r, v)
    PROVE  /\ UpRows(v, 0, r) /\ DownRows(v, 0, r)
           /\ UpPeople(v, 0, r, r, v) /\ DownPeople(v, 0, r, r)
           /\ UpHolidays(v, 0, r, r) /\ DownHolidays(v, 0, r, r, v)
<1>1. UpRows(v, 0, r) /\ DownRows(v, 0, r)
  BY DEF RowsAt, UpRows, DownRows
<1>2. UpHolidays(v, 0, r, r)
  BY DEF UpHolidays
<1>3. DownHolidays(v, 0, r, r, v)
  BY DEF DownHolidays
<1>4. UpPeople(v, 0, r, r, v) /\ DownPeople(v, 0, r, r)
  BY DEF UpPeople, DownPeople
<1> QED
  BY <1>1, <1>2, <1>3, <1>4

LEMMA RowsAtEnd ==
    ASSUME NEW v \in 0..36, NEW r, UpRows(v, 0, r) \/ DownRows(v, 0, r)
    PROVE  RowsAt(r, v)
BY DEF RowsAt, UpRows, DownRows

LEMMA OpeningKeepsRows ==
    ASSUME MigrationInv, KeptInv, Start \/ \E target \in Release \cup {0} : Downgrade(target)
    PROVE  KeptInv'
<1>1. UNCHANGED db
  BY DEF Start, Downgrade
<1>2. PICK down \in BOOLEAN, target \in Release \cup {0} :
         /\ txn' = Transaction(down, target)
         /\ ~down => target \in Release /\ db.version <= target
         /\ down => db.stamped /\ target < db.version
  BY DEF Start, Downgrade, MigrationInv
<1>3. /\ txn'.rows = db.rows /\ txn'.version = db.version /\ txn'.stamped = db.stamped
      /\ txn'.down = down /\ txn'.target = target /\ txn'.done = 0
  BY <1>2 DEF Transaction
<1>4. target \in 0..36 /\ db.version \in 0..36 /\ RowsShape(db.rows) /\ RowsAt(db.rows, db.version)
  BY TargetsCount DEF KeptInv
<1>5. IsLegacy' => db.version = 0 /\ ~down
  BY <1>1, <1>2, <1>3 DEF IsLegacy, MigrationInv
<1>6. /\ RowsShape(txn.rows)'
      /\ UpRows(txn.version, txn.done, txn.rows)'
      /\ UpPeople(txn.version, txn.done, txn.rows, db.rows, db.version)'
      /\ DownPeople(txn.version, txn.done, txn.rows, db.rows)'
      /\ UpHolidays(txn.version, txn.done, txn.rows, db.rows)'
      /\ DownRows(txn.version, txn.done, txn.rows)'
      /\ DownHolidays(txn.version, txn.done, txn.rows, db.rows, db.version)'
  BY <1>1, <1>3, <1>4, RowsAtStart
<1>7. OpenInv'
  BY <1>1, <1>2, <1>3, <1>4, <1>5, <1>6 DEF OpenInv
<1> QED
  BY <1>1, <1>7 DEF KeptInv, RowsShape, RowsAt, NoLayers, NoBusiness

LEMMA EmptyRows == RowsShape(NoRows) /\ RowsAt(NoRows, 0)
BY DEF NoRows, RowsShape, HolidayColumn, RowsAt, NoLayers

LEMMA ResetKeepsRows == ASSUME MigrationInv, KeptInv, StartReset PROVE KeptInv'
<1>1. /\ db'.rows = NoRows /\ db'.version = 0 /\ DOMAIN db'.schema = {}
      /\ txn'.rows = NoRows /\ txn'.version = 0 /\ txn'.done = 0
      /\ txn'.down = FALSE /\ txn'.target = release
  BY DEF StartReset, EmptyDb
<1>2. release \in 1..36
  BY TargetsCount DEF MigrationInv
<1>3. ~IsLegacy'
  BY <1>1 DEF IsLegacy
<1>4. UpRows(0, 0, NoRows) /\ UpPeople(0, 0, NoRows, NoRows, 0)
  BY EmptyRows, RowsAtStart
<1>5. /\ UpRows(txn.version, txn.done, txn.rows)' /\ RowsShape(txn.rows)'
      /\ UpPeople(txn.version, txn.done, txn.rows, db.rows, db.version)'
  BY <1>1, <1>4, EmptyRows
<1>6. ~UpKeeps(db.version, txn.target)'
  BY <1>1 DEF UpKeeps
<1>7. OpenInv'
  <2>1. ~txn'.down /\ txn'.down \in BOOLEAN
    BY <1>1
  <2>2. /\ txn'.version \in 0..36 /\ txn'.target \in 0..36 /\ txn'.done \in Nat
        /\ txn'.version <= txn'.target /\ db'.version <= txn'.version /\ txn'.done = 0
    BY <1>1, <1>2
  <2> QED
    BY <1>3, <1>5, <1>6, <2>1, <2>2 DEF OpenInv
<1>8. RowsShape(db.rows)' /\ RowsAt(db.rows, db.version)'
  BY <1>1, EmptyRows
<1> QED
  BY <1>1, <1>7, <1>8 DEF KeptInv

LEMMA AdoptKeepsRows == ASSUME MigrationInv, KeptInv, AdoptLegacy PROVE KeptInv'
<1>1. /\ txn # None /\ TxnInv /\ OpenInv /\ UNCHANGED db /\ IsLegacy
  BY DEF AdoptLegacy, MigrationInv, KeptInv
<1>2. ASSUME txn' # None PROVE OpenInv'
  <2>1. txn' = [txn EXCEPT !.schema = Completed(@), !.version = 1, !.stamped = TRUE]
    BY <1>2 DEF AdoptLegacy
  <2>2. /\ txn'.rows = txn.rows /\ txn'.version = 1 /\ txn'.stamped /\ txn'.down = txn.down
        /\ txn'.target = txn.target /\ txn'.done = txn.done
    BY <1>1, <2>1 DEF TxnInv, TxnShape
  <2>3. /\ txn.version = 0 /\ txn.done = 0 /\ ~txn.down /\ db.version <= txn.version
        /\ UpRows(txn.version, txn.done, txn.rows) /\ RowsShape(txn.rows)
        /\ UpPeople(txn.version, txn.done, txn.rows, db.rows, db.version)
        /\ db.version \in 0..36
    BY <1>1 DEF OpenInv, KeptInv
  <2>4. txn.target \in 1..36
    BY <1>1, <2>3, TargetsCount DEF TxnInv, MigrationInv
  <2>5. ~IsLegacy'
    BY <2>2 DEF IsLegacy
  <2>6. UpRows(1, 0, txn.rows) /\ UpPeople(1, 0, txn.rows, db.rows, db.version)
    BY <2>3 DEF UpRows, UpPeople
  <2>7. /\ UpRows(txn.version, txn.done, txn.rows)' /\ RowsShape(txn.rows)'
        /\ UpPeople(txn.version, txn.done, txn.rows, db.rows, db.version)'
        /\ ~UpKeeps(db.version, txn.target)'
    BY <1>1, <2>2, <2>3, <2>6 DEF UpKeeps
  <2>8. txn.done \in Nat
    BY <2>3
  <2> QED
    BY <1>1, <2>2, <2>3, <2>4, <2>5, <2>7, <2>8 DEF OpenInv
<1> QED
  BY <1>1, <1>2 DEF KeptInv, RowsShape, RowsAt, NoLayers, NoBusiness

LEMMA CommitKeepsRows == ASSUME MigrationInv, KeptInv, Commit PROVE KeptInv'
<1>1. /\ OpenInv /\ txn.version = txn.target /\ txn' = None /\ db' = Written
  BY DEF Commit, KeptInv
<1>2. db'.rows = txn.rows /\ db'.version = txn.version
  BY <1>1 DEF Written
<1>3. /\ txn.version \in 0..36 /\ RowsShape(txn.rows)
      /\ UpRows(txn.version, 0, txn.rows) \/ DownRows(txn.version, 0, txn.rows)
  BY <1>1 DEF OpenInv
<1>4. RowsShape(db.rows)' /\ RowsAt(db.rows, db.version)'
  BY <1>2, <1>3, RowsAtEnd
<1> QED
  BY <1>1, <1>2, <1>3, <1>4 DEF KeptInv

\* Crashes, deployments and checks touch no committed row.
LEMMA OthersKeepRows ==
    ASSUME MigrationInv, KeptInv,
           \/ Crash \/ Serve \/ ServeByHand
           \/ \E r \in Release, how \in {"app", "migrate", "reset"} : Deploy(r, how)
    PROVE  KeptInv'
<1>1. UNCHANGED db /\ txn' = None
  BY DEF Crash, Serve, ServeByHand, Deploy, MigrationInv, TxnInv
<1> QED
  BY <1>1 DEF KeptInv, RowsShape, RowsAt, NoLayers, NoBusiness

LEMMA SeedKeepsRows == ASSUME MigrationInv, KeptInv, SeedDefaultUser PROVE KeptInv'
<1>1. txn = None /\ txn' = None
  BY DEF SeedDefaultUser, MigrationInv, TxnInv
<1>2. CASE UNCHANGED db
  BY <1>1, <1>2 DEF KeptInv, RowsShape, RowsAt, NoLayers, NoBusiness
<1>3. CASE db' = [db EXCEPT !.rows.users = @ \cup {DefaultUser},
                            !.rows.creators = IF release >= 32 /\ DefaultUser \notin db.rows.users
                                              THEN @ \cup {DefaultUser} ELSE @]
  <2>1. /\ DOMAIN db'.rows = DOMAIN db.rows /\ db'.version = db.version
        /\ SameHolidays(db.rows, db'.rows) /\ db'.rows.roots = db.rows.roots
    BY <1>3 DEF MigrationInv, DbShape, KeptInv, RowsShape, SameHolidays
  <2> QED
    BY <1>1, <2>1 DEF KeptInv, RowsShape, RowsAt, NoLayers, NoBusiness, SameHolidays
<1> QED
  BY <1>2, <1>3 DEF SeedDefaultUser

LEMMA EntriesKeepRows == ASSUME MigrationInv, KeptInv, Entry PROVE KeptInv'
<1>1. txn = None /\ txn' = None
  BY DEF Entry, NewUser, CreateRoot, EnterHoliday, AddManager, RemoveManager, AllowCreator, Enter,
         MigrationInv, TxnInv
<1>2. /\ db.version \in 0..36 /\ RowsShape(db.rows) /\ RowsAt(db.rows, db.version)
      /\ DOMAIN db = {"schema", "version", "stamped", "rows"}
  BY DEF KeptInv, MigrationInv, DbShape
<1>3. ASSUME DOMAIN db'.rows = DOMAIN db.rows, db'.version = db.version,
             db'.rows.roots \subseteq User, SameHolidays(db.rows, db'.rows)
      PROVE  KeptInv'
  BY <1>1, <1>2, <1>3 DEF KeptInv, RowsShape, RowsAt, NoLayers, NoBusiness, SameHolidays
<1>4. ASSUME NEW u \in User, NewUser(u) PROVE KeptInv'
  BY <1>2, <1>3, <1>4 DEF NewUser, RowsShape, SameHolidays
<1>5. ASSUME NEW u \in User, CreateRoot(u) PROVE KeptInv'
  <2>1. PICK m : db' = [db EXCEPT !.rows.roots = @ \cup {u}, !.rows.managers = m]
    BY <1>2, <1>5 DEF CreateRoot, RowsShape
  <2>2. /\ DOMAIN db'.rows = DOMAIN db.rows /\ db'.version = db.version
        /\ SameHolidays(db.rows, db'.rows) /\ db'.rows.roots = db.rows.roots \cup {u}
    BY <1>2, <2>1 DEF RowsShape, SameHolidays
  <2> QED
    BY <1>2, <1>3, <2>2 DEF RowsShape
<1>6. ASSUME NEW u \in User, NEW v \in User, AddManager(u, v) \/ RemoveManager(u, v) PROVE KeptInv'
  BY <1>2, <1>3, <1>6 DEF AddManager, RemoveManager, RowsShape, SameHolidays
<1>7. ASSUME NEW u \in User, NEW allowed \in BOOLEAN, AllowCreator(u, allowed) PROVE KeptInv'
  BY <1>2, <1>3, <1>7 DEF AllowCreator, RowsShape, SameHolidays
<1>8. ASSUME NEW u \in User, NEW d \in Day, EnterHoliday(u, d) PROVE KeptInv'
  <2>1. \A c \in HolidayColumn : DaysIn(c[u]) \cup {d} \in SUBSET Day
    BY DEF HolidayColumn, DaysIn
  <2>2. CASE db.version \in 3..12 /\ db' = [db EXCEPT !.rows.business[u] = DaysIn(@) \cup {d}]
    <3>1. /\ DOMAIN db'.rows = DOMAIN db.rows /\ db'.version = db.version
          /\ db'.rows.layer = db.rows.layer /\ db'.rows.roots = db.rows.roots
          /\ db'.rows.business = [db.rows.business EXCEPT ![u] = DaysIn(@) \cup {d}]
      BY <1>2, <2>2 DEF RowsShape
    <3>2. db'.rows.business \in HolidayColumn
      BY <1>2, <2>1, <3>1 DEF RowsShape, HolidayColumn
    <3>3. RowsShape(db.rows)'
      BY <1>2, <3>1, <3>2 DEF RowsShape
    <3>4. RowsAt(db'.rows, db'.version)
      <4>1. db'.version < 10 => NoLayers(db'.rows)
        BY <1>2, <3>1 DEF RowsAt, NoLayers
      <4>2. ~(db'.version >= 13)
        BY <2>2, <3>1
      <4> QED
        BY <4>1, <4>2 DEF RowsAt
    <3>5. RowsAt(db.rows, db.version)'
      BY <3>4
    <3> QED
      BY <1>1, <1>2, <3>1, <3>3, <3>5 DEF KeptInv
  <2>3. CASE db.version \in 10..34 /\ db' = [db EXCEPT !.rows.layer[u] = DaysIn(@) \cup {d}]
    <3>1. /\ DOMAIN db'.rows = DOMAIN db.rows /\ db'.version = db.version
          /\ db'.rows.business = db.rows.business /\ db'.rows.roots = db.rows.roots
          /\ db'.rows.layer = [db.rows.layer EXCEPT ![u] = DaysIn(@) \cup {d}]
      BY <1>2, <2>3 DEF RowsShape
    <3>2. db'.rows.layer \in HolidayColumn
      BY <1>2, <2>1, <3>1 DEF RowsShape, HolidayColumn
    <3>3. RowsShape(db.rows)'
      BY <1>2, <3>1, <3>2 DEF RowsShape
    <3>4. RowsAt(db'.rows, db'.version)
      <4>1. db'.version >= 13 => NoBusiness(db'.rows)
        BY <1>2, <3>1 DEF RowsAt, NoBusiness
      <4>2. ~(db'.version < 10)
        BY <2>3, <3>1
      <4> QED
        BY <4>1, <4>2 DEF RowsAt
    <3>5. RowsAt(db.rows, db.version)'
      BY <3>4
    <3> QED
      BY <1>1, <1>2, <3>1, <3>3, <3>5 DEF KeptInv
  <2> QED
    BY <1>8, <2>2, <2>3 DEF EnterHoliday
<1> QED
  BY <1>4, <1>5, <1>6, <1>7, <1>8 DEF Entry

LEMMA FirstRows == MigrationInit => KeptInv
<1> SUFFICES ASSUME MigrationInit PROVE KeptInv
  OBVIOUS
<1>1. /\ txn = None /\ db.version = 0
      /\ db.rows = NoRows \/ db.rows = [NoRows EXCEPT !.users = User]
  <2>1. CASE db = EmptyDb
    BY <2>1 DEF MigrationInit, EmptyDb
  <2>2. ASSUME NEW s, db = [EmptyDb EXCEPT !.schema = s, !.rows.users = User]
        PROVE  db.version = 0 /\ db.rows = [NoRows EXCEPT !.users = User]
    BY <2>2 DEF EmptyDb
  <2> QED
    BY <2>1, <2>2 DEF MigrationInit
<1>2. RowsShape(db.rows) /\ RowsAt(db.rows, 0)
  BY <1>1, EmptyRows DEF NoRows, RowsShape, RowsAt, NoLayers
<1> QED
  BY <1>1, <1>2 DEF KeptInv

LEMMA NextKeepsRows == MigrationInv /\ KeptInv /\ [MigrationNext]_migrationVars => KeptInv'
<1> SUFFICES ASSUME MigrationInv, KeptInv, [MigrationNext]_migrationVars PROVE KeptInv'
  OBVIOUS
<1>1. CASE UNCHANGED migrationVars
  <2>1. UNCHANGED <<db, txn>>
    BY <1>1 DEF migrationVars
  <2>2. OpenInv' <=> OpenInv
    BY <2>1 DEF OpenInv, IsLegacy
  <2> QED
    BY <2>1, <2>2 DEF KeptInv, RowsShape, RowsAt, NoLayers, NoBusiness
<1> QED
  BY <1>1, OpeningKeepsRows, ResetKeepsRows, AdoptKeepsRows, StatementKeepsRows, RecordKeepsRows,
     CommitKeepsRows, SeedKeepsRows, OthersKeepRows, EntriesKeepRows
     DEF MigrationNext, MigrationStep, Operator, Entry

------------------------------------------------------------------------------
(* What follows.                                                            *)

\* An open transaction that ends with the database changed is committed.
LEMMA OnlyCommitsWrite ==
    ASSUME MigrationInv, KeptInv, [MigrationNext]_migrationVars, txn # None, txn' = None, db' # db
    PROVE  OpenInv /\ txn.version = txn.target /\ db'.rows = txn.rows /\ db'.version = txn.version
<1>1. phase = "migrating"
  BY DEF MigrationInv, TxnInv
<1>2. Commit
  <2>1. ~Start /\ ~StartReset /\ ~SeedDefaultUser /\ ~Serve /\ ~ServeByHand
    BY <1>1 DEF Start, StartReset, SeedDefaultUser, Serve, ServeByHand
  <2>2. ~AdoptLegacy /\ ~Statement /\ ~RecordRevision /\ ~Crash
    BY DEF AdoptLegacy, Statement, RecordRevision, Crash
  <2>3. \A r \in Release, how \in {"app", "migrate", "reset"} : ~Deploy(r, how)
    BY DEF Deploy
  <2>4. \A target \in Release \cup {0} : ~Downgrade(target)
    BY <1>1 DEF Downgrade
  <2>5. ~Entry
    BY <1>1 DEF Entry, NewUser, CreateRoot, EnterHoliday, AddManager, RemoveManager, AllowCreator, Enter
  <2>6. ~UNCHANGED migrationVars
    BY DEF migrationVars
  <2> QED
    BY <2>1, <2>2, <2>3, <2>4, <2>5, <2>6 DEF MigrationNext, MigrationStep, Operator, Entry
<1> QED
  BY <1>2 DEF Commit, Written, KeptInv

LEMMA HolidaysSurviveTheStep ==
    MigrationInv /\ KeptInv /\ [MigrationNext]_migrationVars =>
        (( /\ txn # None /\ txn' = None /\ db' # db
           /\ db.version \in 3..34 /\ db'.version \in 3..34
           /\ ~(db.version \in 10..12 /\ db'.version < 10) )
         => \A u \in User : HolidaysOf(db.rows, u) \subseteq HolidaysOf(db'.rows, u))
<1> SUFFICES ASSUME MigrationInv, KeptInv, [MigrationNext]_migrationVars,
                    txn # None, txn' = None, db' # db,
                    db.version \in 3..34, db'.version \in 3..34,
                    ~(db.version \in 10..12 /\ db'.version < 10)
             PROVE  \A u \in User : HolidaysOf(db.rows, u) \subseteq HolidaysOf(db'.rows, u)
  OBVIOUS
<1>1. /\ OpenInv /\ txn.version = txn.target /\ db'.rows = txn.rows /\ db'.version = txn.version
  BY OnlyCommitsWrite
<1>2. CASE ~txn.down
  <2>1. UpKeeps(db.version, txn.target)
    BY <1>1 DEF UpKeeps
  <2> QED
    BY <1>1, <1>2, <2>1 DEF OpenInv, UpHolidays
<1>3. CASE txn.down
  <2>1. DownKeeps(db.version, txn.target)
    BY <1>1 DEF DownKeeps
  <2> QED
    BY <1>1, <1>3, <2>1 DEF OpenInv, DownHolidays
<1> QED
  BY <1>2, <1>3

LEMMA PeopleSurviveTheStep ==
    MigrationInv /\ KeptInv /\ [MigrationNext]_migrationVars =>
        ((txn # None /\ txn' = None /\ db' # db) => PeopleKept(db, db'))
<1> SUFFICES ASSUME MigrationInv, KeptInv, [MigrationNext]_migrationVars,
                    txn # None, txn' = None, db' # db
             PROVE  PeopleKept(db, db')
  OBVIOUS
<1>1. /\ OpenInv /\ txn.version = txn.target /\ db'.rows = txn.rows /\ db'.version = txn.version
      /\ txn.done = 0 /\ txn.version \in 0..36 /\ db.version \in 0..36
      /\ txn.rows.roots \subseteq User
  BY OnlyCommitsWrite DEF OpenInv, KeptInv, RowsShape
<1>2. CASE ~txn.down
  <2>1. UpPeople(txn.version, 0, txn.rows, db.rows, db.version)
    BY <1>1, <1>2 DEF OpenInv
  <2>2. txn.rows.roots = db.rows.roots
    BY <2>1 DEF UpPeople
  <2>3. ASSUME txn.version >= 24, NEW u \in txn.rows.roots
        PROVE  txn.rows.managers[u] = IF db.version >= 24 THEN db.rows.managers[u] ELSE {u}
    <3>1. CASE db.version >= 24
      BY <2>1, <3>1 DEF UpPeople
    <3>2. CASE db.version < 24
      BY <1>1, <2>1, <2>3, <3>2 DEF UpPeople
    <3> QED
      BY <1>1, <3>1, <3>2
  <2>4. ASSUME txn.version >= 32
        PROVE  txn.rows.creators = IF db.version >= 32 THEN db.rows.creators
                                   ELSE ManagersOfRoots(txn.rows) \cup (txn.rows.users \cap {DefaultUser})
    <3>1. CASE db.version >= 32
      BY <2>1, <3>1 DEF UpPeople
    <3>2. CASE db.version < 32
      BY <1>1, <2>1, <2>4, <3>2 DEF UpPeople
    <3> QED
      BY <1>1, <3>1, <3>2
  <2>5. ManagersOfRoots(db'.rows) = ManagersOfRoots(txn.rows)
    BY <1>1
  <2> QED
    BY <1>1, <2>2, <2>3, <2>4, <2>5 DEF PeopleKept
<1>3. CASE txn.down
  <2>1. DownPeople(txn.version, 0, txn.rows, db.rows) /\ txn.version <= db.version
    BY <1>1, <1>3 DEF OpenInv
  <2> QED
    BY <1>1, <2>1 DEF DownPeople, PeopleKept
<1> QED
  BY <1>2, <1>3

\* However a migration goes, by jumps over several releases, on the way down and
\* up again, over crashes: its commit leaves every root project the managers it
\* had and everybody the right to create roots that they had; where the database
\* had neither yet, the makers manage their roots, and the managers and the
\* default user may create.
THEOREM RootsNeverLoseTheirPeople == MigrationSpec => RootsKeepTheirPeople
<1>1. MigrationInv /\ KeptInv /\ [MigrationNext]_migrationVars =>
        [(txn # None /\ txn' = None /\ db' # db) => PeopleKept(db, db')]_migrationVars
  BY PeopleSurviveTheStep
<1> QED
  BY <1>1, FirstIsGood, FirstRows, NextIsGood, NextKeepsRows, PTL
     DEF MigrationSpec, Good, RootsKeepTheirPeople

\* No upgrade and no downgrade between 0003 and 0034 loses a holiday that
\* somebody entered, in whichever of the two places, whatever the number of
\* revisions crossed at once, except the documented way down.
THEOREM NoHolidayIsLost == MigrationSpec => HolidaysKept
<1>1. MigrationInv /\ KeptInv /\ [MigrationNext]_migrationVars =>
        [ ( /\ txn # None /\ txn' = None /\ db' # db
            /\ db.version \in 3..34 /\ db'.version \in 3..34
            /\ ~(db.version \in 10..12 /\ db'.version < 10) )
          => \A u \in User : HolidaysOf(db.rows, u) \subseteq HolidaysOf(db'.rows, u) ]_migrationVars
  BY HolidaysSurviveTheStep
<1> QED
  BY <1>1, FirstIsGood, FirstRows, NextIsGood, NextKeepsRows, PTL DEF MigrationSpec, Good, HolidaysKept
==============================================================================
