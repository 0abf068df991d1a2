----------------------------- MODULE Migrations -----------------------------
(***************************************************************************)
(* The startup of the database: init_models (src/app/db/engine.py) and the *)
(* versioned migrations of src/app/db/migrate.py, with crashes at every    *)
(* statement, later deployments and rollbacks to a snapshot.               *)
(*                                                                         *)
(* The driver opens a transaction at the first INSERT, UPDATE or DELETE    *)
(* and not before: until then every CREATE TABLE and ALTER TABLE commits   *)
(* by itself; from then on all of it, the version included, waits for the  *)
(* commit.  A migration adds its columns and then changes data, if it is   *)
(* one of those that do.                                                   *)
(***************************************************************************)
EXTENDS Integers, Sequences, SequencesExt

CONSTANTS
    Latest,       \* the last version any code deployed has
    Creation,     \* the tables, in the order create_all makes them
    Probe,        \* the one existing_db_version looks for: battle_report
    COLUMN,       \* columns that migrations add
    TableOf,      \* the table of each column
    VersionOf,    \* the migration that adds each column
    DataVersions, \* the migrations that also change data
    MaxStops,     \* bound: crashes and stops
    MaxRollbacks  \* bound: snapshots restored

Version == 1..Latest
TABLE == ToSet(Creation)

ASSUME MigrationsAssumption ==
    /\ Latest \in Nat \ {0}
    /\ Probe \in TABLE
    /\ TableOf \in [COLUMN -> TABLE]
    /\ VersionOf \in [COLUMN -> Version]
    /\ DataVersions \subseteq Version
    /\ MaxStops \in Nat /\ MaxRollbacks \in Nat

VARIABLES
    code,    \* LATEST_VERSION of the code deployed
    disk,    \* the database as committed
    work,    \* the database as the startup connection sees it
    open,    \* its transaction is open
    snap,    \* <db>.pre-v<n>: version -> database
    pc, from, next,
    stops, rollbacks

vars == <<code, disk, work, open, snap, pc, from, next, stops, rollbacks>>

NoVersion == -1
AddedBy(V) == {c \in COLUMN : VersionOf[c] \in V}
Empty == [tables |-> {}, cols |-> {}, done |-> {}, version |-> 0, made |-> 0, born |-> 0]

\* A database of version v.  History: done are the data migrations it went
\* through, made the code that created its first table, born the version it was
\* first stamped with as a fresh one.  Version 0 is any production database from
\* before the runner, some columns of which were added by hand.
Released(v) ==
    {[tables |-> TABLE, cols |-> K, done |-> {}, version |-> v, made |-> v, born |-> v] :
        K \in IF v = 0 THEN SUBSET AddedBy({1}) ELSE {AddedBy(1..v)}}

Init ==
    /\ code \in Version
    /\ disk \in {Empty} \union UNION {Released(v) : v \in 0..code}
    /\ work = disk
    /\ open = FALSE
    /\ snap = [v \in {} |-> Empty]
    /\ pc = "down" /\ from = NoVersion /\ next = 0
    /\ stops = 0 /\ rollbacks = 0

Put(d) == work' = d /\ disk' = IF open THEN disk ELSE d

\* existing_db_version, and whether there is something to migrate.
Boot ==
    /\ pc = "down"
    /\ from' = IF Probe \in disk.tables THEN disk.version ELSE NoVersion
    /\ pc' = IF from' \in 0..(code - 1) THEN "snapshot" ELSE "create"
    /\ work' = disk
    /\ UNCHANGED <<code, disk, open, snap, next, stops, rollbacks>>

\* Mutant: one snapshot file for all versions.
SnapshotAsZero ==
    /\ pc = "snapshot"
    /\ snap' = [v \in DOMAIN snap \union {1} |-> IF v = 1 THEN disk ELSE snap[v]]
    /\ pc' = "create"
    /\ UNCHANGED <<code, disk, work, open, from, next, stops, rollbacks>>

\* Mutant: a file of that name is an error.
SnapshotOnce ==
    /\ pc = "snapshot"
    /\ from \notin DOMAIN snap
    /\ snap' = [v \in DOMAIN snap \union {from} |-> IF v = from THEN disk ELSE snap[v]]
    /\ pc' = "create"
    /\ UNCHANGED <<code, disk, work, open, from, next, stops, rollbacks>>

\* snapshot_before_migrate: over whatever file of that name there is.
Snapshot ==
    /\ pc = "snapshot"
    /\ snap' = [v \in DOMAIN snap \union {from} |-> IF v = from THEN disk ELSE snap[v]]
    /\ pc' = "create"
    /\ UNCHANGED <<code, disk, work, open, from, next, stops, rollbacks>>

\* create_all: the next missing table, with the columns the code knows.
CreateTable ==
    /\ pc = "create"
    /\ work.tables # TABLE
    /\ \E i \in DOMAIN Creation :
         /\ Creation[i] \notin work.tables
         /\ \A j \in 1..(i - 1) : Creation[j] \in work.tables
         /\ Put([work EXCEPT
                   !.tables = @ \union {Creation[i]},
                   !.cols = @ \union {c \in AddedBy(1..code) : TableOf[c] = Creation[i]},
                   !.made = IF work.tables = {} THEN code ELSE @])
    /\ UNCHANGED <<code, open, snap, pc, from, next, stops, rollbacks>>

\* Mutant: the first pending migration is skipped.
StartMigrationsLate ==
    /\ pc = "create"
    /\ work.tables = TABLE
    /\ pc' = "migrate"
    /\ next' = IF from = NoVersion THEN code + 1 ELSE from + 2
    /\ UNCHANGED <<code, disk, work, open, snap, from, stops, rollbacks>>

\* run_migrations: a fresh database has nothing to apply.
StartMigrations ==
    /\ pc = "create"
    /\ work.tables = TABLE
    /\ pc' = "migrate"
    /\ next' = IF from = NoVersion THEN code + 1 ELSE from + 1
    /\ UNCHANGED <<code, disk, work, open, snap, from, stops, rollbacks>>

\* add_column_if_missing
AddColumn(c) ==
    /\ pc = "migrate"
    /\ next <= code
    /\ VersionOf[c] = next /\ c \notin work.cols
    /\ Put([work EXCEPT !.cols = @ \union {c}])
    /\ UNCHANGED <<code, open, snap, pc, from, next, stops, rollbacks>>

\* Mutant: the changes of data are committed at once.
FinishCommitted ==
    /\ pc = "migrate"
    /\ next <= code
    /\ AddedBy({next}) \subseteq work.cols
    /\ next' = next + 1
    /\ Put([work EXCEPT !.done = @ \union ({next} \cap DataVersions)])
    /\ UNCHANGED <<code, open, snap, pc, from, stops, rollbacks>>

\* The columns are there: change the data, which opens the transaction.
FinishMigration ==
    /\ pc = "migrate"
    /\ next <= code
    /\ AddedBy({next}) \subseteq work.cols
    /\ next' = next + 1
    /\ IF next \in DataVersions
         THEN /\ open' = TRUE
              /\ work' = [work EXCEPT !.done = @ \union {next}]
         ELSE UNCHANGED <<open, work>>
    /\ UNCHANGED <<code, disk, snap, pc, from, stops, rollbacks>>

\* PRAGMA user_version
Stamp ==
    /\ pc = "migrate"
    /\ next > code
    /\ Put([work EXCEPT !.version = code,
                        !.born = IF from = NoVersion THEN code ELSE @])
    /\ pc' = "commit"
    /\ UNCHANGED <<code, open, snap, from, next, stops, rollbacks>>

Commit ==
    /\ pc = "commit"
    /\ disk' = work
    /\ open' = FALSE
    /\ pc' = "serving"
    /\ UNCHANGED <<code, work, snap, from, next, stops, rollbacks>>

\* The process ends, or a statement raises: an open transaction is undone.
Stop ==
    /\ pc # "down"
    /\ stops < MaxStops
    /\ stops' = stops + 1
    /\ pc' = "down"
    /\ work' = disk /\ open' = FALSE
    /\ UNCHANGED <<code, disk, snap, from, next, rollbacks>>

\* A deployment of later code.
Deploy(v) ==
    /\ pc = "down"
    /\ v > code
    /\ code' = v
    /\ UNCHANGED <<disk, work, open, snap, pc, from, next, stops, rollbacks>>

\* A bad migration is rolled back: the snapshot, with the code it came from.
RollBack(v) ==
    /\ pc = "down"
    /\ v \in DOMAIN snap
    /\ rollbacks < MaxRollbacks
    /\ rollbacks' = rollbacks + 1
    /\ disk' = snap[v] /\ work' = disk'
    /\ code' = v
    /\ UNCHANGED <<open, snap, pc, from, next, stops>>

StartupStep ==
    \/ Boot \/ Snapshot
    \/ CreateTable \/ StartMigrations
    \/ \E c \in COLUMN : AddColumn(c)
    \/ FinishMigration \/ Stamp \/ Commit

Next ==
    \/ StartupStep
    \/ Stop
    \/ \E v \in Version : Deploy(v) \/ RollBack(v)

Spec == Init /\ [][Next]_vars

-----------------------------------------------------------------------------
\* Database d has all that the code of version v relies on.
Serves(d, v) ==
    /\ d.version = v
    /\ d.tables = TABLE /\ AddedBy(1..v) \subseteq d.cols
    /\ \A w \in DataVersions : w <= v => w \in d.done \/ w <= d.born

\* The code that stamped a fresh database also made its first table.
MadeByOne(d) == d.born # 0 => d.made = d.born

Current == Serves(disk, code)

\* The changes of data and the version are committed together: no change of data
\* is made to a database twice, whatever startup crashed after it, nor to one
\* that was created by code that had it.
DataMigratesOnce ==
    [][pc = "migrate" /\ next' = next + 1 /\ next \in DataVersions
         => next \notin work.done /\ next > disk.born]_vars

\* A snapshot is of the version in its name, no data of later versions is in it,
\* and the code of that version can serve it, unless it is of a database that two
\* versions of the code created.
SnapshotsCanBeRestored ==
    \A v \in DOMAIN snap :
        /\ snap[v].version = v /\ snap[v].done \subseteq 1..v
        /\ v > 0 /\ MadeByOne(snap[v]) => Serves(snap[v], v)

-----------------------------------------------------------------------------
(* What the repository says and the code does not do.                      *)

\* "fn receives a Connection inside the startup transaction" (migrate.py): a
\* startup that does not complete leaves no part of a migration behind.
AbortedStartupLeavesNothing ==
    [][Stop /\ pc = "migrate" /\ from \in 1..(code - 1)
         => disk.cols \subseteq snap[from].cols]_vars

\* "A database that needs migrating is snapshotted first" and "snapshot is the
\* PRE-migration data" (migrate.py, test_migrations.py): no snapshot has a
\* column that only a later version adds.
SnapshotsPredateMigrations ==
    \A v \in DOMAIN snap : v > 0 => snap[v].cols \subseteq AddedBy(1..v)

\* "A fresh one (missing/empty file, or no app tables yet)" (existing_db_version):
\* a database that is taken for a fresh one is current when it is served.
FreshIsCurrent == pc = "serving" /\ from = NoVersion => Current
=============================================================================
