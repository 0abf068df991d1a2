------------------------------- MODULE Backup -------------------------------
(***************************************************************************)
(* src/app/backup.py: the daily run of the backup sidecar (snapshot, push, *)
(* check, log sync, prune) against a remote whose calls may fail half way, *)
(* beside an application that uploads and deletes logs, loses its disk and *)
(* restores the newest snapshot when it starts.                            *)
(*                                                                         *)
(* A database is what a snapshot of it must preserve: the set of the logs  *)
(* it has rows for.  A file that may be missing is a set of at most one    *)
(* content: db = {} is a missing or zero-byte database.                    *)
(***************************************************************************)
EXTENDS Integers, FiniteSets, FiniteSetsExt, Functions

CONSTANTS
    LOG,       \* log files, content-addressed
    Keep,      \* backup_keep
    MaxRuns,   \* bound: runs of the sidecar, named by their order in time
    MaxFaults  \* bound: failing calls, crashes and lost disks

ASSUME BackupAssumption ==
    /\ IsFiniteSet(LOG)
    /\ Keep \in Nat \ {0}
    /\ MaxRuns \in Nat /\ MaxFaults \in Nat

VARIABLES
    db, files, marker,       \* db_path, log_dir, the .restored marker
    pulled,                  \* the app.db that a restore pulls and renames
    doomed,                  \* logs deleted whose file delete_log is about to unlink
    app, want,               \* the application's start; the snapshot it restores
    snaps, remoteLogs,       \* the remote: snapshot directories, shared logs
    job, staged, now,        \* the sidecar's run, its staging file, its timestamp
    faults,
    done, gone, seen, clean  \* history, see below

disk == <<db, files, marker, pulled>>
remote == <<snaps, remoteLogs>>
sidecar == <<job, staged, now>>
start == <<app, want, seen, clean>>
vars == <<disk, doomed, start, remote, sidecar, faults, done, gone>>

(***************************************************************************)
(* History: done are the runs that reported success, gone the logs that    *)
(* were deleted, or were lost with the disk before any run copied them,    *)
(* seen the snapshots there when the application started to restore, and   *)
(* clean says that nothing has failed in that start.                       *)
(***************************************************************************)
NoSnaps == [t \in {} |-> {}]

Init ==
    /\ db = {{}} /\ files = {} /\ marker = FALSE /\ pulled = {}
    /\ doomed = {}
    /\ app = "up" /\ want = 0 /\ seen = NoSnaps /\ clean = TRUE
    /\ snaps = NoSnaps /\ remoteLogs = {}
    /\ job = "idle" /\ staged = {} /\ now = 0
    /\ faults = 0 /\ done = {} /\ gone = {}

Rows == UNION db

\* A call to the remote, or a process, fails.
Fault == faults < MaxFaults /\ faults' = faults + 1

-----------------------------------------------------------------------------
(* The application at work.                                                *)

\* upload_logs stores the file (one that was deleted is not uploaded again) ...
StoreFile(l) ==
    /\ app = "up"
    /\ l \notin files \union Rows \union gone
    /\ files' = files \union {l}
    /\ UNCHANGED <<db, marker, pulled, doomed, start, remote, sidecar, faults, done, gone>>

\* ... and then commits its row.
CommitUpload(l) ==
    /\ app = "up"
    /\ l \in files \ (Rows \union gone)
    /\ db' = {Rows \union {l}}
    /\ UNCHANGED <<files, marker, pulled, doomed, start, remote, sidecar, faults, done, gone>>

\* delete_log commits first ...
CommitDelete(l) ==
    /\ app = "up"
    /\ l \in Rows
    /\ db' = {Rows \ {l}}
    /\ gone' = gone \union {l} /\ doomed' = doomed \union {l}
    /\ UNCHANGED <<files, marker, pulled, start, remote, sidecar, faults, done>>

\* ... and then unlinks the file.
Unlink(l) ==
    /\ app = "up"
    /\ l \in doomed
    /\ files' = files \ {l} /\ doomed' = doomed \ {l}
    /\ UNCHANGED <<db, marker, pulled, start, remote, sidecar, faults, done, gone>>

-----------------------------------------------------------------------------
(* run_backup, in the sidecar.                                             *)

\* make_snapshot: connecting to a database that is missing creates it, and what
\* is copied is a database without tables.
Snapshot ==
    /\ job = "idle"
    /\ now < MaxRuns
    /\ now' = now + 1
    /\ staged' = {[rows |-> Rows, real |-> db # {}]}
    /\ job' = "push"
    /\ UNCHANGED <<disk, doomed, start, remote, faults, done, gone>>

\* The directories with an app.db in them.
Whole(s) == {t \in DOMAIN s : s[t] # {}}

With(t, content) == [u \in DOMAIN snaps \union {t} |-> IF u = t THEN content ELSE snaps[u]]

Push ==
    /\ job = "push"
    /\ snaps' = With(now, staged)
    /\ job' = "check"
    /\ UNCHANGED <<disk, doomed, start, remoteLogs, staged, now, faults, done, gone>>

\* Mutant: the result of the push is not looked at.
PushFailsQuietly ==
    /\ job = "push"
    /\ Fault
    /\ \E s \in {snaps, With(now, {}), With(now, staged)} : snaps' = s
    /\ job' = "logs"
    /\ UNCHANGED <<disk, doomed, start, remoteLogs, staged, now, done, gone>>

\* The push fails before it makes the directory, before it has the file, or after.
PushFails ==
    /\ job = "push"
    /\ Fault
    /\ \E s \in {snaps, With(now, {}), With(now, staged)} : snaps' = s
    /\ job' = "purge"
    /\ UNCHANGED <<disk, doomed, start, remoteLogs, staged, now, done, gone>>

Check ==
    /\ job = "check"
    /\ \/ job' = "logs" /\ UNCHANGED faults
       \/ job' = "purge" /\ Fault
    /\ UNCHANGED <<disk, doomed, start, remote, staged, now, done, gone>>

\* The directory of a failed run is removed, if that call does not fail too.
Purge ==
    /\ job = "purge"
    /\ \/ snaps' = Restrict(snaps, DOMAIN snaps \ {now}) /\ UNCHANGED faults
       \/ Fault /\ UNCHANGED snaps
    /\ job' = "idle" /\ staged' = {}
    /\ UNCHANGED <<disk, doomed, start, remoteLogs, now, done, gone>>

\* Mutant: the shared directory is made to equal the local one.
SyncLogsMirrored ==
    /\ job = "logs"
    /\ remoteLogs' = files /\ job' = "prune"
    /\ UNCHANGED <<disk, doomed, start, snaps, staged, now, faults, done, gone>>

\* The shared directory of logs only ever gains files.
SyncLogs ==
    /\ job = "logs"
    /\ remoteLogs' = remoteLogs \union files /\ job' = "prune"
    /\ UNCHANGED <<disk, doomed, start, snaps, staged, now, faults, done, gone>>

SyncLogsFails ==
    /\ job = "logs"
    /\ Fault
    /\ \E some \in SUBSET files : remoteLogs' = remoteLogs \union some
    /\ job' = "idle" /\ staged' = {}
    /\ UNCHANGED <<disk, doomed, start, snaps, now, done, gone>>

\* All but the newest Keep directories.
Surplus(s) == {t \in DOMAIN s : Cardinality({u \in DOMAIN s : u > t}) >= Keep}

\* prune: a listing or a purge that fails is logged, the run succeeds.
Prune ==
    /\ job = "prune"
    /\ \E purged \in SUBSET Surplus(snaps) :
         /\ snaps' = Restrict(snaps, DOMAIN snaps \ purged)
         /\ IF purged = Surplus(snaps) THEN UNCHANGED faults ELSE Fault
         /\ clean' = (clean /\ want \notin purged)
    /\ done' = done \union {now}
    /\ job' = "idle" /\ staged' = {}
    /\ UNCHANGED <<disk, doomed, app, want, seen, remoteLogs, now, gone>>

\* The sidecar dies.
KillSidecar ==
    /\ job # "idle"
    /\ Fault
    /\ job' = "idle" /\ staged' = {}
    /\ UNCHANGED <<disk, doomed, start, remote, now, done, gone>>

-----------------------------------------------------------------------------
(* The start of the application: restore_if_empty, then init_models.       *)

\* There is something to keep, or a restore was done before.
StartAsIs ==
    /\ app = "down"
    /\ marker \/ db # {}
    /\ app' = "up" /\ db' = {Rows}
    /\ UNCHANGED <<files, marker, pulled, doomed, want, seen, clean, remote, sidecar, faults, done, gone>>

\* Mutant: the oldest snapshot is taken.
StartRestoreOldest ==
    /\ app = "down"
    /\ ~marker /\ db = {}
    /\ DOMAIN snaps # {}
    /\ app' = "pull" /\ want' = Min(DOMAIN snaps)
    /\ seen' = snaps /\ clean' = TRUE
    /\ UNCHANGED <<disk, doomed, remote, sidecar, faults, done, gone>>

StartRestore ==
    /\ app = "down"
    /\ ~marker /\ db = {}
    /\ DOMAIN snaps # {}
    /\ app' = "pull" /\ want' = Max(DOMAIN snaps)
    /\ seen' = snaps /\ clean' = TRUE
    /\ UNCHANGED <<disk, doomed, remote, sidecar, faults, done, gone>>

\* No snapshot is listed, because there is none or because the call failed: the
\* application makes a database of its own.
StartFresh ==
    /\ app = "down"
    /\ ~marker /\ db = {}
    /\ IF DOMAIN snaps = {} THEN UNCHANGED <<faults, clean>> ELSE Fault /\ clean' = FALSE
    /\ seen' = snaps
    /\ app' = "up" /\ db' = {{}}
    /\ UNCHANGED <<files, marker, pulled, doomed, want, remote, sidecar, done, gone>>

\* The pull of app.db; its result is not looked at, only whether there is a file.
Pull ==
    /\ app = "pull"
    /\ \/ /\ want \in Whole(snaps)
          /\ pulled' = {r.rows : r \in snaps[want]}
          /\ UNCHANGED <<faults, clean>>
       \/ /\ want \notin Whole(snaps)
          /\ UNCHANGED <<pulled, faults, clean>>
       \/ Fault /\ clean' = FALSE /\ UNCHANGED pulled
    /\ IF pulled' = {}
         THEN app' = "up" /\ db' = {{}}
         ELSE app' = "rename" /\ UNCHANGED db
    /\ UNCHANGED <<files, marker, doomed, want, seen, remote, sidecar, done, gone>>

Rename ==
    /\ app = "rename"
    /\ db' = pulled /\ pulled' = {}
    /\ app' = "logs"
    /\ UNCHANGED <<files, marker, doomed, want, seen, clean, remote, sidecar, faults, done, gone>>

PullLogs ==
    /\ app = "logs"
    /\ \/ files' = files \union remoteLogs /\ UNCHANGED <<faults, clean>>
       \/ /\ Fault /\ clean' = FALSE
          /\ \E some \in SUBSET remoteLogs : files' = files \union some
    /\ app' = "mark"
    /\ UNCHANGED <<db, marker, pulled, doomed, want, seen, remote, sidecar, done, gone>>

Mark ==
    /\ app = "mark"
    /\ marker' = TRUE
    /\ app' = "up"
    /\ UNCHANGED <<db, files, pulled, doomed, want, seen, clean, remote, sidecar, faults, done, gone>>

CrashApp ==
    /\ app # "down"
    /\ Fault
    /\ app' = "down" /\ clean' = FALSE /\ doomed' = {}
    /\ UNCHANGED <<disk, want, seen, remote, sidecar, done, gone>>

\* The volume is lost.
LoseDisk ==
    /\ Fault
    /\ db' = {} /\ files' = {} /\ marker' = FALSE /\ pulled' = {}
    /\ app' = "down" /\ clean' = FALSE /\ doomed' = {}
    /\ gone' = gone \union (files \ remoteLogs)
    /\ UNCHANGED <<want, seen, remote, sidecar, done>>

Next ==
    \/ \E l \in LOG : StoreFile(l) \/ CommitUpload(l) \/ CommitDelete(l) \/ Unlink(l)
    \/ Snapshot \/ Push \/ PushFails \/ Check \/ Purge
    \/ SyncLogs \/ SyncLogsFails \/ Prune \/ KillSidecar
    \/ StartAsIs \/ StartRestore \/ StartFresh
    \/ Pull \/ Rename \/ PullLogs \/ Mark
    \/ CrashApp \/ LoseDisk

Spec == Init /\ [][Next]_vars

-----------------------------------------------------------------------------
\* The snapshot of the last run that reported success stays, whatever fails
\* after it: failed runs leave directories, but prune nothing.
LastBackupStays == done # {} => Max(done) \in Whole(snaps)

\* A successful run has brought every log its snapshot has a row for to the
\* remote, uploads and deletes of the meantime notwithstanding.
BackupsCarryTheirLogs ==
    \A t \in done \cap DOMAIN snaps :
        \A r \in snaps[t] : r.rows \subseteq remoteLogs \union gone

\* A start that restores without a failing call, when the newest directory is a
\* successful run's, serves what that run saw, with its logs.
RestoreIsTheLastBackup ==
    [][app # "up" /\ app' = "up" /\ clean' /\ ~marker /\ Max(DOMAIN seen \union {0}) \in done
         => /\ db' = {r.rows : r \in seen[Max(DOMAIN seen)]}
            /\ UNION db' \subseteq files' \union gone]_vars

-----------------------------------------------------------------------------
(* What the repository says and the code does not do.                      *)

\* "The partial directory of the failed run is removed so it can never count
\* toward backup_keep" (run_backup): a prune counts whole snapshots only.
PartialNeverCounts == job = "prune" => Whole(snaps) = DOMAIN snaps

\* "The DB and the raw logs are in every snapshot" (README): between two runs, a
\* snapshot on the remote has its logs there.
SnapshotsCarryTheirLogs ==
    job = "idle" =>
        \A t \in DOMAIN snaps :
            \A r \in snaps[t] : r.rows \subseteq remoteLogs \union gone

\* "Pull the latest snapshot from the remote if the local DB is absent/empty"
\* (restore_if_empty): with a snapshot there and no call failing, the application
\* does not come up with a database of its own.
NoFreshStartOverSnapshots ==
    [][app = "pull" /\ app' = "up" /\ clean' => Whole(seen) \cap Whole(snaps) = {}]_vars

\* "A backup that fails is LOUD" (module docstring): a run that reports success
\* has copied a database that existed.
NoBackupOfNothing ==
    \A t \in done \cap DOMAIN snaps : \A r \in snaps[t] : r.real
=============================================================================
