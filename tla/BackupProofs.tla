---------------------------- MODULE BackupProofs ----------------------------
(***************************************************************************)
(* The snapshot of the last successful backup stays, successful backups    *)
(* have their logs beside them and a start that nothing disturbs restores  *)
(* the last one, for any number of logs, runs and failures and any         *)
(* backup_keep of at least one.                                            *)
(***************************************************************************)
EXTENDS Backup, FiniteSetTheorems, WellFoundedInduction, TLAPS

\* Runs are numbered in the order of their timestamps.
TimesOK ==
    /\ now \in Nat
    /\ DOMAIN snaps \subseteq 1..now
    /\ done \subseteq 1..now

\* A run is not done while it goes on, and from the check to the end its own
\* directory is whole.
RunOK ==
    /\ job # "idle" => staged # {} /\ now \in 1..now /\ now \notin done
    /\ job \in {"check", "logs", "prune"} => now \in Whole(snaps)

NewestDoneIsWhole ==
    \A d \in done : (\A e \in done : e <= d) => d \in Whole(snaps)

BackupInv == TimesOK /\ RunOK /\ NewestDoneIsWhole

-----------------------------------------------------------------------------
\* A prune never has the newest directory among its surplus.
LEMMA NewestIsNoSurplus ==
    ASSUME TimesOK
    PROVE  now \notin Surplus(snaps)
<1>1. {u \in DOMAIN snaps : u > now} = {}
  BY DEF TimesOK
<1>2. Cardinality({u \in DOMAIN snaps : u > now}) = 0
  BY <1>1, FS_EmptySet
<1>. QED  BY <1>2, BackupAssumption DEF Surplus

\* Steps that leave the remote's directories, the run and its history alone.
LEMMA OthersKeepInv ==
    ASSUME BackupInv, UNCHANGED <<snaps, job, staged, now, done>>
    PROVE  BackupInv'
BY DEF BackupInv, TimesOK, RunOK, NewestDoneIsWhole, Whole

\* A step of a run that is not done yet, which changes no other directory than
\* its own, keeps the newest one that is done.
LEMMA OwnDirectoryOnly ==
    ASSUME NewestDoneIsWhole, now \notin done, done' = done,
           \A d \in DOMAIN snaps : d # now => d \in DOMAIN snaps' /\ snaps'[d] = snaps[d]
    PROVE  NewestDoneIsWhole'
BY DEF NewestDoneIsWhole, Whole

LEMMA BackupInvInit == Init => BackupInv
BY DEF Init, BackupInv, TimesOK, RunOK, NewestDoneIsWhole, NoSnaps

LEMMA BackupInvNext == BackupInv /\ [Next]_vars => BackupInv'
<1>. SUFFICES ASSUME BackupInv, [Next]_vars
              PROVE  BackupInv'
  OBVIOUS
<1>. USE DEF BackupInv
<1>1. CASE \E l \in LOG : StoreFile(l) \/ CommitUpload(l) \/ CommitDelete(l) \/ Unlink(l)
  BY <1>1, OthersKeepInv
     DEF StoreFile, CommitUpload, CommitDelete, Unlink, remote, sidecar
<1>2. CASE Snapshot
  <2>1. TimesOK'
    BY <1>2 DEF Snapshot, TimesOK, remote
  <2>2. now' \in 1..now' /\ now' \notin done'
    BY <1>2 DEF Snapshot, TimesOK
  <2>3. RunOK'
    BY <1>2, <2>2 DEF Snapshot, RunOK
  <2>4. NewestDoneIsWhole'
    BY <1>2 DEF Snapshot, NewestDoneIsWhole, Whole, remote
  <2>. QED  BY <2>1, <2>3, <2>4
<1>3. CASE Push
  <2>1. TimesOK'
    BY <1>3 DEF Push, TimesOK, RunOK, With
  <2>2. RunOK'
    BY <1>3 DEF Push, RunOK, Whole, With
  <2>3. NewestDoneIsWhole'
    BY <1>3, OwnDirectoryOnly DEF Push, RunOK, With
  <2>. QED  BY <2>1, <2>2, <2>3
<1>4. CASE PushFails
  <2>1. PICK s \in {snaps, With(now, {}), With(now, staged)} : snaps' = s
    BY <1>4 DEF PushFails
  <2>2. now \notin done /\ now \in 1..now /\ staged # {}
    BY <1>4 DEF PushFails, RunOK
  <2>3. TimesOK'
    BY <1>4, <2>1, <2>2 DEF PushFails, TimesOK, With
  <2>4. RunOK'
    BY <1>4, <2>2 DEF PushFails, RunOK
  <2>5. NewestDoneIsWhole'
    BY <1>4, <2>1, <2>2, OwnDirectoryOnly DEF PushFails, With
  <2>. QED  BY <2>3, <2>4, <2>5
<1>5. CASE Check
  BY <1>5 DEF Check, TimesOK, RunOK, NewestDoneIsWhole, Whole, remote
<1>6. CASE Purge
  <2>1. TimesOK'
    BY <1>6 DEF Purge, TimesOK, Restrict
  <2>2. RunOK'
    BY <1>6 DEF Purge, RunOK
  <2>3. NewestDoneIsWhole'
    BY <1>6, OwnDirectoryOnly DEF Purge, RunOK, Restrict
  <2>. QED  BY <2>1, <2>2, <2>3
<1>7. CASE SyncLogs \/ SyncLogsFails \/ KillSidecar
  BY <1>7 DEF SyncLogs, SyncLogsFails, KillSidecar, TimesOK, RunOK, NewestDoneIsWhole,
              Whole, remote
<1>8. CASE Prune
  <2>1. PICK purged \in SUBSET Surplus(snaps) :
           snaps' = Restrict(snaps, DOMAIN snaps \ purged)
    BY <1>8 DEF Prune
  <2>2. now \in 1..now /\ now \in Whole(snaps)
    BY <1>8 DEF Prune, RunOK
  <2>3. TimesOK'
    BY <1>8, <2>1, <2>2 DEF Prune, TimesOK, Restrict
  <2>4. now \notin purged
    BY <2>1, NewestIsNoSurplus
  <2>5. now \in Whole(snaps)'
    BY <2>1, <2>2, <2>4 DEF Whole, Restrict
  <2>6. NewestDoneIsWhole'
    <3>. SUFFICES ASSUME NEW d \in done', \A e \in done' : e <= d
                  PROVE  d \in Whole(snaps)'
      BY DEF NewestDoneIsWhole
    <3>1. now <= d /\ d \in 1..now
      BY <1>8, <2>2 DEF Prune, TimesOK
    <3>. QED  BY <2>5, <3>1 DEF TimesOK
  <2>7. RunOK'
    BY <1>8 DEF Prune, RunOK
  <2>. QED  BY <2>3, <2>6, <2>7
<1>9. CASE \/ StartAsIs \/ StartRestore \/ StartFresh
           \/ Pull \/ Rename \/ PullLogs \/ Mark
           \/ CrashApp \/ LoseDisk
  BY <1>9, OthersKeepInv
     DEF StartAsIs, StartRestore, StartFresh, Pull, Rename, PullLogs, Mark,
         CrashApp, LoseDisk, remote, sidecar
<1>10. CASE UNCHANGED vars
  BY <1>10, OthersKeepInv DEF vars, remote, sidecar
<1>. QED
  BY <1>1, <1>2, <1>3, <1>4, <1>5, <1>6, <1>7, <1>8, <1>9, <1>10 DEF Next

-----------------------------------------------------------------------------
LEMMA NatLess == OpToRel(<, Nat) = {ss \in Nat \X Nat : ss[1] < ss[2]}
BY DEF OpToRel

\* A set of runs up to now has a newest one (0 stands for no run).
LEMMA NewestExists ==
    ASSUME NEW n \in Nat, NEW S \in SUBSET (0..n), S # {}
    PROVE  Max(S) \in S /\ \A e \in S : e <= Max(S)
<1>. DEFINE Below == {n - e : e \in S}
<1>1. PICK b \in Below : \A c \in Below : b <= c
  <2>1. Below \subseteq Nat /\ Below # {}
    <3>1. \A e \in S : n - e \in Nat
      OBVIOUS
    <3>. QED  BY <3>1
  <2>. DEFINE Less == {ss \in Nat \X Nat : ss[1] < ss[2]}
  <2>2. IsWellFoundedOn(Less, Nat)
    BY NatLessThanWellFounded, NatLess
  <2>3. PICK b \in Below : \A c \in Below : <<c, b>> \notin Less
    <3>. HIDE DEF Below, Less
    <3>. QED  BY <2>1, <2>2, WFMin
  <2>4. ASSUME NEW c \in Below
        PROVE  b <= c
    <3>1. b \in Nat /\ c \in Nat
      BY <2>1
    <3>2. c < b => <<c, b>> \in Less
      BY <3>1
    <3>. QED  BY <2>3, <3>1, <3>2
  <2>. QED  BY <2>4
<1>2. PICK m \in S : b = n - m
  OBVIOUS
<1>3. ASSUME NEW e \in S
      PROVE  e <= m
  <2>1. n - e \in Below /\ b <= n - e
    BY <1>1
  <2>. QED  BY <1>2, <2>1
<1>. QED  BY <1>3 DEF Max

\* Whatever calls fail and processes die, the snapshot of the last run that
\* reported success stays on the remote (run_backup, prune).
THEOREM TheLastBackupStays == Spec => []LastBackupStays
<1>1. BackupInv => LastBackupStays
  <2>. SUFFICES ASSUME BackupInv, done # {}
                PROVE  Max(done) \in Whole(snaps)
    BY DEF LastBackupStays
  <2>1. Max(done) \in done /\ \A e \in done : e <= Max(done)
    <3>1. now \in Nat /\ done \in SUBSET (0..now)
      BY DEF BackupInv, TimesOK
    <3>. QED  BY <3>1, NewestExists
  <2>. QED  BY <2>1 DEF BackupInv, NewestDoneIsWhole
<1>. QED  BY BackupInvInit, BackupInvNext, <1>1, PTL DEF Spec

-----------------------------------------------------------------------------
(* The logs beside the snapshots.                                          *)

\* Where the file of a log can be found, unless it is gone for good.
Kept == files \union remoteLogs \union gone

\* Wherever a row has got to, the file of its log is kept, and what delete_log
\* unlinks has been given up.
RowsAreKept ==
    /\ Rows \subseteq Kept
    /\ \A p \in pulled : p \subseteq Kept
    /\ \A r \in staged : r.rows \subseteq Kept
    /\ \A t \in DOMAIN snaps : \A r \in snaps[t] : r.rows \subseteq Kept
    /\ doomed \subseteq gone

\* When a run comes to its prune, the logs of its snapshot are on the remote.
SyncedBeforePrune ==
    job = "prune" => \A r \in snaps[now] : r.rows \subseteq remoteLogs \union gone

LogsInv == BackupInv /\ RowsAreKept /\ SyncedBeforePrune /\ BackupsCarryTheirLogs

\* A run that can still report success: it has, or it has pushed its snapshot.
Succeeds(t) == t \in done \/ (t = now /\ job \in {"check", "logs", "prune"})

RunsAreWhole ==
    /\ job = "push" => now \notin DOMAIN snaps /\ want < now
    /\ want \in 0..now
    /\ DOMAIN seen \subseteq 1..now
    /\ \A t \in done \cap DOMAIN snaps : snaps[t] # {}

Restoring == app \in {"pull", "rename", "logs", "mark"}

\* A restore that nothing has disturbed is on its way to the snapshot it saw.
RestoreOnCourse ==
    /\ app = "down" => ~clean
    /\ Restoring /\ clean => want \in DOMAIN seen /\ \A t \in DOMAIN seen : t <= want
    /\ Restoring /\ clean /\ Succeeds(want) => want \in Whole(snaps) /\ snaps[want] = seen[want]
    /\ app = "rename" /\ clean /\ Succeeds(want) => pulled = {r.rows : r \in seen[want]}
    /\ app \in {"logs", "mark"} /\ clean /\ Succeeds(want) => db = {r.rows : r \in seen[want]}
    /\ app = "mark" /\ clean => Rows \subseteq files \union gone

RestoreInv == LogsInv /\ RunsAreWhole /\ RestoreOnCourse

-----------------------------------------------------------------------------
LEMMA LogsInvInit == Init => LogsInv
BY BackupInvInit
   DEF Init, LogsInv, RowsAreKept, SyncedBeforePrune, BackupsCarryTheirLogs, Rows, Kept, NoSnaps

\* Deleting, losing or copying a file leaves it kept or gives it up.
LEMMA KeptGrows ==
    ASSUME RowsAreKept, Next
    PROVE  Kept \subseteq Kept' /\ remoteLogs \subseteq remoteLogs' /\ gone \subseteq gone'
<1>1. CASE \E l \in LOG : StoreFile(l) \/ CommitUpload(l) \/ CommitDelete(l)
  BY <1>1 DEF StoreFile, CommitUpload, CommitDelete, Kept, remote
<1>2. CASE \E l \in LOG : Unlink(l)
  BY <1>2 DEF Unlink, RowsAreKept, Kept, remote
<1>3. CASE Snapshot \/ Push \/ PushFails \/ Check \/ Purge \/ Prune \/ KillSidecar
  BY <1>3 DEF Snapshot, Push, PushFails, Check, Purge, Prune, KillSidecar, Kept, remote, disk
<1>4. CASE SyncLogs \/ SyncLogsFails
  BY <1>4 DEF SyncLogs, SyncLogsFails, Kept, disk
<1>5. CASE StartAsIs \/ StartRestore \/ StartFresh \/ Pull \/ Rename \/ PullLogs \/ Mark \/ CrashApp
  BY <1>5 DEF StartAsIs, StartRestore, StartFresh, Pull, Rename, PullLogs, Mark, CrashApp,
              Kept, remote, disk
<1>6. CASE LoseDisk
  BY <1>6 DEF LoseDisk, Kept, remote
<1>. QED  BY <1>1, <1>2, <1>3, <1>4, <1>5, <1>6 DEF Next

\* Steps that touch neither the remote's directories nor the run.
LEMMA LogsOutsideRuns ==
    ASSUME LogsInv, Next, UNCHANGED <<snaps, job, staged, now, done>>,
           Rows' \subseteq Kept', \A p \in pulled' : p \subseteq Kept', doomed' \subseteq gone'
    PROVE  LogsInv'
<1>. USE DEF LogsInv
<1>1. /\ Kept \subseteq Kept'
      /\ remoteLogs \union gone \subseteq remoteLogs' \union gone'
  BY KeptGrows
<1>2. BackupInv'
  BY OthersKeepInv
<1>3. RowsAreKept'
  <2>1. \A t \in DOMAIN snaps : \A r \in snaps[t] : r.rows \subseteq Kept'
    BY <1>1 DEF RowsAreKept
  <2>2. \A r \in staged : r.rows \subseteq Kept'
    BY <1>1 DEF RowsAreKept
  <2>. QED  BY <2>1, <2>2 DEF RowsAreKept
<1>4. SyncedBeforePrune'
  BY <1>1 DEF SyncedBeforePrune
<1>5. BackupsCarryTheirLogs'
  BY <1>1 DEF BackupsCarryTheirLogs
<1>. QED  BY <1>2, <1>3, <1>4, <1>5

\* Steps of the run, which leave the application alone: what they put into
\* their directory or keep of the others is kept.
LEMMA LogsInRuns ==
    ASSUME LogsInv, Next, UNCHANGED <<db, files, pulled, doomed, gone>>,
           \A r \in staged' : r.rows \subseteq Kept,
           \A t \in DOMAIN snaps' : \A r \in snaps'[t] : r.rows \subseteq Kept
    PROVE  RowsAreKept'
<1>1. Kept \subseteq Kept'
  BY KeptGrows DEF LogsInv
<1>. QED  BY <1>1 DEF LogsInv, RowsAreKept, Rows

LEMMA LogsInvNext == LogsInv /\ [Next]_vars => LogsInv'
<1>. SUFFICES ASSUME LogsInv, [Next]_vars
              PROVE  LogsInv'
  OBVIOUS
<1>. USE DEF LogsInv
<1>0. BackupInv'
  BY BackupInvNext
<1>1. ASSUME NEW l \in LOG, StoreFile(l) \/ CommitUpload(l)
      PROVE  LogsInv'
  <2>1. Next
    BY <1>1 DEF Next
  <2>2. Rows' \subseteq Kept' /\ (\A p \in pulled' : p \subseteq Kept') /\ doomed' \subseteq gone'
    BY <1>1 DEF StoreFile, CommitUpload, RowsAreKept, Rows, Kept, remote
  <2>. QED  BY <1>1, <2>1, <2>2, LogsOutsideRuns DEF StoreFile, CommitUpload, remote, sidecar
<1>2. ASSUME NEW l \in LOG, CommitDelete(l) \/ Unlink(l)
      PROVE  LogsInv'
  <2>1. Next
    BY <1>2 DEF Next
  <2>2. Rows' \subseteq Kept' /\ (\A p \in pulled' : p \subseteq Kept') /\ doomed' \subseteq gone'
    BY <1>2 DEF CommitDelete, Unlink, RowsAreKept, Rows, Kept, remote
  <2>. QED  BY <1>2, <2>1, <2>2, LogsOutsideRuns DEF CommitDelete, Unlink, remote, sidecar
<1>3. CASE Snapshot
  <2>1. RowsAreKept'
    BY <1>3, LogsInRuns DEF Next, Snapshot, RowsAreKept, remote, disk
  <2>2. SyncedBeforePrune' /\ BackupsCarryTheirLogs'
    BY <1>3 DEF Snapshot, SyncedBeforePrune, BackupsCarryTheirLogs, remote
  <2>. QED  BY <1>0, <2>1, <2>2
<1>4. CASE Push \/ PushFails
  <2>1. /\ now \notin done /\ done' = done /\ job' # "prune" /\ staged' = staged
        /\ UNCHANGED <<db, files, pulled, doomed, gone, remoteLogs>>
    BY <1>4 DEF Push, PushFails, BackupInv, RunOK, disk
  <2>2. snaps' \in {snaps, With(now, {}), With(now, staged)}
    BY <1>4 DEF Push, PushFails
  <2>3. \A t \in DOMAIN snaps' :
          \/ t \in DOMAIN snaps /\ snaps'[t] = snaps[t]
          \/ t = now /\ snaps'[t] \subseteq staged
    BY <2>2 DEF With
  <2>4. RowsAreKept'
    BY <1>4, <2>1, <2>3, LogsInRuns DEF Next, RowsAreKept
  <2>5. SyncedBeforePrune' /\ BackupsCarryTheirLogs'
    BY <2>1, <2>3 DEF SyncedBeforePrune, BackupsCarryTheirLogs
  <2>. QED  BY <1>0, <2>4, <2>5
<1>5. CASE Check \/ KillSidecar
  <2>1. /\ done' = done /\ job' # "prune" /\ staged' \subseteq staged /\ snaps' = snaps
        /\ UNCHANGED <<db, files, pulled, doomed, gone, remoteLogs>>
    BY <1>5 DEF Check, KillSidecar, disk, remote
  <2>2. RowsAreKept'
    BY <1>5, <2>1, LogsInRuns DEF Next, RowsAreKept
  <2>3. SyncedBeforePrune' /\ BackupsCarryTheirLogs'
    BY <2>1 DEF SyncedBeforePrune, BackupsCarryTheirLogs
  <2>. QED  BY <1>0, <2>2, <2>3
<1>6. CASE Purge
  <2>1. /\ done' = done /\ job' = "idle" /\ staged' = {}
        /\ UNCHANGED <<db, files, pulled, doomed, gone, remoteLogs>>
    BY <1>6 DEF Purge, disk
  <2>2. \A t \in DOMAIN snaps' : t \in DOMAIN snaps /\ snaps'[t] = snaps[t]
    BY <1>6 DEF Purge, Restrict
  <2>3. RowsAreKept'
    BY <1>6, <2>1, <2>2, LogsInRuns DEF Next, RowsAreKept
  <2>4. SyncedBeforePrune' /\ BackupsCarryTheirLogs'
    BY <2>1, <2>2 DEF SyncedBeforePrune, BackupsCarryTheirLogs
  <2>. QED  BY <1>0, <2>3, <2>4
<1>7. CASE SyncLogs
  <2>1. /\ done' = done /\ staged' = staged /\ snaps' = snaps /\ now' = now
        /\ remoteLogs' = remoteLogs \union files
        /\ UNCHANGED <<db, files, pulled, doomed, gone>>
        /\ now \in DOMAIN snaps
    BY <1>7 DEF SyncLogs, disk, BackupInv, RunOK, Whole
  <2>2. RowsAreKept'
    BY <1>7, <2>1, LogsInRuns DEF Next, RowsAreKept
  <2>3. SyncedBeforePrune'
    BY <2>1 DEF SyncedBeforePrune, RowsAreKept, Kept
  <2>4. BackupsCarryTheirLogs'
    BY <2>1 DEF BackupsCarryTheirLogs
  <2>. QED  BY <1>0, <2>2, <2>3, <2>4
<1>8. CASE SyncLogsFails
  <2>1. /\ done' = done /\ staged' = {} /\ snaps' = snaps /\ job' = "idle"
        /\ remoteLogs \subseteq remoteLogs'
        /\ UNCHANGED <<db, files, pulled, doomed, gone>>
    BY <1>8 DEF SyncLogsFails, disk
  <2>2. RowsAreKept'
    BY <1>8, <2>1, LogsInRuns DEF Next, RowsAreKept
  <2>3. SyncedBeforePrune' /\ BackupsCarryTheirLogs'
    BY <2>1 DEF SyncedBeforePrune, BackupsCarryTheirLogs
  <2>. QED  BY <1>0, <2>2, <2>3
<1>9. CASE Prune
  <2>1. /\ job = "prune" /\ done' = done \union {now} /\ staged' = {} /\ job' = "idle"
        /\ UNCHANGED <<db, files, pulled, doomed, gone, remoteLogs>>
    BY <1>9 DEF Prune, disk
  <2>2. \A t \in DOMAIN snaps' : t \in DOMAIN snaps /\ snaps'[t] = snaps[t]
    BY <1>9 DEF Prune, Restrict
  <2>3. RowsAreKept'
    BY <1>9, <2>1, <2>2, LogsInRuns DEF Next, RowsAreKept
  <2>4. SyncedBeforePrune' /\ BackupsCarryTheirLogs'
    BY <2>1, <2>2 DEF SyncedBeforePrune, BackupsCarryTheirLogs
  <2>. QED  BY <1>0, <2>3, <2>4
<1>10. CASE StartAsIs \/ StartRestore \/ StartFresh
  <2>1. Rows' \subseteq Kept' /\ (\A p \in pulled' : p \subseteq Kept') /\ doomed' \subseteq gone'
    BY <1>10 DEF StartAsIs, StartRestore, StartFresh, RowsAreKept, Rows, Kept, disk, remote
  <2>. QED
    BY <1>10, <2>1, LogsOutsideRuns
       DEF Next, StartAsIs, StartRestore, StartFresh, remote, sidecar
<1>11. CASE Pull
  <2>1. \A p \in pulled' : p \subseteq Kept'
    <3>1. Kept' = Kept
      BY <1>11 DEF Pull, Kept, remote
    <3>2. CASE pulled' = pulled
      BY <3>1, <3>2 DEF RowsAreKept
    <3>3. CASE want \in Whole(snaps) /\ pulled' = {r.rows : r \in snaps[want]}
      BY <3>1, <3>3 DEF RowsAreKept, Whole
    <3>. QED  BY <1>11, <3>2, <3>3 DEF Pull
  <2>2. Rows' \subseteq Kept' /\ doomed' \subseteq gone'
    BY <1>11 DEF Pull, RowsAreKept, Rows, Kept, remote
  <2>. QED  BY <1>11, <2>1, <2>2, LogsOutsideRuns DEF Next, Pull, remote, sidecar
<1>12. CASE Rename \/ PullLogs \/ Mark \/ CrashApp
  <2>1. Rows' \subseteq Kept' /\ (\A p \in pulled' : p \subseteq Kept') /\ doomed' \subseteq gone'
    BY <1>12 DEF Rename, PullLogs, Mark, CrashApp, RowsAreKept, Rows, Kept, disk, remote
  <2>. QED
    BY <1>12, <2>1, LogsOutsideRuns DEF Next, Rename, PullLogs, Mark, CrashApp, remote, sidecar
<1>13. CASE LoseDisk
  <2>1. Rows' \subseteq Kept' /\ (\A p \in pulled' : p \subseteq Kept') /\ doomed' \subseteq gone'
    BY <1>13 DEF LoseDisk, Rows
  <2>. QED  BY <1>13, <2>1, LogsOutsideRuns DEF Next, LoseDisk, remote, sidecar
<1>14. CASE UNCHANGED vars
  BY <1>14, <1>0
     DEF vars, disk, remote, sidecar, RowsAreKept, SyncedBeforePrune, BackupsCarryTheirLogs,
         Rows, Kept
<1>. QED
  BY <1>1, <1>2, <1>3, <1>4, <1>5, <1>6, <1>7, <1>8, <1>9, <1>10, <1>11, <1>12, <1>13, <1>14
     DEF Next

\* A run that reported success has brought every log its snapshot has a row for
\* to the remote (run_backup, sync_logs beside delete_log).
THEOREM BackupsAreComplete == Spec => []BackupsCarryTheirLogs
<1>1. LogsInv => BackupsCarryTheirLogs
  BY DEF LogsInv
<1>. QED  BY LogsInvInit, LogsInvNext, <1>1, PTL DEF Spec

-----------------------------------------------------------------------------
LEMMA RestoreInvInit == Init => RestoreInv
BY LogsInvInit
   DEF Init, RestoreInv, RunsAreWhole, RestoreOnCourse, Restoring, NoSnaps

\* A run once over without success does not succeed any more.
LEMMA SuccessIsDecided ==
    ASSUME LogsInv, RunsAreWhole, [Next]_vars
    PROVE  \A t \in 0..now : Succeeds(t)' => Succeeds(t) \/ (t = now /\ job = "push")
<1>. SUFFICES ASSUME NEW t \in 0..now, Succeeds(t)', ~Succeeds(t)
              PROVE  t = now /\ job = "push"
  OBVIOUS
<1>1. now \in Nat
  BY DEF LogsInv, BackupInv, TimesOK
<1>2. CASE UNCHANGED <<job, now, done>>
  BY <1>2 DEF Succeeds
<1>3. CASE Snapshot \/ Push \/ PushFails \/ Check \/ Purge \/ SyncLogs \/ SyncLogsFails
             \/ Prune \/ KillSidecar
  BY <1>1, <1>3
     DEF Succeeds, Snapshot, Push, PushFails, Check, Purge, SyncLogs, SyncLogsFails, Prune,
         KillSidecar
<1>. QED
  BY <1>2, <1>3
     DEF Next, vars, StoreFile, CommitUpload, CommitDelete, Unlink, StartAsIs, StartRestore,
         StartFresh, Pull, Rename, PullLogs, Mark, CrashApp, LoseDisk, sidecar

LEMMA RunsAreWholeNext ==
    ASSUME LogsInv, RunsAreWhole, [Next]_vars
    PROVE  RunsAreWhole'
<1>1. now \in Nat /\ DOMAIN snaps \subseteq 1..now
  BY DEF LogsInv, BackupInv, TimesOK
<1>2. CASE Snapshot
  BY <1>1, <1>2 DEF RunsAreWhole, Snapshot, start, remote
<1>3. CASE Push \/ PushFails
  <2>1. /\ job' # "push" /\ now' = now /\ done' = done /\ want' = want /\ seen' = seen
        /\ now \notin done
    BY <1>3 DEF Push, PushFails, start, LogsInv, BackupInv, RunOK
  <2>2. snaps' \in {snaps, With(now, {}), With(now, staged)}
    BY <1>3 DEF Push, PushFails
  <2>3. \A t \in DOMAIN snaps' : t # now => t \in DOMAIN snaps /\ snaps'[t] = snaps[t]
    BY <2>2 DEF With
  <2>. QED  BY <2>1, <2>3 DEF RunsAreWhole
<1>4. CASE Check \/ SyncLogs \/ SyncLogsFails \/ KillSidecar
  BY <1>4 DEF RunsAreWhole, Check, SyncLogs, SyncLogsFails, KillSidecar, start, remote
<1>5. CASE Purge
  <2>1. \A t \in DOMAIN snaps' : t \in DOMAIN snaps /\ snaps'[t] = snaps[t]
    BY <1>5 DEF Purge, Restrict
  <2>. QED  BY <1>5, <2>1 DEF RunsAreWhole, Purge, start
<1>6. CASE Prune
  <2>1. \A t \in DOMAIN snaps' : t \in DOMAIN snaps /\ snaps'[t] = snaps[t]
    BY <1>6 DEF Prune, Restrict
  <2>2. snaps[now] # {}
    BY <1>6 DEF Prune, LogsInv, BackupInv, RunOK, Whole
  <2>. QED  BY <1>6, <2>1, <2>2 DEF RunsAreWhole, Prune
<1>7. CASE StartRestore
  <2>1. /\ want' = Max(DOMAIN snaps) /\ seen' = snaps /\ DOMAIN snaps # {}
        /\ UNCHANGED <<snaps, job, now, done>>
    BY <1>7 DEF StartRestore, remote, sidecar
  <2>2. DOMAIN snaps \in SUBSET (0..now)
    BY <1>1
  <2>3. Max(DOMAIN snaps) \in DOMAIN snaps
    BY <1>1, <2>1, <2>2, NewestExists
  <2>. QED  BY <1>1, <2>1, <2>3 DEF RunsAreWhole
<1>8. CASE StartFresh
  BY <1>1, <1>8 DEF RunsAreWhole, StartFresh, remote, sidecar
<1>9. CASE UNCHANGED <<want, seen, snaps, job, now, done>>
  BY <1>9 DEF RunsAreWhole
<1>. QED
  BY <1>2, <1>3, <1>4, <1>5, <1>6, <1>7, <1>8, <1>9
     DEF Next, vars, StoreFile, CommitUpload, CommitDelete, Unlink, StartAsIs,
         Pull, Rename, PullLogs, Mark, CrashApp, LoseDisk, start, remote, sidecar

\* The directory being restored does not change under a restore that nothing
\* disturbs.
LEMMA WantedStays ==
    ASSUME RestoreInv, [Next]_vars, Restoring, clean, clean', want' = want, seen' = seen,
           Succeeds(want)'
    PROVE  Succeeds(want) /\ want \in Whole(snaps)' /\ snaps'[want] = seen[want]
<1>. USE DEF RestoreInv
<1>1. Succeeds(want)
  BY SuccessIsDecided DEF RunsAreWhole
<1>2. want \in Whole(snaps) /\ snaps[want] = seen[want]
  BY <1>1 DEF RestoreOnCourse
<1>3. CASE Push \/ PushFails
  <2>1. want # now
    BY <1>3 DEF RunsAreWhole, Push, PushFails, LogsInv, BackupInv, TimesOK
  <2>2. snaps' \in {snaps, With(now, {}), With(now, staged)}
    BY <1>3 DEF Push, PushFails
  <2>. QED  BY <1>1, <1>2, <2>1, <2>2 DEF With, Whole
<1>4. CASE Purge
  <2>1. want # now
    BY <1>1, <1>4 DEF Purge, Succeeds, LogsInv, BackupInv, RunOK
  <2>. QED  BY <1>1, <1>2, <1>4, <2>1 DEF Purge, Restrict, Whole
<1>5. CASE Prune
  BY <1>1, <1>2, <1>5 DEF Prune, Restrict, Whole
<1>6. CASE UNCHANGED snaps
  BY <1>1, <1>2, <1>6 DEF Whole
<1>. QED
  BY <1>3, <1>4, <1>5, <1>6
     DEF Next, vars, StoreFile, CommitUpload, CommitDelete, Unlink, Snapshot, Check, SyncLogs,
         SyncLogsFails, KillSidecar, StartAsIs, StartRestore, StartFresh, Pull, Rename,
         PullLogs, Mark, CrashApp, LoseDisk, remote

\* Steps that do not move the start along.
LEMMA CourseOutsideStart ==
    ASSUME RestoreInv, [Next]_vars, UNCHANGED <<app, want, seen, db, files, pulled>>,
           clean' => clean, gone \subseteq gone'
    PROVE  RestoreOnCourse'
<1>. USE DEF RestoreInv
<1>1. Restoring' = Restoring /\ Rows' = Rows
  BY DEF Restoring, Rows
<1>2. Restoring /\ clean' /\ Succeeds(want)' =>
        Succeeds(want) /\ want \in Whole(snaps)' /\ snaps'[want] = seen[want]
  BY WantedStays
<1>. QED  BY <1>1, <1>2 DEF RestoreOnCourse, Restoring

LEMMA RestoreOnCourseNext ==
    ASSUME RestoreInv, [Next]_vars
    PROVE  RestoreOnCourse'
<1>. USE DEF RestoreInv
<1>1. CASE Snapshot \/ Push \/ PushFails \/ Check \/ Purge \/ SyncLogs \/ SyncLogsFails
             \/ Prune \/ KillSidecar \/ UNCHANGED vars
  <2>1. /\ UNCHANGED <<app, want, seen, db, files, pulled, gone>>
        /\ clean' => clean
    <3>1. CASE Snapshot \/ Push \/ PushFails \/ Check \/ Purge \/ SyncLogs \/ SyncLogsFails
                 \/ KillSidecar \/ UNCHANGED vars
      BY <3>1
         DEF Snapshot, Push, PushFails, Check, Purge, SyncLogs, SyncLogsFails, KillSidecar,
             vars, start, disk
    <3>2. CASE Prune
      BY <3>2 DEF Prune, disk
    <3>. QED  BY <1>1, <3>1, <3>2
  <2>. QED  BY <2>1, CourseOutsideStart
<1>2. CASE app = "up" /\ app' = "up"
  BY <1>2 DEF RestoreOnCourse, Restoring
<1>3. CASE CrashApp \/ LoseDisk
  BY <1>3 DEF RestoreOnCourse, Restoring, CrashApp, LoseDisk
<1>4. CASE StartAsIs \/ StartFresh \/ Mark
  BY <1>4 DEF RestoreOnCourse, Restoring, StartAsIs, StartFresh, Mark
<1>5. CASE StartRestore
  <2>1. /\ app' = "pull" /\ want' = Max(DOMAIN snaps) /\ seen' = snaps /\ DOMAIN snaps # {}
        /\ UNCHANGED <<snaps, job, now, done>>
    BY <1>5 DEF StartRestore, remote, sidecar
  <2>2. now \in Nat /\ DOMAIN snaps \in SUBSET (0..now)
    BY DEF LogsInv, BackupInv, TimesOK
  <2>3. Max(DOMAIN snaps) \in DOMAIN snaps /\ \A t \in DOMAIN snaps : t <= Max(DOMAIN snaps)
    BY <2>1, <2>2, NewestExists
  <2>4. ASSUME Succeeds(want)'
        PROVE  want' \in Whole(snaps)' /\ snaps'[want'] = seen'[want']
    <3>1. want' \in done \/ (want' = now /\ job \in {"check", "logs", "prune"})
      BY <2>1, <2>4 DEF Succeeds
    <3>2. snaps[want'] # {}
      BY <2>1, <2>3, <3>1 DEF RunsAreWhole, LogsInv, BackupInv, RunOK, Whole
    <3>. QED  BY <2>1, <2>3, <3>2 DEF Whole
  <2>. QED  BY <2>1, <2>3, <2>4 DEF RestoreOnCourse, Restoring
<1>6. CASE Pull
  <2>1. /\ app = "pull" /\ want' = want /\ seen' = seen
        /\ app' \in {"up", "rename"}
        /\ UNCHANGED <<snaps, job, now, done>>
    BY <1>6 DEF Pull, remote, sidecar
  <2>2. CASE clean'
    <3>1. clean
      BY <1>6, <2>2 DEF Pull
    <3>2. Succeeds(want)' =>
            Succeeds(want) /\ want \in Whole(snaps)' /\ snaps'[want] = seen[want]
      BY <2>1, <2>2, <3>1, WantedStays DEF Restoring
    <3>3. want \in Whole(snaps) => pulled' = {r.rows : r \in snaps[want]}
      BY <1>6, <2>2 DEF Pull
    <3>4. Succeeds(want)' => pulled' = {r.rows : r \in seen[want]}
      BY <2>1, <3>2, <3>3
    <3>. QED  BY <2>1, <3>1, <3>2, <3>4 DEF RestoreOnCourse, Restoring
  <2>3. CASE ~clean'
    BY <2>1, <2>3 DEF RestoreOnCourse, Restoring
  <2>. QED  BY <2>2, <2>3
<1>7. CASE Rename
  <2>1. /\ app = "rename" /\ app' = "logs" /\ want' = want /\ seen' = seen /\ clean' = clean
        /\ db' = pulled
        /\ UNCHANGED <<snaps, job, now, done>>
    BY <1>7 DEF Rename, remote, sidecar
  <2>2. clean /\ Succeeds(want)' =>
          Succeeds(want) /\ want \in Whole(snaps)' /\ snaps'[want] = seen[want]
    BY <2>1, WantedStays DEF Restoring
  <2>. QED  BY <2>1, <2>2 DEF RestoreOnCourse, Restoring
<1>8. CASE PullLogs
  <2>1. /\ app = "logs" /\ app' = "mark" /\ want' = want /\ seen' = seen
        /\ clean' => clean
        /\ db' = db /\ gone' = gone
        /\ clean' => files' = files \union remoteLogs
        /\ UNCHANGED <<snaps, job, now, done>>
    BY <1>8 DEF PullLogs, remote, sidecar
  <2>2. clean' /\ Succeeds(want)' =>
          Succeeds(want) /\ want \in Whole(snaps)' /\ snaps'[want] = seen[want]
    BY <2>1, WantedStays DEF Restoring
  <2>3. clean' => Rows' \subseteq files' \union gone'
    BY <2>1 DEF LogsInv, RowsAreKept, Kept, Rows
  <2>. QED  BY <2>1, <2>2, <2>3 DEF RestoreOnCourse, Restoring
<1>. QED
  BY <1>1, <1>2, <1>3, <1>4, <1>5, <1>6, <1>7, <1>8
     DEF Next, StoreFile, CommitUpload, CommitDelete, Unlink, start

LEMMA RestoreInvNext == RestoreInv /\ [Next]_vars => RestoreInv'
BY LogsInvNext, RunsAreWholeNext, RestoreOnCourseNext DEF RestoreInv

\* A start that restores without a failing call serves what the last backup saw,
\* with its logs, if that backup succeeded (restore_if_empty beside run_backup).
THEOREM RestoresTheLastBackup == Spec => RestoreIsTheLastBackup
<1>. DEFINE Comes == /\ app # "up" /\ app' = "up" /\ clean' /\ ~marker
                     /\ Max(DOMAIN seen \union {0}) \in done
            Right == /\ db' = {r.rows : r \in seen[Max(DOMAIN seen)]}
                     /\ UNION db' \subseteq files' \union gone
<1>1. RestoreInv /\ [Next]_vars => [Comes => Right]_vars
  <2>. SUFFICES ASSUME RestoreInv, Next, Comes
                PROVE  Right
    OBVIOUS
  <2>. USE DEF RestoreInv
  <2>1. /\ now \in Nat /\ DOMAIN seen \in SUBSET (0..now)
        /\ DOMAIN seen \union {0} \in SUBSET (0..now)
        /\ done \subseteq 1..now
    BY DEF LogsInv, BackupInv, TimesOK, RunsAreWhole
  <2>2. /\ Max(DOMAIN seen \union {0}) \in DOMAIN seen \union {0}
        /\ \A t \in DOMAIN seen : t <= Max(DOMAIN seen \union {0})
    BY <2>1, NewestExists
  <2>3. Max(DOMAIN seen \union {0}) \in DOMAIN seen
    BY <2>1, <2>2
  <2>4. Max(DOMAIN seen) \in DOMAIN seen /\ \A t \in DOMAIN seen : t <= Max(DOMAIN seen)
    BY <2>1, <2>3, NewestExists
  <2>5. Max(DOMAIN seen) \in done
    BY <2>1, <2>2, <2>3, <2>4
  <2>6. Restoring /\ clean => want = Max(DOMAIN seen) /\ Succeeds(want)
    BY <2>1, <2>4, <2>5 DEF RestoreOnCourse, Succeeds
  <2>7. app = "down" => ~clean
    BY DEF RestoreOnCourse
  <2>8. ~StartAsIs /\ ~StartFresh
    BY <2>7 DEF StartAsIs, StartFresh
  <2>9. ~Pull
    <3>. SUFFICES ASSUME Pull PROVE FALSE
      OBVIOUS
    <3>1. /\ app = "pull" /\ clean /\ pulled' = {}
          /\ want \in Whole(snaps) => pulled' = {r.rows : r \in snaps[want]}
      BY DEF Pull
    <3>2. want \in Whole(snaps)
      BY <2>6, <3>1 DEF RestoreOnCourse, Restoring
    <3>. QED  BY <3>1, <3>2 DEF Whole
  <2>10. Mark
    BY <2>8, <2>9
       DEF Next, StoreFile, CommitUpload, CommitDelete, Unlink, Snapshot, Push, PushFails,
           Check, Purge, SyncLogs, SyncLogsFails, Prune, KillSidecar, StartRestore, Rename,
           PullLogs, CrashApp, LoseDisk, start
  <2>11. app = "mark" /\ clean /\ db' = db /\ files' = files
    BY <2>10 DEF Mark
  <2>. QED  BY <2>6, <2>11 DEF RestoreOnCourse, Restoring, Rows
<1>. QED
  BY <1>1, RestoreInvInit, RestoreInvNext, PTL DEF Spec, RestoreIsTheLastBackup
=============================================================================
