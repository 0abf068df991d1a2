# NV Battle Reports in TLA+

Specifications, model-checking runs and machine-checked proofs of the backend of
NV Battle Reports (`src/app`): a FastAPI service that ingests EVE killmails and
combat logs, derives fights and timelines from them, and serves the result to a
browser. Every definition is translated from the source; the line ranges are in
`PROJECT.json` under `map`.

## The system

One worker process (`gunicorn -w 1`) runs one asyncio loop; a backup sidecar in a
second container shares its volume. All state is in SQLite (WAL mode), in files
beside it, and in module-level objects of the worker. That gives the two rules
every module here relies on:

* **Between two awaits a coroutine runs alone.** An action is a stretch of code
  without an await that matters, or one transaction.
* **SQLite has one writer.** With the sqlite3 driver's legacy transaction control
  a transaction begins at the first INSERT, UPDATE or DELETE. From there to its
  commit it runs alone (`busy_timeout` makes the others wait). What a handler
  SELECTs before its first write it reads *outside* the lock, and DDL before the
  first data change commits by itself. Handlers that read first are therefore two
  actions, with what they read kept in between.

### Inventory

| Component | State | Operations | What is hard | What makes it correct |
|---|---|---|---|---|
| Ingest scheduler (`ingest/jobs.py`) | `_ingest_lock`, `_ingest_running`, `_ingest_rerun`, live tasks | `schedule_ingest`, `_run_ingest_serialized`, `sweep_pending` | schedules, queued tasks, ends of runs and crashes interleave | one ingest at a time; a schedule is always followed by a run that starts after it |
| Ingest pipeline (`ingest/pipeline.py`) | `BattleReport.status`, source rows, killmail links, warning | `run_ingest`, some twelve transactions with network calls in between | edits and deletes of the report under it; sources that fail; errors while recording errors; crashes | no report stranded in a working status; a clean "ready" is complete; a deleted report leaves nothing |
| Report handlers (`api/brs.py`) | the same rows | create, add/delete source, refresh, delete | commit and schedule are two steps; `delete_br` reads before it locks | an edit takes effect; the cascade takes what is unused and nothing else |
| Fights (`fights/aggregate.py`) | `Fight`, `FightKill`, `BrFight`, rollups | `aggregate_br` | reports share fights; rowids are reused; refreshes merge fights | one fight per kill set, ids survive refreshes, the other report keeps its fights |
| Log association (`logs/associate.py`, `logs/ingest.py`, `api/logs.py`) | `GamelogFile`, `LogEvent.fight_id`, `LogEventBucket` | upload, delete, associate, supersede | logs and kills come in any order; several uploads of one client session | order does not matter; no event counts twice; buckets equal stamps |
| Side overrides (`api/sides.py`, `api/fleet.py`) | override rows | `set_override`, `set_participant_side` re-aggregate | they run between the steps of an ingest | fights and logs stay as they are |
| Clustering (`fights/cluster.py`) | none | `cluster_kills` | gaps and durations exactly at the limits, ties | the fights are the runs, capped |
| Derived read cache (`api/derived_cache.py`) | `_entries`, `_locks`, `_version` | `get`, `bump` | a computation overtaken by a bump; eviction of a key that is being computed | nothing stale is served as fresh |
| Off-BR cache (`fights/offbr_cache.py`) | `_store`, `_locks` | `get`, `invalidate`, `clear` | a computation overtaken by an invalidation | staleness is bounded by the TTL |
| Migrations (`db/migrate.py`, `db/engine.py`) | the schema, `user_version`, `<db>.pre-v<n>` | `init_models`, `run_migrations`, `snapshot_before_migrate` | a crash at any statement, when some have committed; later code; rollback | whatever happened, what is served is current |
| Backup (`backup.py`, `scripts/backup-loop.sh`) | the remote, the staging file, the marker | `run_backup`, `prune`, `restore_if_empty` | every remote call fails half way; the application writes meanwhile | the last good snapshot stays, with its logs, and is what a restore brings back |
| Log file store (`logs/store.py`) | content-addressed files | `store_gamelog`, unlink | file and row are two steps | every row has its file |
| Fleet broadcasts (`logs/broadcast_*.py`, `api/broadcasts.py`) | `BroadcastFile`, `Broadcast` rows, their dates and stamps | upload, associate, supersede, delete, reparse | two versions of one export; times without dates; the file goes in one step and the row in another | the fullest file of a report speaks; rows have files; dates are right |
| Reparse tools (`logs/reparse.py`, `logs/broadcast_reparse.py`, `analytics/recompute.py`) | the same rows | reparse all, recompute | one file at a time beside uploads and deletes; old and new counts mixed | the result is that of a new upload |
| Upstreams (`esi/client.py`, `ingest/sources`, `ingest/persist.py`, `tickers.py`, `zkb_value.py`) | killmail and entity rows, a file cache, a name cache | window search, killmails, names, tickers, values | retries inside retries; one unknown id of a thousand; a torn cache file | what is found is whole; refreshes complete the report |
| After-action reports (`api/aar.py`) | `Aar`, `AarComment`, `AarReaction` | put, delete, comment, edit, react | every handler reads before it locks; SQLite gives ids out again | a panel shows what was written for it; only races fail |
| Sides and outcome (`analytics/sides_config.py`, `fights/classified.py`, `fights/outcomes.py`, `analytics/composition.py`, `fights/timeline_rows.py`) | overrides, rollups, headline | classify, aggregate, five views | an override beside an ingest; each view has its own fold | stored and computed figures agree with the overrides in force |
| Log analytics (`analytics/fleet.py`, `timeline.py`, `ewar.py`) | `dedupe_suppressed` | snapshot, timelines, leaders, summaries | an act in several logs, with skewed clocks and missing names | every act counts once |
| Worker (`main.py`) | the process | restore, migrate, sweep, serve, stop | a stop at any point; other code or an older database at the next start | it comes back, on a database of its schema |
| Roster (`roster/snapshot.py`) | the snapshot and its expiry | `get`, refresh | a failing source, requests that hold the old one | old data is served only while the source fails |
| Discord (`services/discord.py`, `br_discord.py`) | thread id of a report | announce, update, remove | a timed-out post may have been made; the report is deleted meanwhile | at most one thread per report |
| Parsers, schemas, access, SDE, frontend, deployment | none, or replaced as a whole | | little that interleaves | out of scope but for what a log line records |

How they interact: a handler commits an edit, then calls `schedule_ingest`; the
scheduler runs the pipeline, which resolves sources, stores killmails and links,
aggregates fights and associates logs in one transaction, then invalidates the
off-BR cache and bumps the derived cache. Log uploads and overrides write the same
fights, stamps and buckets as the ingest, without going through the scheduler.
The backup sidecar and the application share the volume and nothing else.

## Modules

| Module | Models | Correspondence |
|---|---|---|
| `IngestQueue` | the promise of the scheduler | `want`: scheduled and not yet begun; `active`: the ingest in progress |
| `IngestJobs` | `ingest/jobs.py` | `lock` and `waiters` are the asyncio lock (fair: the waiter at the head is woken and nobody passes it), `running` and `rerun` the module sets, `task` each report's task. `RunEnd` is the `finally` clause with the re-run; `Restart` is `sweep_pending` on the next start. `dirty` is history |
| `IngestPipeline` | `run_ingest` and the handlers | EXTENDS `IngestJobs`: one action per transaction, the locals of the run in `job`, the position in `job.at`; `due` are handlers between their commit and their `schedule_ingest` |
| `FightStore` | fights, stamps, buckets | each transaction from its first write to its commit is one action on the record of rows (`Commit`); `ingest.prev`, `deleting` and `dropping` hold what was read before the lock. The loops of `aggregate_br` over clusters (`PersistClusters`, `FightsOf`) and of the association over files (`AssociateFiles`) are stated by what they leave; clusters that start together may be numbered in either order, and `AssociationOrderFree` is why the order of the files may be left out |
| `Clustering` | `cluster_kills` | the algorithm with its tie-breaks; a piece of the sorted list is the set of its kills, `Before` their order. A chain is what lies between two `Openings` |
| `FightGrowth` | a report whose killmails become known one by one | `fights` is recomputed by `Clustering` at each refresh |
| `BattleStats` | sides, rollups, headline and the views over them | EXTENDS `FightGrowth`: `IngestRead` is the resolver that `aggregate_br` loads before its first write, `IngestWrite` the rest; the stored figures are variables, the views computed on demand are operators |
| `LogViews` | tackle dedupe, and the views of tackle and remote assistance | a history of acts is chosen at the start; each log tells of it what its client wrote, by its own clock. `files` and `fights` are in the order of their ids, `suppressed` is `dedupe_suppressed`; stamps follow from the files and fights (a row goes to the fight of the lowest id whose window it is in), which is what `FightStore` shows of them |
| `DerivedCache` | `api/derived_cache.py` | per-key locks are identities, so that an evicted lock that is still held differs from the new one; a value is the newest commit it reflects |
| `OffBrCache` | `fights/offbr_cache.py` | the same for `invalidate` and `clear` |
| `ReadPath` | requests through both caches | EXTENDS `DerivedCache`, instantiates `OffBrCache`: a computation of the one waits for the lock of the other; writers commit, bump and invalidate in the order of their handlers |
| `Migrations` | startup of the database | `disk` is what is committed, `work` what the startup connection sees, `open` whether its transaction has begun; one action per statement |
| `Worker` | `lifespan` of `main.py` | EXTENDS `IngestJobs` and `Migrations`: ingests run between a startup and the next stop |
| `UploadStore` | stored files, gamelog and broadcast rows | `disk` is the directory, which is in no transaction; `req` holds what a handler read or stored before it locked; `excused` is history |
| `AarPanel` | `api/aar.py` | each handler is a reading and a committing action; ids are reused as SQLite does, `n` numbers rows once and for all |
| `Upstream` | searches, fetches and upserts of a refresh | `at` is the phase, `fetch` each killmail's task, `batches` the chunks of names, `file` the disk cache; faults are answers, bounded in number |
| `Backup` | sidecar, remote, application start | a snapshot is the set of logs its database has rows for; a directory without `app.db` is an empty set |
| `IngestProofs`, `FightStoreProofs`, `BattleStatsProofs`, `LogViewsProofs`, `ReadPathProofs`, `BackupProofs`, `UploadStoreProofs`, `AarPanelProofs` | theorems and proofs | each EXTENDS the module it is named after; `IngestProofs` is about `IngestJobs`, `IngestPipeline`, `Worker` and `Upstream` together, since the pipeline and the worker run under the scheduler |
| `MC...` | instances for TLC | model values, small tables, symmetry |

`IngestJobs` implements `IngestQueue`. `IngestPipeline` composes the scheduler with
the pipeline and the handlers, `Worker` the scheduler with the startup, `ReadPath`
the two caches with their writers, `BattleStats` the clustering with what is counted
over it. Definitions with the comment "Mutant" are faults a change of the code could
introduce; each property is known to be violated by one of them.

## Runs

| Run | Bounds | Shows |
|---|---|---|
| `MCWorker` | three reports; three versions of the code, three tables, four columns, one data migration; 3 stops, 1 rollback (so that two versions can create a database and a third snapshot it) | `IngestsMeetTheirSchema`, `SnapshotsCanBeRestored`, `DataMigratesOnce`, `WorkerReturns`; `ImplementsQueue`, `EveryScheduleServed` of the scheduler inside it. Three reports are one running, one waiting and one more to overtake it; three stops are two attempts and a later version |
| `MCIngestPipeline` | one report, a link and a window whose killmails overlap, 3 edits, 1 crash | `UnfinishedIsOwned` (the sweep finds what a crash leaves), `CleanReadyIsComplete`, `DeletedLeavesNothing`, `AddedSourceIsTried`, `EveryReportSettles`. Three edits are a create and two more, at any point of any run. Reports meet only in the scheduler, which has its own run |
| `MCFightReports` | two reports, two kills that merge or not, one log | two reports that share a fight: `ForeignKeysHold`, `NoTwinFights`, `RefreshKeepsFights`, with reads and writes of handlers interleaved; all three are proved for any number of each |
| `MCFightLogs` | one report, three kills (the middle one joins the others), two uploads of a growing log | `StampsNameTheOwner`, `StoredEventsCountOnce`, `IngestConverges`, `SessionConverges`: order does not matter, of reparses neither (the copy of an event that counts may be in any upload of its client log); all four are proved for any files and fights |
| `MCReadPath` | two requests, two derived keys, room for one entry in each cache, one write of each kind | `FreshEntriesSeeBumps`, `AnswersSeeBumps` and `OnlyOverlapsTurnStale` (all three proved for any number of each), `RequestsGetThrough`, `AnswersCatchUp`. Two requests of one key, or one of two keys beside the sides list, are what the locks and the eviction distinguish |
| `MCBattleStats` | four kills in two systems, all placements in 0..10, window 4, cap 5; scenes of two kills with two pilots, a structure and one override; 1 edit | `FightsAreTheRuns` (against a definition without the algorithm), `NewKillsOnlyMerge`; `HeadlineFollowsSides`, `ReadersAgree`, `RollupsFollowSides`; all five are proved for any kills, times, casts, overrides and edits. Window and cap are such that gaps equal to the window, spans equal to the cap, ties and runs that need a second cut all occur; one edit is enough to come between the two halves of an ingest |
| `MCLogViews` | three pilots, five logs (a session uploaded twice, a later one, two of others), two fights with overlapping windows, clocks two seconds apart, one terse client | `TacklesCountOnce`, `AssistsCountOnce` (both proved for any pilots, logs, fights and histories), for every order of uploads, deletes and fights. Tackles 8 s apart with one clock 2 s ahead are inside the reach of the 5 s window and must stay two |
| `MCUploads` | two reports, one gamelog, two versions of a broadcast export across midnight, two requests, two parsers of which the second finds one line more in each | `RowsKeepTheirFiles`, `OneFileSpeaks`, `DatesAreTrue`. A file is lost by two requests, or not at all |
| `MCAarPanel` | two reports, a member and an FC, two requests, four rows | `PanelsShowTheirOwn`, `OnlyRacesFail`. Four rows are a panel, a comment, a reaction and the one that gets a number again |
| `MCUpstream` | a window of two hours and a killmail past its end, four ids of which one is unknown, batches of three, two attempts, 3 faults, 1 crash | `BlipsLeaveNoHole` (proved for any window, faults and attempts), `EverythingArrives`. Three faults exhaust the attempts of one request and leave one for another |
| `MCBackup` | two logs, `backup_keep` 1, three runs, three faults | `LastBackupStays`, `BackupsCarryTheirLogs`, `RestoreIsTheLastBackup`. With one snapshot kept every mistake of the pruning costs the last one |
| `MCBackupFresh` | as `MCBackup` | a disagreement, below |

`CHECK_DEADLOCK FALSE` is set where the bounds end all activity (edits, kills, rows,
crashes, runs of the sidecar); the other modules have handlers that can always run
again.

Properties that rest on a condition of the data say so in a conjunct of their own:
`ReadersAgree` on pilots who stay in their corporation, `TacklesCountOnce` on
tackles that clocks do not blur (`ClocksAgree`, `Apart`) nor spread over two fights
(`OneFightEach`) and clients that name pilots, `AssistsCountOnce` on
pilots whose own logs tell everything or nothing, `DatesAreTrue` on exports whose
lines are less than a day apart, whose report is less than half a day from their
newest line, and in which both versions of the parser find the newest line on the
same day (`UploadAssumption`: `reparse_broadcasts` keeps the anchor that the old
parser found, so a line newly found past midnight would shift all dates by a day).
Of these conditions TLC refutes the counterparts `EdgesCountOnce` (fights' edges),
`GraphAgrees` (names) and `IncompleteLogsFilled` (complete logs), listed below. That
two tackles of one pair within `BUCKET_SECONDS` of each other are one is not a fault
but what the window means.

### Fairness

* `IngestPipeline`, `Worker`: the loop runs whatever task is ready, and each await
  of a run ends (HTTP timeouts, `busy_timeout`); the container is restarted until
  its startup goes through (`restart: unless-stopped`). Nothing says that a user
  edits, that a source answers or that a run succeeds. A run that fails settles
  too. Stops are bounded.
* `ReadPath`: a handler that has committed goes on to its bump; time passes, so
  entries expire; a computation is a bounded list of queries that ends or raises;
  `asyncio.Lock` serves its waiters in order, so that a request that can go on again
  and again does (strong fairness of `Proceed`).
* `Upstream`: the loop runs the refresh, upstreams answer once their faults are
  spent, and someone refreshes a report again, as its warning asks.

## Proofs

TLAPS checks these for all values of the constants.

* `IngestProofs`, the scheduler. The invariant `JobsInv` is the type invariant with
  `OneIngestAtATime`, `BookkeepingExact` (a report is in `_ingest_running` exactly
  when its task lives, and flagged only then), `QueueExact` (`waiters` lists the
  waiting tasks, each once, and only while the lock is held), `NoLostSchedule` and
  `DownIsEmpty`. None is inductive alone: that at most one task runs needs the lock
  to be held by a running task; that passing the lock on keeps this needs the head
  of the queue to be waiting and to be there once; that no schedule is lost needs
  every report of `_ingest_running` to have a task. Assumption: `NoBr` is not a
  report. Theorems: `JobsSafety`, `MutualExclusion`, `SchedulesAreKept`, and
  `Refinement`, by which every step of the scheduler is a step of `IngestQueue` or
  a stutter.
* `ReadPathProofs`. `CacheInv` adds to the types that versions never run ahead,
  that a value computed under the present version is no older than the last bump,
  and that a request that computes does so from no older data than was bumped when
  it came in. The argument: a bump moves the version, so whatever it overtakes
  carries an old one. Theorems: `FreshEntries` and `FreshAnswers` of the cache
  alone; `ReadsSeeFreshEntries` and `ReadsSeeBumps` of the requests that go through
  both caches, whose steps are steps of the derived cache, leave it alone, abandon a
  computation that the participants cache failed, or replace the roster; and
  `OverlapsAlone`, that only the store of an overtaken computation makes served
  participants stale (`OnlyOverlapsTurnStale`): every other step that moves what
  invalidations cover empties the entry, too. For any number of requests, keys,
  entries and writes.
* `BackupProofs`. `BackupInv`: snapshots are no newer than the present run, a run
  that is past its check has a whole snapshot, and the newest successful one is
  whole. Prune keeps the newest `backup_keep` directories and runs only when the
  present one is whole, so the present one stays; failing runs never prune.
  Assumption: `backup_keep` is at least 1 (with 0 the claim is false). Theorem:
  `TheLastBackupStays`, for any number of runs and faults. `LogsInv` follows a row
  wherever it gets to (the database, a staged copy, a pushed snapshot, a pulled one)
  and says that the file of its log is in the directory, on the remote, or given up
  by a delete: with it `BackupsAreComplete`. `RestoreInv` follows a restore that no
  failing call has disturbed from the snapshot it chose to the marker it writes:
  what it serves at each step is what the run saw, provided that the run succeeds
  (`RestoresTheLastBackup`, an action property; a run may push its snapshot while
  the restore is at it and succeed later, hence `Succeeds`).
* `IngestProofs`, the pipeline. `PipelineInv` is `JobsInv`, the types, the four invariants
  of the run and what makes them inductive: a run that is over has left its report
  finished, or a schedule, a re-run or an unrecorded error answers for it
  (`EndedIsOwned`); no run works on a report still marked ready (`WorkIsMarked`);
  what a resolved source found is carried from each phase to the next, through the
  references, the fetched, the linked and the clustered killmails, or a warning is
  set (`ResolvedIsCarried`); a pending source is in the run's list, or the run has
  yet to read it, or another run follows (`PendingIsAwaited`). Since one run at a
  time holds the lock, a step of the run of one report need only be shown to keep
  the part of these about that report (`RunInv`), and edits and deletes the part
  about theirs. Assumption: finitely many killmails, so that comparing counts of
  fetched and wanted compares the sets. Theorems: `NobodyIsStranded`,
  `CleanMeansComplete`, `DeletedStaysDeleted`, `NoSourceIsForgotten`, for any number
  of reports, sources, edits and crashes; and `PipelineUsesTheScheduler`, by which
  all that is proved of the scheduler holds of the pipeline.
* `IngestProofs`, the worker. `MigrationsInv` describes the database after any prefix of any
  number of startups: without a version it has the columns of the code that began
  it for the tables that are there; with one, all that this version needs, and each
  change of data up to it unless it was created with it (`WellFormed`). Snapshots are
  such databases; the startup transaction is one up to the migration it has reached
  (`MigratedSoFar`). With `JobsInv` this is `WorkerInv`: ingests run only while
  serving, so `IngestsMeetASchema`, `SnapshotsAreGood`, `DataIsMigratedOnce`, and
  `WorkerRefinement`: the scheduler in a worker that stops, upgrades and rolls back
  still implements `IngestQueue`. No assumption beyond well-typed constants.
* `IngestProofs`, the upstreams. `RefreshInv`: the search has found what is listed
  under the hours it has asked for (`SearchedSoFar`), every attempt that counts
  against a killmail is a fault of this refresh (`TriesAreFaults`), and a killmail is
  given up for a torn file or after all the attempts of one kind (`SkippedForCause`);
  an attempt that resets the other counter only helps. Assumption
  (`UpstreamAssumption`): finitely many killmails and entities, and windows no longer
  than `MAX_WINDOW_HOURS`. Theorem: `RefreshesLeaveNoHole` (`BlipsLeaveNoHole`).
* `FightStoreProofs`. `FightInv`: the rows of a report's fights are there and are
  numbered from 1, no kill set has two (`NoTwinFights`), what a report or a fight
  refers to is there (`ForeignKeysHold`), and the rows of the logs fit those of the
  fights (`LogRows`): a stamp is of a stored file that no fuller one beats and names
  the lowest fight whose window holds the event (`StampsOK`), the buckets of stored
  files are their stamps (`BucketsExact`), and buckets left behind by a file that has
  gone lie in the window of a live fight and belong to a file that would be its
  session's fullest if it came back (`BucketsLive`). The last is what makes the rest
  inductive: such buckets are stale, so the association of a returning file has to
  reach each of them, and does because their fights overlap its span. New fights get
  higher numbers than the old ones, so they take no event from them; a cluster whose
  kill set has a fight gets that one, so it keeps its number; coverage is a total
  order, so one upload of a session is unbeaten. Assumption
  (`FightStoreAssumption`): finitely many killmails, the clusters of a set of kills
  are made of exactly these kills, files are not empty, and the uploads of one client
  log are of one character and begin at the same line. Theorems: `FightSafety`,
  `KeysHold`, `FightsAreSingle`, `StampsAreOwners`, `BucketsAreStamps`, and of
  actions `RefreshesKeepFights`, `IngestsConverge`, `SessionsConverge`. `OrderIsFree`
  shows `AssociationOrderFree`, from which the model takes its leave to associate all
  files of a report at once: any one of them may go first.
* `UploadStoreProofs`. `UploadInv`: rows carry the instants some version of the
  parser finds and the date of their newest line; flags are those that supersession
  would set now; the content of an upload under way is stored or excused. The dates
  are a fact about arithmetic, proved for logs of any length: two lines less than a
  day apart are of one date or of two in a row, and their times of day tell which
  (`DatesInARow`), the candidate nearest to the battle's end is the date of the
  newest line (`AnchorIsTheDate`), and counting midnights downwards gives the others
  (`LogIsDatedRight`, by least counterexample). That one file speaks comes of
  `_canonical_key` being a total order with a greatest element (`OneBeatsAll`, from
  `GreatestExists`). Assumption: `UploadAssumption`. Theorems: `RowsKeepFiles`,
  `DatesAreTheTrueOnes`, `OneFileSpeaksAlone`.
* `LogViewsProofs`. `ViewsInv`: files and fights have one id each, and every stamped
  row carries the flag that the tackle pass would give it now (`ViewsSafety`). A step
  keeps it because the pass is a function of the rows stamped with one fight, and
  the fights it leaves out have the rows they had. From it, `TacklesAreCountedOnce`:
  the cluster of a tackle is opened by its first row, which no other tackle of the pair
  can reach (`ClusterOpensWithFirst`), so clusters are tackles (`ClustersAreActs`), and
  `Better` is a total order on the rows of one, of which the best is kept
  (`OneIsKept`). `AssistsAreCountedOnce`: among the logs of a pilot that are not
  superseded only one covers an act (`OneLogOfAPilot`), so an end has one row, and
  every view shows a pilot's own rows or the mirrors (`OwnOrMirrors`). Assumption:
  `LogViewsAssumption`: uploads of a session are growing prefixes of each other, and
  a character is logged in with one client at a time.
* `BattleStatsProofs`. First the algorithm. Two kills of a system have the same
  openings behind them exactly if no gap between them exceeds the window
  (`LinkedUpwards`, `ChainsAreRuns`), so that chains are runs. A piece longer than
  the cap has an inner kill whose gap wins (`SplitKillExists`), the parts on both
  sides of it are smaller, pieces of disjoint stretches of time join to such pieces
  (`PiecesJoin`), and so every run falls into pieces within the cap (`SplitCuts`). The
  library's induction is out of reach; what replaces it is that among the bad subsets
  of a finite set one would be minimal (`MinimalSubset`), both for the recursion of
  `SplitOnMaxDuration` to be defined (`SplitsExist`, `SplitIsRecursive`) and for what
  it yields. `FightsPartition` sums this up, and `ClustersAreAsAssumed` says that
  `cluster_kills` gives what `FightStoreAssumption` asks of the clusters there. A new
  kill leaves the links between the old ones (`LinksGrow`), so fights within the cap
  only merge.
  Then the figures. `StatsInv`: `fights` are the clusters of `known`, and the headline
  is what `RecomputeBrOutcome` makes of the overrides in force. Since the fights
  partition the kills, a sum over fights is the sum over kills (`TotalOverParts`, by a
  bijection of units), and everyone is on one of three sides (`CharacterIsSide`), which
  gives the headline (`HeadlineOfKills`). Readers decide by different rows of a pilot;
  all have one side if the pilot stays in one corporation (`OneSideEach`).
  Assumptions: finitely many killmails (`FightGrowthAssumption`), whose rows name
  pilots and groups that may be overridden (`BattleStatsAssumption`). Theorems:
  `FightsStayRuns`, `GrowthMergesFights`, `HeadlineFollows`, `ReadersStayAgreed`,
  `RollupsStayCurrent`, `ClustersAreAsAssumed`.
* `AarPanelProofs`. `PanelInv`: a comment or reaction belongs to a row that is there,
  and to the one it was written for unless that is among the raced; what a request
  has read is still there, or raced; `br_id` is unique. Numbers given once and for
  all tell a row from its successor under the same id. Theorems:
  `PanelsShowWhatIsTheirs`, `FailuresAreRaces`. No assumption on the number of rows.

The proofs changed the models where TLC's bounds had been too small to see. With a
database that two versions created and a third met, a snapshot is not fit for its own
version, so `SnapshotsCanBeRestored` excuses such databases. With two more rows, a
reaction to a comment that had come under another report's panel survives that
panel's removal and shows under the next comment of its id, so that `raced` counts
such comments (both are under "Seen on the way"). `FightStore`,
`Clustering` and the sums of `BattleStats` were restated without recursive operators
and folds, which keeps their state spaces (TLC finds the same states); in `FightStore`
it drops an order that no code fixes between clusters that start together. And of
two uploads of a session that hold the same events only one is stamped, so
`IngestConverges` and `SessionConverges` ask that an event be stamped in some upload
of its session.

Model-checked only: liveness (`EveryScheduleServed`, `WorkerReturns`,
`EveryReportSettles`, `RequestsGetThrough`, `AnswersCatchUp`, `EverythingArrives`:
fairness and ENABLED are beyond the prover). Every safety property that a run checks
is also the statement of a theorem.

## Where code and documentation disagree

With a run that exhibits it:

* `MCBackupFresh`. Only the newest directory on the remote is tried
  (`backup.py:313`). If it has no `app.db`, the restore gives up, the application
  makes a new database, and the next start finds nothing to restore.

Stated in the modules (last section of each) and found violated by TLC when named
in a configuration, without a run of their own:

| Definition | Disagreement |
|---|---|
| `IngestJobs!NoDuplicatedRun` | a schedule while the task still waits for the lock flags a second, superfluous run (`jobs.py:48`: "no lost or duplicated runs") |
| `IngestPipeline!RemovedSourceStaysRemoved` | deleting the last source of a report made from a link leaves no source row; the refresh that this triggers recreates it from `source_url` (`brs.py:421`, `pipeline.py:66`) |
| `IngestPipeline!EveryErrorIsRecorded` | when the update to "error" fails too, the report stays in a working status until a restart (`pipeline.py:41`) |
| `IngestPipeline!AddedSourceIsAlwaysTried` | a crash between the commit of an added source and its run loses the refresh (`brs.py:396`) |
| `FightStore!NoOrphanFight` | `delete_br` reads the fights of the report before its first write; an ingest that commits in between adds one that stays (`brs.py:473`, `brs.py:493`) |
| `FightStore!BucketsMatchStamps` | `delete_gamelog_file` reads the fights of a file before it locks; events stamped in between stay summed (`associate.py:13`) |
| `FightStore!OverrideKeepsLogs` | an override between link and aggregation of an ingest rebuilds fights without associating the logs (`sides.py:87`) |
| `DerivedCache!OneComputationPerKey` | an eviction pops a lock that is held; with three requests two compute one key (`derived_cache.py:56`) |
| `OffBrCache!InvalidatedIsGone` | a value computed before an invalidation is stored after it (`offbr_cache.py:10`) |
| `ReadPath!CompositionsSeeBumps` | overrides are read before the cache takes its version, so a composition of old sides is cached as fresh (`derived_cache.py` docstring, `api/fleet.py:378`) |
| `BattleStats!HullsCountOnce` | a pilot who is on a killmail in a hull and then loses it counts it twice (`classified.py:50`, `classified.py:78`) |
| `LogViews!GraphAgrees` | a tackle whose other end a client named by its hull is drawn and not listed (`analytics/fleet.py:1243`) |
| `LogViews!EdgesCountOnce` | a tackle that two clocks put on both sides of a fight's edge is stamped with two fights and kept in both, since the pass goes fight by fight (`associate.py:226`, `analytics/fleet.py:1242`) |
| `LogViews!IncompleteLogsFilled` | one own row of a direction hides all that the other logs know of the rest (`timeline.py:32`, `timeline.py:177`) |
| `LogViews!WindowsAddUp` | a repair whose two clocks fall on both sides of a window's end is in both snapshots |
| `UploadStore!StampsNameAFight` | a refresh rebuilds fights and leaves the stamps of broadcasts (`models.py`, `Broadcast.fight_id`) |
| `AarPanel!AuthorsWriteTheirComments` | an edit that checked the author of a comment writes to the next comment that gets its number (`aar.py:288`) |
| `Upstream!RefreshesFillHoles` | a cache file torn by a crash makes every later read of that killmail fail (`client.py:104`, `pipeline.py` warning) |
| `Migrations!AbortedStartupLeavesNothing` | DDL before the first data change commits by itself (`migrate.py:10`) |
| `Migrations!SnapshotsPredateMigrations` | the restart overwrites the snapshot with the half-migrated database (`migrate.py:14`) |
| `Migrations!FreshIsCurrent` | a first startup that died before `battle_report` was made is taken for a fresh database by later code (`migrate.py:112`) |
| `Backup!PartialNeverCounts` | a purge that fails, or a dead run, leaves a directory that the next prune counts (`backup.py:185`) |
| `Backup!SnapshotsCarryTheirLogs` | a run that ends between push and log sync leaves a snapshot without its newest logs (`README.md:327`) |
| `Backup!NoBackupOfNothing` | `sqlite3.connect` creates a missing database, whose empty copy is a successful backup (`backup.py:12`) |

Seen on the way, without a definition: the database of `Migrations!FreshIsCurrent`,
which two versions of the code created, is snapshotted by the next version under the
name of one that cannot serve it (`migrate.py:126`); a comment posted while its panel
was removed comes under the panel that gets the id, and when that one is removed too,
the reactions it got from its own report's next panel outlive it (`aar.py:218`
deletes by `aar_id`, and theirs is another); the row of a tackle that is kept, and with it
its direction in the timeline, depends on the order of uploads (the tie is broken by
`event_id`); `enrich_br_rows` credits a fight shared by two listed reports to the
last of them only (`timeline_rows.py:126`); a failure of `reparse_gamelogs` after its
delete commits a file without events (`reparse.py:65`, 98-100); two first saves of
one after-action report are a 500 for the second.

## Not modelled, and abstractions

* Text, names as text, regular expressions and JSON shapes. What a log line records
  (direction, named or not, whose authority, its second) is kept; how it is spelt is
  not. Damage, neutralisers and jams are plain sums of the buckets of `FightStore`.
* A killmail, a source, a log is a model value or a number; amounts are hits or
  small integers. Logs of unresolved characters are left out.
* `LogViews` assumes that a session's uploads are growing prefixes of each other, as
  `associate.py` says, and leaves reparses out: they insert the same rows again in
  the order of the files.
* The metrics of `analytics/broadcasts.py` (counts and reaction times over what
  `OneFileSpeaks` says is shown), request and response schemas, the Discord
  announcements, the roster's fetch, weapons and hull names of the composition.
* Network: a call answers, fails, limits or refuses; error-budget headers are not
  visible. The other link formats fail or answer as a whole (`IngestPipeline`).
* Process deaths are steps between any two actions, of files also inside a write.
  SQLite itself is trusted: commits are atomic and durable.
* The components listed as `not_modelled` in `PROJECT.json`, each with its reason.

## Plan

1. *Done*: scheduler with its refinement, worker, pipeline, fights and logs with
   reparse, clustering, sides and outcome, both caches and the reads through them,
   migrations, backup, uploads and broadcasts, after-action reports, upstreams, views
   of logs; proofs of every safety property of these.
2. `Announce` (Discord posts that may have been made) and the duplicate check of
   `create_br`; a failure inside the per-file guards of reparse and association.
