--------------------------- MODULE IngestPipeline ---------------------------
(***************************************************************************)
(* run_ingest (src/app/ingest/pipeline.py) under the scheduler of          *)
(* IngestJobs, with the handlers of src/app/api/brs.py that edit the       *)
(* report it works on.  One action per SQLite transaction of the pipeline  *)
(* and per stretch of a handler between two awaits; the commit of a        *)
(* handler and its call of schedule_ingest are two steps, with other tasks *)
(* and a crash possible in between.                                        *)
(*                                                                         *)
(* Data: a source stands for its content and yields the killmails          *)
(* RefsOf[s] whenever it answers.  Titles, names, tickers and ISK values   *)
(* are left out: the steps that fill them (phases 3.5) are best effort,    *)
(* touch nothing below and cannot fail an ingest.                          *)
(***************************************************************************)
EXTENDS IngestJobs, FiniteSets

CONSTANTS
    SRC,          \* sources a report can have
    Links,        \* those that are links; the others are time windows
    NoUrl,        \* the "multi-source:<br_id>" sentinel: no link to fall back on
    KM,           \* killmails
    RefsOf,       \* the killmails each source lists
    MaxEdits,     \* bound: handler calls that change a report
    MaxCrashes    \* bound: crashes of the worker

ASSUME PipelineAssumption ==
    /\ Links \subseteq SRC /\ NoUrl \notin SRC
    /\ RefsOf \in [SRC -> SUBSET KM] /\ IsFiniteSet(KM)
    /\ MaxEdits \in Nat /\ MaxCrashes \in Nat

VARIABLES
    status,      \* BattleReport.status, or "new" / "deleted" without a row
    url,         \* BattleReport.source_url: the first link, or NoUrl
    source,      \* BrSource rows: their status, "none" without a row
    warning,     \* BattleReport.warning_text is set
    linked,      \* BrKillmail rows
    clustered,   \* the killmails the report's fights were last built from
    job,         \* the locals of the run in progress
    due,         \* handlers that committed an edit and have yet to schedule
    unrecorded,  \* history: reports whose error could not be written
    edits, crashes

dbVars == <<status, url, source, warning, linked, clustered>>
boundVars == <<edits, crashes>>
pipelineVars == <<jobsVars, dbVars, job, due, unrecorded, boundVars>>

\* Mutant: the sweep's list forgets the last phase.
NonTerminalShort == {"pending", "resolving", "enriching", "persisting"}

\* _NON_TERMINAL of jobs.py.
NonTerminal == {"pending", "resolving", "enriching", "persisting", "clustering"}
Finished == {"new", "ready", "error", "deleted"}
Status == Finished \union
          {"pending", "resolving", "enriching", "persisting", "clustering"}
RowStatus == {"none", "pending", "ok", "error"}
Step == {"begin", "mark", "load", "sources", "enrich", "fetch",
         "persist", "link", "cluster", "aggregate", "ready", "fail", "end"}

Exists(b) == status[b] \notin {"new", "deleted"}
Rows(b) == {s \in SRC : source[b][s] # "none"}
Swept == {b \in BR : status[b] \in NonTerminal}

FreshJob == [at |-> "begin", todo |-> {}, refs |-> {}, anyOk |-> FALSE, got |-> {}]
Goto(step) == [job EXCEPT !.at = step]

PipelineInit ==
    /\ JobsInit
    /\ status = [b \in BR |-> "new"]
    /\ url = [b \in BR |-> NoUrl]
    /\ source = [b \in BR |-> [s \in SRC |-> "none"]]
    /\ warning = [b \in BR |-> FALSE]
    /\ linked = [b \in BR |-> {}]
    /\ clustered = [b \in BR |-> {}]
    /\ job = FreshJob
    /\ due = [b \in BR |-> 0]
    /\ unrecorded = {}
    /\ edits = 0 /\ crashes = 0

-----------------------------------------------------------------------------
(* The handlers.  Each edits the report in one transaction; the schedule   *)
(* comes when the coroutine resumes from its commit.                       *)

Edit(b) ==
    /\ up
    /\ edits < MaxEdits
    /\ edits' = edits + 1
    /\ due' = [due EXCEPT ![b] = @ + 1]
    /\ UNCHANGED <<jobsVars, job, unrecorded, crashes>>

CreateBr(b) ==
    /\ status[b] = "new"
    /\ \E S \in (SUBSET SRC) \ {{}} :
         /\ source' = [source EXCEPT ![b] =
                         [s \in SRC |-> IF s \in S THEN "pending" ELSE "none"]]
         /\ url' = [url EXCEPT ![b] = IF S \cap Links = {} THEN NoUrl
                                       ELSE CHOOSE s \in S \cap Links : TRUE]
    /\ status' = [status EXCEPT ![b] = "pending"]
    /\ Edit(b)
    /\ UNCHANGED <<warning, linked, clustered>>

AddBrSource(b, s) ==
    /\ Exists(b)
    /\ source[b][s] = "none"
    /\ source' = [source EXCEPT ![b][s] = "pending"]
    /\ Edit(b)
    /\ UNCHANGED <<status, url, warning, linked, clustered>>

DeleteBrSource(b, s) ==
    /\ Exists(b)
    /\ source[b][s] # "none"
    /\ source' = [source EXCEPT ![b][s] = "none"]
    /\ Edit(b)
    /\ UNCHANGED <<status, url, warning, linked, clustered>>

RefreshBr(b) ==
    /\ Exists(b)
    /\ Edit(b)
    /\ UNCHANGED dbVars

\* The coroutine of an edit resumes after its commit.
ScheduleDue(b) ==
    /\ due[b] > 0
    /\ due' = [due EXCEPT ![b] = @ - 1]
    /\ Schedule(b)
    /\ UNCHANGED <<dbVars, job, unrecorded, boundVars>>

\* delete_br: the report and everything scoped to it, in one transaction.  It
\* takes neither the ingest lock nor notice of a run in progress.
DeleteBr(b) ==
    /\ up
    /\ Exists(b)
    /\ edits < MaxEdits
    /\ edits' = edits + 1
    /\ status' = [status EXCEPT ![b] = "deleted"]
    /\ source' = [source EXCEPT ![b] = [s \in SRC |-> "none"]]
    /\ linked' = [linked EXCEPT ![b] = {}]
    /\ clustered' = [clustered EXCEPT ![b] = {}]
    /\ warning' = [warning EXCEPT ![b] = FALSE]
    /\ url' = [url EXCEPT ![b] = NoUrl]
    /\ UNCHANGED <<jobsVars, job, due, unrecorded, crashes>>

-----------------------------------------------------------------------------
(* The pipeline, run for the holder of the ingest lock.                    *)

Running(b, step) == up /\ lock = b /\ task[b] = "running" /\ job.at = step
InRun == UNCHANGED <<jobsVars, due, unrecorded, boundVars>>

\* A transaction that sets the report's status, and raises NoResultFound (so
\* that the run fails) when the report is gone.
SetStatus(b, st, next) ==
    /\ IF Exists(b)
         THEN status' = [status EXCEPT ![b] = st] /\ job' = Goto(next)
         ELSE UNCHANGED status /\ job' = Goto("fail")
    /\ UNCHANGED <<url, source, warning, linked, clustered>>

\* Phase 1, first transaction: a missing report ends the run; a report without
\* sources but with a link URL gets that link back as a source row.
Begin(b) ==
    /\ Running(b, "begin")
    /\ IF ~Exists(b)
         THEN job' = Goto("end") /\ UNCHANGED source
         ELSE /\ job' = Goto("mark")
              /\ IF Rows(b) = {} /\ url[b] # NoUrl
                   THEN source' = [source EXCEPT ![b][url[b]] = "pending"]
                   ELSE UNCHANGED source
    /\ UNCHANGED <<status, url, warning, linked, clustered>>
    /\ InRun

MarkResolving(b) ==
    /\ Running(b, "mark")
    /\ SetStatus(b, "resolving", "load")
    /\ unrecorded' = unrecorded \ {b}
    /\ UNCHANGED <<jobsVars, due, boundVars>>

LoadSources(b) ==
    /\ Running(b, "load")
    /\ job' = [Goto("sources") EXCEPT !.todo = Rows(b)]
    /\ UNCHANGED dbVars
    /\ InRun

\* A source answers: its refs are merged before its row is looked up again, so
\* a row deleted meanwhile still contributes them, but does not count as ok.
ResolveSource(b, s) ==
    /\ Running(b, "sources")
    /\ s \in job.todo
    /\ LET alive == source[b][s] # "none" IN
         /\ job' = [job EXCEPT !.todo = @ \ {s},
                               !.refs = @ \union RefsOf[s],
                               !.anyOk = @ \/ alive]
         /\ source' = IF alive THEN [source EXCEPT ![b][s] = "ok"] ELSE source
    /\ UNCHANGED <<status, url, warning, linked, clustered>>
    /\ InRun

\* A source raises: its row, if it still exists, gets the error.
SourceFails(b, s) ==
    /\ Running(b, "sources")
    /\ s \in job.todo
    /\ job' = [job EXCEPT !.todo = @ \ {s}]
    /\ source' = IF source[b][s] # "none"
                   THEN [source EXCEPT ![b][s] = "error"] ELSE source
    /\ UNCHANGED <<status, url, warning, linked, clustered>>
    /\ InRun

AllSourcesDone(b) ==
    /\ Running(b, "sources")
    /\ job.todo = {}
    /\ job' = Goto(IF job.anyOk THEN "enrich" ELSE "fail")
    /\ UNCHANGED dbVars
    /\ InRun

\* km_expected and the primary source's metadata are written, then the status:
\* two transactions that each raise when the report is gone.
MarkEnriching(b) ==
    /\ Running(b, "enrich")
    /\ SetStatus(b, "enriching", "fetch")
    /\ InRun

\* Mutant: a warning only for a report without any killmail.
FetchKillmailsQuietly(b) ==
    /\ Running(b, "fetch")
    /\ \E got \in SUBSET job.refs :
         IF Exists(b)
           THEN /\ job' = [Goto("persist") EXCEPT !.got = got]
                /\ warning' = [warning EXCEPT ![b] = job.refs = {}]
           ELSE job' = Goto("fail") /\ UNCHANGED warning
    /\ UNCHANGED <<status, url, source, linked, clustered>>
    /\ InRun

\* ESI answers for some of the refs; whatever is missing is said in the warning.
FetchKillmails(b) ==
    /\ Running(b, "fetch")
    /\ \E got \in SUBSET job.refs :
         IF Exists(b)
           THEN /\ job' = [Goto("persist") EXCEPT !.got = got]
                /\ warning' = [warning EXCEPT ![b] =
                     job.refs = {} \/ Cardinality(got) < Cardinality(job.refs)]
           ELSE job' = Goto("fail") /\ UNCHANGED warning
    /\ UNCHANGED <<status, url, source, linked, clustered>>
    /\ InRun

MarkPersisting(b) ==
    /\ Running(b, "persist")
    /\ SetStatus(b, "persisting", "link")
    /\ InRun

\* Mutant: links without a foreign key to the report.
LinkKillmailsUnchecked(b) ==
    /\ Running(b, "link")
    /\ linked' = [linked EXCEPT ![b] = @ \union job.got]
    /\ job' = Goto("cluster")
    /\ UNCHANGED <<status, url, source, warning, clustered>>
    /\ InRun

\* Killmails and BrKillmail links in one transaction; the foreign key of the
\* links, if there are any, fails it at commit when the report has been deleted.
LinkKillmails(b) ==
    /\ Running(b, "link")
    /\ IF Exists(b) \/ job.got = {}
         THEN /\ linked' = [linked EXCEPT ![b] = @ \union job.got]
              /\ job' = Goto("cluster")
         ELSE UNCHANGED linked /\ job' = Goto("fail")
    /\ UNCHANGED <<status, url, source, warning, clustered>>
    /\ InRun

MarkClustering(b) ==
    /\ Running(b, "cluster")
    /\ SetStatus(b, "clustering", "aggregate")
    /\ InRun

\* aggregate_br and the log association, in one transaction (see FightStore);
\* a report without killmails, such as a deleted one, gets no fights.
Aggregate(b) ==
    /\ Running(b, "aggregate")
    /\ clustered' = [clustered EXCEPT ![b] = linked[b]]
    /\ job' = Goto("ready")
    /\ UNCHANGED <<status, url, source, warning, linked>>
    /\ InRun

MarkReady(b) ==
    /\ Running(b, "ready")
    /\ SetStatus(b, "ready", "end")
    /\ InRun

\* Any other exception: ESI gone, SQLite locked for longer than its timeout.
RunFails(b) ==
    /\ \E step \in Step \ {"fail", "end"} : Running(b, step)
    /\ job' = Goto("fail")
    /\ UNCHANGED dbVars
    /\ InRun

\* Mutant: the except branch only logs.
OnlyLogError(b) ==
    /\ Running(b, "fail")
    /\ job' = Goto("end")
    /\ UNCHANGED dbVars
    /\ InRun

\* The except branch writes the error if the report is still there...
RecordError(b) ==
    /\ Running(b, "fail")
    /\ job' = Goto("end")
    /\ status' = IF Exists(b) THEN [status EXCEPT ![b] = "error"] ELSE status
    /\ UNCHANGED <<url, source, warning, linked, clustered>>
    /\ InRun

\* ... unless that write fails in its turn, which is logged and forgotten.
LoseError(b) ==
    /\ Running(b, "fail")
    /\ job' = Goto("end")
    /\ unrecorded' = unrecorded \union {b}
    /\ UNCHANGED <<jobsVars, dbVars, due, boundVars>>

-----------------------------------------------------------------------------
(* The scheduler's steps, with the locals of the run they start or end.    *)

StartTask(b) ==
    /\ TaskStart(b)
    /\ job' = IF lock = NoBr THEN FreshJob ELSE job
    /\ UNCHANGED <<dbVars, due, unrecorded, boundVars>>

EndRun(b) ==
    /\ Running(b, "end")
    /\ RunEnd(b)
    /\ job' = FreshJob
    /\ UNCHANGED <<dbVars, due, unrecorded, boundVars>>

CrashWorker ==
    /\ crashes < MaxCrashes
    /\ crashes' = crashes + 1
    /\ Crash
    /\ job' = FreshJob
    /\ due' = [b \in BR |-> 0]
    /\ UNCHANGED <<dbVars, unrecorded, edits>>

\* The lifespan runs sweep_pending before the worker serves.
RestartWorker ==
    /\ Restart(Swept)
    /\ unrecorded' = {}
    /\ UNCHANGED <<dbVars, job, due, boundVars>>

RunStep(b) ==
    \/ Begin(b) \/ MarkResolving(b) \/ LoadSources(b)
    \/ \E s \in SRC : ResolveSource(b, s) \/ SourceFails(b, s)
    \/ AllSourcesDone(b) \/ MarkEnriching(b)
    \/ FetchKillmails(b) \/ MarkPersisting(b) \/ LinkKillmails(b)
    \/ MarkClustering(b) \/ Aggregate(b) \/ MarkReady(b)
    \/ RunFails(b) \/ RecordError(b) \/ LoseError(b)
    \/ EndRun(b)

Handler(b) ==
    \/ CreateBr(b) \/ RefreshBr(b) \/ DeleteBr(b)
    \/ \E s \in SRC : AddBrSource(b, s) \/ DeleteBrSource(b, s)

PipelineNext ==
    \/ \E b \in BR : Handler(b) \/ ScheduleDue(b) \/ StartTask(b) \/ RunStep(b)
    \/ CrashWorker
    \/ RestartWorker

PipelineSpec == PipelineInit /\ [][PipelineNext]_pipelineVars

\* See IngestJobs: the loop runs what is ready, every await of a run ends.
Fairness ==
    /\ \A b \in BR : /\ WF_pipelineVars(ScheduleDue(b))
                     /\ WF_pipelineVars(StartTask(b))
                     /\ WF_pipelineVars(RunStep(b))
    /\ WF_pipelineVars(RestartWorker)

FairPipeline == PipelineSpec /\ Fairness

-----------------------------------------------------------------------------
\* No report is stranded in a status that says work is going on: some task or
\* handler still owns it, through crashes and the sweep, unless the database
\* refused the run's error as well.
UnfinishedIsOwned ==
    up => \A b \in BR :
        \/ status[b] \in Finished
        \/ b \in running \/ due[b] > 0
        \/ b \in unrecorded

\* "Never report a clean ready with killmails missing" (run_ingest, phase 2):
\* whatever edits land during a run and whichever runs failed before, a ready
\* report without a warning has every killmail of its resolved sources.
CleanReadyIsComplete ==
    \A b \in BR, s \in SRC :
        status[b] = "ready" /\ ~warning[b] /\ source[b][s] = "ok"
          => RefsOf[s] \subseteq clustered[b]

\* A run that is in progress while its report is deleted leaves no row behind.
DeletedLeavesNothing ==
    \A b \in BR : status[b] = "deleted" =>
        Rows(b) = {} /\ linked[b] = {} /\ clustered[b] = {}

\* A source added at any moment of any run has been tried by the time the
\* report comes to rest ready, as long as the worker has not died (and the
\* database took the error of the run, if it failed).
AddedSourceIsTried ==
    \A b \in BR, s \in SRC :
        /\ crashes = 0 /\ b \notin unrecorded
        /\ status[b] = "ready" /\ b \notin running /\ due[b] = 0
        => source[b][s] # "pending"

\* Once the edits and crashes stop, every report comes to rest.
EveryReportSettles ==
    <>[](\A b \in BR : status[b] \in Finished \/ b \in unrecorded)

-----------------------------------------------------------------------------
(* What the repository says and the code does not do.                      *)

\* "Remove a source from a BR" (delete_br_source): only a user brings a source
\* row into being.
RemovedSourceStaysRemoved ==
    [][\A b \in BR : Rows(b)' \subseteq Rows(b) \/ CreateBr(b)
                      \/ \E s \in SRC : AddBrSource(b, s)]_pipelineVars

\* "Any exception outside source resolution sets status=error" (run_ingest).
EveryErrorIsRecorded ==
    [][\A b \in BR : Running(b, "fail") /\ job'.at = "end"
                      => status'[b] \in {"error", "deleted"}]_pipelineVars

\* "Add a source to an existing BR and trigger a refresh ingest" (add_br_source).
AddedSourceIsAlwaysTried ==
    \A b \in BR, s \in SRC :
        /\ up /\ b \notin unrecorded
        /\ status[b] = "ready" /\ b \notin running /\ due[b] = 0
        => source[b][s] # "pending"
=============================================================================
