------------------------------- MODULE Worker -------------------------------
(***************************************************************************)
(* The life of the one worker process, lifespan in src/app/main.py: it     *)
(* brings the database up to date (Migrations), sweeps it for unfinished   *)
(* reports, and then schedules and runs ingests (IngestJobs).  A stop takes*)
(* both down at whatever point they are, and the container is restarted,   *)
(* perhaps with other code.                                                *)
(***************************************************************************)
EXTENDS IngestJobs, Migrations

workerVars == <<jobsVars, vars>>

WorkerInit == JobsInit /\ Init

\* await init_models(settings): nothing else runs yet.
Migrate == StartupStep /\ UNCHANGED jobsVars

\* sweep_pending comes after init_models has returned, and before the first
\* request is served.  A sweep that fails is logged, and none is scheduled.
Sweep ==
    /\ pc = "serving"
    /\ \E S \in SUBSET BR : Restart(S)
    /\ UNCHANGED vars

Work ==
    /\ \E b \in BR : Schedule(b) \/ TaskStart(b) \/ RunEnd(b)
    /\ UNCHANGED vars

\* The process ends: asyncio's tasks, their locks and the open transaction go.
StopWorker ==
    /\ Stop
    /\ IF up THEN Crash ELSE UNCHANGED jobsVars

\* Another version, or a snapshot, while the container is down.
Replace ==
    /\ \E v \in Version : Deploy(v) \/ RollBack(v)
    /\ UNCHANGED jobsVars

WorkerNext == Migrate \/ Sweep \/ Work \/ StopWorker \/ Replace

\* The container is restarted until its startup goes through (restart:
\* unless-stopped); then the loop runs every ready task, and every await of an
\* ingest ends (see JobsFairness).
WorkerFairness ==
    /\ WF_workerVars(Migrate)
    /\ WF_workerVars(Sweep)
    /\ \A b \in BR : WF_jobsVars(TaskStart(b)) /\ WF_jobsVars(RunEnd(b))

WorkerSpec == WorkerInit /\ [][WorkerNext]_workerVars /\ WorkerFairness

-----------------------------------------------------------------------------
\* "we therefore run at most ONE ingest at a time" (jobs.py), and it meets a
\* database with all the tables and columns of the code it belongs to, whatever
\* startup, deployment or roll-back came before; except one that two versions of
\* the code created.
IngestsMeetTheirSchema ==
    /\ OneIngestAtATime
    /\ up /\ MadeByOne(disk) => Current

\* The worker comes back in the end, with everything it will ever sweep swept.
WorkerReturns == []<>up
=============================================================================
