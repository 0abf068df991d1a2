----------------------------- MODULE IngestJobs -----------------------------
(***************************************************************************)
(* The ingest scheduler, src/app/ingest/jobs.py: one asyncio loop, a       *)
(* global lock so that at most one run_ingest is in progress, and one      *)
(* coalesced trailing re-run per battle report.  Every action below is a   *)
(* stretch of code without an await, which the loop runs atomically.       *)
(*                                                                         *)
(* asyncio.Lock is fair: release wakes the first waiter and an acquire     *)
(* that finds waiters queues behind them, so no task can slip in between   *)
(* the release and the wake-up, and the lock is passed on in one step.     *)
(***************************************************************************)
EXTENDS Sequences, Naturals

CONSTANTS BR, NoBr

ASSUME NoBrAssumption == NoBr \notin BR

VARIABLES
    up,       \* the worker process is alive and past its startup
    lock,     \* the holder of _ingest_lock, or NoBr
    waiters,  \* the tasks queued on _ingest_lock, first come first served
    running,  \* _ingest_running: the reports with a live serialized task
    rerun,    \* _ingest_rerun: the reports scheduled again while their task lived
    task,     \* where the task of each report is
    dirty     \* history: scheduled, and no run has started since

jobsVars == <<up, lock, waiters, running, rerun, task, dirty>>

TaskState == {"none", "created", "waiting", "running"}

JobsInit ==
    /\ up = FALSE
    /\ lock = NoBr
    /\ waiters = <<>>
    /\ running = {}
    /\ rerun = {}
    /\ task = [b \in BR |-> "none"]
    /\ dirty = {}

\* Mutant: a schedule that finds a live task is dropped.
ScheduleOnce(b) ==
    /\ up
    /\ dirty' = dirty \union {b}
    /\ running' = running \union {b}
    /\ task' = [task EXCEPT ![b] = IF b \in running THEN @ ELSE "created"]
    /\ UNCHANGED <<up, lock, waiters, rerun>>

\* schedule_ingest(b): flag a re-run of a live task, or create the task.
Schedule(b) ==
    /\ up
    /\ dirty' = dirty \union {b}
    /\ IF b \in running
         THEN /\ rerun' = rerun \union {b}
              /\ UNCHANGED <<running, task>>
         ELSE /\ running' = running \union {b}
              /\ task' = [task EXCEPT ![b] = "created"]
              /\ UNCHANGED rerun
    /\ UNCHANGED <<up, lock, waiters>>

\* Give the lock to the head of q (which starts its run), or free it.
PassLock(q, t) ==
    IF q = <<>>
      THEN /\ lock' = NoBr
           /\ waiters' = <<>>
           /\ task' = t
           /\ UNCHANGED dirty
      ELSE /\ lock' = Head(q)
           /\ waiters' = Tail(q)
           /\ task' = [t EXCEPT ![Head(q)] = "running"]
           /\ dirty' = dirty \ {Head(q)}

\* Mutant: the run does not take the lock.
TaskStartUnlocked(b) ==
    /\ up
    /\ task[b] = "created"
    /\ task' = [task EXCEPT ![b] = "running"]
    /\ dirty' = dirty \ {b}
    /\ UNCHANGED <<up, lock, waiters, running, rerun>>

\* The loop runs the new task up to its first await: the lock, or its queue.
TaskStart(b) ==
    /\ up
    /\ task[b] = "created"
    /\ IF lock = NoBr
         THEN PassLock(<<b>>, task)
         ELSE /\ waiters' = Append(waiters, b)
              /\ task' = [task EXCEPT ![b] = "waiting"]
              /\ UNCHANGED <<lock, dirty>>
    /\ UNCHANGED <<up, running, rerun>>

\* run_ingest has returned: release the lock, then either consume the re-run
\* flag and queue for the lock again, or leave the loop through "finally".
RunEnd(b) ==
    /\ up
    /\ task[b] = "running"
    /\ rerun' = rerun \ {b}
    /\ IF b \in rerun
         THEN /\ running' = running
              /\ PassLock(Append(waiters, b), [task EXCEPT ![b] = "waiting"])
         ELSE /\ running' = running \ {b}
              /\ PassLock(waiters, [task EXCEPT ![b] = "none"])
    /\ UNCHANGED up

\* The process dies with all of the module's state.
Crash ==
    /\ up
    /\ up' = FALSE
    /\ lock' = NoBr
    /\ waiters' = <<>>
    /\ running' = {}
    /\ rerun' = {}
    /\ task' = [b \in BR |-> "none"]
    /\ dirty' = {}

\* Startup: sweep_pending schedules the reports S it finds unfinished, before
\* the first request is served.
Restart(S) ==
    /\ ~up
    /\ up' = TRUE
    /\ running' = S
    /\ task' = [b \in BR |-> IF b \in S THEN "created" ELSE "none"]
    /\ dirty' = S
    /\ UNCHANGED <<lock, waiters, rerun>>

JobsNext ==
    \/ \E b \in BR : Schedule(b) \/ TaskStart(b) \/ RunEnd(b)
    \/ Crash
    \/ \E S \in SUBSET BR : Restart(S)

JobsSpec == JobsInit /\ [][JobsNext]_jobsVars

\* The loop runs every ready task and every await of run_ingest returns or
\* raises: HTTP calls have timeouts and SQLite a busy timeout.  The container
\* is restarted (restart: unless-stopped).
JobsFairness ==
    /\ \A b \in BR : WF_jobsVars(TaskStart(b)) /\ WF_jobsVars(RunEnd(b))
    /\ WF_jobsVars(\E S \in SUBSET BR : Restart(S))

FairJobsSpec == JobsSpec /\ JobsFairness

-----------------------------------------------------------------------------
JobsTypeOK ==
    /\ up \in BOOLEAN
    /\ lock \in BR \union {NoBr}
    /\ waiters \in Seq(BR)
    /\ running \subseteq BR
    /\ rerun \subseteq BR
    /\ task \in [BR -> TaskState]
    /\ dirty \subseteq BR

\* At most one run_ingest is in progress, and it is the lock holder's: the
\* property the module was written for ("we therefore run at most ONE ingest
\* at a time"), without which two ingests race for SQLite's single writer.
OneIngestAtATime == \A b \in BR : task[b] = "running" <=> lock = b

\* _ingest_running lists exactly the reports with a live task, and a re-run is
\* flagged only for one of them: a flag without a task would never be honoured,
\* and a task missing from the set would get a second, concurrent one.
BookkeepingExact ==
    /\ \A b \in BR : b \in running <=> task[b] # "none"
    /\ rerun \subseteq running

\* No schedule is lost: until a run starts after it, either that run is on its
\* way (task created or queued) or the live run is flagged to be repeated.
NoLostSchedule ==
    \A b \in dirty : b \in rerun \/ task[b] \in {"created", "waiting"}

\* Waiting for the lock never wedges: whoever waits is in the queue, once, and
\* there is a queue only behind a holder.
QueueExact ==
    /\ \A b \in BR : task[b] = "waiting"
                       <=> \E i \in 1..Len(waiters) : waiters[i] = b
    /\ \A i, j \in 1..Len(waiters) : waiters[i] = waiters[j] => i = j
    /\ lock = NoBr => waiters = <<>>

\* A schedule is eventually followed by a run that starts after it (or lost
\* with the process).
EveryScheduleServed == \A b \in BR : b \in dirty ~> b \notin dirty

\* "no lost or duplicated runs" (the docstring of _run_ingest_serialized): a
\* run starts only for a schedule made since the report's previous run started.
NoDuplicatedRun ==
    [][\A b \in BR :
         /\ lock' = b
         /\ lock # b \/ RunEnd(b)
         => b \in dirty]_jobsVars

\* The scheduler implements the queue its callers rely on.
Queue == INSTANCE IngestQueue WITH want <- dirty, active <- lock
ImplementsQueue == Queue!Spec
=============================================================================
