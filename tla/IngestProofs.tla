---------------------------- MODULE IngestProofs ----------------------------
(***************************************************************************)
(* Proofs about the worker and what it runs, for any reports, sources and  *)
(* killmails and any number of edits, faults, stops and deployments: the   *)
(* scheduler (IngestJobs) and that it implements IngestQueue, the phases   *)
(* of its runs (IngestPipeline), the worker's life around them (Worker,    *)
(* Migrations), and what a refresh gets from the upstreams (Upstream).     *)
(***************************************************************************)
EXTENDS IngestPipeline, Worker, Upstream, FiniteSetTheorems, TLAPS

-----------------------------------------------------------------------------
(* The scheduler.                                                          *)

\* Nothing of the module's state survives a crash, so the sweep starts afresh.
DownIsEmpty == ~up => running = {}

\* The inductive invariant: the properties need each other (a re-run flag is
\* honoured only if its report has a task, the queue stays exact only if the
\* task states are), and DownIsEmpty for the restart.
JobsInv ==
    /\ JobsTypeOK
    /\ OneIngestAtATime
    /\ BookkeepingExact
    /\ QueueExact
    /\ NoLostSchedule
    /\ DownIsEmpty

\* Taking the head off a queue without repetitions leaves the others in it.
LEMMA TailFacts ==
    ASSUME NEW S, NEW q \in Seq(S), q # <<>>
    PROVE  /\ Head(q) = q[1]
           /\ Head(q) \in S
           /\ Tail(q) \in Seq(S)
           /\ Len(q) \in Nat /\ Len(q) >= 1
           /\ Len(Tail(q)) = Len(q) - 1
           /\ \A i \in 1..Len(Tail(q)) : Tail(q)[i] = q[i + 1]
  OBVIOUS

\* A task appended to a queue joins it at the end and moves nobody.
LEMMA AppendFacts ==
    ASSUME NEW S, NEW q \in Seq(S), NEW b \in S
    PROVE  /\ Append(q, b) \in Seq(S)
           /\ Append(q, b) # <<>>
           /\ Len(q) \in Nat
           /\ Len(Append(q, b)) = Len(q) + 1
           /\ \A i \in 1..Len(q) : Append(q, b)[i] = q[i]
           /\ Append(q, b)[Len(q) + 1] = b
  OBVIOUS

\* A queue of tasks t, exact as QueueExact asks, with nobody running.
ExactFor(q, t) ==
    /\ q \in Seq(BR)
    /\ t \in [BR -> TaskState]
    /\ \A b \in BR : t[b] # "running"
    /\ \A b \in BR : t[b] = "waiting" <=> \E i \in 1..Len(q) : q[i] = b
    /\ \A i, j \in 1..Len(q) : q[i] = q[j] => i = j

\* Passing the lock along an exact queue keeps it exact, starts the head's run
\* and changes no other task.
LEMMA PassLockFacts ==
    ASSUME NEW q, NEW t, ExactFor(q, t), dirty \subseteq BR, PassLock(q, t)
    PROVE  /\ lock' \in BR \union {NoBr}
           /\ waiters' \in Seq(BR)
           /\ task' \in [BR -> TaskState]
           /\ dirty' = dirty \ {lock'}
           /\ OneIngestAtATime'
           /\ QueueExact'
           /\ \A b \in BR : b # lock' => task'[b] = t[b]
           /\ \A b \in BR : task'[b] = "none" <=> t[b] = "none"
<1>1. CASE q = <<>>
  <2>1. lock' = NoBr /\ waiters' = <<>> /\ task' = t /\ dirty' = dirty
    BY <1>1 DEF PassLock
  <2>2. dirty' = dirty \ {NoBr}
    BY <2>1, NoBrAssumption
  <2>3. OneIngestAtATime'
    BY <2>1, NoBrAssumption DEF OneIngestAtATime, ExactFor
  <2>4. QueueExact'
    BY <2>1, <1>1 DEF QueueExact, ExactFor
  <2>. QED  BY <2>1, <2>2, <2>3, <2>4 DEF ExactFor, TaskState
<1>2. CASE q # <<>>
  <2>. DEFINE h == Head(q)
  <2>1. /\ lock' = h
        /\ waiters' = Tail(q)
        /\ task' = [t EXCEPT ![h] = "running"]
        /\ dirty' = dirty \ {h}
    BY <1>2 DEF PassLock
  <2>2. /\ h = q[1] /\ h \in BR
        /\ Tail(q) \in Seq(BR)
        /\ Len(q) \in Nat /\ Len(q) >= 1
        /\ Len(Tail(q)) = Len(q) - 1
        /\ \A i \in 1..Len(Tail(q)) : Tail(q)[i] = q[i + 1]
    BY <1>2, TailFacts DEF ExactFor
  <2>. HIDE DEF h
  <2>3. \A b \in BR : task'[b] = IF b = h THEN "running" ELSE t[b]
    BY <2>1, <2>2 DEF ExactFor
  <2>4. OneIngestAtATime'
    BY <2>1, <2>2, <2>3 DEF OneIngestAtATime, ExactFor
  <2>5. \A b \in BR : task'[b] = "waiting"
                        <=> \E i \in 1..Len(Tail(q)) : Tail(q)[i] = b
    <3>1. ASSUME NEW b \in BR, task'[b] = "waiting"
          PROVE  \E i \in 1..Len(Tail(q)) : Tail(q)[i] = b
      <4>1. b # h /\ t[b] = "waiting"
        BY <2>3, <3>1
      <4>2. PICK i \in 1..Len(q) : q[i] = b
        BY <4>1 DEF ExactFor
      <4>3. i # 1 /\ i - 1 \in 1..Len(Tail(q))
        BY <4>1, <4>2, <2>2
      <4>. QED  BY <4>2, <4>3, <2>2
    <3>2. ASSUME NEW b \in BR, NEW i \in 1..Len(Tail(q)), Tail(q)[i] = b
          PROVE  task'[b] = "waiting"
      <4>1. i + 1 \in 1..Len(q) /\ i + 1 # 1 /\ q[i + 1] = b /\ 1 \in 1..Len(q)
        BY <3>2, <2>2
      <4>2. b # h /\ t[b] = "waiting"
        BY <4>1, <2>2 DEF ExactFor
      <4>. QED  BY <4>2, <2>3
    <3>. QED  BY <3>1, <3>2
  <2>6. \A i, j \in 1..Len(Tail(q)) : Tail(q)[i] = Tail(q)[j] => i = j
    <3>. SUFFICES ASSUME NEW i \in 1..Len(Tail(q)), NEW j \in 1..Len(Tail(q)),
                         Tail(q)[i] = Tail(q)[j]
                  PROVE  i = j
      OBVIOUS
    <3>1. i + 1 \in 1..Len(q) /\ j + 1 \in 1..Len(q) /\ q[i + 1] = q[j + 1]
      BY <2>2
    <3>. QED  BY <3>1, <2>2 DEF ExactFor
  <2>7. QueueExact'
    BY <2>1, <2>2, <2>5, <2>6, NoBrAssumption DEF QueueExact
  <2>8. task' \in [BR -> TaskState]
    BY <2>1, <2>2 DEF ExactFor, TaskState
  <2>. QED  BY <2>1, <2>2, <2>3, <2>4, <2>7, <2>8 DEF ExactFor
<1>. QED  BY <1>1, <1>2

-----------------------------------------------------------------------------
LEMMA InitJobsInv == JobsInit => JobsInv
<1>. SUFFICES ASSUME JobsInit PROVE JobsInv
  OBVIOUS
<1>. USE DEF JobsInit
<1>1. JobsTypeOK
  <2>1. up \in BOOLEAN
    BY Zenon
  <2>2. waiters \in Seq(BR)
    BY SMT
  <2>3. /\ lock \in BR \union {NoBr}
        /\ running \subseteq BR /\ rerun \subseteq BR /\ dirty \subseteq BR
    BY Zenon
  <2>4. task \in [BR -> TaskState]
    BY DEF TaskState
  <2>. QED  BY <2>1, <2>2, <2>3, <2>4 DEF JobsTypeOK
<1>2. OneIngestAtATime /\ BookkeepingExact /\ NoLostSchedule /\ DownIsEmpty
  BY NoBrAssumption DEF OneIngestAtATime, BookkeepingExact, NoLostSchedule, DownIsEmpty
<1>3. QueueExact
  BY DEF QueueExact
<1>. QED  BY <1>1, <1>2, <1>3 DEF JobsInv

LEMMA ScheduleInv ==
    ASSUME JobsInv, NEW b \in BR, Schedule(b)
    PROVE  JobsInv'
<1>. USE DEF JobsInv
<1>1. JobsTypeOK'
  BY DEF Schedule, JobsTypeOK, TaskState
<1>2. OneIngestAtATime'
  BY DEF Schedule, JobsTypeOK, OneIngestAtATime, BookkeepingExact
<1>3. BookkeepingExact'
  BY DEF Schedule, JobsTypeOK, BookkeepingExact
<1>4. QueueExact'
  BY DEF Schedule, JobsTypeOK, BookkeepingExact, QueueExact
<1>5. NoLostSchedule' /\ DownIsEmpty'
  <2>1. CASE b \in running
    BY <2>1 DEF Schedule, JobsTypeOK, NoLostSchedule, DownIsEmpty
  <2>2. CASE b \notin running
    BY <2>2 DEF Schedule, JobsTypeOK, NoLostSchedule, DownIsEmpty
  <2>. QED  BY <2>1, <2>2
<1>. QED  BY <1>1, <1>2, <1>3, <1>4, <1>5

LEMMA TaskStartInv ==
    ASSUME JobsInv, NEW b \in BR, TaskStart(b)
    PROVE  JobsInv'
<1>. USE DEF JobsInv
<1>1. up' = up /\ running' = running /\ rerun' = rerun /\ up /\ task[b] = "created"
  BY DEF TaskStart
<1>2. CASE lock = NoBr
  <2>1. PassLock(<<b>>, task)
    BY <1>2 DEF TaskStart
  <2>. DEFINE t == [task EXCEPT ![b] = "waiting"]
  <2>2. PassLock(<<b>>, t)
    <3>1. <<b>> # <<>> /\ Head(<<b>>) = b
      OBVIOUS
    <3>2. [t EXCEPT ![b] = "running"] = [task EXCEPT ![b] = "running"]
      BY DEF JobsTypeOK
    <3>. QED  BY <2>1, <3>1, <3>2 DEF PassLock
  <2>3. ExactFor(<<b>>, t)
    BY <1>1, <1>2, NoBrAssumption
       DEF ExactFor, JobsTypeOK, TaskState, OneIngestAtATime, QueueExact
  <2>. HIDE DEF t
  <2>4. /\ lock' \in BR \union {NoBr}
        /\ waiters' \in Seq(BR)
        /\ task' \in [BR -> TaskState]
        /\ dirty' = dirty \ {lock'}
        /\ OneIngestAtATime' /\ QueueExact'
    BY <2>2, <2>3, PassLockFacts DEF JobsTypeOK
  <2>5. \A x \in BR : x # lock' => task'[x] = t[x]
    BY <2>2, <2>3, PassLockFacts DEF JobsTypeOK
  <2>6. \A x \in BR : task'[x] = "none" <=> t[x] = "none"
    BY <2>2, <2>3, PassLockFacts DEF JobsTypeOK
  <2>7. JobsTypeOK'
    BY <1>1, <2>4 DEF JobsTypeOK
  <2>8. BookkeepingExact'
    BY <1>1, <2>6 DEF t, BookkeepingExact, JobsTypeOK
  <2>9. NoLostSchedule' /\ DownIsEmpty'
    BY <1>1, <2>4, <2>5 DEF t, NoLostSchedule, DownIsEmpty, JobsTypeOK
  <2>. QED  BY <2>4, <2>7, <2>8, <2>9
<1>3. CASE lock # NoBr
  <2>1. /\ waiters' = Append(waiters, b)
        /\ task' = [task EXCEPT ![b] = "waiting"]
        /\ lock' = lock /\ dirty' = dirty
    BY <1>3 DEF TaskStart
  <2>2. waiters \in Seq(BR)
    BY DEF JobsTypeOK
  <2>3. /\ waiters' \in Seq(BR)
        /\ Len(waiters) \in Nat
        /\ Len(waiters') = Len(waiters) + 1
        /\ \A i \in 1..Len(waiters) : waiters'[i] = waiters[i]
        /\ waiters'[Len(waiters) + 1] = b
    BY <2>1, <2>2, AppendFacts
  <2>4. JobsTypeOK'
    BY <1>1, <2>1, <2>3 DEF JobsTypeOK, TaskState
  <2>5. OneIngestAtATime' /\ BookkeepingExact'
    BY <1>1, <2>1 DEF OneIngestAtATime, BookkeepingExact, JobsTypeOK
  <2>6. QueueExact'
    <3>1. \A i \in 1..Len(waiters) : waiters[i] # b
      BY <1>1 DEF QueueExact
    <3>2. \A x \in BR : task'[x] = "waiting"
                          <=> \E i \in 1..Len(waiters') : waiters'[i] = x
      <4>1. ASSUME NEW x \in BR, x # b
            PROVE  (\E i \in 1..Len(waiters') : waiters'[i] = x)
                     <=> (\E i \in 1..Len(waiters) : waiters[i] = x)
        BY <4>1, <2>3
      <4>2. \E i \in 1..Len(waiters') : waiters'[i] = b
        BY <2>3
      <4>. QED  BY <4>1, <4>2, <2>1 DEF QueueExact, JobsTypeOK
    <3>3. \A i, j \in 1..Len(waiters') : waiters'[i] = waiters'[j] => i = j
      BY <2>3, <3>1 DEF QueueExact
    <3>. QED  BY <3>2, <3>3, <2>1, <1>3 DEF QueueExact
  <2>7. NoLostSchedule' /\ DownIsEmpty'
    BY <1>1, <2>1 DEF NoLostSchedule, DownIsEmpty, JobsTypeOK
  <2>. QED  BY <2>4, <2>5, <2>6, <2>7
<1>. QED  BY <1>2, <1>3

LEMMA RunEndInv ==
    ASSUME JobsInv, NEW b \in BR, RunEnd(b)
    PROVE  /\ JobsInv'
           /\ dirty' = dirty \ {lock'}
<1>. USE DEF JobsInv
<1>. DEFINE again == b \in rerun
            q == IF again THEN Append(waiters, b) ELSE waiters
            t == [task EXCEPT ![b] = IF again THEN "waiting" ELSE "none"]
<1>1. /\ up' = up /\ up /\ task[b] = "running" /\ lock = b
      /\ rerun' = rerun \ {b}
      /\ running' = IF again THEN running ELSE running \ {b}
      /\ PassLock(q, t)
  BY DEF RunEnd, OneIngestAtATime
<1>2. waiters \in Seq(BR) /\ \A i \in 1..Len(waiters) : waiters[i] # b
  BY <1>1 DEF JobsTypeOK, QueueExact
<1>3. ExactFor(q, t)
  <2>1. CASE again
    <3>1. /\ q \in Seq(BR)
          /\ Len(waiters) \in Nat
          /\ Len(q) = Len(waiters) + 1
          /\ \A i \in 1..Len(waiters) : q[i] = waiters[i]
          /\ q[Len(waiters) + 1] = b
      BY <2>1, <1>2, AppendFacts
    <3>2. t \in [BR -> TaskState] /\ \A x \in BR : t[x] # "running"
      BY <2>1, <1>1 DEF JobsTypeOK, TaskState, OneIngestAtATime
    <3>3. \A i, j \in 1..Len(q) : q[i] = q[j] => i = j
      BY <3>1, <1>2 DEF QueueExact
    <3>4. ASSUME NEW x \in BR
          PROVE  t[x] = "waiting" <=> \E i \in 1..Len(q) : q[i] = x
      <4>1. CASE x = b
        BY <4>1, <3>1, <2>1 DEF JobsTypeOK
      <4>2. CASE x # b
        <5>1. t[x] = "waiting" <=> \E i \in 1..Len(waiters) : waiters[i] = x
          BY <4>2 DEF QueueExact, JobsTypeOK
        <5>2. (\E i \in 1..Len(q) : q[i] = x)
                <=> (\E i \in 1..Len(waiters) : waiters[i] = x)
          BY <4>2, <3>1
        <5>. QED  BY <5>1, <5>2
      <4>. QED  BY <4>1, <4>2
    <3>. QED  BY <3>1, <3>2, <3>3, <3>4 DEF ExactFor
  <2>2. CASE ~again
    BY <2>2, <1>1, <1>2
       DEF ExactFor, JobsTypeOK, TaskState, OneIngestAtATime, QueueExact
  <2>. QED  BY <2>1, <2>2
<1>. HIDE DEF q, t
<1>4. /\ lock' \in BR \union {NoBr}
      /\ waiters' \in Seq(BR)
      /\ task' \in [BR -> TaskState]
      /\ dirty' = dirty \ {lock'}
      /\ OneIngestAtATime' /\ QueueExact'
  BY <1>1, <1>3, PassLockFacts DEF JobsTypeOK
<1>5. \A x \in BR : x # lock' => task'[x] = t[x]
  BY <1>1, <1>3, PassLockFacts DEF JobsTypeOK
<1>6. \A x \in BR : task'[x] = "none" <=> t[x] = "none"
  BY <1>1, <1>3, PassLockFacts DEF JobsTypeOK
<1>7. JobsTypeOK'
  BY <1>1, <1>4 DEF JobsTypeOK
<1>8. BookkeepingExact'
  BY <1>1, <1>6 DEF t, BookkeepingExact, JobsTypeOK
<1>9. NoLostSchedule' /\ DownIsEmpty'
  <2>1. ASSUME NEW x \in dirty', x # b
        PROVE  x \in rerun' \/ task'[x] \in {"created", "waiting"}
    BY <2>1, <1>1, <1>4, <1>5 DEF t, NoLostSchedule, JobsTypeOK
  <2>2. ASSUME b \in dirty'
        PROVE  b \in rerun' \/ task'[b] \in {"created", "waiting"}
    <3>1. b \in dirty /\ b # lock'
      BY <2>2, <1>4
    <3>2. again
      BY <3>1, <1>1 DEF NoLostSchedule
    <3>. QED  BY <3>1, <3>2, <1>5 DEF t, JobsTypeOK
  <2>. QED  BY <2>1, <2>2, <1>1 DEF NoLostSchedule, DownIsEmpty
<1>. QED  BY <1>4, <1>7, <1>8, <1>9

LEMMA CrashInv ==
    ASSUME JobsInv, Crash
    PROVE  JobsInv'
<1>1. JobsTypeOK'
  <2>1. up' \in BOOLEAN /\ running' \subseteq BR /\ rerun' \subseteq BR /\ dirty' \subseteq BR
    BY DEF Crash
  <2>2. waiters' \in Seq(BR) /\ lock' \in BR \union {NoBr}
    BY DEF Crash
  <2>3. task' \in [BR -> TaskState]
    BY DEF Crash, TaskState
  <2>. QED  BY <2>1, <2>2, <2>3 DEF JobsTypeOK
<1>2. OneIngestAtATime' /\ BookkeepingExact'
  BY NoBrAssumption DEF Crash, OneIngestAtATime, BookkeepingExact
<1>3. Len(waiters') = 0 /\ waiters' = <<>>
  BY DEF Crash
<1>4. QueueExact'
  BY <1>3 DEF Crash, QueueExact
<1>5. NoLostSchedule' /\ DownIsEmpty'
  BY DEF Crash, NoLostSchedule, DownIsEmpty
<1>. QED  BY <1>1, <1>2, <1>4, <1>5 DEF JobsInv

\* While the process is down the scheduler is empty.
LEMMA DownFacts ==
    ASSUME JobsInv, ~up
    PROVE  /\ running = {} /\ rerun = {} /\ dirty = {}
           /\ lock = NoBr /\ waiters = <<>>
<1>. USE DEF JobsInv
<1>1. running = {} /\ rerun = {}
  BY DEF DownIsEmpty, BookkeepingExact
<1>2. \A b \in BR : task[b] = "none"
  BY <1>1 DEF BookkeepingExact
<1>3. lock = NoBr
  BY <1>2 DEF OneIngestAtATime, JobsTypeOK
<1>4. dirty = {}
  BY <1>1, <1>2 DEF NoLostSchedule, JobsTypeOK
<1>. QED  BY <1>1, <1>3, <1>4 DEF QueueExact

LEMMA RestartInv ==
    ASSUME JobsInv, NEW S \in SUBSET BR, Restart(S)
    PROVE  JobsInv'
<1>1. /\ running = {} /\ rerun = {} /\ dirty = {}
      /\ lock = NoBr /\ waiters = <<>>
  BY DownFacts DEF Restart
<1>. QED
  BY <1>1, NoBrAssumption
     DEF Restart, JobsInv, JobsTypeOK, OneIngestAtATime, BookkeepingExact,
         QueueExact, NoLostSchedule, DownIsEmpty, TaskState

LEMMA StepJobsInv == JobsInv /\ [JobsNext]_jobsVars => JobsInv'
<1>. SUFFICES ASSUME JobsInv, [JobsNext]_jobsVars
              PROVE  JobsInv'
  OBVIOUS
<1>1. ASSUME NEW b \in BR, Schedule(b) PROVE JobsInv'
  BY <1>1, ScheduleInv
<1>2. ASSUME NEW b \in BR, TaskStart(b) PROVE JobsInv'
  BY <1>2, TaskStartInv
<1>3. ASSUME NEW b \in BR, RunEnd(b) PROVE JobsInv'
  BY <1>3, RunEndInv
<1>4. CASE Crash
  BY <1>4, CrashInv
<1>5. ASSUME NEW S \in SUBSET BR, Restart(S) PROVE JobsInv'
  BY <1>5, RestartInv
<1>6. CASE UNCHANGED jobsVars
  BY <1>6 DEF jobsVars, JobsInv, JobsTypeOK, OneIngestAtATime,
     BookkeepingExact, QueueExact, NoLostSchedule, DownIsEmpty
<1>. QED  BY <1>1, <1>2, <1>3, <1>4, <1>5, <1>6 DEF JobsNext

\* The invariant holds in every reachable state, for any set of reports.
THEOREM JobsSafety == JobsSpec => []JobsInv
<1>. QED  BY InitJobsInv, StepJobsInv, PTL DEF JobsSpec

\* At most one ingest runs at a time, whoever schedules what and whenever the
\* process dies (_run_ingest_serialized under _ingest_lock).
THEOREM MutualExclusion == JobsSpec => []OneIngestAtATime
<1>1. JobsInv => OneIngestAtATime
  BY DEF JobsInv
<1>. QED  BY <1>1, JobsSafety, PTL

\* No call of schedule_ingest is forgotten: a run that starts after it is on
\* its way as long as none has started.
THEOREM SchedulesAreKept == JobsSpec => []NoLostSchedule
<1>1. JobsInv => NoLostSchedule
  BY DEF JobsInv
<1>. QED  BY <1>1, JobsSafety, PTL

-----------------------------------------------------------------------------
\* Every step of the scheduler is a step of the queue or leaves it alone.
LEMMA StepRefines ==
    ASSUME JobsInv, [JobsNext]_jobsVars
    PROVE  [Queue!Next]_(Queue!qvars)
<1>. USE DEF Queue!Next, Queue!qvars
<1>. dirty \subseteq BR /\ NoBr \notin dirty
  BY NoBrAssumption DEF JobsInv, JobsTypeOK
<1>1. ASSUME NEW b \in BR, Schedule(b) PROVE [Queue!Next]_(Queue!qvars)
  BY <1>1 DEF Schedule, Queue!Request
<1>2. ASSUME NEW b \in BR, TaskStart(b) PROVE [Queue!Next]_(Queue!qvars)
  <2>1. CASE lock = NoBr
    <3>1. lock' = b /\ dirty' = dirty \ {b}
      BY <2>1, <1>2 DEF TaskStart, PassLock
    <3>2. Queue!HandOver(b)
      BY <3>1 DEF Queue!HandOver
    <3>. QED  BY <3>2
  <2>2. CASE lock # NoBr
    BY <2>2, <1>2 DEF TaskStart
  <2>. QED  BY <2>1, <2>2
<1>3. ASSUME NEW b \in BR, RunEnd(b) PROVE [Queue!Next]_(Queue!qvars)
  <2>1. dirty' = dirty \ {lock'} /\ lock' \in BR \union {NoBr}
    BY <1>3, RunEndInv DEF JobsInv, JobsTypeOK
  <2>2. Queue!HandOver(lock')
    BY <2>1 DEF Queue!HandOver
  <2>. QED  BY <2>1, <2>2
<1>4. CASE Crash
  BY <1>4 DEF Crash, Queue!Lose
<1>5. ASSUME NEW S \in SUBSET BR, Restart(S) PROVE [Queue!Next]_(Queue!qvars)
  <2>1. dirty = {} /\ lock = NoBr
    BY <1>5, DownFacts DEF Restart
  <2>2. Queue!Recover(S)
    BY <2>1, <1>5 DEF Restart, Queue!Recover
  <2>. QED  BY <2>2
<1>6. CASE UNCHANGED jobsVars
  BY <1>6 DEF jobsVars
<1>. QED  BY <1>1, <1>2, <1>3, <1>4, <1>5, <1>6 DEF JobsNext

\* The scheduler of jobs.py implements the queue its callers rely on.
THEOREM Refinement == JobsSpec => ImplementsQueue
<1>1. JobsInit => Queue!Init
  BY DEF JobsInit, Queue!Init
<1>. QED
  BY <1>1, StepRefines, JobsSafety, PTL DEF JobsSpec, ImplementsQueue, Queue!Spec

-----------------------------------------------------------------------------
(* The pipeline under its scheduler.                                       *)

Job == [at : Step, todo : SUBSET SRC, refs : SUBSET KM,
        anyOk : BOOLEAN, got : SUBSET KM]

PipelineTypeOK ==
    /\ status \in [BR -> Status]
    /\ url \in [BR -> SRC \union {NoUrl}]
    /\ source \in [BR -> [SRC -> RowStatus]]
    /\ warning \in [BR -> BOOLEAN]
    /\ linked \in [BR -> SUBSET KM]
    /\ clustered \in [BR -> SUBSET KM]
    /\ job \in Job
    /\ due \in [BR -> Nat]
    /\ unrecorded \subseteq BR
    /\ crashes \in Nat

\* The steps of a run before its report is marked, and between that and its end.
Early == {"begin", "mark"}
Working == {"load", "sources", "enrich", "fetch", "persist", "link",
            "cluster", "aggregate", "ready"}

\* Nothing is in progress without a holder of the lock, nor before the first
\* start is anything unrecorded.
QuietOutsideRuns ==
    /\ lock = NoBr => job = FreshJob
    /\ ~up /\ crashes = 0 => unrecorded = {}

\* A run that is over has left its report finished, unless it failed to say so
\* or another is to follow.
EndedIsOwned ==
    \A b \in BR : lock = b /\ job.at = "end" =>
        status[b] \in Finished \/ due[b] > 0 \/ b \in rerun \/ b \in unrecorded

\* No run reports progress on a ready report: it is marked first.
WorkIsMarked ==
    \A b \in BR : lock = b /\ job.at \in Working => status[b] \notin {"new", "ready"}

\* What the run of b has got hold of so far for source s.
Collected(b, s) ==
    CASE job.at = "sources"              -> s \in job.todo \/ RefsOf[s] \subseteq job.refs
      [] job.at \in {"enrich", "fetch"}  -> RefsOf[s] \subseteq job.refs
      [] job.at \in {"persist", "link"}  -> warning[b] \/ RefsOf[s] \subseteq job.got
      [] job.at \in {"cluster", "aggregate"} -> warning[b] \/ RefsOf[s] \subseteq linked[b]
      [] job.at = "ready"                -> warning[b] \/ RefsOf[s] \subseteq clustered[b]
      [] OTHER                           -> TRUE

\* Every source that counts as resolved is carried through the run's phases.
ResolvedIsCarried ==
    \A b \in BR, s \in SRC : lock = b /\ source[b][s] = "ok" => Collected(b, s)

\* The run of b in progress will come to the pending source s, has failed, or is
\* over without having made the report ready.
WillTry(b, s) ==
    \/ job.at \in Early \union {"load", "fail"}
    \/ job.at = "sources" /\ s \in job.todo
    \/ job.at = "end" /\ (status[b] # "ready" \/ b \in unrecorded)

\* While the worker lives a pending source is not forgotten: a run that comes
\* will load it, or the report did not come to rest as "ready".
PendingIsAwaited ==
    crashes = 0 =>
      \A b \in BR, s \in SRC : source[b][s] = "pending" =>
        \/ due[b] > 0
        \/ b \in rerun
        \/ lock # b /\ (b \in running \/ status[b] # "ready" \/ b \in unrecorded)
        \/ lock = b /\ WillTry(b, s)

PipelineInv ==
    /\ JobsInv
    /\ PipelineTypeOK
    /\ QuietOutsideRuns
    /\ UnfinishedIsOwned
    /\ EndedIsOwned
    /\ DeletedLeavesNothing
    /\ WorkIsMarked
    /\ ResolvedIsCarried
    /\ CleanReadyIsComplete
    /\ PendingIsAwaited

\* What PipelineInv asks of the report whose run holds the lock.
RunInv(b) ==
    /\ job.at = "end" =>
         status[b] \in Finished \/ due[b] > 0 \/ b \in rerun \/ b \in unrecorded
    /\ status[b] = "deleted" => Rows(b) = {} /\ linked[b] = {} /\ clustered[b] = {}
    /\ job.at \in Working => status[b] \notin {"new", "ready"}
    /\ \A s \in SRC : source[b][s] = "ok" => Collected(b, s)
    /\ \A s \in SRC : status[b] = "ready" /\ ~warning[b] /\ source[b][s] = "ok"
                       => RefsOf[s] \subseteq clustered[b]
    /\ \A s \in SRC : crashes = 0 /\ source[b][s] = "pending" =>
         due[b] > 0 \/ b \in rerun \/ WillTry(b, s)

-----------------------------------------------------------------------------
LEMMA InitPipelineInv == PipelineInit => PipelineInv
<1>. SUFFICES ASSUME PipelineInit PROVE PipelineInv
  OBVIOUS
<1>. USE DEF PipelineInit
<1>1. JobsInv
  BY InitJobsInv
<1>2. PipelineTypeOK
  BY PipelineAssumption DEF PipelineTypeOK, Status, Finished, RowStatus, Job, Step, FreshJob
<1>3. lock = NoBr /\ up = FALSE
  BY DEF JobsInit
<1>4. QuietOutsideRuns /\ UnfinishedIsOwned
  BY <1>3 DEF QuietOutsideRuns, UnfinishedIsOwned
<1>5. EndedIsOwned /\ WorkIsMarked /\ ResolvedIsCarried
  BY <1>3, NoBrAssumption DEF EndedIsOwned, WorkIsMarked, ResolvedIsCarried
<1>6. DeletedLeavesNothing /\ CleanReadyIsComplete /\ PendingIsAwaited
  BY DEF DeletedLeavesNothing, CleanReadyIsComplete, PendingIsAwaited
<1>. QED  BY <1>1, <1>2, <1>4, <1>5, <1>6 DEF PipelineInv

\* The scheduler's invariant does not read the pipeline's state.
LEMMA JobsUntouched ==
    ASSUME JobsInv, UNCHANGED jobsVars
    PROVE  JobsInv'
  BY StepJobsInv

\* The holder of the lock has a live task.
LEMMA HolderRuns ==
    ASSUME JobsInv, NEW b \in BR, lock = b
    PROVE  b \in running /\ lock # NoBr /\ up
  BY NoBrAssumption
     DEF JobsInv, OneIngestAtATime, BookkeepingExact, DownIsEmpty

\* Writing one source row writes only that.
LEMMA SetRow ==
    ASSUME source \in [BR -> [SRC -> RowStatus]],
           NEW b \in BR, NEW s \in SRC, NEW v \in RowStatus
    PROVE  /\ [source EXCEPT ![b][s] = v] \in [BR -> [SRC -> RowStatus]]
           /\ [source EXCEPT ![b][s] = v][b][s] = v
           /\ \A x \in BR, r \in SRC : x # b \/ r # s =>
                [source EXCEPT ![b][s] = v][x][r] = source[x][r]
           /\ \A x \in BR : x # b => [source EXCEPT ![b][s] = v][x] = source[x]
<1>. DEFINE rows == [source[b] EXCEPT ![s] = v]
<1>1. rows \in [SRC -> RowStatus]
  OBVIOUS
<1>2. rows[s] = v /\ \A r \in SRC : r # s => rows[r] = source[b][r]
  OBVIOUS
<1>3. [source EXCEPT ![b][s] = v] = [source EXCEPT ![b] = rows]
  OBVIOUS
<1>. HIDE DEF rows
<1>4. /\ [source EXCEPT ![b] = rows] \in [BR -> [SRC -> RowStatus]]
      /\ [source EXCEPT ![b] = rows][b] = rows
      /\ \A x \in BR : x # b => [source EXCEPT ![b] = rows][x] = source[x]
  BY <1>1
<1>. QED  BY <1>2, <1>3, <1>4

\* A step of b's run disturbs nothing of the other reports.
LEMMA RunFrame ==
    ASSUME PipelineInv, NEW b \in BR, up, lock = b,
           UNCHANGED <<jobsVars, due, boundVars>>,
           PipelineTypeOK',
           \A x \in BR \ {b} :
             /\ status'[x] = status[x] /\ source'[x] = source[x]
             /\ warning'[x] = warning[x] /\ linked'[x] = linked[x]
             /\ clustered'[x] = clustered[x]
             /\ x \in unrecorded' <=> x \in unrecorded,
           RunInv(b)'
    PROVE  PipelineInv'
<1>. USE DEF PipelineInv
<1>1. /\ lock' = lock /\ up' = up /\ running' = running /\ rerun' = rerun
      /\ due' = due /\ crashes' = crashes
  BY DEF jobsVars, boundVars
<1>2. JobsInv'
  BY JobsUntouched
<1>3. b \in running /\ lock # NoBr
  BY HolderRuns
<1>4. QuietOutsideRuns' /\ UnfinishedIsOwned'
  BY <1>1, <1>3 DEF QuietOutsideRuns, UnfinishedIsOwned
<1>5. EndedIsOwned' /\ WorkIsMarked'
  BY <1>1 DEF RunInv, EndedIsOwned, WorkIsMarked
<1>6. DeletedLeavesNothing'
  BY <1>1 DEF RunInv, DeletedLeavesNothing, Rows
<1>7. ResolvedIsCarried'
  BY <1>1 DEF RunInv, ResolvedIsCarried
<1>8. CleanReadyIsComplete'
  BY <1>1 DEF RunInv, CleanReadyIsComplete
<1>9. PendingIsAwaited'
  BY <1>1, <1>3 DEF RunInv, PendingIsAwaited
<1>. QED  BY <1>2, <1>4, <1>5, <1>6, <1>7, <1>8, <1>9

-----------------------------------------------------------------------------
(* The steps of a run, one by one.                                         *)

\* Goto moves the run and keeps its other locals.
LEMMA GotoFacts ==
    ASSUME job \in Job, NEW step \in Step
    PROVE  /\ Goto(step) \in Job /\ Goto(step).at = step
           /\ Goto(step).todo = job.todo /\ Goto(step).refs = job.refs
           /\ Goto(step).got = job.got
  BY DEF Job, Goto

\* SetStatus does it or finds the report gone.
LEMMA SetStatusFacts ==
    ASSUME PipelineTypeOK, NEW b \in BR, NEW st \in Status, NEW then \in Step,
           SetStatus(b, st, then)
    PROVE  /\ status' \in [BR -> Status] /\ job' \in Job
           /\ \A x \in BR \ {b} : status'[x] = status[x]
           /\ \/ Exists(b) /\ job'.at = then /\ status'[b] = st
              \/ ~Exists(b) /\ job'.at = "fail" /\ status'[b] = status[b]
           /\ job'.refs = job.refs /\ job'.got = job.got
           /\ UNCHANGED <<url, source, warning, linked, clustered>>
<1>1. job \in Job /\ status \in [BR -> Status] /\ "fail" \in Step
  BY DEF PipelineTypeOK, Step
<1>2. CASE Exists(b)
  <2>1. status' = [status EXCEPT ![b] = st] /\ job' = Goto(then)
    BY <1>2 DEF SetStatus
  <2>. QED  BY <1>1, <1>2, <2>1, GotoFacts DEF SetStatus
<1>3. CASE ~Exists(b)
  <2>1. status' = status /\ job' = Goto("fail")
    BY <1>3 DEF SetStatus
  <2>. QED  BY <1>1, <1>3, <2>1, GotoFacts DEF SetStatus
<1>. QED  BY <1>2, <1>3

\* What a step of b's run finds.
LEMMA RunFacts ==
    ASSUME PipelineInv, NEW b \in BR, NEW step, Running(b, step)
    PROVE  /\ up /\ lock = b /\ job.at = step
           /\ RunInv(b) /\ PipelineTypeOK /\ JobsInv
           /\ job = [at |-> job.at, todo |-> job.todo, refs |-> job.refs,
                     anyOk |-> job.anyOk, got |-> job.got]
           /\ job.at \in Step /\ job.todo \subseteq SRC /\ job.refs \subseteq KM
           /\ job.anyOk \in BOOLEAN /\ job.got \subseteq KM
<1>1. up /\ lock = b /\ job.at = step
  BY DEF Running
<1>2. RunInv(b)
  <2>1. status[b] = "deleted" => Rows(b) = {} /\ linked[b] = {} /\ clustered[b] = {}
    BY DEF PipelineInv, DeletedLeavesNothing
  <2>2. job.at = "end" =>
         status[b] \in Finished \/ due[b] > 0 \/ b \in rerun \/ b \in unrecorded
    BY <1>1 DEF PipelineInv, EndedIsOwned
  <2>3. job.at \in Working => status[b] \notin {"new", "ready"}
    BY <1>1 DEF PipelineInv, WorkIsMarked
  <2>4. \A s \in SRC : source[b][s] = "ok" => Collected(b, s)
    BY <1>1 DEF PipelineInv, ResolvedIsCarried
  <2>5. \A s \in SRC : status[b] = "ready" /\ ~warning[b] /\ source[b][s] = "ok"
                       => RefsOf[s] \subseteq clustered[b]
    BY DEF PipelineInv, CleanReadyIsComplete
  <2>6. \A s \in SRC : crashes = 0 /\ source[b][s] = "pending" =>
         due[b] > 0 \/ b \in rerun \/ WillTry(b, s)
    BY <1>1 DEF PipelineInv, PendingIsAwaited
  <2>. QED  BY <2>1, <2>2, <2>3, <2>4, <2>5, <2>6 DEF RunInv
<1>. QED  BY <1>1, <1>2 DEF PipelineInv, PipelineTypeOK, Job

LEMMA BeginInv ==
    ASSUME PipelineInv, NEW b \in BR, Begin(b)
    PROVE  PipelineInv'
<1>1. Running(b, "begin")
  BY DEF Begin
<1>2. /\ up /\ lock = b /\ job.at = "begin" /\ RunInv(b) /\ PipelineTypeOK
      /\ UNCHANGED <<status, url, warning, linked, clustered>>
      /\ UNCHANGED <<jobsVars, due, unrecorded, boundVars>>
  BY <1>1, RunFacts DEF Begin, InRun
<1>3. CASE ~Exists(b)
  <2>1. job' = Goto("end") /\ source' = source
    BY <1>3 DEF Begin
  <2>2. PipelineTypeOK'
    BY <1>2, <2>1 DEF boundVars, PipelineTypeOK, Goto, Job, Step
  <2>3. RunInv(b)'
    BY <1>2, <1>3, <2>1 DEF boundVars, jobsVars, PipelineTypeOK, Goto, Job, RunInv, Rows,
         Exists, Collected, WillTry, Working, Finished
  <2>. QED  BY <1>2, <2>1, <2>2, <2>3, RunFrame
<1>4. CASE Exists(b)
  <2>1. /\ job' = Goto("mark")
        /\ source' = source \/ /\ url[b] \in SRC
                               /\ source' = [source EXCEPT ![b][url[b]] = "pending"]
    BY <1>2, <1>4 DEF Begin, PipelineTypeOK
  <2>2. PipelineTypeOK'
    <3>1. source' \in [BR -> [SRC -> RowStatus]]
      <4>1. source \in [BR -> [SRC -> RowStatus]] /\ "pending" \in RowStatus
        BY <1>2 DEF PipelineTypeOK, RowStatus
      <4>2. CASE url[b] \in SRC
        <5>1. [source EXCEPT ![b][url[b]] = "pending"] \in [BR -> [SRC -> RowStatus]]
          BY <4>1, <4>2, SetRow
        <5>. QED  BY <5>1, <4>1, <2>1
      <4>. QED  BY <4>1, <4>2, <2>1
    <3>. QED  BY <1>2, <2>1, <3>1 DEF boundVars, PipelineTypeOK, Goto, Job, Step
  <2>3. job'.at = "mark"
    BY <1>2, <2>1 DEF Goto, PipelineTypeOK, Job
  <2>4. \A s \in SRC : source'[b][s] = source[b][s] \/ source'[b][s] = "pending"
    BY <1>2, <2>1 DEF PipelineTypeOK
  <2>5. RunInv(b)'
    BY <1>2, <1>4, <2>3, <2>4 DEF boundVars, jobsVars, RunInv, Rows,
         Exists, Collected, WillTry, Working, Early
  <2>6. \A x \in BR \ {b} : source'[x] = source[x]
    BY <1>2, <2>1 DEF PipelineTypeOK
  <2>. QED  BY <1>2, <2>2, <2>5, <2>6, RunFrame
<1>. QED  BY <1>3, <1>4

LEMMA MarkResolvingInv ==
    ASSUME PipelineInv, NEW b \in BR, MarkResolving(b)
    PROVE  PipelineInv'
<1>1. Running(b, "mark")
  BY DEF MarkResolving
<1>2. /\ up /\ lock = b /\ job.at = "mark" /\ RunInv(b) /\ PipelineTypeOK
      /\ SetStatus(b, "resolving", "load")
      /\ UNCHANGED <<jobsVars, due, boundVars>> /\ unrecorded' = unrecorded \ {b}
  BY <1>1, RunFacts DEF MarkResolving
<1>3. "resolving" \in Status /\ "load" \in Step
  BY DEF Status, Finished, Step
<1>4. /\ status' \in [BR -> Status] /\ job' \in Job
      /\ \A x \in BR \ {b} : status'[x] = status[x]
      /\ \/ Exists(b) /\ job'.at = "load" /\ status'[b] = "resolving"
         \/ ~Exists(b) /\ job'.at = "fail" /\ status'[b] = status[b]
      /\ job'.refs = job.refs /\ job'.got = job.got
      /\ UNCHANGED <<url, source, warning, linked, clustered>>
  BY <1>2, <1>3, SetStatusFacts
<1>5. PipelineTypeOK'
  BY <1>2, <1>4 DEF boundVars, PipelineTypeOK
<1>6. RunInv(b)'
  BY <1>2, <1>4 DEF boundVars, jobsVars, RunInv, Rows, Exists, Collected, WillTry,
     Working, Early, Finished
<1>. QED  BY <1>2, <1>4, <1>5, <1>6, RunFrame

LEMMA LoadSourcesInv ==
    ASSUME PipelineInv, NEW b \in BR, LoadSources(b)
    PROVE  PipelineInv'
<1>1. Running(b, "load")
  BY DEF LoadSources
<1>2. /\ up /\ lock = b /\ job.at = "load" /\ RunInv(b) /\ PipelineTypeOK
      /\ job' = [Goto("sources") EXCEPT !.todo = Rows(b)]
      /\ UNCHANGED <<jobsVars, dbVars, due, unrecorded, boundVars>>
  BY <1>1, RunFacts DEF LoadSources, InRun
<1>3. Rows(b) \subseteq SRC /\ "sources" \in Step
  BY DEF Rows, Step
<1>4. job' \in Job /\ job'.at = "sources" /\ job'.todo = Rows(b)
  BY <1>2, <1>3 DEF PipelineTypeOK, Goto, Job
<1>5. PipelineTypeOK'
  BY <1>2, <1>4 DEF boundVars, dbVars, PipelineTypeOK
<1>6. RunInv(b)'
  BY <1>2, <1>4 DEF boundVars, jobsVars, dbVars, RunInv, Rows, Collected, WillTry, Working
<1>. QED  BY <1>2, <1>5, <1>6, RunFrame DEF dbVars

LEMMA AllSourcesDoneInv ==
    ASSUME PipelineInv, NEW b \in BR, AllSourcesDone(b)
    PROVE  PipelineInv'
<1>1. Running(b, "sources")
  BY DEF AllSourcesDone
<1>2. /\ up /\ lock = b /\ job.at = "sources" /\ RunInv(b) /\ PipelineTypeOK
      /\ job.todo = {} /\ job' = Goto(IF job.anyOk THEN "enrich" ELSE "fail")
      /\ UNCHANGED <<jobsVars, dbVars, due, unrecorded, boundVars>>
  BY <1>1, RunFacts DEF AllSourcesDone, InRun
<1>3. job \in Job /\ "enrich" \in Step /\ "fail" \in Step
  BY <1>2 DEF PipelineTypeOK, Step
<1>4. job' \in Job /\ job'.at \in {"enrich", "fail"} /\ job'.refs = job.refs
  BY <1>2, <1>3, GotoFacts
<1>5. PipelineTypeOK'
  BY <1>2, <1>4 DEF boundVars, dbVars, PipelineTypeOK
<1>6. RunInv(b)'
  BY <1>2, <1>4 DEF boundVars, jobsVars, dbVars, RunInv, Rows, Collected, WillTry, Working,
     Early
<1>. QED  BY <1>2, <1>5, <1>6, RunFrame DEF dbVars

LEMMA MarkEnrichingInv ==
    ASSUME PipelineInv, NEW b \in BR, MarkEnriching(b)
    PROVE  PipelineInv'
<1>1. Running(b, "enrich")
  BY DEF MarkEnriching
<1>2. /\ up /\ lock = b /\ job.at = "enrich" /\ RunInv(b) /\ PipelineTypeOK
      /\ SetStatus(b, "enriching", "fetch")
      /\ UNCHANGED <<jobsVars, due, unrecorded, boundVars>>
  BY <1>1, RunFacts DEF MarkEnriching, InRun
<1>3. "enriching" \in Status /\ "fetch" \in Step
  BY DEF Status, Finished, Step
<1>4. /\ status' \in [BR -> Status] /\ job' \in Job
      /\ \A x \in BR \ {b} : status'[x] = status[x]
      /\ \/ Exists(b) /\ job'.at = "fetch" /\ status'[b] = "enriching"
         \/ ~Exists(b) /\ job'.at = "fail" /\ status'[b] = status[b]
      /\ job'.refs = job.refs /\ job'.got = job.got
      /\ UNCHANGED <<url, source, warning, linked, clustered>>
  BY <1>2, <1>3, SetStatusFacts
<1>5. PipelineTypeOK'
  BY <1>2, <1>4 DEF boundVars, PipelineTypeOK
<1>6. RunInv(b)'
  BY <1>2, <1>4 DEF boundVars, jobsVars, RunInv, Rows, Exists, Collected, WillTry,
     Working, Early, Finished
<1>. QED  BY <1>2, <1>4, <1>5, <1>6, RunFrame

LEMMA MarkPersistingInv ==
    ASSUME PipelineInv, NEW b \in BR, MarkPersisting(b)
    PROVE  PipelineInv'
<1>1. Running(b, "persist")
  BY DEF MarkPersisting
<1>2. /\ up /\ lock = b /\ job.at = "persist" /\ RunInv(b) /\ PipelineTypeOK
      /\ SetStatus(b, "persisting", "link")
      /\ UNCHANGED <<jobsVars, due, unrecorded, boundVars>>
  BY <1>1, RunFacts DEF MarkPersisting, InRun
<1>3. "persisting" \in Status /\ "link" \in Step
  BY DEF Status, Finished, Step
<1>4. /\ status' \in [BR -> Status] /\ job' \in Job
      /\ \A x \in BR \ {b} : status'[x] = status[x]
      /\ \/ Exists(b) /\ job'.at = "link" /\ status'[b] = "persisting"
         \/ ~Exists(b) /\ job'.at = "fail" /\ status'[b] = status[b]
      /\ job'.refs = job.refs /\ job'.got = job.got
      /\ UNCHANGED <<url, source, warning, linked, clustered>>
  BY <1>2, <1>3, SetStatusFacts
<1>5. PipelineTypeOK'
  BY <1>2, <1>4 DEF boundVars, PipelineTypeOK
<1>6. RunInv(b)'
  BY <1>2, <1>4 DEF boundVars, jobsVars, RunInv, Rows, Exists, Collected, WillTry,
     Working, Early, Finished
<1>. QED  BY <1>2, <1>4, <1>5, <1>6, RunFrame

LEMMA MarkClusteringInv ==
    ASSUME PipelineInv, NEW b \in BR, MarkClustering(b)
    PROVE  PipelineInv'
<1>1. Running(b, "cluster")
  BY DEF MarkClustering
<1>2. /\ up /\ lock = b /\ job.at = "cluster" /\ RunInv(b) /\ PipelineTypeOK
      /\ SetStatus(b, "clustering", "aggregate")
      /\ UNCHANGED <<jobsVars, due, unrecorded, boundVars>>
  BY <1>1, RunFacts DEF MarkClustering, InRun
<1>3. "clustering" \in Status /\ "aggregate" \in Step
  BY DEF Status, Finished, Step
<1>4. /\ status' \in [BR -> Status] /\ job' \in Job
      /\ \A x \in BR \ {b} : status'[x] = status[x]
      /\ \/ Exists(b) /\ job'.at = "aggregate" /\ status'[b] = "clustering"
         \/ ~Exists(b) /\ job'.at = "fail" /\ status'[b] = status[b]
      /\ job'.refs = job.refs /\ job'.got = job.got
      /\ UNCHANGED <<url, source, warning, linked, clustered>>
  BY <1>2, <1>3, SetStatusFacts
<1>5. PipelineTypeOK'
  BY <1>2, <1>4 DEF boundVars, PipelineTypeOK
<1>6. RunInv(b)'
  BY <1>2, <1>4 DEF boundVars, jobsVars, RunInv, Rows, Exists, Collected, WillTry,
     Working, Early, Finished
<1>. QED  BY <1>2, <1>4, <1>5, <1>6, RunFrame

LEMMA MarkReadyInv ==
    ASSUME PipelineInv, NEW b \in BR, MarkReady(b)
    PROVE  PipelineInv'
<1>1. Running(b, "ready")
  BY DEF MarkReady
<1>2. /\ up /\ lock = b /\ job.at = "ready" /\ RunInv(b) /\ PipelineTypeOK
      /\ SetStatus(b, "ready", "end")
      /\ UNCHANGED <<jobsVars, due, unrecorded, boundVars>>
  BY <1>1, RunFacts DEF MarkReady, InRun
<1>3. "ready" \in Status /\ "end" \in Step
  BY DEF Status, Finished, Step
<1>4. /\ status' \in [BR -> Status] /\ job' \in Job
      /\ \A x \in BR \ {b} : status'[x] = status[x]
      /\ \/ Exists(b) /\ job'.at = "end" /\ status'[b] = "ready"
         \/ ~Exists(b) /\ job'.at = "fail" /\ status'[b] = status[b]
      /\ job'.refs = job.refs /\ job'.got = job.got
      /\ UNCHANGED <<url, source, warning, linked, clustered>>
  BY <1>2, <1>3, SetStatusFacts
<1>5. PipelineTypeOK'
  BY <1>2, <1>4 DEF boundVars, PipelineTypeOK
<1>6. RunInv(b)'
  BY <1>2, <1>4 DEF boundVars, jobsVars, RunInv, Rows, Exists, Collected, WillTry,
     Working, Early, Finished
<1>. QED  BY <1>2, <1>4, <1>5, <1>6, RunFrame

LEMMA AggregateInv ==
    ASSUME PipelineInv, NEW b \in BR, Aggregate(b)
    PROVE  PipelineInv'
<1>1. Running(b, "aggregate")
  BY DEF Aggregate
<1>2. /\ up /\ lock = b /\ job.at = "aggregate" /\ RunInv(b) /\ PipelineTypeOK
      /\ clustered' = [clustered EXCEPT ![b] = linked[b]] /\ job' = Goto("ready")
      /\ UNCHANGED <<status, url, source, warning, linked>>
      /\ UNCHANGED <<jobsVars, due, unrecorded, boundVars>>
  BY <1>1, RunFacts DEF Aggregate, InRun
<1>3. job' \in Job /\ job'.at = "ready"
  BY <1>2, GotoFacts DEF PipelineTypeOK, Step
<1>4. clustered' \in [BR -> SUBSET KM] /\ clustered'[b] = linked[b]
  BY <1>2 DEF PipelineTypeOK
<1>5. PipelineTypeOK'
  BY <1>2, <1>3, <1>4 DEF boundVars, PipelineTypeOK
<1>6. RunInv(b)'
  <2>1. /\ Rows(b)' = Rows(b) /\ source' = source /\ warning' = warning
        /\ linked' = linked /\ crashes' = crashes /\ rerun' = rerun
    BY <1>2 DEF Rows, boundVars, jobsVars
  <2>2. ASSUME NEW s \in SRC, source[b][s] = "ok"
        PROVE  warning[b] \/ RefsOf[s] \subseteq linked[b]
    BY <1>2, <2>2 DEF RunInv, Collected
  <2>3. \A s \in SRC : source[b][s] = "ok" => Collected(b, s)'
    BY <1>3, <1>4, <2>1, <2>2 DEF Collected
  <2>4. \A s \in SRC : crashes = 0 /\ source[b][s] = "pending" => due[b] > 0 \/ b \in rerun
    BY <1>2 DEF RunInv, WillTry, Early
  <2>. QED  BY <1>2, <1>3, <1>4, <2>1, <2>2, <2>3, <2>4 DEF RunInv, Working
<1>. QED  BY <1>2, <1>5, <1>6, RunFrame DEF PipelineTypeOK

LEMMA RunFailsInv ==
    ASSUME PipelineInv, NEW b \in BR, RunFails(b)
    PROVE  PipelineInv'
<1>1. PICK step \in Step \ {"fail", "end"} : Running(b, step)
  BY DEF RunFails
<1>2. /\ up /\ lock = b /\ RunInv(b) /\ PipelineTypeOK
      /\ job' = Goto("fail")
      /\ UNCHANGED <<jobsVars, dbVars, due, unrecorded, boundVars>>
  BY <1>1, RunFacts DEF RunFails, InRun
<1>3. job' \in Job /\ job'.at = "fail"
  BY <1>2, GotoFacts DEF PipelineTypeOK, Step
<1>4. PipelineTypeOK'
  BY <1>2, <1>3 DEF boundVars, dbVars, PipelineTypeOK
<1>5. RunInv(b)'
  BY <1>2, <1>3 DEF boundVars, jobsVars, dbVars, RunInv, Rows, Collected, WillTry, Working
<1>. QED  BY <1>2, <1>4, <1>5, RunFrame DEF dbVars

LEMMA RecordErrorInv ==
    ASSUME PipelineInv, NEW b \in BR, RecordError(b)
    PROVE  PipelineInv'
<1>1. Running(b, "fail")
  BY DEF RecordError
<1>2. /\ up /\ lock = b /\ job.at = "fail" /\ RunInv(b) /\ PipelineTypeOK
      /\ job' = Goto("end")
      /\ status' = IF Exists(b) THEN [status EXCEPT ![b] = "error"] ELSE status
      /\ UNCHANGED <<url, source, warning, linked, clustered>>
      /\ UNCHANGED <<jobsVars, due, unrecorded, boundVars>>
  BY <1>1, RunFacts DEF RecordError, InRun
<1>3. job' \in Job /\ job'.at = "end"
  BY <1>2, GotoFacts DEF PipelineTypeOK, Step
<1>4. /\ status' \in [BR -> Status]
      /\ status'[b] \in {"new", "deleted", "error"}
      /\ status'[b] = "deleted" => status[b] = "deleted"
      /\ \A x \in BR \ {b} : status'[x] = status[x]
  <2>1. status \in [BR -> Status] /\ "error" \in Status
    BY <1>2 DEF PipelineTypeOK, Status, Finished
  <2>. QED  BY <2>1, <1>2 DEF Exists
<1>5. PipelineTypeOK'
  BY <1>2, <1>3, <1>4 DEF boundVars, PipelineTypeOK
<1>6. RunInv(b)'
  <2>1. status'[b] \in Finished /\ status'[b] # "ready"
    BY <1>4 DEF Finished
  <2>2. /\ Rows(b)' = Rows(b) /\ linked' = linked /\ clustered' = clustered
        /\ source' = source /\ warning' = warning /\ crashes' = crashes
    BY <1>2 DEF Rows, boundVars
  <2>3. \A s \in SRC : Collected(b, s)' /\ WillTry(b, s)'
    BY <1>3, <2>1 DEF Collected, WillTry
  <2>. QED  BY <1>2, <1>3, <1>4, <2>1, <2>2, <2>3 DEF RunInv, Working
<1>. QED  BY <1>2, <1>4, <1>5, <1>6, RunFrame

LEMMA LoseErrorInv ==
    ASSUME PipelineInv, NEW b \in BR, LoseError(b)
    PROVE  PipelineInv'
<1>1. Running(b, "fail")
  BY DEF LoseError
<1>2. /\ up /\ lock = b /\ job.at = "fail" /\ RunInv(b) /\ PipelineTypeOK
      /\ job' = Goto("end") /\ unrecorded' = unrecorded \union {b}
      /\ UNCHANGED <<jobsVars, dbVars, due, boundVars>>
  BY <1>1, RunFacts DEF LoseError
<1>3. job' \in Job /\ job'.at = "end"
  BY <1>2, GotoFacts DEF PipelineTypeOK, Step
<1>4. PipelineTypeOK'
  BY <1>2, <1>3 DEF boundVars, dbVars, PipelineTypeOK
<1>5. RunInv(b)'
  BY <1>2, <1>3 DEF boundVars, jobsVars, dbVars, RunInv, Rows, Collected, WillTry, Working
<1>. QED  BY <1>2, <1>4, <1>5, RunFrame DEF dbVars

LEMMA ResolveSourceInv ==
    ASSUME PipelineInv, NEW b \in BR, NEW s \in SRC, ResolveSource(b, s)
    PROVE  PipelineInv'
<1>. DEFINE alive == source[b][s] # "none"
<1>1. Running(b, "sources")
  BY DEF ResolveSource
<1>2. /\ up /\ lock = b /\ job.at = "sources" /\ RunInv(b) /\ PipelineTypeOK
      /\ job' = [job EXCEPT !.todo = @ \ {s}, !.refs = @ \union RefsOf[s],
                            !.anyOk = @ \/ alive]
      /\ source' = IF alive THEN [source EXCEPT ![b][s] = "ok"] ELSE source
      /\ UNCHANGED <<status, url, warning, linked, clustered>>
      /\ UNCHANGED <<jobsVars, due, unrecorded, boundVars>>
  BY <1>1, RunFacts DEF ResolveSource, InRun
<1>3. /\ job' \in Job /\ job'.at = "sources" /\ job'.todo = job.todo \ {s}
      /\ job'.refs = job.refs \union RefsOf[s]
  <2>1. job \in Job /\ RefsOf[s] \subseteq KM /\ alive \in BOOLEAN
    BY <1>2, PipelineAssumption DEF PipelineTypeOK
  <2>. HIDE DEF alive
  <2>. QED  BY <2>1, <1>2 DEF Job
<1>4. /\ source' \in [BR -> [SRC -> RowStatus]]
      /\ alive => source'[b][s] = "ok"
      /\ ~alive => source'[b][s] = "none"
      /\ \A r \in SRC : r # s => source'[b][r] = source[b][r]
      /\ \A x \in BR \ {b} : source'[x] = source[x]
  <2>1. source \in [BR -> [SRC -> RowStatus]] /\ "ok" \in RowStatus
    BY <1>2 DEF PipelineTypeOK, RowStatus
  <2>2. CASE alive
    BY <1>2, <2>1, <2>2, SetRow
  <2>3. CASE ~alive
    BY <1>2, <2>1, <2>3
  <2>. QED  BY <2>2, <2>3
<1>. HIDE DEF alive
<1>5. PipelineTypeOK'
  BY <1>2, <1>3, <1>4 DEF boundVars, PipelineTypeOK
<1>6. RunInv(b)'
  <2>1. status[b] \notin {"new", "ready"}
    BY <1>2 DEF RunInv, Working
  <2>2. status[b] = "deleted" => Rows(b)' = {} /\ linked'[b] = {} /\ clustered'[b] = {}
    BY <1>2, <1>4 DEF RunInv, Rows, alive
  <2>3. ASSUME NEW r \in SRC, source'[b][r] = "ok" PROVE Collected(b, r)'
    BY <1>2, <1>3, <1>4, <2>3 DEF RunInv, Collected
  <2>4. ASSUME NEW r \in SRC, crashes = 0, source'[b][r] = "pending"
        PROVE  due[b] > 0 \/ b \in rerun \/ WillTry(b, r)'
    BY <1>2, <1>3, <1>4, <2>4 DEF RunInv, WillTry, Early, alive
  <2>5. rerun' = rerun /\ crashes' = crashes
    BY <1>2 DEF jobsVars, boundVars
  <2>. QED  BY <1>2, <1>3, <2>1, <2>2, <2>3, <2>4, <2>5 DEF RunInv, Working
<1>. QED  BY <1>2, <1>4, <1>5, <1>6, RunFrame

LEMMA SourceFailsInv ==
    ASSUME PipelineInv, NEW b \in BR, NEW s \in SRC, SourceFails(b, s)
    PROVE  PipelineInv'
<1>. DEFINE alive == source[b][s] # "none"
<1>1. Running(b, "sources")
  BY DEF SourceFails
<1>2. /\ up /\ lock = b /\ job.at = "sources" /\ RunInv(b) /\ PipelineTypeOK
      /\ job' = [job EXCEPT !.todo = @ \ {s}]
      /\ source' = IF alive THEN [source EXCEPT ![b][s] = "error"] ELSE source
      /\ UNCHANGED <<status, url, warning, linked, clustered>>
      /\ UNCHANGED <<jobsVars, due, unrecorded, boundVars>>
  BY <1>1, RunFacts DEF SourceFails, InRun
<1>3. /\ job' \in Job /\ job'.at = "sources" /\ job'.todo = job.todo \ {s}
      /\ job'.refs = job.refs
  BY <1>2 DEF PipelineTypeOK, Job
<1>4. /\ source' \in [BR -> [SRC -> RowStatus]]
      /\ source'[b][s] \in {"none", "error"}
      /\ ~alive => source'[b][s] = "none"
      /\ \A r \in SRC : r # s => source'[b][r] = source[b][r]
      /\ \A x \in BR \ {b} : source'[x] = source[x]
  <2>1. source \in [BR -> [SRC -> RowStatus]] /\ "error" \in RowStatus
    BY <1>2 DEF PipelineTypeOK, RowStatus
  <2>2. CASE alive
    BY <1>2, <2>1, <2>2, SetRow
  <2>3. CASE ~alive
    BY <1>2, <2>1, <2>3
  <2>. QED  BY <2>2, <2>3
<1>5. PipelineTypeOK'
  BY <1>2, <1>3, <1>4 DEF boundVars, PipelineTypeOK
<1>6. RunInv(b)'
  <2>1. status[b] \notin {"new", "ready"}
    BY <1>2 DEF RunInv, Working
  <2>2. status[b] = "deleted" => Rows(b)' = {} /\ linked'[b] = {} /\ clustered'[b] = {}
    BY <1>2, <1>4 DEF RunInv, Rows
  <2>3. ASSUME NEW r \in SRC, source'[b][r] = "ok" PROVE Collected(b, r)'
    BY <1>2, <1>3, <1>4, <2>3 DEF RunInv, Collected
  <2>4. ASSUME NEW r \in SRC, crashes = 0, source'[b][r] = "pending"
        PROVE  due[b] > 0 \/ b \in rerun \/ WillTry(b, r)'
    BY <1>2, <1>3, <1>4, <2>4 DEF RunInv, WillTry, Early
  <2>5. rerun' = rerun /\ crashes' = crashes
    BY <1>2 DEF jobsVars, boundVars
  <2>. QED  BY <1>2, <1>3, <2>1, <2>2, <2>3, <2>4, <2>5 DEF RunInv, Working
<1>. QED  BY <1>2, <1>4, <1>5, <1>6, RunFrame

\* Some of the refs that are as many as the refs are all of them.
LEMMA GotThemAll ==
    ASSUME NEW refs \in SUBSET KM, NEW got \in SUBSET refs,
           ~(Cardinality(got) < Cardinality(refs))
    PROVE  got = refs
<1>1. IsFiniteSet(refs)
  BY PipelineAssumption, FS_Subset
<1>2. /\ IsFiniteSet(got) /\ Cardinality(got) <= Cardinality(refs)
      /\ Cardinality(got) = Cardinality(refs) => refs = got
  BY <1>1, FS_Subset
<1>3. Cardinality(got) \in Nat /\ Cardinality(refs) \in Nat
  BY <1>1, <1>2, FS_CardinalityType
<1>. QED  BY <1>2, <1>3

LEMMA FetchKillmailsInv ==
    ASSUME PipelineInv, NEW b \in BR, FetchKillmails(b)
    PROVE  PipelineInv'
<1>1. Running(b, "fetch")
  BY DEF FetchKillmails
<1>2. /\ up /\ lock = b /\ job.at = "fetch" /\ RunInv(b) /\ PipelineTypeOK
      /\ job.refs \subseteq KM
      /\ UNCHANGED <<status, url, source, linked, clustered>>
      /\ UNCHANGED <<jobsVars, due, unrecorded, boundVars>>
  BY <1>1, RunFacts DEF FetchKillmails, InRun
<1>3. PICK got \in SUBSET job.refs :
         IF Exists(b)
           THEN /\ job' = [Goto("persist") EXCEPT !.got = got]
                /\ warning' = [warning EXCEPT ![b] =
                     job.refs = {} \/ Cardinality(got) < Cardinality(job.refs)]
           ELSE job' = Goto("fail") /\ warning' = warning
  BY DEF FetchKillmails
<1>4. Rows(b)' = Rows(b) /\ rerun' = rerun /\ crashes' = crashes
  BY <1>2 DEF Rows, jobsVars, boundVars
<1>5. /\ \A s \in SRC : source[b][s] = "ok" => RefsOf[s] \subseteq job.refs
      /\ \A s \in SRC : crashes = 0 /\ source[b][s] = "pending" => due[b] > 0 \/ b \in rerun
      /\ status[b] \notin {"new", "ready"}
  BY <1>2 DEF RunInv, Collected, WillTry, Working, Early
<1>6. CASE Exists(b)
  <2>. DEFINE short == job.refs = {} \/ Cardinality(got) < Cardinality(job.refs)
  <2>1. job' = [Goto("persist") EXCEPT !.got = got] /\ warning' = [warning EXCEPT ![b] = short]
    BY <1>3, <1>6
  <2>2. job' \in Job /\ job'.at = "persist" /\ job'.got = got
    BY <1>2, <2>1 DEF PipelineTypeOK, Goto, Job, Step
  <2>3. short \in BOOLEAN /\ (~short => got = job.refs)
    BY <1>2, GotThemAll
  <2>. HIDE DEF short
  <2>4. /\ warning' \in [BR -> BOOLEAN] /\ warning'[b] = short
        /\ \A x \in BR \ {b} : warning'[x] = warning[x]
    BY <1>2, <2>1, <2>3 DEF PipelineTypeOK
  <2>5. PipelineTypeOK'
    BY <1>2, <2>2, <2>4 DEF boundVars, PipelineTypeOK
  <2>6. \A s \in SRC : source[b][s] = "ok" => Collected(b, s)'
    BY <1>5, <2>2, <2>3, <2>4 DEF Collected
  <2>7. RunInv(b)'
    BY <1>2, <1>4, <1>5, <2>2, <2>6 DEF RunInv, Working
  <2>. QED  BY <1>2, <2>4, <2>5, <2>7, RunFrame
<1>7. CASE ~Exists(b)
  <2>1. job' \in Job /\ job'.at = "fail" /\ warning' = warning
    BY <1>2, <1>3, <1>7, GotoFacts DEF PipelineTypeOK, Step
  <2>2. PipelineTypeOK'
    BY <1>2, <2>1 DEF boundVars, PipelineTypeOK
  <2>3. \A s \in SRC : Collected(b, s)'
    BY <2>1 DEF Collected
  <2>4. RunInv(b)'
    BY <1>2, <1>4, <1>5, <2>1, <2>3 DEF RunInv, Working
  <2>. QED  BY <1>2, <2>1, <2>2, <2>4, RunFrame
<1>. QED  BY <1>6, <1>7

LEMMA LinkKillmailsInv ==
    ASSUME PipelineInv, NEW b \in BR, LinkKillmails(b)
    PROVE  PipelineInv'
<1>1. Running(b, "link")
  BY DEF LinkKillmails
<1>2. /\ up /\ lock = b /\ job.at = "link" /\ RunInv(b) /\ PipelineTypeOK
      /\ job.got \subseteq KM /\ job \in Job
      /\ UNCHANGED <<status, url, source, warning, clustered>>
      /\ UNCHANGED <<jobsVars, due, unrecorded, boundVars>>
  BY <1>1, RunFacts DEF LinkKillmails, InRun, PipelineTypeOK
<1>3. Rows(b)' = Rows(b) /\ rerun' = rerun /\ crashes' = crashes
  BY <1>2 DEF Rows, jobsVars, boundVars
<1>4. /\ \A s \in SRC : source[b][s] = "ok" => warning[b] \/ RefsOf[s] \subseteq job.got
      /\ \A s \in SRC : crashes = 0 /\ source[b][s] = "pending" => due[b] > 0 \/ b \in rerun
      /\ status[b] \notin {"new", "ready"}
  BY <1>2 DEF RunInv, Collected, WillTry, Working, Early
<1>5. CASE Exists(b) \/ job.got = {}
  <2>1. linked' = [linked EXCEPT ![b] = @ \union job.got] /\ job' = Goto("cluster")
    BY <1>5 DEF LinkKillmails
  <2>2. job' \in Job /\ job'.at = "cluster"
    BY <1>2, <2>1, GotoFacts DEF Step
  <2>3. /\ linked' \in [BR -> SUBSET KM] /\ linked'[b] = linked[b] \union job.got
        /\ \A x \in BR \ {b} : linked'[x] = linked[x]
    BY <1>2, <2>1 DEF PipelineTypeOK
  <2>4. PipelineTypeOK'
    BY <1>2, <2>2, <2>3 DEF boundVars, PipelineTypeOK
  <2>5. \A s \in SRC : source[b][s] = "ok" => Collected(b, s)'
    BY <1>2, <1>4, <2>2, <2>3 DEF Collected
  <2>6. status[b] = "deleted" => linked'[b] = {}
    BY <1>2, <1>5, <2>3 DEF RunInv, Exists
  <2>7. RunInv(b)'
    BY <1>2, <1>3, <1>4, <2>2, <2>5, <2>6 DEF RunInv, Working
  <2>. QED  BY <1>2, <2>3, <2>4, <2>7, RunFrame
<1>6. CASE ~(Exists(b) \/ job.got = {})
  <2>1. linked' = linked /\ job' = Goto("fail")
    BY <1>6 DEF LinkKillmails
  <2>2. job' \in Job /\ job'.at = "fail"
    BY <1>2, <2>1, GotoFacts DEF Step
  <2>3. PipelineTypeOK'
    BY <1>2, <2>1, <2>2 DEF boundVars, PipelineTypeOK
  <2>4. \A s \in SRC : Collected(b, s)'
    BY <2>2 DEF Collected
  <2>5. RunInv(b)'
    BY <1>2, <1>3, <1>4, <2>1, <2>2, <2>4 DEF RunInv, Working
  <2>. QED  BY <1>2, <2>1, <2>3, <2>5, RunFrame
<1>. QED  BY <1>5, <1>6

-----------------------------------------------------------------------------
(* The handlers.                                                           *)

\* An edit of b that leaves a handler about to schedule it (or nothing of it),
\* and resolves no source by itself.
LEMMA EditFrame ==
    ASSUME PipelineInv, NEW b \in BR, up,
           UNCHANGED <<jobsVars, job, unrecorded, crashes>>,
           PipelineTypeOK',
           \A x \in BR \ {b} :
             /\ status'[x] = status[x] /\ source'[x] = source[x]
             /\ warning'[x] = warning[x] /\ linked'[x] = linked[x]
             /\ clustered'[x] = clustered[x] /\ due'[x] = due[x],
           \/ due'[b] > 0
           \/ status'[b] = "deleted" /\ \A s \in SRC : source'[b][s] = "none",
           status'[b] = "deleted" =>
             (\A s \in SRC : source'[b][s] = "none") /\ linked'[b] = {} /\ clustered'[b] = {},
           lock = b /\ job.at \in Working => status'[b] \notin {"new", "ready"},
           \A s \in SRC : source'[b][s] = "ok" =>
             /\ source[b][s] = "ok" /\ linked'[b] = linked[b]
             /\ clustered'[b] = clustered[b] /\ warning'[b] = warning[b]
             /\ status'[b] = "ready" => status[b] = "ready"
    PROVE  PipelineInv'
<1>. USE DEF PipelineInv
<1>1. /\ lock' = lock /\ up' = up /\ running' = running /\ rerun' = rerun
      /\ job' = job /\ unrecorded' = unrecorded /\ crashes' = crashes
  BY DEF jobsVars
<1>2. JobsInv'
  BY JobsUntouched
<1>3. QuietOutsideRuns'
  BY <1>1 DEF QuietOutsideRuns
<1>4. UnfinishedIsOwned'
  BY <1>1 DEF UnfinishedIsOwned, Finished
<1>5. EndedIsOwned'
  BY <1>1 DEF EndedIsOwned, Finished
<1>6. WorkIsMarked'
  BY <1>1 DEF WorkIsMarked
<1>7. DeletedLeavesNothing'
  BY <1>1 DEF DeletedLeavesNothing, Rows
<1>8. ResolvedIsCarried'
  <2>. SUFFICES ASSUME NEW x \in BR, NEW s \in SRC, lock' = x, source'[x][s] = "ok"
                PROVE  Collected(x, s)'
    BY DEF ResolvedIsCarried
  <2>1. source[x][s] = "ok" /\ linked'[x] = linked[x] /\ clustered'[x] = clustered[x]
        /\ warning'[x] = warning[x]
    OBVIOUS
  <2>2. Collected(x, s)
    BY <1>1, <2>1 DEF ResolvedIsCarried
  <2>. QED  BY <1>1, <2>1, <2>2 DEF Collected
<1>9. CleanReadyIsComplete'
  BY <1>1 DEF CleanReadyIsComplete
<1>10. PendingIsAwaited'
  <2>. SUFFICES ASSUME NEW x \in BR, NEW s \in SRC, crashes = 0, source'[x][s] = "pending"
                PROVE  \/ due'[x] > 0
                       \/ x \in rerun
                       \/ lock # x /\ (x \in running \/ status'[x] # "ready" \/ x \in unrecorded)
                       \/ lock = x /\ WillTry(x, s)'
    BY <1>1 DEF PendingIsAwaited
  <2>1. CASE x = b
    BY <2>1
  <2>2. CASE x # b
    <3>1. source[x][s] = "pending" /\ due'[x] = due[x] /\ status'[x] = status[x]
      BY <2>2
    <3>. QED  BY <1>1, <3>1 DEF PendingIsAwaited, WillTry
  <2>. QED  BY <2>1, <2>2
<1>. QED  BY <1>2, <1>3, <1>4, <1>5, <1>6, <1>7, <1>8, <1>9, <1>10

\* The handler that committed an edit is going to schedule the report.
LEMMA EditFacts ==
    ASSUME PipelineTypeOK, NEW b \in BR, Edit(b)
    PROVE  /\ up /\ UNCHANGED <<jobsVars, job, unrecorded, crashes>>
           /\ due' \in [BR -> Nat] /\ due'[b] > 0
           /\ \A x \in BR \ {b} : due'[x] = due[x]
  BY DEF Edit, PipelineTypeOK

LEMMA CreateBrInv ==
    ASSUME PipelineInv, NEW b \in BR, CreateBr(b)
    PROVE  PipelineInv'
<1>1. PipelineTypeOK /\ WorkIsMarked
  BY DEF PipelineInv
<1>2. Edit(b) /\ status[b] = "new" /\ status' = [status EXCEPT ![b] = "pending"]
      /\ UNCHANGED <<warning, linked, clustered>>
  BY DEF CreateBr
<1>3. PICK S \in (SUBSET SRC) \ {{}} :
         /\ source' = [source EXCEPT ![b] =
                         [s \in SRC |-> IF s \in S THEN "pending" ELSE "none"]]
         /\ url' = [url EXCEPT ![b] = IF S \cap Links = {} THEN NoUrl
                                       ELSE CHOOSE s \in S \cap Links : TRUE]
  BY DEF CreateBr
<1>4. /\ up /\ UNCHANGED <<jobsVars, job, unrecorded, crashes>>
      /\ due' \in [BR -> Nat] /\ due'[b] > 0
      /\ \A x \in BR \ {b} : due'[x] = due[x]
  BY <1>1, <1>2, EditFacts
<1>5. /\ status' \in [BR -> Status] /\ status'[b] = "pending"
      /\ \A x \in BR \ {b} : status'[x] = status[x]
  BY <1>1, <1>2 DEF PipelineTypeOK, Status
<1>6. url' \in [BR -> SRC \union {NoUrl}]
  <2>1. S \cap Links # {} => (CHOOSE s \in S \cap Links : TRUE) \in SRC
    OBVIOUS
  <2>. QED  BY <1>1, <1>3, <2>1 DEF PipelineTypeOK
<1>7. /\ source' \in [BR -> [SRC -> RowStatus]]
      /\ \A s \in SRC : source'[b][s] # "ok"
      /\ \A x \in BR \ {b} : source'[x] = source[x]
  <2>. DEFINE rows == [s \in SRC |-> IF s \in S THEN "pending" ELSE "none"]
  <2>1. rows \in [SRC -> RowStatus] /\ \A s \in SRC : rows[s] # "ok"
    BY DEF RowStatus
  <2>. HIDE DEF rows
  <2>. QED  BY <1>1, <1>3, <2>1 DEF PipelineTypeOK, rows
<1>8. PipelineTypeOK'
  BY <1>1, <1>2, <1>4, <1>5, <1>6, <1>7 DEF PipelineTypeOK
<1>9. ~(lock = b /\ job.at \in Working)
  BY <1>1, <1>2 DEF WorkIsMarked
<1>. QED  BY <1>2, <1>4, <1>5, <1>7, <1>8, <1>9, EditFrame

\* A source row that appears or disappears.
LEMMA RowEditInv ==
    ASSUME PipelineInv, NEW b \in BR, NEW s \in SRC, NEW v \in {"none", "pending"},
           Exists(b), source' = [source EXCEPT ![b][s] = v], Edit(b),
           UNCHANGED <<status, url, warning, linked, clustered>>
    PROVE  PipelineInv'
<1>1. PipelineTypeOK /\ WorkIsMarked
  BY DEF PipelineInv
<1>2. /\ up /\ UNCHANGED <<jobsVars, job, unrecorded, crashes>>
      /\ due' \in [BR -> Nat] /\ due'[b] > 0
      /\ \A x \in BR \ {b} : due'[x] = due[x]
  BY <1>1, EditFacts
<1>3. /\ source' \in [BR -> [SRC -> RowStatus]]
      /\ source'[b][s] = v
      /\ \A r \in SRC : r # s => source'[b][r] = source[b][r]
      /\ \A x \in BR \ {b} : source'[x] = source[x]
  <2>1. source \in [BR -> [SRC -> RowStatus]] /\ v \in RowStatus
    BY <1>1 DEF PipelineTypeOK, RowStatus
  <2>. QED  BY <2>1, SetRow
<1>4. \A r \in SRC : source'[b][r] = "ok" => source[b][r] = "ok"
  BY <1>3
<1>5. PipelineTypeOK'
  BY <1>1, <1>2, <1>3 DEF PipelineTypeOK
<1>6. status[b] # "deleted" /\ (lock = b /\ job.at \in Working => status[b] \notin {"new", "ready"})
  BY <1>1 DEF Exists, WorkIsMarked
<1>. QED  BY <1>2, <1>3, <1>4, <1>5, <1>6, EditFrame

LEMMA RefreshBrInv ==
    ASSUME PipelineInv, NEW b \in BR, RefreshBr(b)
    PROVE  PipelineInv'
<1>1. PipelineTypeOK /\ WorkIsMarked
  BY DEF PipelineInv
<1>2. /\ Exists(b) /\ UNCHANGED dbVars
      /\ up /\ UNCHANGED <<jobsVars, job, unrecorded, crashes>>
      /\ due' \in [BR -> Nat] /\ due'[b] > 0
      /\ \A x \in BR \ {b} : due'[x] = due[x]
  BY <1>1, EditFacts DEF RefreshBr
<1>3. PipelineTypeOK'
  BY <1>1, <1>2 DEF PipelineTypeOK, dbVars
<1>4. status[b] # "deleted" /\ (lock = b /\ job.at \in Working => status[b] \notin {"new", "ready"})
  BY <1>1, <1>2 DEF Exists, WorkIsMarked
<1>. QED  BY <1>2, <1>3, <1>4, EditFrame DEF dbVars

LEMMA DeleteBrInv ==
    ASSUME PipelineInv, NEW b \in BR, DeleteBr(b)
    PROVE  PipelineInv'
<1>1. PipelineTypeOK
  BY DEF PipelineInv
<1>2. /\ up /\ status' = [status EXCEPT ![b] = "deleted"]
      /\ source' = [source EXCEPT ![b] = [s \in SRC |-> "none"]]
      /\ linked' = [linked EXCEPT ![b] = {}] /\ clustered' = [clustered EXCEPT ![b] = {}]
      /\ warning' = [warning EXCEPT ![b] = FALSE] /\ url' = [url EXCEPT ![b] = NoUrl]
      /\ UNCHANGED <<jobsVars, job, due, unrecorded, crashes>>
  BY DEF DeleteBr
<1>3. /\ status' \in [BR -> Status] /\ status'[b] = "deleted"
      /\ \A x \in BR \ {b} : status'[x] = status[x]
  BY <1>1, <1>2 DEF PipelineTypeOK, Status, Finished
<1>4. /\ source' \in [BR -> [SRC -> RowStatus]]
      /\ \A s \in SRC : source'[b][s] = "none"
      /\ \A x \in BR \ {b} : source'[x] = source[x]
  <2>. DEFINE rows == [s \in SRC |-> "none"]
  <2>1. rows \in [SRC -> RowStatus] /\ \A s \in SRC : rows[s] = "none"
    BY DEF RowStatus
  <2>. HIDE DEF rows
  <2>. QED  BY <1>1, <1>2, <2>1 DEF PipelineTypeOK, rows
<1>5. /\ linked' \in [BR -> SUBSET KM] /\ linked'[b] = {}
      /\ clustered' \in [BR -> SUBSET KM] /\ clustered'[b] = {}
      /\ \A x \in BR \ {b} : linked'[x] = linked[x] /\ clustered'[x] = clustered[x]
  BY <1>1, <1>2 DEF PipelineTypeOK
<1>6. /\ warning' \in [BR -> BOOLEAN] /\ url' \in [BR -> SRC \union {NoUrl}]
      /\ \A x \in BR \ {b} : warning'[x] = warning[x]
  <2>1. warning' \in [BR -> BOOLEAN] /\ url' \in [BR -> SRC \union {NoUrl}]
    BY <1>1, <1>2 DEF PipelineTypeOK
  <2>. QED  BY <1>1, <1>2, <2>1 DEF PipelineTypeOK
<1>7. PipelineTypeOK'
  BY <1>1, <1>2, <1>3, <1>4, <1>5, <1>6 DEF PipelineTypeOK
<1>. QED  BY <1>2, <1>3, <1>4, <1>5, <1>6, <1>7, EditFrame

LEMMA HandlerInv ==
    ASSUME PipelineInv, NEW b \in BR, Handler(b)
    PROVE  PipelineInv'
<1>1. ASSUME NEW s \in SRC, AddBrSource(b, s) PROVE PipelineInv'
  BY <1>1, RowEditInv DEF AddBrSource
<1>2. ASSUME NEW s \in SRC, DeleteBrSource(b, s) PROVE PipelineInv'
  BY <1>2, RowEditInv DEF DeleteBrSource
<1>. QED  BY <1>1, <1>2, CreateBrInv, RefreshBrInv, DeleteBrInv DEF Handler

-----------------------------------------------------------------------------
(* The scheduler's steps.                                                  *)

LEMMA ScheduleDueInv ==
    ASSUME PipelineInv, NEW b \in BR, ScheduleDue(b)
    PROVE  PipelineInv'
<1>. USE DEF PipelineInv
<1>1. /\ Schedule(b) /\ due' = [due EXCEPT ![b] = @ - 1] /\ due[b] > 0
      /\ UNCHANGED <<dbVars, job, unrecorded, boundVars>>
  BY DEF ScheduleDue
<1>2. JobsInv'
  BY <1>1, ScheduleInv
<1>3. PipelineTypeOK'
  BY <1>1 DEF PipelineTypeOK, dbVars, boundVars
<1>4. /\ lock' = lock /\ up' = up /\ up
      /\ b \in running' /\ running \subseteq running' /\ rerun \subseteq rerun'
      /\ b \in rerun' \/ b \notin running
  BY <1>1 DEF Schedule
<1>5. \A x \in BR : x # b => due'[x] = due[x]
  BY <1>1 DEF PipelineTypeOK
<1>6. lock = b => b \in rerun'
  BY <1>4, HolderRuns
<1>7. QuietOutsideRuns' /\ UnfinishedIsOwned'
  BY <1>1, <1>4, <1>5 DEF QuietOutsideRuns, UnfinishedIsOwned, dbVars, boundVars
<1>8. EndedIsOwned' /\ WorkIsMarked'
  BY <1>1, <1>4, <1>5, <1>6 DEF EndedIsOwned, WorkIsMarked, dbVars
<1>9. DeletedLeavesNothing' /\ CleanReadyIsComplete'
  BY <1>1 DEF DeletedLeavesNothing, CleanReadyIsComplete, Rows, dbVars
<1>10. ResolvedIsCarried'
  BY <1>1, <1>4 DEF ResolvedIsCarried, Collected, dbVars
<1>11. PendingIsAwaited'
  BY <1>1, <1>4, <1>5, <1>6 DEF PendingIsAwaited, WillTry, dbVars, boundVars
<1>. QED  BY <1>2, <1>3, <1>7, <1>8, <1>9, <1>10, <1>11

\* A run about to begin has nothing in hand.
LEMMA FreshJobFacts ==
    /\ FreshJob \in Job
    /\ FreshJob.at = "begin"
  BY DEF FreshJob, Job, Step

LEMMA StartTaskInv ==
    ASSUME PipelineInv, NEW b \in BR, StartTask(b)
    PROVE  PipelineInv'
<1>. USE DEF PipelineInv
<1>1. /\ TaskStart(b) /\ job' = IF lock = NoBr THEN FreshJob ELSE job
      /\ UNCHANGED <<dbVars, due, unrecorded, boundVars>>
  BY DEF StartTask
<1>2. JobsInv'
  BY <1>1, TaskStartInv
<1>3. up' = up /\ running' = running /\ rerun' = rerun
  BY <1>1 DEF TaskStart
<1>4. job' = job
  BY <1>1 DEF QuietOutsideRuns
<1>5. \/ lock' = lock
      \/ lock = NoBr /\ lock' = b /\ job'.at = "begin"
  <2>1. CASE lock = NoBr
    <3>1. PassLock(<<b>>, task) /\ <<b>> # <<>> /\ Head(<<b>>) = b
      BY <1>1, <2>1 DEF TaskStart
    <3>. QED  BY <1>1, <2>1, <3>1, FreshJobFacts DEF PassLock
  <2>2. CASE lock # NoBr
    <3>1. lock' = lock
      BY <1>1, <2>2 DEF TaskStart
    <3>. QED  BY <3>1
  <2>. QED  BY <2>1, <2>2
<1>6. PipelineTypeOK'
  BY <1>1, <1>4 DEF PipelineTypeOK, dbVars, boundVars
<1>7. QuietOutsideRuns' /\ UnfinishedIsOwned'
  BY <1>1, <1>3, <1>4, <1>5, NoBrAssumption
     DEF QuietOutsideRuns, UnfinishedIsOwned, dbVars, boundVars
<1>8. EndedIsOwned' /\ WorkIsMarked'
  BY <1>1, <1>3, <1>4, <1>5 DEF EndedIsOwned, WorkIsMarked, Working, dbVars
<1>9. DeletedLeavesNothing' /\ CleanReadyIsComplete'
  BY <1>1 DEF DeletedLeavesNothing, CleanReadyIsComplete, Rows, dbVars
<1>10. ResolvedIsCarried'
  BY <1>1, <1>4, <1>5 DEF ResolvedIsCarried, Collected, dbVars
<1>11. PendingIsAwaited'
  BY <1>1, <1>3, <1>4, <1>5, NoBrAssumption
     DEF PendingIsAwaited, WillTry, Early, dbVars, boundVars
<1>. QED  BY <1>2, <1>6, <1>7, <1>8, <1>9, <1>10, <1>11

LEMMA EndRunInv ==
    ASSUME PipelineInv, NEW b \in BR, EndRun(b)
    PROVE  PipelineInv'
<1>. USE DEF PipelineInv
<1>1. /\ lock = b /\ job.at = "end" /\ RunEnd(b) /\ job' = FreshJob
      /\ UNCHANGED <<dbVars, due, unrecorded, boundVars>>
  BY DEF EndRun, Running
<1>2. JobsInv'
  BY <1>1, RunEndInv
<1>3. /\ up' = up /\ up /\ rerun' = rerun \ {b}
      /\ b \in rerun => running' = running
      /\ running' = running \/ running' = running \ {b}
  BY <1>1 DEF RunEnd
<1>4. job' \in Job /\ job'.at = "begin"
  BY <1>1, FreshJobFacts
<1>5. PipelineTypeOK'
  BY <1>1, <1>4 DEF PipelineTypeOK, dbVars, boundVars
<1>6. b \in running
  BY <1>1, HolderRuns
<1>7. QuietOutsideRuns' /\ UnfinishedIsOwned'
  BY <1>1, <1>3, <1>6 DEF QuietOutsideRuns, UnfinishedIsOwned, EndedIsOwned, dbVars, boundVars
<1>8. EndedIsOwned' /\ WorkIsMarked'
  BY <1>4 DEF EndedIsOwned, WorkIsMarked, Working
<1>9. DeletedLeavesNothing' /\ CleanReadyIsComplete'
  BY <1>1 DEF DeletedLeavesNothing, CleanReadyIsComplete, Rows, dbVars
<1>10. ResolvedIsCarried'
  BY <1>4 DEF ResolvedIsCarried, Collected
<1>11. PendingIsAwaited'
  <2>. SUFFICES ASSUME NEW x \in BR, NEW s \in SRC, crashes = 0, source[x][s] = "pending",
                       ~(due[x] > 0), lock' # x
                PROVE  x \in rerun' \/ x \in running' \/ status[x] # "ready" \/ x \in unrecorded
    BY <1>1, <1>4 DEF PendingIsAwaited, WillTry, Early, dbVars, boundVars
  <2>1. \/ x \in rerun
        \/ lock # x /\ (x \in running \/ status[x] # "ready" \/ x \in unrecorded)
        \/ lock = x /\ WillTry(x, s)
    BY DEF PendingIsAwaited
  <2>2. CASE x = b
    BY <1>1, <1>3, <1>6, <2>1, <2>2 DEF WillTry, Early
  <2>3. CASE x # b
    BY <1>1, <1>3, <2>1, <2>3
  <2>. QED  BY <2>2, <2>3
<1>. QED  BY <1>2, <1>5, <1>7, <1>8, <1>9, <1>10, <1>11

LEMMA CrashWorkerInv ==
    ASSUME PipelineInv, CrashWorker
    PROVE  PipelineInv'
<1>. USE DEF PipelineInv
<1>1. /\ Crash /\ job' = FreshJob /\ due' = [b \in BR |-> 0] /\ crashes' = crashes + 1
      /\ UNCHANGED <<dbVars, unrecorded, edits>>
  BY DEF CrashWorker
<1>2. JobsInv'
  BY <1>1, CrashInv
<1>3. up' = FALSE /\ lock' = NoBr
  BY <1>1 DEF Crash
<1>4. crashes' \in Nat /\ crashes' # 0
  BY <1>1 DEF PipelineTypeOK
<1>5. PipelineTypeOK'
  BY <1>1, <1>4, FreshJobFacts DEF PipelineTypeOK, dbVars
<1>6. QuietOutsideRuns' /\ UnfinishedIsOwned'
  BY <1>1, <1>3, <1>4 DEF QuietOutsideRuns, UnfinishedIsOwned
<1>7. EndedIsOwned' /\ WorkIsMarked' /\ ResolvedIsCarried'
  BY <1>3, NoBrAssumption DEF EndedIsOwned, WorkIsMarked, ResolvedIsCarried
<1>8. DeletedLeavesNothing' /\ CleanReadyIsComplete'
  BY <1>1 DEF DeletedLeavesNothing, CleanReadyIsComplete, Rows, dbVars
<1>9. PendingIsAwaited'
  BY <1>4 DEF PendingIsAwaited
<1>. QED  BY <1>2, <1>5, <1>6, <1>7, <1>8, <1>9

LEMMA RestartWorkerInv ==
    ASSUME PipelineInv, RestartWorker
    PROVE  PipelineInv'
<1>. USE DEF PipelineInv
<1>1. Restart(Swept) /\ unrecorded' = {} /\ UNCHANGED <<dbVars, job, due, boundVars>>
  BY DEF RestartWorker
<1>2. Swept \subseteq BR
  BY DEF Swept
<1>3. JobsInv'
  BY <1>1, <1>2, RestartInv
<1>4. ~up /\ lock = NoBr /\ lock' = NoBr /\ running = {} /\ rerun = {} /\ running' = Swept
  BY <1>1, DownFacts DEF Restart
<1>5. PipelineTypeOK'
  BY <1>1 DEF PipelineTypeOK, dbVars, boundVars
<1>6. QuietOutsideRuns'
  BY <1>1, <1>4 DEF QuietOutsideRuns
<1>7. UnfinishedIsOwned'
  BY <1>1, <1>4
     DEF UnfinishedIsOwned, PipelineTypeOK, Swept, NonTerminal, Status, Finished, dbVars
<1>8. EndedIsOwned' /\ WorkIsMarked' /\ ResolvedIsCarried'
  BY <1>4, NoBrAssumption DEF EndedIsOwned, WorkIsMarked, ResolvedIsCarried
<1>9. DeletedLeavesNothing' /\ CleanReadyIsComplete'
  BY <1>1 DEF DeletedLeavesNothing, CleanReadyIsComplete, Rows, dbVars
<1>10. PendingIsAwaited'
  BY <1>1, <1>4, NoBrAssumption DEF PendingIsAwaited, QuietOutsideRuns, dbVars, boundVars
<1>. QED  BY <1>3, <1>5, <1>6, <1>7, <1>8, <1>9, <1>10

-----------------------------------------------------------------------------
LEMMA RunStepInv ==
    ASSUME PipelineInv, NEW b \in BR, RunStep(b)
    PROVE  PipelineInv'
<1>1. ASSUME NEW s \in SRC, ResolveSource(b, s) PROVE PipelineInv'
  BY <1>1, ResolveSourceInv
<1>2. ASSUME NEW s \in SRC, SourceFails(b, s) PROVE PipelineInv'
  BY <1>2, SourceFailsInv
<1>3. CASE Begin(b) \/ MarkResolving(b) \/ LoadSources(b) \/ AllSourcesDone(b)
  BY <1>3, BeginInv, MarkResolvingInv, LoadSourcesInv, AllSourcesDoneInv
<1>4. CASE MarkEnriching(b) \/ FetchKillmails(b) \/ MarkPersisting(b) \/ LinkKillmails(b)
  BY <1>4, MarkEnrichingInv, FetchKillmailsInv, MarkPersistingInv, LinkKillmailsInv
<1>5. CASE MarkClustering(b) \/ Aggregate(b) \/ MarkReady(b)
  BY <1>5, MarkClusteringInv, AggregateInv, MarkReadyInv
<1>6. CASE RunFails(b) \/ RecordError(b) \/ LoseError(b) \/ EndRun(b)
  BY <1>6, RunFailsInv, RecordErrorInv, LoseErrorInv, EndRunInv
<1>. QED  BY <1>1, <1>2, <1>3, <1>4, <1>5, <1>6 DEF RunStep

LEMMA StepPipelineInv == PipelineInv /\ [PipelineNext]_pipelineVars => PipelineInv'
<1>. SUFFICES ASSUME PipelineInv, [PipelineNext]_pipelineVars PROVE PipelineInv'
  OBVIOUS
<1>1. ASSUME NEW b \in BR, Handler(b) PROVE PipelineInv'
  BY <1>1, HandlerInv
<1>2. ASSUME NEW b \in BR, ScheduleDue(b) PROVE PipelineInv'
  BY <1>2, ScheduleDueInv
<1>3. ASSUME NEW b \in BR, StartTask(b) PROVE PipelineInv'
  BY <1>3, StartTaskInv
<1>4. ASSUME NEW b \in BR, RunStep(b) PROVE PipelineInv'
  BY <1>4, RunStepInv
<1>5. CASE CrashWorker
  BY <1>5, CrashWorkerInv
<1>6. CASE RestartWorker
  BY <1>6, RestartWorkerInv
<1>7. CASE UNCHANGED pipelineVars
  <2>1. UNCHANGED <<jobsVars, dbVars, job, due, unrecorded, boundVars>>
    BY <1>7 DEF pipelineVars
  <2>2. JobsInv'
    BY <2>1, JobsUntouched DEF PipelineInv
  <2>. QED
    BY <2>1, <2>2 DEF jobsVars, dbVars, boundVars, PipelineInv, PipelineTypeOK,
       QuietOutsideRuns, UnfinishedIsOwned, EndedIsOwned, DeletedLeavesNothing,
       WorkIsMarked, ResolvedIsCarried, CleanReadyIsComplete, PendingIsAwaited,
       Rows, Collected, WillTry
<1>. QED  BY <1>1, <1>2, <1>3, <1>4, <1>5, <1>6, <1>7 DEF PipelineNext

\* The invariant holds in every reachable state of the pipeline.
THEOREM PipelineSafety == PipelineSpec => []PipelineInv
<1>. QED  BY InitPipelineInv, StepPipelineInv, PTL DEF PipelineSpec

\* No report is stranded in a status that says work is going on, whatever edits,
\* failures, crashes and sweeps it has been through (run_ingest, sweep_pending).
THEOREM NobodyIsStranded == PipelineSpec => []UnfinishedIsOwned
<1>1. PipelineInv => UnfinishedIsOwned
  BY DEF PipelineInv
<1>. QED  BY <1>1, PipelineSafety, PTL

\* A ready report without a warning has every killmail of its resolved sources
\* (run_ingest, phases 1 to 4).
THEOREM CleanMeansComplete == PipelineSpec => []CleanReadyIsComplete
<1>1. PipelineInv => CleanReadyIsComplete
  BY DEF PipelineInv
<1>. QED  BY <1>1, PipelineSafety, PTL

\* A run in progress while delete_br removes its report writes nothing of it back.
THEOREM DeletedStaysDeleted == PipelineSpec => []DeletedLeavesNothing
<1>1. PipelineInv => DeletedLeavesNothing
  BY DEF PipelineInv
<1>. QED  BY <1>1, PipelineSafety, PTL

\* A source added at any moment of any run has been tried by the time the report
\* rests (add_br_source, the re-run of _run_ingest_serialized).
THEOREM NoSourceIsForgotten == PipelineSpec => []AddedSourceIsTried
<1>1. PipelineInv => AddedSourceIsTried
  <2>. SUFFICES ASSUME PipelineInv, NEW b \in BR, NEW s \in SRC, crashes = 0,
                       b \notin unrecorded, status[b] = "ready", b \notin running, due[b] = 0,
                       source[b][s] = "pending"
                PROVE  FALSE
    BY DEF AddedSourceIsTried
  <2>1. lock # b /\ b \notin rerun /\ ~(due[b] > 0)
    BY HolderRuns DEF PipelineInv, JobsInv, BookkeepingExact
  <2>. QED  BY <2>1 DEF PipelineInv, PendingIsAwaited
<1>. QED  BY <1>1, PipelineSafety, PTL

\* The scheduler of the running system behaves as IngestJobs says.
LEMMA StepIsJobs == [PipelineNext]_pipelineVars => [JobsNext]_jobsVars
<1>. SUFFICES ASSUME [PipelineNext]_pipelineVars PROVE [JobsNext]_jobsVars
  OBVIOUS
<1>1. ASSUME NEW b \in BR, Handler(b) PROVE [JobsNext]_jobsVars
  BY <1>1 DEF Handler, CreateBr, RefreshBr, DeleteBr, AddBrSource, DeleteBrSource, Edit
<1>2. ASSUME NEW b \in BR, ScheduleDue(b) PROVE [JobsNext]_jobsVars
  BY <1>2 DEF ScheduleDue, JobsNext
<1>3. ASSUME NEW b \in BR, StartTask(b) PROVE [JobsNext]_jobsVars
  BY <1>3 DEF StartTask, JobsNext
<1>4. ASSUME NEW b \in BR, RunStep(b) PROVE [JobsNext]_jobsVars
  <2>1. CASE EndRun(b)
    BY <2>1 DEF EndRun, JobsNext
  <2>2. CASE ~EndRun(b)
    BY <1>4, <2>2 DEF RunStep, Begin, MarkResolving, LoadSources, ResolveSource, SourceFails,
       AllSourcesDone, MarkEnriching, FetchKillmails, MarkPersisting, LinkKillmails,
       MarkClustering, Aggregate, MarkReady, RunFails, RecordError, LoseError, InRun
  <2>. QED  BY <2>1, <2>2
<1>5. CASE CrashWorker
  BY <1>5 DEF CrashWorker, JobsNext
<1>6. CASE RestartWorker
  BY <1>6 DEF RestartWorker, JobsNext, Swept
<1>7. CASE UNCHANGED pipelineVars
  BY <1>7 DEF pipelineVars
<1>. QED  BY <1>1, <1>2, <1>3, <1>4, <1>5, <1>6, <1>7 DEF PipelineNext

\* The pipeline runs under the scheduler: every behaviour of it is one of
\* JobsSpec, so that the scheduler's theorems hold of the pipeline.
THEOREM PipelineUsesTheScheduler == PipelineSpec => JobsSpec
<1>1. PipelineInit => JobsInit
  BY DEF PipelineInit
<1>. QED  BY <1>1, StepIsJobs, PTL DEF PipelineSpec, JobsSpec

-----------------------------------------------------------------------------
(* The worker's life.                                                      *)

DataBase == [tables : SUBSET TABLE, cols : SUBSET COLUMN, done : SUBSET Nat,
             version : Nat, made : Nat, born : Nat]

\* The columns of V that belong to tables there are.
OnTables(d, V) == {c \in AddedBy(V) : TableOf[c] \in d.tables}

\* A database that startups have left, complete or not.  One without a version
\* still has the columns of the code that began it; one with a version has what
\* that version needs, unless two versions created it.
WellFormed(d) ==
    /\ d \in DataBase
    /\ d.done \subseteq 1..d.version /\ d.born <= d.version
    /\ d.version > 0 => d.tables = TABLE /\ d.made <= d.version
    /\ d.version > 0 /\ MadeByOne(d) => AddedBy(1..d.version) \subseteq d.cols
    /\ d.version = 0 => OnTables(d, 1..d.made) \subseteq d.cols
    /\ \A w \in DataVersions : w <= d.version => w \in d.done \/ w <= d.born

\* No database is of a later version than the code that meets it.
DiskOK ==
    /\ code \in Version
    /\ WellFormed(disk) /\ disk.version <= code /\ disk.made <= code

SnapsOK == \A v \in DOMAIN snap : WellFormed(snap[v]) /\ snap[v].version = v

\* What startup has read is what it goes on to work on.
StartupOK ==
    /\ open \in BOOLEAN /\ (open => pc \in {"migrate", "commit"})
    /\ ~open => work = disk
    /\ pc \in {"snapshot", "create", "migrate"} =>
         from = disk.version \/ (from = NoVersion /\ disk.version = 0)
    /\ pc = "snapshot" => from = disk.version

\* Halfway through the migrations, those before next have been made.
MigratedSoFar ==
    pc = "migrate" =>
      /\ work \in DataBase /\ work.tables = TABLE /\ work.made <= code
      /\ work.version = disk.version /\ work.born = disk.born /\ work.made = disk.made
      /\ work.done \subseteq 1..(next - 1)
      /\ \/ from = NoVersion /\ next = code + 1 /\ ~open
         \/ /\ from = disk.version /\ next \in (from + 1)..(code + 1)
            /\ MadeByOne(work) => AddedBy(1..(next - 1)) \subseteq work.cols
            /\ \A w \in DataVersions : w < next => w \in work.done \/ w <= work.born

\* What is stamped is fit to serve.
StampedOK ==
    /\ pc = "commit" => WellFormed(work) /\ work.version = code
    /\ pc = "serving" => disk.version = code

MigrationsInv == DiskOK /\ SnapsOK /\ StartupOK /\ MigratedSoFar /\ StampedOK

WorkerInv == MigrationsInv /\ JobsInv /\ (up => pc = "serving")

-----------------------------------------------------------------------------
LEMMA MigrationsInvInit == Init => MigrationsInv
<1>. SUFFICES ASSUME Init PROVE MigrationsInv
  OBVIOUS
<1>. USE MigrationsAssumption
<1>1. /\ code \in Version /\ code \in Nat /\ work = disk /\ open = FALSE /\ pc = "down"
      /\ snap = [v \in {} |-> Empty]
      /\ disk \in {Empty} \union UNION {Released(v) : v \in 0..code}
  BY DEF Init, Version
<1>2. WellFormed(disk) /\ disk.version <= code /\ disk.made <= code
  <2>1. CASE disk = Empty
    <3>1. Empty \in DataBase
      BY DEF Empty, DataBase
    <3>. QED
      BY <1>1, <2>1, <3>1 DEF Empty, WellFormed, OnTables, Version
  <2>2. ASSUME NEW v \in 0..code, disk \in Released(v)
        PROVE  WellFormed(disk) /\ disk.version <= code /\ disk.made <= code
    <3>1. PICK K \in SUBSET COLUMN :
            /\ disk = [tables |-> TABLE, cols |-> K, done |-> {}, version |-> v,
                        made |-> v, born |-> v]
            /\ v # 0 => K = AddedBy(1..v)
      BY <2>2 DEF Released, AddedBy
    <3>2. disk \in DataBase
      BY <1>1, <3>1 DEF DataBase
    <3>3. OnTables(disk, 1..0) = {}
      BY DEF OnTables, AddedBy
    <3>4. /\ disk.version = v /\ disk.made = v /\ disk.born = v /\ disk.done = {}
          /\ disk.tables = TABLE /\ disk.cols = K /\ v \in Nat /\ v <= code
      BY <1>1, <3>1
    <3>5. disk.version = 0 => OnTables(disk, 1..disk.made) \subseteq disk.cols
      BY <3>3, <3>4
    <3>6. \A w \in DataVersions : w <= disk.version => w \in disk.done \/ w <= disk.born
      BY <3>4
    <3>7. disk.version > 0 => AddedBy(1..disk.version) \subseteq disk.cols
      BY <3>1, <3>4
    <3>. QED  BY <3>2, <3>4, <3>5, <3>6, <3>7 DEF WellFormed
  <2>. QED  BY <1>1, <2>1, <2>2
<1>. QED
  BY <1>1, <1>2
     DEF MigrationsInv, DiskOK, SnapsOK, StartupOK, MigratedSoFar, StampedOK

\* create_all adds a table with the columns the code knows.
LEMMA CreateKeepsForm ==
    ASSUME NEW d, WellFormed(d), d.made <= code, code \in Version, NEW t \in TABLE,
           d.tables # TABLE, t \notin d.tables
    PROVE  LET e == [d EXCEPT !.tables = @ \union {t},
                              !.cols = @ \union {c \in AddedBy(1..code) : TableOf[c] = t},
                              !.made = IF d.tables = {} THEN code ELSE @]
           IN  WellFormed(e) /\ e.version = d.version /\ e.made <= code
<1>. DEFINE e == [d EXCEPT !.tables = @ \union {t},
                           !.cols = @ \union {c \in AddedBy(1..code) : TableOf[c] = t},
                           !.made = IF d.tables = {} THEN code ELSE @]
<1>1. /\ d \in DataBase /\ d.version = 0 /\ code \in Nat
      /\ OnTables(d, 1..d.made) \subseteq d.cols
  BY MigrationsAssumption DEF WellFormed, DataBase, Version
<1>2. AddedBy(1..code) \subseteq COLUMN
  BY DEF AddedBy
<1>3. /\ e.tables = d.tables \union {t}
      /\ e.cols = d.cols \union {c \in AddedBy(1..code) : TableOf[c] = t}
      /\ e.made = IF d.tables = {} THEN code ELSE d.made
      /\ e.version = 0 /\ e.born = d.born /\ e.done = d.done
      /\ e \in DataBase
  BY <1>1, <1>2 DEF DataBase
<1>. HIDE DEF e
<1>4. OnTables(e, 1..e.made) \subseteq e.cols
  <2>. SUFFICES ASSUME NEW c \in OnTables(e, 1..e.made) PROVE c \in e.cols
    OBVIOUS
  <2>1. CASE TableOf[c] = t
    <3>1. c \in COLUMN /\ VersionOf[c] \in 1..e.made
      BY DEF OnTables, AddedBy
    <3>2. e.made \in Nat /\ e.made <= code
      BY <1>1, <1>3 DEF DataBase
    <3>3. VersionOf[c] \in 1..code
      BY <1>1, <3>1, <3>2
    <3>4. c \in AddedBy(1..code)
      BY <3>1, <3>3 DEF AddedBy
    <3>. QED  BY <1>3, <2>1, <3>4
  <2>2. CASE TableOf[c] # t
    <3>1. TableOf[c] \in d.tables /\ e.made = d.made
      BY <1>3, <2>2 DEF OnTables
    <3>. QED  BY <1>1, <1>3, <3>1 DEF OnTables
  <2>. QED  BY <2>1, <2>2
<1>5. /\ e.done \subseteq 1..e.version /\ e.born <= e.version
      /\ \A w \in DataVersions : w <= e.version => w \in e.done \/ w <= e.born
  BY <1>1, <1>3 DEF WellFormed
<1>6. e.made <= code /\ ~(e.version > 0)
  BY <1>1, <1>3
<1>. QED
  <2>1. WellFormed(e) /\ e.version = d.version /\ e.made <= code
    BY <1>1, <1>3, <1>4, <1>5, <1>6 DEF WellFormed
  <2>. QED  BY <2>1 DEF e

\* A column more does no harm.
LEMMA ColumnKeepsForm ==
    ASSUME NEW d, WellFormed(d), NEW c \in COLUMN
    PROVE  LET e == [d EXCEPT !.cols = @ \union {c}] IN
           /\ WellFormed(e) /\ e.version = d.version /\ e.made = d.made
           /\ e.tables = d.tables /\ e.born = d.born /\ e.done = d.done
           /\ e.cols = d.cols \union {c}
<1>. DEFINE e == [d EXCEPT !.cols = @ \union {c}]
<1>1. d \in DataBase
  BY DEF WellFormed
<1>2. /\ e \in DataBase /\ e.version = d.version /\ e.made = d.made
      /\ e.tables = d.tables /\ e.born = d.born /\ e.done = d.done
      /\ e.cols = d.cols \union {c}
  BY <1>1 DEF DataBase
<1>. HIDE DEF e
<1>3. WellFormed(e)
  BY <1>2 DEF WellFormed, OnTables, MadeByOne
<1>. QED  BY <1>2, <1>3 DEF e

-----------------------------------------------------------------------------
(* Startup, one step at a time.                                            *)

LEMMA BootInv ==
    ASSUME MigrationsInv, Boot
    PROVE  MigrationsInv'
<1>. USE DEF MigrationsInv
<1>1. /\ pc = "down" /\ work' = disk /\ UNCHANGED <<code, disk, open, snap>>
      /\ from' = IF Probe \in disk.tables THEN disk.version ELSE NoVersion
      /\ pc' = IF from' \in 0..(code - 1) THEN "snapshot" ELSE "create"
  BY DEF Boot
<1>2. Probe \notin disk.tables => disk.version = 0
  BY MigrationsAssumption DEF DiskOK, WellFormed, DataBase
<1>3. pc' = "snapshot" => from' = disk.version
  BY <1>1 DEF NoVersion
<1>. QED
  BY <1>1, <1>2, <1>3 DEF DiskOK, SnapsOK, StartupOK, MigratedSoFar, StampedOK

LEMMA SnapshotInv ==
    ASSUME MigrationsInv, Snapshot
    PROVE  MigrationsInv'
<1>. USE DEF MigrationsInv
<1>1. /\ pc = "snapshot" /\ pc' = "create"
      /\ snap' = [v \in DOMAIN snap \union {from} |-> IF v = from THEN disk ELSE snap[v]]
      /\ UNCHANGED <<code, disk, work, open, from>>
  BY DEF Snapshot
<1>2. SnapsOK'
  BY <1>1 DEF SnapsOK, StartupOK, DiskOK
<1>. QED
  BY <1>1, <1>2 DEF DiskOK, StartupOK, MigratedSoFar, StampedOK

LEMMA CreateTableInv ==
    ASSUME MigrationsInv, CreateTable
    PROVE  MigrationsInv'
<1>. USE DEF MigrationsInv
<1>1. /\ pc = "create" /\ work.tables # TABLE
      /\ UNCHANGED <<code, open, snap, pc, from, next>>
      /\ open = FALSE /\ work = disk
  BY DEF CreateTable, StartupOK
<1>2. PICK i \in DOMAIN Creation :
        /\ Creation[i] \notin work.tables
        /\ Put([work EXCEPT
                   !.tables = @ \union {Creation[i]},
                   !.cols = @ \union {c \in AddedBy(1..code) : TableOf[c] = Creation[i]},
                   !.made = IF work.tables = {} THEN code ELSE @])
  BY DEF CreateTable
<1>3. Creation[i] \in TABLE
  BY DEF TABLE, ToSet
<1>4. disk' = work' /\ work' = [disk EXCEPT
                   !.tables = @ \union {Creation[i]},
                   !.cols = @ \union {c \in AddedBy(1..code) : TableOf[c] = Creation[i]},
                   !.made = IF disk.tables = {} THEN code ELSE @]
  BY <1>1, <1>2 DEF Put
<1>5. WellFormed(disk') /\ disk'.version = disk.version /\ disk'.made <= code
  <2>1. /\ WellFormed(disk) /\ disk.made <= code /\ code \in Version
        /\ disk.tables # TABLE /\ Creation[i] \notin disk.tables
    BY <1>1, <1>2 DEF DiskOK
  <2>. QED  BY <1>3, <1>4, <2>1, CreateKeepsForm
<1>. QED
  BY <1>1, <1>4, <1>5 DEF DiskOK, SnapsOK, StartupOK, MigratedSoFar, StampedOK

LEMMA StartMigrationsInv ==
    ASSUME MigrationsInv, StartMigrations
    PROVE  MigrationsInv'
<1>. USE DEF MigrationsInv
<1>1. /\ pc = "create" /\ pc' = "migrate" /\ work.tables = TABLE
      /\ next' = IF from = NoVersion THEN code + 1 ELSE from + 1
      /\ UNCHANGED <<code, disk, work, open, snap, from>>
      /\ open = FALSE /\ work = disk
  BY DEF StartMigrations, StartupOK
<1>2. /\ code \in Nat /\ disk \in DataBase /\ disk.version \in Nat /\ disk.version <= code
      /\ disk.made <= code /\ WellFormed(disk)
      /\ from = disk.version \/ (from = NoVersion /\ disk.version = 0)
  BY <1>1, MigrationsAssumption DEF DiskOK, StartupOK, WellFormed, DataBase, Version
<1>3. CASE from = NoVersion
  <2>1. next' = code + 1 /\ disk.done \subseteq 1..code
    BY <1>1, <1>2, <1>3 DEF WellFormed
  <2>2. MigratedSoFar'
    BY <1>1, <1>2, <1>3, <2>1 DEF MigratedSoFar
  <2>. QED  BY <1>1, <1>2, <2>2 DEF DiskOK, SnapsOK, StartupOK, StampedOK
<1>4. CASE from # NoVersion
  <2>1. /\ from = disk.version /\ next' = from + 1 /\ next' - 1 = disk.version
        /\ next' \in (from + 1)..(code + 1)
    BY <1>1, <1>2, <1>4
  <2>2. disk.version = 0 => AddedBy(1..disk.version) = {}
    BY MigrationsAssumption DEF AddedBy
  <2>3. MadeByOne(disk) => AddedBy(1..disk.version) \subseteq disk.cols
    BY <1>2, <2>2 DEF WellFormed
  <2>4. \A w \in DataVersions : w < next' => w \in disk.done \/ w <= disk.born
    <3>1. \A w \in DataVersions : w \in Nat
      BY MigrationsAssumption DEF Version
    <3>2. \A w \in DataVersions : w < next' => w <= disk.version
      BY <1>2, <2>1, <3>1
    <3>. QED  BY <1>2, <3>2 DEF WellFormed
  <2>5. /\ work' = disk /\ work'.tables = TABLE /\ work'.made <= code /\ code' = code
        /\ disk' = disk /\ from' = from /\ open' = open
        /\ work'.done \subseteq 1..(next' - 1)
    BY <1>1, <1>2, <2>1 DEF WellFormed
  <2>6. MadeByOne(work') => AddedBy(1..(next' - 1)) \subseteq work'.cols
    BY <2>1, <2>3, <2>5
  <2>7. MigratedSoFar'
    BY <1>2, <2>1, <2>4, <2>5, <2>6 DEF MigratedSoFar
  <2>. QED  BY <1>1, <1>2, <2>7 DEF DiskOK, SnapsOK, StartupOK, StampedOK
<1>. QED  BY <1>3, <1>4

LEMMA AddColumnInv ==
    ASSUME MigrationsInv, NEW c \in COLUMN, AddColumn(c)
    PROVE  MigrationsInv'
<1>. USE DEF MigrationsInv
<1>1. /\ pc = "migrate" /\ next <= code
      /\ work' = [work EXCEPT !.cols = @ \union {c}]
      /\ disk' = IF open THEN disk ELSE work'
      /\ UNCHANGED <<code, open, snap, pc, from, next>>
  BY DEF AddColumn, Put
<1>2. work \in DataBase
  BY <1>1 DEF MigratedSoFar
<1>3. /\ work' \in DataBase
      /\ work'.version = work.version /\ work'.made = work.made
      /\ work'.tables = work.tables /\ work'.born = work.born /\ work'.done = work.done
      /\ work'.cols = work.cols \union {c}
  BY <1>1, <1>2 DEF DataBase
<1>4. /\ WellFormed(disk') /\ disk'.version = disk.version /\ disk'.made = disk.made
      /\ disk'.born = disk.born
  <2>1. CASE open
    BY <1>1, <2>1 DEF DiskOK
  <2>2. CASE ~open
    BY <1>1, <2>2, ColumnKeepsForm DEF DiskOK, StartupOK
  <2>. QED  BY <2>1, <2>2
<1>5. MigratedSoFar'
  BY <1>1, <1>3, <1>4 DEF MigratedSoFar, MadeByOne
<1>. QED
  BY <1>1, <1>4, <1>5 DEF DiskOK, SnapsOK, StartupOK, StampedOK

LEMMA FinishMigrationInv ==
    ASSUME MigrationsInv, FinishMigration
    PROVE  MigrationsInv'
<1>. USE DEF MigrationsInv
<1>1. /\ pc = "migrate" /\ next <= code /\ AddedBy({next}) \subseteq work.cols
      /\ next' = next + 1
      /\ UNCHANGED <<code, disk, snap, pc, from>>
      /\ \/ /\ next \in DataVersions /\ open' = TRUE
            /\ work' = [work EXCEPT !.done = @ \union {next}]
         \/ next \notin DataVersions /\ open' = open /\ work' = work
  BY DEF FinishMigration
<1>2. /\ code \in Nat /\ disk.version \in Nat
  BY MigrationsAssumption DEF DiskOK, WellFormed, DataBase, Version
<1>3. /\ work \in DataBase /\ work.tables = TABLE /\ work.made <= code
      /\ work.version = disk.version /\ work.born = disk.born /\ work.made = disk.made
      /\ work.done \subseteq 1..(next - 1)
      /\ from = disk.version /\ next \in (from + 1)..(code + 1)
      /\ MadeByOne(work) => AddedBy(1..(next - 1)) \subseteq work.cols
      /\ \A w \in DataVersions : w < next => w \in work.done \/ w <= work.born
  BY <1>1, <1>2 DEF MigratedSoFar
<1>4. next \in Nat /\ next >= 1
  BY <1>2, <1>3
<1>5. /\ work' \in DataBase /\ work'.tables = work.tables /\ work'.made = work.made
      /\ work'.version = work.version /\ work'.born = work.born /\ work'.cols = work.cols
      /\ next \in DataVersions => work'.done = work.done \union {next}
      /\ next \notin DataVersions => work'.done = work.done
  BY <1>1, <1>3, <1>4 DEF DataBase
<1>6. MadeByOne(work') => AddedBy(1..(next' - 1)) \subseteq work'.cols
  <2>1. AddedBy(1..(next' - 1)) \subseteq AddedBy(1..(next - 1)) \union AddedBy({next})
    BY <1>1, <1>4 DEF AddedBy
  <2>2. MadeByOne(work') => MadeByOne(work)
    BY <1>5 DEF MadeByOne
  <2>. QED  BY <1>1, <1>3, <1>5, <2>1, <2>2
<1>7. \A w \in DataVersions : w < next' => w \in work'.done \/ w <= work'.born
  <2>. SUFFICES ASSUME NEW w \in DataVersions, w < next'
                PROVE  w \in work'.done \/ w <= work'.born
    OBVIOUS
  <2>1. w \in Nat
    BY MigrationsAssumption DEF Version
  <2>2. w < next \/ w = next
    BY <1>1, <1>4, <2>1
  <2>. QED  BY <1>3, <1>5, <2>2
<1>8. work'.done \subseteq 1..(next' - 1) /\ next' \in (from + 1)..(code + 1)
  BY <1>1, <1>2, <1>3, <1>4, <1>5
<1>9. MigratedSoFar'
  BY <1>1, <1>3, <1>5, <1>6, <1>7, <1>8 DEF MigratedSoFar
<1>10. StartupOK'
  <2>1. open' \in BOOLEAN /\ (~open' => work' = disk')
    <3>1. CASE next \in DataVersions
      BY <1>1, <3>1
    <3>2. CASE next \notin DataVersions
      BY <1>1, <3>2 DEF StartupOK
    <3>. QED  BY <3>1, <3>2
  <2>. QED  BY <1>1, <2>1 DEF StartupOK
<1>. QED
  BY <1>1, <1>9, <1>10 DEF DiskOK, SnapsOK, StampedOK

\* PRAGMA user_version makes the migrated database one of the code's version.
LEMMA StampInv ==
    ASSUME MigrationsInv, Stamp
    PROVE  MigrationsInv'
<1>. USE DEF MigrationsInv
<1>1. /\ pc = "migrate" /\ next > code /\ pc' = "commit"
      /\ work' = [work EXCEPT !.version = code,
                              !.born = IF from = NoVersion THEN code ELSE @]
      /\ disk' = IF open THEN disk ELSE work'
      /\ UNCHANGED <<code, open, snap, from, next>>
  BY DEF Stamp, Put
<1>2. /\ code \in Nat /\ code > 0 /\ disk \in DataBase /\ disk.version \in Nat
      /\ disk.version <= code /\ WellFormed(disk)
  BY MigrationsAssumption DEF DiskOK, WellFormed, DataBase, Version
<1>3. /\ work \in DataBase /\ work.tables = TABLE /\ work.made <= code
      /\ work.version = disk.version /\ work.born = disk.born /\ work.made = disk.made
      /\ work.done \subseteq 1..(next - 1)
  BY <1>1 DEF MigratedSoFar
<1>4. /\ work' \in DataBase /\ work'.tables = TABLE /\ work'.made = work.made
      /\ work'.version = code /\ work'.cols = work.cols /\ work'.done = work.done
      /\ work'.born = IF from = NoVersion THEN code ELSE work.born
  BY <1>1, <1>2, <1>3 DEF DataBase
<1>5. CASE from = NoVersion
  <2>1. next = code + 1 /\ ~open /\ work = disk /\ disk.version = 0
    BY <1>1, <1>2, <1>5 DEF MigratedSoFar, StartupOK, NoVersion
  <2>2. OnTables(disk, 1..disk.made) = AddedBy(1..disk.made)
    BY <1>3, <2>1, MigrationsAssumption DEF OnTables, AddedBy
  <2>3. MadeByOne(work') => AddedBy(1..code) \subseteq work'.cols
    BY <1>2, <1>4, <1>5, <2>1, <2>2 DEF MadeByOne, WellFormed
  <2>4. \A w \in DataVersions : w <= code => w <= work'.born
    BY <1>4, <1>5
  <2>5. WellFormed(work')
    BY <1>2, <1>3, <1>4, <1>5, <2>1, <2>3, <2>4 DEF WellFormed
  <2>. QED
    BY <1>1, <1>2, <1>3, <1>4, <2>1, <2>5
       DEF DiskOK, SnapsOK, StartupOK, MigratedSoFar, StampedOK
<1>6. CASE from # NoVersion
  <2>1. /\ from = disk.version /\ next = code + 1
        /\ MadeByOne(work) => AddedBy(1..(next - 1)) \subseteq work.cols
        /\ \A w \in DataVersions : w < next => w \in work.done \/ w <= work.born
    BY <1>1, <1>2, <1>6 DEF MigratedSoFar
  <2>2. next - 1 = code /\ work'.born = work.born /\ work.born <= code
    BY <1>2, <1>3, <1>4, <1>6, <2>1 DEF WellFormed, DataBase
  <2>3. MadeByOne(work') => AddedBy(1..code) \subseteq work'.cols
    BY <1>4, <2>1, <2>2 DEF MadeByOne
  <2>4. \A w \in DataVersions : w <= code => w \in work'.done \/ w <= work'.born
    BY <1>2, <1>4, <2>1, <2>2, MigrationsAssumption DEF Version
  <2>5. WellFormed(work')
    BY <1>2, <1>3, <1>4, <2>2, <2>3, <2>4 DEF WellFormed
  <2>6. DiskOK'
    BY <1>1, <1>2, <1>3, <1>4, <2>5 DEF DiskOK
  <2>. QED
    BY <1>1, <1>4, <2>5, <2>6
       DEF SnapsOK, StartupOK, MigratedSoFar, StampedOK
<1>. QED  BY <1>5, <1>6

LEMMA CommitInv ==
    ASSUME MigrationsInv, Commit
    PROVE  MigrationsInv'
<1>. USE DEF MigrationsInv
<1>1. /\ pc = "commit" /\ pc' = "serving" /\ disk' = work /\ open' = FALSE
      /\ UNCHANGED <<code, work, snap>>
  BY DEF Commit
<1>2. WellFormed(work) /\ work.version = code /\ code \in Version /\ code > 0 /\ code \in Nat
  BY <1>1, MigrationsAssumption DEF StampedOK, DiskOK, Version
<1>3. work.made <= code
  BY <1>2 DEF WellFormed
<1>4. DiskOK'
  BY <1>1, <1>2, <1>3 DEF DiskOK
<1>5. SnapsOK' /\ MigratedSoFar' /\ StampedOK'
  BY <1>1, <1>2 DEF SnapsOK, MigratedSoFar, StampedOK
<1>6. StartupOK'
  BY <1>1 DEF StartupOK
<1>. QED
  BY <1>4, <1>5, <1>6

LEMMA StopInv ==
    ASSUME MigrationsInv, Stop
    PROVE  MigrationsInv'
BY DEF MigrationsInv, Stop, DiskOK, SnapsOK, StartupOK, MigratedSoFar, StampedOK

LEMMA DeployInv ==
    ASSUME MigrationsInv, NEW v \in Version, Deploy(v)
    PROVE  MigrationsInv'
<1>1. /\ pc = "down" /\ v > code /\ code' = v
      /\ UNCHANGED <<disk, work, open, snap, pc, from, next>>
  BY DEF Deploy
<1>2. disk.version <= v /\ disk.made <= v
  BY <1>1, MigrationsAssumption DEF MigrationsInv, DiskOK, WellFormed, DataBase, Version
<1>. QED
  BY <1>1, <1>2 DEF MigrationsInv, DiskOK, SnapsOK, StartupOK, MigratedSoFar, StampedOK

LEMMA RollBackInv ==
    ASSUME MigrationsInv, NEW v \in Version, RollBack(v)
    PROVE  MigrationsInv'
<1>1. /\ pc = "down" /\ v \in DOMAIN snap /\ disk' = snap[v] /\ work' = disk' /\ code' = v
      /\ UNCHANGED <<open, snap, pc, from, next>>
  BY DEF RollBack
<1>2. WellFormed(snap[v]) /\ snap[v].version = v /\ v \in Nat /\ v > 0
  BY <1>1, MigrationsAssumption DEF MigrationsInv, SnapsOK, Version
<1>3. snap[v].made <= v
  BY <1>2 DEF WellFormed
<1>. QED
  BY <1>1, <1>2, <1>3
     DEF MigrationsInv, DiskOK, SnapsOK, StartupOK, MigratedSoFar, StampedOK

LEMMA MigrationsInvNext == MigrationsInv /\ [Next]_vars => MigrationsInv'
<1>. SUFFICES ASSUME MigrationsInv, [Next]_vars PROVE MigrationsInv'
  OBVIOUS
<1>1. CASE StartupStep
  BY <1>1, BootInv, SnapshotInv, CreateTableInv, StartMigrationsInv, AddColumnInv,
     FinishMigrationInv, StampInv, CommitInv DEF StartupStep
<1>2. CASE Stop
  BY <1>2, StopInv
<1>3. ASSUME NEW v \in Version, Deploy(v) \/ RollBack(v) PROVE MigrationsInv'
  BY <1>3, DeployInv, RollBackInv
<1>4. CASE UNCHANGED vars
  BY <1>4 DEF vars, MigrationsInv, DiskOK, SnapsOK, StartupOK, MigratedSoFar, StampedOK
<1>. QED  BY <1>1, <1>2, <1>3, <1>4 DEF Next

-----------------------------------------------------------------------------
(* The worker.                                                             *)

\* To the scheduler the life of the worker is schedules, runs, crashes and sweeps.
LEMMA WorkerStepsAreJobs == [WorkerNext]_workerVars => [JobsNext]_jobsVars
BY DEF WorkerNext, workerVars, Migrate, Sweep, Work, StopWorker, Replace, JobsNext

\* To the database it is startups, stops and replacements.
LEMMA WorkerStepsAreMigrations == [WorkerNext]_workerVars => [Next]_vars
BY DEF WorkerNext, workerVars, Migrate, Sweep, Work, StopWorker, Replace, Next

LEMMA WorkerInvInit == WorkerInit => WorkerInv
BY MigrationsInvInit, InitJobsInv DEF WorkerInit, WorkerInv, JobsInit

LEMMA WorkerInvNext == WorkerInv /\ [WorkerNext]_workerVars => WorkerInv'
<1>. SUFFICES ASSUME WorkerInv, [WorkerNext]_workerVars PROVE WorkerInv'
  OBVIOUS
<1>. USE DEF WorkerInv
<1>1. MigrationsInv' /\ JobsInv'
  BY WorkerStepsAreMigrations, MigrationsInvNext, WorkerStepsAreJobs, StepJobsInv
<1>2. up' => pc' = "serving"
  <2>1. CASE Migrate
    BY <2>1
       DEF Migrate, jobsVars, StartupStep, Boot, Snapshot, CreateTable, StartMigrations,
           AddColumn, FinishMigration, Stamp, Commit
  <2>2. CASE Sweep \/ Work
    BY <2>2 DEF Sweep, Work, Schedule, TaskStart, RunEnd, vars
  <2>3. CASE StopWorker
    BY <2>3 DEF StopWorker, Crash, jobsVars
  <2>4. CASE Replace
    BY <2>4 DEF Replace, Deploy, RollBack, jobsVars
  <2>5. CASE UNCHANGED workerVars
    BY <2>5 DEF workerVars, jobsVars, vars
  <2>. QED  BY <2>1, <2>2, <2>3, <2>4, <2>5 DEF WorkerNext
<1>. QED  BY <1>1, <1>2

\* The invariant of the worker's life.
THEOREM WorkerSafety == WorkerSpec => []WorkerInv
<1>. QED  BY WorkerInvInit, WorkerInvNext, PTL DEF WorkerSpec

\* Whatever startups, crashes, deployments and roll-backs came before, one
\* ingest at a time meets a database its code can use (lifespan).
THEOREM IngestsMeetASchema == WorkerSpec => []IngestsMeetTheirSchema
<1>1. WorkerInv => IngestsMeetTheirSchema
  <2>. SUFFICES ASSUME WorkerInv, up, MadeByOne(disk)
                PROVE  Serves(disk, code)
    BY DEF WorkerInv, JobsInv, IngestsMeetTheirSchema, Current
  <2>1. disk.version = code /\ WellFormed(disk) /\ code > 0
    BY MigrationsAssumption DEF WorkerInv, MigrationsInv, StampedOK, DiskOK, Version
  <2>. QED  BY <2>1 DEF Serves, WellFormed
<1>. QED  BY <1>1, WorkerSafety, PTL

\* Every snapshot is worth what its name says (snapshot_before_migrate).
THEOREM SnapshotsAreGood == WorkerSpec => []SnapshotsCanBeRestored
<1>1. WorkerInv => SnapshotsCanBeRestored
  BY DEF WorkerInv, MigrationsInv, SnapsOK, WellFormed, Serves, SnapshotsCanBeRestored
<1>. QED  BY <1>1, WorkerSafety, PTL

\* No change of data is made twice, or to a database that never needed it
\* (run_migrations).
THEOREM DataIsMigratedOnce == WorkerSpec => DataMigratesOnce
<1>. DEFINE Done == pc = "migrate" /\ next' = next + 1 /\ next \in DataVersions
            Fresh == next \notin work.done /\ next > disk.born
<1>1. WorkerInv /\ [WorkerNext]_workerVars => [Done => Fresh]_vars
  <2>. SUFFICES ASSUME WorkerInv, Next, Done
                PROVE  Fresh
    BY WorkerStepsAreMigrations
  <2>. USE DEF WorkerInv, MigrationsInv
  <2>1. next \in Nat /\ next' # next
    BY MigrationsAssumption DEF Version
  <2>2. FinishMigration
    BY <2>1
       DEF Next, StartupStep, Boot, Snapshot, CreateTable, StartMigrations, AddColumn, Stamp,
           Commit, Stop, Deploy, RollBack
  <2>3. /\ next <= code /\ code \in Nat
        /\ disk.version \in Nat /\ disk.born \in Nat /\ disk.born <= disk.version
    BY <2>2, MigrationsAssumption DEF FinishMigration, DiskOK, WellFormed, DataBase, Version
  <2>4. work.done \subseteq 1..(next - 1) /\ from = disk.version /\ next >= from + 1
    BY <2>1, <2>3 DEF MigratedSoFar
  <2>. QED  BY <2>1, <2>3, <2>4
<1>. QED
  BY <1>1, WorkerSafety, PTL DEF WorkerSpec, DataMigratesOnce

\* The scheduler of the running worker implements the queue its callers rely on.
THEOREM WorkerRefinement == WorkerSpec => ImplementsQueue
<1>1. WorkerInit => JobsInit
  BY DEF WorkerInit
<1>2. WorkerSpec => JobsSpec
  BY <1>1, WorkerStepsAreJobs, PTL DEF WorkerSpec, JobsSpec
<1>. QED  BY <1>2, Refinement, PTL

-----------------------------------------------------------------------------
(* What a refresh gets from the upstreams.                                 *)

FetchState == {"waiting", "asking", "got", "skipped", "refused"}

RefreshTypeOK ==
    /\ hour \in Nat /\ tries \in Nat /\ listed \subseteq Killmail
    /\ fetch \in [Killmail -> [st : FetchState, tries : Nat, limits : Nat]]
    /\ file \in [Killmail -> {"none", "torn", "whole"}]
    /\ faults \in Nat /\ before \in Nat /\ before <= faults

\* The search has found what is listed under the hours it has asked for.
SearchedSoFar ==
    at = "search" => /\ hour <= LastHour + 1
                     /\ listed = {k \in InWindow : HourOf[k] < hour}

\* What counts against a killmail has been a fault of this refresh.
TriesAreFaults ==
    \A k \in Killmail : fetch[k].tries + fetch[k].limits <= faults - before

\* A killmail is given up for its file, or after all the attempts there are.
SkippedForCause ==
    \A k \in Killmail : fetch[k].st = "skipped" =>
        file[k] = "torn" \/ fetch[k].tries >= Attempts \/ fetch[k].limits >= Attempts

RefreshInv ==
    RefreshTypeOK /\ SearchedSoFar /\ WindowsAreWhole /\ TriesAreFaults /\ SkippedForCause

\* The updates of a fetch keep its form.
LEMMA TaskUpdates ==
    ASSUME NEW t \in [st : FetchState, tries : Nat, limits : Nat],
           NEW st \in FetchState, NEW m \in Nat, NEW n \in Nat
    PROVE  /\ [t EXCEPT !.tries = m, !.limits = n]
                 \in [st : FetchState, tries : Nat, limits : Nat]
           /\ [t EXCEPT !.tries = m, !.limits = n].st = t.st
           /\ [t EXCEPT !.tries = m, !.limits = n].tries = m
           /\ [t EXCEPT !.tries = m, !.limits = n].limits = n
           /\ [t EXCEPT !.st = st, !.tries = m]
                 \in [st : FetchState, tries : Nat, limits : Nat]
           /\ [t EXCEPT !.st = st, !.tries = m].st = st
           /\ [t EXCEPT !.st = st, !.tries = m].tries = m
           /\ [t EXCEPT !.st = st, !.tries = m].limits = t.limits
           /\ [t EXCEPT !.st = st, !.limits = n]
                 \in [st : FetchState, tries : Nat, limits : Nat]
           /\ [t EXCEPT !.st = st, !.limits = n].st = st
           /\ [t EXCEPT !.st = st, !.limits = n].tries = t.tries
           /\ [t EXCEPT !.st = st, !.limits = n].limits = n
  OBVIOUS

\* What a step needs to keep of the fetches: all of them but that of k, which
\* ends up justified.
LEMMA FetchFrame ==
    ASSUME RefreshInv, NEW k \in Killmail, NEW t \in [st : FetchState, tries : Nat, limits : Nat],
           fetch' = [fetch EXCEPT ![k] = t], faults' \in Nat, faults' >= faults,
           t.tries + t.limits <= faults' - before,
           t.st = "skipped" => file[k] = "torn" \/ t.tries >= Attempts \/ t.limits >= Attempts,
           file' \in [Killmail -> {"none", "torn", "whole"}],
           \A x \in Killmail \ {k} : file'[x] = file[x],
           t.st = "skipped" => file'[k] = file[k],
           UNCHANGED <<at, search, before>>
    PROVE  RefreshInv'
<1>1. /\ hour \in Nat /\ tries \in Nat /\ listed \subseteq Killmail
      /\ fetch \in [Killmail -> [st : FetchState, tries : Nat, limits : Nat]]
      /\ faults \in Nat /\ before \in Nat /\ before <= faults
  BY DEF RefreshInv, RefreshTypeOK
<1>2. /\ fetch' \in [Killmail -> [st : FetchState, tries : Nat, limits : Nat]]
      /\ fetch'[k] = t /\ \A x \in Killmail \ {k} : fetch'[x] = fetch[x]
  BY <1>1
<1>3. RefreshTypeOK' /\ SearchedSoFar' /\ WindowsAreWhole'
  BY <1>1, <1>2 DEF RefreshInv, RefreshTypeOK, search, SearchedSoFar, WindowsAreWhole
<1>4. TriesAreFaults'
  <2>. SUFFICES ASSUME NEW x \in Killmail
                PROVE  fetch'[x].tries + fetch'[x].limits <= faults' - before'
    BY DEF TriesAreFaults
  <2>1. CASE x = k
    BY <1>2, <2>1
  <2>2. CASE x # k
    <3>1. fetch[x].tries + fetch[x].limits <= faults - before
      BY DEF RefreshInv, TriesAreFaults
    <3>2. fetch[x].tries \in Nat /\ fetch[x].limits \in Nat
      BY <1>1
    <3>3. fetch'[x] = fetch[x] /\ before' = before
      BY <1>2, <2>2
    <3>. QED  BY <1>1, <3>1, <3>2, <3>3
  <2>. QED  BY <2>1, <2>2
<1>5. SkippedForCause'
  <2>. SUFFICES ASSUME NEW x \in Killmail, fetch'[x].st = "skipped"
                PROVE  \/ file'[x] = "torn"
                       \/ fetch'[x].tries >= Attempts \/ fetch'[x].limits >= Attempts
    BY DEF SkippedForCause
  <2>1. CASE x = k
    BY <1>2, <2>1
  <2>2. CASE x # k
    BY <1>2, <2>2 DEF RefreshInv, SkippedForCause
  <2>. QED  BY <2>1, <2>2
<1>. QED  BY <1>3, <1>4, <1>5 DEF RefreshInv

\* A step after the search that leaves the fetches alone, or ends the refresh.
LEMMA RefreshFrame ==
    ASSUME RefreshInv, UNCHANGED <<search, fetch, before>>,
           faults' \in Nat, faults' >= faults,
           file' \in [Killmail -> {"none", "torn", "whole"}],
           \A k \in Killmail : file'[k] \in {file[k], "torn"},
           at' # "search", at' = "idle" \/ at \notin {"idle", "search"}
    PROVE  RefreshInv'
<1>1. /\ hour' = hour /\ tries' = tries /\ listed' = listed
      /\ fetch' = fetch /\ before' = before
  BY DEF search
<1>2. /\ faults \in Nat /\ before \in Nat /\ before <= faults
      /\ fetch \in [Killmail -> [st : FetchState, tries : Nat, limits : Nat]]
  BY DEF RefreshInv, RefreshTypeOK
<1>3. RefreshTypeOK'
  BY <1>1, <1>2 DEF RefreshInv, RefreshTypeOK
<1>4. SearchedSoFar' /\ WindowsAreWhole'
  BY <1>1 DEF RefreshInv, SearchedSoFar, WindowsAreWhole
<1>5. TriesAreFaults'
  <2>. SUFFICES ASSUME NEW k \in Killmail
                PROVE  fetch[k].tries + fetch[k].limits <= faults' - before
    BY <1>1 DEF TriesAreFaults
  <2>1. fetch[k].tries \in Nat /\ fetch[k].limits \in Nat
    BY <1>2
  <2>. QED  BY <1>2, <2>1 DEF RefreshInv, TriesAreFaults
<1>6. SkippedForCause'
  BY <1>1 DEF RefreshInv, SkippedForCause
<1>. QED  BY <1>3, <1>4, <1>5, <1>6 DEF RefreshInv

\* The search, from the first anchor to the last.
LEMMA StepSearch ==
    ASSUME RefreshInv, Refresh \/ SearchAnswers \/ SearchEnds \/ SearchFails
    PROVE  RefreshInv'
<1>1. /\ hour \in Nat /\ tries \in Nat /\ listed \subseteq Killmail
      /\ fetch \in [Killmail -> [st : FetchState, tries : Nat, limits : Nat]]
      /\ file \in [Killmail -> {"none", "torn", "whole"}]
      /\ faults \in Nat /\ before \in Nat /\ before <= faults
  BY DEF RefreshInv, RefreshTypeOK
<1>2. /\ MaxHours \in Nat /\ LastHour \in Nat /\ LastHour <= MaxHours
      /\ InWindow \subseteq Killmail
      /\ \A k \in Killmail : HourOf[k] \in Nat /\ HourOf[k] <= LastHour
  BY UpstreamAssumption
<1>3. CASE Refresh
  <2>1. /\ at' = "search" /\ hour' = 0 /\ tries' = 0 /\ listed' = {}
        /\ fetch' = [k \in Killmail |-> NoTask]
        /\ before' = faults /\ faults' = faults /\ file' = file
    BY <1>3 DEF Refresh
  <2>2. NoTask \in [st : FetchState, tries : Nat, limits : Nat]
    BY DEF NoTask, FetchState
  <2>3. RefreshTypeOK'
    BY <1>1, <2>1, <2>2 DEF RefreshTypeOK
  <2>4. SearchedSoFar' /\ WindowsAreWhole'
    BY <1>2, <2>1 DEF SearchedSoFar, WindowsAreWhole
  <2>5. TriesAreFaults' /\ SkippedForCause'
    BY <1>1, <2>1 DEF TriesAreFaults, SkippedForCause, NoTask
  <2>. QED  BY <2>3, <2>4, <2>5 DEF RefreshInv
<1>4. ASSUME hour' \in Nat, tries' \in Nat, listed' \subseteq Killmail,
             UNCHANGED <<fetch, file, before>>, faults' \in Nat, faults' >= faults,
             SearchedSoFar', WindowsAreWhole'
      PROVE  RefreshInv'
  <2>1. RefreshTypeOK'
    BY <1>1, <1>4 DEF RefreshTypeOK
  <2>2. TriesAreFaults'
    <3>. SUFFICES ASSUME NEW k \in Killmail
                  PROVE  fetch[k].tries + fetch[k].limits <= faults' - before
      BY <1>4 DEF TriesAreFaults
    <3>1. fetch[k].tries \in Nat /\ fetch[k].limits \in Nat
      BY <1>1
    <3>. QED  BY <1>1, <1>4, <3>1 DEF RefreshInv, TriesAreFaults
  <2>3. SkippedForCause'
    BY <1>4 DEF RefreshInv, SkippedForCause
  <2>. QED  BY <1>4, <2>1, <2>2, <2>3 DEF RefreshInv
<1>5. CASE SearchAnswers
  <2>1. /\ at = "search" /\ at' = "search" /\ hour <= LastHour
        /\ listed' = listed \union {k \in InWindow : HourOf[k] = hour}
        /\ hour' = hour + 1 /\ tries' = 0 /\ faults' = faults
        /\ UNCHANGED <<fetch, file, before>>
    BY <1>5 DEF SearchAnswers, MoreHours
  <2>2. listed = {k \in InWindow : HourOf[k] < hour}
    BY <2>1 DEF RefreshInv, SearchedSoFar
  <2>3. \A k \in InWindow : HourOf[k] < hour' <=> HourOf[k] < hour \/ HourOf[k] = hour
    BY <1>1, <1>2, <2>1
  <2>4. SearchedSoFar' /\ WindowsAreWhole'
    <3>1. listed' = {k \in InWindow : HourOf[k] < hour'}
      BY <2>1, <2>2, <2>3
    <3>. QED  BY <1>1, <1>2, <2>1, <3>1 DEF SearchedSoFar, WindowsAreWhole
  <2>. QED  BY <1>1, <1>2, <1>4, <2>1, <2>4
<1>6. CASE SearchEnds
  <2>1. /\ at = "search" /\ at' = "fetch" /\ ~MoreHours
        /\ UNCHANGED <<hour, tries, listed, fetch, file, faults, before>>
    BY <1>6 DEF SearchEnds, search
  <2>2. hour > LastHour
    BY <1>1, <1>2, <2>1 DEF RefreshInv, MoreHours, MaxAnchors
  <2>3. listed = {k \in InWindow : HourOf[k] < hour}
    BY <2>1 DEF RefreshInv, SearchedSoFar
  <2>4. listed = InWindow
    BY <1>1, <1>2, <2>2, <2>3
  <2>5. SearchedSoFar' /\ WindowsAreWhole'
    BY <2>1, <2>4 DEF SearchedSoFar, WindowsAreWhole
  <2>. QED  BY <1>1, <1>4, <2>1, <2>5
<1>7. CASE SearchFails
  <2>1. /\ at = "search" /\ faults' = faults + 1
        /\ UNCHANGED <<hour, listed, fetch, file, before>>
        /\ \/ tries' = tries + 1 /\ at' = at
           \/ tries' = tries /\ at' = "idle"
    BY <1>7 DEF SearchFails, Fault, WindowUnavailable, search
  <2>2. SearchedSoFar' /\ WindowsAreWhole'
    BY <2>1 DEF RefreshInv, SearchedSoFar, WindowsAreWhole
  <2>. QED  BY <1>1, <1>4, <2>1, <2>2
<1>. QED  BY <1>3, <1>5, <1>6, <1>7

\* A killmail on its way.
LEMMA StepFetch ==
    ASSUME RefreshInv, NEW k \in Killmail,
           FetchStart(k) \/ FetchAnswers(k) \/ FetchLimited(k) \/ FetchBlips(k) \/ FetchRefused(k)
    PROVE  RefreshInv'
<1>1. /\ fetch \in [Killmail -> [st : FetchState, tries : Nat, limits : Nat]]
      /\ file \in [Killmail -> {"none", "torn", "whole"}]
      /\ faults \in Nat /\ before \in Nat /\ before <= faults
  BY DEF RefreshInv, RefreshTypeOK
<1>2. /\ fetch[k].tries \in Nat /\ fetch[k].limits \in Nat /\ fetch[k].st \in FetchState
      /\ fetch[k].tries + fetch[k].limits <= faults - before
      /\ fetch[k] \in [st : FetchState, tries : Nat, limits : Nat]
  BY <1>1 DEF RefreshInv, TriesAreFaults
<1>3. Attempts \in Nat
  BY UpstreamAssumption
<1>4. CASE FetchStart(k)
  <2>. DEFINE st == CASE file[k] = "none" -> "asking" [] file[k] = "whole" -> "got"
                      [] file[k] = "torn" -> "skipped"
              t == [fetch[k] EXCEPT !.st = st]
  <2>1. /\ fetch' = [fetch EXCEPT ![k].st = st]
        /\ UNCHANGED <<at, search, file, faults, before>>
    BY <1>4 DEF FetchStart
  <2>2. st \in FetchState /\ (st = "skipped" => file[k] = "torn")
    BY <1>1 DEF FetchState
  <2>. HIDE DEF st
  <2>3. t \in [st : FetchState, tries : Nat, limits : Nat] /\ t.st = st
        /\ t.tries = fetch[k].tries /\ t.limits = fetch[k].limits
    BY <1>2, <2>2
  <2>4. fetch' = [fetch EXCEPT ![k] = t]
    BY <2>1
  <2>. HIDE DEF t
  <2>5. /\ faults' \in Nat /\ faults' >= faults
        /\ t.tries + t.limits <= faults' - before
        /\ (t.st = "skipped" => file[k] = "torn" \/ t.tries >= Attempts \/ t.limits >= Attempts)
        /\ file' \in [Killmail -> {"none", "torn", "whole"}]
        /\ \A x \in Killmail \ {k} : file'[x] = file[x]
        /\ (t.st = "skipped" => file'[k] = file[k])
    BY <1>1, <1>2, <2>1, <2>2, <2>3, <2>4
  <2>. QED  BY <2>1, <2>2, <2>3, <2>4, <2>5, FetchFrame
<1>5. CASE FetchAnswers(k)
  <2>. DEFINE t == [fetch[k] EXCEPT !.st = "got"]
  <2>1. /\ fetch' = [fetch EXCEPT ![k].st = "got"] /\ file' = [file EXCEPT ![k] = "whole"]
        /\ UNCHANGED <<at, search, faults, before>>
    BY <1>5 DEF FetchAnswers
  <2>2. /\ t \in [st : FetchState, tries : Nat, limits : Nat] /\ t.st = "got"
        /\ t.tries = fetch[k].tries /\ t.limits = fetch[k].limits
    BY <1>2 DEF FetchState
  <2>3. fetch' = [fetch EXCEPT ![k] = t]
    BY <2>1
  <2>. HIDE DEF t
  <2>4. /\ file' \in [Killmail -> {"none", "torn", "whole"}]
        /\ \A x \in Killmail \ {k} : file'[x] = file[x]
    BY <1>1, <2>1
  <2>5. /\ faults' \in Nat /\ faults' >= faults
        /\ t.tries + t.limits <= faults' - before
        /\ (t.st = "skipped" => file[k] = "torn" \/ t.tries >= Attempts \/ t.limits >= Attempts)
        /\ file' \in [Killmail -> {"none", "torn", "whole"}]
        /\ \A x \in Killmail \ {k} : file'[x] = file[x]
        /\ (t.st = "skipped" => file'[k] = file[k])
    BY <1>1, <1>2, <2>1, <2>2, <2>3, <2>4
  <2>. QED  BY <2>1, <2>2, <2>3, <2>4, <2>5, FetchFrame
<1>6. CASE FetchLimited(k)
  <2>. DEFINE t == IF fetch[k].limits + 1 < Attempts
                     THEN [fetch[k] EXCEPT !.limits = @ + 1]
                     ELSE [fetch[k] EXCEPT !.st = "skipped", !.limits = @ + 1]
  <2>1. /\ faults' = faults + 1
        /\ UNCHANGED <<at, search, file, before>>
    BY <1>6 DEF FetchLimited, Fault
  <2>2. fetch[k].st = "asking"
    BY <1>6 DEF FetchLimited, Under
  <2>3. fetch' = [fetch EXCEPT ![k] = t]
    BY <1>6 DEF FetchLimited
  <2>4. /\ t \in [st : FetchState, tries : Nat, limits : Nat]
        /\ t.tries = fetch[k].tries /\ t.limits = fetch[k].limits + 1
        /\ (t.st = "skipped" => t.limits >= Attempts)
    <3>1. CASE fetch[k].limits + 1 < Attempts
      <4>1. t = [fetch[k] EXCEPT !.limits = @ + 1]
        BY <3>1
      <4>. HIDE DEF t
      <4>. QED  BY <1>2, <2>2, <4>1 DEF FetchState
    <3>2. CASE ~(fetch[k].limits + 1 < Attempts)
      <4>1. t = [fetch[k] EXCEPT !.st = "skipped", !.limits = fetch[k].limits + 1]
        BY <3>2
      <4>2. fetch[k].limits + 1 \in Nat /\ fetch[k].limits + 1 >= Attempts /\ "skipped" \in FetchState
        BY <1>2, <1>3, <3>2 DEF FetchState
      <4>. HIDE DEF t
      <4>. QED  BY <1>2, <4>1, <4>2, TaskUpdates
    <3>. QED  BY <3>1, <3>2
  <2>. HIDE DEF t
  <2>5. /\ faults' \in Nat /\ faults' >= faults
        /\ t.tries + t.limits <= faults' - before
        /\ (t.st = "skipped" => file[k] = "torn" \/ t.tries >= Attempts \/ t.limits >= Attempts)
        /\ file' \in [Killmail -> {"none", "torn", "whole"}]
        /\ \A x \in Killmail \ {k} : file'[x] = file[x]
        /\ (t.st = "skipped" => file'[k] = file[k])
    BY <1>1, <1>2, <2>1, <2>2, <2>3, <2>4
  <2>. QED  BY <2>1, <2>2, <2>3, <2>4, <2>5, FetchFrame
<1>7. CASE FetchBlips(k)
  <2>. DEFINE t == AfterBlip(fetch[k])
  <2>1. /\ faults' = faults + 1 /\ fetch' = [fetch EXCEPT ![k] = t]
        /\ UNCHANGED <<at, search, file, before>>
    BY <1>7 DEF FetchBlips, Fault
  <2>2. fetch[k].st = "asking"
    BY <1>7 DEF FetchBlips, Under
  <2>3. /\ t \in [st : FetchState, tries : Nat, limits : Nat]
        /\ t.tries = fetch[k].tries + 1 /\ t.limits \in Nat /\ t.limits <= fetch[k].limits
        /\ (t.st = "skipped" => t.tries >= Attempts)
    <3>1. CASE fetch[k].tries + 1 < Attempts
      <4>1. t = [fetch[k] EXCEPT !.tries = fetch[k].tries + 1, !.limits = 0]
        BY <3>1 DEF AfterBlip
      <4>2. fetch[k].tries + 1 \in Nat /\ 0 \in Nat /\ 0 <= fetch[k].limits
        BY <1>2
      <4>. HIDE DEF t
      <4>. QED  BY <1>2, <2>2, <4>1, <4>2, TaskUpdates
    <3>2. CASE ~(fetch[k].tries + 1 < Attempts)
      <4>1. t = [fetch[k] EXCEPT !.st = "skipped", !.tries = fetch[k].tries + 1]
        BY <3>2 DEF AfterBlip
      <4>2. fetch[k].tries + 1 \in Nat /\ fetch[k].tries + 1 >= Attempts /\ "skipped" \in FetchState
        BY <1>2, <1>3, <3>2 DEF FetchState
      <4>. DEFINE u == [fetch[k] EXCEPT !.st = "skipped", !.tries = fetch[k].tries + 1]
      <4>3. /\ u \in [st : FetchState, tries : Nat, limits : Nat]
            /\ u.tries = fetch[k].tries + 1 /\ u.limits = fetch[k].limits
        BY <1>2, <4>2, TaskUpdates
      <4>4. t = u
        BY <4>1
      <4>. HIDE DEF t, u
      <4>. QED  BY <1>2, <4>2, <4>3, <4>4
    <3>. QED  BY <3>1, <3>2
  <2>. HIDE DEF t
  <2>4. /\ faults' \in Nat /\ faults' >= faults
        /\ t.tries + t.limits <= faults' - before
        /\ (t.st = "skipped" => file[k] = "torn" \/ t.tries >= Attempts \/ t.limits >= Attempts)
        /\ file' \in [Killmail -> {"none", "torn", "whole"}]
        /\ \A x \in Killmail \ {k} : file'[x] = file[x]
        /\ (t.st = "skipped" => file'[k] = file[k])
    BY <1>1, <1>2, <2>1, <2>3
  <2>. QED  BY <2>1, <2>3, <2>4, FetchFrame
<1>8. CASE FetchRefused(k)
  <2>. DEFINE t == [fetch[k] EXCEPT !.st = "refused"]
  <2>1. /\ faults' = faults + 1 /\ fetch' = [fetch EXCEPT ![k].st = "refused"]
        /\ UNCHANGED <<at, search, file, before>>
    BY <1>8 DEF FetchRefused, Fault
  <2>2. /\ t \in [st : FetchState, tries : Nat, limits : Nat] /\ t.st = "refused"
        /\ t.tries = fetch[k].tries /\ t.limits = fetch[k].limits
    BY <1>2 DEF FetchState
  <2>3. fetch' = [fetch EXCEPT ![k] = t]
    BY <2>1
  <2>. HIDE DEF t
  <2>4. /\ faults' \in Nat /\ faults' >= faults
        /\ t.tries + t.limits <= faults' - before
        /\ (t.st = "skipped" => file[k] = "torn" \/ t.tries >= Attempts \/ t.limits >= Attempts)
        /\ file' \in [Killmail -> {"none", "torn", "whole"}]
        /\ \A x \in Killmail \ {k} : file'[x] = file[x]
        /\ (t.st = "skipped" => file'[k] = file[k])
    BY <1>1, <1>2, <2>1, <2>2, <2>3
  <2>. QED  BY <2>1, <2>2, <2>3, <2>4, FetchFrame
<1>. QED  BY <1>4, <1>5, <1>6, <1>7, <1>8

\* Names, rows, tickers and values, and the worker's death.
LEMMA StepRest ==
    ASSUME RefreshInv,
           \/ FetchEnds \/ NamesEnd \/ PersistKillmails \/ FillTickers \/ BackfillValues
           \/ WorkerDies
           \/ \E b \in batches : NamesAnswered(b) \/ NamesFail(b)
           \/ \E k \in Killmail : CrashTearsFile(k)
    PROVE  RefreshInv'
<1>1. faults \in Nat /\ file \in [Killmail -> {"none", "torn", "whole"}]
  BY DEF RefreshInv, RefreshTypeOK
<1>2. \A k \in Killmail : file[k] \in {file[k], "torn"}
  OBVIOUS
<1>3. \A S \in SUBSET (Killmail \union ENT) : Cardinality(S) \in Nat
  <2>1. IsFiniteSet(Killmail \union ENT)
    BY UpstreamAssumption, FS_Union
  <2>. QED  BY <2>1, FS_Subset, FS_CardinalityType
<1>4. CASE FetchEnds \/ NamesEnd \/ PersistKillmails \/ WorkerDies
           \/ \E b \in batches : NamesAnswered(b)
  <2>1. /\ UNCHANGED <<search, fetch, before, file, faults>> /\ at' # "search"
        /\ at' = "idle" \/ at \notin {"idle", "search"}
    BY <1>4 DEF FetchEnds, NamesEnd, PersistKillmails, WorkerDies, NamesAnswered
  <2>. QED  BY <1>1, <1>2, <2>1, RefreshFrame
<1>5. CASE \E b \in batches : NamesFail(b)
  <2>1. /\ UNCHANGED <<search, fetch, before, file>> /\ faults' = faults + 1
        /\ at' # "search" /\ at \notin {"idle", "search"}
    BY <1>5 DEF NamesFail, Fault
  <2>. QED  BY <1>1, <1>2, <2>1, RefreshFrame
<1>6. CASE FillTickers
  <2>1. PICK failed \in SUBSET {e \in Resolved \intersect Groups : e \notin ticker} :
          faults' = faults + Cardinality(failed)
    BY <1>6 DEF FillTickers
  <2>2. Cardinality(failed) \in Nat
    BY <1>3, UpstreamAssumption
  <2>3. /\ UNCHANGED <<search, fetch, before, file>>
        /\ at' # "search" /\ at \notin {"idle", "search"}
    BY <1>6 DEF FillTickers
  <2>. QED  BY <1>1, <1>2, <2>1, <2>2, <2>3, RefreshFrame
<1>7. CASE BackfillValues
  <2>1. PICK failed \in SUBSET MissingValue : faults' = faults + Cardinality(failed)
    BY <1>7 DEF BackfillValues
  <2>2. Cardinality(failed) \in Nat
    BY <1>3 DEF MissingValue
  <2>3. /\ UNCHANGED <<search, fetch, before, file>>
        /\ at' # "search" /\ at \notin {"idle", "search"}
    BY <1>7 DEF BackfillValues
  <2>. QED  BY <1>1, <1>2, <2>1, <2>2, <2>3, RefreshFrame
<1>8. CASE \E k \in Killmail : CrashTearsFile(k)
  <2>1. PICK k \in Killmail : CrashTearsFile(k)
    BY <1>8
  <2>2. /\ file' = [file EXCEPT ![k] = "torn"] /\ at' = "idle"
        /\ UNCHANGED <<search, fetch, before, faults>>
    BY <2>1 DEF CrashTearsFile
  <2>3. /\ file' \in [Killmail -> {"none", "torn", "whole"}]
        /\ \A x \in Killmail : file'[x] \in {file[x], "torn"}
    BY <1>1, <2>2
  <2>. QED  BY <1>1, <2>2, <2>3, RefreshFrame
<1>. QED  BY <1>4, <1>5, <1>6, <1>7, <1>8

LEMMA InitRefreshInv == RefreshInit => RefreshInv
<1>. SUFFICES ASSUME RefreshInit PROVE RefreshInv
  OBVIOUS
<1>1. NoTask \in [st : FetchState, tries : Nat, limits : Nat]
  BY DEF NoTask, FetchState
<1>2. RefreshTypeOK
  BY <1>1 DEF RefreshInit, RefreshTypeOK
<1>3. SearchedSoFar /\ WindowsAreWhole
  BY DEF RefreshInit, SearchedSoFar, WindowsAreWhole
<1>4. TriesAreFaults /\ SkippedForCause
  BY DEF RefreshInit, TriesAreFaults, SkippedForCause, NoTask
<1>. QED  BY <1>2, <1>3, <1>4 DEF RefreshInv

LEMMA StepRefreshInv == RefreshInv /\ [RefreshNext]_refreshVars => RefreshInv'
<1>. SUFFICES ASSUME RefreshInv, [RefreshNext]_refreshVars PROVE RefreshInv'
  OBVIOUS
<1>1. CASE UNCHANGED refreshVars
  BY <1>1 DEF refreshVars, search, RefreshInv, RefreshTypeOK, SearchedSoFar, WindowsAreWhole,
     TriesAreFaults, SkippedForCause
<1>2. CASE RefreshNext
  BY <1>2, StepSearch, StepFetch, StepRest DEF RefreshNext, RefreshStep
<1>. QED  BY <1>1, <1>2

\* Of any window, with any faults, attempts and deaths of the worker: a refresh
\* works on all of it or fails, and one that met fewer faults than a request has
\* attempts gives no killmail up, but for those whose file is torn.
THEOREM RefreshesLeaveNoHole == RefreshSpec => []BlipsLeaveNoHole
<1>1. RefreshInv => BlipsLeaveNoHole
  <2>. SUFFICES ASSUME RefreshInv, faults - before < Attempts,
                       NEW k \in Under("skipped"), file[k] # "torn", at \notin {"idle", "search"}
                PROVE  FALSE
    BY DEF BlipsLeaveNoHole, RefreshInv
  <2>1. k \in Killmail /\ fetch[k].st = "skipped"
    BY DEF RefreshInv, RefreshTypeOK, Under
  <2>2. fetch[k].tries \in Nat /\ fetch[k].limits \in Nat /\ faults \in Nat /\ before \in Nat
    BY <2>1 DEF RefreshInv, RefreshTypeOK
  <2>3. fetch[k].tries >= Attempts \/ fetch[k].limits >= Attempts
    BY <2>1 DEF RefreshInv, SkippedForCause
  <2>4. fetch[k].tries + fetch[k].limits <= faults - before
    BY <2>1 DEF RefreshInv, TriesAreFaults
  <2>5. Attempts \in Nat
    BY UpstreamAssumption
  <2>. QED  BY <2>2, <2>3, <2>4, <2>5
<1>. QED  BY <1>1, InitRefreshInv, StepRefreshInv, PTL DEF RefreshSpec
=============================================================================
