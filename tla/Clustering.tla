----------------------------- MODULE Clustering -----------------------------
(***************************************************************************)
(* cluster_kills (src/app/fights/cluster.py): the fights that a set of     *)
(* kills makes.  Kills are numbers; time and system are functions on them. *)
(* The algorithm sorts by time only, so that kills of one instant come in  *)
(* the database's order; here they come by number.  No cut ever falls      *)
(* between them, so the order does not show in the result, a set of sets.  *)
(* A piece of the sorted list is the set of its kills.                     *)
(***************************************************************************)
EXTENDS Integers, FiniteSets, FiniteSetsExt

CONSTANTS
    Window,        \* window_minutes: the longest gap within a run
    MaxDuration    \* max_duration_minutes: the cap on a fight

ASSUME ClusteringAssumption == Window \in Nat /\ MaxDuration \in Nat

Before(k, l, time) == time[k] < time[l] \/ (time[k] = time[l] /\ k < l)
UpTo(P, k, time) == {l \in P : ~Before(k, l, time)}
After(P, k, time) == {l \in P : Before(k, l, time)}

Times(P, time) == {time[k] : k \in P}
Span(P, time) == Max(Times(P, time)) - Min(Times(P, time))
\* From k to the next kill of P.
Gap(P, k, time) == Min(Times(After(P, k, time), time)) - time[k]

\* Mutant: the window counts from the first kill of the run.
OpeningsFromFirst(K, time) ==
    CHOOSE O \in SUBSET K : \A k \in K :
        k \in O <=> \A l \in O : Before(l, k, time) => time[k] - time[l] > Window

\* The kills that begin a new run: none before them is within the window.
Openings(K, time) ==
    {k \in K : \A l \in K : Before(l, k, time) => time[k] - time[l] > Window}

\* _close_chain: a run goes on until the next opening.
CloseChain(K, time) ==
    LET opened(k) == UpTo(Openings(K, time), k, time) IN
    {{l \in K : opened(l) = opened(k)} : k \in K}

\* The kill that a piece is cut after: the one with the largest gap; of several,
\* the nearest to the middle; of two as near, the later one.
SplitKill(P, time) ==
    LET FromMid(k) ==
          LET i == Cardinality(UpTo(P, k, time)) IN
          IF 2 * i >= Cardinality(P) THEN 2 * i - Cardinality(P) ELSE Cardinality(P) - 2 * i
        inner == {k \in P : After(P, k, time) # {}}
    IN CHOOSE k \in inner : \A l \in inner :
         \/ Gap(P, l, time) < Gap(P, k, time)
         \/ /\ Gap(P, l, time) = Gap(P, k, time)
            /\ \/ FromMid(l) > FromMid(k)
               \/ FromMid(l) = FromMid(k) /\ ~Before(k, l, time)

Short(P, time) == Cardinality(P) < 2 \/ Span(P, time) <= MaxDuration

\* Mutant: one cut per run.
SplitOnce(run, time) ==
    IF Short(run, time) THEN {run}
    ELSE LET k == SplitKill(run, time) IN {UpTo(run, k, time), After(run, k, time)}

\* _split_on_max_duration: the work list of pieces, as a recursion on them.
SplitOnMaxDuration(run, time) ==
    LET split[P \in SUBSET run] ==
          IF Short(P, time) THEN {P}
          ELSE LET k == SplitKill(P, time) IN
               split[UpTo(P, k, time)] \union split[After(P, k, time)]
    IN split[run]

\* The fights of the kills K.
ClusterKills(K, time, system) ==
    LET Runs(x) == CloseChain({k \in K : system[k] = x}, time)
    IN UNION {UNION {SplitOnMaxDuration(run, time) : run \in Runs(x)} : x \in {system[k] : k \in K}}
=============================================================================
