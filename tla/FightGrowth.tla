---------------------------- MODULE FightGrowth -----------------------------
(***************************************************************************)
(* The fights of a report as its killmails become known, one refresh after *)
(* another: Clustering applied to a set that only grows (run_ingest links  *)
(* killmails and never unlinks one).                                       *)
(***************************************************************************)
EXTENDS Clustering

CONSTANTS
    KM,        \* killmails, by number
    Horizon,   \* bound: the latest time
    Systems    \* solar systems

ASSUME FightGrowthAssumption ==
    KM \subseteq Nat /\ IsFiniteSet(KM) /\ Horizon \in Nat /\ Systems # {}

VARIABLES
    time, system,   \* of each killmail
    known,          \* the killmails linked to the report
    fights          \* its fights, each by its set of kills
vars == <<time, system, known, fights>>

\* Kills are numbered in the order of their times, which count from the first.
Init ==
    /\ time \in {t \in [KM -> 0..Horizon] :
                  t[Min(KM)] = 0 /\ \A k, l \in KM : k < l => t[k] <= t[l]}
    /\ system \in [KM -> Systems]
    /\ known = {}
    /\ fights = {}

\* A refresh links another killmail, and the fights are derived anew.
Learn(k) ==
    /\ k \notin known
    /\ known' = known \union {k}
    /\ fights' = ClusterKills(known', time, system)
    /\ UNCHANGED <<time, system>>

Next == \E k \in DOMAIN time : Learn(k)

Spec == Init /\ [][Next]_vars

-----------------------------------------------------------------------------
(* The fights, said without the algorithm.                                 *)

First(C) == Min({time[k] : k \in C})
Final(C) == Max({time[k] : k \in C})
Duration(C) == Final(C) - First(C)

\* k and l are in one run of K: every kill of their system from the earlier one
\* on has another within the window after it, until the later one.
SameRun(K, k, l) ==
    /\ system[k] = system[l]
    /\ \A m \in {n \in K : /\ system[n] = system[k]
                          /\ (time[n] < time[k]) # (time[n] < time[l])} :
         \E n \in K : /\ system[n] = system[k]
                     /\ time[m] < time[n] /\ time[n] <= time[m] + Window

RunsOf(K) == {{l \in K : SameRun(K, k, l)} : k \in K}

\* "Cap each chain at max_duration_minutes" (cluster_kills): every kill is in
\* exactly one fight, in which its run ends up whole unless it is longer than the
\* cap; then in pieces within the cap, each a stretch of time of its own.
FightsAreTheRuns ==
    LET Runs == RunsOf(known) IN
    /\ UNION fights = known /\ {} \notin fights
    /\ \A C, D \in fights : C # D => C \cap D = {}
    /\ \A C \in fights : Duration(C) <= MaxDuration
    /\ \A R \in Runs :
         /\ Duration(R) <= MaxDuration => R \in fights
         /\ UNION {C \in fights : C \subseteq R} = R
         /\ \A C, D \in {F \in fights : F \subseteq R} :
              C # D => Final(C) < First(D) \/ Final(D) < First(C)

\* Fights keep their kills together as a report grows: another killmail may
\* merge fights but never splits one, as long as no run exceeds the cap.
NewKillsOnlyMerge ==
    [][(\A R \in RunsOf(known') : Duration(R) <= MaxDuration)
         => \A C \in fights : \E D \in fights' : C \subseteq D]_vars
=============================================================================
