----------------------------- MODULE FightStore -----------------------------
(***************************************************************************)
(* The derived rows that battle reports and combat logs share: fights      *)
(* (src/app/fights/aggregate.py), the fight each log event is stamped with *)
(* and the buckets summed from those stamps (src/app/logs/associate.py),   *)
(* under every handler that writes them.                                   *)
(*                                                                         *)
(* SQLite has one writer: from its first write to its commit a transaction *)
(* runs alone and is one action here.  What a handler SELECTs before that  *)
(* write it reads outside the lock, so a handler that reads first is two   *)
(* actions, with its reading kept in between.  Ingests are serialized by   *)
(* the scheduler (IngestJobs); the request handlers are not.               *)
(***************************************************************************)
EXTENDS Integers, FiniteSets, FiniteSetsExt, Functions

CONSTANTS
    BR,          \* battle reports
    KM,          \* killmails
    TimeOf,      \* when each kill happened
    ClustersOf,  \* cluster_kills: the fights a set of killmails makes (Clustering)
    LOG,         \* gamelog files by file_id, all of resolved characters
    EventsOf,    \* the times of the effect lines of each file, which also span it
    CharOf,      \* the character a file belongs to
    SessionOf,   \* (character, session start): files that are one client log
    Pad          \* slack around a fight, in the unit of the times

ASSUME FightStoreAssumption ==
    /\ IsFiniteSet(KM) /\ TimeOf \in [KM -> Nat] /\ Pad \in Nat
    /\ ClustersOf \in [SUBSET KM -> SUBSET ((SUBSET KM) \ {{}})]
    /\ \A K \in SUBSET KM : UNION ClustersOf[K] = K
    /\ LOG \subseteq Nat
    /\ EventsOf \in [LOG -> (SUBSET Nat) \ {{}}]
    /\ \A f \in LOG : IsFiniteSet(EventsOf[f])
    \* One client log is of one character, and every upload begins where it does.
    /\ \A f, g \in LOG : SessionOf[f] = SessionOf[g] =>
         CharOf[f] = CharOf[g] /\ Min(EventsOf[f]) = Min(EventsOf[g])

VARIABLES
    report,    \* reports with a BattleReport row
    linked,    \* BrKillmail rows
    killmail,  \* Killmail rows
    fight,     \* Fight rows with their FightKill rows: id -> killmails
    brFight,   \* BrFight rows: the fights of each report
    file,      \* parsed GamelogFile rows
    stamp,     \* LogEvent.fight_id of each event, 0 for NULL
    bucket,    \* the events summed in LogEventBucket rows, with the fight
    ingest,    \* locals of the ingest in progress
    deleting,  \* fights a delete_br has read, by report
    dropping,  \* fights a delete_log has read, by file
    reparse    \* what a reparse has read: the files, and the fights of the first

vars == <<report, linked, killmail, fight, brFight, file, stamp, bucket,
          ingest, deleting, dropping, reparse>>
battleVars == <<report, linked, killmail, fight, brFight>>
logVars == <<file, stamp, bucket>>

Event == UNION {{f} \X EventsOf[f] : f \in LOG}
EventsIn(F) == {e \in Event : e[1] \in F}
Fights == DOMAIN fight

NoRead == [br |-> "none", at |-> "idle", prev |-> {}]
\* Nothing read yet: rowids start at 1.
NotRead == {0}
NoReparse == [files |-> {}, old |-> {}]

-----------------------------------------------------------------------------
(* Fights.                                                                 *)

Start(C) == Min({TimeOf[k] : k \in C})
End(C) == Max({TimeOf[k] : k \in C})

\* The padded window of a fight with kills C, in which it claims log events.
InWindow(C, t) == Start(C) <= t + Pad /\ t <= End(C) + Pad

\* The rows a transaction works on, and the state it leaves.
Rows == [fight |-> fight, brFight |-> brFight, stamp |-> stamp, bucket |-> bucket]

Commit(r) ==
    /\ fight' = r.fight /\ brFight' = r.brFight
    /\ stamp' = r.stamp /\ bucket' = r.bucket

\* Mutant: an event keeps pointing at the fight that has gone.
DropFightsKeepStamps(r, gone) ==
    [r EXCEPT !.fight = [i \in DOMAIN r.fight \ gone |-> r.fight[i]],
              !.bucket = {x \in @ : x[1] \notin gone}]

\* _drop_fights: the rows derived from a fight go with it, stamps are cleared.
DropFights(r, gone) ==
    [r EXCEPT !.fight = [i \in DOMAIN r.fight \ gone |-> r.fight[i]],
              !.stamp = [e \in Event |-> IF @[e] \in gone THEN 0 ELSE @[e]],
              !.bucket = {x \in @ : x[1] \notin gone}]

\* Mutant: fights are dropped without asking who shares them.
UnreferencedAnyway(r, ids) == ids

\* Those of the fights ids that no report refers to any more.
Unreferenced(r, ids) == {i \in ids : \A b \in BR : i \notin r.brFight[b]}

\* Mutant: every report gets fights of its own.
PersistClustersAlwaysNew(fs, Cs) ==
    LET ids == {Max(DOMAIN fs \union {0}) + n : n \in 1..Cardinality(Cs)} IN
    {[i \in DOMAIN fs \union ids |-> IF i \in ids THEN made[i] ELSE fs[i]] :
       made \in {m \in Bijection(ids, Cs) :
                   \A i, j \in ids : i < j => Start(m[i]) <= Start(m[j])}}

\* The Fight rows once the clusters Cs have theirs: a kill set that has one
\* keeps it, the others get new ones in the order they start in (in either, on
\* a tie); SQLite makes a new rowid one more than the largest in use.
PersistClusters(fs, Cs) ==
    LET new == {C \in Cs : \A i \in DOMAIN fs : fs[i] # C}
        ids == {Max(DOMAIN fs \union {0}) + n : n \in 1..Cardinality(new)}
    IN {[i \in DOMAIN fs \union ids |-> IF i \in ids THEN made[i] ELSE fs[i]] :
          made \in {m \in Bijection(ids, new) :
                      \A i, j \in ids : i < j => Start(m[i]) <= Start(m[j])}}

\* The fights of the clusters Cs: the lowest of the same kill set, on a tie.
FightsOf(fs, Cs) == {Min({i \in DOMAIN fs : fs[i] = C}) : C \in Cs}

\* Mutant: a refresh drops the fights of the report and makes them anew.
AggregateAnew(r, b, prev) ==
    LET unlinked == [r EXCEPT !.brFight[b] = {}]
        left == DropFights(unlinked, Unreferenced(unlinked, prev))
    IN {[left EXCEPT !.fight = fs, !.brFight[b] = FightsOf(fs, ClustersOf[linked[b]])] :
          fs \in PersistClusters(left.fight, ClustersOf[linked[b]])}

\* What aggregate_br may leave, with the fights of the report as read before the
\* first write: those it no longer uses go, if no other report uses them.
Aggregate(r, b, prev) ==
    LET Built(fs) == [r EXCEPT !.fight = fs,
                               !.brFight[b] = FightsOf(fs, ClustersOf[linked[b]])]
        Stale(s) == prev \ s.brFight[b]
    IN {DropFights(Built(fs), Unreferenced(Built(fs), Stale(Built(fs)))) :
          fs \in PersistClusters(r.fight, ClustersOf[linked[b]])}

-----------------------------------------------------------------------------
(* Log association.                                                        *)

\* _coverage_key: the file that ends later, has more events, or is the later row.
Covers(g, h) ==
    \/ Max(EventsOf[g]) > Max(EventsOf[h])
    \/ /\ Max(EventsOf[g]) = Max(EventsOf[h])
       /\ \/ Cardinality(EventsOf[g]) > Cardinality(EventsOf[h])
          \/ Cardinality(EventsOf[g]) = Cardinality(EventsOf[h]) /\ g >= h

\* The files of f's session in F other than the most complete one.
Superseded(F, f) ==
    LET session == {g \in F : SessionOf[g] = SessionOf[f]}
    IN {g \in session : \E h \in session : ~Covers(g, h)}

StampedIn(r, F) == {r.stamp[e] : e \in EventsIn(F)} \ {0}

\* The events stamped with a fight that are summed for one of the pairs.
Summed(r, pairs) ==
    {<<r.stamp[e], e>> : e \in {x \in Event : <<r.stamp[x], CharOf[x[1]]>> \in pairs}}

\* Mutant: buckets are only added to.
RebuildBucketsAdding(r, pairs) == [r EXCEPT !.bucket = @ \union Summed(r, pairs)]

\* _rebuild_buckets_for_pairs: the buckets of pairs of a fight and a character.
RebuildBuckets(r, pairs) ==
    [r EXCEPT !.bucket = {x \in @ : <<x[1], CharOf[x[2][1]]>> \notin pairs}
                           \union Summed(r, pairs)]

\* The events of the files F lose their stamps, or are replaced by new ones.
Emptied(r, F) == [r EXCEPT !.stamp = [e \in Event |-> IF e[1] \in F THEN 0 ELSE @[e]]]

\* The fight an event at t is stamped with: the lowest whose window holds it.
Owner(fs, t) ==
    LET claims == {i \in DOMAIN fs : InWindow(fs[i], t)} IN
    IF claims = {} THEN 0 ELSE Min(claims)

\* The fights whose padded windows overlap the span of f.
Overlapping(fs, f) ==
    {i \in DOMAIN fs : /\ Start(fs[i]) <= Max(EventsOf[f]) + Pad
                       /\ Min(EventsOf[f]) <= End(fs[i]) + Pad}

\* associate_file for each of the files S among the parsed files F, in any
\* order (AssociationOrderFree): superseded files of their sessions lose their
\* stamps; the other files of S are stamped anew; the buckets of every fight that
\* lost or may have won an event are rebuilt.
AssociateFiles(r, F, S) ==
    LET lost == UNION {Superseded(F, f) : f \in S}
        won == S \ lost
        Touched(g) == StampedIn(r, {g}) \union (IF g \in won THEN Overlapping(r.fight, g) ELSE {})
        stamped == [r EXCEPT !.stamp = [e \in Event |->
                      CASE e[1] \in lost -> 0
                        [] e[1] \in won -> Owner(r.fight, e[2])
                        [] OTHER -> r.stamp[e]]]
    IN RebuildBuckets(stamped, UNION {Touched(g) \X {CharOf[g]} : g \in lost \union won})

\* Mutant: only files that overlap the fight itself.
AssociateLogsUnpadded(r, b) ==
    LET near == {f \in file : \E i \in r.brFight[b] :
                   /\ Start(r.fight[i]) <= Max(EventsOf[f])
                   /\ Min(EventsOf[f]) <= End(r.fight[i])}
    IN AssociateFiles(r, file, near)

\* associate_logs_for_br: every parsed file whose span overlaps a fight of b.
AssociateLogs(r, b) ==
    AssociateFiles(r, file, {f \in file : Overlapping(r.fight, f) \cap r.brFight[b] # {}})

-----------------------------------------------------------------------------
Init ==
    /\ report = BR
    /\ linked = [b \in BR |-> {}]
    /\ killmail = {}
    /\ fight = [i \in {} |-> {}]
    /\ brFight = [b \in BR |-> {}]
    /\ file = {}
    /\ stamp = [e \in Event |-> 0]
    /\ bucket = {}
    /\ ingest = NoRead
    /\ deleting = [b \in BR |-> NotRead]
    /\ dropping = [f \in LOG |-> NotRead]
    /\ reparse = NoReparse

(* The ingest of one report, from the commit of its killmails on.          *)

\* Killmails and links are committed together (phase 3); the foreign key of
\* the links fails the run if the report has gone.
IngestLink(b) ==
    /\ ingest.at = "idle"
    /\ b \in report
    /\ \E K \in SUBSET KM :
         /\ killmail' = killmail \union K
         /\ linked' = [linked EXCEPT ![b] = @ \union K]
    /\ ingest' = [br |-> b, at |-> "linked", prev |-> {}]
    /\ UNCHANGED <<report, fight, brFight, logVars, deleting, dropping, reparse>>

\* The transaction of status "clustering", then the first SELECT of aggregate_br.
IngestRead(b) ==
    /\ ingest.br = b /\ ingest.at = "linked"
    /\ ingest' = IF b \in report
                   THEN [ingest EXCEPT !.at = "read", !.prev = brFight[b]]
                   ELSE NoRead
    /\ UNCHANGED <<battleVars, logVars, deleting, dropping, reparse>>

\* aggregate_br and associate_logs_for_br, in one transaction (phase 4).
IngestWrite(b) ==
    /\ ingest.br = b /\ ingest.at = "read"
    /\ ingest' = NoRead
    /\ UNCHANGED <<report, linked, killmail, file, deleting, dropping, reparse>>
    /\ \E r \in Aggregate(Rows, b, ingest.prev) : Commit(AssociateLogs(r, b))

\* The run raises, or the worker dies: what was committed stays.
IngestFails(b) ==
    /\ ingest.br = b
    /\ ingest' = NoRead
    /\ UNCHANGED <<battleVars, logVars, deleting, dropping, reparse>>

(* The request handlers.                                                   *)

\* set_override and set_participant_side write the override first and so
\* aggregate under the write lock; logs are not associated again.
OverrideSide(b) ==
    /\ b \in report
    /\ UNCHANGED <<report, linked, killmail, file, ingest, deleting, dropping, reparse>>
    /\ \E r \in Aggregate(Rows, b, brFight[b]) : Commit(r)

\* delete_br reads the report's fights...
DeleteBrRead(b) ==
    /\ b \in report
    /\ deleting[b] = NotRead
    /\ deleting' = [deleting EXCEPT ![b] = brFight[b]]
    /\ UNCHANGED <<battleVars, logVars, ingest, dropping, reparse>>

\* ... and deletes: the report's rows, of those fights the ones no other report
\* uses, and of their killmails and the report's own the ones nothing uses.
DeleteBrWrite(b) ==
    /\ deleting[b] # NotRead
    /\ LET unlinked == [Rows EXCEPT !.brFight[b] = {}]
           left == DropFights(unlinked, Unreferenced(unlinked, deleting[b]))
           mine == linked[b] \union UNION {fight[i] : i \in deleting[b] \cap Fights}
           used == (UNION {linked[c] : c \in BR \ {b}})
                     \union UNION {left.fight[i] : i \in DOMAIN left.fight}
       IN /\ Commit(left)
          /\ killmail' = killmail \ (mine \ used)
    /\ linked' = [linked EXCEPT ![b] = {}]
    /\ report' = report \ {b}
    /\ deleting' = [deleting EXCEPT ![b] = NotRead]
    /\ UNCHANGED <<file, ingest, dropping, reparse>>

\* upload_logs: a file not in the store is inserted and associated in one
\* transaction.
UploadLog(f) ==
    /\ f \notin file
    /\ file' = file \union {f}
    /\ Commit(AssociateFiles(Rows, file', {f}))
    /\ UNCHANGED <<report, linked, killmail, ingest, deleting, dropping, reparse>>

\* delete_log reads the fights its events are stamped with...
DeleteLogRead(f) ==
    /\ f \in file
    /\ dropping[f] = NotRead
    /\ dropping' = [dropping EXCEPT ![f] = StampedIn(Rows, {f})]
    /\ UNCHANGED <<battleVars, logVars, ingest, deleting, reparse>>

\* Mutant: the rest of the session is not associated again.
DeleteLogWriteAlone(f) ==
    /\ dropping[f] # NotRead
    /\ file' = file \ {f}
    /\ Commit(RebuildBuckets(Emptied(Rows, {f}), dropping[f] \X {CharOf[f]}))
    /\ dropping' = [dropping EXCEPT ![f] = NotRead]
    /\ UNCHANGED <<report, linked, killmail, ingest, deleting, reparse>>

\* ... and deletes the file, rebuilds the buckets of those fights and
\* associates the rest of its session, which may have a new canonical file.
DeleteLogWrite(f) ==
    /\ dropping[f] # NotRead
    /\ file' = file \ {f}
    /\ LET siblings == {g \in file' : SessionOf[g] = SessionOf[f]}
           gone == RebuildBuckets(Emptied(Rows, {f}), dropping[f] \X {CharOf[f]})
       IN Commit(AssociateFiles(gone, file', siblings))
    /\ dropping' = [dropping EXCEPT ![f] = NotRead]
    /\ UNCHANGED <<report, linked, killmail, ingest, deleting, reparse>>

(* The maintenance tool reparse_gamelogs, beside a running worker.          *)

\* It lists the files, and reads the fights of the first, without the lock...
ReparseRead ==
    /\ reparse = NoReparse
    /\ file # {}
    /\ reparse' = [files |-> file, old |-> StampedIn(Rows, {Min(file)})]
    /\ UNCHANGED <<battleVars, logVars, ingest, deleting, dropping>>

\* ... and then, for the files S that can be read, replaces the events by what the
\* parser makes of them now (the same), associates, and rebuilds the buckets of
\* the fights they were in.  A file deleted since fails the flush and all else.
ReparseWrite(S) ==
    /\ reparse # NoReparse
    /\ S \subseteq reparse.files
    /\ reparse' = NoReparse
    /\ LET Old(f) == IF f = Min(reparse.files) THEN reparse.old ELSE StampedIn(Rows, {f})
           pairs == UNION {Old(f) \X {CharOf[f]} : f \in S}
       IN IF reparse.files \subseteq file
            THEN Commit(RebuildBuckets(AssociateFiles(Emptied(Rows, S), file, S), pairs))
            ELSE UNCHANGED <<fight, brFight, stamp, bucket>>
    /\ UNCHANGED <<report, linked, killmail, file, ingest, deleting, dropping>>

Next ==
    \/ ReparseRead
    \/ \E S \in SUBSET LOG : ReparseWrite(S)
    \/ \E b \in BR :
         \/ IngestLink(b) \/ IngestRead(b) \/ IngestWrite(b) \/ IngestFails(b)
         \/ OverrideSide(b) \/ DeleteBrRead(b) \/ DeleteBrWrite(b)
    \/ \E f \in LOG : UploadLog(f) \/ DeleteLogRead(f) \/ DeleteLogWrite(f)

Spec == Init /\ [][Next]_vars

-----------------------------------------------------------------------------
\* A stamped event belongs to a stored file and names the lowest live fight
\* whose window holds it: no stamp dangles or is taken over, whatever fights
\* came, went and left their rowid to another.  Of the uploads of one client
\* log at most one is stamped, so no effect counts twice.
StampsNameTheOwner ==
    \A e \in Event : stamp[e] # 0 =>
        /\ e[1] \in file
        /\ stamp[e] \in Fights /\ InWindow(fight[stamp[e]], e[2])
        /\ \A i \in Fights : InWindow(fight[i], e[2]) => stamp[e] <= i
        /\ \A d \in Event : stamp[d] # 0 /\ SessionOf[d[1]] = SessionOf[e[1]]
                               => d[1] = e[1]

\* Deferred foreign keys hold at every commit: what a handler read before its
\* first write never makes it delete a row that another report still uses.
ForeignKeysHold ==
    /\ \A b \in BR : /\ linked[b] \subseteq killmail
                     /\ brFight[b] \subseteq Fights
                     /\ b \notin report => linked[b] = {} /\ brFight[b] = {}
    /\ \A i \in Fights : fight[i] \subseteq killmail

\* "Competing copies would leave one report without logs" (_fights_by_kill_set):
\* one engagement has one fight, however many reports cover it.
NoTwinFights == \A i, j \in Fights : fight[i] = fight[j] => i = j

\* The buckets of the stored files sum exactly their stamped events, each once.
StoredEventsCountOnce ==
    {x \in bucket : x[2][1] \in file} =
        {<<stamp[e], e>> : e \in {x \in Event : stamp[x] # 0}}

\* "Fight ids, and the logs stamped to them, survive a refresh" (aggregate_br):
\* a fight whose kills are still a cluster of the report keeps id and events.
RefreshKeepsFights ==
    [][\A b \in BR : IngestWrite(b) \/ OverrideSide(b) =>
         \A i \in brFight[b] : fight[i] \in ClustersOf[linked[b]] =>
           /\ i \in brFight'[b] /\ fight'[i] = fight[i]
           /\ \A e \in Event : stamp[e] = i => stamp'[e] = i]_vars

\* The order in which files are associated does not matter (files_to_associate is
\* a Python set; "independent of the order files happen to be associated in"):
\* any one of them may come first.
AssociationOrderFree ==
    \A S \in SUBSET file : \A f \in S :
        AssociateFiles(AssociateFiles(Rows, file, {f}), file, S \ {f})
            = AssociateFiles(Rows, file, S)

\* The files that hold everything the stored files of their session hold.
Fullest == {f \in file : \A g \in file :
               SessionOf[g] = SessionOf[f] => EventsOf[g] \subseteq EventsOf[f]}

\* What happened at e is stamped, in this upload of the client log or another.
Counted(e) == \E d \in Event : /\ SessionOf[d[1]] = SessionOf[e[1]] /\ d[2] = e[2]
                               /\ stamp[d] # 0

\* "Order-independent" (associate.py): once an ingest has associated the logs,
\* every event of a fullest file in a window of the report's fights is stamped,
\* whichever of files and kills came first.
IngestConverges ==
    [][\A b \in BR : IngestWrite(b) =>
         \A e \in EventsIn(Fullest) :
           (\E i \in brFight'[b] : InWindow(fight'[i], e[2])) => Counted(e)']_vars

\* "A previously superseded sibling may now be the canonical one"
\* (delete_gamelog_file): after the upload or the reparse of a session's canonical
\* file, or the delete of any, what a fullest one holds is stamped wherever a
\* fight claims it.
SessionConverges ==
    [][\A f \in LOG :
         \/ UploadLog(f) /\ f \notin Superseded(file', f)
         \/ DeleteLogWrite(f)
         \/ /\ \E S \in SUBSET file : f \in S /\ ReparseWrite(S)
            /\ reparse.files \subseteq file
            /\ f \notin Superseded(file, f)
         => \A e \in EventsIn(Fullest') :
              /\ SessionOf[e[1]] = SessionOf[f]
              /\ \E i \in Fights : InWindow(fight[i], e[2])
              => Counted(e)']_vars

-----------------------------------------------------------------------------
(* What the repository says and the code does not do.                      *)

\* "Delete a BR and all of its scoped data" (_delete_br_cascade): a fight that
\* no report uses any more is gone.
NoOrphanFight == \A i \in Fights : \E b \in BR : i \in brFight[b]

\* "Keeps buckets correct regardless of which files were uploaded and in what
\* order" (associate.py): the buckets sum the stamped events and nothing else.
BucketsMatchStamps ==
    bucket = {<<stamp[e], e>> : e \in {x \in Event : stamp[x] # 0}}

\* "Fight ids are stable across this, so logs stay attached" (sides.py).
OverrideKeepsLogs == [][\A b \in BR : OverrideSide(b) => stamp' = stamp]_vars
=============================================================================
