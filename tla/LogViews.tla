------------------------------- MODULE LogViews ------------------------------
(***************************************************************************)
(* What the views make of logs in which one act is written down by several *)
(* clients: tackle deduplication (src/app/logs/associate.py) and the views *)
(* of tackle, repairs and capacitor transfers (src/app/analytics/fleet.py, *)
(* ewar.py, timeline.py, composition.py), as logs are uploaded and deleted *)
(* and fights are found.                                                   *)
(*                                                                         *)
(* The stamps follow from the files and the fights that are there, which   *)
(* is what FightStore shows of them.  Amounts are counted as hits.         *)
(***************************************************************************)
EXTENDS Integers, FiniteSets, FiniteSetsExt, SequencesExt

CONSTANTS
    Pilot,
    NoName,         \* a counterparty logged by its hull only
    Log,            \* files that can be uploaded
    Owner,          \* whose log it is
    Session,        \* the client session it was written in
    Span,           \* the first and the last second it covers
    Window,         \* the padded window of each fight
    BUCKET_SECONDS,
    Histories       \* bound: what happened

Acts == [by : Pilot, to : Pilot, effect : STRING, at : Int]

ASSUME LogViewsAssumption ==
    /\ NoName \notin Pilot
    /\ Owner \in [Log -> Pilot]
    /\ BUCKET_SECONDS \in Nat
    /\ Span \in [Log -> Int \X Int]
    /\ \A f \in DOMAIN Window : Window[f] \in Int \X Int
    \* "Each later upload is a superset of the earlier one."
    /\ \A l, m \in Log : Session[l] = Session[m] =>
         Owner[l] = Owner[m] /\ Span[l][1] = Span[m][1] /\ (Span[l] = Span[m] => l = m)
    \* A character is logged in with one client at a time.
    /\ \A l, m \in Log : Owner[l] = Owner[m] /\ Session[l] # Session[m] =>
         Span[l][2] < Span[m][1] \/ Span[m][2] < Span[l][1]
    /\ \A h \in Histories :
         /\ h.assists \subseteq Acts /\ IsFiniteSet(h.assists)
         /\ h.tackles \subseteq Acts /\ IsFiniteSet(h.tackles)
         /\ h.skew \in [Pilot -> Int]

VARIABLES
    hist,           \* assists and tackles: [by, to, effect, at]; skew of the
                    \* clocks; terse: pilots whose client names no one else
    files,          \* GamelogFile: the logs, by file_id
    fights,         \* the fights found so far, by fight_id
    suppressed      \* dedupe_suppressed: <<log, tackle>>
vars == <<hist, files, fights, suppressed>>

Tackle == {"scram", "disrupt"}
Reps == {"rep_armor", "rep_shield"}
Uploaded(fs) == ToSet(fs)

\* x has a lower id than y.
Precedes(s, x, y) == \E i, j \in DOMAIN s : i < j /\ s[i] = x /\ s[j] = y

-----------------------------------------------------------------------------
(* Rows of the log events.                                                 *)

Ts(l, x) == x.at + hist.skew[Owner[l]]
Covers(l, x) == x.at \in Span[l][1] .. Span[l][2]
NameOf(l, p) == IF p = Owner[l] \/ Owner[l] \notin hist.terse THEN p ELSE NoName

\* Both ends of an assist log it, everyone on the grid logs a tackle.
AssistRows(l) ==
    {[log |-> l, act |-> x, dir |-> d, other |-> NameOf(l, IF d = "out" THEN x.to ELSE x.by)] :
       x \in {y \in hist.assists : Covers(l, y)}, d \in {"out", "in"}}
Rows(l) == {r \in AssistRows(l) : Owner[l] = IF r.dir = "out" THEN r.act.by ELSE r.act.to}

TackleRows(l) ==
    {[log |-> l, act |-> x, source |-> NameOf(l, x.by), target |-> NameOf(l, x.to),
      dir |-> IF Owner[l] = x.by THEN "out" ELSE "in",
      authoritative |-> Owner[l] \in {x.by, x.to}] : x \in {y \in hist.tackles : Covers(l, y)}}

Assisted == UNION {Rows(l) : l \in Log}
Tackled == UNION {TackleRows(l) : l \in Log}

\* _session_superseded_file_ids: all but the most complete file of a session.
Superseded(fs, l) == \E m \in Uploaded(fs) : Session[m] = Session[l] /\ Span[m][2] > Span[l][2]

Inside(r, f) == Ts(r.log, r.act) \in Window[f][1] .. Window[f][2]

\* "the lowest fight_id always wins"
Owns(F, f, r) ==
    /\ f \in ToSet(F) /\ Inside(r, f)
    /\ \A g \in ToSet(F) : Precedes(F, g, f) => ~Inside(r, g)

\* The rows of R that carry the stamp of f.
Stamped(fs, F, f, R) ==
    {r \in R : r.log \in Uploaded(fs) /\ ~Superseded(fs, r.log) /\ Owns(F, f, r)}

\* associate_file: the fights whose window the file overlaps.
Matched(fs, F, l) ==
    IF Superseded(fs, l) THEN {}
    ELSE {f \in ToSet(F) : Span[l][1] + hist.skew[Owner[l]] <= Window[f][2]
                            /\ Span[l][2] + hist.skew[Owner[l]] >= Window[f][1]}

-----------------------------------------------------------------------------
(* The tackle pass.                                                        *)

Key(r) == <<r.source, r.target, r.act.effect>>

\* The times of K that open a cluster: those that no opening before them reaches.
Anchors(K) ==
    LET times == {Ts(r.log, r.act) : r \in K} IN
    CHOOSE A \in SUBSET times :
      \A t \in times : t \in A <=> \A u \in A : ~(t - BUCKET_SECONDS <= u /\ u < t)
Cluster(K, r) ==
    Min({a \in Anchors(K) : a <= Ts(r.log, r.act) /\ Ts(r.log, r.act) - a <= BUCKET_SECONDS})

\* event_id: ids are given out file by file, line by line.
Before(fs, r, q) == Precedes(fs, r.log, q.log) \/ (r.log = q.log /\ r.act.at < q.act.at)
Better(fs, r, q) ==
    \/ r.authoritative /\ ~q.authoritative
    \/ r.authoritative = q.authoritative /\ Before(fs, r, q)

\* The rows of a fight that give way to a better one of their cluster.
Losers(fs, K) ==
    {r \in K : LET group == {q \in K : Key(q) = Key(r)} IN
       \E q \in group : Cluster(group, q) = Cluster(group, r) /\ Better(fs, q, r)}

\* _dedupe_ewar_relationships: recomputed for the fights D, of the files fs and
\* the fights F; other flags stay.
DedupeEwar(fs, F, D) ==
    LET of(f) == Stamped(fs, F, f, Tackled) IN
    {s \in suppressed : /\ s[1] \in Uploaded(fs)
                        /\ ~\E f \in D : \E r \in of(f) : <<r.log, r.act>> = s}
      \union {<<r.log, r.act>> : r \in UNION {Losers(fs, of(f)) : f \in D}}

-----------------------------------------------------------------------------
Init ==
    /\ hist \in Histories
    /\ files = <<>>
    /\ fights = <<>>
    /\ suppressed = {}

\* ingest_log and associate_file.
UploadLog(l) ==
    /\ l \notin Uploaded(files)
    /\ files' = Append(files, l)
    /\ suppressed' = DedupeEwar(files', fights, Matched(files', fights, l))
    /\ UNCHANGED <<hist, fights>>

\* Mutant: the other logs are left as the deleted one had them.
DeleteGamelogFileOnly(i) ==
    /\ files' = RemoveAt(files, i)
    /\ suppressed' = DedupeEwar(files', fights, {})
    /\ UNCHANGED <<hist, fights>>

\* delete_gamelog_file: the siblings come back without the tackle pass, which
\* follows for the fights the file had stamps in.
DeleteGamelogFile(i) ==
    /\ files' = RemoveAt(files, i)
    /\ LET had == {f \in ToSet(fights) :
                     \E r \in Stamped(files, fights, f, Assisted \union Tackled) : r.log = files[i]}
       IN suppressed' = DedupeEwar(files', fights, had)
    /\ UNCHANGED <<hist, fights>>

\* associate_logs_for_br, after an ingest that found the fight f, or none.
AssociateLogsForBr(f) ==
    /\ fights' = IF f \in ToSet(fights) THEN fights ELSE Append(fights, f)
    /\ suppressed' = DedupeEwar(files, fights', ToSet(fights'))
    /\ UNCHANGED <<hist, files>>

Next ==
    \/ \E l \in Log : UploadLog(l)
    \/ \E i \in DOMAIN files : DeleteGamelogFile(i)
    \/ \E f \in DOMAIN Window : AssociateLogsForBr(f)

Spec == Init /\ [][Next]_vars

-----------------------------------------------------------------------------
(* Views of the stored rows.                                               *)

InFight(f, R) == Stamped(files, fights, f, R)
InFights(R) == UNION {InFight(f, R) : f \in ToSet(fights)}

Assists == InFights(Assisted)
Kept == {r \in InFights(Tackled) : <<r.log, r.act>> \notin suppressed}

\* Mutant: a copy is told from its original by the second.
AccumulatePerTick(R) ==
    {r \in R : r.dir = "out" \/ ~\E q \in R :
       /\ q.dir = "out" /\ Owner[q.log] = r.other /\ q.other = Owner[r.log]
       /\ q.act.effect = r.act.effect /\ Ts(q.log, q.act) = Ts(r.log, r.act)}

\* _accumulate_remote_assist: the rows that count.
AccumulateRemoteAssist(R) ==
    LET logged == {<<Owner[r.log], r.act.effect>> : r \in {q \in R : q.dir = "out"}}
    IN {r \in R : r.dir = "out" \/ <<r.other, r.act.effect>> \notin logged}
Repper(r) == IF r.dir = "out" THEN Owner[r.log] ELSE r.other

\* fleet_snapshot: what is shown of the seconds from..to-1.
SnapshotAssists(from, to) ==
    AccumulateRemoteAssist({r \in Assists : Ts(r.log, r.act) \in from .. to - 1})
SnapshotTackles == {r \in Kept : NoName \notin {r.source, r.target}}

\* _reps_applied_by_char
RepsAppliedByChar(c) ==
    LET reps == {r \in Assists : r.act.effect \in Reps}
        own == {r \in reps : r.dir = "out" /\ Owner[r.log] = c}
    IN IF own # {} THEN own ELSE {r \in reps : r.dir = "in" /\ r.other = c}

\* _remote_assist_series: own rows, or else the mirrors of a direction.
RemoteAssistSeries(c, d) ==
    LET own == {r \in Assists : r.dir = d /\ Owner[r.log] = c}
    IN IF own # {} THEN own ELSE {r \in Assists : r.dir # d /\ Owner[r.log] # c /\ r.other = c}

\* fight_ewar, section 1
FightEwar(f) == {r \in SnapshotTackles : r \in InFight(f, Tackled) /\ r.source # r.target}

\* fleet_timeline: the rows of its scram and disrupt lines.
TackleSeries == Kept

\* _compute_leaders: the tackles on a pilot.
TackleTaken(c) == {r \in Kept : r.target = c}

-----------------------------------------------------------------------------
(* Properties.                                                             *)

\* The acts of S that some row of R tells of.
Told(S, R) == {x \in S : \E r \in R : r.act = x}

\* All clocks are within the window of each other, and two tackles of one pilot by
\* another never so close that clocks could bring them within it.
ClocksAgree == \A p, q \in Pilot : hist.skew[p] - hist.skew[q] <= BUCKET_SECONDS
Apart ==
    \A x, y \in hist.tackles :
        x.by = y.by /\ x.to = y.to /\ x.effect = y.effect /\ x.at < y.at
          => \A p, q \in Pilot : y.at + hist.skew[p] - (x.at + hist.skew[q]) > BUCKET_SECONDS

\* No edge of a fight falls between two clocks' times of a tackle, such that one
\* log's row is stamped with one fight and another's with the next.
OneFightEach ==
    \A f, g \in ToSet(fights) : \A r \in InFight(f, Tackled), q \in InFight(g, Tackled) :
        r.act = q.act => f = g

\* "One physical tackle = one event regardless of how many logs broadcast it"
\* (fleet_timeline): whichever logs were uploaded and deleted, and in whichever
\* order the fights were found, the snapshot, the timeline, the leaders and the
\* fights' summaries count every tackle once that some log tells of.
TacklesCountOnce ==
    ClocksAgree /\ Apart /\ OneFightEach /\ hist.terse = {} =>
      LET once(R, S) == /\ {r.act : r \in R} = S
                        /\ Cardinality(R) = Cardinality(S)
          told == Told(hist.tackles, InFights(Tackled))
      IN /\ once(SnapshotTackles, told)
         /\ once(TackleSeries, told)
         /\ \A c \in Pilot : once(TackleTaken(c), {x \in told : x.to = c})
         /\ \A f \in ToSet(fights) : once(FightEwar(f),
                Told({x \in hist.tackles : x.by # x.to}, InFight(f, Tackled)))

\* Of what pilot c did (end = "by") or got (end = "to"), c's own logs tell
\* everything or nothing.
AllOrNone(c, end) ==
    LET own == {r.act : r \in {q \in Assists : Owner[q.log] = c /\ q.dir = IF end = "by" THEN "out" ELSE "in"}}
    IN own = {} \/ {x \in Told(hist.assists, Assists) : x[end] = c} \subseteq own

\* "Both endpoints log it", "so we never double count" (timeline): a pilot's own
\* timeline, the fleet's snapshot and the composition count every repair and
\* transfer once that the pilot logged, or else that the other side logged, and
\* so agree.
AssistsCountOnce ==
    LET once(R, S) == /\ {r.act : r \in R} = S
                      /\ Cardinality(R) = Cardinality(S)
        named(c, end) == {x \in hist.assists : x[end] = c /\ \E r \in Assists :
                            r.act = x /\ (Owner[r.log] = c \/ r.other = c)}
        snapshot == AccumulateRemoteAssist(Assists)
    IN /\ \A c \in Pilot : AllOrNone(c, "by") =>
            /\ once({r \in snapshot : Repper(r) = c}, named(c, "by"))
            /\ once(RemoteAssistSeries(c, "out"), named(c, "by"))
            /\ once(RepsAppliedByChar(c), {x \in named(c, "by") : x.effect \in Reps})
       /\ \A c \in Pilot : AllOrNone(c, "to") =>
            once(RemoteAssistSeries(c, "in"), named(c, "to"))

-----------------------------------------------------------------------------
(* What the repository says and the code does not do.                      *)

\* "So the graph agrees" (fleet_timeline, of snapshot and hover): a tackle whose
\* other end was logged by its hull is drawn and not listed.
GraphAgrees == TackleSeries = SnapshotTackles

\* "One physical tackle = one event": a tackle whose times by two clocks fall into two
\* fights is kept in both.
EdgesCountOnce == ClocksAgree /\ Apart => \A q, r \in Kept : q.act = r.act => q = r

\* "So a logi with a missing/incomplete log still gets a timeline": a pilot with
\* one uploaded log loses what the others logged of the rest.
IncompleteLogsFilled ==
    \A c \in Pilot : \A r \in Assists : r.dir = "in" /\ r.other = c =>
        \E q \in RemoteAssistSeries(c, "out") : q.act = r.act

\* "Each physical tick counted once": a tick whose two clocks fall into
\* neighbouring windows is counted in both.
WindowsAddUp ==
    \A t \in UNION {Ts(r.log, r.act) .. Ts(r.log, r.act) + 1 : r \in Assists} :
        \A x \in hist.assists :
            ~(/\ \E r \in SnapshotAssists(0, t) : r.act = x
              /\ \E r \in {q \in Assists : Ts(q.log, q.act) >= t} :
                    r \in AccumulateRemoteAssist({q \in Assists : Ts(q.log, q.act) >= t}) /\ r.act = x)
=============================================================================
