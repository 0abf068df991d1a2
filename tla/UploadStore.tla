---------------------------- MODULE UploadStore -----------------------------
(***************************************************************************)
(* The directory of uploaded files and the rows that refer to it: gamelogs *)
(* (src/app/logs/ingest.py, src/app/api/logs.py) and fleet-broadcast logs  *)
(* (src/app/logs/broadcast_*.py, src/app/api/broadcasts.py).  A stored     *)
(* file is named by the hash of its content, so that equal uploads share   *)
(* one.                                                                    *)
(*                                                                         *)
(* The directory is not part of a transaction.  A request that stores a    *)
(* file does so before it takes the write lock, one that removes a file    *)
(* does so under the lock (delete_broadcast) or after its commit           *)
(* (delete_log, delete_br): each gap is a step of its own.                 *)
(***************************************************************************)
EXTENDS Integers, FiniteSets, SequencesExt

CONSTANTS
    BR,         \* battle reports
    GLOG,       \* contents of gamelogs
    BLOG,       \* contents of fleet-broadcast logs
    LinesOf,    \* the instants of the broadcasts that a version of the parser finds
                \* in a broadcast log, newest first, as LinesOf[version][log]
    Day,        \* a day, in the unit of the instants
    BattleAt,   \* BattleReport.battle_at, 0 for NULL
    FightSets,  \* the fights a report can have, as [id, start, end]
    Pad,        \* slack around a fight
    REQ,        \* requests in flight
    MaxFiles    \* bound on broadcast_file_id

Ends == {f.end : f \in UNION FightSets} \union {BattleAt[b] : b \in BR}

\* A log's lines are in order and less than a day apart, the newest is less than
\* half a day from every instant that its report may be dated by, and the versions
\* of the parser find the newest on the same day.
ASSUME UploadAssumption ==
    /\ Day \in Nat \ {0} /\ Pad \in Nat /\ MaxFiles \in Nat
    /\ GLOG \intersect BLOG = {}
    /\ LinesOf \in [{1, 2} -> [BLOG -> Seq(Nat)]]
    /\ BattleAt \in [BR -> Nat]
    /\ \A F \in FightSets : IsFiniteSet(F) /\ \A f \in F : f.end \in Nat
    /\ \A p, q \in {1, 2}, c \in BLOG :
         LET lines == LinesOf[p][c] IN
         lines # <<>> =>
           /\ \A k \in 2..Len(lines) :
                lines[k] <= lines[k - 1] /\ lines[k - 1] < lines[k] + Day
           /\ \A e \in Ends \ {0} :
                2 * e < 2 * lines[1] + Day /\ 2 * lines[1] < 2 * e + Day
           /\ LinesOf[q][c] # <<>> => LinesOf[q][c][1] \div Day = lines[1] \div Day

VARIABLES
    report,     \* reports with a BattleReport row
    fights,     \* the fights of each report
    disk,       \* contents with a file in log_dir
    glog,       \* contents with a GamelogFile row (sha256 is unique)
    bfile,      \* BroadcastFile rows with their Broadcast rows, by id
    parser,     \* the version of the parser deployed
    req,        \* locals of the requests in flight
    excused     \* history: contents removed, since they were last stored, while
                \* an upload of them was under way or by a delete rolled back

vars == <<report, fights, disk, glog, bfile, parser, req, excused>>

Idle == [op |-> "none"]
NoFile == [i \in {} |-> Idle]
NoDate == -1

FilesOf(b) == {i \in DOMAIN bfile : bfile[i].br = b}
\* The rows of broadcast files that point at the stored file of c.
PointingAt(rows, c) == {i \in DOMAIN rows : rows[i].content = c}
Without(rows, ids) == [i \in DOMAIN rows \ ids |-> rows[i]]

-----------------------------------------------------------------------------
(* Dates.  A log has times of day only, newest line first.                 *)

TimeOfDay(t) == t % Day
DateOf(t) == t \div Day
Distance(a, b) == IF a < b THEN b - a ELSE a - b

\* The date for the newest line that brings it nearest to the battle's end:
\* of the day before, the day and the day after, the first of the nearest.
ChooseAnchorDate(tod, end) ==
    LET Away(d) == Distance(d * Day + tod, end)
        near == {d \in DateOf(end) - 1 .. DateOf(end) + 1 :
                   \A o \in DateOf(end) - 1 .. DateOf(end) + 1 : Away(d) <= Away(o)}
    IN Min(near)

\* Mutant: the date goes down at every line of a smaller time of day.
ReconstructDatesBackwards(tods, anchor) ==
    LET crossed(k) == {j \in 2..k : tods[j] < tods[j - 1]} IN
    [k \in DOMAIN tods |-> (anchor - Cardinality(crossed(k))) * Day + tods[k]]

\* Going back in time, a greater time of day is that of the day before.
ReconstructDates(tods, anchor) ==
    LET crossed(k) == {j \in 2..k : tods[j] > tods[j - 1]} IN
    [k \in DOMAIN tods |-> (anchor - Cardinality(crossed(k))) * Day + tods[k]]

\* parse_broadcast, by version p of the parser.
Parse(c, p) == LinesOf[p][c]
TimesOfDay(lines) == [k \in DOMAIN lines |-> TimeOfDay(lines[k])]

\* The instants of lines from the date of the newest: none without one.
Dated(lines, anchor) ==
    IF anchor = NoDate THEN <<>> ELSE ReconstructDates(TimesOfDay(lines), anchor)

-----------------------------------------------------------------------------
(* Broadcast files.                                                        *)

\* The last fight's end, else battle_at, 0 for neither.
ReferenceEnd(b) ==
    IF fights[b] # {} THEN Max({f.end : f \in fights[b]}) ELSE BattleAt[b]

\* _canonical_key: more broadcasts, then a later end, then the newer row.
LastEnd(row) == Max({0} \union ToSet(row.ts))
Beats(rows, i, j) ==
    \/ Len(rows[i].ts) > Len(rows[j].ts)
    \/ /\ Len(rows[i].ts) = Len(rows[j].ts)
       /\ \/ LastEnd(rows[i]) > LastEnd(rows[j])
          \/ LastEnd(rows[i]) = LastEnd(rows[j]) /\ i > j

\* The ids of the files of b that are not its most complete one.
Superseded(rows, b) ==
    LET mine == {i \in DOMAIN rows : rows[i].br = b}
    IN {i \in mine : \E j \in mine : Beats(rows, j, i)}

ApplySupersession(rows, b) ==
    [i \in DOMAIN rows |->
       IF rows[i].br = b
         THEN [rows[i] EXCEPT !.superseded = i \in Superseded(rows, b)]
         ELSE rows[i]]

\* The fights of b in the order an unordered SELECT may yield them.
Orders(b) == SetToSeqs(fights[b])

\* The fight a broadcast at t is stamped with: the first that claims it.
StampOf(order, t) ==
    LET claims == {k \in DOMAIN order :
                     order[k].start <= t + Pad /\ t <= order[k].end + Pad}
    IN IF claims = {} THEN 0 ELSE order[Min(claims)].id

Associate(rows, b, order) ==
    [i \in DOMAIN rows |->
       IF rows[i].br = b
         THEN [rows[i] EXCEPT !.fight =
                 [k \in DOMAIN rows[i].ts |-> StampOf(order, rows[i].ts[k])]]
         ELSE rows[i]]

\* Mutant: the flags stay as they were.
SettleStampsOnly(rows, b, order) == Associate(rows, b, order)

\* What every transaction on the files of b ends with.
Settle(rows, b, order) == Associate(ApplySupersession(rows, b), b, order)

\* list_broadcasts: every broadcast of the files that are not superseded.
ListBroadcasts(b) ==
    UNION {{i} \X DOMAIN bfile[i].ts : i \in {j \in FilesOf(b) : ~bfile[j].superseded}}

\* get_broadcast_file: of those files the newest, which has the highest id.
BroadcastFileShown(b) == Max({i \in FilesOf(b) : ~bfile[i].superseded} \union {0})

-----------------------------------------------------------------------------
Init ==
    /\ report = BR
    /\ fights \in [BR -> FightSets]
    /\ disk = {} /\ glog = {} /\ bfile = NoFile
    /\ parser = 1
    /\ req = [r \in REQ |-> Idle]
    /\ excused = {}

Become(r, state) == req' = [req EXCEPT ![r] = state]
Uploading(c) == \E r \in REQ : req[r].op \in {"log", "broadcast"} /\ req[r].content = c

\* The file of c goes: an upload of c that has seen it, or is about to
\* commit, ends without it.
Unlink(C) ==
    /\ disk' = disk \ C
    /\ excused' = excused \union {c \in C : Uploading(c)}

(* Gamelogs.                                                               *)

\* ingest_log up to its first INSERT: no row with this hash, the content is
\* valid and has effect lines, its file is stored unless there is one.
UploadLogStore(r, c) ==
    /\ req[r] = Idle
    /\ c \notin glog
    /\ disk' = disk \union {c}
    /\ excused' = excused \ {c}
    /\ Become(r, [op |-> "log", content |-> c])
    /\ UNCHANGED <<report, fights, glog, bfile, parser>>

\* The row and its events, to the commit; the unique hash makes the loser of
\* a race a duplicate.
UploadLogCommit(r) ==
    /\ req[r].op = "log"
    /\ glog' = glog \union {req[r].content}
    /\ Become(r, Idle)
    /\ UNCHANGED <<report, fights, disk, bfile, parser, excused>>

\* delete_log commits, then unlinks the path it was given.
DeleteLogCommit(r, c) ==
    /\ req[r] = Idle
    /\ c \in glog
    /\ glog' = glog \ {c}
    /\ Become(r, [op |-> "unlinkLog", content |-> c])
    /\ UNCHANGED <<report, fights, disk, bfile, parser, excused>>

\* An upload that comes in between has its file taken away.
DeleteLogUnlink(r) ==
    /\ req[r].op = "unlinkLog"
    /\ LET c == req[r].content IN
       /\ disk' = disk \ {c}
       /\ excused' = IF Uploading(c) \/ c \in glog THEN excused \union {c} ELSE excused
    /\ Become(r, Idle)
    /\ UNCHANGED <<report, fights, glog, bfile, parser>>

(* Fleet broadcasts.                                                       *)

HasFile(b, c) == \E i \in FilesOf(b) : bfile[i].content = c

\* upload_broadcast up to its first INSERT: an upload the report does not
\* have, an instant to anchor its dates to, and its file stored.
UploadBroadcastStore(r, b, c) ==
    /\ req[r] = Idle
    /\ b \in report /\ ~HasFile(b, c) /\ ReferenceEnd(b) # 0
    /\ disk' = disk \union {c} /\ excused' = excused \ {c}
    /\ LET lines == Parse(c, parser) IN
       Become(r, [op |-> "broadcast", br |-> b, content |-> c, lines |-> lines,
                  anchor |-> IF lines = <<>> THEN NoDate
                             ELSE ChooseAnchorDate(TimeOfDay(lines[1]), ReferenceEnd(b))])
    /\ UNCHANGED <<report, fights, glog, bfile, parser>>

\* The insert fails: the report has the file by now, or has gone itself.
UploadBroadcastFails(r) ==
    /\ req[r].op = "broadcast"
    /\ HasFile(req[r].br, req[r].content) \/ req[r].br \notin report
    /\ Become(r, Idle)
    /\ UNCHANGED <<report, fights, disk, glog, bfile, parser, excused>>

\* The id of the next row, one above the highest.
NewIds ==
    {id \in 1..MaxFiles :
       id - 1 \in DOMAIN bfile \union {0} /\ \A i \in DOMAIN bfile : i < id}
With(id, row) ==
    [i \in DOMAIN bfile \union {id} |-> IF i = id THEN row ELSE bfile[i]]

\* The row, its broadcasts, supersession and stamps in one transaction.
UploadBroadcastCommit(r) ==
    /\ req[r].op = "broadcast"
    /\ LET q == req[r]
           ts == Dated(q.lines, q.anchor)
           row == [br |-> q.br, content |-> q.content, anchor |-> q.anchor, ts |-> ts,
                   fight |-> [k \in DOMAIN ts |-> 0], superseded |-> FALSE]
       IN /\ q.br \in report /\ ~HasFile(q.br, q.content)
          /\ \E id \in NewIds, order \in Orders(q.br) :
               bfile' = Settle(With(id, row), q.br, order)
    /\ Become(r, Idle)
    /\ UNCHANGED <<report, fights, disk, glog, parser, excused>>

\* Mutant: the path is not looked up before it is unlinked.
UnreferencedAlways(rows, C) == C

\* unlink_if_unreferenced: the contents of C that no row points at.
Unreferenced(rows, C) == {c \in C : PointingAt(rows, c) = {}}

\* delete_broadcast by a request for report b: the row and its broadcasts go,
\* the stored file if nothing else points at it, and the rest is settled, in
\* one transaction...
DeleteBroadcast(b, i) ==
    /\ b \in report /\ i \in FilesOf(b)
    /\ LET left == Without(bfile, {i}) IN
       /\ Unlink(Unreferenced(left, {bfile[i].content}))
       /\ \E order \in Orders(b) : bfile' = Settle(left, b, order)
    /\ UNCHANGED <<report, fights, glog, parser, req>>

\* ... which is rolled back when the file is another report's and the request
\* refused, or when the process dies before the commit: what was unlinked
\* stays so.
DeleteBroadcastRolledBack(i) ==
    /\ report # {} /\ i \in DOMAIN bfile
    /\ LET gone == Unreferenced(Without(bfile, {i}), {bfile[i].content}) IN
       /\ disk' = disk \ gone
       /\ excused' = excused \union gone
    /\ UNCHANGED <<report, fights, glog, bfile, parser, req>>

\* delete_br commits the cascade...
DeleteBrCommit(r, b) ==
    /\ req[r] = Idle
    /\ b \in report
    /\ report' = report \ {b}
    /\ fights' = [fights EXCEPT ![b] = {}]
    /\ bfile' = Without(bfile, FilesOf(b))
    /\ Become(r, [op |-> "unlinkAll", paths |-> {bfile[i].content : i \in FilesOf(b)}])
    /\ UNCHANGED <<disk, glog, parser, excused>>

\* ... and looks after the stored files, one by one.
DeleteBrUnlink(r) ==
    /\ req[r].op = "unlinkAll"
    /\ IF req[r].paths = {}
         THEN Become(r, Idle) /\ UNCHANGED <<disk, excused>>
         ELSE \E c \in req[r].paths :
                /\ Unlink(Unreferenced(bfile, {c}))
                /\ Become(r, [req[r] EXCEPT !.paths = @ \ {c}])
    /\ UNCHANGED <<report, fights, glog, bfile, parser>>

(* The rest of the system.                                                 *)

\* A refresh or a side override rebuilds the fights of b: broadcasts are not
\* associated again.
RebuildFights(b) ==
    /\ b \in report
    /\ fights' \in {[fights EXCEPT ![b] = F] : F \in FightSets}
    /\ UNCHANGED <<report, disk, glog, bfile, parser, req, excused>>

\* A release with a better parser.
Upgrade ==
    /\ parser = 1 /\ parser' = 2
    /\ req' = [r \in REQ |-> Idle]
    /\ UNCHANGED <<report, fights, disk, glog, bfile, excused>>

\* The rows of file i as the parser deployed makes them, from its old anchor.
Reparsed(i) ==
    [bfile[i] EXCEPT !.ts = Dated(Parse(bfile[i].content, parser), bfile[i].anchor)]

\* reparse_broadcasts: every readable file, then the reports they belong to,
\* committed at once.
ReparseBroadcasts ==
    LET readable == {i \in DOMAIN bfile : bfile[i].content \in disk}
        touched == {bfile[i].br : i \in readable}
        rows == [i \in DOMAIN bfile |-> IF i \in readable THEN Reparsed(i) ELSE bfile[i]]
    IN /\ \E orders \in [touched -> UNION {Orders(b) : b \in touched}] :
            /\ \A b \in touched : orders[b] \in Orders(b)
            /\ bfile' = [i \in DOMAIN rows |->
                           IF rows[i].br \in touched
                             THEN Settle(rows, rows[i].br, orders[rows[i].br])[i]
                             ELSE rows[i]]
       /\ UNCHANGED <<report, fights, disk, glog, parser, req, excused>>

\* The process dies: transactions in flight are rolled back, files stay.
Crash ==
    /\ req # [r \in REQ |-> Idle]
    /\ req' = [r \in REQ |-> Idle]
    /\ UNCHANGED <<report, fights, disk, glog, bfile, parser, excused>>

Next ==
    \/ \E r \in REQ :
         \/ \E c \in GLOG : UploadLogStore(r, c) \/ DeleteLogCommit(r, c)
         \/ \E b \in BR, c \in BLOG : UploadBroadcastStore(r, b, c)
         \/ UploadLogCommit(r) \/ DeleteLogUnlink(r)
         \/ UploadBroadcastCommit(r) \/ UploadBroadcastFails(r)
         \/ \E b \in BR : DeleteBrCommit(r, b)
         \/ DeleteBrUnlink(r)
    \/ \E b \in BR :
         \/ \E i \in DOMAIN bfile : DeleteBroadcast(b, i)
         \/ RebuildFights(b)
    \/ \E i \in DOMAIN bfile : DeleteBroadcastRolledBack(i)
    \/ Upgrade \/ ReparseBroadcasts \/ Crash

Spec == Init /\ [][Next]_vars

-----------------------------------------------------------------------------
\* "Remove a stored broadcast file once no BroadcastFile row points at it"
\* (unlink_if_unreferenced), "content-addressed and now unreferenced"
\* (delete_log): a row loses its file only when a removal overtook an upload
\* of the same content, or was part of a delete that was rolled back.
RowsKeepTheirFiles ==
    \A c \in GLOG \union BLOG :
      c \in glog \/ PointingAt(bfile, c) # {} => c \in disk \union excused

\* "Keep the single most-complete broadcast file per BR" (_apply_supersession):
\* whatever was uploaded, deleted or parsed anew, the broadcasts listed for a
\* report are those of the one file it shows, and no file of it has more.
OneFileSpeaks ==
    \A b \in BR : FilesOf(b) # {} =>
      LET i == BroadcastFileShown(b) IN
      /\ i \in FilesOf(b)
      /\ ListBroadcasts(b) = {i} \X DOMAIN bfile[i].ts
      /\ \A j \in FilesOf(b) : Len(bfile[j].ts) <= Len(bfile[i].ts)

\* Dates recovered from times of day are the true ones, across midnight, from
\* whichever fights a report had at the upload, and a reparse keeps them
\* ("persisted so reparse reproduces the date reconstruction").
DatesAreTrue ==
    \A i \in DOMAIN bfile :
      \E p \in {1, 2} : bfile[i].ts = Parse(bfile[i].content, p)

-----------------------------------------------------------------------------
(* What the repository says and the code does not do.                      *)

\* "fight_id is stamped by time-window overlap" (models.py): a stamp names a
\* fight of the report that claims the broadcast.
StampsNameAFight ==
    \A i \in DOMAIN bfile : \A k \in DOMAIN bfile[i].ts :
      bfile[i].fight[k] # 0 =>
        \E f \in fights[bfile[i].br] :
          /\ f.id = bfile[i].fight[k]
          /\ f.start <= bfile[i].ts[k] + Pad /\ bfile[i].ts[k] <= f.end + Pad
=============================================================================
